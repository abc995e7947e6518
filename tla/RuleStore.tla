------------------------------ MODULE RuleStore ------------------------------
(***************************************************************************)
(* The copies of the learned rules and the processes that move them:       *)
(*                                                                         *)
(*   - filewalld's main thread: start-up, the event loop's RELOAD check    *)
(*     and the rules an "Always" answer adds (filewalld/src/main.rs);      *)
(*   - its watcher thread (filewalld/src/watcher.rs);                      *)
(*   - filewallctl remove / reload (filewallctl/src/main.rs);              *)
(*   - an operator who edits config.toml and rules.toml.                   *)
(*                                                                         *)
(* No lock protects rules.toml: each process loads the whole file, changes *)
(* its own copy and writes the whole copy back.                            *)
(***************************************************************************)
EXTENDS Rules

CONSTANTS
  Ctl,           \* concurrent filewallctl invocations
  Learnable,     \* rules an "Always" answer can produce, id 0
  ConfigText,    \* contents of config.toml
  BrokenConfig,  \* those that do not parse or do not compile
  InitialFiles,  \* rules.toml before the first start
  EditedFiles,   \* rules.toml as an operator may leave it
  MaxLearn, MaxEdit, MaxCrash, MaxSaveFail, MaxCtl    \* bounds on the inputs

ASSUME LearnableAssumption ==
  \A r \in Learnable : r.id = 0 /\ r \in LearnedRule

ASSUME FilesAssumption ==
  \A file \in InitialFiles \cup EditedFiles :
    IsFile(file) /\ (file # Unreadable => DistinctIds(file[1]))

ASSUME ConfigAssumption == BrokenConfig \subseteq ConfigText

ASSUME BoundsAssumption ==
  {MaxLearn, MaxEdit, MaxCrash, MaxSaveFail, MaxCtl} \subseteq Nat

VARIABLES
  dpc,       \* where filewalld's main thread is
  rules,     \* its in-memory rules
  config,    \* the config.toml its policy was built from
  reload,    \* the RELOAD atomic
  watcher,   \* the watcher thread: "off", blocked in "read", about to "store"
  inotify,   \* a change of config.toml or rules.toml is queued for it
  pidfile,   \* "none", naming the "live" daemon, or "stale"
  rulesFile, \* rules.toml
  configFile,\* config.toml
  cpc,       \* where each filewallctl is
  copy,      \* the rules each filewallctl holds
  target,    \* the ids each was asked to remove
  budget,    \* inputs left, by kind
  seen,      \* history: every rule a reader of rules.toml has been shown
  revoked,   \* history: the rules filewallctl reported as removed
  unsaved    \* history: the last save of the daemon failed

daemonVars == <<dpc, rules, config, reload, pidfile, unsaved>>
watcherVars == <<watcher, inotify>>
fileVars == <<rulesFile, configFile>>
ctlVars == <<cpc, copy, target, revoked>>
vars == <<daemonVars, watcherVars, fileVars, ctlVars, budget, seen>>

Boot == {"spawn_watcher", "load_rules", "signal", "write_pidfile"}
Inputs == {"learn", "edit", "crash", "savefail", "ctl"}
Up == {"loop", "load_config", "reload_rules", "save"}

TypeOK ==
  /\ dpc \in {"down"} \cup Boot \cup Up
  /\ IsStore(rules)
  /\ config \in ConfigText /\ configFile \in ConfigText
  /\ reload \in BOOLEAN /\ inotify \in BOOLEAN /\ unsaved \in BOOLEAN
  /\ watcher \in {"off", "read", "store"}
  /\ pidfile \in {"none", "live", "stale"}
  /\ IsFile(rulesFile)
  /\ cpc \in [Ctl -> {"idle", "loaded", "signal"}]
  /\ DOMAIN copy = Ctl /\ \A c \in Ctl : IsStore(copy[c])
  /\ target \in [Ctl -> SUBSET Nat]
  /\ budget \in [Inputs -> Nat]
  /\ seen \subseteq LearnedRule /\ revoked \subseteq LearnedRule

OnDisk(file) == Range(Load(file).rules)

Init ==
  /\ dpc = "down" /\ rules = DefaultStore /\ reload = FALSE /\ unsaved = FALSE
  /\ configFile \in ConfigText \ BrokenConfig /\ config = configFile
  /\ watcher = "off" /\ inotify = FALSE /\ pidfile = "none"
  /\ rulesFile \in InitialFiles
  /\ cpc = [c \in Ctl |-> "idle"]
  /\ copy = [c \in Ctl |-> DefaultStore]
  /\ target = [c \in Ctl |-> {}]
  /\ budget = [kind \in Inputs |->
                CASE kind = "learn" -> MaxLearn [] kind = "edit" -> MaxEdit
                  [] kind = "crash" -> MaxCrash [] kind = "ctl" -> MaxCtl
                  [] kind = "savefail" -> MaxSaveFail]
  /\ seen = OnDisk(rulesFile) /\ revoked = {}

Spend(kind) ==
  /\ budget[kind] > 0
  /\ budget' = [budget EXCEPT ![kind] = @ - 1]

\* Close-after-write or rename of a watched name.
Notify == inotify' = (inotify \/ watcher # "off")

\* Fault: a watch that does not look at renames.
WriteRulesUnseen(store) ==
  /\ rulesFile' = <<store>>
  /\ seen' = seen \cup Range(store.rules)
  /\ UNCHANGED <<watcher, inotify, configFile>>

\* save_atomic: rename is the only step other processes can see.
WriteRules(store) ==
  /\ rulesFile' = <<store>>
  /\ seen' = seen \cup Range(store.rules)
  /\ Notify
  /\ UNCHANGED <<watcher, configFile>>

------------------------------------------------------------------------------
(* filewalld: run() *)

StartLoadConfig ==
  /\ dpc = "down" /\ configFile \notin BrokenConfig
  /\ config' = configFile
  /\ dpc' = "spawn_watcher"
  /\ UNCHANGED <<rules, reload, pidfile, unsaved, watcherVars, fileVars,
                 ctlVars, budget, seen>>

SpawnWatcher ==
  /\ dpc = "spawn_watcher"
  /\ watcher' = "read"
  /\ dpc' = "load_rules"
  /\ UNCHANGED <<rules, config, reload, pidfile, unsaved, inotify, fileVars,
                 ctlVars, budget, seen>>

StartLoadRules ==
  /\ dpc = "load_rules"
  /\ rules' = Load(rulesFile)
  /\ dpc' = "signal"
  /\ UNCHANGED <<config, reload, pidfile, unsaved, watcherVars, fileVars,
                 ctlVars, budget, seen>>

\* Fault: the pidfile is written before the handler is installed.
PidfileFirst ==
  /\ dpc = "signal"
  /\ pidfile' = "live"
  /\ dpc' = "write_pidfile"
  /\ UNCHANGED <<rules, config, reload, unsaved, watcherVars, fileVars,
                 ctlVars, budget, seen>>

InstallSighupHandler ==
  /\ dpc = "signal"
  /\ dpc' = "write_pidfile"
  /\ UNCHANGED <<rules, config, reload, pidfile, unsaved, watcherVars, fileVars,
                 ctlVars, budget, seen>>

WritePidfile ==
  /\ dpc = "write_pidfile"
  /\ pidfile' = "live"
  /\ dpc' = "loop"
  /\ UNCHANGED <<rules, config, reload, unsaved, watcherVars, fileVars,
                 ctlVars, budget, seen>>

\* The process dies: everything in memory goes, the files stay.
Stop ==
  /\ dpc' = "down"
  /\ rules' = DefaultStore /\ reload' = FALSE /\ unsaved' = FALSE
  /\ watcher' = "off" /\ inotify' = FALSE
  /\ pidfile' = IF pidfile = "live" THEN "stale" ELSE pidfile
  /\ UNCHANGED <<config, fileVars, seen>>

Crash ==
  /\ dpc # "down" /\ Spend("crash")
  /\ Stop
  /\ UNCHANGED ctlVars

------------------------------------------------------------------------------
(* filewalld: event_loop() *)

\* RELOAD.swap(false): the flag is cleared before anything is read.
TakeReload ==
  /\ dpc = "loop" /\ reload
  /\ reload' = FALSE
  /\ dpc' = "load_config"
  /\ UNCHANGED <<rules, config, pidfile, unsaved, watcherVars, fileVars,
                 ctlVars, budget, seen>>

\* Fault: nothing is reloaded when the config has not changed.
ReloadIfConfigChanged ==
  /\ dpc = "load_config"
  /\ \/ /\ configFile \notin BrokenConfig \cup {config}
        /\ config' = configFile
        /\ dpc' = "reload_rules"
     \/ /\ configFile \in BrokenConfig \cup {config}
        /\ dpc' = "loop"
        /\ UNCHANGED config
  /\ UNCHANGED <<rules, reload, pidfile, unsaved, watcherVars, fileVars,
                 ctlVars, budget, seen>>

ReloadConfig ==
  /\ dpc = "load_config"
  /\ \/ /\ configFile \notin BrokenConfig
        /\ config' = configFile
        /\ dpc' = "reload_rules"
     \/ /\ configFile \in BrokenConfig   \* keep config and rules
        /\ dpc' = "loop"
        /\ UNCHANGED config
  /\ UNCHANGED <<rules, reload, pidfile, unsaved, watcherVars, fileVars,
                 ctlVars, budget, seen>>

ReloadRules ==
  /\ dpc = "reload_rules"
  /\ rules' = Load(rulesFile)
  /\ unsaved' = FALSE
  /\ dpc' = "loop"
  /\ UNCHANGED <<config, reload, pidfile, watcherVars, fileVars,
                 ctlVars, budget, seen>>

\* An "Always" answer to a prompt.
Learn(rule) ==
  /\ dpc = "loop" /\ Spend("learn")
  /\ rules' = Push(rules, rule)
  /\ dpc' = "save"
  /\ UNCHANGED <<config, reload, pidfile, unsaved, watcherVars, fileVars,
                 ctlVars, seen>>

SaveRules ==
  /\ dpc = "save"
  /\ WriteRules(rules)
  /\ unsaved' = FALSE
  /\ dpc' = "loop"
  /\ UNCHANGED <<rules, config, reload, pidfile, ctlVars, budget>>

\* Fault: a save in place that fails half-way.
SaveTornFails ==
  /\ dpc = "save" /\ Spend("savefail")
  /\ unsaved' = TRUE
  /\ rulesFile' = Unreadable
  /\ dpc' = "loop"
  /\ UNCHANGED <<rules, config, reload, pidfile, watcherVars, configFile,
                 ctlVars, seen>>

\* The rule stays in memory; the failure is only logged.
SaveRulesFails ==
  /\ dpc = "save" /\ Spend("savefail")
  /\ unsaved' = TRUE
  /\ dpc' = "loop"
  /\ UNCHANGED <<rules, config, reload, pidfile, watcherVars, fileVars,
                 ctlVars, seen>>

------------------------------------------------------------------------------
(* The watcher thread. *)

WatcherRead ==
  /\ watcher = "read" /\ inotify
  /\ inotify' = FALSE
  /\ watcher' = "store"
  /\ UNCHANGED <<daemonVars, fileVars, ctlVars, budget, seen>>

WatcherStore ==
  /\ watcher = "store"
  /\ reload' = TRUE
  /\ watcher' = "read"
  /\ UNCHANGED <<dpc, rules, config, pidfile, unsaved, inotify, fileVars,
                 ctlVars, budget, seen>>

------------------------------------------------------------------------------
(* filewallctl *)

\* kill(pid, SIGHUP), pid from the pidfile.  A stale pid is nobody's; the live
\* daemon sets RELOAD, or dies if it has not installed its handler.
Sighup ==
  \/ /\ pidfile # "live"
     /\ UNCHANGED <<daemonVars, watcherVars, fileVars, seen>>
  \/ /\ pidfile = "live" /\ dpc \in Up
     /\ reload' = TRUE
     /\ UNCHANGED <<dpc, rules, config, pidfile, unsaved, watcherVars, fileVars,
                    seen>>
  \/ /\ pidfile = "live" /\ dpc \in Boot
     /\ Stop

CtlLoad(c, ids) ==
  /\ cpc[c] = "idle" /\ Spend("ctl")
  /\ copy' = [copy EXCEPT ![c] = Load(rulesFile)]
  /\ target' = [target EXCEPT ![c] = ids]
  /\ cpc' = [cpc EXCEPT ![c] = "loaded"]
  /\ UNCHANGED <<daemonVars, watcherVars, fileVars, revoked, seen>>

\* Nothing is written, and nobody is signalled, unless a rule matched.
CtlSave(c) ==
  /\ cpc[c] = "loaded"
  /\ LET hit == Ids(copy[c]) \cap target[c]
     IN  \/ /\ hit # {}
            /\ copy' = [copy EXCEPT ![c] = RemoveIds(@, hit)]
            /\ WriteRules(copy'[c])
            /\ revoked' = revoked \cup
                 {r \in Range(copy[c].rules) : r.id \in hit}
            /\ cpc' = [cpc EXCEPT ![c] = "signal"]
         \/ /\ hit = {}
            /\ cpc' = [cpc EXCEPT ![c] = "idle"]
            /\ UNCHANGED <<copy, revoked, watcherVars, fileVars, seen>>
  /\ UNCHANGED <<daemonVars, target, budget>>

\* The write failed: the command fails, no signal.
CtlSaveFails(c) ==
  /\ cpc[c] = "loaded" /\ Ids(copy[c]) \cap target[c] # {}
  /\ Spend("savefail")
  /\ cpc' = [cpc EXCEPT ![c] = "idle"]
  /\ UNCHANGED <<daemonVars, watcherVars, fileVars, copy, target, revoked, seen>>

CtlSignal(c) ==
  /\ cpc[c] = "signal"
  /\ Sighup
  /\ cpc' = [cpc EXCEPT ![c] = "idle"]
  /\ UNCHANGED <<copy, target, revoked, budget>>

\* filewallctl reload
CtlReload ==
  /\ Spend("ctl")
  /\ Sighup
  /\ UNCHANGED ctlVars

------------------------------------------------------------------------------
(* The operator's editor, which closes the file it wrote. *)

EditConfig(text) ==
  /\ text # configFile /\ Spend("edit")
  /\ configFile' = text
  /\ Notify
  /\ UNCHANGED <<daemonVars, watcher, rulesFile, ctlVars, seen>>

\* What the file held before is gone by the operator's will: the histories
\* start again from the new content.
EditRules(file) ==
  /\ file # rulesFile /\ Spend("edit")
  /\ rulesFile' = file
  /\ seen' = OnDisk(file)
  /\ revoked' = {}
  /\ Notify
  /\ UNCHANGED <<daemonVars, watcher, configFile, cpc, copy, target>>

------------------------------------------------------------------------------
Daemon ==
  \/ StartLoadConfig \/ SpawnWatcher \/ StartLoadRules \/ InstallSighupHandler
  \/ WritePidfile \/ TakeReload \/ ReloadConfig \/ ReloadRules
  \/ SaveRules \/ SaveRulesFails
  \/ \E rule \in Learnable : Learn(rule)

Watcher == WatcherRead \/ WatcherStore

CtlNext(c) ==
  \/ \E ids \in SUBSET Ids(Load(rulesFile)) : CtlLoad(c, ids)
  \/ CtlSave(c) \/ CtlSaveFails(c) \/ CtlSignal(c)

Next ==
  \/ Daemon
  \/ Watcher
  \/ Crash
  \/ \E c \in Ctl : CtlNext(c)
  \/ CtlReload
  \/ \E text \in ConfigText : EditConfig(text)
  \/ \E file \in EditedFiles : EditRules(file)

Spec == Init /\ [][Next]_vars

\* The daemon's own steps and the watcher thread are always scheduled again
\* (systemd restarts the daemon); nothing is assumed of learning, crashes,
\* filewallctl or the operator.
Fairness ==
  /\ WF_vars(StartLoadConfig) /\ WF_vars(SpawnWatcher)
  /\ WF_vars(StartLoadRules) /\ WF_vars(InstallSighupHandler)
  /\ WF_vars(WritePidfile) /\ WF_vars(TakeReload) /\ WF_vars(ReloadConfig)
  /\ WF_vars(ReloadRules) /\ WF_vars(SaveRules \/ SaveRulesFails)
  /\ WF_vars(Watcher)

FairSpec == Spec /\ Fairness

------------------------------------------------------------------------------
(* Properties. *)

\* In every copy of the store - the daemon's, each filewallctl's and the file's
\* - an id names at most one rule, and no copy in memory holds an id its
\* allocator can hand out again (alloc_id, backfill_ids).
WellFormedStores ==
  /\ DistinctIds(rules) /\ Stamped(rules)
  /\ \A c \in Ctl : DistinctIds(copy[c]) /\ Stamped(copy[c])
  /\ rulesFile # Unreadable => DistinctIds(rulesFile[1])

\* An id that `filewallctl list` has shown keeps naming that rule: not across
\* crashes, restarts, failed saves or the back-fill of a file without ids does
\* it come to name another (lib.rs: "never reused").
IdNamesOneRule ==
  \A r, s \in seen : r.id = s.id => r = s

\* A rule that reached rules.toml leaves it only by a filewallctl remove that
\* named it: never by a crash, a reload or a later save (README: the choice is
\* persisted to rules.toml).
LearnedStays == seen \ revoked \subseteq OnDisk(rulesFile)

Book == INSTANCE Ledger WITH ledger <- OnDisk(rulesFile)

\* While the daemon is the only writer, rules.toml is a ledger: nothing is struck
\* out of it, and what is added has ids above all that were there (alloc_id).
ImplementsLedger == Book!Spec

\* What `filewallctl remove` reported as removed does not come back.
RevokedStaysRevoked == revoked \cap OnDisk(rulesFile) = {}

\* No change of rules.toml is missed: a daemon that enforces something else
\* has a reload under way or coming.  Excused are a save that failed and a
\* config.toml that cannot be loaded, which also holds back the rules.
NoReloadLost ==
  dpc \in {"loop", "save"} =>
    \/ rules = Load(rulesFile)
    \/ reload \/ inotify \/ watcher = "store"
    \/ dpc = "save" \/ unsaved
    \/ configFile \in BrokenConfig

\* The pidfile names a daemon only once a SIGHUP will not kill it.
SighupIsHandled == pidfile = "live" => dpc \in Up

\* Once the inputs stop, the daemon comes to enforce the rules on disk.
RulesEventuallyEnforced ==
  <>[](\/ dpc = "loop" /\ (rules = Load(rulesFile) \/ unsaved)
       \/ configFile \in BrokenConfig)
==============================================================================
