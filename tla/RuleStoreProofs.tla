--------------------------- MODULE RuleStoreProofs ---------------------------
(***************************************************************************)
(* Every copy of the rule store stays well formed and no change of it is   *)
(* missed, for every number of filewallctl invocations, every set of rules *)
(* and every file they start from; and with the daemon as its only writer  *)
(* rules.toml is a Ledger.                                                 *)
(***************************************************************************)
EXTENDS RuleStore, RulesProofs

(* The inductive invariant, in parts: a step that leaves the variables of  *)
(* a part alone leaves the part alone.                                     *)

ControlOK ==
  /\ dpc \in {"down"} \cup Boot \cup Up
  /\ config \in ConfigText /\ configFile \in ConfigText
  /\ reload \in BOOLEAN /\ inotify \in BOOLEAN /\ unsaved \in BOOLEAN
  /\ watcher \in {"off", "read", "store"}
  /\ pidfile \in {"none", "live", "stale"}
  /\ cpc \in [Ctl -> {"idle", "loaded", "signal"}]
  /\ target \in [Ctl -> SUBSET Nat]
  /\ budget \in [Inputs -> Nat]

MemoryGood == GoodStore(rules)

CopiesGood == DOMAIN copy = Ctl /\ \A c \in Ctl : GoodStore(copy[c])

GoodFile(file) ==
  IsFile(file) /\ (file # Unreadable => DistinctIds(file[1]))

FileGood == GoodFile(rulesFile)

HistoryTyped == seen \subseteq LearnedRule /\ revoked \subseteq LearnedRule

IInv == ControlOK /\ MemoryGood /\ CopiesGood /\ FileGood /\ HistoryTyped

------------------------------------------------------------------------------
\* The rules of a well-formed store are learned rules, its ids naturals.
LEMMA GoodStoreRules ==
  ASSUME NEW store, GoodStore(store)
  PROVE  Range(store.rules) \subseteq LearnedRule /\ Ids(store) \subseteq Nat
BY StoreIds DEF GoodStore, IsStore

\* What a reader makes of a good rules.toml is well formed.
LEMMA GoodFileLoads ==
  ASSUME NEW file, GoodFile(file)
  PROVE  GoodStore(Load(file)) /\ OnDisk(file) \subseteq LearnedRule
BY LoadGood, GoodStoreRules DEF GoodFile, OnDisk

\* A well-formed store makes a good rules.toml.
LEMMA SavedStoreIsGoodFile ==
  ASSUME NEW store, GoodStore(store)
  PROVE  GoodFile(<<store>>)
BY DEF GoodFile, IsFile, GoodStore

\* Spending an input keeps the control variables in their types.
LEMMA SpendTyped ==
  ASSUME ControlOK, NEW kind \in Inputs,
         Spend(kind)
  PROVE  budget' \in [Inputs -> Nat]
BY DEF ControlOK, Spend

\* save_atomic of a well-formed store keeps the invariant.
LEMMA WriteRulesGood ==
  ASSUME IInv, NEW store, GoodStore(store), WriteRules(store)
  PROVE  /\ FileGood' /\ seen' \subseteq LearnedRule
         /\ inotify' \in BOOLEAN /\ UNCHANGED <<watcher, configFile>>
<1>1. Range(store.rules) \subseteq LearnedRule
  BY GoodStoreRules
<1>2. GoodFile(<<store>>)
  BY SavedStoreIsGoodFile
<1> QED
  BY <1>1, <1>2 DEF IInv, FileGood, HistoryTyped, ControlOK, WriteRules, Notify

\* The invariant holds before the first start.
LEMMA InitGood == Init => IInv
<1> SUFFICES ASSUME Init PROVE IInv
  OBVIOUS
<1>1. FileGood
  BY FilesAssumption DEF Init, FileGood, GoodFile
<1>2. MemoryGood /\ CopiesGood
  BY DefaultStoreGood DEF Init, MemoryGood, CopiesGood
<1>3. ControlOK
  BY BoundsAssumption DEF Init, ControlOK, Inputs
<1>4. HistoryTyped
  BY <1>1, GoodFileLoads DEF Init, HistoryTyped, FileGood
<1> QED
  BY <1>1, <1>2, <1>3, <1>4 DEF IInv

\* Start-up, reloads, learning and saving keep the invariant.
LEMMA DaemonGood == IInv /\ Daemon => IInv'
<1> SUFFICES ASSUME IInv, Daemon PROVE IInv'
  OBVIOUS
<1> USE DEF daemonVars, watcherVars, fileVars, ctlVars, Boot, Up
<1>1. CASE \/ StartLoadConfig \/ SpawnWatcher \/ InstallSighupHandler
           \/ WritePidfile \/ TakeReload \/ ReloadConfig
  <2>1. ControlOK'
    BY <1>1 DEF IInv, ControlOK, StartLoadConfig, SpawnWatcher,
       InstallSighupHandler, WritePidfile, TakeReload, ReloadConfig
  <2>2. UNCHANGED <<rules, copy, rulesFile, seen, revoked>>
    BY <1>1 DEF StartLoadConfig, SpawnWatcher, InstallSighupHandler,
       WritePidfile, TakeReload, ReloadConfig
  <2> QED
    BY <2>1, <2>2 DEF IInv, MemoryGood, CopiesGood, FileGood, HistoryTyped
<1>2. CASE StartLoadRules \/ ReloadRules
  <2>1. ControlOK'
    BY <1>2 DEF IInv, ControlOK, StartLoadRules, ReloadRules
  <2>2. rules' = Load(rulesFile) /\ UNCHANGED <<copy, rulesFile, seen, revoked>>
    BY <1>2 DEF StartLoadRules, ReloadRules
  <2>3. MemoryGood'
    BY <2>2, GoodFileLoads DEF IInv, MemoryGood, FileGood
  <2> QED
    BY <2>1, <2>2, <2>3 DEF IInv, CopiesGood, FileGood, HistoryTyped
<1>3. ASSUME NEW rule \in Learnable, Learn(rule) PROVE IInv'
  <2>1. budget' \in [Inputs -> Nat]
    BY <1>3, SpendTyped DEF IInv, Learn, Inputs
  <2>2. ControlOK'
    BY <1>3, <2>1 DEF IInv, ControlOK, Learn
  <2>3. MemoryGood'
    BY <1>3, PushGood, LearnableAssumption DEF IInv, MemoryGood, Learn
  <2> QED
    BY <1>3, <2>2, <2>3 DEF IInv, CopiesGood, FileGood, HistoryTyped, Learn
<1>4. CASE SaveRules
  <2>1. FileGood' /\ seen' \subseteq LearnedRule /\ inotify' \in BOOLEAN
        /\ UNCHANGED <<watcher, configFile>>
    BY <1>4, WriteRulesGood DEF IInv, MemoryGood, SaveRules
  <2>2. ControlOK'
    BY <1>4, <2>1 DEF IInv, ControlOK, SaveRules
  <2> QED
    BY <1>4, <2>1, <2>2 DEF IInv, MemoryGood, CopiesGood, HistoryTyped, SaveRules
<1>5. CASE SaveRulesFails
  <2>1. budget' \in [Inputs -> Nat]
    BY <1>5, SpendTyped DEF IInv, SaveRulesFails, Inputs
  <2>2. ControlOK'
    BY <1>5, <2>1 DEF IInv, ControlOK, SaveRulesFails
  <2> QED
    BY <1>5, <2>2
       DEF IInv, MemoryGood, CopiesGood, FileGood, HistoryTyped, SaveRulesFails
<1> QED
  BY <1>1, <1>2, <1>3, <1>4, <1>5 DEF Daemon

\* The watcher thread moves flags only.
LEMMA WatcherGood == IInv /\ Watcher => IInv'
<1> SUFFICES ASSUME IInv, Watcher PROVE IInv'
  OBVIOUS
<1>1. ControlOK'
  BY DEF IInv, ControlOK, Watcher, WatcherRead, WatcherStore,
     daemonVars, fileVars, ctlVars
<1>2. UNCHANGED <<rules, copy, rulesFile, seen, revoked>>
  BY DEF Watcher, WatcherRead, WatcherStore, daemonVars, fileVars, ctlVars
<1> QED
  BY <1>1, <1>2 DEF IInv, MemoryGood, CopiesGood, FileGood, HistoryTyped

\* A daemon that dies leaves the files and the copies of others alone.
LEMMA StopGood ==
  ASSUME IInv, Stop
  PROVE  MemoryGood' /\ FileGood' /\ seen' = seen
BY DefaultStoreGood DEF IInv, MemoryGood, FileGood, Stop, fileVars

\* A daemon that dies leaves well-typed control variables.
LEMMA StopTyped ==
  ASSUME ControlOK, Stop, UNCHANGED target, budget' \in [Inputs -> Nat],
         cpc' \in [Ctl -> {"idle", "loaded", "signal"}]
  PROVE  ControlOK'
BY DEF ControlOK, Stop, fileVars

\* A crash keeps the invariant.
LEMMA CrashGood == IInv /\ Crash => IInv'
<1> SUFFICES ASSUME IInv, Crash PROVE IInv'
  OBVIOUS
<1>1. Stop /\ UNCHANGED <<cpc, copy, target, revoked>>
  BY DEF Crash, ctlVars
<1>2. budget' \in [Inputs -> Nat]
  BY SpendTyped DEF IInv, Crash, Inputs
<1>3. MemoryGood' /\ FileGood' /\ seen' = seen
  BY <1>1, StopGood
<1>4. ControlOK'
  <2>1. cpc' \in [Ctl -> {"idle", "loaded", "signal"}]
    BY <1>1 DEF IInv, ControlOK
  <2> QED
    BY <1>1, <1>2, <2>1, StopTyped DEF IInv
<1> QED
  BY <1>1, <1>3, <1>4 DEF IInv, CopiesGood, HistoryTyped

\* A SIGHUP to a daemon that is up sets a flag; to one that is starting, it kills.
LEMMA SighupGood ==
  ASSUME IInv, Sighup, UNCHANGED <<copy, target, revoked>>,
         cpc' \in [Ctl -> {"idle", "loaded", "signal"}],
         budget' \in [Inputs -> Nat]
  PROVE  IInv'
<1> USE DEF daemonVars, watcherVars, fileVars
<1>1. CASE pidfile = "live" /\ dpc \in Boot /\ Stop
  <2>1. MemoryGood' /\ FileGood' /\ seen' = seen
    BY <1>1, StopGood
  <2>2. ControlOK'
    BY <1>1, StopTyped DEF IInv
  <2> QED
    BY <2>1, <2>2 DEF IInv, CopiesGood, HistoryTyped
<1>2. CASE /\ reload' = TRUE \/ reload' = reload
           /\ UNCHANGED <<dpc, rules, config, pidfile, unsaved, watcherVars,
                          fileVars, seen>>
  <2>1. ControlOK'
    BY <1>2 DEF IInv, ControlOK
  <2> QED
    BY <1>2, <2>1 DEF IInv, MemoryGood, CopiesGood, FileGood, HistoryTyped
<1> QED
  BY <1>1, <1>2 DEF Sighup

\* filewallctl loads, removes, saves and signals within the invariant.
LEMMA CtlGood == ASSUME IInv, NEW c \in Ctl, CtlNext(c) PROVE IInv'
<1> USE DEF daemonVars, watcherVars, fileVars
<1>1. ASSUME NEW ids \in SUBSET Ids(Load(rulesFile)), CtlLoad(c, ids)
      PROVE  IInv'
  <2>1. GoodStore(Load(rulesFile)) /\ ids \in SUBSET Nat
    BY GoodFileLoads, GoodStoreRules DEF IInv, FileGood
  <2>2. CopiesGood'
    BY <1>1, <2>1 DEF IInv, CopiesGood, CtlLoad
  <2>3. budget' \in [Inputs -> Nat]
    BY <1>1, SpendTyped DEF IInv, CtlLoad, Inputs
  <2>4. ControlOK'
    BY <1>1, <2>1, <2>3 DEF IInv, ControlOK, CtlLoad
  <2> QED
    BY <1>1, <2>2, <2>4 DEF IInv, MemoryGood, FileGood, HistoryTyped, CtlLoad
<1>2. CASE CtlSave(c)
  <2> DEFINE hit == Ids(copy[c]) \cap target[c]
  <2>1. GoodStore(copy[c])
    BY DEF IInv, CopiesGood
  <2>2. CASE hit # {}
    <3>1. /\ copy' = [copy EXCEPT ![c] = RemoveIds(copy[c], hit)]
          /\ WriteRules(copy'[c])
          /\ revoked' = revoked \cup {r \in Range(copy[c].rules) : r.id \in hit}
          /\ cpc' = [cpc EXCEPT ![c] = "signal"]
          /\ UNCHANGED <<daemonVars, target, budget>>
      BY <1>2, <2>2 DEF CtlSave
    <3>2. GoodStore(RemoveIds(copy[c], hit))
      BY <2>1, RemoveIdsGood
    <3>3. CopiesGood' /\ GoodStore(copy'[c])
      BY <3>1, <3>2 DEF IInv, CopiesGood
    <3>4. /\ FileGood' /\ seen' \subseteq LearnedRule /\ inotify' \in BOOLEAN
          /\ UNCHANGED <<watcher, configFile>>
      BY <3>1, <3>3, WriteRulesGood
    <3>5. revoked' \subseteq LearnedRule
      BY <2>1, <3>1, GoodStoreRules DEF IInv, HistoryTyped
    <3>6. ControlOK'
      BY <3>1, <3>4 DEF IInv, ControlOK
    <3> QED
      BY <3>1, <3>3, <3>4, <3>5, <3>6 DEF IInv, MemoryGood, HistoryTyped
  <2>3. CASE hit = {}
    <3>1. /\ cpc' = [cpc EXCEPT ![c] = "idle"]
          /\ UNCHANGED <<daemonVars, watcherVars, fileVars, copy, target,
                         revoked, budget, seen>>
      BY <1>2, <2>3 DEF CtlSave
    <3>2. ControlOK'
      BY <3>1 DEF IInv, ControlOK
    <3> QED
      BY <3>1, <3>2 DEF IInv, MemoryGood, CopiesGood, FileGood, HistoryTyped
  <2> QED
    BY <2>2, <2>3
<1>3. CASE CtlSaveFails(c)
  <2>1. budget' \in [Inputs -> Nat]
    BY <1>3, SpendTyped DEF IInv, CtlSaveFails, Inputs
  <2>2. ControlOK'
    BY <1>3, <2>1 DEF IInv, ControlOK, CtlSaveFails
  <2> QED
    BY <1>3, <2>2
       DEF IInv, MemoryGood, CopiesGood, FileGood, HistoryTyped, CtlSaveFails
<1>4. CASE CtlSignal(c)
  BY <1>4, SighupGood DEF IInv, ControlOK, CtlSignal
<1> QED
  BY <1>1, <1>2, <1>3, <1>4 DEF CtlNext

\* filewallctl reload and the operator's edits keep the invariant.
LEMMA OperatorGood ==
  ASSUME IInv,
         \/ CtlReload
         \/ \E text \in ConfigText : EditConfig(text)
         \/ \E file \in EditedFiles : EditRules(file)
  PROVE  IInv'
<1> USE DEF daemonVars, ctlVars
<1>1. CASE CtlReload
  <2>1. budget' \in [Inputs -> Nat]
    BY <1>1, SpendTyped DEF IInv, CtlReload, Inputs
  <2> QED
    BY <1>1, <2>1, SighupGood DEF IInv, ControlOK, CtlReload
<1>2. ASSUME NEW text \in ConfigText, EditConfig(text) PROVE IInv'
  <2>1. budget' \in [Inputs -> Nat]
    BY <1>2, SpendTyped DEF IInv, EditConfig, Inputs
  <2>2. ControlOK'
    BY <1>2, <2>1 DEF IInv, ControlOK, EditConfig, Notify
  <2> QED
    BY <1>2, <2>2
       DEF IInv, MemoryGood, CopiesGood, FileGood, HistoryTyped, EditConfig
<1>3. ASSUME NEW file \in EditedFiles, EditRules(file) PROVE IInv'
  <2>1. budget' \in [Inputs -> Nat]
    BY <1>3, SpendTyped DEF IInv, EditRules, Inputs
  <2>2. GoodFile(file)
    BY FilesAssumption DEF GoodFile
  <2>3. FileGood' /\ HistoryTyped'
    BY <1>3, <2>2, GoodFileLoads DEF FileGood, HistoryTyped, EditRules
  <2>4. ControlOK'
    BY <1>3, <2>1 DEF IInv, ControlOK, EditRules, Notify
  <2> QED
    BY <1>3, <2>3, <2>4 DEF IInv, MemoryGood, CopiesGood, EditRules
<1> QED
  BY <1>1, <1>2, <1>3

\* IInv is inductive.
LEMMA StepGood == IInv /\ [Next]_vars => IInv'
<1>1. IInv /\ UNCHANGED vars => IInv'
  BY DEF IInv, ControlOK, MemoryGood, CopiesGood, FileGood, HistoryTyped,
     vars, daemonVars, watcherVars, fileVars, ctlVars
<1> QED
  BY <1>1, DaemonGood, WatcherGood, CrashGood, CtlGood, OperatorGood DEF Next

------------------------------------------------------------------------------
\* IInv holds in every reachable state.
LEMMA InvariantHolds == Spec => []IInv
BY InitGood, StepGood, PTL DEF Spec

\* Type correctness of the daemon, filewallctl and the files they share.
THEOREM TypeCorrect == Spec => []TypeOK
<1>1. IInv => TypeOK
  BY DEF IInv, ControlOK, MemoryGood, CopiesGood, FileGood, GoodFile,
     HistoryTyped, GoodStore, TypeOK
<1> QED
  BY <1>1, InvariantHolds, PTL

\* In every copy of the rules an id names at most one rule and is below the
\* allocator, whatever the processes interleave, however often they crash and
\* whichever file without clashing ids they start from.
THEOREM StoresStayWellFormed == Spec => []WellFormedStores
<1>1. IInv => WellFormedStores
  BY DEF IInv, MemoryGood, CopiesGood, FileGood, GoodFile, GoodStore,
     WellFormedStores
<1> QED
  BY <1>1, InvariantHolds, PTL

------------------------------------------------------------------------------
(* Reloads.  A change of rules.toml that the daemon has not read is queued  *)
(* for the watcher thread, in its hands, or flagged: the watcher is started *)
(* before the rules are loaded, and RELOAD is cleared before they are read. *)

Pending == reload \/ inotify \/ watcher = "store"

Watching == dpc \notin {"down", "spawn_watcher"} => watcher # "off"

Noticed ==
  dpc \in {"signal", "write_pidfile", "loop"} =>
    rules = Load(rulesFile) \/ Pending \/ unsaved \/ configFile \in BrokenConfig

ReloadInv == Watching /\ Noticed /\ SighupIsHandled

\* Nothing runs at the start.
LEMMA ReloadInit == Init => ReloadInv
BY DEF Init, ReloadInv, Watching, Noticed, SighupIsHandled

\* A daemon that dies leaves its pid to nobody.
LEMMA ReloadStop == ASSUME Stop, SighupIsHandled PROVE ReloadInv'
BY DEF Stop, ReloadInv, Watching, Noticed, SighupIsHandled, Up

\* A step of the daemon reads the rules, leaves what is pending alone, or has
\* an excuse: its save failed, or the config cannot be loaded.
LEMMA ReloadDaemon == ReloadInv /\ Daemon => ReloadInv'
<1> SUFFICES ASSUME ReloadInv, Daemon PROVE ReloadInv'
  OBVIOUS
<1> USE DEF ReloadInv, Watching, Noticed, SighupIsHandled, Pending, Boot, Up,
            daemonVars, watcherVars, fileVars
<1>1. CASE StartLoadConfig \/ SpawnWatcher \/ StartLoadRules
  BY <1>1 DEF StartLoadConfig, SpawnWatcher, StartLoadRules
<1>2. CASE InstallSighupHandler \/ WritePidfile
  BY <1>2 DEF InstallSighupHandler, WritePidfile
<1>3. CASE TakeReload \/ ReloadConfig \/ ReloadRules
  BY <1>3 DEF TakeReload, ReloadConfig, ReloadRules
<1>4. ASSUME NEW rule \in Learnable, Learn(rule) PROVE ReloadInv'
  BY <1>4 DEF Learn
<1>5. CASE SaveRules
  BY <1>5 DEF SaveRules, WriteRules, Notify
<1>6. CASE SaveRulesFails
  BY <1>6 DEF SaveRulesFails
<1> QED
  BY <1>1, <1>2, <1>3, <1>4, <1>5, <1>6 DEF Daemon

\* The watcher thread passes on what it was told.
LEMMA ReloadWatcher == ReloadInv /\ Watcher => ReloadInv'
BY DEF ReloadInv, Watching, Noticed, SighupIsHandled, Pending, Up, Watcher,
       WatcherRead, WatcherStore, daemonVars, fileVars

\* A SIGHUP asks for a reload or kills; it takes back nothing.
LEMMA ReloadSighup == ReloadInv /\ Sighup => ReloadInv'
<1> SUFFICES ASSUME ReloadInv, Sighup PROVE ReloadInv'
  OBVIOUS
<1>1. CASE Stop
  BY <1>1, ReloadStop DEF ReloadInv
<1>2. CASE /\ reload' = TRUE \/ reload' = reload
           /\ UNCHANGED <<dpc, rules, pidfile, unsaved, watcherVars, fileVars>>
  BY <1>2 DEF ReloadInv, Watching, Noticed, SighupIsHandled, Pending, Up,
              watcherVars, fileVars
<1> QED
  BY <1>1, <1>2 DEF Sighup, daemonVars

\* Whoever else changes a file, the watcher is told.
LEMMA ReloadOthers ==
  ASSUME ReloadInv,
         UNCHANGED <<daemonVars, watcher>>,
         \/ Notify
         \/ UNCHANGED <<inotify, rulesFile, configFile>>
  PROVE  ReloadInv'
BY DEF ReloadInv, Watching, Noticed, SighupIsHandled, Pending, Notify, daemonVars

\* ReloadInv is inductive.
LEMMA ReloadStep == ReloadInv /\ [Next]_vars => ReloadInv'
<1> SUFFICES ASSUME ReloadInv, [Next]_vars PROVE ReloadInv'
  OBVIOUS
<1>1. CASE UNCHANGED vars
  BY <1>1, ReloadOthers DEF vars, watcherVars, fileVars
<1>2. CASE Crash
  BY <1>2, ReloadStop DEF Crash, ReloadInv
<1>3. ASSUME NEW c \in Ctl, CtlNext(c) PROVE ReloadInv'
  <2>1. CASE CtlSignal(c)
    BY <2>1, ReloadSighup DEF CtlSignal
  <2>2. CASE CtlSave(c)
    BY <2>2, ReloadOthers DEF CtlSave, WriteRules, watcherVars, fileVars
  <2>3. CASE CtlSaveFails(c) \/ \E ids \in SUBSET Ids(Load(rulesFile)) : CtlLoad(c, ids)
    BY <2>3, ReloadOthers DEF CtlSaveFails, CtlLoad, watcherVars, fileVars
  <2> QED
    BY <1>3, <2>1, <2>2, <2>3 DEF CtlNext
<1>4. CASE CtlReload
  BY <1>4, ReloadSighup DEF CtlReload
<1>5. ASSUME NEW text \in ConfigText, EditConfig(text) PROVE ReloadInv'
  BY <1>5, ReloadOthers DEF EditConfig
<1>6. ASSUME NEW file \in EditedFiles, EditRules(file) PROVE ReloadInv'
  BY <1>6, ReloadOthers DEF EditRules
<1> QED
  BY <1>1, <1>2, <1>3, <1>4, <1>5, <1>6, ReloadDaemon, ReloadWatcher DEF Next

\* ReloadInv holds in every reachable state.
LEMMA ReloadInvariant == Spec => []ReloadInv
BY ReloadInit, ReloadStep, PTL DEF Spec

\* No change of rules.toml is missed, however the daemon, its watcher thread,
\* any number of filewallctl and the operator interleave.
THEOREM ReloadsAreKept == Spec => []NoReloadLost
<1>1. ReloadInv => NoReloadLost
  BY DEF ReloadInv, Noticed, Pending, NoReloadLost
<1> QED
  BY <1>1, ReloadInvariant, PTL

\* The pidfile names a daemon only while a SIGHUP is a request to it.
THEOREM SighupsAreHandled == Spec => []SighupIsHandled
<1>1. ReloadInv => SighupIsHandled
  BY DEF ReloadInv
<1> QED
  BY <1>1, ReloadInvariant, PTL

------------------------------------------------------------------------------
(* The daemon as the only writer: no filewallctl remove, no edits of        *)
(* rules.toml.  What it has in memory is then what is on disk and, above    *)
(* that, what it has learned and not saved.                                 *)

SingleWriter == Ctl = {} /\ EditedFiles = {}

Loaded == {"signal", "write_pidfile"} \cup Up

Extends(store, written) ==
  /\ written \subseteq Range(store.rules)
  /\ \A r \in Range(store.rules) \ written, s \in written : s.id < r.id

LedgerInv ==
  /\ IInv
  /\ seen = OnDisk(rulesFile) /\ revoked = {}
  /\ dpc \in Loaded => Extends(rules, OnDisk(rulesFile))

\* Back-filling changes nothing of a store in which every rule has its id.
LEMMA BackfillKeepsStamped ==
  ASSUME NEW store, GoodStore(store)
  PROVE  BackfillIds(store).rules = store.rules
<1>1. \A i \in DOMAIN store.rules : store.rules[i].id # 0
  BY DEF GoodStore, Stamped
<1>2. store.rules = [i \in DOMAIN store.rules |-> store.rules[i]]
  BY DEF GoodStore, IsStore
<1> QED
  BY <1>1, <1>2 DEF BackfillIds

\* A reader of a file finds the rules that were saved.
LEMMA SavedIsOnDisk ==
  ASSUME NEW store, GoodStore(store)
  PROVE  OnDisk(<<store>>) = Range(store.rules)
BY BackfillKeepsStamped DEF OnDisk, Load, Unreadable

\* In a well-formed store an id names one rule.
LEMMA GoodStoreNames ==
  ASSUME NEW store, GoodStore(store),
         NEW r \in Range(store.rules), NEW s \in Range(store.rules), r.id = s.id
  PROVE  r = s
<1>1. PICK i \in DOMAIN store.rules : r = store.rules[i]
  BY DEF Range
<1>2. PICK j \in DOMAIN store.rules : s = store.rules[j]
  BY DEF Range
<1> QED
  BY <1>1, <1>2 DEF GoodStore, DistinctIds, Stamped

\* A rule that is pushed comes after all the others.
LEMMA PushExtends ==
  ASSUME NEW store, GoodStore(store), NEW rule \in LearnedRule,
         NEW written, Extends(store, written)
  PROVE  Extends(Push(store, rule), written)
<1> DEFINE rs == store.rules
           id == AllocId(store)
           slot == MaxOr0(DOMAIN rs) + 1
           new == Push(store, rule).rules
<1>1. slot \in Nat /\ slot \notin DOMAIN rs
  BY MaxOr0Bounds DEF GoodStore, IsStore
<1>2. id \in Nat /\ \A i \in DOMAIN rs : rs[i].id \in Nat /\ rs[i].id < id
  <2>1. store.next_id \in Nat
    BY DEF GoodStore, IsStore
  <2>2. \A i \in DOMAIN rs : rs[i].id \in Nat /\ rs[i].id < store.next_id
    BY StoreIds DEF GoodStore, Stamped
  <2> QED
    BY <2>1, <2>2 DEF AllocId
<1>3. /\ DOMAIN new = DOMAIN rs \cup {slot}
      /\ \A i \in DOMAIN rs : new[i] = rs[i]
      /\ new[slot] = [rule EXCEPT !.id = id]
  BY <1>1 DEF Push
<1>4. new[slot].id = id
  BY <1>2, <1>3 DEF LearnedRule
<1> HIDE DEF new, id, slot
<1>5. Range(new) = Range(rs) \cup {new[slot]}
  BY <1>3 DEF Range
<1>6. \A s \in Range(rs) : s.id < id
  BY <1>2 DEF Range
<1> QED
  BY <1>4, <1>5, <1>6 DEF Extends, new

\* The file of the first start is where the ledger begins.
LEMMA LedgerInit == Init => LedgerInv
BY InitGood DEF Init, LedgerInv, Loaded, Up

\* Only the daemon touches what a single writer owns, and it writes what extends
\* what was written.
LEMMA LedgerStep ==
  ASSUME SingleWriter, LedgerInv, [Next]_vars
  PROVE  LedgerInv' /\ [Book!Append]_(OnDisk(rulesFile))
<1> USE DEF daemonVars, watcherVars, fileVars, ctlVars, Up, Boot
<1>1. IInv'
  BY StepGood DEF LedgerInv
<1>2. GoodStore(rules) /\ GoodFile(rulesFile)
  BY DEF LedgerInv, IInv, MemoryGood, FileGood
<1>3. CASE SaveRules
  <2>1. rulesFile' = <<rules>> /\ seen' = seen \cup Range(rules.rules)
    BY <1>3 DEF SaveRules, WriteRules
  <2>2. OnDisk(rulesFile)' = Range(rules.rules)
    BY <1>2, <2>1, SavedIsOnDisk
  <2>3. Extends(rules, OnDisk(rulesFile))
    BY <1>3 DEF SaveRules, LedgerInv, Loaded
  <2>4. LedgerInv'
    <3>1. Extends(rules, OnDisk(rulesFile))' /\ seen' = OnDisk(rulesFile)'
      BY <1>3, <2>1, <2>2, <2>3 DEF SaveRules, Extends, LedgerInv
    <3> QED
      BY <1>1, <1>3, <3>1 DEF SaveRules, LedgerInv
  <2>5. Book!Append
    <3>1. \A r, s \in Range(rules.rules) : r.id = s.id => r = s
      BY <1>2, GoodStoreNames
    <3> QED
      BY <2>2, <2>3, <3>1 DEF Extends, Book!Append, Book!OneRulePerId
  <2> QED
    BY <2>4, <2>5
<1>4. CASE UNCHANGED <<rulesFile, seen, revoked>>
  <2>1. OnDisk(rulesFile)' = OnDisk(rulesFile)
    BY <1>4 DEF OnDisk
  <2>2. CASE StartLoadRules \/ ReloadRules
    <3>1. rules' = Load(rulesFile)
      BY <2>2 DEF StartLoadRules, ReloadRules
    <3>2. Extends(rules, OnDisk(rulesFile))'
      BY <2>1, <3>1 DEF Extends, OnDisk
    <3> QED
      BY <1>1, <1>4, <2>1, <3>2 DEF LedgerInv
  <2>3. ASSUME NEW rule \in Learnable, Learn(rule) PROVE LedgerInv'
    <3>1. rules' = Push(rules, rule) /\ dpc = "loop"
      BY <2>3 DEF Learn
    <3>2. Extends(rules', OnDisk(rulesFile))
      BY <1>2, <3>1, PushExtends, LearnableAssumption DEF LedgerInv, Loaded
    <3> QED
      BY <1>1, <1>4, <2>1, <3>2 DEF LedgerInv, Extends
  <2>4. CASE UNCHANGED rules /\ (dpc' \in Loaded => dpc \in Loaded)
    BY <1>1, <1>4, <2>1, <2>4 DEF LedgerInv, Extends
  <2>5. CASE dpc' = "down"
    BY <1>1, <1>4, <2>1, <2>5 DEF LedgerInv, Loaded
  <2>6. CASE Sighup
    BY <2>4, <2>5, <2>6 DEF Sighup, Stop
  <2>7. CASE Crash \/ CtlReload
    BY <2>5, <2>6, <2>7 DEF Crash, Stop, CtlReload
  <2>8. CASE UNCHANGED vars \/ Watcher \/ \E text \in ConfigText : EditConfig(text)
    BY <2>4, <2>8 DEF vars, Watcher, WatcherRead, WatcherStore, EditConfig
  <2>9. CASE \/ StartLoadConfig \/ SpawnWatcher \/ InstallSighupHandler \/ WritePidfile
             \/ TakeReload \/ ReloadConfig \/ SaveRulesFails
    BY <2>4, <2>9 DEF StartLoadConfig, SpawnWatcher, InstallSighupHandler,
       WritePidfile, TakeReload, ReloadConfig, SaveRulesFails, Loaded
  <2>10. LedgerInv'
    BY <1>3, <2>2, <2>3, <2>7, <2>8, <2>9 DEF SingleWriter, Next, Daemon
  <2> QED
    BY <2>1, <2>10
<1>5. UNCHANGED <<rulesFile, seen, revoked>> \/ SaveRules
  BY DEF SingleWriter, Next, vars, Daemon, Watcher, WatcherRead, WatcherStore,
     StartLoadConfig, SpawnWatcher, StartLoadRules, InstallSighupHandler,
     WritePidfile, TakeReload, ReloadConfig, ReloadRules, SaveRulesFails, Learn,
     Crash, Stop, CtlReload, Sighup, EditConfig
<1> QED
  BY <1>3, <1>4, <1>5


\* LedgerInv holds in every reachable state of a single writer, and every step
\* is one of the ledger's.
LEMMA LedgerInvariant ==
  ASSUME SingleWriter
  PROVE  Spec => []LedgerInv /\ [][Book!Append]_(OnDisk(rulesFile))
<1>1. LedgerInv /\ [Next]_vars => LedgerInv' /\ [Book!Append]_(OnDisk(rulesFile))
  BY LedgerStep
<1> QED
  BY <1>1, LedgerInit, PTL DEF Spec

\* What a single writer puts on disk names one rule by each id.
LEMMA LedgerNames ==
  ASSUME LedgerInv
  PROVE  \A r, s \in OnDisk(rulesFile) : r.id = s.id => r = s
<1>1. GoodStore(Load(rulesFile))
  BY GoodFileLoads DEF LedgerInv, IInv, FileGood
<1> QED
  BY <1>1, GoodStoreNames DEF OnDisk

\* A daemon that is the only writer of rules.toml implements the ledger: over
\* crashes, failed saves, reloads of broken configs and files without ids, for any
\* rules it may learn, its file only grows, and by ids above all others.
THEOREM DaemonKeepsLedger ==
  ASSUME SingleWriter
  PROVE  Spec => ImplementsLedger
<1>1. Init => Book!Init
  BY LedgerInit, LedgerNames DEF Book!Init, Book!OneRulePerId
<1> QED
  BY <1>1, LedgerInvariant, PTL DEF Spec, ImplementsLedger, Book!Spec

\* A rule such a daemon has once shown on disk stays there.
THEOREM LearnedRulesStay ==
  ASSUME SingleWriter
  PROVE  Spec => []LearnedStays
<1>1. LedgerInv => LearnedStays
  BY DEF LedgerInv, LearnedStays
<1> QED
  BY <1>1, LedgerInvariant, PTL

\* An id such a daemon has once shown on disk names that rule for ever.
THEOREM IdsNameOneRule ==
  ASSUME SingleWriter
  PROVE  Spec => []IdNamesOneRule
<1>1. LedgerInv => IdNamesOneRule
  BY LedgerNames DEF LedgerInv, IdNamesOneRule
<1> QED
  BY <1>1, LedgerInvariant, PTL
==============================================================================
