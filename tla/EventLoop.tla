------------------------------ MODULE EventLoop -------------------------------
(***************************************************************************)
(* filewalld's event loop (filewalld/src/main.rs): the kernel blocks each  *)
(* opener of a reported file until the loop has answered its event; one    *)
(* thread reads the events, reloads config and rules, decides, asks the    *)
(* user, learns, and answers filewallctl on the control socket.            *)
(*                                                                         *)
(* How a prompt ends is PromptLink's business and how rules.toml is shared *)
(* RuleStore's: here a prompt ends in any decision or in an error, and the *)
(* files are changed from outside in one step.                             *)
(***************************************************************************)
EXTENDS Marks

CONSTANTS
  Opener,        \* processes that open files
  Accesses,      \* what they may open, with what executable and cwd
  Policies,      \* what config.toml may say
  InitialRules,  \* rules.toml at the start
  EditedRules,   \* rules.toml as filewallctl or an operator may leave it
  ConfigPath, RulesPath,       \* where the two files are
  BatchSize,     \* events one read returns
  MaxOpens, MaxEdits, MaxSaveFails, MaxMarkFails, MaxCrashes   \* bounds on the inputs

Self == "filewalld"

ASSUME OpenerAssumption == Self \notin Opener /\ Accesses \subseteq Access
ASSUME PolicyAssumption == Policies \subseteq Seq(WatchPolicy)
ASSUME LoopFilesAssumption ==
  \A f \in EditedRules \cup {InitialRules} :
    IsFile(f) /\ (f # Unreadable => DistinctIds(f[1]))
ASSUME TreeAssumption ==
  /\ File \subseteq Path /\ Dir \subseteq Path /\ Dir \cap File = {}
  /\ \A f \in File :
       Parent(f) \in Dir /\ \A p \in Path : IsStrictPrefix(p, f) => p \in Dir
ASSUME LoopBoundsAssumption ==
  /\ BatchSize \in Nat \ {0}
  /\ {MaxOpens, MaxEdits, MaxSaveFails, MaxMarkFails, MaxCrashes} \subseteq Nat

VARIABLES
  pc,        \* where the daemon's thread is
  policy,    \* compiled from the config it last loaded
  rules,     \* in memory
  reload,    \* the RELOAD atomic
  changed,   \* a change of either file the watcher thread has not seen
  config,    \* config.toml: {policy}, or {} when it cannot be loaded
  rulesFile, \* rules.toml
  marks,     \* files and directories marked since the daemon started
  failed,    \* those the MarkSet records as not marked
  queue,     \* events in the kernel, each known by its opener
  batch,     \* events read and not answered
  client,    \* a filewallctl waits on the control socket
  opens,     \* each opener's blocked open, if any
  own,       \* the daemon's own open of one of the two files
  verdict,   \* for the event at the head of the batch
  budget,    \* inputs left, by kind
  version,   \* history: changes of the two files from outside
  notified,  \* history: those the daemon has been told of
  loaded,    \* history: those that preceded the config and rules it has loaded
  refused,   \* history: those that preceded its last look at a config it could not load
  settled    \* history: accesses answered "Always" since the last change

kernelVars == <<queue, opens, own>>
storeVars == <<policy, rules, marks, failed, loaded, refused>>
fileVars == <<changed, config, rulesFile, version>>
vars == <<pc, storeVars, reload, fileVars, kernelVars, batch, client, verdict, budget,
          notified, settled>>

Decision == {"AllowOnce", "DenyOnce", "AllowAlways", "DenyAlways"}

Inputs == {"open", "edit", "savefail", "markfail", "crash"}
Steps == {"poll", "control", "control_read", "read", "reload", "load_config",
          "load_rules", "judge", "prompt", "save", "respond"}

TypeOK ==
  /\ pc \in Steps \cup {"down"}
  /\ policy \in Policies /\ IsStore(rules) /\ IsFile(rulesFile)
  /\ config \in {{}} \cup {{p} : p \in Policies}
  /\ reload \in BOOLEAN /\ changed \in BOOLEAN
  /\ marks \subseteq Dir \cup File /\ failed \subseteq Dir \cup File
  /\ queue \in Seq(Opener \cup {Self}) /\ batch \in Seq(Opener \cup {Self})
  /\ opens \in [Opener -> SUBSET [access : Accesses, needs : Nat]]
  /\ own \in {"closed", "waiting", "opened"}
  /\ verdict \in {"none", "allow", "deny"} /\ client \in BOOLEAN
  /\ budget \in [Inputs -> Nat]
  /\ {version, notified, loaded, refused} \subseteq Nat
  /\ settled \subseteq Accesses

Init ==
  /\ pc = "down" /\ policy \in Policies /\ config = {policy}
  /\ rules = DefaultStore /\ rulesFile = InitialRules
  /\ reload = FALSE /\ changed = FALSE /\ marks = {} /\ failed = {}
  /\ queue = <<>> /\ batch = <<>> /\ opens = [p \in Opener |-> {}]
  /\ own = "closed" /\ verdict = "none" /\ client = FALSE
  /\ budget = [kind \in Inputs |->
                CASE kind = "open" -> MaxOpens [] kind = "edit" -> MaxEdits
                  [] kind = "savefail" -> MaxSaveFails
                  [] kind = "markfail" -> MaxMarkFails
                  [] kind = "crash" -> MaxCrashes]
  /\ version = 0 /\ notified = 0 /\ loaded = 0 /\ refused = 0 /\ settled = {}

Spend(kind) ==
  /\ budget[kind] > 0
  /\ budget' = [budget EXCEPT ![kind] = @ - 1]

AccessOf(p) == CHOOSE a \in {o.access : o \in opens[p]} : TRUE

------------------------------------------------------------------------------
(* The kernel. *)

\* An open of a reported file blocks until it is answered.
Open(p, access) ==
  /\ pc # "down" /\ opens[p] = {} /\ access.path \in Reported(marks)
  /\ Spend("open")
  /\ opens' = [opens EXCEPT ![p] = {[access |-> access, needs |-> notified]}]
  /\ queue' = Append(queue, p)
  /\ UNCHANGED <<client, pc, storeVars, reload, fileVars, own, batch, verdict,
                 notified, settled>>

\* save_atomic opens a temporary file beside rules.toml.
OwnReported ==
  CASE pc = "load_config" -> ConfigPath \in Reported(marks)
    [] pc = "load_rules" -> RulesPath \in Reported(marks)
    [] pc = "save" -> Parent(RulesPath) \in marks

\* The daemon's own opens block like any other.
OwnOpen ==
  /\ pc \in {"load_config", "load_rules", "save"}
  /\ own = "closed"
  /\ IF OwnReported
     THEN own' = "waiting" /\ queue' = Append(queue, Self)
     ELSE own' = "opened" /\ UNCHANGED queue
  /\ UNCHANGED <<client, pc, storeVars, reload, fileVars, opens, batch, verdict,
                 budget, notified, settled>>

------------------------------------------------------------------------------
(* event_loop() *)

\* A client comes first; whether there were events is known from the poll.
PollClient ==
  /\ pc = "poll" /\ client
  /\ pc' = IF queue = <<>> THEN "control" ELSE "control_read"
  /\ UNCHANGED <<client, storeVars, reload, fileVars, kernelVars, batch, verdict,
                 budget, notified, settled>>

\* Fault: every client is served before the loop goes on.
ServeAll ==
  /\ pc \in {"control", "control_read"}
  /\ client' = FALSE
  /\ pc' = IF client THEN pc ELSE IF pc = "control" THEN "reload" ELSE "read"
  /\ UNCHANGED <<storeVars, reload, fileVars, kernelVars, batch, verdict, budget,
                 notified, settled>>

\* One client is served: answered, or given up after its timeout, or gone.
ServeClient ==
  /\ pc \in {"control", "control_read"}
  /\ client' = FALSE
  /\ pc' = IF pc = "control" THEN "reload" ELSE "read"
  /\ UNCHANGED <<storeVars, reload, fileVars, kernelVars, batch, verdict, budget,
                 notified, settled>>

\* The fanotify descriptor was ready.
ReadReady == queue # <<>> /\ (pc = "read" \/ (pc = "poll" /\ ~client))

\* Fault: what does not fit the buffer is dropped.
PollDropsRest ==
  /\ ReadReady
  /\ batch' = SubSeq(queue, 1, IF Len(queue) < BatchSize THEN Len(queue) ELSE BatchSize)
  /\ queue' = <<>>
  /\ pc' = "reload"
  /\ UNCHANGED <<client, storeVars, reload, fileVars, opens, own, verdict, budget,
                 notified, settled>>

PollEvents ==
  /\ ReadReady
  /\ LET n == IF Len(queue) < BatchSize THEN Len(queue) ELSE BatchSize
     IN  /\ batch' = SubSeq(queue, 1, n)
         /\ queue' = SubSeq(queue, n + 1, Len(queue))
  /\ pc' = "reload"
  /\ UNCHANGED <<client, storeVars, reload, fileVars, opens, own, verdict, budget,
                 notified, settled>>

\* The poll timed out, or a signal interrupted it before there was anything.
PollNothing ==
  /\ pc = "poll" /\ queue = <<>> /\ ~client
  /\ pc' = "reload"
  /\ UNCHANGED <<client, storeVars, reload, fileVars, kernelVars, batch, verdict,
                 budget, notified, settled>>

\* Fault: a reload waits until no event does.
ReloadWhenIdle ==
  /\ pc = "reload"
  /\ IF reload /\ batch = <<>> THEN reload' = FALSE /\ pc' = "load_config"
                               ELSE pc' = "judge" /\ UNCHANGED reload
  /\ UNCHANGED <<client, storeVars, fileVars, kernelVars, batch, verdict, budget,
                 notified, settled>>

\* Between reading the events and deciding the first.
CheckReload ==
  /\ pc = "reload"
  /\ reload' = FALSE
  /\ pc' = IF reload THEN "load_config" ELSE "judge"
  /\ UNCHANGED <<client, storeVars, fileVars, kernelVars, batch, verdict, budget,
                 notified, settled>>

LoadConfig ==
  /\ pc = "load_config" /\ own = "opened"
  /\ own' = "closed"
  /\ \/ /\ config = {}          \* keep config and rules
        /\ refused' = version
        /\ pc' = "judge" /\ UNCHANGED <<policy, loaded>>
     \/ /\ policy' \in config
        /\ loaded' = version
        /\ pc' = "load_rules" /\ UNCHANGED refused
  /\ UNCHANGED <<client, rules, marks, failed, reload, fileVars, queue, opens, batch,
                 verdict, budget, notified, settled>>

\* mark_all, over what is already marked.  Any of its calls may fail: the daemon warns,
\* records it, and goes on.
PlaceMarks(watches, already) ==
  \E fails \in SUBSET Attempts(watches) :
    /\ IF fails = {} THEN UNCHANGED budget ELSE Spend("markfail")
    /\ marks' = already \cup Placed(watches, fails)
    /\ failed' = RecordedFailed(watches, fails)

\* FAN_MARK_ADD only ever adds.
LoadRules ==
  /\ pc = "load_rules" /\ own = "opened"
  /\ own' = "closed"
  /\ rules' = Load(rulesFile)
  /\ PlaceMarks(policy, marks)
  /\ pc' = "judge"
  /\ UNCHANGED <<client, policy, loaded, refused, reload, fileVars, queue, opens, batch,
                 verdict, notified, settled>>

BatchDone ==
  /\ pc = "judge" /\ batch = <<>>
  /\ pc' = "poll"
  /\ UNCHANGED <<client, storeVars, reload, fileVars, kernelVars, batch, verdict,
                 budget, notified, settled>>

\* The daemon's own opens are allowed, the others as policy and rules say.
Judge ==
  /\ pc = "judge" /\ batch # <<>>
  /\ LET p == Head(batch)
         v == IF p = Self THEN "allow" ELSE Verdict(policy, rules, AccessOf(p))
     IN  IF v = "prompt" THEN pc' = "prompt" /\ UNCHANGED verdict
                         ELSE pc' = "respond" /\ verdict' = v
  /\ UNCHANGED <<client, storeVars, reload, fileVars, kernelVars, batch, budget,
                 notified, settled>>

\* Timeout, disconnect, no UI.
PromptFails ==
  /\ pc = "prompt"
  /\ verdict' = "deny"
  /\ pc' = "respond"
  /\ UNCHANGED <<client, storeVars, reload, fileVars, kernelVars, batch, budget,
                 notified, settled>>

Allows(decision) == decision \in {"AllowOnce", "AllowAlways"}

AlwaysAction(decision) ==
  CASE decision = "AllowAlways" -> {"allow"}
    [] decision = "DenyAlways" -> {"deny"}
    [] OTHER -> {}

PromptAnswered(decision) ==
  /\ pc = "prompt"
  /\ verdict' = IF Allows(decision) THEN "allow" ELSE "deny"
  /\ LET access == AccessOf(Head(batch))
         learnt == {LearnRule(w, action, access) :
                      action \in AlwaysAction(decision),
                      w \in Covering(policy, access.path)}
     IN  IF learnt = {} THEN pc' = "respond" /\ UNCHANGED rules
         ELSE \E rule \in learnt : rules' = Push(rules, rule) /\ pc' = "save"
  /\ UNCHANGED <<client, policy, marks, failed, loaded, refused, reload, fileVars,
                 kernelVars, batch, budget, notified, settled>>

\* Fault: the temporary file is never renamed.
SaveUnrenamed ==
  /\ pc = "save" /\ own = "opened"
  /\ own' = "closed"
  /\ settled' = settled \cup {AccessOf(Head(batch))}
  /\ pc' = "respond"
  /\ UNCHANGED <<client, storeVars, reload, fileVars, queue, opens, batch, verdict,
                 budget, notified>>

\* The write is a change like any other to the watcher thread.
Save ==
  /\ pc = "save" /\ own = "opened"
  /\ own' = "closed"
  /\ rulesFile' = <<rules>> /\ changed' = TRUE
  /\ settled' = settled \cup {AccessOf(Head(batch))}
  /\ pc' = "respond"
  /\ UNCHANGED <<client, storeVars, reload, config, version, queue, opens, batch,
                 verdict, budget, notified>>

SaveFails ==
  /\ pc = "save" /\ own = "opened" /\ Spend("savefail")
  /\ own' = "closed"
  /\ pc' = "respond"
  /\ UNCHANGED <<client, storeVars, reload, fileVars, queue, opens, batch, verdict,
                 notified, settled>>

Respond ==
  /\ pc = "respond"
  /\ IF Head(batch) = Self
     THEN own' = "opened" /\ UNCHANGED opens
     ELSE opens' = [opens EXCEPT ![Head(batch)] = {}] /\ UNCHANGED own
  /\ batch' = Tail(batch) /\ verdict' = "none"
  /\ pc' = "judge"
  /\ UNCHANGED <<client, storeVars, reload, fileVars, queue, budget, notified,
                 settled>>

------------------------------------------------------------------------------
(* Start and stop, and the world outside. *)

Start ==
  /\ pc = "down" /\ policy' \in config
  /\ rules' = Load(rulesFile) /\ PlaceMarks(policy', {})
  /\ loaded' = version /\ notified' = version /\ changed' = FALSE
  /\ pc' = "poll"
  /\ UNCHANGED <<client, refused, reload, config, rulesFile, version, kernelVars, batch,
                 verdict, settled>>

\* The kernel lets every blocked open through.
Crash ==
  /\ pc # "down" /\ Spend("crash")
  /\ pc' = "down" /\ rules' = DefaultStore /\ marks' = {} /\ failed' = {}
  /\ reload' = FALSE /\ verdict' = "none"
  /\ queue' = <<>> /\ batch' = <<>> /\ opens' = [p \in Opener |-> {}]
  /\ own' = "closed" /\ client' = FALSE
  /\ UNCHANGED <<policy, loaded, refused, fileVars, notified, settled>>

\* The watcher thread, or a SIGHUP that names the same change.
Notice ==
  /\ pc # "down" /\ changed
  /\ reload' = TRUE /\ changed' = FALSE
  /\ notified' = version
  /\ UNCHANGED <<client, pc, storeVars, config, rulesFile, version, kernelVars, batch,
                 verdict, budget, settled>>

Edit ==
  /\ Spend("edit")
  /\ \/ /\ config' \in {{}} \cup {{p} : p \in Policies}
        /\ config' # config /\ UNCHANGED rulesFile
     \/ rulesFile' \in EditedRules \ {rulesFile} /\ UNCHANGED config
  /\ version' = version + 1 /\ changed' = TRUE
  /\ settled' = {}
  /\ UNCHANGED <<client, pc, storeVars, reload, kernelVars, batch, verdict, notified>>

\* As often as anyone likes.
Connect ==
  /\ pc # "down" /\ ~client
  /\ client' = TRUE
  /\ UNCHANGED <<pc, storeVars, reload, fileVars, kernelVars, batch, verdict, budget,
                 notified, settled>>

------------------------------------------------------------------------------
Loop ==
  \/ PollClient \/ ServeClient \/ PollEvents \/ PollNothing \/ CheckReload
  \/ OwnOpen \/ LoadConfig \/ LoadRules \/ BatchDone \/ Judge \/ Save \/ SaveFails
  \/ Respond

PromptReturns ==
  PromptFails \/ \E decision \in Decision : PromptAnswered(decision)

Next ==
  \/ Loop \/ PromptReturns \/ Notice \/ Start \/ Crash \/ Edit \/ Connect
  \/ \E p \in Opener, access \in Accesses : Open(p, access)

Spec == Init /\ [][Next]_vars

\* The thread runs, a prompt returns (PromptLink), the watcher thread runs.
Fairness == WF_vars(Loop) /\ WF_vars(PromptReturns) /\ WF_vars(Notice)

FairSpec == Spec /\ Fairness

------------------------------------------------------------------------------
(* Properties. *)

\* Every blocked open is waiting in the kernel's queue or in the batch, once.
NoOpenForgotten ==
  LET events == queue \o batch
  IN  /\ \A p \in Opener : opens[p] # {} <=> p \in Range(events)
      /\ IsInjective(events)

\* An open made after the daemon was told of a change is decided by a config and
\* rules loaded after that change (RELOAD is looked at between read_ready and the
\* first decision); unless it has looked since and config.toml could not be loaded,
\* when it keeps its older config and, though they may be all that changed, rules.
FreshVerdicts ==
  pc \in {"prompt", "save", "respond"} =>
    \A p \in {Head(batch)} \ {Self} : \A o \in opens[p] :
      o.needs <= loaded \/ o.needs <= refused

\* An access answered "Always" and saved is not prompted for again until
\* config.toml or rules.toml is changed: not after a reload or a restart.
SettledStaysSettled ==
  pc # "down" =>
    \A access \in settled : Verdict(policy, rules, access) # "prompt"

\* An "Always" does what the dialog said: it decides every access in the scope
\* shown that would have been prompted for, it changes no verdict outside that
\* scope, and it overrides no deny.
ScopeAsShown ==
  [][\A decision \in Decision : PromptAnswered(decision) =>
       LET access == AccessOf(Head(batch))
           request == CHOOSE r \in {PromptRequest(w, access) :
                                     w \in Covering(policy, access.path)} : TRUE
       IN  \A a \in Access :
             LET old == Verdict(policy, rules, a)
                 new == Verdict(policy, rules', a)
             IN  IF InScope(request, a) /\ AlwaysAction(decision) # {}
                 THEN /\ old = "prompt" => {new} = AlwaysAction(decision)
                      /\ old = "deny" => new = "deny"
                 ELSE new = old]_vars

\* What the loaded policy sets out to guard the kernel reports, or filewallctl dump
\* lists with the mark that failed: no file is unguarded unseen, whichever calls of
\* whichever mark_all failed, and whatever an earlier one had marked.
GuardedIsReported ==
  pc \notin {"down", "load_rules"} =>
    Guarded(policy) \subseteq Reported(marks) \cup Reported(failed)

\* Every blocked open is answered.
EveryOpenAnswered == \A p \in Opener : opens[p] # {} ~> opens[p] = {}

\* Each watch guards its tree: a file in its scope is not let through for a
\* program nothing allows.
EachWatchGuards ==
  pc \in Steps =>
    \A i \in DOMAIN policy : \A a \in Access :
      /\ Covers(policy[i], a.path) /\ IsIncluded(policy[i], a.path)
      /\ ~IsExcluded(policy[i], a.path)
      /\ EvaluateWatch(policy[i], a.exe) # "allow"
      /\ EvaluateRules(rules, a) # "allow"
      => Verdict(policy, rules, a) # "allow"
==============================================================================
