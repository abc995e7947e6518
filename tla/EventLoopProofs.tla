--------------------------- MODULE EventLoopProofs ---------------------------
(***************************************************************************)
(* Every open is held once and judged by what was loaded after the last    *)
(* change the daemon was told of, if it could be loaded; what the policy   *)
(* guards is reported or recorded as a mark that failed; an "Always" does  *)
(* what the dialog said and lasts: for every policy, every store of rules, *)
(* every tree and any number of openers and inputs.                        *)
(***************************************************************************)
EXTENDS EventLoop, PolicyProofs

(* The inductive invariant, in parts. *)

Idle == {"down", "poll", "control", "control_read", "read"}
Judging == {"prompt", "save", "respond"}
Opening == {"load_config", "load_rules", "save"}

GoodFile(file) == IsFile(file) /\ (file # Unreadable => DistinctIds(file[1]))

LoopTyped ==
  /\ pc \in Steps \cup {"down"}
  /\ policy \in Policies /\ config \in {{}} \cup {{p} : p \in Policies}
  /\ reload \in BOOLEAN /\ changed \in BOOLEAN /\ client \in BOOLEAN
  /\ own \in {"closed", "waiting", "opened"} /\ verdict \in {"none", "allow", "deny"}
  /\ budget \in [Inputs -> Nat]

StoresTyped == GoodStore(rules) /\ GoodFile(rulesFile)

OpensTyped ==
  /\ opens \in [Opener -> SUBSET [access : Accesses, needs : Nat]]
  /\ queue \in Seq(Opener \cup {Self}) /\ batch \in Seq(Opener)

\* Each blocked open is one event, in the queue or in the batch; the daemon's own
\* never reaches a batch, since the daemon waits for it where it does not read.
Held ==
  /\ IsInjective(queue) /\ IsInjective(batch) /\ Range(queue) \cap Range(batch) = {}
  /\ \A p \in Opener : opens[p] # {} <=> p \in Range(queue) \cup Range(batch)
  /\ own = "waiting" <=> Self \in Range(queue)
  /\ own # "closed" => pc \in Opening
  /\ pc \in Idle => batch = <<>>
  /\ pc \in Judging => batch # <<>>

\* The daemon has loaded what was changed up to change n, or has looked at a config it
\* could not load since.
Seen(n) == n <= loaded \/ n <= refused

\* Whatever was notified is seen or flagged; what is judged needs no more than what is
\* seen.
Dated ==
  /\ version \in Nat /\ notified \in Nat /\ loaded \in Nat /\ refused \in Nat
  /\ notified <= version /\ loaded <= version /\ refused <= version
  /\ \A p \in Opener : \A o \in opens[p] : o.needs <= notified
  /\ pc \notin {"down", "load_config"} => reload \/ Seen(notified)
  /\ pc \in {"load_rules", "judge"} \cup Judging =>
       \A p \in Range(batch) : \A o \in opens[p] : Seen(o.needs)

\* What is marked is there, and what the loaded policy asks for is marked or recorded as
\* failed.
Marked ==
  /\ marks \subseteq Dir \cup File /\ failed \subseteq Dir \cup File
  /\ pc \notin {"down", "load_rules"} => MarkAll(policy) \subseteq marks \cup failed

\* A prompt is about a path that a watch covers.
Prompted == pc = "prompt" => Covering(policy, AccessOf(Head(batch)).path) # {}

\* The rules in memory and those on disk decide what was settled.
Settled ==
  /\ settled \subseteq Accesses
  /\ \A a \in settled :
       Decides(Load(rulesFile), a) /\ (pc # "down" => Decides(rules, a))
  /\ pc = "save" => Decides(rules, AccessOf(Head(batch)))

IInv ==
  LoopTyped /\ StoresTyped /\ OpensTyped /\ Held /\ Dated /\ Marked /\ Prompted /\ Settled

------------------------------------------------------------------------------
(* Sequences of events. *)

\* One more event.
LEMMA AppendedOnce ==
  ASSUME NEW S, NEW q \in Seq(S), NEW x \in S, IsInjective(q), x \notin Range(q)
  PROVE  /\ Append(q, x) \in Seq(S) /\ IsInjective(Append(q, x))
         /\ Range(Append(q, x)) = Range(q) \cup {x}
<1>1. /\ Len(q) \in Nat /\ DOMAIN q = 1 .. Len(q)
      /\ DOMAIN Append(q, x) = 1 .. Len(q) + 1
      /\ \A i \in 1 .. Len(q) : Append(q, x)[i] = q[i]
      /\ Append(q, x)[Len(q) + 1] = x
  OBVIOUS
<1>2. IsInjective(Append(q, x))
  BY <1>1 DEF IsInjective, Range
<1>3. Range(Append(q, x)) = Range(q) \cup {x}
  <2>1. 1 .. Len(q) + 1 = (1 .. Len(q)) \cup {Len(q) + 1}
    BY <1>1
  <2> QED
    BY <1>1, <2>1 DEF Range
<1> QED
  BY <1>2, <1>3

\* The first event is taken.
LEMMA TakenOnce ==
  ASSUME NEW S, NEW q \in Seq(S), IsInjective(q), q # <<>>
  PROVE  /\ Tail(q) \in Seq(S) /\ IsInjective(Tail(q)) /\ Head(q) \in Range(q)
         /\ Range(Tail(q)) = Range(q) \ {Head(q)}
<1>1. /\ Len(q) \in Nat \ {0} /\ DOMAIN q = 1 .. Len(q) /\ Head(q) = q[1]
      /\ Tail(q) \in Seq(S) /\ DOMAIN Tail(q) = 1 .. Len(q) - 1
      /\ \A i \in 1 .. Len(q) - 1 : Tail(q)[i] = q[i + 1]
  OBVIOUS
<1>2. IsInjective(Tail(q))
  <2> SUFFICES ASSUME NEW i \in 1 .. Len(q) - 1, NEW j \in 1 .. Len(q) - 1,
                      Tail(q)[i] = Tail(q)[j]
               PROVE  i = j
    BY <1>1 DEF IsInjective
  <2>1. q[i + 1] = q[j + 1] /\ i + 1 \in DOMAIN q /\ j + 1 \in DOMAIN q
    BY <1>1
  <2>2. i + 1 = j + 1
    BY <2>1 DEF IsInjective
  <2> QED
    BY <1>1, <2>2
<1>3. Range(Tail(q)) \subseteq Range(q) \ {Head(q)}
  <2> SUFFICES ASSUME NEW i \in 1 .. Len(q) - 1
               PROVE  Tail(q)[i] \in Range(q) /\ Tail(q)[i] # Head(q)
    BY <1>1 DEF Range
  <2>1. i + 1 \in DOMAIN q /\ 1 \in DOMAIN q /\ i + 1 # 1 /\ Tail(q)[i] = q[i + 1]
    BY <1>1
  <2> QED
    BY <1>1, <2>1 DEF Range, IsInjective
<1>4. Range(q) \ {Head(q)} \subseteq Range(Tail(q))
  <2> SUFFICES ASSUME NEW k \in 1 .. Len(q), q[k] # Head(q)
               PROVE  q[k] \in Range(Tail(q))
    BY <1>1 DEF Range
  <2>1. k - 1 \in 1 .. Len(q) - 1 /\ k = (k - 1) + 1
    BY <1>1
  <2>2. Tail(q)[k - 1] = q[k]
    BY <1>1, <2>1
  <2> QED
    BY <1>1, <2>1, <2>2 DEF Range
<1>5. Head(q) \in Range(q)
  BY <1>1 DEF Range
<1> QED
  BY <1>1, <1>2, <1>3, <1>4, <1>5

\* Some events are read, the rest stay.
LEMMA ReadOnce ==
  ASSUME NEW S, NEW q \in Seq(S), IsInjective(q), NEW n \in 0 .. Len(q)
  PROVE  LET read == SubSeq(q, 1, n)
             rest == SubSeq(q, n + 1, Len(q))
         IN  /\ read \in Seq(S) /\ IsInjective(read) /\ rest \in Seq(S) /\ IsInjective(rest)
             /\ Range(read) \cap Range(rest) = {}
             /\ Range(read) \cup Range(rest) = Range(q)
<1> DEFINE read == SubSeq(q, 1, n)
           rest == SubSeq(q, n + 1, Len(q))
<1>1. /\ Len(q) \in Nat /\ DOMAIN q = 1 .. Len(q)
      /\ read \in Seq(S) /\ DOMAIN read = 1 .. n
      /\ \A i \in 1 .. n : read[i] = q[i]
  OBVIOUS
<1>2. /\ rest \in Seq(S) /\ DOMAIN rest = 1 .. Len(q) - n
      /\ \A i \in 1 .. Len(q) - n : rest[i] = q[n + i]
  OBVIOUS
<1> HIDE DEF read, rest
<1>3. IsInjective(read)
  <2>1. \A i \in 1 .. n : i \in DOMAIN q
    BY <1>1
  <2> QED
    BY <1>1, <2>1 DEF IsInjective
<1>4. \A i \in 1 .. Len(q) - n : n + i \in DOMAIN q /\ n + i \notin 1 .. n
  BY <1>1
<1>5. IsInjective(rest)
  <2> SUFFICES ASSUME NEW i \in 1 .. Len(q) - n, NEW j \in 1 .. Len(q) - n,
                      rest[i] = rest[j]
               PROVE  i = j
    BY <1>2 DEF IsInjective
  <2>1. q[n + i] = q[n + j] /\ n + i \in DOMAIN q /\ n + j \in DOMAIN q
    BY <1>2, <1>4
  <2>2. n + i = n + j
    BY <2>1 DEF IsInjective
  <2> QED
    BY <1>1, <2>2
<1>6. Range(read) \cap Range(rest) = {}
  <2> SUFFICES ASSUME NEW i \in 1 .. n, NEW j \in 1 .. Len(q) - n, read[i] = rest[j]
               PROVE  FALSE
    BY <1>1, <1>2 DEF Range
  <2>1. i \in DOMAIN q /\ n + j \in DOMAIN q /\ q[i] = q[n + j]
    BY <1>1, <1>2
  <2>2. i = n + j
    BY <2>1 DEF IsInjective
  <2> QED
    BY <1>4, <2>2
<1>7. Range(read) \cup Range(rest) = Range(q)
  <2>1. Range(read) \cup Range(rest) \subseteq Range(q)
    <3>1. \A i \in 1 .. n : i \in DOMAIN q
      BY <1>1
    <3>2. Range(read) \subseteq Range(q)
      BY <1>1, <3>1 DEF Range
    <3>3. Range(rest) \subseteq Range(q)
      BY <1>2, <1>4 DEF Range
    <3> QED
      BY <3>2, <3>3
  <2>2. ASSUME NEW k \in 1 .. Len(q) PROVE q[k] \in Range(read) \cup Range(rest)
    <3>1. CASE k \in 1 .. n
      BY <1>1, <3>1 DEF Range
    <3>2. CASE k \notin 1 .. n
      <4>1. k - n \in 1 .. Len(q) - n /\ n + (k - n) = k
        BY <1>1, <3>2
      <4> QED
        BY <1>2, <4>1 DEF Range
    <3> QED
      BY <3>1, <3>2
  <2> QED
    BY <1>1, <2>1, <2>2 DEF Range
<1> QED
  BY <1>1, <1>2, <1>3, <1>5, <1>6, <1>7 DEF read, rest

\* The two together.
LEMMA JoinedOnce ==
  ASSUME NEW S, NEW q \in Seq(S), NEW b \in Seq(S), IsInjective(q), IsInjective(b),
         Range(q) \cap Range(b) = {}
  PROVE  IsInjective(q \o b) /\ Range(q \o b) = Range(q) \cup Range(b)
<1> DEFINE qb == q \o b
<1>1. /\ Len(q) \in Nat /\ DOMAIN q = 1 .. Len(q) /\ Len(b) \in Nat /\ DOMAIN b = 1 .. Len(b)
      /\ DOMAIN qb = 1 .. Len(q) + Len(b)
      /\ \A i \in 1 .. Len(q) : qb[i] = q[i]
      /\ \A i \in 1 .. Len(b) : qb[Len(q) + i] = b[i]
  OBVIOUS
<1> HIDE DEF qb
<1>2. \A i \in DOMAIN qb \ DOMAIN q :
        i - Len(q) \in DOMAIN b /\ qb[i] = b[i - Len(q)] /\ i = Len(q) + (i - Len(q))
  <2> SUFFICES ASSUME NEW i \in DOMAIN qb \ DOMAIN q
               PROVE  i - Len(q) \in DOMAIN b /\ qb[i] = b[i - Len(q)]
                      /\ i = Len(q) + (i - Len(q))
    OBVIOUS
  <2>1. i - Len(q) \in 1 .. Len(b) /\ i = Len(q) + (i - Len(q))
    BY <1>1
  <2> QED
    BY <1>1, <2>1
<1>3. Range(qb) = Range(q) \cup Range(b)
  <2>1. Range(qb) \subseteq Range(q) \cup Range(b)
    BY <1>1, <1>2 DEF Range
  <2>2. Range(q) \subseteq Range(qb)
    <3>1. \A i \in DOMAIN q : i \in DOMAIN qb
      BY <1>1
    <3> QED
      BY <1>1, <3>1 DEF Range
  <2>3. Range(b) \subseteq Range(qb)
    <3>1. \A i \in DOMAIN b : Len(q) + i \in DOMAIN qb
      BY <1>1
    <3> QED
      BY <1>1, <3>1 DEF Range
  <2> QED
    BY <2>1, <2>2, <2>3
<1>4. \A i \in DOMAIN qb \ DOMAIN q, j \in DOMAIN q : qb[i] # qb[j]
  <2> SUFFICES ASSUME NEW i \in DOMAIN qb \ DOMAIN q, NEW j \in DOMAIN q
               PROVE  qb[i] # qb[j]
    OBVIOUS
  <2>1. qb[i] \in Range(b)
    BY <1>2 DEF Range
  <2>2. qb[j] \in Range(q)
    BY <1>1 DEF Range
  <2> QED
    BY <2>1, <2>2
<1>5. IsInjective(qb)
  <2> SUFFICES ASSUME NEW i \in DOMAIN qb, NEW j \in DOMAIN qb, qb[i] = qb[j]
               PROVE  i = j
    BY DEF IsInjective
  <2>1. CASE i \in DOMAIN q /\ j \in DOMAIN q
    BY <1>1, <2>1 DEF IsInjective
  <2>2. CASE i \in DOMAIN q /\ j \notin DOMAIN q
    BY <1>4, <2>2
  <2>3. CASE i \notin DOMAIN q /\ j \in DOMAIN q
    BY <1>4, <2>3
  <2>4. CASE i \notin DOMAIN q /\ j \notin DOMAIN q
    <3>1. i - Len(q) = j - Len(q)
      BY <1>2, <2>4 DEF IsInjective
    <3> QED
      BY <1>2, <2>4, <3>1
  <2> QED
    BY <2>1, <2>2, <2>3, <2>4
<1> QED
  BY <1>3, <1>5 DEF qb

------------------------------------------------------------------------------
(* The parts, one after the other. *)

\* What Next consists of, for the lemmas that split it.
LEMMA NextCases ==
  ASSUME Next
  PROVE  \/ \E p \in Opener, access \in Accesses : Open(p, access)
         \/ OwnOpen \/ PollClient \/ ServeClient \/ PollEvents \/ PollNothing
         \/ CheckReload \/ LoadConfig \/ LoadRules \/ BatchDone \/ Judge
         \/ PromptFails \/ \E decision \in Decision : PromptAnswered(decision)
         \/ Save \/ SaveFails \/ Respond \/ Start \/ Crash \/ Notice \/ Edit \/ Connect
BY DEF Next, Loop, PromptReturns

\* The constants as the proofs use them.
LEMMA Constants ==
  /\ Policies \subseteq Seq(WatchPolicy) /\ Accesses \subseteq Access /\ Self \notin Opener
  /\ \A f \in EditedRules \cup {InitialRules} : GoodFile(f)
BY PolicyAssumption, OpenerAssumption, LoopFilesAssumption DEF GoodFile

\* An input that is spent leaves the rest.
LEMMA SpendTyped ==
  ASSUME LoopTyped, NEW kind \in Inputs, Spend(kind)
  PROVE  budget' \in [Inputs -> Nat]
BY DEF LoopTyped, Spend

\* So does a mark_all, whichever of its calls fail.
LEMMA PlacingTyped ==
  ASSUME LoopTyped, NEW w, NEW already, PlaceMarks(w, already)
  PROVE  budget' \in [Inputs -> Nat]
<1>1. UNCHANGED budget \/ Spend("markfail")
  BY DEF PlaceMarks
<1> QED
  BY <1>1, SpendTyped DEF LoopTyped, Inputs

\* What is decided about an open is an action of the config's.
LEMMA VerdictIsAction ==
  ASSUME NEW w \in Seq(WatchPolicy), NEW store, IsStore(store), NEW access
  PROVE  Verdict(w, store, access) \in Action
<1>1. EvaluatePolicy(w, access) \in Action
  BY PromptVerdict
<1>2. EvaluateRules(store, access) \in {"allow", "deny", "none"}
  BY EvaluateRulesCases
<1> QED
  BY <1>1, <1>2 DEF Verdict, Combine, Action

\* The open at the head of the batch is one that is blocked.
LEMMA HeadIsOpen ==
  ASSUME OpensTyped, Held, batch # <<>>
  PROVE  /\ Head(batch) \in Opener /\ Head(batch) \in Range(batch)
         /\ opens[Head(batch)] # {} /\ AccessOf(Head(batch)) \in Accesses
<1>1. Head(batch) \in Opener /\ Head(batch) \in Range(batch)
  BY TakenOnce DEF OpensTyped, Held
<1>2. opens[Head(batch)] # {}
  BY <1>1 DEF Held
<1>3. opens[Head(batch)] \in SUBSET [access : Accesses, needs : Nat]
  BY <1>1 DEF OpensTyped
<1>4. {o.access : o \in opens[Head(batch)]} \subseteq Accesses
      /\ {o.access : o \in opens[Head(batch)]} # {}
  BY <1>2, <1>3
<1> QED
  BY <1>1, <1>2, <1>4 DEF AccessOf

\* The variables of the loop keep their types.
LEMMA LoopTypedStep ==
  ASSUME LoopTyped, StoresTyped, Next
  PROVE  LoopTyped'
<1> USE DEF LoopTyped, Steps, kernelVars, storeVars, fileVars
<1>1. ASSUME NEW p \in Opener, NEW access \in Accesses, Open(p, access) PROVE LoopTyped'
  <2>1. budget' \in [Inputs -> Nat]
    BY <1>1, SpendTyped DEF Open, Inputs
  <2> QED
    BY <1>1, <2>1 DEF Open
<1>2. CASE OwnOpen
  BY <1>2 DEF OwnOpen
<1>3. CASE PollClient \/ ServeClient \/ PollEvents \/ PollNothing \/ CheckReload \/ BatchDone
  BY <1>3 DEF PollClient, ServeClient, PollEvents, PollNothing, CheckReload, BatchDone
<1>4. CASE LoadConfig \/ LoadRules
  <2>1. CASE LoadConfig
    BY <2>1 DEF LoadConfig
  <2>2. CASE LoadRules
    <3>1. budget' \in [Inputs -> Nat]
      BY <2>2, PlacingTyped DEF LoadRules
    <3> QED
      BY <2>2, <3>1 DEF LoadRules
  <2> QED
    BY <1>4, <2>1, <2>2
<1>5. CASE Judge
  <2>1. Verdict(policy, rules, AccessOf(Head(batch))) \in Action
    BY Constants, VerdictIsAction DEF StoresTyped, GoodStore
  <2>2. verdict' \in {"none", "allow", "deny"}
    BY <1>5, <2>1 DEF Judge, Action
  <2> QED
    BY <1>5, <2>2 DEF Judge
<1>6. CASE PromptFails
  BY <1>6 DEF PromptFails
<1>7. ASSUME NEW decision \in Decision, PromptAnswered(decision) PROVE LoopTyped'
  BY <1>7 DEF PromptAnswered
<1>8. CASE Save
  BY <1>8 DEF Save
<1>9. CASE SaveFails
  <2>1. budget' \in [Inputs -> Nat]
    BY <1>9, SpendTyped DEF SaveFails, Inputs
  <2> QED
    BY <1>9, <2>1 DEF SaveFails
<1>10. CASE Respond
  BY <1>10 DEF Respond
<1>11. CASE Start
  <2>1. policy' \in Policies
    BY <1>11 DEF Start
  <2>2. /\ pc' = "poll"
        /\ UNCHANGED <<client, reload, config, own, verdict>> /\ changed' = FALSE
    BY <1>11 DEF Start
  <2>3. budget' \in [Inputs -> Nat]
    BY <1>11, PlacingTyped DEF Start
  <2> QED
    BY <2>1, <2>2, <2>3
<1>12. CASE Crash
  <2>1. budget' \in [Inputs -> Nat]
    BY <1>12, SpendTyped DEF Crash, Inputs
  <2> QED
    BY <1>12, <2>1 DEF Crash
<1>13. CASE Notice \/ Connect
  BY <1>13 DEF Notice, Connect
<1>14. CASE Edit
  <2>1. budget' \in [Inputs -> Nat]
    BY <1>14, SpendTyped DEF Edit, Inputs
  <2> QED
    BY <1>14, <2>1 DEF Edit
<1> QED
  BY NextCases, <1>1, <1>2, <1>3, <1>4, <1>5, <1>6, <1>7, <1>8, <1>9, <1>10, <1>11, <1>12,
     <1>13, <1>14

\* The stores stay good: pushing and loading keep the ids distinct.
LEMMA StoresTypedStep ==
  ASSUME LoopTyped, StoresTyped, OpensTyped, Held, Next
  PROVE  StoresTyped'
<1> USE DEF StoresTyped, storeVars, fileVars
<1>1. GoodFile(rulesFile) => GoodStore(Load(rulesFile))
  BY LoadGood DEF GoodFile
<1>2. CASE LoadRules
  BY <1>1, <1>2 DEF LoadRules
<1>3. CASE Start
  BY <1>1, <1>3 DEF Start
<1>4. CASE Crash
  BY <1>4, DefaultStoreGood DEF Crash
<1>5. CASE Save
  <2>1. GoodFile(<<rules>>)
    BY DEF GoodFile, IsFile, GoodStore, Unreadable
  <2> QED
    BY <1>5, <2>1 DEF Save
<1>6. CASE Edit
  <2>1. GoodFile(rulesFile')
    BY <1>6, Constants DEF Edit
  <2> QED
    BY <1>6, <2>1 DEF Edit
<1>7. ASSUME NEW decision \in Decision, PromptAnswered(decision) PROVE StoresTyped'
  <2> DEFINE access == AccessOf(Head(batch))
  <2>1. CASE rules' = rules
    BY <1>7, <2>1 DEF PromptAnswered
  <2>2. CASE rules' # rules
    <3>1. PICK action \in AlwaysAction(decision), w \in Covering(policy, access.path) :
            rules' = Push(rules, LearnRule(w, action, access))
      BY <1>7, <2>2 DEF PromptAnswered
    <3>2. action \in RuleAction
      BY DEF AlwaysAction, RuleAction, Decision
    <3>3. w \in WatchPolicy
      BY Constants, CoveringIsOne DEF LoopTyped
    <3>4. access \in Access
      BY <1>7, HeadIsOpen, Constants DEF Held, PromptAnswered, Judging
    <3>5. LearnRule(w, action, access) \in LearnedRule
      BY <3>2, <3>3, <3>4, LearnRuleScope
    <3>6. GoodStore(rules')
      BY <3>1, <3>5, PushGood
    <3> QED
      BY <1>7, <3>6 DEF PromptAnswered
  <2> QED
    BY <2>1, <2>2
<1>8. CASE \E p \in Opener, access \in Accesses : Open(p, access)
  BY <1>8 DEF Open
<1>9. CASE OwnOpen \/ PollClient \/ ServeClient \/ PollEvents \/ PollNothing \/ CheckReload
  BY <1>9 DEF OwnOpen, PollClient, ServeClient, PollEvents, PollNothing, CheckReload
<1>10. CASE LoadConfig \/ BatchDone \/ Judge \/ PromptFails \/ SaveFails \/ Respond
  BY <1>10 DEF LoadConfig, BatchDone, Judge, PromptFails, SaveFails, Respond
<1>11. CASE Notice \/ Connect
  BY <1>11 DEF Notice, Connect
<1> QED
  BY NextCases, <1>2, <1>3, <1>4, <1>5, <1>6, <1>7, <1>8, <1>9, <1>10, <1>11

\* One read splits the queue.
LEMMA ReadSplits ==
  ASSUME OpensTyped, PollEvents
  PROVE  \E n \in 0 .. Len(queue) :
           batch' = SubSeq(queue, 1, n) /\ queue' = SubSeq(queue, n + 1, Len(queue))
<1> DEFINE n == IF Len(queue) < BatchSize THEN Len(queue) ELSE BatchSize
<1>1. Len(queue) \in Nat
  BY DEF OpensTyped
<1>2. n \in 0 .. Len(queue)
  BY <1>1, LoopBoundsAssumption
<1>3. batch' = SubSeq(queue, 1, n) /\ queue' = SubSeq(queue, n + 1, Len(queue))
  BY DEF PollEvents
<1> HIDE DEF n
<1> QED
  BY <1>2, <1>3

\* The events and the opens keep their types.
LEMMA OpensTypedStep ==
  ASSUME LoopTyped, OpensTyped, Held, Dated, Next
  PROVE  OpensTyped'
<1> USE DEF OpensTyped, kernelVars
<1>1. ASSUME NEW p \in Opener, NEW access \in Accesses, Open(p, access) PROVE OpensTyped'
  <2>1. [access |-> access, needs |-> notified] \in [access : Accesses, needs : Nat]
    BY DEF Dated
  <2>2. opens' \in [Opener -> SUBSET [access : Accesses, needs : Nat]]
    BY <1>1, <2>1 DEF Open
  <2> QED
    BY <1>1, <2>2 DEF Open
<1>2. CASE OwnOpen
  BY <1>2 DEF OwnOpen
<1>3. CASE PollEvents
  <2>1. Self \notin Range(queue) /\ IsInjective(queue)
    BY <1>3 DEF PollEvents, ReadReady, Held, Opening
  <2>2. \A i \in DOMAIN queue : queue[i] \in Opener
    BY <2>1 DEF Range
  <2>3. queue \in Seq(Opener)
    BY <2>2
  <2>4. PICK n \in 0 .. Len(queue) :
          batch' = SubSeq(queue, 1, n) /\ queue' = SubSeq(queue, n + 1, Len(queue))
    BY <1>3, ReadSplits
  <2>5. batch' \in Seq(Opener)
    BY <2>1, <2>3, <2>4, ReadOnce
  <2>6. queue' \in Seq(Opener \cup {Self})
    BY <2>1, <2>4, ReadOnce
  <2> QED
    BY <1>3, <2>5, <2>6 DEF PollEvents
<1>4. CASE Respond
  <2>1. batch # <<>>
    BY <1>4 DEF Respond, Held, Judging
  <2>2. Tail(batch) \in Seq(Opener)
    BY <2>1
  <2>3. opens' \in [Opener -> SUBSET [access : Accesses, needs : Nat]]
    BY <1>4 DEF Respond
  <2> QED
    BY <1>4, <2>2, <2>3 DEF Respond
<1>5. CASE Crash
  BY <1>5 DEF Crash
<1>6. ASSUME NEW decision \in Decision, PromptAnswered(decision) PROVE OpensTyped'
  BY <1>6 DEF PromptAnswered
<1>7. CASE PollClient \/ ServeClient \/ PollNothing \/ CheckReload \/ LoadConfig \/ LoadRules
  BY <1>7 DEF PollClient, ServeClient, PollNothing, CheckReload, LoadConfig, LoadRules
<1>8. CASE BatchDone \/ Judge \/ PromptFails \/ Save \/ SaveFails
  BY <1>8 DEF BatchDone, Judge, PromptFails, Save, SaveFails
<1>9. CASE Start \/ Notice \/ Edit \/ Connect
  BY <1>9 DEF Start, Notice, Edit, Connect
<1> QED
  BY NextCases, <1>1, <1>2, <1>3, <1>4, <1>5, <1>6, <1>7, <1>8, <1>9

\* A step that keeps the events and the opens keeps them held.
LEMMA HeldFrame ==
  ASSUME Held, UNCHANGED <<queue, batch, opens>>,
         own' = "waiting" <=> own = "waiting",
         own' # "closed" => pc' \in Opening,
         pc' \in Idle \cup Judging => batch = <<>> <=> pc' \in Idle
  PROVE  Held'
<1> USE DEF Held
<1>1. pc' \in Idle => batch' = <<>>
  OBVIOUS
<1>2. pc' \in Judging => batch' # <<>>
  BY DEF Idle, Judging
<1> QED
  BY <1>1, <1>2

\* Every event stays where it is expected.
LEMMA HeldStep ==
  ASSUME LoopTyped, OpensTyped, Held, Next
  PROVE  Held'
<1> USE DEF kernelVars, Idle, Judging, Opening, Steps
<1>0. Self \notin Opener
  BY Constants
<1>1. ASSUME NEW p \in Opener, NEW access \in Accesses, Open(p, access) PROVE Held'
  <2>1. p \notin Range(queue) /\ p \notin Range(batch)
    BY <1>1 DEF Open, Held
  <2>2. /\ IsInjective(queue') /\ Range(queue') = Range(queue) \cup {p}
    BY <1>1, <2>1, AppendedOnce DEF Open, Held, OpensTyped
  <2>3. \A x \in Opener : opens'[x] # {} <=> opens[x] # {} \/ x = p
    BY <1>1 DEF Open, OpensTyped
  <2>4. UNCHANGED <<batch, own, pc>>
    BY <1>1 DEF Open
  <2> HIDE DEF Idle, Judging, Opening
  <2> QED
    BY <1>0, <2>1, <2>2, <2>3, <2>4 DEF Held
<1>2. CASE OwnOpen
  <2>1. own = "closed" /\ pc \in Opening /\ UNCHANGED <<opens, batch, pc>>
    BY <1>2 DEF OwnOpen
  <2>2. CASE OwnReported
    <3>1. own' = "waiting" /\ queue' = Append(queue, Self)
      BY <1>2, <2>2 DEF OwnOpen
    <3>2. Self \notin Range(queue) /\ IsInjective(queue)
      BY <2>1 DEF Held
    <3>3. IsInjective(queue') /\ Range(queue') = Range(queue) \cup {Self}
      BY <3>1, <3>2, AppendedOnce DEF OpensTyped
    <3>4. Self \notin Range(batch)
      BY <1>0 DEF OpensTyped, Range
    <3> HIDE DEF Idle, Judging, Opening
    <3> QED
      BY <1>0, <2>1, <3>1, <3>3, <3>4 DEF Held
  <2>3. CASE ~OwnReported
    <3>1. own' = "opened" /\ UNCHANGED queue
      BY <1>2, <2>3 DEF OwnOpen
    <3> HIDE DEF Idle, Judging, Opening
    <3> QED
      BY <2>1, <3>1 DEF Held
  <2> QED
    BY <2>2, <2>3
<1>3. CASE PollEvents
  <2>1. batch = <<>> /\ own = "closed" /\ IsInjective(queue) /\ pc' = "reload"
        /\ UNCHANGED <<opens, own>>
    BY <1>3 DEF PollEvents, ReadReady, Held
  <2>2. PICK n \in 0 .. Len(queue) :
          batch' = SubSeq(queue, 1, n) /\ queue' = SubSeq(queue, n + 1, Len(queue))
    BY <1>3, ReadSplits
  <2>3. /\ IsInjective(batch') /\ IsInjective(queue')
        /\ Range(queue') \cap Range(batch') = {}
        /\ Range(queue') \cup Range(batch') = Range(queue)
    BY <2>1, <2>2, ReadOnce DEF OpensTyped
  <2>4. Range(batch) = {}
    BY <2>1 DEF Range
  <2>5. Self \notin Range(queue)
    BY <2>1 DEF Held
  <2> QED
    BY <2>1, <2>3, <2>4, <2>5 DEF Held
<1>4. CASE Respond
  <2>1. batch # <<>> /\ own = "closed" /\ pc' = "judge" /\ UNCHANGED queue
    BY <1>4 DEF Respond, Held
  <2>2. Head(batch) \in Opener /\ Head(batch) \in Range(batch)
    BY <2>1, HeadIsOpen
  <2>3. own' = "closed" /\ batch' = Tail(batch)
        /\ opens' = [opens EXCEPT ![Head(batch)] = {}]
    BY <1>0, <1>4, <2>1, <2>2 DEF Respond
  <2>4. IsInjective(batch') /\ Range(batch') = Range(batch) \ {Head(batch)}
    BY <2>1, <2>3, TakenOnce DEF Held, OpensTyped
  <2>5. \A x \in Opener : opens'[x] # {} <=> opens[x] # {} /\ x # Head(batch)
    BY <2>3 DEF OpensTyped
  <2> QED
    BY <2>1, <2>2, <2>3, <2>4, <2>5 DEF Held
<1>5. CASE Crash
  <2>1. /\ pc' = "down" /\ own' = "closed" /\ queue' = <<>> /\ batch' = <<>>
        /\ \A p \in Opener : opens'[p] = {}
    BY <1>5 DEF Crash
  <2>2. Range(<<>>) = {} /\ IsInjective(<<>>)
    BY DEF Range, IsInjective
  <2> QED
    BY <2>1, <2>2 DEF Held
<1>6. ASSUME NEW decision \in Decision, PromptAnswered(decision) PROVE Held'
  <2>1. pc = "prompt" /\ pc' \in {"respond", "save"} /\ UNCHANGED <<kernelVars, batch>>
    BY <1>6 DEF PromptAnswered
  <2>2. own = "closed" /\ batch # <<>>
    BY <2>1 DEF Held
  <2> QED
    BY <2>1, <2>2, HeldFrame
<1>7. CASE LoadConfig \/ LoadRules
  <2>1. own = "opened" /\ own' = "closed" /\ pc' \in {"judge", "load_rules"}
        /\ UNCHANGED <<queue, batch, opens>>
    BY <1>7 DEF LoadConfig, LoadRules
  <2> QED
    BY <2>1, HeldFrame
<1>8. CASE Save \/ SaveFails
  <2>1. own = "opened" /\ own' = "closed" /\ pc = "save" /\ pc' = "respond"
        /\ UNCHANGED <<queue, batch, opens>>
    BY <1>8 DEF Save, SaveFails
  <2>2. batch # <<>>
    BY <2>1 DEF Held
  <2> QED
    BY <2>1, <2>2, HeldFrame
<1>9. CASE PollClient \/ ServeClient \/ PollNothing \/ CheckReload \/ BatchDone \/ Judge
           \/ PromptFails \/ Start
  <2>1. own = "closed" /\ UNCHANGED <<queue, batch, opens, own>>
    BY <1>9 DEF PollClient, ServeClient, PollNothing, CheckReload, BatchDone, Judge,
       PromptFails, Start, Held
  <2>2. pc' \in Idle \cup Judging => batch = <<>> <=> pc' \in Idle
    BY <1>9 DEF PollClient, ServeClient, PollNothing, CheckReload, BatchDone, Judge,
       PromptFails, Start, Held
  <2> QED
    BY <2>1, <2>2, HeldFrame
<1>10. CASE Notice \/ Edit \/ Connect
  <2>1. UNCHANGED <<queue, batch, opens, own, pc>>
    BY <1>10 DEF Notice, Edit, Connect
  <2> QED
    BY <2>1 DEF Held
<1> QED
  BY NextCases, <1>1, <1>2, <1>3, <1>4, <1>5, <1>6, <1>7, <1>8, <1>9, <1>10

\* What is judged was loaded after what it needs.
LEMMA DatedStep ==
  ASSUME LoopTyped, OpensTyped, Held, Dated, Next
  PROVE  Dated'
<1> USE DEF kernelVars, storeVars, fileVars, Judging, Steps, Seen
<1>1. ASSUME NEW p \in Opener, NEW access \in Accesses, Open(p, access) PROVE Dated'
  <2>1. p \notin Range(batch)
    BY <1>1 DEF Open, Held
  <2>2. \A x \in Opener \ {p} : opens'[x] = opens[x]
    BY <1>1 DEF Open, OpensTyped
  <2>3. \A o \in opens'[p] : o.needs = notified
    BY <1>1 DEF Open, OpensTyped
  <2>4. UNCHANGED <<pc, reload, version, notified, loaded, refused, batch>>
    BY <1>1 DEF Open
  <2>5. Range(batch) \subseteq Opener \ {p}
    BY <2>1 DEF OpensTyped, Range
  <2>6. notified \in Nat
    BY DEF Dated
  <2>7. \A x \in Opener : \A o \in opens'[x] : o.needs <= notified
    BY <2>2, <2>3, <2>6 DEF Dated
  <2>8. \A x \in Range(batch) : opens'[x] = opens[x]
    BY <2>2, <2>5
  <2> HIDE DEF Judging
  <2> QED
    BY <2>4, <2>7, <2>8 DEF Dated
<1>2. CASE OwnOpen
  BY <1>2 DEF OwnOpen, Dated
<1>3. CASE PollEvents
  <2>1. pc' = "reload" /\ pc \in {"read", "poll"}
        /\ UNCHANGED <<reload, version, notified, loaded, refused, opens>>
    BY <1>3 DEF PollEvents, ReadReady
  <2> QED
    BY <2>1 DEF Dated
<1>4. CASE Respond
  <2>1. batch # <<>> /\ pc = "respond" /\ pc' = "judge"
        /\ UNCHANGED <<reload, version, notified, loaded, refused>>
    BY <1>4 DEF Respond, Held
  <2>2. Range(batch') \subseteq Range(batch)
    BY <1>4, <2>1, TakenOnce DEF Respond, Held, OpensTyped
  <2>3. \A x \in Opener : opens'[x] \subseteq opens[x]
    BY <1>4 DEF Respond, OpensTyped
  <2>4. Range(batch) \subseteq Opener
    BY DEF OpensTyped, Range
  <2> QED
    BY <2>1, <2>2, <2>3, <2>4 DEF Dated
<1>5. CASE Crash
  <2>1. pc' = "down" /\ UNCHANGED <<version, notified, loaded, refused>>
        /\ \A x \in Opener : opens'[x] = {}
    BY <1>5 DEF Crash
  <2> QED
    BY <2>1 DEF Dated
<1>6. CASE CheckReload
  <2>1. /\ pc = "reload" /\ pc' = IF reload THEN "load_config" ELSE "judge"
        /\ reload' = FALSE /\ UNCHANGED <<version, notified, loaded, refused, opens, batch>>
    BY <1>6 DEF CheckReload
  <2>2. Range(batch) \subseteq Opener
    BY DEF OpensTyped, Range
  <2>3. CASE reload
    BY <2>1, <2>3 DEF Dated
  <2>4. CASE ~reload
    <3>1. Seen(notified) /\ pc' = "judge"
      BY <2>1, <2>4 DEF Dated
    <3>2. \A x \in Range(batch) : \A o \in opens[x] : o.needs \in Nat
      BY <2>2 DEF OpensTyped
    <3>3. \A x \in Range(batch) : \A o \in opens[x] : Seen(o.needs)
      BY <2>2, <3>1, <3>2 DEF Dated
    <3> QED
      BY <2>1, <3>1, <3>3 DEF Dated
  <2> QED
    BY <2>3, <2>4
<1>7. CASE LoadConfig
  <2>1. /\ pc' \in {"judge", "load_rules"}
        /\ \/ loaded' = version /\ refused' = refused
           \/ loaded' = loaded /\ refused' = version
        /\ UNCHANGED <<reload, version, notified, opens, batch>>
    BY <1>7 DEF LoadConfig
  <2>2. \A x \in Range(batch) : x \in Opener /\ \A o \in opens[x] : o.needs \in Nat
    BY DEF OpensTyped, Range
  <2>3. \A x \in Range(batch) : \A o \in opens[x] : o.needs <= version
    BY <2>2 DEF Dated
  <2> QED
    BY <2>1, <2>3 DEF Dated
<1>8. ASSUME NEW decision \in Decision, PromptAnswered(decision) PROVE Dated'
  BY <1>8 DEF PromptAnswered, Dated
<1>9. CASE PollClient \/ ServeClient \/ PollNothing \/ LoadRules \/ BatchDone
  BY <1>9 DEF PollClient, ServeClient, PollNothing, LoadRules, BatchDone, Dated
<1>10. CASE Judge \/ PromptFails \/ Save \/ SaveFails
  BY <1>10 DEF Judge, PromptFails, Save, SaveFails, Dated
<1>11. CASE Start
  <2>1. /\ pc' = "poll" /\ loaded' = version /\ notified' = version
        /\ UNCHANGED <<version, refused, opens, batch>>
    BY <1>11 DEF Start
  <2>2. \A x \in Opener : \A o \in opens[x] : o.needs \in Nat
    BY DEF OpensTyped
  <2>3. \A x \in Opener : \A o \in opens[x] : o.needs <= version
    BY <2>2 DEF Dated
  <2> QED
    BY <2>1, <2>3 DEF Dated
<1>12. CASE Notice
  <2>1. /\ reload' = TRUE /\ notified' = version
        /\ UNCHANGED <<pc, version, loaded, refused, opens, batch>>
    BY <1>12 DEF Notice
  <2>2. \A x \in Opener : \A o \in opens[x] : o.needs \in Nat
    BY DEF OpensTyped
  <2>3. \A x \in Opener : \A o \in opens[x] : o.needs <= version
    BY <2>2 DEF Dated
  <2> QED
    BY <2>1, <2>3 DEF Dated
<1>13. CASE Edit
  <2>1. version' = version + 1 /\ UNCHANGED <<pc, reload, notified, loaded, refused, opens, batch>>
    BY <1>13 DEF Edit
  <2> QED
    BY <2>1 DEF Dated
<1>14. CASE Connect
  BY <1>14 DEF Connect, Dated
<1> QED
  BY NextCases, <1>1, <1>2, <1>3, <1>4, <1>5, <1>6, <1>7, <1>8, <1>9, <1>10, <1>11, <1>12,
     <1>13, <1>14

\* What a policy marks is a directory or a file.
LEMMA MarksAreThere ==
  ASSUME NEW w
  PROVE  MarkAll(w) \subseteq Dir \cup File
BY DEF MarkAll, ScanWatch, WalkDirs

\* Whichever calls of mark_all fail, each path is marked or recorded as failed.
LEMMA PlacingMarks ==
  ASSUME NEW w, NEW already, already \subseteq Dir \cup File, PlaceMarks(w, already)
  PROVE  /\ marks' \subseteq Dir \cup File /\ failed' \subseteq Dir \cup File
         /\ MarkAll(w) \subseteq marks' \cup failed'
<1>1. PICK fails \in SUBSET Attempts(w) : /\ marks' = already \cup Placed(w, fails)
                                        /\ failed' = RecordedFailed(w, fails)
  BY DEF PlaceMarks
<1>2. \A call \in Attempts(w) : call[2] \in MarkAll(w)
  BY DEF Attempts, MarkAll
<1>3. Placed(w, fails) \subseteq Dir \cup File
  BY <1>2, MarksAreThere DEF Placed
<1>4. RecordedOk(w, fails) \subseteq Placed(w, fails)
  BY DEF RecordedOk, Placed
<1> QED
  BY <1>1, <1>3, <1>4, MarksAreThere DEF RecordedFailed

\* Whatever the loaded policy asks for is marked or recorded as failed.
LEMMA MarkedStep ==
  ASSUME LoopTyped, Marked, Next
  PROVE  Marked'
<1> USE DEF Marked, storeVars
<1>1. CASE LoadRules
  <2>1. PlaceMarks(policy, marks) /\ UNCHANGED policy
    BY <1>1 DEF LoadRules
  <2> QED
    BY <2>1, PlacingMarks
<1>2. CASE Start
  <2>1. PlaceMarks(policy', {})
    BY <1>2 DEF Start
  <2> QED
    BY <2>1, PlacingMarks
<1>3. CASE Crash
  BY <1>3 DEF Crash
<1>4. CASE LoadConfig
  BY <1>4 DEF LoadConfig
<1>5. ASSUME NEW decision \in Decision, PromptAnswered(decision) PROVE Marked'
  BY <1>5 DEF PromptAnswered
<1>6. CASE \E p \in Opener, access \in Accesses : Open(p, access)
  BY <1>6 DEF Open
<1>7. CASE OwnOpen \/ PollClient \/ ServeClient \/ PollEvents \/ PollNothing \/ CheckReload
  <2>1. UNCHANGED <<policy, marks, failed>> /\ (UNCHANGED pc \/ pc \notin {"down", "load_rules"})
    BY <1>7 DEF OwnOpen, PollClient, ServeClient, PollEvents, ReadReady, PollNothing,
       CheckReload
  <2> QED
    BY <2>1
<1>8. CASE BatchDone \/ Judge \/ PromptFails \/ Save \/ SaveFails \/ Respond
  <2>1. UNCHANGED <<policy, marks, failed>> /\ pc \notin {"down", "load_rules"}
    BY <1>8 DEF BatchDone, Judge, PromptFails, Save, SaveFails, Respond
  <2> QED
    BY <2>1
<1>9. CASE Notice \/ Edit \/ Connect
  <2>1. UNCHANGED <<policy, marks, failed, pc>>
    BY <1>9 DEF Notice, Edit, Connect
  <2> QED
    BY <2>1
<1> QED
  BY NextCases, <1>1, <1>2, <1>3, <1>4, <1>5, <1>6, <1>7, <1>8, <1>9

\* The open at the head of the batch is the same one while it is judged.
LEMMA HeadStays ==
  ASSUME OpensTyped, Held, Next, pc \in {"judge"} \cup Judging, batch # <<>>,
         pc' \in Judging
  PROVE  UNCHANGED batch /\ AccessOf(Head(batch))' = AccessOf(Head(batch))
<1> USE DEF Judging, kernelVars
<1>1. ASSUME NEW p \in Opener, NEW access \in Accesses, Open(p, access)
      PROVE  UNCHANGED batch /\ AccessOf(Head(batch))' = AccessOf(Head(batch))
  <2>1. UNCHANGED batch /\ opens[p] = {} /\ opens' = [opens EXCEPT ![p] =
          {[access |-> access, needs |-> notified]}]
    BY <1>1 DEF Open
  <2>2. Head(batch) \in Opener /\ Head(batch) # p
    BY <2>1, HeadIsOpen
  <2>3. opens'[Head(batch)] = opens[Head(batch)]
    BY <2>1, <2>2 DEF OpensTyped
  <2> QED
    BY <2>1, <2>3 DEF AccessOf
<1>2. ASSUME UNCHANGED <<opens, batch>>
      PROVE  UNCHANGED batch /\ AccessOf(Head(batch))' = AccessOf(Head(batch))
  BY <1>2 DEF AccessOf
<1>3. CASE Respond \/ Crash
  BY <1>3 DEF Respond, Crash
<1>4. ASSUME NEW decision \in Decision, PromptAnswered(decision)
      PROVE  UNCHANGED <<opens, batch>>
  BY <1>4 DEF PromptAnswered
<1>5. CASE OwnOpen \/ PollClient \/ ServeClient \/ PollEvents \/ PollNothing \/ CheckReload
  <2>1. UNCHANGED <<opens, batch>>
    BY <1>5 DEF OwnOpen, PollClient, ServeClient, PollEvents, ReadReady, PollNothing,
       CheckReload
  <2> QED
    BY <1>2, <2>1
<1>6. CASE LoadConfig \/ LoadRules \/ BatchDone \/ Judge \/ PromptFails \/ Save \/ SaveFails
  <2>1. UNCHANGED <<opens, batch>>
    BY <1>6 DEF LoadConfig, LoadRules, BatchDone, Judge, PromptFails, Save, SaveFails
  <2> QED
    BY <1>2, <2>1
<1>7. CASE Start \/ Notice \/ Edit \/ Connect
  <2>1. UNCHANGED <<opens, batch>>
    BY <1>7 DEF Start, Notice, Edit, Connect
  <2> QED
    BY <1>2, <2>1
<1> QED
  BY NextCases, <1>1, <1>2, <1>3, <1>4, <1>5, <1>6, <1>7

\* A prompt is and stays about a covered path.
LEMMA PromptedStep ==
  ASSUME LoopTyped, StoresTyped, OpensTyped, Held, Prompted, Next
  PROVE  Prompted'
<1> SUFFICES ASSUME pc' = "prompt"
             PROVE  Covering(policy, AccessOf(Head(batch)).path)' # {}
  BY DEF Prompted
<1> USE DEF storeVars
<1>1. CASE pc = "prompt"
  <2>1. AccessOf(Head(batch))' = AccessOf(Head(batch))
    BY <1>1, HeadStays DEF Held, Judging
  <2>2. UNCHANGED policy
    <3>1. CASE \E p \in Opener, access \in Accesses : Open(p, access)
      BY <3>1 DEF Open
    <3>2. CASE PromptFails \/ Crash \/ Notice \/ Edit \/ Connect
      BY <3>2 DEF PromptFails, Crash, Notice, Edit, Connect
    <3>3. CASE \E decision \in Decision : PromptAnswered(decision)
      BY <3>3 DEF PromptAnswered
    <3>4. CASE \/ OwnOpen \/ PollClient \/ ServeClient \/ PollEvents \/ PollNothing
               \/ CheckReload \/ LoadConfig \/ LoadRules
      BY <1>1, <3>4 DEF OwnOpen, PollClient, ServeClient, PollEvents, ReadReady,
         PollNothing, CheckReload, LoadConfig, LoadRules
    <3>5. CASE BatchDone \/ Judge \/ Save \/ SaveFails \/ Respond \/ Start
      BY <1>1, <3>5 DEF BatchDone, Judge, Save, SaveFails, Respond, Start
    <3> QED
      BY NextCases, <3>1, <3>2, <3>3, <3>4, <3>5
  <2> QED
    BY <1>1, <2>1, <2>2 DEF Prompted
<1>2. CASE pc # "prompt"
  <2>1. Judge
    <3>1. CASE \E p \in Opener, access \in Accesses : Open(p, access)
      BY <1>2, <3>1 DEF Open
    <3>2. CASE OwnOpen \/ PollClient \/ ServeClient \/ PollEvents \/ PollNothing
      BY <1>2, <3>2 DEF OwnOpen, PollClient, ServeClient, PollEvents, PollNothing
    <3>3. CASE CheckReload \/ LoadConfig \/ LoadRules \/ BatchDone \/ PromptFails
      BY <1>2, <3>3 DEF CheckReload, LoadConfig, LoadRules, BatchDone, PromptFails
    <3>4. CASE \E decision \in Decision : PromptAnswered(decision)
      BY <1>2, <3>4 DEF PromptAnswered
    <3>5. CASE Save \/ SaveFails \/ Respond \/ Start \/ Crash
      BY <1>2, <3>5 DEF Save, SaveFails, Respond, Start, Crash
    <3>6. CASE Notice \/ Edit \/ Connect
      BY <1>2, <3>6 DEF Notice, Edit, Connect
    <3> QED
      BY NextCases, <3>1, <3>2, <3>3, <3>4, <3>5, <3>6
  <2>2. /\ pc = "judge" /\ batch # <<>> /\ UNCHANGED policy
        /\ Head(batch) # Self => Verdict(policy, rules, AccessOf(Head(batch))) = "prompt"
    BY <2>1 DEF Judge
  <2>3. Head(batch) # Self
    BY <2>2, HeadIsOpen, Constants
  <2>4. EvaluatePolicy(policy, AccessOf(Head(batch))) = "prompt"
    BY <2>2, <2>3, Constants, PromptVerdict DEF LoopTyped, StoresTyped, GoodStore
  <2>5. Covering(policy, AccessOf(Head(batch)).path) # {}
    BY <2>4, Constants, PromptVerdict DEF LoopTyped, StoresTyped, GoodStore
  <2>6. AccessOf(Head(batch))' = AccessOf(Head(batch))
    BY <2>2, HeadStays DEF Judging
  <2> QED
    BY <2>2, <2>5, <2>6
<1> QED
  BY <1>1, <1>2

\* An "Always" leaves a store that decides the access it was given for, and
\* whatever was decided before.
LEMMA PushDecides ==
  ASSUME LoopTyped, StoresTyped, OpensTyped, Held,
         NEW decision \in Decision, PromptAnswered(decision)
  PROVE  /\ \A a : Decides(rules, a) => Decides(rules', a)
         /\ pc' = "save" => Decides(rules', AccessOf(Head(batch)))
<1> DEFINE access == AccessOf(Head(batch))
<1>1. CASE rules' = rules /\ pc' = "respond"
  BY <1>1
<1>2. ASSUME NEW action \in AlwaysAction(decision), NEW w \in Covering(policy, access.path),
             rules' = Push(rules, LearnRule(w, action, access))
      PROVE  /\ \A a : Decides(rules, a) => Decides(rules', a)
             /\ Decides(rules', access)
  <2> DEFINE rule == LearnRule(w, action, access)
             stamped == [rule EXCEPT !.id = AllocId(rules)]
  <2>1. action \in RuleAction
    BY DEF AlwaysAction, RuleAction, Decision
  <2>2. w \in WatchPolicy
    BY Constants, CoveringIsOne DEF LoopTyped
  <2>3. access \in Access
    BY HeadIsOpen, Constants DEF Held, PromptAnswered, Judging
  <2>4. rule \in LearnedRule /\ (Matches(rule, access) <=>
                                 InScope(PromptRequest(w, access), access))
    BY <2>1, <2>2, <2>3, LearnRuleScope
  <2>5. InScope(PromptRequest(w, access), access)
    <3>1. IsPrefix(w.root, access.path)
      BY DEF Covering, Covers
    <3> HIDE DEF access
    <3> QED
      BY <3>1 DEF InScope, PromptRequest, AlwaysTarget
  <2>6. IsStore(rules) /\ AllocId(rules) \in Nat
    BY DEF StoresTyped, GoodStore, IsStore, AllocId
  <2>7. Range(rules'.rules) = Range(rules.rules) \cup {stamped}
    BY <1>2, <2>4, <2>6, PushRange
  <2>8. Matches(stamped, access)
    BY <2>4, <2>5, <2>6, StampedMatches
  <2> HIDE DEF stamped, rule, access
  <2> QED
    BY <2>7, <2>8 DEF Decides
<1>3. \/ rules' = rules /\ pc' = "respond"
      \/ \E action \in AlwaysAction(decision), w \in Covering(policy, access.path) :
           rules' = Push(rules, LearnRule(w, action, access))
  BY DEF PromptAnswered
<1> QED
  BY <1>1, <1>2, <1>3

\* What is written decides, when it is read again, what it decided in memory.
LEMMA WrittenDecides ==
  ASSUME StoresTyped, NEW a, Decides(rules, a)
  PROVE  Decides(Load(<<rules>>), a)
<1>1. Load(<<rules>>) = BackfillIds(rules)
  BY DEF Load, Unreadable
<1> QED
  BY <1>1, BackfillDecides DEF StoresTyped, GoodStore

\* A step that keeps the rules, the file and what was settled keeps it settled.
LEMMA SettledFrame ==
  ASSUME Settled, UNCHANGED <<rules, rulesFile, settled>>,
         pc = "down" => pc' = "down",
         pc' = "save" => /\ pc = "save"
                         /\ AccessOf(Head(batch))' = AccessOf(Head(batch))
  PROVE  Settled'
BY DEF Settled

\* What was settled stays so, in memory and on disk.
LEMMA SettledStep ==
  ASSUME LoopTyped, StoresTyped, OpensTyped, Held, Settled, Next
  PROVE  Settled'
<1> USE DEF storeVars, fileVars
<1>1. CASE LoadRules
  <2>1. /\ pc = "load_rules" /\ rules' = Load(rulesFile) /\ pc' = "judge"
        /\ UNCHANGED <<rulesFile, settled>>
    BY <1>1 DEF LoadRules
  <2> QED
    BY <2>1 DEF Settled
<1>2. CASE Start
  <2>1. rules' = Load(rulesFile) /\ pc' = "poll" /\ UNCHANGED <<rulesFile, settled>>
    BY <1>2 DEF Start
  <2> QED
    BY <2>1 DEF Settled
<1>3. CASE Crash
  <2>1. pc' = "down" /\ UNCHANGED <<rulesFile, settled>>
    BY <1>3 DEF Crash
  <2> QED
    BY <2>1 DEF Settled
<1>4. ASSUME NEW decision \in Decision, PromptAnswered(decision) PROVE Settled'
  <2>1. /\ pc = "prompt" /\ pc' \in {"respond", "save"}
        /\ UNCHANGED <<rulesFile, settled, batch, opens>>
    BY <1>4 DEF PromptAnswered, kernelVars
  <2>2. /\ \A a : Decides(rules, a) => Decides(rules', a)
        /\ pc' = "save" => Decides(rules', AccessOf(Head(batch)))
    BY <1>4, PushDecides
  <2>3. AccessOf(Head(batch))' = AccessOf(Head(batch))
    BY <2>1 DEF AccessOf
  <2> QED
    BY <2>1, <2>2, <2>3 DEF Settled
<1>5. CASE Save
  <2> DEFINE access == AccessOf(Head(batch))
  <2>1. /\ pc = "save" /\ pc' = "respond" /\ rulesFile' = <<rules>> /\ UNCHANGED rules
        /\ settled' \subseteq settled \cup {access}
    BY <1>5 DEF Save
  <2>2. access \in Accesses
    BY <2>1, HeadIsOpen DEF Held, Judging
  <2>3. \A a \in settled' : Decides(rules, a)
    BY <2>1 DEF Settled
  <2>4. \A a \in settled' : Decides(Load(rulesFile'), a)
    BY <2>1, <2>3, WrittenDecides
  <2> QED
    BY <2>1, <2>2, <2>3, <2>4 DEF Settled
<1>6. CASE Edit
  <2>1. settled' = {} /\ UNCHANGED <<pc, rules, batch, opens>>
    BY <1>6 DEF Edit, kernelVars
  <2>2. AccessOf(Head(batch))' = AccessOf(Head(batch))
    BY <2>1 DEF AccessOf
  <2> QED
    BY <2>1, <2>2 DEF Settled
<1>7. ASSUME NEW p \in Opener, NEW access \in Accesses, Open(p, access) PROVE Settled'
  <2>1. UNCHANGED <<pc, rules, rulesFile, settled>>
    BY <1>7 DEF Open
  <2>2. pc = "save" => AccessOf(Head(batch))' = AccessOf(Head(batch))
    BY <2>1, HeadStays DEF Held, Judging
  <2> QED
    BY <2>1, <2>2, SettledFrame
<1>8. CASE OwnOpen \/ Notice \/ Connect
  <2>1. UNCHANGED <<pc, rules, rulesFile, settled, batch, opens>>
    BY <1>8 DEF OwnOpen, Notice, Connect, kernelVars
  <2>2. AccessOf(Head(batch))' = AccessOf(Head(batch))
    BY <2>1 DEF AccessOf
  <2> QED
    BY <2>1, <2>2, SettledFrame
<1>9. CASE PollClient \/ ServeClient \/ PollEvents \/ PollNothing \/ CheckReload \/ LoadConfig
  <2>1. UNCHANGED <<rules, rulesFile, settled>> /\ pc # "down" /\ pc' # "save"
    BY <1>9 DEF PollClient, ServeClient, PollEvents, ReadReady, PollNothing, CheckReload,
       LoadConfig
  <2> QED
    BY <2>1, SettledFrame
<1>10. CASE BatchDone \/ Judge \/ PromptFails \/ SaveFails \/ Respond
  <2>1. UNCHANGED <<rules, rulesFile, settled>> /\ pc # "down" /\ pc' # "save"
    BY <1>10 DEF BatchDone, Judge, PromptFails, SaveFails, Respond
  <2> QED
    BY <2>1, SettledFrame
<1> QED
  BY NextCases, <1>1, <1>2, <1>3, <1>4, <1>5, <1>6, <1>7, <1>8, <1>9, <1>10

------------------------------------------------------------------------------
(* The invariant, and what follows from it. *)

\* It holds before the daemon is started.
LEMMA InitGood ==
  ASSUME Init
  PROVE  IInv
<1> USE DEF Init
<1>1. LoopTyped
  <2>1. budget \in [Inputs -> Nat]
    BY LoopBoundsAssumption DEF Inputs
  <2> QED
    BY <2>1 DEF LoopTyped
<1>2. StoresTyped
  BY DefaultStoreGood, Constants DEF StoresTyped
<1>3. OpensTyped
  BY DEF OpensTyped
<1>4. Held
  <2>1. Range(<<>>) = {} /\ IsInjective(<<>>)
    BY DEF Range, IsInjective
  <2> QED
    BY <2>1 DEF Held, Idle, Judging
<1>5. Dated
  BY DEF Dated, Seen, Judging
<1>6. Marked /\ Prompted /\ Settled
  BY DEF Marked, Prompted, Settled
<1> QED
  BY <1>1, <1>2, <1>3, <1>4, <1>5, <1>6 DEF IInv

\* Every step keeps it.
LEMMA NextGood ==
  ASSUME IInv, [Next]_vars
  PROVE  IInv'
<1>1. CASE Next
  BY <1>1, LoopTypedStep, StoresTypedStep, OpensTypedStep, HeldStep, DatedStep, MarkedStep,
     PromptedStep, SettledStep DEF IInv
<1>2. CASE UNCHANGED vars
  <2> USE <1>2 DEF vars, storeVars, fileVars, kernelVars
  <2>1. LoopTyped' /\ StoresTyped' /\ OpensTyped'
    BY DEF IInv, LoopTyped, StoresTyped, OpensTyped
  <2>2. Held' /\ Dated' /\ Marked'
    BY DEF IInv, Held, Dated, Seen, Marked
  <2>3. Prompted' /\ Settled'
    BY DEF IInv, Prompted, Settled, AccessOf
  <2> QED
    BY <2>1, <2>2, <2>3 DEF IInv
<1> QED
  BY <1>1, <1>2

\* It is an invariant of the event loop.
THEOREM LoopInvariant == Spec => []IInv
<1>1. Init => IInv
  BY InitGood
<1>2. IInv /\ [Next]_vars => IInv'
  BY NextGood
<1> QED
  BY <1>1, <1>2, PTL DEF Spec

\* Type correctness: of the daemon's thread, the files, the marks and the kernel's
\* queue (main.rs, event_loop).
THEOREM LoopTypeCorrect == Spec => []TypeOK
<1>1. IInv => TypeOK
  BY DEF IInv, LoopTyped, StoresTyped, GoodStore, GoodFile, OpensTyped, Dated, Marked,
     Settled, TypeOK
<1> QED
  BY <1>1, LoopInvariant, PTL

\* No event is lost or answered twice between read_ready and respond, whatever the
\* batch size and with filewallctl served in between.
THEOREM OpensAreHeld == Spec => []NoOpenForgotten
<1>1. IInv => NoOpenForgotten
  <2> SUFFICES ASSUME IInv PROVE NoOpenForgotten
    OBVIOUS
  <2>1. queue \in Seq(Opener \cup {Self}) /\ batch \in Seq(Opener \cup {Self})
    BY DEF IInv, OpensTyped
  <2>2. IsInjective(queue \o batch)
        /\ Range(queue \o batch) = Range(queue) \cup Range(batch)
    BY <2>1, JoinedOnce DEF IInv, Held
  <2> QED
    BY <2>2 DEF NoOpenForgotten, IInv, Held
<1> QED
  BY <1>1, LoopInvariant, PTL

\* RELOAD is looked at between read_ready and the first decision: an open is decided by
\* a config and rules no older than any change the daemon had been told of when it was
\* made, unless it has since looked at a config.toml that could not be loaded.
THEOREM VerdictsAreFresh == Spec => []FreshVerdicts
<1>1. IInv => FreshVerdicts
  <2> SUFFICES ASSUME IInv, pc \in {"prompt", "save", "respond"}
               PROVE  \A o \in opens[Head(batch)] : Seen(o.needs)
    BY DEF FreshVerdicts, Seen
  <2>1. Head(batch) \in Range(batch)
    BY HeadIsOpen DEF IInv, Held, Judging
  <2> QED
    BY <2>1 DEF IInv, Dated, Judging
<1> QED
  BY <1>1, LoopInvariant, PTL

\* What was answered "Always" and saved is not asked again, over reloads and
\* restarts (Rules::save, Rules::load, evaluate).
THEOREM SettledLasts == Spec => []SettledStaysSettled
<1>1. IInv => SettledStaysSettled
  <2> SUFFICES ASSUME IInv, pc # "down", NEW access \in settled
               PROVE  Verdict(policy, rules, access) # "prompt"
    BY DEF SettledStaysSettled
  <2>1. Decides(rules, access)
    BY DEF IInv, Settled
  <2>2. policy \in Seq(WatchPolicy) /\ IsStore(rules)
    BY Constants DEF IInv, LoopTyped, StoresTyped, GoodStore
  <2> QED
    BY <2>1, <2>2, DecidedIsNotPrompted
<1> QED
  BY <1>1, LoopInvariant, PTL

\* mark_all tries to mark what the compiled policy guards, and the MarkSet has what it
\* could not: for every tree, glob and watch, and whichever marks fail (scan_watch,
\* walk_dirs, is_recursive, MarkSet::record).
THEOREM GuardsAreReported == Spec => []GuardedIsReported
<1>1. IInv => GuardedIsReported
  <2> SUFFICES ASSUME IInv, pc \notin {"down", "load_rules"}
               PROVE  Guarded(policy) \subseteq Reported(marks) \cup Reported(failed)
    BY DEF GuardedIsReported
  <2>1. policy \in Seq(WatchPolicy)
    BY Constants DEF IInv, LoopTyped
  <2>2. Guarded(policy) \subseteq Reported(MarkAll(policy))
    BY <2>1, PathAssumption, TreeAssumption, GuardedIsMarked
  <2>3. MarkAll(policy) \subseteq marks \cup failed
    BY DEF IInv, Marked
  <2> QED
    BY <2>2, <2>3 DEF Reported
<1> QED
  BY <1>1, LoopInvariant, PTL

\* An "Always" decides the scope that the dialog showed and nothing else
\* (learned_rule against prompt_request).
THEOREM AlwaysIsAsShown == Spec => ScopeAsShown
<1> DEFINE AsShown(decision) ==
             LET access == AccessOf(Head(batch))
                 request == CHOOSE r \in {PromptRequest(w, access) :
                                           w \in Covering(policy, access.path)} : TRUE
             IN  \A a \in Access :
                   LET old == Verdict(policy, rules, a)
                       new == Verdict(policy, rules', a)
                   IN  IF InScope(request, a) /\ AlwaysAction(decision) # {}
                       THEN /\ old = "prompt" => {new} = AlwaysAction(decision)
                            /\ old = "deny" => new = "deny"
                       ELSE new = old
<1>1. ASSUME IInv, NEW decision \in Decision, PromptAnswered(decision)
      PROVE  AsShown(decision)
  <2> DEFINE access == AccessOf(Head(batch))
             covering == Covering(policy, access.path)
             request == CHOOSE r \in {PromptRequest(w, access) : w \in covering} : TRUE
  <2>1. policy \in Seq(WatchPolicy) /\ GoodStore(rules)
    BY <1>1, Constants DEF IInv, LoopTyped, StoresTyped
  <2>2. access \in Access /\ covering # {}
    BY <1>1, HeadIsOpen, Constants DEF IInv, Held, PromptAnswered, Judging, Prompted
  <2>3. covering \subseteq WatchPolicy /\ \A v, w \in covering : v = w
    BY <2>1, CoveringIsOne
  <2>4. PICK w \in covering : TRUE
    BY <2>2
  <2>5. covering = {w}
    BY <2>3, <2>4
  <2>6. request = PromptRequest(w, access)
    BY <2>5
  <2>7. CASE AlwaysAction(decision) = {}
    <3>1. rules' = rules
      BY <1>1, <2>7 DEF PromptAnswered
    <3> QED
      BY <2>7, <3>1
  <2>8. ASSUME NEW action \in RuleAction, AlwaysAction(decision) = {action}
        PROVE  AsShown(decision)
    <3>1. rules' = Push(rules, LearnRule(w, action, access))
      BY <1>1, <2>5, <2>8 DEF PromptAnswered
    <3> SUFFICES ASSUME NEW a \in Access
                 PROVE  LET old == Verdict(policy, rules, a)
                            new == Verdict(policy, rules', a)
                        IN  IF InScope(request, a)
                            THEN /\ old = "prompt" => new = action
                                 /\ old = "deny" => new = "deny"
                            ELSE new = old
      BY <2>8
    <3>2. w \in WatchPolicy
      BY <2>3
    <3> HIDE DEF access, request
    <3> QED
      BY <2>1, <2>2, <2>6, <3>1, <3>2, AlwaysDecides
  <2>9. AlwaysAction(decision) = {} \/ \E action \in RuleAction : AlwaysAction(decision) = {action}
    BY DEF AlwaysAction, RuleAction, Decision
  <2> QED
    BY <2>7, <2>8, <2>9
<1>2. IInv /\ [Next]_vars =>
        [\A decision \in Decision : PromptAnswered(decision) => AsShown(decision)]_vars
  BY <1>1
<1> HIDE DEF AsShown
<1>3. Spec => [][\A decision \in Decision : PromptAnswered(decision) => AsShown(decision)]_vars
  BY <1>2, LoopInvariant, PTL DEF Spec
<1> QED
  BY <1>3 DEF ScopeAsShown, AsShown
=============================================================================
