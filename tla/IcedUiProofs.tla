----------------------------- MODULE IcedUiProofs -----------------------------
(***************************************************************************)
(* The worker of filewall-ui-iced keeps the promise PromptLink makes for a *)
(* UI, whatever its GUI does; and the resolve-once guard and the two       *)
(* deadlines keep every decision with the request it was made for, and     *)
(* every window with the access that is being decided, as long as the GUI  *)
(* is never held for the worker's grace.                                   *)
(***************************************************************************)
EXTENDS IcedUi, Integers, FiniteSetTheorems, TLAPS

------------------------------------------------------------------------------
(* The worker implements the UI of PromptLink. *)

\* What the worker is doing and what it has read agree, and a process that is gone
\* does nothing.
WInv ==
  /\ at \in [Conn -> {"read", "send", "recv", "write"}]
  /\ DOMAIN serving = Conn /\ DOMAIN peer = Conn
  /\ \A c \in Conn :
       /\ serving[c] = {} <=> at[c] = "read"
       /\ at[c] # "read" => PL!Open(c)
       /\ \A r \in serving[c] : r = [for |-> r.for, left |-> r.left]

\* A worker has nothing in hand at the start.
LEMMA WInit == Init => WInv
BY DEF Init, WInv, PL!Init, PL!Open

\* The daemon closes no end of the UI's.
LEMMA DaemonKeepsPeers ==
  ASSUME Daemon, DOMAIN peer = Conn
  PROVE  DOMAIN peer' = Conn /\ \A c \in Conn : PL!Open(c) => PL!Open(c)'
<1>1. CASE PL!NewPrompt
  BY <1>1 DEF PL!NewPrompt, PL!uiVars, PL!Open
<1>2. CASE PL!Prompting
  BY <1>2 DEF PL!Prompting, PL!AcceptWaiting, PL!AcceptNone, PL!WriteRequest,
              PL!ReadAnswer, PL!Disconnect, PL!ReadTimeout, PL!uiVars, PL!Open
<1>3. CASE PL!Interrupt
  BY <1>3 DEF PL!Interrupt, PL!uiVars, PL!Open
<1>4. ASSUME NEW c \in Conn, PL!Connect(c)
      PROVE  DOMAIN peer' = Conn /\ \A d \in Conn : PL!Open(d) => PL!Open(d)'
  BY <1>4 DEF PL!Connect, PL!Open
<1> QED
  BY <1>1, <1>2, <1>3, <1>4 DEF Daemon

\* Every step of the daemon, of the process and of time keeps worker and request
\* together.
LEMMA WStep == WInv /\ [Next]_vars => WInv'
<1> SUFFICES ASSUME WInv, [Next]_vars PROVE WInv'
  OBVIOUS
<1>1. CASE Daemon
  <2>1. UNCHANGED <<at, serving>>
    BY <1>1 DEF Daemon, icedVars, workerVars
  <2> QED
    BY <1>1, <2>1, DaemonKeepsPeers DEF WInv
<1>2. CASE Tick
  <2>1. UNCHANGED <<at, peer>>
    BY <1>2 DEF Tick
  <2>2. serving' = [c \in Conn |-> {[r EXCEPT !.left = @ - 1] : r \in serving[c]}]
    BY <1>2 DEF Tick
  <2>3. ASSUME NEW c \in Conn, NEW q \in serving'[c] PROVE q = [for |-> q.for, left |-> q.left]
    <3>1. PICK r \in serving[c] : q = [r EXCEPT !.left = @ - 1]
      BY <2>2, <2>3
    <3>2. r = [for |-> r.for, left |-> r.left]
      BY DEF WInv
    <3>3. q = [for |-> r.for, left |-> r.left - 1]
      BY <3>1, <3>2
    <3> QED
      BY <3>3
  <2>4. ASSUME NEW c \in Conn PROVE serving'[c] = {} <=> serving[c] = {}
    BY <2>2
  <2> QED
    BY <2>1, <2>2, <2>3, <2>4 DEF WInv, PL!Open
<1>3. ASSUME NEW c \in Conn, ReadRequest(c) PROVE WInv'
  <2> DEFINE r == [for |-> Head(requests[c]), left |-> PL!UiTimeout + PL!Grace]
  <2>1. /\ serving' = [serving EXCEPT ![c] = {r}] /\ at' = [at EXCEPT ![c] = "send"]
        /\ peer' = peer /\ PL!Open(c)
    BY <1>3 DEF ReadRequest
  <2>2. r = [for |-> r.for, left |-> r.left]
    OBVIOUS
  <2> HIDE DEF r
  <2> QED
    BY <2>1, <2>2 DEF WInv, PL!Open
<1>4. ASSUME NEW c \in Conn, Send(c) PROVE WInv'
  BY <1>4 DEF WInv, Send, linkVars, PL!Open
<1>5. ASSUME NEW c \in Conn, Receive(c) PROVE WInv'
  BY <1>5 DEF WInv, Receive, linkVars, PL!Open
<1>6. ASSUME NEW c \in Conn, WriteAnswer(c) PROVE WInv'
  BY <1>6 DEF WInv, WriteAnswer, PL!Open
<1>7. ASSUME NEW c \in Conn, Close(c) PROVE WInv'
  BY <1>7 DEF WInv, Close, PL!Open
<1>8. ASSUME NEW c \in Conn, Gui(c) \/ User(c) PROVE WInv'
  <2>1. UNCHANGED <<at, serving, peer>>
    BY <1>8 DEF Gui, Prompt, Show, Decide, Expire, User, linkVars, workerVars
  <2> QED
    BY <2>1 DEF WInv, PL!Open
<1>9. CASE UNCHANGED vars
  BY <1>9 DEF WInv, vars, linkVars, icedVars, workerVars, PL!Open
<1> QED
  BY <1>1, <1>2, <1>3, <1>4, <1>5, <1>6, <1>7, <1>8, <1>9 DEF Next, Worker

\* What a request that the worker has read is to PromptLink, and what a second does
\* to both.
Timed(r) == r = [for |-> r.for, left |-> r.left]
Asked(r) == [for |-> r.for, left |-> {r.left}]
Older(r) == [r EXCEPT !.left = @ - 1]
OlderAsked(q) == [q EXCEPT !.left = {t - 1 : t \in @}]

\* Time passes for what is asked as it does for what the worker waits for.
LEMMA AskedAges ==
  ASSUME NEW S, \A r \in S : Timed(r)
  PROVE  {Asked(r) : r \in {Older(s) : s \in S}} = {OlderAsked(q) : q \in {Asked(s) : s \in S}}
<1>1. ASSUME NEW r \in S PROVE Asked(Older(r)) = OlderAsked(Asked(r))
  <2>1. Older(r) = [for |-> r.for, left |-> r.left - 1]
    BY DEF Timed, Older
  <2>2. Asked(Older(r)) = [for |-> r.for, left |-> {r.left - 1}]
    BY <2>1 DEF Asked
  <2>3. OlderAsked([for |-> r.for, left |-> {r.left}]) = [for |-> r.for, left |-> {r.left - 1}]
    BY DEF OlderAsked
  <2> QED
    BY <2>2, <2>3 DEF Asked
<1> QED
  BY <1>1

\* A UI that has read and answered nothing asks nothing.
LEMMA RefinesInit == Init => PL!Init
BY DEF Init

\* With the worker's own steps hidden, every step is one of PromptLink or none.
LEMMA RefinesStep == WInv /\ [Next]_vars => [PL!Next]_(PL!vars)
<1> SUFFICES ASSUME WInv, [Next]_vars PROVE [PL!Next]_(PL!vars)
  OBVIOUS
<1>1. CASE Daemon
  BY <1>1 DEF Daemon, PL!Next, PL!Ui
<1>2. CASE Tick
  <2>1. ASSUME NEW c \in Conn PROVE PL!UiWaits(c)
    <3>1. CASE at[c] = "read"
      <4>1. serving[c] = {}
        BY <3>1 DEF WInv
      <4>2. PL!Open(c) => requests[c] = <<>>
        BY <1>2, <3>1 DEF Tick, WorkerWaits
      <4> QED
        BY <4>1, <4>2 DEF PL!UiWaits, PL!Due, Asking
    <3>2. CASE at[c] # "read"
      <4>1. PL!Open(c) /\ serving[c] # {}
        BY <3>2 DEF WInv
      <4>2. ~Expired(c)
        BY <1>2, <3>2, <4>1 DEF Tick, WorkerWaits
      <4>3. Asking[c] # {}
        BY <4>1 DEF Asking
      <4>4. \A q \in Asking[c] : 0 \notin q.left
        BY <4>2 DEF Asking, Expired
      <4> QED
        BY <4>3, <4>4 DEF PL!UiWaits, PL!Due
    <3> QED
      BY <3>1, <3>2
  <2>2. ASSUME NEW c \in Conn
        PROVE  Asking'[c] = {[q EXCEPT !.left = {t - 1 : t \in @}] : q \in Asking[c]}
    <3>1. \A r \in serving[c] : Timed(r)
      BY DEF WInv, Timed
    <3>2. serving'[c] = {Older(r) : r \in serving[c]}
      BY <1>2 DEF Tick, Older
    <3>3. Asking'[c] = {Asked(r) : r \in serving'[c]} /\ Asking[c] = {Asked(r) : r \in serving[c]}
      BY DEF Asking, Asked
    <3>4. Asking'[c] = {OlderAsked(q) : q \in Asking[c]}
      BY <3>1, <3>2, <3>3, AskedAges
    <3> QED
      BY <3>4 DEF OlderAsked
  <2>3. Asking' = [c \in Conn |->
                    {[q EXCEPT !.left = {t - 1 : t \in @}] : q \in Asking[c]}]
    <3> DEFINE A == [c \in Conn |->
                      {[q EXCEPT !.left = {t - 1 : t \in @}] : q \in Asking[c]}]
    <3>1. Asking' = [c \in Conn |-> Asking'[c]]
      BY DEF Asking
    <3> QED
      BY <2>2, <3>1
  <2>4. PL!Tick
    BY <1>2, <2>1, <2>3 DEF Tick, PL!Tick
  <2> QED
    BY <2>4 DEF PL!Next
<1>3. ASSUME NEW c \in Conn, ReadRequest(c) PROVE PL!Next
  <2>1. serving[c] = {}
    BY <1>3 DEF ReadRequest, WInv
  <2>2. Asking[c] = {}
    BY <2>1 DEF Asking
  <2>3. serving' = [serving EXCEPT ![c] =
                     {[for |-> Head(requests[c]), left |-> PL!UiTimeout + PL!Grace]}]
    BY <1>3 DEF ReadRequest
  <2>4. Asking' = [Asking EXCEPT ![c] =
                    {[for |-> Head(requests[c]), left |-> {PL!UiTimeout + PL!Grace}]}]
    <3> DEFINE n == Head(requests[c])
               t == PL!UiTimeout + PL!Grace
    <3>1. serving' = [serving EXCEPT ![c] = {[for |-> n, left |-> t]}]
      BY <2>3
    <3> HIDE DEF n, t
    <3>2. Asking'[c] = {[for |-> n, left |-> {t}]}
      <4>1. serving'[c] = {[for |-> n, left |-> t]}
        BY <3>1 DEF WInv
      <4>2. Asking'[c] = {Asked(r) : r \in serving'[c]}
        BY DEF Asking, Asked
      <4>3. Asked([for |-> n, left |-> t]) = [for |-> n, left |-> {t}]
        BY DEF Asked
      <4> QED
        BY <4>1, <4>2, <4>3
    <3>3. \A d \in Conn \ {c} : Asking'[d] = Asking[d]
      BY <3>1 DEF WInv, Asking
    <3>4. Asking' = [Asking EXCEPT ![c] = {[for |-> n, left |-> {t}]}]
      BY <3>2, <3>3 DEF Asking
    <3> QED
      BY <3>4 DEF n, t
  <2>5. PL!AnswerWithin = {PL!UiTimeout + PL!Grace}
    BY DEF PL!AnswerWithin
  <2>6. PL!ReadRequest(c)
    BY <1>3, <2>2, <2>4, <2>5 DEF ReadRequest, PL!ReadRequest, PL!daemonVars
  <2> QED
    BY <2>6 DEF PL!Next, PL!Ui
<1>4. ASSUME NEW c \in Conn, WriteAnswer(c) PROVE PL!Next
  <2>1. PL!Open(c)
    BY <1>4 DEF WriteAnswer, WInv
  <2>2. PICK r \in serving[c] : answers' = [answers EXCEPT ![c] = Append(@, r.for)]
    BY <1>4 DEF WriteAnswer
  <2>3. \E q \in Asking[c] : answers' = [answers EXCEPT ![c] = Append(@, q.for)]
    <3>1. [for |-> r.for, left |-> {r.left}] \in Asking[c]
      BY DEF Asking
    <3>2. [for |-> r.for, left |-> {r.left}].for = r.for
      OBVIOUS
    <3> QED
      BY <2>2, <3>1, <3>2
  <2>4. Asking' = [Asking EXCEPT ![c] = {}]
    <3>1. serving' = [serving EXCEPT ![c] = {}] /\ DOMAIN serving = Conn
      BY <1>4 DEF WriteAnswer, WInv
    <3>2. \A d \in Conn : serving'[d] = IF d = c THEN {} ELSE serving[d]
      BY <3>1
    <3> QED
      BY <3>2 DEF Asking
  <2>5. UNCHANGED <<PL!daemonVars, peer, backlog, requests, signals>>
    BY <1>4 DEF WriteAnswer, PL!daemonVars
  <2>6. PL!WriteAnswer(c)
    BY <2>1, <2>3, <2>4, <2>5 DEF PL!WriteAnswer
  <2> QED
    BY <2>6 DEF PL!Next, PL!Ui
<1>5. ASSUME NEW c \in Conn, Close(c) PROVE PL!Next
  <2>1. Asking' = [Asking EXCEPT ![c] = {}]
    BY <1>5 DEF Close, WInv, Asking
  <2>2. PL!Close(c)
    BY <1>5, <2>1 DEF Close, PL!Close, PL!daemonVars
  <2> QED
    BY <2>2 DEF PL!Next, PL!Ui
<1>6. CASE UNCHANGED <<linkVars, serving>>
  BY <1>6 DEF linkVars, Asking, PL!vars, PL!daemonVars, PL!uiVars
<1>7. ASSUME NEW c \in Conn, Send(c) \/ Receive(c) \/ Gui(c) \/ User(c)
      PROVE  UNCHANGED <<linkVars, serving>>
  BY <1>7 DEF Send, Receive, Gui, Prompt, Show, Decide, Expire, User, workerVars
<1>8. CASE UNCHANGED vars
  BY <1>6, <1>8 DEF vars, icedVars, workerVars
<1> QED
  BY <1>1, <1>2, <1>3, <1>4, <1>5, <1>6, <1>7, <1>8 DEF Next, Worker

\* filewall-ui-iced, worker and GUI together, implements the UI of PromptLink for
\* any number of processes, accesses and signals and any GUI.
THEOREM ImplementsLink == Spec => ImplementsPromptLink
<1>1. Init => WInv
  BY WInit
<1>2. WInv /\ [Next]_vars => WInv'
  BY WStep
<1>3. Spec => []WInv
  BY <1>1, <1>2, PTL DEF Spec
<1>4. Spec => PL!Init /\ [][PL!Next]_(PL!vars)
  BY <1>3, RefinesInit, RefinesStep, PTL DEF Spec
<1> QED
  BY <1>4 DEF ImplementsPromptLink, PL!Spec
------------------------------------------------------------------------------
(* Decisions are their own. *)

\* Nothing of a request is on its way through the GUI.
Nothing(c) == prompts[c] = <<>> /\ busy[c] = {} /\ pending[c] = {}

\* Where the request the worker waits for is: it was sent, its dialog is being
\* prepared or is up with less time left than the worker has, or it is decided.
Sent(c, n, t) ==
  /\ prompts[c] = <<n>> /\ busy[c] = {} /\ pending[c] = {} /\ decisions[c] = <<>>
  /\ t = PL!UiTimeout + PL!Grace
Prepared(c, n, t) ==
  /\ prompts[c] = <<>> /\ pending[c] = {} /\ decisions[c] = <<>> /\ events[c] = <<>>
  /\ \E s \in Nat : /\ busy[c] = {[for |-> n, left |-> {s}, shown |-> {}]}
                    /\ s + PL!UiTimeout < t
Up(c, n, t) ==
  /\ prompts[c] = <<>> /\ busy[c] = {} /\ decisions[c] = <<>>
  /\ \E s \in Nat : pending[c] = {[for |-> n, left |-> s]} /\ s < t
  /\ \A i \in 1 .. Len(events[c]) : events[c][i].for = {n}
Decided(c, n) ==
  /\ Nothing(c)
  /\ \E d : decisions[c] = <<d>> /\ d.for = {n}

Reading(c) == at[c] = "read" /\ Nothing(c) /\ decisions[c] = <<>>
Sending(c) ==
  /\ at[c] = "send" /\ Nothing(c) /\ decisions[c] = <<>>
  /\ \E n : serving[c] = {[for |-> n, left |-> PL!UiTimeout + PL!Grace]}
Receiving(c) ==
  /\ at[c] = "recv"
  /\ \E n : \E t \in Int :
       /\ serving[c] = {[for |-> n, left |-> t]}
       /\ Sent(c, n, t) \/ Prepared(c, n, t) \/ Up(c, n, t) \/ Decided(c, n)
Writing(c) ==
  /\ at[c] = "write" /\ Nothing(c) /\ decisions[c] = <<>>
  /\ \A d \in decision[c] : d.for = {r.for : r \in serving[c]}

Calm(c) ==
  /\ Reading(c) \/ Sending(c) \/ Receiving(c) \/ Writing(c)
  /\ at[c] # "write" => decision[c] = {}
  /\ windows[c] = IF pending[c] = {} THEN 0 ELSE 1

CalmInv ==
  /\ WInv
  /\ DOMAIN decision = Conn /\ DOMAIN prompts = Conn /\ DOMAIN decisions = Conn
  /\ DOMAIN pending = Conn /\ DOMAIN busy = Conn /\ DOMAIN windows = Conn
  /\ DOMAIN events = Conn /\ \A c \in Conn : \E S : events[c] \in Seq(S)
  /\ DOMAIN stalled = Conn
  /\ \A c \in Conn : stalled[c] \/ Calm(c)

\* The two deadlines, whatever is configured.
LEMMA Deadlines ==
  PL!UiTimeout \in Nat /\ PL!Grace \in Nat /\ PL!UiTimeout + PL!Grace \in Nat \ {0}
BY IcedTimeoutAssumption DEF PL!UiTimeout, PL!Grace, PL!Margin, PL!Floor

\* Step by step, what one process does leaves another's state alone.
SameProcess(d) ==
  /\ at'[d] = at[d] /\ serving'[d] = serving[d] /\ decision'[d] = decision[d]
  /\ prompts'[d] = prompts[d] /\ decisions'[d] = decisions[d]
  /\ pending'[d] = pending[d] /\ busy'[d] = busy[d] /\ windows'[d] = windows[d]
  /\ events'[d] = events[d] /\ stalled'[d] = stalled[d]

\* A process that does not change stays calm.
LEMMA CalmFrame ==
  ASSUME NEW d \in Conn, SameProcess(d), Calm(d)
  PROVE  Calm(d)'
<1>1. Nothing(d)' <=> Nothing(d)
  BY DEF SameProcess, Nothing
<1>2. Reading(d)' <=> Reading(d)
  BY <1>1 DEF SameProcess, Reading
<1>3. Sending(d)' <=> Sending(d)
  BY <1>1 DEF SameProcess, Sending
<1>4. ASSUME NEW n, NEW t
      PROVE  /\ Sent(d, n, t)' <=> Sent(d, n, t)
             /\ Prepared(d, n, t)' <=> Prepared(d, n, t)
             /\ Up(d, n, t)' <=> Up(d, n, t)
             /\ Decided(d, n)' <=> Decided(d, n)
  <2>1. Sent(d, n, t)' <=> Sent(d, n, t)
    BY DEF SameProcess, Sent
  <2>2. Prepared(d, n, t)' <=> Prepared(d, n, t)
    BY DEF SameProcess, Prepared
  <2>3. Up(d, n, t)' <=> Up(d, n, t)
    BY DEF SameProcess, Up
  <2>4. Decided(d, n)' <=> Decided(d, n)
    BY <1>1 DEF SameProcess, Decided
  <2> QED
    BY <2>1, <2>2, <2>3, <2>4
<1>5. Receiving(d)' <=> Receiving(d)
  BY <1>4 DEF SameProcess, Receiving
<1>6. Writing(d)' <=> Writing(d)
  BY <1>1 DEF SameProcess, Writing
<1> QED
  BY <1>2, <1>3, <1>5, <1>6 DEF SameProcess, Calm

\* At the start no process has done anything.
LEMMA CalmInit == Init => CalmInv
<1> SUFFICES ASSUME Init PROVE CalmInv
  OBVIOUS
<1>1. \A c \in Conn : Calm(c)
  BY DEF Init, Calm, Reading, Nothing
<1> QED
  BY <1>1, WInit DEF CalmInv, Init

\* The worker reads, hands over, receives and answers.
LEMMA CalmWorker ==
  ASSUME CalmInv, NEW c \in Conn, Calm(c), Worker(c)
  PROVE  Calm(c)'
<1>1. CASE ReadRequest(c)
  <2>1. Reading(c) /\ decision[c] = {} /\ windows[c] = 0
    BY <1>1 DEF ReadRequest, Calm, Reading, Sending, Receiving, Writing, Nothing
  <2>2. /\ at'[c] = "send"
        /\ serving'[c] = {[for |-> Head(requests[c]), left |-> PL!UiTimeout + PL!Grace]}
        /\ UNCHANGED <<decision, prompts, decisions, pending, busy, windows>>
    BY <1>1 DEF ReadRequest, guiVars, CalmInv, WInv
  <2>3. Sending(c)'
    BY <2>1, <2>2 DEF Reading, Sending, Nothing
  <2> QED
    BY <2>1, <2>2, <2>3 DEF Calm, Reading, Nothing
<1>2. CASE Send(c)
  <2>1. Sending(c) /\ decision[c] = {} /\ windows[c] = 0
    BY <1>2 DEF Send, Calm, Reading, Sending, Receiving, Writing, Nothing
  <2>2. PICK n : serving[c] = {[for |-> n, left |-> PL!UiTimeout + PL!Grace]}
    BY <2>1 DEF Sending
  <2>3. /\ at'[c] = "recv" /\ decisions'[c] = <<>> /\ prompts'[c] = <<n>>
        /\ UNCHANGED <<serving, decision, pending, busy, windows>>
    <3>1. PICK r \in serving[c] : prompts' = [prompts EXCEPT ![c] = Append(@, r.for)]
      BY <1>2 DEF Send
    <3>2. r.for = n /\ prompts[c] = <<>>
      BY <2>1, <2>2, <3>1 DEF Sending, Nothing
    <3>3. prompts'[c] = <<n>>
      BY <3>1, <3>2 DEF CalmInv
    <3> QED
      BY <1>2, <3>3 DEF Send, guiVars, CalmInv, WInv
  <2>4. Sent(c, n, PL!UiTimeout + PL!Grace)'
    BY <2>1, <2>3 DEF Sent, Sending, Nothing
  <2>5. Receiving(c)'
    BY <2>2, <2>3, <2>4, Deadlines DEF Receiving
  <2> QED
    BY <2>1, <2>3, <2>5 DEF Calm, Sending, Nothing
<1>3. CASE Receive(c)
  <2>1. Receiving(c) /\ decision[c] = {}
    BY <1>3 DEF Receive, Calm, Reading, Sending, Writing
  <2>2. PICK n : \E t \in Int :
          /\ serving[c] = {[for |-> n, left |-> t]}
          /\ Sent(c, n, t) \/ Prepared(c, n, t) \/ Up(c, n, t) \/ Decided(c, n)
    BY <2>1 DEF Receiving
  <2>3. PICK t \in Int :
          /\ serving[c] = {[for |-> n, left |-> t]}
          /\ Sent(c, n, t) \/ Prepared(c, n, t) \/ Up(c, n, t) \/ Decided(c, n)
    BY <2>2
  <2>4. CASE Decided(c, n)
    <3>1. PICK d : decisions[c] = <<d>> /\ d.for = {n}
      BY <2>4 DEF Decided
    <3>2. Head(decisions[c]) = d /\ Tail(decisions[c]) = <<>> /\ decisions[c] # <<>>
      BY <3>1
    <3>3. /\ decision'[c] = {d} /\ decisions'[c] = <<>> /\ at'[c] = "write"
          /\ UNCHANGED <<serving, prompts, pending, busy, windows>>
      BY <1>3, <3>2 DEF Receive, guiVars, CalmInv, WInv
    <3>4. {r.for : r \in serving[c]} = {n}
      BY <2>3
    <3>5. Writing(c)'
      BY <2>4, <3>1, <3>3, <3>4 DEF Writing, Decided, Nothing
    <3> QED
      BY <3>3, <3>5 DEF Calm
  <2>5. CASE Sent(c, n, t) \/ Prepared(c, n, t) \/ Up(c, n, t)
    <3>1. decisions[c] = <<>> /\ t # 0
      BY <2>5, Deadlines DEF Sent, Prepared, Up
    <3>2. ~Expired(c)
      BY <2>3, <3>1 DEF Expired
    <3> QED
      BY <1>3, <3>1, <3>2 DEF Receive
  <2> QED
    BY <2>3, <2>4, <2>5
<1>4. CASE WriteAnswer(c)
  <2>1. Writing(c)
    BY <1>4 DEF WriteAnswer, Calm, Reading, Sending, Receiving
  <2>2. /\ at'[c] = "read" /\ decision'[c] = {}
        /\ UNCHANGED <<prompts, decisions, pending, busy, windows>>
    BY <1>4 DEF WriteAnswer, guiVars, CalmInv, WInv
  <2>3. Reading(c)'
    BY <2>1, <2>2 DEF Writing, Reading, Nothing
  <2> QED
    BY <2>2, <2>3 DEF Calm
<1> QED
  BY <1>1, <1>2, <1>3, <1>4 DEF Worker

\* When the GUI has something to do, the worker is waiting for it.
LEMMA GuiBusy ==
  ASSUME CalmInv, NEW c \in Conn, Calm(c),
         prompts[c] # <<>> \/ busy[c] # {} \/ pending[c] # {}
  PROVE  /\ at[c] = "recv" /\ decision[c] = {}
         /\ \E n : \E t \in Int :
              /\ serving[c] = {[for |-> n, left |-> t]}
              /\ Sent(c, n, t) \/ Prepared(c, n, t) \/ Up(c, n, t)
<1>1. ~Nothing(c)
  BY DEF Nothing
<1>2. Receiving(c) /\ decision[c] = {}
  BY <1>1 DEF Calm, Reading, Sending, Writing, Receiving
<1>3. at[c] = "recv"
  BY <1>2 DEF Receiving
<1>4. PICK n : \E t \in Int :
        /\ serving[c] = {[for |-> n, left |-> t]}
        /\ Sent(c, n, t) \/ Prepared(c, n, t) \/ Up(c, n, t) \/ Decided(c, n)
  BY <1>2 DEF Receiving
<1>5. ~Decided(c, n)
  BY <1>1 DEF Decided
<1> QED
  BY <1>2, <1>3, <1>4, <1>5

\* What the user saw is the prompt that is up.
LEMMA ShownIsUp ==
  ASSUME NEW c \in Conn, NEW n, NEW t, Up(c, n, t)
  PROVE  Shown(c) = {n} /\ pending[c] # {} /\ Cardinality(pending[c]) = 1
<1>1. PICK s \in Nat : pending[c] = {[for |-> n, left |-> s]}
  BY DEF Up
<1>2. {p.for : p \in pending[c]} = {n} /\ UNION {b.shown : b \in busy[c]} = {}
  BY <1>1 DEF Up
<1> QED
  BY <1>1, <1>2, FS_Singleton DEF Shown

\* The decision that is sent answers the request the worker waits for, whether the
\* user or the clock makes it, and any other is dropped.
LEMMA CalmResolve ==
  ASSUME CalmInv, NEW c \in Conn, Calm(c), NEW d,
         pending[c] # {} => d.for = Shown(c),
         Resolve(c, d), CloseWindow(c), busy[c] = {},
         UNCHANGED <<at, serving, decision, prompts, busy>>
  PROVE  Calm(c)' /\ pending'[c] = {}
<1>1. CASE pending[c] = {}
  <2>1. /\ UNCHANGED <<at, serving, decision, prompts, busy>>
        /\ decisions'[c] = decisions[c] /\ pending'[c] = {} /\ windows'[c] = 0
    BY <1>1, FS_EmptySet DEF Resolve, CloseWindow, CalmInv, Calm
  <2>2. Nothing(c)' <=> Nothing(c)
    BY <1>1, <2>1 DEF Nothing
  <2>3. ASSUME NEW n, NEW t
        PROVE  /\ Sent(c, n, t) => Sent(c, n, t)'
               /\ Decided(c, n) => Decided(c, n)'
               /\ ~Up(c, n, t) /\ ~Prepared(c, n, t)
    <3>1. Sent(c, n, t) => Sent(c, n, t)'
      BY <1>1, <2>1 DEF Sent
    <3>2. Decided(c, n) => Decided(c, n)'
      BY <2>1, <2>2 DEF Decided
    <3> QED
      BY <1>1, <3>1, <3>2 DEF Up, Prepared
  <2>4. Reading(c) => Reading(c)'
    BY <2>1, <2>2 DEF Reading
  <2>5. Sending(c) => Sending(c)'
    BY <2>1, <2>2 DEF Sending
  <2>6. Receiving(c) => Receiving(c)'
    BY <2>1, <2>3 DEF Receiving
  <2>7. Writing(c) => Writing(c)'
    BY <2>1, <2>2 DEF Writing
  <2> QED
    BY <2>1, <2>4, <2>5, <2>6, <2>7 DEF Calm
<1>2. CASE pending[c] # {}
  <2>1. PICK n : \E t \in Int :
          /\ serving[c] = {[for |-> n, left |-> t]}
          /\ Sent(c, n, t) \/ Prepared(c, n, t) \/ Up(c, n, t)
    BY <1>2, GuiBusy
  <2>2. PICK t \in Int :
          /\ serving[c] = {[for |-> n, left |-> t]}
          /\ Sent(c, n, t) \/ Prepared(c, n, t) \/ Up(c, n, t)
    BY <2>1
  <2>3. Up(c, n, t) /\ at[c] = "recv" /\ decision[c] = {}
    BY <1>2, <2>2, GuiBusy DEF Sent, Prepared
  <2>4. Shown(c) = {n} /\ Cardinality(pending[c]) = 1 /\ windows[c] = 1
    BY <1>2, <2>3, ShownIsUp DEF Calm
  <2>5. /\ decisions'[c] = <<d>> /\ d.for = {n} /\ pending'[c] = {} /\ windows'[c] = 0
    <3>1. decisions[c] = <<>>
      BY <2>3 DEF Up
    <3>2. decisions'[c] = Append(decisions[c], d) /\ pending'[c] = {}
      BY <1>2 DEF Resolve, CalmInv
    <3>3. windows'[c] = windows[c] - Cardinality(pending[c])
      BY DEF CloseWindow, CalmInv
    <3> QED
      BY <1>2, <2>4, <3>1, <3>2, <3>3
  <2>6. Decided(c, n)'
    BY <2>3, <2>5 DEF Decided, Nothing, Up
  <2>7. Receiving(c)'
    BY <2>2, <2>3, <2>6 DEF Receiving
  <2> QED
    BY <2>3, <2>5, <2>7 DEF Calm
<1> QED
  BY <1>1, <1>2

\* A look-up shorter than the grace leaves the dialog a deadline before the worker's.
LEMMA CalmPrompt ==
  ASSUME CalmInv, NEW c \in Conn, Calm(c), Prompt(c)
  PROVE  stalled'[c] \/ Calm(c)'
<1>1. PICK n : \E t \in Int :
        /\ serving[c] = {[for |-> n, left |-> t]}
        /\ Sent(c, n, t) \/ Prepared(c, n, t) \/ Up(c, n, t)
  BY GuiBusy DEF Prompt
<1>2. PICK t \in Int :
        /\ serving[c] = {[for |-> n, left |-> t]}
        /\ Sent(c, n, t) \/ Prepared(c, n, t) \/ Up(c, n, t)
  BY <1>1
<1>3. Sent(c, n, t) /\ at[c] = "recv" /\ decision[c] = {}
  BY <1>2, GuiBusy DEF Prompt, Prepared, Up
<1>4. Shown(c) = {} /\ windows[c] = 0
  BY <1>3 DEF Shown, Sent, Calm
<1>5. PICK s \in Stalls :
        /\ busy' = [busy EXCEPT ![c] =
                     {[for |-> Head(prompts[c]), left |-> s, shown |-> Shown(c)]}]
        /\ stalled' = [stalled EXCEPT ![c] = @ \/ \A u \in s : u >= PL!Grace]
  BY DEF Prompt
<1>6. /\ UNCHANGED <<at, serving, decision, windows, events>>
      /\ prompts'[c] = <<>> /\ pending'[c] = {} /\ decisions'[c] = <<>> /\ events[c] = <<>>
      /\ Head(prompts[c]) = n
  BY <1>3 DEF Prompt, Resolve, CalmInv, WInv, workerVars, Sent
<1>7. CASE \A u \in s : u >= PL!Grace
  BY <1>5, <1>7 DEF CalmInv
<1>8. CASE \E u \in s : ~(u >= PL!Grace)
  <2>1. PICK u \in Nat : s = {u} /\ u < PL!Grace
    BY <1>8, StallsAssumption, Deadlines
  <2>2. busy'[c] = {[for |-> n, left |-> {u}, shown |-> {}]}
    BY <1>4, <1>5, <1>6, <2>1 DEF CalmInv
  <2>3. u + PL!UiTimeout < t
    BY <1>3, <2>1, Deadlines DEF Sent
  <2>4. Prepared(c, n, t)'
    BY <1>6, <2>2, <2>3 DEF Prepared
  <2>5. Receiving(c)'
    BY <1>2, <1>3, <1>6, <2>4 DEF Receiving
  <2> QED
    BY <1>3, <1>4, <1>6, <2>5 DEF Calm
<1> QED
  BY <1>7, <1>8

\* The dialog that opens has less time than the worker.
LEMMA CalmShow ==
  ASSUME CalmInv, NEW c \in Conn, Calm(c), Show(c)
  PROVE  Calm(c)'
<1>1. PICK b \in busy[c] :
        /\ b.left = {0}
        /\ pending' = [pending EXCEPT ![c] = {[for |-> b.for, left |-> PL!UiTimeout]}]
  BY DEF Show
<1>2. PICK n : \E t \in Int :
        /\ serving[c] = {[for |-> n, left |-> t]}
        /\ Sent(c, n, t) \/ Prepared(c, n, t) \/ Up(c, n, t)
  BY <1>1, GuiBusy
<1>3. PICK t \in Int :
        /\ serving[c] = {[for |-> n, left |-> t]}
        /\ Sent(c, n, t) \/ Prepared(c, n, t) \/ Up(c, n, t)
  BY <1>2
<1>4. Prepared(c, n, t) /\ at[c] = "recv" /\ decision[c] = {}
  BY <1>1, <1>3, GuiBusy DEF Sent, Up
<1>5. b.for = n /\ PL!UiTimeout < t
  <2>1. PICK s \in Nat : /\ busy[c] = {[for |-> n, left |-> {s}, shown |-> {}]}
                         /\ s + PL!UiTimeout < t
    BY <1>4 DEF Prepared
  <2>2. b = [for |-> n, left |-> {s}, shown |-> {}]
    BY <1>1, <2>1
  <2>3. s = 0
    BY <1>1, <2>2
  <2> QED
    BY <2>1, <2>2, <2>3, Deadlines
<1>6. /\ UNCHANGED <<at, serving, decision, prompts, decisions, events>>
      /\ busy'[c] = {} /\ windows'[c] = 1
      /\ pending'[c] = {[for |-> n, left |-> PL!UiTimeout]}
  BY <1>1, <1>4, <1>5 DEF Show, CalmInv, WInv, workerVars, Prepared, Calm
<1>7. Up(c, n, t)'
  BY <1>4, <1>5, <1>6, Deadlines DEF Up, Prepared
<1>8. Receiving(c)'
  BY <1>3, <1>4, <1>6, <1>7 DEF Receiving
<1> QED
  BY <1>4, <1>6, <1>8 DEF Calm

\* What the user does is about the one prompt that is up.
LEMMA CalmUser ==
  ASSUME CalmInv, NEW c \in Conn, Calm(c), User(c)
  PROVE  Calm(c)'
<1>1. pending[c] # {}
  BY DEF User, Calm
<1>2. PICK n : \E t \in Int :
        /\ serving[c] = {[for |-> n, left |-> t]}
        /\ Sent(c, n, t) \/ Prepared(c, n, t) \/ Up(c, n, t)
  BY <1>1, GuiBusy
<1>3. PICK t \in Int :
        /\ serving[c] = {[for |-> n, left |-> t]}
        /\ Sent(c, n, t) \/ Prepared(c, n, t) \/ Up(c, n, t)
  BY <1>2
<1>4. Up(c, n, t) /\ at[c] = "recv" /\ decision[c] = {}
  BY <1>1, <1>3, GuiBusy DEF Sent, Prepared
<1>5. Shown(c) = {n}
  BY <1>4, ShownIsUp
<1>6. PICK allows \in BoundedSeq(BOOLEAN, MaxEvents) :
        events' = [events EXCEPT ![c] =
                    [i \in DOMAIN allows |-> [for |-> Shown(c), allow |-> allows[i]]]]
  BY <1>5 DEF User
<1>7. \A i \in 1 .. Len(events'[c]) : events'[c][i].for = {n}
  <2>1. PICK m \in 0 .. MaxEvents : allows \in [1 .. m -> BOOLEAN]
    BY <1>6 DEF BoundedSeq, SeqOf
  <2>2. events'[c] = [i \in 1 .. m |-> [for |-> {n}, allow |-> allows[i]]]
    BY <1>5, <1>6, <2>1 DEF CalmInv
  <2>3. Len(events'[c]) = m
    BY <2>1, <2>2, EventsAssumption
  <2> QED
    BY <2>2, <2>3
<1>8. UNCHANGED <<at, serving, decision, prompts, decisions, pending, busy, windows>>
  BY DEF User, workerVars
<1>9. Up(c, n, t)'
  BY <1>4, <1>7, <1>8 DEF Up
<1>10. Receiving(c)'
  BY <1>3, <1>4, <1>8, <1>9 DEF Receiving
<1> QED
  BY <1>4, <1>8, <1>10 DEF Calm

\* The GUI handles what the user did, or the deadline.
LEMMA CalmGui ==
  ASSUME CalmInv, NEW c \in Conn, Calm(c), Gui(c)
  PROVE  stalled'[c] \/ Calm(c)'
<1>1. CASE Decide(c)
  <2>1. PICK d : d = Head(events[c])
    OBVIOUS
  <2>2. ASSUME pending[c] # {} PROVE d.for = Shown(c)
    <3>1. PICK n : \E t \in Int :
            /\ serving[c] = {[for |-> n, left |-> t]}
            /\ Sent(c, n, t) \/ Prepared(c, n, t) \/ Up(c, n, t)
      BY <2>2, GuiBusy
    <3>2. PICK t \in Int : Up(c, n, t)
      BY <2>2, <3>1 DEF Sent, Prepared
    <3>3. Len(events[c]) \in Nat \ {0} /\ Head(events[c]) = events[c][1]
      <4>1. PICK S : events[c] \in Seq(S) /\ events[c] # <<>>
        BY <1>1 DEF Decide, CalmInv
      <4> QED
        BY <4>1
    <3> QED
      <4>1. Shown(c) = {n}
        BY <3>2, ShownIsUp
      <4>2. events[c][1].for = {n}
        BY <3>2, <3>3 DEF Up
      <4> QED
        BY <2>1, <3>3, <4>1, <4>2
  <2>3. Resolve(c, d) /\ CloseWindow(c) /\ busy[c] = {}
    BY <1>1, <2>1 DEF Decide
  <2>4. UNCHANGED <<at, serving, decision, prompts, busy>>
    BY <1>1 DEF Decide, workerVars
  <2> QED
    BY <2>2, <2>3, <2>4, CalmResolve
<1>2. CASE Expire(c)
  <2>1. Resolve(c, Deny(Shown(c))) /\ CloseWindow(c) /\ busy[c] = {}
    BY <1>2 DEF Expire
  <2>2. Deny(Shown(c)).for = Shown(c)
    BY DEF Deny
  <2>3. UNCHANGED <<at, serving, decision, prompts, busy>>
    BY <1>2 DEF Expire, workerVars
  <2> QED
    BY <2>1, <2>2, <2>3, CalmResolve
<1> QED
  BY <1>1, <1>2, CalmPrompt, CalmShow DEF Gui

\* A second of a prompt that is being prepared.
LEMMA OlderPrepared ==
  ASSUME NEW n, NEW s, NEW z
  PROVE  OlderAsked([for |-> n, left |-> {s}, shown |-> z])
           = [for |-> n, left |-> {s - 1}, shown |-> z]
<1> DEFINE S == {n, z, {s}, {s - 1}}
           b == [for |-> n, left |-> {s}, shown |-> z]
<1>1. {u - 1 : u \in b.left} = {s - 1}
  OBVIOUS
<1>2. OlderAsked(b) = [b EXCEPT !.left = {s - 1}]
  BY <1>1 DEF OlderAsked
<1>3. [b EXCEPT !.left = {s - 1}] \in [for : S, left : S, shown : S]
  OBVIOUS
<1>4. [for |-> n, left |-> {s - 1}, shown |-> z] \in [for : S, left : S, shown : S]
  OBVIOUS
<1> QED
  BY <1>2, <1>3, <1>4

\* Time passes for the dialog and for the worker alike.
LEMMA CalmTick ==
  ASSUME CalmInv, NEW c \in Conn, Calm(c), Tick
  PROVE  Calm(c)'
<1>1. /\ UNCHANGED <<at, decision, prompts, decisions, windows, events>>
      /\ serving'[c] = {Older(r) : r \in serving[c]}
      /\ pending'[c] = {Older(p) : p \in pending[c]}
      /\ busy'[c] = {OlderAsked(b) : b \in busy[c]}
  BY DEF Tick, Older, OlderAsked
<1>2. /\ pending'[c] = {} <=> pending[c] = {}
      /\ busy'[c] = {} <=> busy[c] = {}
      /\ Nothing(c) => Nothing(c)'
  <2>1. pending'[c] = {} <=> pending[c] = {}
    BY <1>1
  <2>2. busy'[c] = {} <=> busy[c] = {}
    BY <1>1
  <2> QED
    BY <1>1, <2>1, <2>2 DEF Nothing
<1>3. CASE Reading(c)
  BY <1>1, <1>2, <1>3 DEF Calm, Reading
<1>4. CASE Writing(c) \/ Sending(c)
  BY <1>4 DEF Tick, WorkerWaits, Writing, Sending, CalmInv, WInv
<1>5. CASE Receiving(c)
  <2>1. at[c] = "recv" /\ WorkerWaits(c) /\ GuiWaits(c) /\ decisions[c] = <<>>
    BY <1>5 DEF Receiving, Tick, CalmInv, WInv, WorkerWaits
  <2>2. PICK n : \E t \in Int :
          /\ serving[c] = {[for |-> n, left |-> t]}
          /\ Sent(c, n, t) \/ Prepared(c, n, t) \/ Up(c, n, t) \/ Decided(c, n)
    BY <1>5 DEF Receiving
  <2>3. PICK t \in Int :
          /\ serving[c] = {[for |-> n, left |-> t]}
          /\ Sent(c, n, t) \/ Prepared(c, n, t) \/ Up(c, n, t) \/ Decided(c, n)
    BY <2>2
  <2>4. serving'[c] = {[for |-> n, left |-> t - 1]} /\ t - 1 \in Int
    <3>1. Older([for |-> n, left |-> t]) = [for |-> n, left |-> t - 1]
      BY DEF Older
    <3> QED
      BY <1>1, <2>3, <3>1
  <2>5. ~Decided(c, n) /\ ~Sent(c, n, t)
    BY <2>1 DEF Decided, Sent, GuiWaits
  <2>6. ASSUME Prepared(c, n, t) PROVE Receiving(c)'
    <3>1. PICK s \in Nat : /\ busy[c] = {[for |-> n, left |-> {s}, shown |-> {}]}
                           /\ s + PL!UiTimeout < t
      BY <2>6 DEF Prepared
    <3>2. s # 0
      BY <2>1, <3>1 DEF GuiWaits
    <3>3. busy'[c] = {[for |-> n, left |-> {s - 1}, shown |-> {}]}
      <4> DEFINE b == [for |-> n, left |-> {s}, shown |-> {}]
      <4>1. OlderAsked(b) = [for |-> n, left |-> {s - 1}, shown |-> {}]
        BY OlderPrepared
      <4>2. busy[c] = {b}
        BY <3>1
      <4> HIDE DEF b
      <4>3. busy'[c] = {OlderAsked(b)}
        BY <1>1, <4>2
      <4> QED
        BY <4>1, <4>3
    <3>4. s - 1 \in Nat /\ (s - 1) + PL!UiTimeout < t - 1
      BY <3>1, <3>2, Deadlines
    <3>5. Prepared(c, n, t - 1)'
      BY <1>1, <1>2, <2>6, <3>3, <3>4 DEF Prepared
    <3> QED
      BY <1>1, <2>1, <2>4, <3>5 DEF Receiving
  <2>7. ASSUME Up(c, n, t) PROVE Receiving(c)'
    <3>1. PICK s \in Nat : pending[c] = {[for |-> n, left |-> s]} /\ s < t
      BY <2>7 DEF Up
    <3>2. s # 0
      <4>1. busy[c] = {} /\ [for |-> n, left |-> s] \in pending[c]
        BY <2>7, <3>1 DEF Up
      <4>2. [for |-> n, left |-> s].left > 0
        BY <2>1, <4>1 DEF GuiWaits
      <4> QED
        BY <4>2
    <3>3. pending'[c] = {[for |-> n, left |-> s - 1]}
      <4>1. Older([for |-> n, left |-> s]) = [for |-> n, left |-> s - 1]
        BY DEF Older
      <4> QED
        BY <1>1, <3>1, <4>1
    <3>4. s - 1 \in Nat /\ s - 1 < t - 1
      BY <3>1, <3>2
    <3>5. Up(c, n, t - 1)'
      BY <1>1, <1>2, <2>7, <3>3, <3>4 DEF Up
    <3> QED
      BY <1>1, <2>1, <2>4, <3>5 DEF Receiving
  <2>8. Receiving(c)'
    BY <2>3, <2>5, <2>6, <2>7
  <2> QED
    BY <1>1, <1>2, <2>8 DEF Calm
<1> QED
  BY <1>3, <1>4, <1>5 DEF Calm

\* A window's batch is a sequence.
LEMMA EventsStep ==
  ASSUME CalmInv, NEW c \in Conn, Worker(c) \/ Gui(c) \/ User(c) \/ Close(c)
  PROVE  DOMAIN events' = Conn /\ \A d \in Conn : \E S : events'[d] \in Seq(S)
<1>1. CASE UNCHANGED events
  BY <1>1 DEF CalmInv
<1>2. ASSUME NEW e, events' = [events EXCEPT ![c] = e], \E S : e \in Seq(S)
      PROVE  DOMAIN events' = Conn /\ \A d \in Conn : \E S : events'[d] \in Seq(S)
  <2>1. events'[c] = e /\ DOMAIN events' = Conn
    BY <1>2 DEF CalmInv
  <2>2. \A d \in Conn \ {c} : events'[d] = events[d]
    BY <1>2 DEF CalmInv
  <2> QED
    BY <1>2, <2>1, <2>2 DEF CalmInv
<1>3. CASE Decide(c)
  <2>1. PICK S : events[c] \in Seq(S) /\ events[c] # <<>>
    BY <1>3 DEF Decide, CalmInv
  <2>2. Tail(events[c]) \in Seq(S)
    BY <2>1
  <2>3. events' = [events EXCEPT ![c] = Tail(events[c])]
    BY <1>3 DEF Decide
  <2> QED
    BY <1>2, <2>2, <2>3
<1>4. CASE Close(c)
  <2>1. <<>> \in Seq({})
    OBVIOUS
  <2>2. events' = [events EXCEPT ![c] = <<>>]
    BY <1>4 DEF Close
  <2> QED
    BY <1>2, <2>1, <2>2
<1>5. CASE User(c)
  <2>1. PICK B : \E allows \in BoundedSeq(B, MaxEvents) :
          events' = [events EXCEPT ![c] =
                      [i \in DOMAIN allows |-> [for |-> Shown(c), allow |-> allows[i]]]]
    BY <1>5 DEF User
  <2>2. PICK allows \in BoundedSeq(B, MaxEvents) :
          events' = [events EXCEPT ![c] =
                      [i \in DOMAIN allows |-> [for |-> Shown(c), allow |-> allows[i]]]]
    BY <2>1
  <2>3. PICK m \in 0 .. MaxEvents : allows \in [1 .. m -> B]
    BY DEF BoundedSeq, SeqOf
  <2> DEFINE batch == [i \in 1 .. m |-> [for |-> Shown(c), allow |-> allows[i]]]
             S == [for : {Shown(c)}, allow : B]
  <2>4. batch \in [1 .. m -> S] /\ m \in Nat
    BY <2>3, EventsAssumption
  <2> HIDE DEF batch, S
  <2>5. batch \in Seq(S)
    BY <2>4
  <2> USE DEF batch
  <2>6. events' = [events EXCEPT ![c] = batch]
    BY <2>2, <2>3
  <2> QED
    BY <1>2, <2>5, <2>6
<1> QED
  BY <1>1, <1>3, <1>4, <1>5
     DEF Worker, ReadRequest, Send, Receive, WriteAnswer, Gui, Prompt, Show, Expire, guiVars

\* Every step keeps every process calm until its GUI is held for the grace.
LEMMA CalmStep == CalmInv /\ [Next]_vars => CalmInv'
<1> SUFFICES ASSUME CalmInv, [Next]_vars PROVE CalmInv'
  OBVIOUS
<1>1. WInv'
  BY WStep DEF CalmInv
<1>2. UNCHANGED icedVars => CalmInv'
  <2> SUFFICES ASSUME UNCHANGED icedVars PROVE CalmInv'
    OBVIOUS
  <2>1. \A d \in Conn : SameProcess(d)
    BY DEF icedVars, workerVars, guiVars, SameProcess
  <2> QED
    BY <1>1, <2>1, CalmFrame DEF CalmInv, icedVars, workerVars, guiVars, SameProcess
<1>3. CASE Tick
  <2>1. \A c \in Conn : Calm(c) => Calm(c)'
    BY <1>3, CalmTick
  <2> QED
    BY <1>1, <1>3, <2>1 DEF CalmInv, Tick
<1>4. ASSUME NEW c \in Conn, Worker(c) \/ Gui(c) \/ User(c) \/ Close(c)
      PROVE  CalmInv'
  <2>1. /\ DOMAIN decision' = Conn /\ DOMAIN prompts' = Conn /\ DOMAIN decisions' = Conn
        /\ DOMAIN pending' = Conn /\ DOMAIN busy' = Conn /\ DOMAIN windows' = Conn
        /\ DOMAIN stalled' = Conn
    BY <1>4 DEF CalmInv, Worker, ReadRequest, Send, Receive, WriteAnswer, Gui, Prompt, Show,
                Decide, Expire, User, Close, Resolve, CloseWindow, guiVars, workerVars
  <2>2. DOMAIN events' = Conn /\ \A d \in Conn : \E S : events'[d] \in Seq(S)
    BY <1>4, EventsStep
  <2>3. \A d \in Conn \ {c} : SameProcess(d)
    BY <1>4 DEF CalmInv, WInv, Worker, ReadRequest, Send, Receive, WriteAnswer, Gui, Prompt,
                Show, Decide, Expire, User, Close, Resolve, CloseWindow, guiVars, workerVars,
                SameProcess
  <2>4. \A d \in Conn \ {c} : stalled'[d] \/ Calm(d)'
    BY <2>3, CalmFrame DEF CalmInv, SameProcess
  <2>5. stalled[c] => stalled'[c]
    BY <1>4 DEF CalmInv, Worker, ReadRequest, Send, Receive, WriteAnswer, Gui, Prompt, Show,
                Decide, Expire, User, Close, guiVars
  <2>6. CASE Close(c)
    <3>1. Reading(c)' /\ decision'[c] = {} /\ windows'[c] = 0 /\ pending'[c] = {}
      BY <2>6 DEF Close, Reading, Nothing, CalmInv, WInv
    <3>2. Calm(c)'
      BY <3>1 DEF Calm
    <3> QED
      BY <1>1, <2>1, <2>2, <2>4, <3>2 DEF CalmInv
  <2>7. CASE Worker(c) \/ Gui(c) \/ User(c)
    <3>1. stalled'[c] \/ Calm(c)'
      BY <2>5, <2>7, CalmWorker, CalmGui, CalmUser DEF CalmInv
    <3> QED
      BY <1>1, <2>1, <2>2, <2>4, <3>1 DEF CalmInv
  <2> QED
    BY <1>4, <2>6, <2>7
<1> QED
  BY <1>2, <1>3, <1>4 DEF Next, Daemon, vars

\* The worker writes the decision that was made for the request it answers, for any
\* number of processes and requests and any timeout, unless a look-up of the theme
\* took the grace or more: a click, a key or a deadline counts for the prompt that
\* was shown (resolve of main.rs and of worker.rs).
THEOREM OwnDecisions == Spec => []DecisionsAreTheirOwn
<1>1. CalmInv => DecisionsAreTheirOwn
  BY DEF CalmInv, Calm, Reading, Sending, Receiving, Writing, DecisionsAreTheirOwn
<1> QED
  BY <1>1, CalmInit, CalmStep, PTL DEF Spec

------------------------------------------------------------------------------
(* The link between the daemon and the UI, as PromptLinkProofs has it for the UI  *)
(* it abstracts: tlapm takes no theorem of a module through an INSTANCE of it, so *)
(* what is needed of them here is proved again of what the worker asks.           *)

\* What AnswerWithin adds to the UI's dialog is a time.
LEMMA UiTimeoutType == PL!AnswerWithin \in SUBSET Nat
BY IcedTimeoutAssumption DEF PL!AnswerWithin, PL!UiTimeout, PL!Grace, PL!Margin, PL!Floor

\* Deciding an access keeps the daemon's variables in their types.
LEMMA LinkDecideType ==
  ASSUME PL!TypeOK, NEW by \in SUBSET Nat, PL!Decide(by)
  PROVE  /\ decided' \in Seq(SUBSET Nat) /\ phase' = "idle" /\ wait' = 0 /\ waited' = 0
         /\ stuck' \in BOOLEAN
<1>1. stuck' \in BOOLEAN
  BY DEF PL!Decide
<1>2. /\ decided' = Append(decided, by) /\ decided \in Seq(SUBSET Nat)
      /\ phase' = "idle" /\ wait' = 0 /\ waited' = 0
  BY DEF PL!TypeOK, PL!Decide
<1> QED
  BY <1>1, <1>2

\* Every step of prompt_recovering, of the UIs and of time keeps the types.
LEMMA LinkTypeStep == PL!TypeOK /\ [PL!Next]_(PL!vars) => PL!TypeOK'
<1> SUFFICES ASSUME PL!TypeOK, [PL!Next]_(PL!vars) PROVE PL!TypeOK'
  OBVIOUS
<1> USE IcedTimeoutAssumption, IcedBoundsAssumption
<1>1. CASE PL!NewPrompt
  <2>1. waiting' \in Seq(Conn)
    BY <1>1 DEF PL!TypeOK, PL!NewPrompt
  <2>2. attempt' \in {1, 2} /\ phase' \in {"idle", "accept", "write", "read"}
    BY <1>1 DEF PL!NewPrompt
  <2> QED
    BY <1>1, <2>1, <2>2 DEF PL!TypeOK, PL!NewPrompt, PL!uiVars
<1>2. CASE PL!AcceptWaiting
  <2>1. Head(backlog) \in Conn /\ Tail(backlog) \in Seq(Conn)
    BY <1>2 DEF PL!TypeOK, PL!AcceptWaiting
  <2>2. link' \in {{}} \cup {{c} : c \in Conn} /\ backlog' \in Seq(Conn)
    BY <1>2, <2>1 DEF PL!AcceptWaiting
  <2> QED
    BY <1>2, <2>2 DEF PL!TypeOK, PL!AcceptWaiting, PL!uiVars
<1>3. CASE PL!AcceptNone
  <2>1. CASE attempt = 1
    BY <1>3, <2>1 DEF PL!TypeOK, PL!AcceptNone, PL!uiVars
  <2>2. CASE attempt = 2
    <3>1. PL!Decide({}) /\ UNCHANGED <<attempt, link, waiting, peer, Asking, backlog,
                                      requests, answers, signals>>
      BY <1>3, <2>2 DEF PL!AcceptNone, PL!uiVars
    <3>2. decided' \in Seq(SUBSET Nat) /\ phase' = "idle" /\ wait' = 0 /\ waited' = 0
          /\ stuck' \in BOOLEAN
      BY <3>1, LinkDecideType
    <3> QED
      BY <3>1, <3>2 DEF PL!TypeOK
  <2> QED
    BY <2>1, <2>2 DEF PL!TypeOK
<1>4. ASSUME NEW c \in Conn, PL!WriteRequest(c) PROVE PL!TypeOK'
  <2>1. PL!Access \in Nat /\ requests[c] \in Seq(Nat)
    BY DEF PL!TypeOK, PL!Access
  <2>2. requests' \in [Conn -> Seq(Nat)]
    BY <1>4, <2>1 DEF PL!TypeOK, PL!WriteRequest
  <2>3. /\ wait' = PromptTimeout /\ phase' = "read"
        /\ UNCHANGED <<attempt, link, waited, stuck, waiting, decided, peer, Asking,
                       backlog, answers, signals>>
    BY <1>4 DEF PL!WriteRequest, PL!uiVars
  <2> QED
    BY <2>2, <2>3 DEF PL!TypeOK
<1>5. ASSUME NEW c \in Conn, PL!ReadAnswer(c) PROVE PL!TypeOK'
  <2>1. Head(answers[c]) \in Nat /\ Tail(answers[c]) \in Seq(Nat)
    <3>1. answers[c] \in Seq(Nat) /\ answers[c] # <<>>
      BY <1>5 DEF PL!TypeOK, PL!ReadAnswer
    <3> QED
      BY <3>1
  <2>2. answers' \in [Conn -> Seq(Nat)]
    BY <1>5, <2>1 DEF PL!TypeOK, PL!ReadAnswer
  <2>3. PL!Decide({Head(answers[c])}) /\ {Head(answers[c])} \in SUBSET Nat
    BY <1>5, <2>1 DEF PL!ReadAnswer
  <2>4. decided' \in Seq(SUBSET Nat) /\ phase' = "idle" /\ wait' = 0 /\ waited' = 0
        /\ stuck' \in BOOLEAN
    BY <2>3, LinkDecideType
  <2>5. UNCHANGED <<attempt, link, waiting, peer, Asking, backlog, requests, signals>>
    BY <1>5 DEF PL!ReadAnswer, PL!uiVars
  <2> QED
    BY <2>2, <2>4, <2>5 DEF PL!TypeOK
<1>6. ASSUME NEW c \in Conn, PL!Disconnect(c) PROVE PL!TypeOK'
  <2>1. link' = {} /\ UNCHANGED <<waiting, peer, Asking, backlog, requests, answers, signals>>
    BY <1>6 DEF PL!Disconnect, PL!uiVars
  <2>2. CASE attempt = 1
    <3>1. /\ attempt' = 2 /\ phase' = "accept" /\ wait' = 0
          /\ waited' = waited /\ stuck' = stuck /\ decided' = decided
      BY <1>6, <2>2 DEF PL!Disconnect
    <3> QED
      BY <2>1, <3>1 DEF PL!TypeOK
  <2>3. CASE attempt = 2
    <3>1. PL!Decide({}) /\ attempt' = attempt
      BY <1>6, <2>3 DEF PL!Disconnect
    <3>2. decided' \in Seq(SUBSET Nat) /\ phase' = "idle" /\ wait' = 0 /\ waited' = 0
          /\ stuck' \in BOOLEAN
      BY <3>1, LinkDecideType
    <3> QED
      BY <2>1, <3>1, <3>2 DEF PL!TypeOK
  <2> QED
    BY <2>2, <2>3 DEF PL!TypeOK
<1>7. ASSUME NEW c \in Conn, PL!ReadTimeout(c) PROVE PL!TypeOK'
  <2>1. PL!Decide({}) /\ UNCHANGED <<attempt, link, waiting, peer, Asking, backlog, requests,
                                 answers, signals>>
    BY <1>7 DEF PL!ReadTimeout, PL!uiVars
  <2>2. decided' \in Seq(SUBSET Nat) /\ phase' = "idle" /\ wait' = 0 /\ waited' = 0
        /\ stuck' \in BOOLEAN
    BY <2>1, LinkDecideType
  <2> QED
    BY <2>1, <2>2 DEF PL!TypeOK
<1>8. CASE PL!Interrupt
  BY <1>8 DEF PL!TypeOK, PL!Interrupt, PL!uiVars
<1>9. ASSUME NEW c \in Conn, PL!Connect(c) PROVE PL!TypeOK'
  BY <1>9 DEF PL!TypeOK, PL!Connect, PL!daemonVars
<1>10. ASSUME NEW c \in Conn, PL!ReadRequest(c) PROVE PL!TypeOK'
  <2>1. Head(requests[c]) \in Nat /\ Tail(requests[c]) \in Seq(Nat)
    BY <1>10 DEF PL!TypeOK, PL!ReadRequest
  <2>2. requests' \in [Conn -> Seq(Nat)]
    BY <1>10, <2>1 DEF PL!TypeOK, PL!ReadRequest
  <2>3. Asking' \in [Conn -> SUBSET [for : Nat, left : SUBSET Nat]]
    BY <1>10, <2>1, UiTimeoutType DEF PL!TypeOK, PL!ReadRequest
  <2>4. UNCHANGED <<phase, attempt, link, wait, waited, stuck, waiting, decided, peer,
                    backlog, answers, signals>>
    BY <1>10 DEF PL!ReadRequest, PL!daemonVars
  <2> QED
    BY <2>2, <2>3, <2>4 DEF PL!TypeOK
<1>11. ASSUME NEW c \in Conn, PL!WriteAnswer(c) PROVE PL!TypeOK'
  <2>1. PICK q \in Asking[c] : answers' = [answers EXCEPT ![c] = Append(@, q.for)]
    BY <1>11 DEF PL!WriteAnswer
  <2>2. Append(answers[c], q.for) \in Seq(Nat)
    BY <2>1 DEF PL!TypeOK
  <2> QED
    BY <1>11, <2>1, <2>2 DEF PL!TypeOK, PL!WriteAnswer, PL!daemonVars
<1>12. ASSUME NEW c \in Conn, PL!Close(c) PROVE PL!TypeOK'
  BY <1>12 DEF PL!TypeOK, PL!Close, PL!daemonVars
<1>13. CASE PL!Tick
  <2>1. ASSUME NEW c \in Conn, NEW q \in Asking[c]
        PROVE  [q EXCEPT !.left = {t - 1 : t \in @}] \in [for : Nat, left : SUBSET Nat]
    <3>1. q \in [for : Nat, left : SUBSET Nat] /\ 0 \notin q.left
      BY <1>13, <2>1 DEF PL!Tick, PL!UiWaits, PL!Due, PL!TypeOK
    <3>2. {t - 1 : t \in q.left} \in SUBSET Nat
      BY <3>1
    <3> QED
      BY <3>1, <3>2
  <2>2. Asking' \in [Conn -> SUBSET [for : Nat, left : SUBSET Nat]]
    <3> DEFINE Aged(c) == {[q EXCEPT !.left = {t - 1 : t \in @}] : q \in Asking[c]}
    <3>1. Asking' = [c \in Conn |-> Aged(c)]
      BY <1>13 DEF PL!Tick
    <3>2. \A c \in Conn : Aged(c) \in SUBSET [for : Nat, left : SUBSET Nat]
      BY <2>1
    <3> QED
      BY <3>1, <3>2
  <2>3. wait' \in 0 .. PromptTimeout /\ waited' \in Nat /\ stuck' \in BOOLEAN
    BY <1>13 DEF PL!Tick, PL!DaemonClock, PL!DaemonWaits, PL!TypeOK
  <2> QED
    BY <1>13, <2>2, <2>3 DEF PL!Tick, PL!TypeOK
<1>14. CASE UNCHANGED PL!vars
  BY <1>14 DEF PL!TypeOK, PL!vars, PL!daemonVars, PL!uiVars
<1> QED
  BY <1>1, <1>2, <1>3, <1>4, <1>5, <1>6, <1>7, <1>8, <1>9, <1>10, <1>11, <1>12,
     <1>13, <1>14 DEF PL!Next, PL!Prompting, PL!Ui

\* The program starts well typed.
LEMMA LinkTypeInit == PL!Init => PL!TypeOK
<1> SUFFICES ASSUME PL!Init PROVE PL!TypeOK
  OBVIOUS
<1>1. stuck \in BOOLEAN
  BY DEF PL!Init
<1>2. /\ phase = "idle" /\ attempt = 1 /\ link = {} /\ backlog = <<>>
      /\ peer = [c \in Conn |-> "unborn"]
      /\ requests = [c \in Conn |-> <<>>] /\ answers = [c \in Conn |-> <<>>]
      /\ Asking = [c \in Conn |-> {}]
      /\ wait = 0 /\ waited = 0 /\ signals = MaxSignals
      /\ waiting = <<>> /\ decided = <<>>
  BY DEF PL!Init
<1> QED
  BY <1>1, <1>2, IcedTimeoutAssumption, IcedBoundsAssumption DEF PL!TypeOK

------------------------------------------------------------------------------
(* Type correctness of the UI. *)

\* What the worker has read, the dialog the GUI shows and the one it prepares.
Request == [for : Nat, left : 0 .. PL!UiTimeout + PL!Grace]
Dialog == [for : Nat, left : 0 .. PL!UiTimeout]
LookUp == [for : Nat, left : SUBSET Int, shown : SUBSET Nat]

\* One process: a worker that writes has a decision, there is a window for the one
\* dialog, and a process that is gone has neither.
Process(c) ==
  /\ decision[c] = {} <=> at[c] # "write"
  /\ AtMostOne(serving[c]) /\ AtMostOne(decision[c])
  /\ AtMostOne(pending[c]) /\ AtMostOne(busy[c]) /\ (pending[c] = {} \/ busy[c] = {})
  /\ pending[c] # {} => windows[c] # 0
  /\ Len(events[c]) <= MaxEvents
  /\ ~PL!Open(c) => Nothing(c) /\ windows[c] = 0 /\ events[c] = <<>>

UiTypes ==
  /\ serving \in [Conn -> SUBSET Request] /\ decision \in [Conn -> SUBSET Decision]
  /\ prompts \in [Conn -> Seq(Nat)] /\ decisions \in [Conn -> Seq(Decision)]
  /\ pending \in [Conn -> SUBSET Dialog] /\ busy \in [Conn -> SUBSET LookUp]
  /\ windows \in [Conn -> Nat] /\ events \in [Conn -> Seq(Decision)]
  /\ stalled \in [Conn -> BOOLEAN]

UiInv == WInv /\ PL!TypeOK /\ UiTypes /\ \A c \in Conn : Process(c)

\* A process that does not change stays as it is, even when it connects.
LEMMA ProcessFrame ==
  ASSUME NEW d \in Conn, SameProcess(d), Process(d), PL!Open(d) => PL!Open(d)'
  PROVE  Process(d)'
BY DEF SameProcess, Process, AtMostOne, Nothing

\* What the user is shown is a set of accesses, and one is a decision's.
LEMMA ShownType ==
  ASSUME UiInv, NEW c \in Conn
  PROVE  Shown(c) \in SUBSET Nat /\ Deny(Shown(c)) \in Decision
<1>1. Shown(c) \in SUBSET Nat
  BY DEF UiInv, UiTypes, Shown, Dialog, LookUp
<1> QED
  BY <1>1 DEF Deny, Decision

\* What resolves a prompt is a decision, and the prompt is gone.
LEMMA ResolveType ==
  ASSUME UiInv, NEW c \in Conn, NEW d \in Decision, Resolve(c, d)
  PROVE  /\ decisions' \in [Conn -> Seq(Decision)]
         /\ pending' \in [Conn -> SUBSET Dialog] /\ pending'[c] = {}
BY DEF UiInv, UiTypes, Resolve

\* A window is closed only when there is one.
LEMMA CloseWindowType ==
  ASSUME UiInv, NEW c \in Conn, CloseWindow(c)
  PROVE  windows' \in [Conn -> Nat]
<1>1. Cardinality(pending[c]) \in 0 .. windows[c]
  <2>1. CASE pending[c] = {}
    BY <2>1, FS_EmptySet DEF UiInv, UiTypes
  <2>2. CASE pending[c] # {}
    <3>1. PICK p : pending[c] = {p}
      <4>1. PICK p : p \in pending[c]
        BY <2>2
      <4>2. pending[c] = {p}
        BY <4>1 DEF UiInv, Process, AtMostOne
      <4> QED
        BY <4>2
    <3>2. Cardinality(pending[c]) = 1
      BY <3>1, FS_Singleton
    <3> QED
      BY <2>2, <3>2 DEF UiInv, UiTypes, Process
  <2> QED
    BY <2>1, <2>2
<1>2. windows[c] - Cardinality(pending[c]) \in Nat
  BY <1>1 DEF UiInv, UiTypes
<1> QED
  BY <1>2 DEF CloseWindow, UiInv, UiTypes

\* The worker's steps.
LEMMA WorkerTypes ==
  ASSUME UiInv, NEW c \in Conn, Worker(c)
  PROVE  UiTypes' /\ Process(c)'
<1>1. CASE ReadRequest(c)
  <2> DEFINE r == [for |-> Head(requests[c]), left |-> PL!UiTimeout + PL!Grace]
  <2>1. r \in Request
    <3>1. Head(requests[c]) \in Nat
      BY <1>1 DEF ReadRequest, UiInv, PL!TypeOK
    <3> QED
      BY <3>1, Deadlines DEF Request
  <2>2. /\ serving' = [serving EXCEPT ![c] = {r}] /\ at' = [at EXCEPT ![c] = "send"]
        /\ at[c] = "read" /\ peer' = peer
        /\ UNCHANGED <<decision, prompts, decisions, pending, busy, windows, events, stalled>>
    BY <1>1 DEF ReadRequest, guiVars
  <2> HIDE DEF r
  <2>3. UiTypes'
    BY <2>1, <2>2 DEF UiInv, UiTypes
  <2>4. serving'[c] = {r} /\ at'[c] = "send" /\ PL!Open(c) /\ PL!Open(c)'
    BY <1>1, <2>2 DEF ReadRequest, UiInv, WInv, PL!Open
  <2> QED
    BY <2>2, <2>3, <2>4 DEF UiInv, Process, AtMostOne
<1>2. CASE Send(c)
  <2>1. PICK r \in serving[c] : prompts' = [prompts EXCEPT ![c] = Append(@, r.for)]
    BY <1>2 DEF Send
  <2>2. /\ decisions' = [decisions EXCEPT ![c] = <<>>]
        /\ at' = [at EXCEPT ![c] = "recv"] /\ at[c] = "send"
        /\ UNCHANGED <<serving, decision, pending, busy, windows, events, stalled, peer>>
    BY <1>2 DEF Send, guiVars, linkVars
  <2>3. Append(prompts[c], r.for) \in Seq(Nat) /\ <<>> \in Seq(Decision)
    BY <2>1 DEF UiInv, UiTypes, Request
  <2>4. UiTypes'
    BY <2>1, <2>2, <2>3 DEF UiInv, UiTypes
  <2>5. PL!Open(c) /\ PL!Open(c)'
    BY <2>2 DEF UiInv, WInv, PL!Open
  <2> QED
    BY <2>2, <2>4, <2>5 DEF UiInv, WInv, Process
<1>3. CASE Receive(c)
  <2>1. /\ at[c] = "recv" /\ at' = [at EXCEPT ![c] = "write"]
        /\ UNCHANGED <<serving, prompts, pending, busy, windows, events, stalled, peer>>
    BY <1>3 DEF Receive, guiVars, linkVars
  <2>2. PICK d : decision' = [decision EXCEPT ![c] = {d}]
                 /\ d \in Decision /\ decisions' \in [Conn -> Seq(Decision)]
    <3>1. CASE decisions[c] # <<>>
      <4>1. Head(decisions[c]) \in Decision /\ Tail(decisions[c]) \in Seq(Decision)
        BY <3>1 DEF UiInv, UiTypes
      <4>2. /\ decision' = [decision EXCEPT ![c] = {Head(decisions[c])}]
            /\ decisions' = [decisions EXCEPT ![c] = Tail(@)]
        BY <1>3, <3>1 DEF Receive
      <4>3. decisions' \in [Conn -> Seq(Decision)]
        BY <4>1, <4>2 DEF UiInv, UiTypes
      <4> QED
        BY <4>1, <4>2, <4>3
    <3>2. CASE decisions[c] = <<>>
      <4>1. Deny({r.for : r \in serving[c]}) \in Decision
        BY DEF UiInv, UiTypes, Request, Deny, Decision
      <4> QED
        BY <1>3, <3>2, <4>1 DEF Receive, UiInv, UiTypes
    <3> QED
      BY <3>1, <3>2
  <2>3. UiTypes'
    BY <2>1, <2>2 DEF UiInv, UiTypes
  <2>4. PL!Open(c) /\ PL!Open(c)'
    BY <2>1 DEF UiInv, WInv, PL!Open
  <2>5. decision'[c] = {d} /\ at'[c] = "write"
    BY <2>1, <2>2 DEF UiInv, UiTypes, WInv
  <2> QED
    BY <2>1, <2>3, <2>4, <2>5 DEF UiInv, Process, AtMostOne
<1>4. CASE WriteAnswer(c)
  <2>1. /\ serving' = [serving EXCEPT ![c] = {}] /\ decision' = [decision EXCEPT ![c] = {}]
        /\ at' = [at EXCEPT ![c] = "read"] /\ at[c] = "write"
        /\ UNCHANGED <<prompts, decisions, pending, busy, windows, events, stalled, peer>>
    BY <1>4 DEF WriteAnswer, guiVars
  <2>2. UiTypes'
    BY <2>1 DEF UiInv, UiTypes
  <2>3. PL!Open(c) /\ PL!Open(c)'
    BY <2>1 DEF UiInv, WInv, PL!Open
  <2>4. /\ serving'[c] = {} /\ decision'[c] = {} /\ at'[c] = "read"
        /\ pending'[c] = pending[c] /\ busy'[c] = busy[c] /\ windows'[c] = windows[c]
        /\ events'[c] = events[c]
    BY <2>1 DEF UiInv, UiTypes, WInv
  <2> QED
    BY <2>2, <2>3, <2>4 DEF UiInv, Process, AtMostOne
<1> QED
  BY <1>1, <1>2, <1>3, <1>4 DEF Worker

\* A batch of the user's events is a sequence of decisions about what is shown.
LEMMA BatchType ==
  ASSUME UiInv, NEW c \in Conn, User(c)
  PROVE  /\ events' \in [Conn -> Seq(Decision)] /\ Len(events'[c]) <= MaxEvents
         /\ UNCHANGED <<linkVars, workerVars, pending, busy, windows, stalled, prompts,
                        decisions>>
<1> DEFINE B == IF Shown(c) = {} THEN {FALSE} ELSE BOOLEAN
<1>1. PICK allows \in BoundedSeq(B, MaxEvents) :
        events' = [events EXCEPT ![c] =
                    [i \in DOMAIN allows |-> [for |-> Shown(c), allow |-> allows[i]]]]
  BY DEF User
<1>2. PICK m \in 0 .. MaxEvents : allows \in [1 .. m -> B]
  BY <1>1 DEF BoundedSeq, SeqOf
<1> DEFINE batch == [i \in 1 .. m |-> [for |-> Shown(c), allow |-> allows[i]]]
<1>3. \A i \in 1 .. m : allows[i] \in BOOLEAN
  BY <1>2
<1>4. batch \in [1 .. m -> Decision] /\ m \in Nat /\ m <= MaxEvents
  BY <1>2, <1>3, ShownType, EventsAssumption DEF Decision
<1> HIDE DEF batch
<1>5. batch \in Seq(Decision) /\ Len(batch) <= MaxEvents
  BY <1>4
<1> USE DEF batch
<1>6. events' = [events EXCEPT ![c] = batch]
  BY <1>1, <1>2
<1> HIDE DEF batch
<1> QED
  BY <1>5, <1>6 DEF UiInv, UiTypes, User

\* The steps of the GUI and of its user.
LEMMA GuiTypes ==
  ASSUME UiInv, NEW c \in Conn, Gui(c) \/ User(c)
  PROVE  UiTypes' /\ Process(c)'
<1> DEFINE Rest == UNCHANGED <<at, serving, decision, peer>>
<1>1. CASE Prompt(c)
  <2>1. PICK s \in Stalls :
          /\ busy' = [busy EXCEPT ![c] =
                       {[for |-> Head(prompts[c]), left |-> s, shown |-> Shown(c)]}]
          /\ stalled' = [stalled EXCEPT ![c] = @ \/ \A t \in s : t >= PL!Grace]
    BY <1>1 DEF Prompt
  <2>2. Rest /\ UNCHANGED <<windows, events>> /\ prompts[c] # <<>>
        /\ prompts' = [prompts EXCEPT ![c] = Tail(@)] /\ Resolve(c, Deny(Shown(c)))
    BY <1>1 DEF Prompt, linkVars, workerVars
  <2> DEFINE b == [for |-> Head(prompts[c]), left |-> s, shown |-> Shown(c)]
  <2>3. b \in LookUp /\ Tail(prompts[c]) \in Seq(Nat)
    <3>1. Head(prompts[c]) \in Nat /\ Tail(prompts[c]) \in Seq(Nat)
      BY <2>2 DEF UiInv, UiTypes
    <3>2. s \in SUBSET Int
      BY StallsAssumption
    <3> QED
      BY <3>1, <3>2, ShownType DEF LookUp
  <2>4. busy' = [busy EXCEPT ![c] = {b}]
    BY <2>1
  <2> HIDE DEF b
  <2>5. /\ decisions' \in [Conn -> Seq(Decision)]
        /\ pending' \in [Conn -> SUBSET Dialog] /\ pending'[c] = {}
    BY <2>2, ShownType, ResolveType
  <2>6. UiTypes'
    <3>1. stalled' \in [Conn -> BOOLEAN]
      BY <2>1 DEF UiInv, UiTypes
    <3>2. busy' \in [Conn -> SUBSET LookUp] /\ prompts' \in [Conn -> Seq(Nat)]
      BY <2>2, <2>3, <2>4 DEF UiInv, UiTypes
    <3> QED
      BY <2>2, <2>5, <3>1, <3>2 DEF UiInv, UiTypes
  <2>7. PL!Open(c) /\ PL!Open(c)'
    BY <2>2 DEF UiInv, Process, Nothing, PL!Open
  <2>8. busy'[c] = {b}
    BY <2>4 DEF UiInv, UiTypes
  <2> QED
    BY <2>2, <2>5, <2>6, <2>7, <2>8 DEF UiInv, Process, AtMostOne
<1>2. CASE Show(c)
  <2>1. PICK b \in busy[c] :
          pending' = [pending EXCEPT ![c] = {[for |-> b.for, left |-> PL!UiTimeout]}]
    BY <1>2 DEF Show
  <2>2. Rest /\ UNCHANGED <<events, stalled, prompts, decisions>>
        /\ busy' = [busy EXCEPT ![c] = {}] /\ windows' = [windows EXCEPT ![c] = @ + 1]
    BY <1>2 DEF Show, linkVars, workerVars
  <2> DEFINE p == [for |-> b.for, left |-> PL!UiTimeout]
  <2>3. p \in Dialog
    BY Deadlines DEF UiInv, UiTypes, LookUp, Dialog
  <2>4. pending' = [pending EXCEPT ![c] = {p}]
    BY <2>1
  <2> HIDE DEF p
  <2>5. UiTypes' /\ windows'[c] # 0
    BY <2>2, <2>3, <2>4 DEF UiInv, UiTypes
  <2>6. PL!Open(c) /\ PL!Open(c)'
    BY <2>1, <2>2 DEF UiInv, Process, Nothing, PL!Open
  <2> QED
    BY <2>2, <2>4, <2>5, <2>6 DEF UiInv, UiTypes, Process, AtMostOne
<1>3. CASE Decide(c)
  <2>1. Head(events[c]) \in Decision /\ Tail(events[c]) \in Seq(Decision)
        /\ Len(Tail(events[c])) <= MaxEvents
    <3>1. events[c] \in Seq(Decision) /\ events[c] # <<>> /\ Len(events[c]) <= MaxEvents
      BY <1>3 DEF Decide, UiInv, UiTypes, Process
    <3> QED
      BY <3>1, EventsAssumption
  <2>2. Rest /\ UNCHANGED <<busy, stalled, prompts>> /\ busy[c] = {}
        /\ Resolve(c, Head(events[c])) /\ CloseWindow(c)
        /\ events' = [events EXCEPT ![c] = Tail(@)]
    BY <1>3 DEF Decide, linkVars, workerVars
  <2>3. /\ decisions' \in [Conn -> Seq(Decision)]
        /\ pending' \in [Conn -> SUBSET Dialog] /\ pending'[c] = {}
        /\ windows' \in [Conn -> Nat]
    BY <2>1, <2>2, ResolveType, CloseWindowType
  <2>4. UiTypes'
    <3>1. events' \in [Conn -> Seq(Decision)]
      BY <2>1, <2>2 DEF UiInv, UiTypes
    <3> QED
      BY <2>2, <2>3, <3>1 DEF UiInv, UiTypes
  <2>5. PL!Open(c) /\ PL!Open(c)'
    BY <1>3, <2>2 DEF Decide, UiInv, Process, PL!Open
  <2>6. Len(events'[c]) <= MaxEvents
    BY <2>1, <2>2 DEF UiInv, UiTypes
  <2>7. pending'[c] # {} => windows'[c] # 0
    BY <2>3
  <2> QED
    BY <2>2, <2>3, <2>4, <2>5, <2>6, <2>7 DEF UiInv, Process, AtMostOne
<1>4. CASE Expire(c)
  <2>1. Rest /\ UNCHANGED <<busy, events, stalled, prompts>> /\ busy[c] = {}
        /\ Resolve(c, Deny(Shown(c))) /\ CloseWindow(c) /\ pending[c] # {}
    BY <1>4 DEF Expire, linkVars, workerVars
  <2>2. /\ decisions' \in [Conn -> Seq(Decision)]
        /\ pending' \in [Conn -> SUBSET Dialog] /\ pending'[c] = {}
        /\ windows' \in [Conn -> Nat]
    BY <2>1, ShownType, ResolveType, CloseWindowType
  <2>3. UiTypes'
    BY <2>1, <2>2 DEF UiInv, UiTypes
  <2>4. PL!Open(c) /\ PL!Open(c)'
    BY <2>1 DEF UiInv, Process, Nothing, PL!Open
  <2> QED
    BY <2>1, <2>2, <2>4 DEF UiInv, UiTypes, Process, AtMostOne
<1>5. CASE User(c)
  <2>1. UiTypes'
    BY <1>5, BatchType DEF UiInv, UiTypes, workerVars
  <2>2. PL!Open(c) /\ PL!Open(c)'
    BY <1>5, BatchType DEF User, UiInv, UiTypes, Process, PL!Open, linkVars
  <2>3. Len(events'[c]) <= MaxEvents
        /\ UNCHANGED <<at, serving, decision, pending, busy, windows>>
    BY <1>5, BatchType DEF workerVars
  <2> QED
    BY <2>1, <2>2, <2>3 DEF UiInv, Process
<1> QED
  BY <1>1, <1>2, <1>3, <1>4, <1>5 DEF Gui

\* A second passes for the worker and for the GUI before either's time is up.
LEMMA TickTypes ==
  ASSUME UiInv, Tick
  PROVE  UiTypes' /\ \A c \in Conn : Process(c)'
<1>1. /\ UNCHANGED <<at, decision, prompts, decisions, windows, events, stalled, peer>>
      /\ serving' = [c \in Conn |-> {Older(r) : r \in serving[c]}]
      /\ pending' = [c \in Conn |-> {Older(p) : p \in pending[c]}]
      /\ busy' = [c \in Conn |-> {OlderAsked(b) : b \in busy[c]}]
  BY DEF Tick, Older, OlderAsked
<1>2. ASSUME NEW c \in Conn, NEW r \in serving[c] PROVE Older(r) \in Request
  <2>1. r \in Request /\ at[c] # "read" /\ PL!Open(c)
    BY DEF UiInv, UiTypes, WInv
  <2>2. r.left # 0
    BY <2>1 DEF Tick, WorkerWaits, Expired
  <2>3. r.left - 1 \in 0 .. PL!UiTimeout + PL!Grace
    BY <2>1, <2>2, Deadlines DEF Request
  <2> QED
    BY <2>1, <2>3 DEF Request, Older
<1>3. ASSUME NEW c \in Conn, NEW p \in pending[c] PROVE Older(p) \in Dialog
  <2>1. p \in Dialog /\ busy[c] = {} /\ PL!Open(c)
    BY DEF UiInv, UiTypes, Process, Nothing
  <2>2. p.left > 0
    BY <2>1 DEF Tick, GuiWaits
  <2>3. p.left - 1 \in 0 .. PL!UiTimeout
    BY <2>1, <2>2, Deadlines DEF Dialog
  <2> QED
    BY <2>1, <2>3 DEF Dialog, Older
<1>4. ASSUME NEW c \in Conn, NEW b \in busy[c] PROVE OlderAsked(b) \in LookUp
  <2>1. b \in LookUp
    BY DEF UiInv, UiTypes
  <2>2. {t - 1 : t \in b.left} \in SUBSET Int
    BY <2>1 DEF LookUp
  <2> QED
    BY <2>1, <2>2 DEF LookUp, OlderAsked
<1>5. UiTypes'
  <2>1. serving' \in [Conn -> SUBSET Request]
    BY <1>1, <1>2
  <2>2. pending' \in [Conn -> SUBSET Dialog]
    BY <1>1, <1>3
  <2>3. busy' \in [Conn -> SUBSET LookUp]
    BY <1>1, <1>4
  <2> QED
    BY <1>1, <2>1, <2>2, <2>3 DEF UiInv, UiTypes
<1>6. ASSUME NEW c \in Conn PROVE Process(c)'
  <2>1. /\ pending'[c] = {} <=> pending[c] = {}
        /\ busy'[c] = {} <=> busy[c] = {}
        /\ AtMostOne(serving'[c]) /\ AtMostOne(pending'[c]) /\ AtMostOne(busy'[c])
    BY <1>1 DEF UiInv, Process, AtMostOne
  <2>2. Process(c)
    BY DEF UiInv
  <2> QED
    BY <1>1, <2>1, <2>2 DEF Process, Nothing, PL!Open
<1> QED
  BY <1>5, <1>6

\* Every step keeps the worker, the GUI and the link in their types.
LEMMA UiStep == UiInv /\ [Next]_vars => UiInv'
<1> SUFFICES ASSUME UiInv, [Next]_vars PROVE UiInv'
  OBVIOUS
<1>1. WInv' /\ PL!TypeOK'
  BY WStep, RefinesStep, LinkTypeStep DEF UiInv
<1>2. ASSUME UNCHANGED icedVars, \A d \in Conn : PL!Open(d) => PL!Open(d)'
      PROVE  UiInv'
  <2>1. \A d \in Conn : SameProcess(d)
    BY <1>2 DEF icedVars, workerVars, guiVars, SameProcess
  <2>2. \A d \in Conn : Process(d)'
    BY <1>2, <2>1, ProcessFrame DEF UiInv
  <2>3. UiTypes'
    BY <1>2 DEF icedVars, workerVars, guiVars, UiInv, UiTypes
  <2> QED
    BY <1>1, <2>2, <2>3 DEF UiInv
<1>3. CASE Daemon
  <2>1. DOMAIN peer = Conn
    BY DEF UiInv, WInv
  <2> QED
    BY <1>2, <1>3, <2>1, DaemonKeepsPeers DEF Daemon
<1>4. CASE Tick
  BY <1>1, <1>4, TickTypes DEF UiInv
<1>5. ASSUME NEW c \in Conn, Worker(c) \/ Gui(c) \/ User(c) \/ Close(c) PROVE UiInv'
  <2>1. ASSUME NEW d \in Conn \ {c} PROVE Process(d)'
    <3>1. SameProcess(d)
      BY <1>5 DEF UiInv, UiTypes, WInv, Worker, ReadRequest, Send, Receive, WriteAnswer, Gui,
                  Prompt, Show, Decide, Expire, User, Close, Resolve, CloseWindow, guiVars,
                  workerVars, SameProcess
    <3>2. peer'[d] = peer[d]
      BY <1>5 DEF UiInv, WInv, Worker, ReadRequest, Send, Receive, WriteAnswer, Gui, Prompt,
                  Show, Decide, Expire, User, Close, linkVars
    <3> QED
      BY <3>1, <3>2, ProcessFrame DEF UiInv, PL!Open
  <2>2. UiTypes' /\ Process(c)'
    <3>1. CASE Worker(c)
      BY <3>1, WorkerTypes
    <3>2. CASE Gui(c) \/ User(c)
      BY <3>2, GuiTypes
    <3>3. CASE Close(c)
      <4>1. <<>> \in Seq(Nat) /\ <<>> \in Seq(Decision) /\ Len(<<>>) = 0
        OBVIOUS
      <4>2. /\ serving' = [serving EXCEPT ![c] = {}] /\ decision' = [decision EXCEPT ![c] = {}]
            /\ prompts' = [prompts EXCEPT ![c] = <<>>]
            /\ decisions' = [decisions EXCEPT ![c] = <<>>]
            /\ pending' = [pending EXCEPT ![c] = {}] /\ busy' = [busy EXCEPT ![c] = {}]
            /\ windows' = [windows EXCEPT ![c] = 0] /\ events' = [events EXCEPT ![c] = <<>>]
            /\ at' = [at EXCEPT ![c] = "read"] /\ stalled' = stalled
        BY <3>3 DEF Close
      <4>3. UiTypes'
        BY <4>1, <4>2 DEF UiInv, UiTypes
      <4>4. /\ at'[c] = "read" /\ serving'[c] = {} /\ decision'[c] = {} /\ windows'[c] = 0
            /\ prompts'[c] = <<>> /\ pending'[c] = {} /\ busy'[c] = {} /\ events'[c] = <<>>
        BY <4>2 DEF UiInv, UiTypes, WInv
      <4> QED
        BY <4>1, <4>3, <4>4, EventsAssumption DEF Process, Nothing, AtMostOne
    <3> QED
      BY <1>5, <3>1, <3>2, <3>3
  <2> QED
    BY <1>1, <2>1, <2>2 DEF UiInv
<1>6. CASE UNCHANGED vars
  BY <1>2, <1>6 DEF vars, linkVars, PL!Open
<1> QED
  BY <1>3, <1>4, <1>5, <1>6 DEF Next

\* At the start no process is there.
LEMMA UiInit == Init => UiInv
<1> SUFFICES ASSUME Init PROVE UiInv
  OBVIOUS
<1>1. <<>> \in Seq(Nat) /\ <<>> \in Seq(Decision) /\ Len(<<>>) = 0
  OBVIOUS
<1>2. UiTypes
  BY <1>1 DEF Init, UiTypes
<1>3. \A c \in Conn : Process(c)
  BY <1>1, EventsAssumption DEF Init, Process, AtMostOne, Nothing
<1> QED
  BY <1>2, <1>3, WInit, LinkTypeInit DEF Init, UiInv

\* The worker and the GUI of filewall-ui-iced keep one request, one decision and one
\* dialog each in their types, and no clock of theirs runs below zero.
THEOREM UiTypeCorrect == Spec => []TypeOK
<1>1. ASSUME UiInv PROVE TypeOK
  <2>1. ASSUME NEW S, NEW s \in Seq(S) PROVE Range(s) \subseteq S
    BY DEF Range
  <2>2. \A c \in Conn : Range(decisions[c]) \subseteq Decision
                         /\ Range(events[c]) \subseteq Decision
    BY <1>1, <2>1 DEF UiInv, UiTypes
  <2>3. ASSUME NEW c \in Conn
        PROVE  /\ \A r \in serving[c] : r.for \in Nat /\ r.left \in 0 .. PL!UiTimeout + PL!Grace
               /\ \A p \in pending[c] : p.for \in Nat /\ p.left \in 0 .. PL!UiTimeout
               /\ decision[c] \subseteq Decision /\ prompts[c] \in Seq(Nat)
               /\ windows[c] \in Nat /\ stalled[c] \in BOOLEAN
    BY <1>1 DEF UiInv, UiTypes, Request, Dialog
  <2>4. ASSUME NEW c \in Conn
        PROVE  /\ serving[c] = {} <=> at[c] = "read"
               /\ decision[c] = {} <=> at[c] # "write"
               /\ AtMostOne(serving[c]) /\ AtMostOne(decision[c])
               /\ AtMostOne(pending[c]) /\ AtMostOne(busy[c])
               /\ pending[c] = {} \/ busy[c] = {}
               /\ Len(events[c]) <= MaxEvents
    BY <1>1 DEF UiInv, WInv, Process
  <2>5. at \in [Conn -> {"read", "send", "recv", "write"}]
    BY <1>1 DEF UiInv, WInv
  <2> QED
    BY <2>2, <2>3, <2>4, <2>5 DEF TypeOK
<1> QED
  BY <1>1, UiInit, UiStep, PTL DEF Spec

------------------------------------------------------------------------------
(* A window is for the access that is being decided. *)

\* The clocks, whatever is configured.
SafeTimeout == PromptTimeout >= 5

\* A UI that honours its timeout has answered before the daemon's read gives up
\* (ui_timeout_ms of run(), BACKSTOP_GRACE_MS of the worker).
LEMMA UiAnswersInTime ==
  ASSUME SafeTimeout
  PROVE  /\ PL!AnswerWithin = {PL!UiTimeout + PL!Grace}
         /\ PL!UiTimeout + PL!Grace \in Nat /\ PL!UiTimeout + PL!Grace < PromptTimeout
BY IcedTimeoutAssumption
   DEF SafeTimeout, PL!AnswerWithin, PL!UiTimeout, PL!Grace, PL!Margin, PL!Floor

\* Nothing is on its way on c, in either direction.
Silent(c) == requests[c] = <<>> /\ Asking[c] = {} /\ answers[c] = <<>>

\* The request for the access being decided is on its way to the UI, in a
\* dialog that will end first, or its answer on its way back.
OnItsWay(c) ==
  /\ PL!Open(c) /\ requests[c] = <<PL!Access>> /\ Asking[c] = {} /\ answers[c] = <<>>
  /\ wait = PromptTimeout
InDialog(c) ==
  /\ PL!Open(c) /\ requests[c] = <<>> /\ answers[c] = <<>>
  /\ \E t \in Nat : t < wait /\ Asking[c] = {[for |-> PL!Access, left |-> {t}]}
OnItsWayBack(c) ==
  requests[c] = <<>> /\ Asking[c] = {} /\ answers[c] = <<PL!Access>>
InFlight(c) ==
  link = {c} /\ phase = "read" /\ (OnItsWay(c) \/ InDialog(c) \/ OnItsWayBack(c))

Channel == \A c \in Conn : Silent(c) \/ InFlight(c)

ChannelInv == PL!TypeOK /\ Channel

\* The first message on a silent connection is alone on it.
LEMMA AppendToEmpty == ASSUME NEW x PROVE Append(<<>>, x) = <<x>>
OBVIOUS

\* While the daemon is not waiting for an answer every connection is silent.
LEMMA SilentUnlessReading ==
  ASSUME Channel, phase # "read", NEW c \in Conn
  PROVE  Silent(c)
BY DEF Channel, InFlight

\* What is on its way on c does not change when neither the daemon's side of
\* the exchange nor c's own changes.
LEMMA ChannelFrame ==
  ASSUME NEW c \in Conn, Silent(c) \/ InFlight(c),
         requests'[c] = requests[c], Asking'[c] = Asking[c],
         answers'[c] = answers[c], peer'[c] = peer[c] \/ PL!Open(c)',
         UNCHANGED <<phase, link, wait, decided>>
  PROVE  Silent(c)' \/ InFlight(c)'
BY DEF Silent, InFlight, OnItsWay, InDialog, OnItsWayBack, PL!Open, PL!Access

\* Silent connections stay silent when no message moves.
LEMMA SilentFrame ==
  ASSUME NEW c \in Conn, Silent(c),
         UNCHANGED <<requests, Asking, answers>>
  PROVE  Silent(c)'
BY DEF Silent

\* The steps of the daemon's thread.
LEMMA DaemonChannel ==
  ASSUME SafeTimeout, ChannelInv, PL!NewPrompt \/ PL!Prompting \/ PL!Interrupt
  PROVE  Channel'
<1> USE DEF ChannelInv
<1>1. CASE PL!NewPrompt
  BY <1>1, SilentUnlessReading, SilentFrame
     DEF PL!NewPrompt, Channel, PL!uiVars
<1>2. CASE PL!AcceptWaiting
  BY <1>2, SilentUnlessReading, SilentFrame
     DEF PL!AcceptWaiting, Channel, PL!uiVars
<1>3. CASE PL!AcceptNone
  BY <1>3, SilentUnlessReading, SilentFrame DEF PL!AcceptNone, Channel, PL!uiVars
<1>4. ASSUME NEW c \in Conn, PL!WriteRequest(c)
      PROVE  Channel'
  <2>1. \A d \in Conn : Silent(d)
    BY <1>4, SilentUnlessReading DEF PL!WriteRequest
  <2>2. InFlight(c)'
    <3>1. requests'[c] = <<PL!Access>>
      <4>1. requests'[c] = Append(<<>>, PL!Access)
        BY <1>4, <2>1 DEF PL!WriteRequest, Silent, PL!TypeOK
      <4> QED
        BY <4>1, AppendToEmpty
    <3> QED
      BY <1>4, <2>1, <3>1
         DEF PL!WriteRequest, Silent, InFlight, OnItsWay, PL!Open, PL!Access, PL!uiVars
  <2>3. \A d \in Conn \ {c} : Silent(d)'
    BY <1>4, <2>1 DEF PL!WriteRequest, Silent, PL!uiVars, PL!TypeOK
  <2> QED
    BY <1>4, <2>2, <2>3 DEF PL!WriteRequest, Channel
<1>5. ASSUME NEW c \in Conn, PL!ReadAnswer(c)
      PROVE  Channel'
  <2>1. OnItsWayBack(c) /\ \A d \in Conn \ {c} : Silent(d)
    <3>1. link = {c} /\ answers[c] # <<>>
      BY <1>5 DEF PL!ReadAnswer
    <3>2. ~Silent(c) /\ ~OnItsWay(c) /\ ~InDialog(c)
      BY <3>1 DEF Silent, OnItsWay, InDialog
    <3>3. OnItsWayBack(c)
      BY <3>2 DEF Channel, InFlight
    <3>4. \A d \in Conn : InFlight(d) => d = c
      BY <3>1 DEF InFlight
    <3> QED
      BY <3>3, <3>4 DEF Channel
  <2>2. \A d \in Conn : Silent(d)'
    BY <1>5, <2>1 DEF PL!ReadAnswer, Silent, OnItsWayBack, PL!uiVars, PL!TypeOK
  <2> QED
    BY <2>2 DEF Channel
<1>6. ASSUME NEW c \in Conn, PL!Disconnect(c)
      PROVE  Channel'
  <2>1. \A d \in Conn : Silent(d)
    <3> SUFFICES ASSUME NEW d \in Conn PROVE Silent(d)
      OBVIOUS
    <3>1. link = {c} /\ ~PL!Open(c) /\ (phase = "read" => answers[c] = <<>>)
      BY <1>6 DEF PL!Disconnect, PL!Open
    <3>2. CASE phase = "read"
      <4>1. ~OnItsWay(c)
        BY <3>1 DEF OnItsWay
      <4>2. ~InDialog(c)
        BY <3>1 DEF InDialog
      <4>3. ~OnItsWayBack(c)
        <5>1. answers[c] = <<>>
          BY <3>1, <3>2
        <5>2. <<PL!Access>> # <<>>
          OBVIOUS
        <5> QED
          BY <5>1, <5>2 DEF OnItsWayBack
      <4>4. InFlight(d) => d = c /\ InFlight(c)
        BY <3>1 DEF InFlight
      <4>5. ~InFlight(d)
        BY <4>1, <4>2, <4>3, <4>4 DEF InFlight
      <4> QED
        BY <4>5 DEF Channel
    <3>3. CASE phase # "read"
      BY <3>3, SilentUnlessReading
    <3> QED
      BY <3>2, <3>3
  <2> QED
    BY <1>6, <2>1, SilentFrame DEF PL!Disconnect, Channel, PL!uiVars
<1>7. ASSUME NEW c \in Conn, PL!ReadTimeout(c)
      PROVE  Channel'
  <2>1. \A d \in Conn : Silent(d)
    <3> SUFFICES ASSUME NEW d \in Conn PROVE Silent(d)
      OBVIOUS
    <3>1. link = {c} /\ wait = 0 /\ answers[c] = <<>>
      BY <1>7 DEF PL!ReadTimeout
    <3>2. ~OnItsWay(c)
      BY <3>1, IcedTimeoutAssumption DEF OnItsWay
    <3>3. ~InDialog(c)
      BY <3>1 DEF InDialog
    <3>4. ~OnItsWayBack(c)
      BY <3>1 DEF OnItsWayBack
    <3>5. InFlight(d) => d = c /\ InFlight(c)
      BY <3>1 DEF InFlight
    <3>6. ~InFlight(d)
      BY <3>2, <3>3, <3>4, <3>5 DEF InFlight
    <3> QED
      BY <3>6 DEF Channel
  <2> QED
    BY <1>7, <2>1, SilentFrame DEF PL!ReadTimeout, Channel, PL!uiVars
<1>8. CASE PL!Interrupt
  <2>1. ASSUME NEW c \in Conn, InFlight(c) PROVE InFlight(c)'
    <3>1. wait' = PromptTimeout /\ wait < PromptTimeout /\ wait \in Nat
      BY <1>8 DEF PL!Interrupt, PL!TypeOK
    <3>2. ~OnItsWay(c) /\ UNCHANGED <<phase, link, decided, peer, requests, answers, Asking>>
      BY <1>8, <3>1 DEF PL!Interrupt, OnItsWay, PL!uiVars
    <3>3. CASE OnItsWayBack(c)
      BY <2>1, <3>2, <3>3 DEF InFlight, OnItsWayBack, PL!Access
    <3>4. CASE InDialog(c)
      <4>1. PICK t \in Nat : t < wait /\ Asking[c] = {[for |-> PL!Access, left |-> {t}]}
        BY <3>4 DEF InDialog
      <4>2. t < wait'
        BY <3>1, <4>1, IcedTimeoutAssumption
      <4> QED
        BY <2>1, <3>2, <3>4, <4>1, <4>2 DEF InFlight, InDialog, PL!Open, PL!Access
    <3> QED
      BY <2>1, <3>2, <3>3, <3>4 DEF InFlight
  <2> QED
    BY <1>8, <2>1, SilentFrame DEF PL!Interrupt, Channel, PL!uiVars
<1> QED
  BY <1>1, <1>2, <1>3, <1>4, <1>5, <1>6, <1>7, <1>8 DEF PL!Prompting

\* The steps of a UI process.
LEMMA UiChannel ==
  ASSUME SafeTimeout, ChannelInv, NEW c \in Conn, PL!Ui(c)
  PROVE  Channel'
<1> USE DEF ChannelInv
<1>1. UNCHANGED <<phase, link, wait, decided>>
  BY DEF PL!Ui, PL!Connect, PL!ReadRequest, PL!WriteAnswer, PL!Close, PL!daemonVars
<1>2. \A d \in Conn \ {c} : Silent(d)' \/ InFlight(d)'
  <2> SUFFICES ASSUME NEW d \in Conn \ {c} PROVE Silent(d)' \/ InFlight(d)'
    OBVIOUS
  <2>1. /\ requests'[d] = requests[d] /\ Asking'[d] = Asking[d]
        /\ answers'[d] = answers[d] /\ peer'[d] = peer[d]
    BY DEF PL!Ui, PL!Connect, PL!ReadRequest, PL!WriteAnswer, PL!Close, PL!TypeOK
  <2> QED
    BY <1>1, <2>1, ChannelFrame DEF Channel
<1>3. Silent(c)' \/ InFlight(c)'
  <2>1. CASE PL!Connect(c)
    BY <1>1, <2>1, ChannelFrame DEF PL!Connect, Channel, PL!Open, PL!TypeOK
  <2>2. CASE PL!ReadRequest(c)
    <3>1. OnItsWay(c) /\ link = {c} /\ phase = "read"
      BY <2>2 DEF PL!ReadRequest, Channel, Silent, InFlight, InDialog, OnItsWayBack
    <3>2. /\ requests'[c] = <<>>
          /\ Asking'[c] = {[for |-> PL!Access, left |-> {PL!UiTimeout + PL!Grace}]}
      <4>1. Head(requests[c]) = PL!Access /\ Tail(requests[c]) = <<>>
        BY <3>1 DEF OnItsWay
      <4>2. requests'[c] = Tail(requests[c])
        BY <2>2 DEF PL!ReadRequest, PL!TypeOK
      <4>3. Asking'[c] = {[for |-> Head(requests[c]), left |-> PL!AnswerWithin]}
        BY <2>2 DEF PL!ReadRequest, PL!TypeOK
      <4> QED
        BY <4>1, <4>2, <4>3, UiAnswersInTime
    <3>3. InDialog(c)'
      BY <1>1, <2>2, <3>1, <3>2, UiAnswersInTime
         DEF PL!ReadRequest, OnItsWay, InDialog, PL!Open, PL!Access
    <3> QED
      BY <1>1, <3>1, <3>3 DEF InFlight
  <2>3. CASE PL!WriteAnswer(c)
    <3>1. InDialog(c) /\ link = {c} /\ phase = "read"
      BY <2>3 DEF PL!WriteAnswer, Channel, Silent, InFlight, OnItsWay, OnItsWayBack
    <3>2. PICK q \in Asking[c] : answers' = [answers EXCEPT ![c] = Append(@, q.for)]
      BY <2>3 DEF PL!WriteAnswer
    <3>3. q.for = PL!Access
      BY <3>1, <3>2 DEF InDialog
    <3>4. answers'[c] = <<PL!Access>>
      BY <3>1, <3>2, <3>3 DEF InDialog, PL!TypeOK
    <3>5. Asking'[c] = {} /\ requests'[c] = <<>>
      BY <2>3, <3>1 DEF PL!WriteAnswer, InDialog, PL!TypeOK
    <3> QED
      BY <1>1, <3>1, <3>4, <3>5 DEF InFlight, OnItsWayBack, PL!Access
  <2>4. CASE PL!Close(c)
    <3>1. requests'[c] = <<>> /\ Asking'[c] = {} /\ answers'[c] = answers[c]
      BY <2>4 DEF PL!Close, PL!TypeOK
    <3> QED
      BY <1>1, <3>1 DEF Channel, Silent, InFlight, OnItsWay, InDialog, OnItsWayBack, PL!Access
  <2> QED
    BY <2>1, <2>2, <2>3, <2>4 DEF PL!Ui
<1> QED
  BY <1>1, <1>2, <1>3 DEF Channel

\* Time passes on both clocks at once.
LEMMA TickChannel ==
  ASSUME ChannelInv, PL!Tick
  PROVE  Channel'
<1> USE DEF ChannelInv
<1> SUFFICES ASSUME NEW c \in Conn PROVE Silent(c)' \/ InFlight(c)'
  BY DEF PL!Tick, Channel
<1>1. CASE Silent(c)
  BY <1>1 DEF PL!Tick, Silent
<1>2. CASE InFlight(c)
  <2>1. InDialog(c) /\ link = {c} /\ phase = "read"
    BY <1>2 DEF InFlight, PL!Tick, PL!DaemonWaits, PL!UiWaits, OnItsWay, OnItsWayBack
  <2>2. PICK t \in Nat : t < wait /\ Asking[c] = {[for |-> PL!Access, left |-> {t}]}
    BY <2>1 DEF InDialog
  <2>3. t # 0
    BY <2>2 DEF PL!Tick, PL!UiWaits, PL!Due
  <2>4. Asking'[c] = {[for |-> PL!Access, left |-> {t - 1}]}
    <3> DEFINE q == [for |-> PL!Access, left |-> {t}]
    <3>1. Asking'[c] = {[p EXCEPT !.left = {s - 1 : s \in @}] : p \in {q}}
      BY <2>2 DEF PL!Tick
    <3>2. [q EXCEPT !.left = {s - 1 : s \in @}] = [for |-> PL!Access, left |-> {t - 1}]
      <4>1. {s - 1 : s \in {t}} = {t - 1}
        OBVIOUS
      <4> QED
        BY <4>1
    <3> QED
      BY <3>1, <3>2
  <2>5. wait' = wait - 1 /\ wait \in Nat
    BY <2>1 DEF PL!Tick, PL!DaemonClock, PL!TypeOK
  <2> QED
    <3>1. t - 1 \in Nat /\ t - 1 < wait'
      BY <2>2, <2>3, <2>5
    <3>2. UNCHANGED <<phase, link, decided, peer, requests, answers>>
      BY DEF PL!Tick
    <3>3. InDialog(c)'
      BY <2>1, <2>4, <3>1, <3>2 DEF InDialog, PL!Open, PL!Access
    <3> QED
      BY <2>1, <3>2, <3>3 DEF InFlight
<1> QED
  BY <1>1, <1>2 DEF Channel

\* ChannelInv is inductive when the UI answers in time.
LEMMA ChannelStep ==
  ASSUME SafeTimeout, ChannelInv, [PL!Next]_(PL!vars)
  PROVE  ChannelInv'
<1>1. PL!TypeOK'
  BY LinkTypeStep DEF ChannelInv
<1>2. CASE UNCHANGED PL!vars
  BY <1>1, <1>2
     DEF PL!vars, PL!daemonVars, PL!uiVars, ChannelInv, Channel, Silent, InFlight, OnItsWay,
         InDialog, OnItsWayBack, PL!Open, PL!Access
<1> QED
  BY <1>1, <1>2, DaemonChannel, UiChannel, TickChannel DEF PL!Next, ChannelInv

\* At the start nothing is on its way.
LEMMA ChannelInit == PL!Init => ChannelInv
<1> SUFFICES ASSUME PL!Init PROVE ChannelInv
  OBVIOUS
<1>1. PL!TypeOK
  BY LinkTypeInit
<1>2. Channel
  BY DEF PL!Init, Channel, Silent
<1> QED
  BY <1>1, <1>2 DEF ChannelInv

\* A dialog of a process whose GUI is in time is for the request its worker has read.
LEMMA DialogIsServed ==
  ASSUME CalmInv, NEW c \in Conn, Calm(c), NEW p \in pending[c]
  PROVE  pending[c] = {p} /\ windows[c] = 1 /\ \E q \in Asking[c] : q.for = p.for
<1>1. PICK n : \E t \in Int :
        /\ serving[c] = {[for |-> n, left |-> t]}
        /\ Sent(c, n, t) \/ Prepared(c, n, t) \/ Up(c, n, t)
  BY GuiBusy
<1>2. PICK t \in Int : serving[c] = {[for |-> n, left |-> t]} /\ Up(c, n, t)
  BY <1>1 DEF Sent, Prepared
<1>3. PICK s \in Nat : pending[c] = {[for |-> n, left |-> s]}
  BY <1>2 DEF Up
<1>4. p = [for |-> n, left |-> s]
  BY <1>3
<1>5. Asking[c] = {Asked(r) : r \in serving[c]}
  BY DEF Asking, Asked
<1>6. Asked([for |-> n, left |-> t]) = [for |-> n, left |-> {t}]
  BY DEF Asked
<1>7. [for |-> n, left |-> {t}] \in Asking[c] /\ [for |-> n, left |-> {t}].for = p.for
  BY <1>2, <1>4, <1>5, <1>6
<1> QED
  BY <1>3, <1>4, <1>7 DEF Calm

\* With prompt_timeout_seconds of at least 5, and unless a look-up of the theme took
\* the grace or more, a window of filewall-ui-iced is open only for the access that
\* the daemon waits to have decided, however many processes, accesses and signals
\* there are: no user is left with a dialog nobody reads (ui_timeout_ms of run(),
\* BACKSTOP_GRACE_MS of the worker).
THEOREM WindowsAreForThePending ==
  ASSUME SafeTimeout
  PROVE  Spec => []WindowsArePending
<1>1. Init => ChannelInv
  BY ChannelInit, RefinesInit
<1>2. WInv /\ ChannelInv /\ [Next]_vars => ChannelInv'
  BY RefinesStep, ChannelStep
<1>3. CalmInv => WInv
  BY DEF CalmInv
<1>4. ASSUME CalmInv, ChannelInv PROVE WindowsArePending
  <2> SUFFICES ASSUME NEW c \in Conn, Calm(c)
               PROVE  /\ windows[c] = Cardinality(pending[c])
                      /\ \A p \in pending[c] : p.for = PL!Access /\ phase # "idle"
    BY <1>4 DEF WindowsArePending, CalmInv
  <2>1. CASE pending[c] = {}
    BY <2>1, FS_EmptySet DEF Calm
  <2>2. ASSUME NEW p \in pending[c]
        PROVE  windows[c] = Cardinality(pending[c]) /\ p.for = PL!Access /\ phase # "idle"
    <3>1. pending[c] = {p} /\ windows[c] = 1 /\ \E q \in Asking[c] : q.for = p.for
      BY <1>4, <2>2, DialogIsServed
    <3>2. InDialog(c) /\ phase = "read"
      BY <1>4, <3>1 DEF ChannelInv, Channel, Silent, InFlight, OnItsWay, OnItsWayBack
    <3>3. p.for = PL!Access
      BY <3>1, <3>2 DEF InDialog
    <3>4. Cardinality(pending[c]) = 1
      BY <3>1, FS_Singleton
    <3> QED
      BY <3>1, <3>2, <3>3, <3>4
  <2> QED
    BY <2>1, <2>2
<1> QED
  BY <1>1, <1>2, <1>3, <1>4, CalmInit, CalmStep, PTL DEF Spec
==============================================================================
