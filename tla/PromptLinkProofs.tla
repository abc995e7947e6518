-------------------------- MODULE PromptLinkProofs ---------------------------
(***************************************************************************)
(* That a response carries no name of its request is harmless when the UI  *)
(* self-times out and prompt_timeout_seconds is at least 5: an answer is   *)
(* then always on its way before the daemon gives up waiting for it, and   *)
(* no request is left unread for the next to wait behind.  How long an     *)
(* access waits when no write meets a full socket, and that the next UI is *)
(* asked before it is denied for want of one, rest on no clock of a UI.    *)
(***************************************************************************)
EXTENDS PromptLink, TLAPS

\* The clocks, whatever is configured, for one UI that honours ui_timeout_ms.
SafeTimeout == HonoursTimeout = TRUE /\ PromptTimeout >= 5

\* A UI that honours its timeout has answered before the daemon's read gives up
\* (ui_timeout_ms of run(), BACKSTOP_GRACE_MS of the worker).
LEMMA AnswersInTime ==
  ASSUME SafeTimeout
  PROVE  /\ AnswerWithin = {UiTimeout + Grace}
         /\ UiTimeout + Grace \in Nat /\ UiTimeout + Grace < PromptTimeout
BY TimeoutAssumption
   DEF SafeTimeout, AnswerWithin, UiTimeout, Grace, Margin, Floor

\* What AnswerWithin adds to the UI's dialog is a time.
LEMMA AnswerWithinType == AnswerWithin \in SUBSET Nat
BY TimeoutAssumption DEF AnswerWithin, UiTimeout, Grace, Margin, Floor

------------------------------------------------------------------------------
(* Type correctness. *)

\* Deciding an access keeps the daemon's variables in their types.
LEMMA DecideType ==
  ASSUME TypeOK, NEW by \in SUBSET Nat, Decide(by)
  PROVE  /\ decided' \in Seq(SUBSET Nat) /\ phase' = "idle" /\ wait' = 0 /\ waited' = 0
         /\ stuck' \in BOOLEAN
<1>1. stuck' \in BOOLEAN
  BY DEF Decide
<1>2. /\ decided' = Append(decided, by) /\ decided \in Seq(SUBSET Nat)
      /\ phase' = "idle" /\ wait' = 0 /\ waited' = 0
  BY DEF TypeOK, Decide
<1> QED
  BY <1>1, <1>2

\* Every step of prompt_recovering, of the UIs and of time keeps the types.
LEMMA TypeStep == TypeOK /\ [Next]_vars => TypeOK'
<1> SUFFICES ASSUME TypeOK, [Next]_vars PROVE TypeOK'
  OBVIOUS
<1> USE TimeoutAssumption, BoundsAssumption
<1>1. CASE NewPrompt
  <2>1. waiting' \in Seq(Conn)
    BY <1>1 DEF TypeOK, NewPrompt
  <2>2. attempt' \in {1, 2} /\ phase' \in {"idle", "accept", "write", "read"}
    BY <1>1 DEF NewPrompt
  <2> QED
    BY <1>1, <2>1, <2>2 DEF TypeOK, NewPrompt, uiVars
<1>2. CASE AcceptWaiting
  <2>1. Head(backlog) \in Conn /\ Tail(backlog) \in Seq(Conn)
    BY <1>2 DEF TypeOK, AcceptWaiting
  <2>2. link' \in {{}} \cup {{c} : c \in Conn} /\ backlog' \in Seq(Conn)
    BY <1>2, <2>1 DEF AcceptWaiting
  <2> QED
    BY <1>2, <2>2 DEF TypeOK, AcceptWaiting, uiVars
<1>3. CASE AcceptNone
  <2>1. CASE attempt = 1
    BY <1>3, <2>1 DEF TypeOK, AcceptNone, uiVars
  <2>2. CASE attempt = 2
    <3>1. Decide({}) /\ UNCHANGED <<attempt, link, waiting, peer, asking, backlog,
                                   requests, answers, signals>>
      BY <1>3, <2>2 DEF AcceptNone, uiVars
    <3>2. decided' \in Seq(SUBSET Nat) /\ phase' = "idle" /\ wait' = 0 /\ waited' = 0
          /\ stuck' \in BOOLEAN
      BY <3>1, DecideType
    <3> QED
      BY <3>1, <3>2 DEF TypeOK
  <2> QED
    BY <2>1, <2>2 DEF TypeOK
<1>4. ASSUME NEW c \in Conn, WriteRequest(c) PROVE TypeOK'
  <2>1. Access \in Nat /\ requests[c] \in Seq(Nat)
    BY DEF TypeOK, Access
  <2>2. requests' \in [Conn -> Seq(Nat)]
    BY <1>4, <2>1 DEF TypeOK, WriteRequest
  <2>3. /\ wait' = PromptTimeout /\ phase' = "read"
        /\ UNCHANGED <<attempt, link, waited, stuck, waiting, decided, peer, asking,
                       backlog, answers, signals>>
    BY <1>4 DEF WriteRequest, uiVars
  <2> QED
    BY <2>2, <2>3 DEF TypeOK
<1>5. ASSUME NEW c \in Conn, ReadAnswer(c) PROVE TypeOK'
  <2>1. Head(answers[c]) \in Nat /\ Tail(answers[c]) \in Seq(Nat)
    <3>1. answers[c] \in Seq(Nat) /\ answers[c] # <<>>
      BY <1>5 DEF TypeOK, ReadAnswer
    <3> QED
      BY <3>1
  <2>2. answers' \in [Conn -> Seq(Nat)]
    BY <1>5, <2>1 DEF TypeOK, ReadAnswer
  <2>3. Decide({Head(answers[c])}) /\ {Head(answers[c])} \in SUBSET Nat
    BY <1>5, <2>1 DEF ReadAnswer
  <2>4. decided' \in Seq(SUBSET Nat) /\ phase' = "idle" /\ wait' = 0 /\ waited' = 0
        /\ stuck' \in BOOLEAN
    BY <2>3, DecideType
  <2>5. UNCHANGED <<attempt, link, waiting, peer, asking, backlog, requests, signals>>
    BY <1>5 DEF ReadAnswer, uiVars
  <2> QED
    BY <2>2, <2>4, <2>5 DEF TypeOK
<1>6. ASSUME NEW c \in Conn, Disconnect(c) PROVE TypeOK'
  <2>1. link' = {} /\ UNCHANGED <<waiting, peer, asking, backlog, requests, answers, signals>>
    BY <1>6 DEF Disconnect, uiVars
  <2>2. CASE attempt = 1
    <3>1. /\ attempt' = 2 /\ phase' = "accept" /\ wait' = 0
          /\ waited' = waited /\ stuck' = stuck /\ decided' = decided
      BY <1>6, <2>2 DEF Disconnect
    <3> QED
      BY <2>1, <3>1 DEF TypeOK
  <2>3. CASE attempt = 2
    <3>1. Decide({}) /\ attempt' = attempt
      BY <1>6, <2>3 DEF Disconnect
    <3>2. decided' \in Seq(SUBSET Nat) /\ phase' = "idle" /\ wait' = 0 /\ waited' = 0
          /\ stuck' \in BOOLEAN
      BY <3>1, DecideType
    <3> QED
      BY <2>1, <3>1, <3>2 DEF TypeOK
  <2> QED
    BY <2>2, <2>3 DEF TypeOK
<1>7. ASSUME NEW c \in Conn, ReadTimeout(c) PROVE TypeOK'
  <2>1. Decide({}) /\ UNCHANGED <<attempt, link, waiting, peer, asking, backlog, requests,
                                 answers, signals>>
    BY <1>7 DEF ReadTimeout, uiVars
  <2>2. decided' \in Seq(SUBSET Nat) /\ phase' = "idle" /\ wait' = 0 /\ waited' = 0
        /\ stuck' \in BOOLEAN
    BY <2>1, DecideType
  <2> QED
    BY <2>1, <2>2 DEF TypeOK
<1>8. CASE Interrupt
  BY <1>8 DEF TypeOK, Interrupt, uiVars
<1>9. ASSUME NEW c \in Conn, Connect(c) PROVE TypeOK'
  BY <1>9 DEF TypeOK, Connect, daemonVars
<1>10. ASSUME NEW c \in Conn, ReadRequest(c) PROVE TypeOK'
  <2>1. Head(requests[c]) \in Nat /\ Tail(requests[c]) \in Seq(Nat)
    BY <1>10 DEF TypeOK, ReadRequest
  <2> QED
    BY <1>10, <2>1, AnswerWithinType DEF TypeOK, ReadRequest, daemonVars
<1>11. ASSUME NEW c \in Conn, WriteAnswer(c) PROVE TypeOK'
  <2>1. PICK q \in asking[c] : answers' = [answers EXCEPT ![c] = Append(@, q.for)]
    BY <1>11 DEF WriteAnswer
  <2>2. Append(answers[c], q.for) \in Seq(Nat)
    BY <2>1 DEF TypeOK
  <2> QED
    BY <1>11, <2>1, <2>2 DEF TypeOK, WriteAnswer, daemonVars
<1>12. ASSUME NEW c \in Conn, Close(c) PROVE TypeOK'
  BY <1>12 DEF TypeOK, Close, daemonVars
<1>13. CASE Tick
  <2>1. ASSUME NEW c \in Conn, NEW q \in asking[c]
        PROVE  [q EXCEPT !.left = {t - 1 : t \in @}] \in [for : Nat, left : SUBSET Nat]
    <3>1. q \in [for : Nat, left : SUBSET Nat] /\ 0 \notin q.left
      BY <1>13, <2>1 DEF Tick, UiWaits, Due, TypeOK
    <3>2. {t - 1 : t \in q.left} \in SUBSET Nat
      BY <3>1
    <3> QED
      BY <3>1, <3>2
  <2>2. asking' \in [Conn -> SUBSET [for : Nat, left : SUBSET Nat]]
    BY <1>13, <2>1 DEF Tick
  <2>3. wait' \in 0 .. PromptTimeout /\ waited' \in Nat /\ stuck' \in BOOLEAN
    BY <1>13 DEF Tick, DaemonClock, DaemonWaits, TypeOK
  <2> QED
    BY <1>13, <2>2, <2>3 DEF Tick, TypeOK
<1>14. CASE UNCHANGED vars
  BY <1>14 DEF TypeOK, vars, daemonVars, uiVars
<1> QED
  BY <1>1, <1>2, <1>3, <1>4, <1>5, <1>6, <1>7, <1>8, <1>9, <1>10, <1>11, <1>12,
     <1>13, <1>14 DEF Next, Prompting, Ui

\* The program starts well typed.
LEMMA TypeInit == Init => TypeOK
<1> SUFFICES ASSUME Init PROVE TypeOK
  OBVIOUS
<1>1. stuck \in BOOLEAN
  BY DEF Init
<1>2. /\ phase = "idle" /\ attempt = 1 /\ link = {} /\ backlog = <<>>
      /\ peer = [c \in Conn |-> "unborn"]
      /\ requests = [c \in Conn |-> <<>>] /\ answers = [c \in Conn |-> <<>>]
      /\ asking = [c \in Conn |-> {}]
      /\ wait = 0 /\ waited = 0 /\ signals = MaxSignals
      /\ waiting = <<>> /\ decided = <<>>
  BY DEF Init
<1> QED
  BY <1>1, <1>2, TimeoutAssumption, BoundsAssumption DEF TypeOK

\* Every variable of the prompt link keeps its type, whatever the timeout.
THEOREM LinkTypeCorrect == Spec => []TypeOK
BY TypeInit, TypeStep, PTL DEF Spec

------------------------------------------------------------------------------
(* The answer read is the answer awaited. *)

\* Nothing is on its way on c, in either direction.
Quiet(c) == requests[c] = <<>> /\ asking[c] = {} /\ answers[c] = <<>>

\* The request for the access being decided is on its way to the UI, in a
\* dialog that will end first, or its answer on its way back.
Sent(c) ==
  /\ Open(c) /\ requests[c] = <<Access>> /\ asking[c] = {} /\ answers[c] = <<>>
  /\ wait = PromptTimeout
Asked(c) ==
  /\ Open(c) /\ requests[c] = <<>> /\ answers[c] = <<>>
  /\ \E t \in Nat : t < wait /\ asking[c] = {[for |-> Access, left |-> {t}]}
Answered(c) ==
  requests[c] = <<>> /\ asking[c] = {} /\ answers[c] = <<Access>>
InFlight(c) ==
  link = {c} /\ phase = "read" /\ (Sent(c) \/ Asked(c) \/ Answered(c))

Channel == \A c \in Conn : Quiet(c) \/ InFlight(c)

IInv == TypeOK /\ Channel /\ AnswersTheAccess

\* The first message on a silent connection is alone on it.
LEMMA AppendToEmpty == ASSUME NEW x PROVE Append(<<>>, x) = <<x>>
OBVIOUS

\* While the daemon is not waiting for an answer every connection is silent.
LEMMA SilentUnlessReading ==
  ASSUME Channel, phase # "read", NEW c \in Conn
  PROVE  Quiet(c)
BY DEF Channel, InFlight

\* Deciding access n, by its own answer or by none, is deciding it right.
LEMMA DecideRight ==
  ASSUME TypeOK, AnswersTheAccess, NEW by, by \subseteq {Access}, Decide(by)
  PROVE  AnswersTheAccess'
<1>1. by \in SUBSET Nat
  BY DEF TypeOK, Access
<1>2. /\ DOMAIN decided' = 1 .. Len(decided) + 1
      /\ \A n \in 1 .. Len(decided) : decided'[n] = decided[n]
      /\ decided'[Len(decided) + 1] = by
  BY <1>1 DEF TypeOK, Decide
<1>3. DOMAIN decided = 1 .. Len(decided) /\ Len(decided) \in Nat
  BY DEF TypeOK
<1> SUFFICES ASSUME NEW n \in 1 .. Len(decided) + 1
             PROVE  decided'[n] \subseteq {n}
  BY <1>2 DEF AnswersTheAccess
<1>4. CASE n \in 1 .. Len(decided)
  BY <1>2, <1>3, <1>4 DEF AnswersTheAccess
<1>5. CASE n = Len(decided) + 1
  BY <1>2, <1>5 DEF Access
<1> QED
  BY <1>3, <1>4, <1>5

\* What is on its way on c does not change when neither the daemon's side of
\* the exchange nor c's own changes.
LEMMA ChannelFrame ==
  ASSUME NEW c \in Conn, Quiet(c) \/ InFlight(c),
         requests'[c] = requests[c], asking'[c] = asking[c],
         answers'[c] = answers[c], peer'[c] = peer[c] \/ Open(c)',
         UNCHANGED <<phase, link, wait, decided>>
  PROVE  Quiet(c)' \/ InFlight(c)'
BY DEF Quiet, InFlight, Sent, Asked, Answered, Open, Access

\* Silent connections stay silent when no message moves.
LEMMA QuietFrame ==
  ASSUME NEW c \in Conn, Quiet(c),
         UNCHANGED <<requests, asking, answers>>
  PROVE  Quiet(c)'
BY DEF Quiet

\* The steps of the daemon's thread.
LEMMA DaemonChannel ==
  ASSUME SafeTimeout, IInv, NewPrompt \/ Prompting \/ Interrupt
  PROVE  Channel' /\ AnswersTheAccess'
<1> USE DEF IInv
<1>1. CASE NewPrompt
  BY <1>1, SilentUnlessReading, QuietFrame
     DEF NewPrompt, Channel, AnswersTheAccess, uiVars
<1>2. CASE AcceptWaiting
  BY <1>2, SilentUnlessReading, QuietFrame
     DEF AcceptWaiting, Channel, AnswersTheAccess, uiVars
<1>3. CASE AcceptNone
  <2>1. Channel'
    BY <1>3, SilentUnlessReading, QuietFrame DEF AcceptNone, Channel, uiVars
  <2>2. CASE attempt = 1
    BY <1>3, <2>1, <2>2 DEF AcceptNone, AnswersTheAccess
  <2>3. CASE attempt = 2
    BY <1>3, <2>1, <2>3, DecideRight DEF AcceptNone
  <2> QED
    BY <2>1, <2>2, <2>3 DEF TypeOK
<1>4. ASSUME NEW c \in Conn, WriteRequest(c)
      PROVE  Channel' /\ AnswersTheAccess'
  <2>1. \A d \in Conn : Quiet(d)
    BY <1>4, SilentUnlessReading DEF WriteRequest
  <2>2. InFlight(c)'
    <3>1. requests'[c] = <<Access>>
      <4>1. requests'[c] = Append(<<>>, Access)
        BY <1>4, <2>1 DEF WriteRequest, Quiet, TypeOK
      <4> QED
        BY <4>1, AppendToEmpty
    <3> QED
      BY <1>4, <2>1, <3>1
         DEF WriteRequest, Quiet, InFlight, Sent, Open, Access, uiVars
  <2>3. \A d \in Conn \ {c} : Quiet(d)'
    BY <1>4, <2>1 DEF WriteRequest, Quiet, uiVars, TypeOK
  <2> QED
    BY <1>4, <2>2, <2>3 DEF WriteRequest, Channel, AnswersTheAccess
<1>5. ASSUME NEW c \in Conn, ReadAnswer(c)
      PROVE  Channel' /\ AnswersTheAccess'
  <2>1. Answered(c) /\ \A d \in Conn \ {c} : Quiet(d)
    <3>1. link = {c} /\ answers[c] # <<>>
      BY <1>5 DEF ReadAnswer
    <3>2. ~Quiet(c) /\ ~Sent(c) /\ ~Asked(c)
      BY <3>1 DEF Quiet, Sent, Asked
    <3>3. Answered(c)
      BY <3>2 DEF Channel, InFlight
    <3>4. \A d \in Conn : InFlight(d) => d = c
      BY <3>1 DEF InFlight
    <3> QED
      BY <3>3, <3>4 DEF Channel
  <2>2. \A d \in Conn : Quiet(d)'
    BY <1>5, <2>1 DEF ReadAnswer, Quiet, Answered, uiVars, TypeOK
  <2>3. Head(answers[c]) = Access
    BY <2>1 DEF Answered
  <2>4. AnswersTheAccess'
    BY <1>5, <2>3, DecideRight DEF ReadAnswer
  <2> QED
    BY <2>2, <2>4 DEF Channel
<1>6. ASSUME NEW c \in Conn, Disconnect(c)
      PROVE  Channel' /\ AnswersTheAccess'
  <2>1. \A d \in Conn : Quiet(d)
    <3> SUFFICES ASSUME NEW d \in Conn PROVE Quiet(d)
      OBVIOUS
    <3>1. link = {c} /\ ~Open(c) /\ (phase = "read" => answers[c] = <<>>)
      BY <1>6 DEF Disconnect, Open
    <3>2. CASE phase = "read"
      <4>1. ~Sent(c)
        BY <3>1 DEF Sent
      <4>2. ~Asked(c)
        BY <3>1 DEF Asked
      <4>3. ~Answered(c)
        BY <3>1, <3>2 DEF Answered
      <4>4. InFlight(d) => d = c /\ InFlight(c)
        BY <3>1 DEF InFlight
      <4>5. ~InFlight(d)
        BY <4>1, <4>2, <4>3, <4>4 DEF InFlight
      <4> QED
        BY <4>5 DEF Channel
    <3>3. CASE phase # "read"
      BY <3>3, SilentUnlessReading
    <3> QED
      BY <3>2, <3>3
  <2>2. Channel'
    BY <1>6, <2>1, QuietFrame DEF Disconnect, Channel, uiVars
  <2>3. CASE attempt = 1
    BY <1>6, <2>2, <2>3 DEF Disconnect, AnswersTheAccess
  <2>4. CASE attempt = 2
    BY <1>6, <2>2, <2>4, DecideRight DEF Disconnect
  <2> QED
    BY <2>2, <2>3, <2>4 DEF TypeOK
<1>7. ASSUME NEW c \in Conn, ReadTimeout(c)
      PROVE  Channel' /\ AnswersTheAccess'
  <2>1. \A d \in Conn : Quiet(d)
    <3> SUFFICES ASSUME NEW d \in Conn PROVE Quiet(d)
      OBVIOUS
    <3>1. link = {c} /\ wait = 0 /\ answers[c] = <<>>
      BY <1>7 DEF ReadTimeout
    <3>2. ~Sent(c)
      BY <3>1, TimeoutAssumption DEF Sent
    <3>3. ~Asked(c)
      BY <3>1 DEF Asked
    <3>4. ~Answered(c)
      BY <3>1 DEF Answered
    <3>5. InFlight(d) => d = c /\ InFlight(c)
      BY <3>1 DEF InFlight
    <3>6. ~InFlight(d)
      BY <3>2, <3>3, <3>4, <3>5 DEF InFlight
    <3> QED
      BY <3>6 DEF Channel
  <2>2. Channel'
    BY <1>7, <2>1, QuietFrame DEF ReadTimeout, Channel, uiVars
  <2> QED
    BY <1>7, <2>2, DecideRight DEF ReadTimeout
<1>8. CASE Interrupt
  <2>1. ASSUME NEW c \in Conn, InFlight(c) PROVE InFlight(c)'
    <3>1. wait' = PromptTimeout /\ wait < PromptTimeout /\ wait \in Nat
      BY <1>8 DEF Interrupt, TypeOK
    <3>2. ~Sent(c) /\ UNCHANGED <<phase, link, decided, peer, requests, answers, asking>>
      BY <1>8, <3>1 DEF Interrupt, Sent, uiVars
    <3>3. CASE Answered(c)
      BY <2>1, <3>2, <3>3 DEF InFlight, Answered, Access
    <3>4. CASE Asked(c)
      <4>1. PICK t \in Nat : t < wait /\ asking[c] = {[for |-> Access, left |-> {t}]}
        BY <3>4 DEF Asked
      <4>2. t < wait'
        BY <3>1, <4>1, TimeoutAssumption
      <4> QED
        BY <2>1, <3>2, <3>4, <4>1, <4>2 DEF InFlight, Asked, Open, Access
    <3> QED
      BY <2>1, <3>2, <3>3, <3>4 DEF InFlight
  <2>2. Channel'
    BY <1>8, <2>1, QuietFrame DEF Interrupt, Channel, uiVars
  <2> QED
    BY <1>8, <2>2 DEF Interrupt, AnswersTheAccess
<1> QED
  BY <1>1, <1>2, <1>3, <1>4, <1>5, <1>6, <1>7, <1>8 DEF Prompting

\* The steps of a UI process.
LEMMA UiChannel ==
  ASSUME SafeTimeout, IInv, NEW c \in Conn, Ui(c)
  PROVE  Channel' /\ AnswersTheAccess'
<1> USE DEF IInv
<1>1. UNCHANGED <<phase, link, wait, decided>>
  BY DEF Ui, Connect, ReadRequest, WriteAnswer, Close, daemonVars
<1>2. \A d \in Conn \ {c} : Quiet(d)' \/ InFlight(d)'
  <2> SUFFICES ASSUME NEW d \in Conn \ {c} PROVE Quiet(d)' \/ InFlight(d)'
    OBVIOUS
  <2>1. /\ requests'[d] = requests[d] /\ asking'[d] = asking[d]
        /\ answers'[d] = answers[d] /\ peer'[d] = peer[d]
    BY DEF Ui, Connect, ReadRequest, WriteAnswer, Close, TypeOK
  <2> QED
    BY <1>1, <2>1, ChannelFrame DEF Channel
<1>3. Quiet(c)' \/ InFlight(c)'
  <2>1. CASE Connect(c)
    BY <1>1, <2>1, ChannelFrame DEF Connect, Channel, Open, TypeOK
  <2>2. CASE ReadRequest(c)
    <3>1. Sent(c) /\ link = {c} /\ phase = "read"
      BY <2>2 DEF ReadRequest, Channel, Quiet, InFlight, Asked, Answered
    <3>2. /\ requests'[c] = <<>>
          /\ asking'[c] = {[for |-> Access, left |-> {UiTimeout + Grace}]}
      <4>1. Head(requests[c]) = Access /\ Tail(requests[c]) = <<>>
        BY <3>1 DEF Sent
      <4>2. requests'[c] = Tail(requests[c])
        BY <2>2 DEF ReadRequest, TypeOK
      <4>3. asking'[c] = {[for |-> Head(requests[c]), left |-> AnswerWithin]}
        BY <2>2 DEF ReadRequest, TypeOK
      <4> QED
        BY <4>1, <4>2, <4>3, AnswersInTime
    <3>3. Asked(c)'
      BY <1>1, <2>2, <3>1, <3>2, AnswersInTime
         DEF ReadRequest, Sent, Asked, Open, Access
    <3> QED
      BY <1>1, <3>1, <3>3 DEF InFlight
  <2>3. CASE WriteAnswer(c)
    <3>1. Asked(c) /\ link = {c} /\ phase = "read"
      BY <2>3 DEF WriteAnswer, Channel, Quiet, InFlight, Sent, Answered
    <3>2. PICK q \in asking[c] : answers' = [answers EXCEPT ![c] = Append(@, q.for)]
      BY <2>3 DEF WriteAnswer
    <3>3. q.for = Access
      BY <3>1, <3>2 DEF Asked
    <3>4. answers'[c] = <<Access>>
      BY <3>1, <3>2, <3>3 DEF Asked, TypeOK
    <3>5. asking'[c] = {} /\ requests'[c] = <<>>
      BY <2>3, <3>1 DEF WriteAnswer, Asked, TypeOK
    <3> QED
      BY <1>1, <3>1, <3>4, <3>5 DEF InFlight, Answered, Access
  <2>4. CASE Close(c)
    <3>1. requests'[c] = <<>> /\ asking'[c] = {} /\ answers'[c] = answers[c]
      BY <2>4 DEF Close, TypeOK
    <3> QED
      BY <1>1, <3>1 DEF Channel, Quiet, InFlight, Sent, Asked, Answered, Access
  <2> QED
    BY <2>1, <2>2, <2>3, <2>4 DEF Ui
<1> QED
  BY <1>1, <1>2, <1>3 DEF Channel, AnswersTheAccess

\* Time passes on both clocks at once.
LEMMA TickChannel ==
  ASSUME IInv, Tick
  PROVE  Channel' /\ AnswersTheAccess'
<1> USE DEF IInv
<1> SUFFICES ASSUME NEW c \in Conn PROVE Quiet(c)' \/ InFlight(c)'
  BY DEF Tick, Channel, AnswersTheAccess
<1>1. CASE Quiet(c)
  BY <1>1 DEF Tick, Quiet
<1>2. CASE InFlight(c)
  <2>1. Asked(c) /\ link = {c} /\ phase = "read"
    BY <1>2 DEF InFlight, Tick, DaemonWaits, UiWaits, Sent, Answered
  <2>2. PICK t \in Nat : t < wait /\ asking[c] = {[for |-> Access, left |-> {t}]}
    BY <2>1 DEF Asked
  <2>3. t # 0
    BY <2>2 DEF Tick, UiWaits, Due
  <2>4. asking'[c] = {[for |-> Access, left |-> {t - 1}]}
    <3> DEFINE q == [for |-> Access, left |-> {t}]
    <3>1. asking'[c] = {[p EXCEPT !.left = {s - 1 : s \in @}] : p \in {q}}
      BY <2>2 DEF Tick
    <3>2. [q EXCEPT !.left = {s - 1 : s \in @}] = [for |-> Access, left |-> {t - 1}]
      <4>1. {s - 1 : s \in {t}} = {t - 1}
        OBVIOUS
      <4> QED
        BY <4>1
    <3> QED
      BY <3>1, <3>2
  <2>5. wait' = wait - 1 /\ wait \in Nat
    BY <2>1 DEF Tick, DaemonClock, TypeOK
  <2> QED
    <3>1. t - 1 \in Nat /\ t - 1 < wait'
      BY <2>2, <2>3, <2>5
    <3>2. UNCHANGED <<phase, link, decided, peer, requests, answers>>
      BY DEF Tick
    <3>3. Asked(c)'
      BY <2>1, <2>4, <3>1, <3>2 DEF Asked, Open, Access
    <3> QED
      BY <2>1, <3>2, <3>3 DEF InFlight
<1> QED
  BY <1>1, <1>2 DEF Channel

\* IInv is inductive when the UI answers in time.
LEMMA ChannelStep ==
  ASSUME SafeTimeout, IInv, [Next]_vars
  PROVE  IInv'
<1>1. TypeOK'
  BY TypeStep DEF IInv
<1>2. CASE UNCHANGED vars
  BY <1>1, <1>2
     DEF vars, daemonVars, uiVars, IInv, Channel, Quiet, InFlight, Sent, Asked,
         Answered, Open, Access, AnswersTheAccess
<1> QED
  BY <1>1, <1>2, DaemonChannel, UiChannel, TickChannel DEF Next, IInv

\* At the start nothing is on its way and nothing has been decided.
LEMMA ChannelInit == Init => IInv
<1> SUFFICES ASSUME Init PROVE IInv
  OBVIOUS
<1>1. TypeOK
  BY TypeInit
<1>2. Channel
  BY DEF Init, Channel, Quiet
<1> QED
  BY <1>1, <1>2 DEF Init, IInv, AnswersTheAccess

\* With a UI that honours ui_timeout_ms and prompt_timeout_seconds of at least
\* 5, however many accesses, connections and signals there are, an access is
\* decided by the answer given for it or denied (the promise of
\* PromptRequest::ui_timeout_ms).
THEOREM AnswersMatch ==
  ASSUME SafeTimeout
  PROVE  Spec => []AnswersTheAccess
<1>1. Init => IInv
  BY ChannelInit
<1>2. IInv /\ [Next]_vars => IInv'
  BY ChannelStep
<1>3. IInv => AnswersTheAccess
  BY DEF IInv
<1> QED
  BY <1>1, <1>2, <1>3, PTL DEF Spec

\* Under the same condition no dialog outlives the access it asks about.
THEOREM DialogsArePending ==
  ASSUME SafeTimeout
  PROVE  Spec => []AsksWhatIsPending
<1>1. Init => IInv
  BY ChannelInit
<1>2. IInv /\ [Next]_vars => IInv'
  BY ChannelStep
<1>3. IInv => AsksWhatIsPending
  BY DEF IInv, Channel, Quiet, InFlight, Sent, Asked, Answered, AsksWhatIsPending
<1> QED
  BY <1>1, <1>2, <1>3, PTL DEF Spec

------------------------------------------------------------------------------
(* How long an access waits: for any UI, and for one that honours its timeout. *)

\* SIGHUPs that have interrupted a read so far.
Interrupts == MaxSignals - signals

\* The seconds n timeouts amount to.
Seconds(n) == PromptTimeout * n

\* An access that no full socket has held up has waited for the timeouts of its
\* attempts and of the SIGHUPs before; while it waits for an answer, what is left of
\* the current one is set aside.
WaitInv ==
  /\ TypeOK /\ signals <= MaxSignals
  /\ phase = "idle" => waited = 0 /\ ~stuck
  /\ ~stuck /\ phase \in {"accept", "write"} => waited <= Seconds(attempt - 1 + Interrupts)
  /\ ~stuck /\ phase = "read" => waited + wait <= Seconds(attempt + Interrupts)

\* One more timeout.
LEMMA SecondsStep ==
  ASSUME NEW n \in Nat
  PROVE  Seconds(n) \in Nat /\ Seconds(n + 1) = Seconds(n) + PromptTimeout
BY TimeoutAssumption DEF Seconds

\* The allowance in the terms of WaitInv.
LEMMA Allowance ==
  ASSUME WaitInv
  PROVE  /\ Interrupts \in Nat /\ attempt \in {1, 2} /\ PromptTimeout \in Nat
         /\ wait \in Nat /\ waited \in Nat
         /\ Seconds(Interrupts) \in Nat
         /\ Seconds(1 + Interrupts) = Seconds(Interrupts) + PromptTimeout
         /\ Seconds(2 + Interrupts) = Seconds(Interrupts) + PromptTimeout + PromptTimeout
<1>1. Interrupts \in Nat /\ Interrupts + 1 \in Nat /\ attempt \in {1, 2}
  BY BoundsAssumption DEF WaitInv, TypeOK, Interrupts
<1>2. Seconds(Interrupts) \in Nat /\ Seconds(Interrupts + 1) = Seconds(Interrupts) + PromptTimeout
  BY <1>1, SecondsStep
<1>3. Seconds((Interrupts + 1) + 1) = Seconds(Interrupts + 1) + PromptTimeout
  BY <1>1, SecondsStep
<1>4. 1 + Interrupts = Interrupts + 1 /\ 2 + Interrupts = (Interrupts + 1) + 1
  BY <1>1
<1> QED
  BY <1>1, <1>2, <1>3, <1>4, TimeoutAssumption DEF WaitInv, TypeOK

\* What WaitInv says of each attempt, with the allowance spelled out.
LEMMA WaitCases ==
  ASSUME WaitInv, ~stuck
  PROVE  /\ phase \in {"accept", "write"} /\ attempt = 1 => waited <= Seconds(Interrupts)
         /\ phase \in {"accept", "write"} /\ attempt = 2 => waited <= Seconds(1 + Interrupts)
         /\ phase = "read" /\ attempt = 1 => waited + wait <= Seconds(1 + Interrupts)
         /\ phase = "read" /\ attempt = 2 => waited + wait <= Seconds(2 + Interrupts)
<1>1. Interrupts \in Nat
  BY Allowance
<1>2. 1 - 1 + Interrupts = Interrupts /\ 2 - 1 + Interrupts = 1 + Interrupts
  BY <1>1
<1> QED
  BY <1>2 DEF WaitInv

\* WaitInv after a step that takes no SIGHUP, from what it says of each attempt.
LEMMA WaitIntro ==
  ASSUME WaitInv, TypeOK', signals' = signals,
         phase' = "idle" => waited' = 0 /\ ~stuck',
         ~stuck' =>
           /\ phase' \in {"accept", "write"} /\ attempt' = 1 => waited' <= Seconds(Interrupts)
           /\ phase' \in {"accept", "write"} /\ attempt' = 2 =>
                waited' <= Seconds(1 + Interrupts)
           /\ phase' = "read" /\ attempt' = 1 => waited' + wait' <= Seconds(1 + Interrupts)
           /\ phase' = "read" /\ attempt' = 2 => waited' + wait' <= Seconds(2 + Interrupts)
  PROVE  WaitInv'
<1>1. Interrupts \in Nat /\ Interrupts' = Interrupts /\ attempt' \in {1, 2}
  BY Allowance DEF Interrupts, TypeOK
<1>2. 1 - 1 + Interrupts = Interrupts /\ 2 - 1 + Interrupts = 1 + Interrupts
  BY <1>1
<1>3. ~stuck' /\ phase' \in {"accept", "write"} =>
        waited' <= Seconds(attempt' - 1 + Interrupts)
  BY <1>1, <1>2
<1>4. ~stuck' /\ phase' = "read" => waited' + wait' <= Seconds(attempt' + Interrupts)
  BY <1>1
<1>5. Seconds(attempt - 1 + Interrupts)' = Seconds(attempt' - 1 + Interrupts)
  BY <1>1 DEF Seconds
<1>6. Seconds(attempt + Interrupts)' = Seconds(attempt' + Interrupts)
  BY <1>1 DEF Seconds
<1> QED
  BY <1>3, <1>4, <1>5, <1>6 DEF WaitInv

\* A decision ends the wait.
LEMMA DecideWait ==
  ASSUME WaitInv, TypeOK', signals' = signals, NEW by, Decide(by)
  PROVE  WaitInv'
BY WaitIntro DEF Decide

\* Every step keeps the wait within its allowance.
LEMMA WaitStep == WaitInv /\ [Next]_vars => WaitInv'
<1> SUFFICES ASSUME WaitInv, [Next]_vars PROVE WaitInv'
  OBVIOUS
<1>1. TypeOK'
  BY TypeStep DEF WaitInv
<1>2. CASE NewPrompt
  <2>1. waited' = 0 /\ attempt' = 1 /\ phase' \in {"accept", "write"} /\ signals' = signals
        /\ stuck' = stuck
    BY <1>2 DEF WaitInv, NewPrompt
  <2> QED
    BY <1>1, <2>1, Allowance, WaitIntro
<1>3. CASE AcceptWaiting
  <2>1. /\ phase = "accept" /\ phase' = "write" /\ attempt' = attempt
        /\ waited' = waited /\ stuck' = stuck /\ signals' = signals
    BY <1>3 DEF AcceptWaiting
  <2> QED
    BY <1>1, <2>1, WaitCases, WaitIntro
<1>4. CASE AcceptNone
  <2>1. CASE attempt = 1
    <3>1. /\ phase = "accept" /\ phase' = "accept" /\ attempt' = 2
          /\ waited' = waited /\ stuck' = stuck /\ signals' = signals
      BY <1>4, <2>1 DEF AcceptNone
    <3> QED
      BY <1>1, <2>1, <3>1, Allowance, WaitCases, WaitIntro
  <2>2. CASE attempt = 2
    BY <1>1, <1>4, <2>2, DecideWait DEF AcceptNone
  <2> QED
    BY <2>1, <2>2, Allowance
<1>5. ASSUME NEW c \in Conn, WriteRequest(c) PROVE WaitInv'
  <2>1. /\ phase = "write" /\ phase' = "read" /\ attempt' = attempt
        /\ waited' = waited /\ stuck' = stuck
        /\ wait' = PromptTimeout /\ signals' = signals
    BY <1>5 DEF WriteRequest
  <2> QED
    BY <1>1, <2>1, Allowance, WaitCases, WaitIntro
<1>6. ASSUME NEW c \in Conn, ReadAnswer(c) \/ ReadTimeout(c) PROVE WaitInv'
  BY <1>1, <1>6, DecideWait DEF ReadAnswer, ReadTimeout
<1>7. ASSUME NEW c \in Conn, Disconnect(c) PROVE WaitInv'
  <2>1. CASE attempt = 1
    <3>1. /\ phase \in {"write", "read"} /\ phase' = "accept" /\ attempt' = 2
          /\ waited' = waited /\ stuck' = stuck /\ signals' = signals
      BY <1>7, <2>1 DEF Disconnect
    <3> QED
      BY <1>1, <2>1, <3>1, Allowance, WaitCases, WaitIntro
  <2>2. CASE attempt = 2
    BY <1>1, <1>7, <2>2, DecideWait DEF Disconnect
  <2> QED
    BY <2>1, <2>2, Allowance
<1>8. CASE Interrupt
  <2>1. /\ phase = "read" /\ phase' = "read" /\ attempt' = attempt /\ waited' = waited
        /\ stuck' = stuck /\ wait' = PromptTimeout /\ signals' = signals - 1
    BY <1>8 DEF Interrupt
  <2>2. signals \in Nat /\ signals' \in Nat /\ MaxSignals \in Nat /\ signals' <= MaxSignals
    BY <1>1, <2>1, BoundsAssumption DEF WaitInv, TypeOK
  <2>3. Interrupts' = Interrupts + 1
    BY <2>1, <2>2 DEF Interrupts
  <2>4. ~stuck => waited <= Seconds(attempt + Interrupts)
    BY <2>1, Allowance, WaitCases DEF WaitInv
  <2>5. Seconds((attempt + Interrupts) + 1) = Seconds(attempt + Interrupts) + PromptTimeout
        /\ Seconds(attempt + Interrupts) \in Nat
    BY Allowance, SecondsStep
  <2>6. Seconds(attempt + Interrupts)' = Seconds((attempt + Interrupts) + 1)
    <3>1. attempt' + Interrupts' = (attempt + Interrupts) + 1
      BY <2>1, <2>3, Allowance
    <3> QED
      BY <3>1 DEF Seconds
  <2>7. ~stuck' => waited' + wait' <= Seconds(attempt + Interrupts)'
    BY <2>1, <2>4, <2>5, <2>6, Allowance
  <2> QED
    BY <1>1, <2>1, <2>2, <2>7 DEF WaitInv
<1>9. ASSUME NEW c \in Conn, Ui(c) PROVE WaitInv'
  <2>1. UNCHANGED daemonVars /\ signals' = signals
    BY <1>9 DEF Ui, Connect, ReadRequest, WriteAnswer, Close
  <2> QED
    BY <1>1, <2>1, WaitCases, WaitIntro DEF WaitInv, daemonVars
<1>10. CASE Tick
  <2>1. phase' = phase /\ attempt' = attempt /\ signals' = signals
    BY <1>10 DEF Tick
  <2>2. CASE phase = "read"
    <3>1. waited' <= waited + 1 /\ wait' = wait - 1 /\ stuck' = stuck
      BY <1>10, <2>2, Allowance DEF Tick, DaemonClock, WaitInv, TypeOK
    <3>2. waited' \in Nat /\ wait' \in Nat
      BY <1>1, TimeoutAssumption DEF TypeOK
    <3>3. waited' + wait' <= waited + wait
      BY <3>1, <3>2, Allowance
    <3>4. ~stuck' =>
            /\ attempt' = 1 => waited' + wait' <= Seconds(1 + Interrupts)
            /\ attempt' = 2 => waited' + wait' <= Seconds(2 + Interrupts)
      BY <2>1, <2>2, <3>1, <3>2, <3>3, Allowance, WaitCases
    <3> QED
      BY <1>1, <2>1, <2>2, <3>4, WaitIntro
  <2>3. CASE phase = "write"
    <3>1. stuck'
      BY <1>10, <2>3 DEF Tick, DaemonClock
    <3> QED
      BY <1>1, <2>1, <2>3, <3>1, WaitIntro
  <2>4. CASE phase = "idle"
    <3>1. waited' = waited /\ stuck' = stuck
      BY <1>10, <2>4 DEF Tick, DaemonClock, WaitInv, TypeOK
    <3> QED
      BY <1>1, <2>1, <2>4, <3>1, WaitIntro DEF WaitInv
  <2> QED
    BY <1>10, <2>2, <2>3, <2>4 DEF Tick, DaemonWaits
<1>11. CASE UNCHANGED vars
  BY <1>1, <1>11, WaitCases, WaitIntro DEF WaitInv, vars, daemonVars
<1> QED
  BY <1>2, <1>3, <1>4, <1>5, <1>6, <1>7, <1>8, <1>9, <1>10, <1>11
     DEF Next, Prompting

\* Nothing waits at the start.
LEMMA WaitInit == Init => WaitInv
BY TypeInit, BoundsAssumption DEF Init, WaitInv

\* Whatever UIs do and whatever the timeout is, from the moment it is met to its
\* decision an access waits at most one prompt timeout for each of the two attempts of
\* prompt_recovering and one for each SIGHUP that interrupts the read, the time in the
\* write included, unless the write has met a socket that was full.
THEOREM WaitIsTwoTimeouts == Spec => []WaitIsBounded
<1>1. ASSUME WaitInv PROVE WaitIsBounded
  <2>1. phase \in {"idle", "accept", "write", "read"}
    BY <1>1 DEF WaitInv, TypeOK
  <2>2. ~stuck => waited <= Seconds(2 + Interrupts)
    BY <1>1, <2>1, Allowance, WaitCases DEF WaitInv
  <2> QED
    BY <2>2 DEF Seconds, Interrupts, WaitIsBounded
<1> QED
  BY <1>1, WaitInit, WaitStep, PTL DEF Spec

\* While the daemon writes or reads it holds a connection.
Linked == phase \in {"write", "read"} => link # {}

\* What the write of a request needs: a connection, and silence on it.
FlowInv == IInv /\ Linked /\ NeverStuck

\* A connection is taken before the write and dropped with the attempt.
LEMMA LinkedStep == Linked /\ [Next]_vars => Linked'
<1> SUFFICES ASSUME Linked, [Next]_vars PROVE Linked'
  OBVIOUS
<1>1. CASE NewPrompt
  BY <1>1 DEF NewPrompt, Linked
<1>2. CASE AcceptWaiting
  BY <1>2 DEF AcceptWaiting, Linked
<1>3. CASE AcceptNone
  BY <1>3 DEF AcceptNone, Decide, Linked
<1>4. ASSUME NEW c \in Conn,
             WriteRequest(c) \/ ReadAnswer(c) \/ Disconnect(c) \/ ReadTimeout(c)
      PROVE  Linked'
  BY <1>4 DEF WriteRequest, ReadAnswer, Disconnect, ReadTimeout, Decide, Linked
<1>5. CASE Interrupt
  BY <1>5 DEF Interrupt, Linked
<1>6. ASSUME NEW c \in Conn, Ui(c) PROVE Linked'
  BY <1>6 DEF Ui, Connect, ReadRequest, WriteAnswer, Close, daemonVars, Linked
<1>7. CASE Tick \/ UNCHANGED vars
  BY <1>7 DEF Tick, vars, daemonVars, Linked
<1> QED
  BY <1>1, <1>2, <1>3, <1>4, <1>5, <1>6, <1>7 DEF Next, Prompting

\* Only a tick in the write makes an access stuck, and then nothing is unread on the
\* connection it is written to.
LEMMA StuckStep ==
  ASSUME FlowInv, [Next]_vars
  PROVE  NeverStuck'
<1>1. CASE NewPrompt \/ AcceptWaiting \/ AcceptNone \/ Interrupt \/ UNCHANGED vars
  BY <1>1 DEF FlowInv, NeverStuck, NewPrompt, AcceptWaiting, AcceptNone, Interrupt, Decide,
              vars, daemonVars
<1>2. ASSUME NEW c \in Conn,
             WriteRequest(c) \/ ReadAnswer(c) \/ Disconnect(c) \/ ReadTimeout(c) \/ Ui(c)
      PROVE  NeverStuck'
  BY <1>2 DEF FlowInv, NeverStuck, WriteRequest, ReadAnswer, Disconnect, ReadTimeout, Decide,
              Ui, Connect, ReadRequest, WriteAnswer, Close, daemonVars
<1>3. CASE Tick
  <2>1. ASSUME phase = "write" PROVE FALSE
    <3>1. PICK c \in Conn : link = {c}
      BY <2>1 DEF FlowInv, Linked, IInv, TypeOK
    <3>2. requests[c] = <<>>
      BY <2>1, <3>1, SilentUnlessReading DEF FlowInv, IInv, Quiet
    <3>3. Len(requests[c]) >= BufferSize
      BY <1>3, <2>1, <3>1 DEF Tick, DaemonWaits
    <3>4. Len(requests[c]) = 0
      BY <3>2
    <3> QED
      BY <3>3, <3>4, BoundsAssumption
  <2> QED
    BY <1>3, <2>1 DEF Tick, DaemonClock, FlowInv, NeverStuck
<1> QED
  BY <1>1, <1>2, <1>3 DEF Next, Prompting

\* With a UI that honours ui_timeout_ms and prompt_timeout_seconds of at least 5 no
\* write meets a full socket: with WaitIsTwoTimeouts, the whole wait is bounded.
THEOREM WritesDoNotBlock ==
  ASSUME SafeTimeout
  PROVE  Spec => []NeverStuck
<1>1. Init => FlowInv
  BY ChannelInit DEF Init, FlowInv, Linked, NeverStuck
<1>2. FlowInv /\ [Next]_vars => FlowInv'
  BY ChannelStep, LinkedStep, StuckStep DEF FlowInv
<1>3. FlowInv => NeverStuck
  BY DEF FlowInv
<1> QED
  BY <1>1, <1>2, <1>3, PTL DEF Spec

------------------------------------------------------------------------------
(* The UI that was next in line, for any UIs and any timeout. *)

\* Where the UI at the head of the backlog is while the access it was met with is
\* prompted for: still at the head, or accepted; and it has been accepted once the
\* second attempt has a link.  A connection is made once, so it is not in the backlog
\* again.
Born(c) == peer[c] # "unborn"
Accepted(c) == c \notin Range(backlog)
AtHead(c) == backlog # <<>> /\ Head(backlog) = c

LineInv ==
  /\ TypeOK
  /\ \A i, j \in 1 .. Len(backlog) : backlog[i] = backlog[j] => i = j
  /\ \A c \in Range(backlog) : Born(c)
  /\ waiting # <<>> => Born(Head(waiting))
  /\ phase # "idle" /\ waiting # <<>> => Accepted(Head(waiting)) \/ AtHead(Head(waiting))
  /\ phase \in {"write", "read"} /\ attempt = 2 /\ waiting # <<>> => Accepted(Head(waiting))

\* What the backlog holds once its head is taken.
LEMMA RangeTail ==
  ASSUME NEW S, NEW s \in Seq(S), s # <<>>
  PROVE  /\ Range(Tail(s)) \subseteq Range(s)
         /\ Head(s) \in Range(s)
         /\ Len(Tail(s)) = Len(s) - 1 /\ Len(s) \in Nat \ {0}
         /\ \A i \in 1 .. Len(s) - 1 : Tail(s)[i] = s[i + 1]
         /\ (\A i, j \in 1 .. Len(s) : s[i] = s[j] => i = j) => Head(s) \notin Range(Tail(s))
<1>1. Len(s) \in Nat \ {0} /\ Len(Tail(s)) = Len(s) - 1
  OBVIOUS
<1>2. \A i \in 1 .. Len(s) - 1 : Tail(s)[i] = s[i + 1]
  OBVIOUS
<1>3. DOMAIN s = 1 .. Len(s) /\ DOMAIN Tail(s) = 1 .. Len(s) - 1 /\ Head(s) = s[1]
  BY <1>1
<1>4. Range(Tail(s)) \subseteq Range(s) /\ Head(s) \in Range(s)
  BY <1>1, <1>2, <1>3 DEF Range
<1>5. ASSUME \A i, j \in 1 .. Len(s) : s[i] = s[j] => i = j, Head(s) \in Range(Tail(s))
      PROVE  FALSE
  <2>1. PICK i \in 1 .. Len(s) - 1 : s[1] = Tail(s)[i]
    BY <1>3, <1>5 DEF Range
  <2>2. s[1] = s[i + 1] /\ i + 1 \in 1 .. Len(s) /\ 1 \in 1 .. Len(s) /\ i + 1 # 1
    BY <1>1, <1>2, <2>1
  <2> QED
    BY <1>5, <2>2
<1> QED
  BY <1>1, <1>2, <1>4, <1>5

\* What it holds once a connection is made.
LEMMA RangeAppend ==
  ASSUME NEW S, NEW s \in Seq(S), NEW e \in S
  PROVE  /\ Range(Append(s, e)) = Range(s) \cup {e}
         /\ s # <<>> => Append(s, e) # <<>> /\ Head(Append(s, e)) = Head(s)
         /\ (\A i, j \in 1 .. Len(s) : s[i] = s[j] => i = j) /\ e \notin Range(s) =>
              \A i, j \in 1 .. Len(Append(s, e)) : Append(s, e)[i] = Append(s, e)[j] => i = j
<1>1. /\ DOMAIN s = 1 .. Len(s) /\ DOMAIN Append(s, e) = 1 .. Len(s) + 1
      /\ Len(Append(s, e)) = Len(s) + 1 /\ Len(s) \in Nat
      /\ \A i \in 1 .. Len(s) : Append(s, e)[i] = s[i]
      /\ Append(s, e)[Len(s) + 1] = e
  OBVIOUS
<1>2. Range(Append(s, e)) = Range(s) \cup {e}
  BY <1>1 DEF Range
<1>3. s # <<>> => Append(s, e) # <<>> /\ Head(Append(s, e)) = Head(s)
  OBVIOUS
<1>4. ASSUME \A i, j \in 1 .. Len(s) : s[i] = s[j] => i = j, e \notin Range(s),
             NEW i \in 1 .. Len(s) + 1, NEW j \in 1 .. Len(s) + 1,
             Append(s, e)[i] = Append(s, e)[j]
      PROVE  i = j
  <2>1. \A k \in 1 .. Len(s) : s[k] # e
    BY <1>1, <1>4 DEF Range
  <2>2. \A k \in 1 .. Len(s) + 1 : k \in 1 .. Len(s) \/ k = Len(s) + 1
    BY <1>1
  <2> QED
    BY <1>1, <1>4, <2>1, <2>2
<1> QED
  BY <1>1, <1>2, <1>3, <1>4

\* A step that leaves the line alone and neither starts an access nor gives the second
\* attempt a link.
LEMMA LineFrame ==
  ASSUME LineInv, TypeOK', UNCHANGED <<backlog, waiting>>,
         \A c \in Conn : Born(c) => Born(c)',
         phase = "idle" => phase' = "idle",
         phase' \in {"write", "read"} /\ attempt' = 2 =>
           phase \in {"write", "read"} /\ attempt = 2
  PROVE  LineInv'
<1>1. waiting \in Seq(Conn) /\ backlog \in Seq(Conn)
  BY DEF LineInv, TypeOK
<1>2. Range(backlog) \subseteq Conn /\ (waiting # <<>> => Head(waiting) \in Conn)
  BY <1>1 DEF Range
<1> QED
  BY <1>2 DEF LineInv, Accepted, AtHead

\* The line moves up when a link is taken from it, and grows behind.
LEMMA LineStep == LineInv /\ [Next]_vars => LineInv'
<1> SUFFICES ASSUME LineInv, [Next]_vars PROVE LineInv'
  OBVIOUS
<1>1. TypeOK'
  BY TypeStep DEF LineInv
<1>2. waiting \in Seq(Conn) /\ backlog \in Seq(Conn)
  BY DEF LineInv, TypeOK
<1>3. CASE NewPrompt
  <2>1. waiting' = backlog /\ backlog' = backlog /\ peer' = peer /\ attempt' = 1
    BY <1>3 DEF NewPrompt, uiVars
  <2>2. backlog # <<>> => Head(backlog) \in Range(backlog)
    BY <1>2, RangeTail
  <2> QED
    BY <1>1, <2>1, <2>2 DEF LineInv, Born, Accepted, AtHead
<1>4. CASE AcceptWaiting
  <2>1. /\ backlog # <<>> /\ backlog' = Tail(backlog) /\ phase = "accept"
        /\ waiting' = waiting /\ peer' = peer
    BY <1>4 DEF AcceptWaiting, uiVars
  <2>2. /\ Range(backlog') \subseteq Range(backlog) /\ Head(backlog) \notin Range(backlog')
        /\ Len(backlog') = Len(backlog) - 1 /\ Len(backlog) \in Nat \ {0}
        /\ \A i \in 1 .. Len(backlog) - 1 : backlog'[i] = backlog[i + 1]
    BY <1>2, <2>1, RangeTail DEF LineInv
  <2>3. \A i, j \in 1 .. Len(backlog') : backlog'[i] = backlog'[j] => i = j
    <3> SUFFICES ASSUME NEW i \in 1 .. Len(backlog'), NEW j \in 1 .. Len(backlog'),
                        backlog'[i] = backlog'[j]
                 PROVE  i = j
      OBVIOUS
    <3>1. i + 1 \in 1 .. Len(backlog) /\ j + 1 \in 1 .. Len(backlog)
      BY <2>2
    <3>2. backlog[i + 1] = backlog[j + 1]
      BY <2>2
    <3>3. i + 1 = j + 1
      BY <3>1, <3>2 DEF LineInv
    <3> QED
      BY <3>3
  <2>4. waiting # <<>> => Accepted(Head(waiting))'
    BY <2>1, <2>2 DEF LineInv, Accepted, AtHead
  <2> QED
    BY <1>1, <2>1, <2>2, <2>3, <2>4 DEF LineInv, Born
<1>5. ASSUME NEW c \in Conn, Connect(c) PROVE LineInv'
  <2>1. /\ ~Born(c) /\ backlog' = Append(backlog, c)
        /\ UNCHANGED <<phase, attempt, waiting>>
        /\ \A d \in Conn : d # c => peer'[d] = peer[d]
        /\ Born(c)'
    BY <1>5 DEF Connect, daemonVars, Born, TypeOK, LineInv
  <2>2. c \notin Range(backlog) /\ (waiting # <<>> => c # Head(waiting))
    BY <2>1 DEF LineInv
  <2>3. /\ Range(backlog') = Range(backlog) \cup {c}
        /\ backlog # <<>> => backlog' # <<>> /\ Head(backlog') = Head(backlog)
        /\ \A i, j \in 1 .. Len(backlog') : backlog'[i] = backlog'[j] => i = j
    BY <1>2, <2>1, <2>2, RangeAppend DEF LineInv
  <2>4. Range(backlog) \subseteq Conn /\ (waiting # <<>> => Head(waiting) \in Conn)
    BY <1>2 DEF Range
  <2>5. \A d \in Conn : Born(d) => Born(d)'
    BY <2>1 DEF Born
  <2>6. waiting # <<>> =>
          /\ Accepted(Head(waiting)) => Accepted(Head(waiting))'
          /\ AtHead(Head(waiting)) => AtHead(Head(waiting))'
    BY <2>1, <2>2, <2>3 DEF Accepted, AtHead
  <2> QED
    BY <1>1, <2>1, <2>3, <2>4, <2>5, <2>6 DEF LineInv
<1>6. CASE AcceptNone
  BY <1>1, <1>6, LineFrame DEF AcceptNone, Decide, uiVars, Born
<1>7. ASSUME NEW c \in Conn,
             WriteRequest(c) \/ ReadAnswer(c) \/ Disconnect(c) \/ ReadTimeout(c)
      PROVE  LineInv'
  <2>1. UNCHANGED <<backlog, waiting, peer>>
    BY <1>7 DEF WriteRequest, ReadAnswer, Disconnect, ReadTimeout, uiVars
  <2>2. phase # "idle"
    BY <1>7 DEF WriteRequest, ReadAnswer, Disconnect, ReadTimeout
  <2>3. phase' \in {"write", "read"} /\ attempt' = 2 =>
          phase \in {"write", "read"} /\ attempt = 2
    BY <1>7 DEF WriteRequest, ReadAnswer, Disconnect, ReadTimeout, Decide
  <2> QED
    BY <1>1, <2>1, <2>2, <2>3, LineFrame DEF Born
<1>8. CASE Interrupt
  BY <1>1, <1>8, LineFrame DEF Interrupt, uiVars, Born
<1>9. ASSUME NEW c \in Conn, ReadRequest(c) \/ WriteAnswer(c) \/ Close(c) PROVE LineInv'
  <2>1. UNCHANGED <<backlog, waiting, phase, attempt>>
    BY <1>9 DEF ReadRequest, WriteAnswer, Close, daemonVars
  <2>2. \A d \in Conn : Born(d) => Born(d)'
    BY <1>9 DEF ReadRequest, WriteAnswer, Close, Born, LineInv, TypeOK
  <2> QED
    BY <1>1, <2>1, <2>2, LineFrame
<1>10. CASE Tick \/ UNCHANGED vars
  BY <1>1, <1>10, LineFrame DEF Tick, vars, daemonVars, uiVars, Born
<1> QED
  BY <1>3, <1>4, <1>5, <1>6, <1>7, <1>8, <1>9, <1>10 DEF Next, Prompting, Ui

\* At the start nobody waits.
LEMMA LineInit == Init => LineInv
<1> SUFFICES ASSUME Init PROVE LineInv
  OBVIOUS
<1>1. backlog = <<>> /\ waiting = <<>> /\ phase = "idle"
  BY DEF Init
<1>2. Range(backlog) = {} /\ Len(backlog) = 0
  BY <1>1 DEF Range
<1> QED
  BY <1>1, <1>2, TypeInit DEF LineInv

\* However many UIs have died, an access is not denied for want of one while the UI
\* that was next to be accepted when it was met is alive in the backlog: the retry of
\* prompt_recovering gets to it.
THEOREM NextUiIsAsked == Spec => NextUiIsUsed
<1>1. LineInv /\ [Next]_vars =>
        [decided' # decided /\ link' = {} /\ waiting # <<>> =>
           ~(Head(waiting) \in Range(backlog) /\ Open(Head(waiting)))]_vars
  <2> SUFFICES ASSUME LineInv, Next, decided' # decided, link' = {}, waiting # <<>>
               PROVE  Head(waiting) \notin Range(backlog)
    OBVIOUS
  <2>1. CASE AcceptNone
    <3>1. backlog = <<>>
      BY <2>1 DEF AcceptNone
    <3> QED
      BY <3>1 DEF Range
  <2>2. ASSUME NEW c \in Conn, Disconnect(c) PROVE Head(waiting) \notin Range(backlog)
    <3>1. phase \in {"write", "read"} /\ attempt = 2
      BY <2>2 DEF Disconnect
    <3> QED
      BY <3>1 DEF LineInv, Accepted
  <2>3. ~NewPrompt /\ ~AcceptWaiting /\ ~Interrupt /\ ~Tick
    BY DEF NewPrompt, AcceptWaiting, Interrupt, Tick
  <2>4. \A c \in Conn : ~WriteRequest(c) /\ ~ReadAnswer(c) /\ ~ReadTimeout(c) /\ ~Ui(c)
    BY DEF WriteRequest, ReadAnswer, ReadTimeout, Ui, Connect, ReadRequest, WriteAnswer,
           Close, daemonVars
  <2> QED
    BY <2>1, <2>2, <2>3, <2>4 DEF Next, Prompting
<1> QED
  BY <1>1, LineInit, LineStep, PTL DEF Spec, NextUiIsUsed
==============================================================================
