----------------------------- MODULE PromptLink ------------------------------
(***************************************************************************)
(* filewalld asks a UI process to decide one access at a time over a Unix  *)
(* socket (filewalld/src/server.rs).  A response carries no name of the    *)
(* request it answers, so which access an answer decides rests on two      *)
(* clocks: the daemon's read timeout and the one the UI is told to beat.   *)
(*                                                                         *)
(* A connection is seen from both ends: the daemon holds it (link), has it *)
(* waiting in the listen backlog, or is done with it; the UI process has   *)
(* it open or has closed it.  Accesses are numbered in the order they are  *)
(* prompted for and an answer is the number of the access it was given     *)
(* for.  Time is counted in seconds; computing takes none.                 *)
(***************************************************************************)
EXTENDS Naturals, FiniteSets, SequencesExt

CONSTANTS
  Conn,           \* the connections UI processes open, in their whole life
  PromptTimeout,  \* prompt_timeout_seconds
  HonoursTimeout, \* the UI self-times out (filewall-ui-iced) or not (yad)
  BufferSize,     \* requests an unread socket holds
  MaxAccess,      \* bound: accesses prompted for
  MaxSignals      \* bound: SIGHUPs taken while waiting for an answer

\* set_read_timeout refuses 0.
ASSUME TimeoutAssumption == PromptTimeout \in Nat \ {0}
ASSUME BoundsAssumption ==
  /\ HonoursTimeout \in BOOLEAN
  /\ BufferSize \in Nat \ {0} /\ {MaxAccess, MaxSignals} \subseteq Nat

Margin == 5     \* UI_TIMEOUT_MARGIN_MS
Floor == 2      \* the clamp on ui_timeout_ms
\* Fault: a grace that outlives the daemon's wait.
LongGrace == 4

Grace == 2      \* BACKSTOP_GRACE_MS of the iced worker

\* Fault: no headroom.
UiTimeoutWithoutMargin == PromptTimeout

UiTimeout ==
  IF PromptTimeout > Margin + Floor THEN PromptTimeout - Margin ELSE Floor

\* Seconds within which the UI answers what it has read; {} is never.
AnswerWithin == IF HonoursTimeout THEN {UiTimeout + Grace} ELSE {}

\* Bound: an access is not seen to wait longer than this and a second.
LongestWait == PromptTimeout * (2 + MaxSignals)

VARIABLES
  phase,     \* of the daemon: "idle", or at a call of prompt_recovering
  attempt,   \* the first or the second call of link.prompt
  link,      \* the connection the daemon holds, if any
  backlog,   \* connections not accepted yet
  peer,      \* the UI's end of each connection
  requests,  \* written by the daemon, unread by the UI
  answers,   \* written by the UI, unread by the daemon
  asking,    \* what each UI is asking its user, and for how much longer
  wait,      \* what is left of the daemon's read timeout
  waited,    \* seconds the access has been waiting to be decided
  stuck,     \* history: some of them in the write, to a socket that was full
  signals,   \* SIGHUPs left
  waiting,   \* history: the backlog when the access was met
  decided    \* history: per access, the prompt whose answer decided it,
             \* {} for a deny without an answer

daemonVars == <<phase, attempt, link, wait, waited, stuck, waiting, decided>>
uiVars == <<peer, asking>>
vars == <<daemonVars, uiVars, backlog, requests, answers, signals>>

Access == Len(decided) + 1
Open(c) == peer[c] = "open"

TypeOK ==
  /\ phase \in {"idle", "accept", "write", "read"} /\ attempt \in {1, 2}
  /\ link \in {{}} \cup {{c} : c \in Conn}
  /\ backlog \in Seq(Conn)
  /\ peer \in [Conn -> {"unborn", "open", "closed"}]
  /\ requests \in [Conn -> Seq(Nat)] /\ answers \in [Conn -> Seq(Nat)]
  /\ asking \in [Conn -> SUBSET [for : Nat, left : SUBSET Nat]]
  /\ wait \in 0 .. PromptTimeout /\ waited \in Nat /\ signals \in Nat
  /\ stuck \in BOOLEAN /\ waiting \in Seq(Conn) /\ decided \in Seq(SUBSET Nat)

Init ==
  /\ phase = "idle" /\ attempt = 1 /\ link = {} /\ backlog = <<>>
  /\ peer = [c \in Conn |-> "unborn"]
  /\ requests = [c \in Conn |-> <<>>] /\ answers = [c \in Conn |-> <<>>]
  /\ asking = [c \in Conn |-> {}]
  /\ wait = 0 /\ waited = 0 /\ stuck = FALSE /\ signals = MaxSignals
  /\ waiting = <<>> /\ decided = <<>>

------------------------------------------------------------------------------
(* filewalld: UiServer::prompt_recovering *)

\* The event loop meets an access policy and rules leave undecided.
NewPrompt ==
  /\ phase = "idle" /\ Len(decided) < MaxAccess
  /\ attempt' = 1
  /\ phase' = IF link = {} THEN "accept" ELSE "write"
  /\ waiting' = backlog
  /\ UNCHANGED <<link, wait, waited, stuck, decided, uiVars, backlog, requests, answers,
                 signals>>

\* The event loop answers the access, by the answer of prompt n or by a deny.
Decide(by) ==
  /\ decided' = Append(decided, by)
  /\ phase' = "idle" /\ wait' = 0 /\ waited' = 0 /\ stuck' = FALSE

\* try_accept takes the oldest waiting connection, dead or alive.  With none,
\* the first attempt has no link to try and the second ends in NotConnected.
AcceptWaiting ==
  /\ phase = "accept" /\ backlog # <<>>
  /\ link' = {Head(backlog)} /\ backlog' = Tail(backlog)
  /\ phase' = "write"
  /\ UNCHANGED <<attempt, wait, waited, stuck, waiting, decided, uiVars, requests,
                 answers, signals>>

\* Fault: the second accept blocks until a UI connects.
AcceptBlocks ==
  /\ phase = "accept" /\ backlog = <<>> /\ attempt = 1
  /\ attempt' = 2
  /\ UNCHANGED <<phase, link, wait, waited, stuck, waiting, decided, uiVars, backlog,
                 requests, answers, signals>>

AcceptNone ==
  /\ phase = "accept" /\ backlog = <<>>
  /\ \/ attempt = 1 /\ attempt' = 2 /\ UNCHANGED <<phase, wait, waited, stuck, decided>>
     \/ attempt = 2 /\ Decide({}) /\ UNCHANGED attempt
  /\ UNCHANGED <<link, waiting, uiVars, backlog, requests, answers, signals>>

\* The write blocks while the UI leaves its end full: it has no timeout.
WriteRequest(c) ==
  /\ phase = "write" /\ link = {c} /\ Open(c) /\ Len(requests[c]) < BufferSize
  /\ requests' = [requests EXCEPT ![c] = Append(@, Access)]
  /\ wait' = PromptTimeout
  /\ phase' = "read"
  /\ UNCHANGED <<attempt, link, waited, stuck, waiting, decided, uiVars, backlog, answers,
                 signals>>

\* The first response on the stream is taken for the answer.
ReadAnswer(c) ==
  /\ phase = "read" /\ link = {c} /\ answers[c] # <<>>
  /\ answers' = [answers EXCEPT ![c] = Tail(@)]
  /\ Decide({Head(answers[c])})
  /\ UNCHANGED <<attempt, link, waiting, uiVars, backlog, requests, signals>>

\* Fault: no second attempt.
DisconnectOnce(c) ==
  /\ link = {c} /\ peer[c] = "closed"
  /\ phase = "write" \/ (phase = "read" /\ answers[c] = <<>>)
  /\ link' = {} /\ Decide({})
  /\ UNCHANGED <<attempt, waiting, uiVars, backlog, requests, answers, signals>>

\* Broken pipe or end of file: drop the link and try once more.
Disconnect(c) ==
  /\ link = {c} /\ peer[c] = "closed"
  /\ phase = "write" \/ (phase = "read" /\ answers[c] = <<>>)
  /\ link' = {}
  /\ \/ /\ attempt = 1 /\ attempt' = 2
        /\ phase' = "accept" /\ wait' = 0
        /\ UNCHANGED <<waited, stuck, decided>>
     \/ attempt = 2 /\ Decide({}) /\ UNCHANGED attempt
  /\ UNCHANGED <<waiting, uiVars, backlog, requests, answers, signals>>

\* Fault: a timeout is retried like a disconnect.
ReadTimeoutRetries(c) ==
  /\ phase = "read" /\ link = {c} /\ wait = 0 /\ answers[c] = <<>>
  /\ phase' = "write"
  /\ UNCHANGED <<attempt, link, wait, waited, stuck, waiting, decided, uiVars, backlog,
                 requests, answers, signals>>

\* Deny and keep the link.
ReadTimeout(c) ==
  /\ phase = "read" /\ link = {c} /\ wait = 0 /\ answers[c] = <<>>
  /\ Decide({})
  /\ UNCHANGED <<attempt, link, waiting, uiVars, backlog, requests, answers,
                 signals>>

\* A SIGHUP interrupts the read; read_exact calls it again, with the whole
\* timeout before it.
Interrupt ==
  /\ phase = "read" /\ wait < PromptTimeout /\ signals > 0
  /\ wait' = PromptTimeout
  /\ signals' = signals - 1
  /\ UNCHANGED <<phase, attempt, link, waited, stuck, waiting, decided, uiVars, backlog,
                 requests, answers>>

------------------------------------------------------------------------------
(* The UI process: connect_forever and serve *)

Connect(c) ==
  /\ peer[c] = "unborn"
  /\ peer' = [peer EXCEPT ![c] = "open"]
  /\ backlog' = Append(backlog, c)
  /\ UNCHANGED <<daemonVars, asking, requests, answers, signals>>

ReadRequest(c) ==
  /\ Open(c) /\ asking[c] = {} /\ requests[c] # <<>>
  /\ requests' = [requests EXCEPT ![c] = Tail(@)]
  /\ asking' = [asking EXCEPT ![c] =
                 {[for |-> Head(requests[c]), left |-> AnswerWithin]}]
  /\ UNCHANGED <<daemonVars, peer, backlog, answers, signals>>

\* The user's answer, or the UI's own deny.
WriteAnswer(c) ==
  /\ Open(c)
  /\ \E q \in asking[c] :
       answers' = [answers EXCEPT ![c] = Append(@, q.for)]
  /\ asking' = [asking EXCEPT ![c] = {}]
  /\ UNCHANGED <<daemonVars, peer, backlog, requests, signals>>

\* The UI process ends; what it wrote stays readable.
Close(c) ==
  /\ Open(c)
  /\ peer' = [peer EXCEPT ![c] = "closed"]
  /\ asking' = [asking EXCEPT ![c] = {}]
  /\ requests' = [requests EXCEPT ![c] = <<>>]
  /\ UNCHANGED <<daemonVars, backlog, answers, signals>>

------------------------------------------------------------------------------
(* Time passes once neither side has anything to do at once. *)

\* Fault: the UI never looks at its deadline.
NeverDue(c) == FALSE

Due(c) == \E q \in asking[c] : 0 \in q.left

DaemonWaits ==
  \/ phase = "idle"
  \/ /\ phase = "write"
     /\ \A c \in link : Open(c) /\ Len(requests[c]) >= BufferSize
  \/ /\ phase = "read" /\ wait > 0
     /\ \A c \in link : Open(c) /\ answers[c] = <<>>

UiWaits(c) == ~Due(c) /\ (Open(c) /\ requests[c] # <<>> => asking[c] # {})

\* Only the read has a timeout, and the access waits in the write as well.
DaemonClock ==
  /\ wait' = IF phase = "read" THEN wait - 1 ELSE wait
  /\ waited' = IF phase # "idle" /\ waited <= LongestWait THEN waited + 1 ELSE waited
  /\ stuck' = (stuck \/ phase = "write")

Tick ==
  /\ DaemonWaits /\ \A c \in Conn : UiWaits(c)
  /\ DaemonClock
  /\ asking' = [c \in Conn |->
                 {[q EXCEPT !.left = {t - 1 : t \in @}] : q \in asking[c]}]
  /\ UNCHANGED <<phase, attempt, link, waiting, decided, peer, backlog, requests,
                 answers, signals>>

------------------------------------------------------------------------------
Prompting ==
  \/ AcceptWaiting \/ AcceptNone
  \/ \E c \in Conn :
       WriteRequest(c) \/ ReadAnswer(c) \/ Disconnect(c) \/ ReadTimeout(c)

Ui(c) == Connect(c) \/ ReadRequest(c) \/ WriteAnswer(c) \/ Close(c)

Next == NewPrompt \/ Prompting \/ Interrupt \/ (\E c \in Conn : Ui(c)) \/ Tick

Spec == Init /\ [][Next]_vars

\* The daemon's thread runs, time passes, a UI reads when it has nothing to
\* ask, and one that times out does.  No user need ever answer.
Fairness ==
  /\ WF_vars(Prompting) /\ WF_vars(Tick)
  /\ \A c \in Conn : /\ WF_vars(ReadRequest(c))
                     /\ WF_vars(Due(c) /\ WriteAnswer(c))

FairSpec == Spec /\ Fairness

------------------------------------------------------------------------------
(* Properties. *)

\* An access is decided by the answer given for it or denied: a late answer is
\* never read as the answer to the next access (PromptRequest::ui_timeout_ms).
AnswersTheAccess ==
  \A n \in DOMAIN decided : decided[n] \subseteq {n}

\* No user is left looking at a dialog for an access that has been decided.
AsksWhatIsPending ==
  \A c \in Conn : \A q \in asking[c] : q.for = Access /\ phase # "idle"

\* The UI that was next to be accepted when the access was met is asked, whatever
\* became of the link held then: the access is not denied for want of a UI while
\* that one is still there (prompt_recovering re-accepts after a stale link).
NextUiIsUsed ==
  [][decided' # decided /\ link' = {} /\ waiting # <<>> =>
       ~(Head(waiting) \in Range(backlog) /\ Open(Head(waiting)))]_vars

\* From the moment it is met to its decision, the write included, an access waits at
\* most one timeout for each of its two attempts, and one more for each SIGHUP that
\* interrupts it; unless a write meets a socket the UI has left full, for which
\* server.rs sets no timeout.
WaitIsBounded ==
  stuck \/ waited <= PromptTimeout * (2 + (MaxSignals - signals))

\* A UI that honours its timeout leaves no request unread for the next write to wait
\* behind, however slow its user: with WaitIsBounded, the whole wait is bounded.
NeverStuck == ~stuck

\* Every access prompted for is decided: the event loop gets to the next one.
EveryPromptDecided == phase # "idle" ~> phase = "idle"
==============================================================================
