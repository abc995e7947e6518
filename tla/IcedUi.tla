-------------------------------- MODULE IcedUi --------------------------------
(***************************************************************************)
(* filewall-ui-iced, the UI process PromptLink describes by its promise.   *)
(* Its worker thread (worker.rs) owns the socket: it hands each request to *)
(* the GUI and waits for a decision, but no longer than the GUI's deadline *)
(* and a grace.  The GUI (main.rs) shows one prompt at a time and denies   *)
(* by itself at the deadline.  Two channels join them, and a decision does *)
(* not name the request it is for.                                         *)
(*                                                                         *)
(* The daemon's steps are those of PromptLink; what PromptLink calls asking *)
(* is here what the worker has read and not answered.                      *)
(***************************************************************************)
EXTENDS Naturals, FiniteSets, SequencesExt

CONSTANTS
  Conn, PromptTimeout, BufferSize, MaxAccess, MaxSignals,  \* as in PromptLink
  Stalls,      \* seconds theme::detect may hold the GUI; {} is for ever
  MaxEvents    \* bound: events of a window in one batch

ASSUME IcedTimeoutAssumption == PromptTimeout \in Nat \ {0}
ASSUME IcedBoundsAssumption ==
  BufferSize \in Nat \ {0} /\ {MaxAccess, MaxSignals} \subseteq Nat
ASSUME StallsAssumption ==
  \A s \in Stalls : s = {} \/ \E t \in s : t \in Nat /\ s = {t}
ASSUME EventsAssumption == MaxEvents \in Nat

VARIABLES
  phase, attempt, link, backlog, peer, requests, answers, wait, waited, stuck,
  signals, waiting, decided,  \* as in PromptLink
  at,         \* where each worker is
  serving,    \* the request it has read, and how long it still waits
  decision,   \* the decision it has to write
  prompts,    \* sent to the GUI, not handled yet
  decisions,  \* sent to the worker, not received yet
  pending,    \* the prompt the GUI shows, and how long it still does
  busy,       \* the prompt it is about to show, while the theme is looked up
  windows,    \* the windows open
  events,     \* what the user did in them, not handled yet
  stalled     \* history: a look-up took the grace or more

linkVars == <<phase, attempt, link, backlog, peer, requests, answers, wait, waited,
              stuck, signals, waiting, decided>>
workerVars == <<at, serving, decision>>
guiVars == <<pending, busy, windows, events, stalled>>
icedVars == <<workerVars, guiVars, prompts, decisions>>
vars == <<linkVars, icedVars>>

Asking ==
  [c \in Conn |-> {[for |-> r.for, left |-> {r.left}] : r \in serving[c]}]

PL == INSTANCE PromptLink WITH asking <- Asking, HonoursTimeout <- TRUE

\* What a decision is for is what the user saw, and none of it is in the code's
\* value.
Decision == [for : SUBSET Nat, allow : BOOLEAN]
Deny(shown) == [for |-> shown, allow |-> FALSE]

AtMostOne(S) == \A x, y \in S : x = y

TypeOK ==
  /\ at \in [Conn -> {"read", "send", "recv", "write"}]
  /\ \A c \in Conn :
       /\ serving[c] = {} <=> at[c] = "read"
       /\ decision[c] = {} <=> at[c] # "write"
       /\ \A r \in serving[c] : r.for \in Nat /\ r.left \in 0 .. PL!UiTimeout + PL!Grace
       /\ \A p \in pending[c] : p.for \in Nat /\ p.left \in 0 .. PL!UiTimeout
       /\ \A d \in decision[c] \cup Range(decisions[c]) \cup Range(events[c]) : d \in Decision
       /\ AtMostOne(serving[c]) /\ AtMostOne(decision[c])
       /\ AtMostOne(pending[c]) /\ AtMostOne(busy[c]) /\ (pending[c] = {} \/ busy[c] = {})
       /\ prompts[c] \in Seq(Nat)
       /\ Len(events[c]) <= MaxEvents /\ windows[c] \in Nat /\ stalled[c] \in BOOLEAN

Init ==
  /\ at = [c \in Conn |-> "read"] /\ windows = [c \in Conn |-> 0]
  /\ serving = [c \in Conn |-> {}] /\ decision = [c \in Conn |-> {}]
  /\ prompts = [c \in Conn |-> <<>>] /\ decisions = [c \in Conn |-> <<>>]
  /\ pending = [c \in Conn |-> {}] /\ busy = [c \in Conn |-> {}]
  /\ events = [c \in Conn |-> <<>>] /\ stalled = [c \in Conn |-> FALSE]
  /\ PL!Init

------------------------------------------------------------------------------
(* worker.rs: serve and resolve *)

ReadRequest(c) ==
  /\ PL!Open(c) /\ at[c] = "read" /\ requests[c] # <<>>
  /\ requests' = [requests EXCEPT ![c] = Tail(@)]
  /\ serving' = [serving EXCEPT ![c] =
                  {[for |-> Head(requests[c]), left |-> PL!UiTimeout + PL!Grace]}]
  /\ at' = [at EXCEPT ![c] = "send"]
  /\ UNCHANGED <<phase, attempt, link, backlog, peer, answers, wait, waited, stuck,
                 signals, waiting, decided, decision, guiVars, prompts, decisions>>

\* Stale decisions are drained before the GUI hears of the request.
Send(c) ==
  /\ at[c] = "send"
  /\ decisions' = [decisions EXCEPT ![c] = <<>>]
  /\ \E r \in serving[c] : prompts' = [prompts EXCEPT ![c] = Append(@, r.for)]
  /\ at' = [at EXCEPT ![c] = "recv"]
  /\ UNCHANGED <<linkVars, serving, decision, guiVars>>

\* Fault: recv without a timeout.
NeverExpired(c) == FALSE

Expired(c) == \E r \in serving[c] : r.left = 0

\* Fault: only the GUI decides.
ReceiveFromGui(c) ==
  /\ at[c] = "recv" /\ decisions[c] # <<>>
  /\ decision' = [decision EXCEPT ![c] = {Head(decisions[c])}]
  /\ decisions' = [decisions EXCEPT ![c] = Tail(@)]
  /\ at' = [at EXCEPT ![c] = "write"]
  /\ UNCHANGED <<linkVars, serving, guiVars, prompts>>

\* recv_timeout returns what the GUI decided, or denies.
Receive(c) ==
  /\ at[c] = "recv"
  /\ \/ decisions[c] # <<>> /\ decision' = [decision EXCEPT ![c] = {Head(decisions[c])}]
        /\ decisions' = [decisions EXCEPT ![c] = Tail(@)]
     \/ decisions[c] = <<>> /\ Expired(c) /\ UNCHANGED decisions
        /\ decision' = [decision EXCEPT ![c] = {Deny({r.for : r \in serving[c]})}]
  /\ at' = [at EXCEPT ![c] = "write"]
  /\ UNCHANGED <<linkVars, serving, guiVars, prompts>>

WriteAnswer(c) ==
  /\ at[c] = "write"
  /\ \E r \in serving[c] : answers' = [answers EXCEPT ![c] = Append(@, r.for)]
  /\ serving' = [serving EXCEPT ![c] = {}]
  /\ decision' = [decision EXCEPT ![c] = {}]
  /\ at' = [at EXCEPT ![c] = "read"]
  /\ UNCHANGED <<phase, attempt, link, backlog, peer, requests, wait, waited, stuck,
                 signals, waiting, decided, guiVars, prompts, decisions>>

\* The process ends: killed, or iced has lost its display.
Close(c) ==
  /\ PL!Open(c)
  /\ peer' = [peer EXCEPT ![c] = "closed"]
  /\ requests' = [requests EXCEPT ![c] = <<>>]
  /\ at' = [at EXCEPT ![c] = "read"] /\ serving' = [serving EXCEPT ![c] = {}]
  /\ decision' = [decision EXCEPT ![c] = {}]
  /\ prompts' = [prompts EXCEPT ![c] = <<>>] /\ decisions' = [decisions EXCEPT ![c] = <<>>]
  /\ pending' = [pending EXCEPT ![c] = {}] /\ busy' = [busy EXCEPT ![c] = {}]
  /\ windows' = [windows EXCEPT ![c] = 0] /\ events' = [events EXCEPT ![c] = <<>>]
  /\ UNCHANGED <<phase, attempt, link, backlog, answers, wait, waited, stuck, signals,
                 waiting, decided, stalled>>

------------------------------------------------------------------------------
(* main.rs: App::update handles one message at a time *)

Shown(c) == {p.for : p \in pending[c]} \cup UNION {b.shown : b \in busy[c]}

\* Fault: every decision is sent.
ResolveAgain(c, d) ==
  /\ decisions' = [decisions EXCEPT ![c] = Append(@, d)]
  /\ pending' = [pending EXCEPT ![c] = {}]

\* At most one decision per prompt.
Resolve(c, d) ==
  /\ decisions' = [decisions EXCEPT ![c] = IF pending[c] = {} THEN @ ELSE Append(@, d)]
  /\ pending' = [pending EXCEPT ![c] = {}]

\* Fault: the task that closes it is dropped here too.
LeaveWindow(c) == UNCHANGED windows

CloseWindow(c) == windows' = [windows EXCEPT ![c] = @ - Cardinality(pending[c])]

\* Fault: a prompt still shown stays until the next is.
PromptBeside(c) ==
  /\ busy[c] = {} /\ events[c] = <<>> /\ prompts[c] # <<>>
  /\ prompts' = [prompts EXCEPT ![c] = Tail(@)]
  /\ \E s \in Stalls :
       /\ busy' = [busy EXCEPT ![c] =
                    {[for |-> Head(prompts[c]), left |-> s, shown |-> Shown(c)]}]
       /\ stalled' = [stalled EXCEPT ![c] = @ \/ \A t \in s : t >= PL!Grace]
  /\ UNCHANGED <<linkVars, workerVars, pending, windows, events, decisions>>

\* Message::Prompt: a prompt still shown is denied first, and its window is left
\* open (the task that closes it is dropped).  A window's events come before.
Prompt(c) ==
  /\ busy[c] = {} /\ events[c] = <<>> /\ prompts[c] # <<>>
  /\ prompts' = [prompts EXCEPT ![c] = Tail(@)]
  /\ Resolve(c, Deny(Shown(c)))
  /\ \E s \in Stalls :
       /\ busy' = [busy EXCEPT ![c] =
                    {[for |-> Head(prompts[c]), left |-> s, shown |-> Shown(c)]}]
       /\ stalled' = [stalled EXCEPT ![c] = @ \/ \A t \in s : t >= PL!Grace]
  /\ UNCHANGED <<linkVars, workerVars, windows, events>>

\* The theme is known: the deadline is set, a window opened.
Show(c) ==
  /\ \E b \in busy[c] :
       /\ b.left = {0}
       /\ pending' = [pending EXCEPT ![c] = {[for |-> b.for, left |-> PL!UiTimeout]}]
  /\ busy' = [busy EXCEPT ![c] = {}]
  /\ windows' = [windows EXCEPT ![c] = @ + 1]
  /\ UNCHANGED <<linkVars, workerVars, events, stalled, prompts, decisions>>

\* A button, Escape, Enter or the close button of a window that shows a prompt; an
\* empty window has no buttons.  The GUI takes a window's events a batch at a time.
User(c) ==
  /\ windows[c] > 0 /\ events[c] = <<>>
  /\ \E allows \in BoundedSeq(IF Shown(c) = {} THEN {FALSE} ELSE BOOLEAN, MaxEvents) \ {<<>>} :
       events' = [events EXCEPT ![c] =
                   [i \in DOMAIN allows |-> [for |-> Shown(c), allow |-> allows[i]]]]
  /\ UNCHANGED <<linkVars, workerVars, pending, busy, windows, stalled, prompts, decisions>>

\* Message::Decide and Message::Deny.
Decide(c) ==
  /\ busy[c] = {} /\ events[c] # <<>>
  /\ Resolve(c, Head(events[c])) /\ CloseWindow(c)
  /\ events' = [events EXCEPT ![c] = Tail(@)]
  /\ UNCHANGED <<linkVars, workerVars, busy, stalled, prompts>>

\* Message::Tick at the deadline.
Expire(c) ==
  /\ busy[c] = {} /\ \E p \in pending[c] : p.left = 0
  /\ Resolve(c, Deny(Shown(c))) /\ CloseWindow(c)
  /\ UNCHANGED <<linkVars, workerVars, busy, events, stalled, prompts>>

------------------------------------------------------------------------------
(* Time passes once neither the daemon nor the UI has anything to do at once. *)

WorkerWaits(c) ==
  \/ at[c] = "read" /\ requests[c] = <<>>
  \/ at[c] = "recv" /\ decisions[c] = <<>> /\ ~Expired(c)

GuiWaits(c) ==
  IF busy[c] # {} THEN \A b \in busy[c] : b.left # {0}
  ELSE /\ prompts[c] = <<>> /\ events[c] = <<>>
       /\ \A p \in pending[c] : p.left > 0

Tick ==
  /\ PL!DaemonWaits /\ \A c \in Conn : PL!Open(c) => WorkerWaits(c) /\ GuiWaits(c)
  /\ PL!DaemonClock
  /\ serving' = [c \in Conn |-> {[r EXCEPT !.left = @ - 1] : r \in serving[c]}]
  /\ pending' = [c \in Conn |-> {[p EXCEPT !.left = @ - 1] : p \in pending[c]}]
  /\ busy' = [c \in Conn |->
               {[b EXCEPT !.left = {t - 1 : t \in @}] : b \in busy[c]}]
  /\ UNCHANGED <<phase, attempt, link, backlog, peer, requests, answers, signals, waiting,
                 decided, at, decision, windows, events, stalled, prompts, decisions>>

------------------------------------------------------------------------------
Worker(c) == ReadRequest(c) \/ Send(c) \/ Receive(c) \/ WriteAnswer(c)

Gui(c) == Prompt(c) \/ Show(c) \/ Decide(c) \/ Expire(c)

\* The steps of PromptLink that are not the UI's.
Daemon ==
  /\ UNCHANGED icedVars
  /\ PL!NewPrompt \/ PL!Prompting \/ PL!Interrupt \/ \E c \in Conn : PL!Connect(c)

Next ==
  \/ Daemon \/ Tick
  \/ \E c \in Conn : Worker(c) \/ Gui(c) \/ User(c) \/ Close(c)

Spec == Init /\ [][Next]_vars

\* Threads run; however many keys the user presses, time passes and the GUI gets to
\* the prompt behind them.  No user need ever answer, and no GUI need ever come out of
\* a look-up.
FairSpec ==
  /\ Spec
  /\ WF_vars(UNCHANGED icedVars /\ PL!Prompting) /\ SF_vars(Tick)
  /\ \A c \in Conn : WF_vars(Worker(c)) /\ WF_vars(Gui(c)) /\ SF_vars(Prompt(c))

------------------------------------------------------------------------------
(* Properties. *)

\* What the worker answers for a request is what the user decided, or the clock,
\* of that very request, unless a look-up of the theme took the grace or more
\* (resolve of main.rs and of worker.rs: no stray decision is mis-read as the
\* answer to the next request).
DecisionsAreTheirOwn ==
  \A c \in Conn : \A d \in decision[c] :
    stalled[c] \/ d.for = {r.for : r \in serving[c]}

\* Under the same condition a window is open only for the access the daemon is
\* waiting to have decided, and there is one.
WindowsArePending ==
  \A c \in Conn :
    \/ stalled[c]
    \/ /\ windows[c] = Cardinality(pending[c])
       /\ \A p \in pending[c] : p.for = PL!Access /\ phase # "idle"

\* Whatever its GUI does, the process keeps the promise that PromptLink makes for
\* it: one answer to each request it reads, by ui_timeout_ms and the grace.
ImplementsPromptLink == PL!Spec

\* Every access prompted for is decided, even by a UI whose GUI hangs for ever: the
\* backstop of the worker answers.
EveryPromptDecided == PL!EveryPromptDecided
==============================================================================
