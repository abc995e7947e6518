# filewall in TLA+

filewall puts an interactive prompt between a program and the files a user
cares about. A root daemon (`filewalld`) has the kernel hold every open of a
watched file until it has decided - from `config.toml`, from learned rules in
`rules.toml`, or by asking the user through a UI process. This directory holds
its specification: TLA+ modules translated from the Rust source, TLC
configurations that check small instances of them, and TLAPS proofs.

`PROJECT.json` maps each definition to the lines it translates and lists the
runs, the mutants, the findings, the hazards and the theorems.

## 1. Inventory

| Part | State | Operations | Talks to |
|---|---|---|---|
| learned rules, `filewall-rules` | `next_id`, a Vec of rules | `load`, `save_atomic`, `push`, `backfill_ids`, `evaluate`; `remove_ids` in filewallctl | rules.toml |
| copies of the two files, `filewalld/src/main.rs`, `watcher.rs`, `filewallctl` | rules in the daemon and in each filewallctl, `RELOAD`, the inotify queue, the pidfile | start-up, reload, learn and save, `remove`, `reload`, operator edits | signals, inotify, the file system |
| prompt link, `server.rs`, `filewall-proto` | the held link, the listen backlog, two byte streams, the read timeout | `prompt_recovering`, `try_accept`, `UiLink::prompt` | one UI process at a time |
| UIs, `filewall-ui` (yad), `filewall-ui-iced` (worker thread and GUI) | a connection, the request being asked, the GUI's queue and timers | `connect_forever`, `serve`, `resolve`, `update` | the prompt link |
| policy, `policy.rs`, `config.rs` | watches: root, globs, default action, what to learn | `evaluate`, `combine`, `always_target`, `learned_rule` | the event loop |
| marks, `main.rs`, `treewatch.rs`, `markset.rs`, `fanotify.rs` | marks in the kernel, their record, inotify watches on directories | `mark_all`, `TreeWatch::build`, `on_ready`, `build_dump` | the kernel |
| event loop, `main.rs` | events read, the policy, the rules, the marks | poll, reload, judge, prompt, respond | everything above |
| control socket, `control.rs` | nothing between requests | `handle_ready` | `filewallctl dump` |
| `filewallctl list`, `status`, `dump`, formats; GUI theme; packaging | none | - | - |

What is hard:

* One thread answers every open and also reloads, prompts, learns and opens
  files of its own, so whatever blocks it blocks every program that opens a
  watched file.
* A response on the prompt link names no request. That it answers the right one
  rests on two clocks, in two processes.
* rules.toml is loaded, changed and written back whole by several processes,
  without a lock.
* `RELOAD` is one bit set by a signal handler and by a thread, read by another.
* The marks are a snapshot of a directory tree that goes on changing; what follows
  it is inotify, by paths that renames make stale, with a queue that overflows.
* The iced UI is two threads with a channel each way, and a decision on its way
  back does not say which request it is for.

What makes each part right: an id names one rule and a rule on disk stays there
(rules); every change comes to be enforced (copies); an access is decided by its
own answer, within a bound (link), whatever the UI's own threads do (UIs);
"Always" does what the dialog said (policy); what is guarded is reported or its
failed mark is listed, and a gap is one the daemon knows of (marks); every open is
answered once, by what was loaded after the last change the daemon was told of
unless that could not be loaded, and no client of the control socket keeps the loop
from it (loop).

## 2. Modules

| Module | Models | Extends |
|---|---|---|
| `Rules` | `filewall-rules/src/lib.rs` and `remove_ids`: operators only | - |
| `Ledger` | what rules.toml is to its readers while one process writes it (abstract) | - |
| `RuleStore` | the processes that copy rules.toml and config.toml | `Rules`, instantiates `Ledger` |
| `PromptLink` | `prompt_recovering` and a UI process, with time | - |
| `Policy` | `policy.rs`, the scope checks and the prompt's scope of `main.rs` | `Rules` |
| `Marks` | `scan_watch`, `walk_dirs`, `mark_all` over a fixed tree | `Policy` |
| `EventLoop` | `event_loop` with policy, rules and marks composed, and its control socket | `Marks` |
| `TreeWatch` | `mark_all`, `treewatch.rs` and `markset.rs` over a tree that changes | `Policy`, instantiates `Marks` |
| `IcedUi` | worker and GUI of `filewall-ui-iced`, against the daemon of `PromptLink` | instantiates `PromptLink` |
| `MCRuleStore`, `MCPromptLink`, `MCEventLoop`, `MCTreeWatch` | instances for TLC | the four systems |
| `RulesProofs`, `RuleStoreProofs`, `PromptLinkProofs`, `IcedUiProofs` | theorems | `Rules`, `RuleStore`, `PromptLink`, `IcedUi` |
| `PolicyProofs` | what the operators of a decision do | `Marks`, `RulesProofs` |
| `EventLoopProofs` | theorems | `EventLoop`, `PolicyProofs` |
| `TreeWatchTypeProofs` | types of `TreeWatch`, lemmas on paths, watches and single steps | `TreeWatch`, `RulesProofs` |
| `TreeWatchProofs` | what is marked, and why a gap is known | `TreeWatchTypeProofs` |

An operator or action preceded by `Fault:` is not part of any specification: it
is a plausible mistake in the definition after it, used to see that a property
notices.

**Rules.** The Vec is a function from slots to rules, in the order of the slots;
removing a rule leaves a gap, which no operation of the code can tell. A file is
`<<store>>` or `<<>>` when it is missing or does not parse, which `Rules::load`
treats alike.

**Ledger.** A set of rules that grows, each new one with an id above all that were
there. `ImplementsLedger` maps it to the rules on disk (none, while the file is
missing or cannot be read).

**RuleStore.** `dpc` is where the daemon's main thread is between two steps that
another process can observe: `spawn_watcher`, `load_rules`, `signal`,
`write_pidfile` during start-up, then `loop`, `load_config`, `reload_rules` and
`save`. `inotify` is the watcher's queue (one bit: what is queued does not
matter, only that something is), `reload` the atomic. A filewallctl goes through
`loaded` and `signal`. `save_atomic` is one step: only its rename is visible to
others, and a failure leaves the old file. `seen` and `revoked` are histories:
the rules any reader of the file has been shown, and those filewallctl has
reported as removed; an operator who replaces the file starts both afresh.

**PromptLink.** `phase`, `attempt` and `link` follow `prompt_recovering`;
`backlog` is the listener's queue; `requests` and `answers` are the two
directions of each connection. Accesses are numbered, and an answer carries the
number of the access the user saw, which is what the real message lacks:
`decided` records which number decided which access. Time is in seconds and
passes (`Tick`) only when neither side can act at once; `waited` counts all of an
access's wait, in the write as in the read, and `stuck` is a history of whether some
of it was in the write, which takes time only when the socket is full. The UI is the
promise of
`worker.rs` (`HonoursTimeout`: it answers within `ui_timeout_ms` and the grace) or
the absence of one (yad).

**Policy, Marks.** A path is its sequence of components, a glob a sequence of sets
of names with `AnyDepth` for `**`. The tree of directories and files is constant.
`Attempts` are the calls that `mark_all` makes, one for each watch and path; any of
them may fail, `Placed` is what the others mark, and `RecordedFailed` the paths whose
entry in the `MarkSet` says `ok: false`, which is the outcome of the last call for a
path that two watches share.

**EventLoop.** One iteration is `poll`, `reload`, (`load_config`, `load_rules`),
then `judge` for each event, through `prompt`, `save` and `respond` as it takes.
`opens` are the processes the kernel holds, `queue` and `batch` their events.
`own` is an open the daemon itself makes of one of its two files, which is an
event like any other when a mark covers it. How a prompt ends is left to
PromptLink, how rules.toml is shared to RuleStore. `version`, `notified`, `loaded`
and `refused` are histories that date the changes of the two files: `loaded` is
advanced only by a reload that loads, `refused` by one that finds config.toml broken
and keeps the older policy and rules. `PlaceMarks` is `mark_all`, at the start and at
every reload: it adds to the `marks` of the kernel and replaces `failed`, what the
record says could not be marked. Between `poll` and
`reload` one waiting `client` of the control socket is served (`control`, or
`control_read` when the poll reported events as well, which are read after it).
Serving returns, for the socket has timeouts; what it answers is TreeWatch's.

**TreeWatch.** `tree` gives the directory at each path; a mark (`marked`) and an
inotify watch (`watched`) belong to the directory and follow it through renames,
while the daemon's own knowledge - `wd_map`, `record`, what a walk has `found` -
is by path. `pc` is `mark_all`, then `build` (a new instance: the old one's
`queue` and `watched` are gone), `poll`, `live` for `on_ready`, `reload`. One step
is one `read_dir` with its stats, one mark with its watch, or the reading of all
queued events; other programs create, remove and rename directories between any
two. A mark or a watch can fail, alone or together. The order within a walk is
any. `unseen` and `lost` are histories: the directories whose arrival nothing
announces, and an overflow that no re-mark has followed. What a re-mark of the
present tree would mark is `Marks` instantiated with that tree, so that the two
modules share one definition of what a policy asks for. Left out: `IN_IGNORED`,
the merging of equal events, symbolic links, watches on single files (`Marks`).

**IcedUi.** The daemon's actions are PromptLink's own, with `asking` given by what
the worker has read and not answered; the UI's are replaced by the worker's
(`ReadRequest`, `Send`, `Receive`, `WriteAnswer`) and the GUI's (`Prompt`, `Show`,
`Decide`, `Expire`), with `prompts` and `decisions` the channels between them. The
value of a decision carries what the user was looking at, which the code's does
not. `Prompt` calls `theme::detect`, a blocking D-Bus call, in the middle of
`update`: `Stalls` is how long it may take. Assumed of iced: the events of a
window are handled, a batch at a time, before a later message of the worker; a
closed window yields none. The 250 ms period of the GUI's clock counts as none.
Left out: the demo mode, `fallback_ms` (for a daemon that sends no
`ui_timeout_ms`), reconnects (the daemon does not close a live link).

## 3. Runs

All runs use 2 workers. "Holds" runs finish with no error; "violated" runs end in
a counterexample to a statement the repository makes, recorded under `findings`.

| Run | Question | Result |
|---|---|---|
| `rule_store_daemon` | does the daemon alone keep what it learned, and ids apart, over crashes, failed saves, a broken config, files without ids? is the file a `Ledger`? | holds |
| `rule_store_shared` | with filewallctl and an operator: are copies well formed, is no change missed, are the rules on disk enforced in the end? | holds |
| `rule_store_revoked` | does a rule stay away once filewallctl has removed it? | violated: the daemon saves its older copy |
| `prompt_link` | over two restarts of the UI: is each access decided by its own answer, is the next UI asked before an access is denied for want of one, does no write meet a full socket, is every prompt decided? | holds |
| `prompt_link_silent` | how long can one access wait, with a UI that leaves requests unread? | holds: a timeout per attempt and per signal, unless its write meets a full socket |
| `prompt_link_short` | is each access decided by its own answer with `prompt_timeout_seconds = 2`? | violated: the clamp gives the UI as long as the daemon |
| `prompt_link_full` | is every prompt decided if the UI stops reading? | violated: the write has no timeout |
| `event_loop` | is every open held once, judged by what was loaded after the last notified change (if it could be loaded), answered? does "Always" do what it said, and last? with marks that fail, is what is guarded reported, or recorded as a failed mark? | holds |
| `tree_watch` | while directories come, go and move, calls fail and inotify overflows: is what is not marked a known gap, is nothing else marked, does the daemon catch up? | holds |
| `iced_ui` | is the iced UI the UI that `prompt_link` assumes, with a GUI that may hang? is each decision for its own request? | holds; the second unless the GUI stalls for the grace |
| `event_loop_shadow` | does each watch guard its tree? | violated: an earlier watch decides alone |
| `event_loop_own_files` | is every open answered if the daemon's own files are watched? | violated: the daemon waits for itself |

**Also met.** Other ways in which code and documents differ, seen while modelling
and left without a run of their own:

* The lost update of `rule_store_revoked` also loses rules: with `Ctl = {c1}` in
  `RuleStoreDaemon.cfg`, TLC refutes `LearnedStays` (filewallctl writes back a
  file it read before the daemon learned) and `IdNamesOneRule` (both allocate
  from the same `next_id`).
* `FreshVerdicts` needs its exception: while config.toml is broken, a change of
  rules.toml is not applied either (`main.rs:337-339` return before `Rules::load`),
  so a rule that `filewallctl remove` has revoked, "then auto-reloads the daemon"
  (`README.md:200`), goes on deciding until the config is repaired.
* A config edit between `Config::load` and the start of the watcher thread is not
  noticed until the next change or SIGHUP.
* A yad dialog has no deadline, so its answer can decide a later access, as in
  `prompt_link_short`, whatever the timeout (set `HonoursTimeout = FALSE` and
  `PromptTimeout = 5` there).
* An access is retried once, so with two dead connections ahead of a live UI it is
  denied, and when the first link dies late it waits for nearly two timeouts,
  where `README.md` speaks of no answer within `prompt_timeout_seconds`.
  `NextUiIsUsed` and `WaitIsBounded` state what the code does give. `WaitIsBounded`
  excepts a write that meets a full socket, where `prompt_link_full` shows a wait
  without end.
* If `theme::detect` holds the GUI for the 2 s of the worker's grace or more, a
  decision about the previous prompt can reach the worker after it has drained the
  channel, and answers the next request: drop `stalled[c]` from
  `DecisionsAreTheirOwn` and TLC shows it, with an allow. The comments at
  `filewall-ui-iced/src/main.rs:157-160` and `worker.rs:100-102` exclude that.
* `let _ = self.resolve(..)` (`filewall-ui-iced/src/main.rs:182`) drops the task
  that would close the replaced prompt's window; the window stays, without a prompt.
* Directories created between the walk of `mark_all` and the `add_watch` of their
  parent, and those whose events a rebuild drops, stay unmarked until the next
  reload (`unseen`; `docs/fanotify-notes.md:23` speaks of the time before an
  `IN_CREATE` is processed only). When the reload that an overflow asks for meets a
  broken config.toml, the re-mark is not made up for (`lost`).
* `wd_map` keeps the entries of removed directories, so a dump can show a new
  directory at such a path as live-marked (last disjunct of `Known`) where
  `README.md:240` and `filewall-proto/src/lib.rs:74-77` speak of a watch it has; and
  paths that a rename has taken away are recorded as failed marks. An exclude that a
  reload adds removes no mark.
* An event is decided about by the first watch that covers the new directory, also
  when that one is shallow and the inotify watch was another's: the directory is
  then marked on behalf of the shallow watch, which `treewatch.rs:64-66` excludes.
* `GapsAreKnown` fails for overlapping watches that do not agree, and the proof of
  it shows where they must: a recursive watch rooted in a tree that another prunes
  is marked at start-up, but the pruning watch decides about new directories there;
  a shallow watch listed after the recursive one it lies in overwrites the
  `recursive` of its root's record, so that a watch that could not be added is not
  reported; and a new directory that a shallow watch decides about is walked in
  depth. `WatchesAgree` names what excludes these.
* `CONTROL_IO_TIMEOUT` (`control.rs:19-21`: "so a hung `filewallctl` can never stall
  the security event loop") bounds each read, not the request: it starts again with
  every piece that arrives.
* A learned allow does not override `default_action = "deny"`
  (`policy::combine`); the design of 2026-06-13 (lines 108-109) puts any matching
  allow before `default_action`.

**Bounds.** Inputs (learning, edits, crashes, failed saves, filewallctl calls,
opens, signals) are counted down from constants, so that the state spaces are
finite; nothing else is bounded. Two rules with different programs are enough for
an id to name two rules and for one writer to undo another; one filewallctl is
enough to race the daemon, and two of its calls to race itself. The initial files
are a missing one, one without ids, one with a gap and one whose `next_id` lags.
Three connections are a UI that is restarted twice: one held, one dead in the
backlog, one alive behind it, which is where the single retry ends. Three
accesses are enough for an answer to slip to the next one and the one after.
`BufferSize` stands for the requests a socket buffer holds; one or two make the
full buffer happen within three accesses, in `prompt_link_silent` too, where `stuck`
is reached. `waited` stops one second past `LongestWait`, the most `WaitIsBounded`
allows. The prompt timeouts are the smallest
that behave differently: 5 is the shortest for which a UI that honours its
deadline (2 s, and 2 s of grace) is safe, 2 is the clamp. In `EventLoop` two
openers and a batch of one make events wait in the kernel, in the batch and
behind a prompt; one edit, one failed save and one crash meet each of these.
`MaxMarkFails` bounds the calls of `mark_all` that meet a failure, not the marks that
fail in one: it is one, with any subset of its marks, at the start, at a restart, or
at a reload that needs a mark the kernel does not have yet and that two watches ask
for. In the other runs of `EventLoop` none fails.

The tree in `MCEventLoop` has a shallow and a deep watch, a tree-scoped and a
file-scoped one, an exclude, a root that does not exist and the daemon's own
directory. Clients of the control socket are not counted: they may come for ever.
`TreeWatch` has five directories and seven paths: a watched tree that excludes a
name, two levels below it, and a tree beside it to move things from and to; two
renames, removals, reload requests or failed calls, since each known kind of gap
takes one and the combinations of two are where a recovery is itself disturbed;
and a queue of one event, so that a second one overflows it. Creations are bounded
by the directories. `IcedUi` has a UI that is restarted once, two accesses, stalls
from none to longer than the grace and for ever, and two events of a window in one
batch, for the second to find its prompt resolved.

**Deadlock** is checked of `tree_watch` only. When the inputs are spent, the other
systems may come to rest (a daemon whose config is broken stays down; an idle link
waits).

**Fairness.** Weak fairness, and only of steps a scheduler or the kernel owes:
the daemon's thread and the watcher thread (both loops without a condition of
their own), the restart of the daemon (`Restart=on-failure` in its unit), the
passing of time, a UI that reads when it has nothing to ask, and a UI that honours
its deadline once it is due. No user need ever answer, no UI need ever connect,
no filewallctl need ever finish. In `TreeWatch` the daemon's thread runs, and no
program need ever change the tree. In `IcedUi` the worker and the GUI run, no
look-up of the theme need ever return, and two steps are strongly fair, since
others disable them again and again while the user goes on pressing keys: time,
and the GUI's handling of the prompt that is queued behind them (iced hands out
messages and events in turn). In `EventLoop` a prompt is assumed to return:
`EveryPromptDecided` is that assumption, checked of PromptLink - where it holds
for a UI that keeps reading and not for one that does not (`prompt_link_full`).

## 4. Theorems

Proved by TLAPS for every value of the constants that satisfies the modules'
assumptions.

* `RulesProofs`: `push`, `backfill_ids`, `load` and `remove_ids` keep a store well
  formed (`GoodStore`: typed, ids distinct, stamped and below `next_id`).
  `BackfillIdsGood` is the substantial one: the rank of an unstamped rule among
  the unstamped is injective and below their number, so the new ids are distinct
  and above all old ones.
* `RuleStoreProofs`: `TypeCorrect` and `StoresStayWellFormed`. Well-formedness of
  the copies in memory is not inductive by itself: a reload reads the file, and
  the file is written from any copy. `IInv` therefore says that every copy is a
  `GoodStore` and the file either unreadable or typed with distinct ids, and that
  the histories hold learned rules. Assumed: rules that can be learned carry id
  0, the files an operator leaves have no clashing ids.

  `ReloadsAreKept` and `SighupsAreHandled` share `ReloadInv`, which needs none of
  this. What the daemon has not read is queued in inotify, in the watcher's hands or
  flagged already before the loop begins, since the watcher is started before the
  rules are first loaded; and `reload` is cleared before the files are read again,
  so that an edit after the reading is pending once more.

  `DaemonKeepsLedger`, `LearnedRulesStay` and `IdsNameOneRule` are about the daemon
  as the only writer (`SingleWriter`: no filewallctl, no edits of rules.toml;
  crashes, failed saves, reloads and edits of config.toml remain). The code keeps
  none of the three with a second writer, as "Also met" says. `LedgerInv`: the rules
  in memory are those on disk and, with ids above all of these, those whose save
  failed; an unreadable file holds no rules, and as nobody replaces it, none is lost
  in it. That `BackfillIds` changes nothing of a stamped store is the lemma that
  carries a reload.
* `PromptLinkProofs`: `LinkTypeCorrect` for every timeout and UI; `AnswersMatch`
  and `DialogsArePending` for `HonoursTimeout` and `PromptTimeout >= 5`.
  `AnswersTheAccess` alone says nothing of what is on its way. `IInv` adds
  `Channel`: each connection is silent, or is the held link during `read` and
  carries exactly one message of the current access - its request, its dialog,
  or its answer - and a dialog has less time left than the daemon's wait.
  `AnswersInTime` is the arithmetic: for a timeout of at least 5 the UI's
  deadline and grace end before the daemon's timeout.

  `WaitIsTwoTimeouts` needs none of this and holds for every UI and timeout:
  `WaitInv` sets the wait that is left aside beforehand, `waited + wait` is at
  most the timeouts of the attempts and interrupts so far, and time that passes in
  the read only moves seconds from one to the other. Time that passes in the write
  sets `stuck` and is what the theorem excepts. `WritesDoNotBlock` says when the
  exception is empty: for `HonoursTimeout` and `PromptTimeout >= 5`. By `Channel` a
  connection is silent when a request is about to be written to it, and a live link
  in the write is one of those (`Linked`), so its socket has room. For a UI that
  honours its timeout the two together bound the whole wait.

  `NextUiIsAsked` holds for every UI and timeout too. It is an action property: the
  step that denies an access for want of a UI is not one that leaves the UI that was
  first in line when the prompt began alive in the backlog. `LineInv` says that the
  line only moves: that UI is either the head of the backlog or was accepted, and on
  the second attempt with a link it was accepted. The backlog has no connection
  twice, so one that was accepted is not there again.

* `IcedUiProofs`: `ImplementsLink`, the refinement, for every timeout, queue and
  GUI: `WInv` says only that the worker serves at most one request, when it is past
  reading, and that what is left of its wait is within the deadline and the grace;
  each step of the UI then is a step of PromptLink's UI or a stutter. `OwnDecisions`
  needs the GUI. Its invariant dates everything: while the GUI has not stalled, the
  deadline of what it shows ends before the worker's wait for the same request, what
  is in `decisions` is for the request being served or will be drained, and what is
  queued as `events` is about the window shown. `CalmTick` is where the grace is
  used. `UiTypeCorrect` is for every timeout and GUI: `UiInv` adds to the types that
  a process has at most one request, prompt, look-up and decision in hand, a window
  for the prompt it shows, and nothing once it is gone.

  `WindowsAreForThePending` joins both halves: while a GUI has not stalled, each of
  its windows is for the access the daemon is waiting to have decided. It holds for
  `PromptTimeout >= 5`; below, the daemon gives up first. Besides the GUI's deadline
  (`CalmInv`) it takes `ChannelInv`, the counterpart of PromptLink's `Channel` for a
  UI of two threads: a connection is silent, or it is the held link and carries the
  current access once, as request, in the worker's hands, or as answer. `tlapm` does not
  take a theorem over from a module that is instantiated, so the facts about the
  link that are needed are proved again here, for the instance.
* `PolicyProofs` is about one decision. `AlwaysDecides`: with the rule of an
  "Always" pushed, an access within the scope shown that would have been prompted
  for is decided as the user said, a denied one stays denied, and no other verdict
  changes - for every policy and every well-formed store, through the stamping of
  the id and deny-wins. `GuardedIsMarked`: for every tree and every set of globs,
  each file that a policy guards is a marked file or in a marked directory; the case
  of a shallow watch is that a glob without `**` and of one component matches only
  children of the root.
* `EventLoopProofs`: everything the run checks but liveness - `LoopTypeCorrect`,
  `OpensAreHeld`, `VerdictsAreFresh`, `SettledLasts`, `GuardsAreReported` and
  `AlwaysIsAsShown` - from one invariant, `IInv`, in eight parts. `Held`: each
  blocked open is in the queue or the batch, once, and nothing is read while a batch
  is unfinished. `Dated`: what was notified is flagged, or the daemon has looked at
  the files since (`Seen`: it loaded them, or was refused by a broken config), and
  once the flag has been looked at, so it is of what the batch needs; this is what
  clearing `RELOAD` between `read_ready` and the first decision is for. `Marked`: what
  the policy asks to be marked is in `marks` or in `failed`, after whichever
  `mark_all`; a reload never loses a mark, and its record has every path it tried. `Settled`: the rules on disk,
  loaded again, decide whatever was settled, and those in memory too; it needs that
  `backfill_ids` changes no match. `Prompted`: a prompt is about a covered path, or
  the "Always" would have nothing to persist. Assumed: a file's parent and the
  prefixes of its path that are paths are directories, the files an operator leaves
  have no clashing ids.

* `TreeWatchTypeProofs` and `TreeWatchProofs`: `TreeTypeCorrect` for every tree,
  policy and queue size. `OnlyWatchedIsMarked` and `GapsAreExplained` assume
  `PoliciesAgree`: where two watches of a policy overlap, a directory that one
  follows is followed by the other, and a watch rooted in the tree of a recursive one
  is recursive and does not exclude its own root. Policies whose watches do not
  overlap satisfy it (`DisjointWatchesAgree`), so do nested recursive ones with the
  same excludes, none of which prunes the inner root, and TLC evaluates it for those of `MCTreeWatch`. Without it the code leaves gaps it
  does not know of (see "Also met").

  `OnlyWatchedIsMarked` rests on `PInv`: outside a re-mark the paths in `wd_map` are
  ones that a recursive watch follows, and what a walk has `found` its watch asks for.

  `GapsAreExplained` is the longest argument of the project. `GapsAreKnown` speaks of
  the daemon at rest; `CoveredInv` says what must hold at every other point outside a
  re-mark: each directory is in order (marked, watched and known by its present path,
  or recorded as not being so) or excused, by an overflow that is queued or has been
  read, by an event that announces it or a directory above it, by a walk that will
  reach it, by an ancestor that is not watched, or by an arrival that nothing
  announces. `MarkingInv` is the same for a re-mark, watch by watch: what a watch
  asks for is still to be walked or is recorded. `EventsInv` and `RecordInv` tie
  queued events and the record to the tree. A rename of a whole subtree is the step
  that all of it is for: what excused a directory at its old path must excuse it at
  the new one. At rest no excuse but the named ones is left.

Only model-checked: the liveness properties (`RulesEventuallyEnforced`,
`EveryPromptDecided`, `EveryOpenAnswered`, `CatchesUp`), because TLAPS does not
reach liveness under fairness. Every invariant and action property that a "holds"
run checks is stated by a theorem. What the "violated" runs refute is, of course,
not.

## 5. Not modelled

Logging, rendering, formats and packaging; parsing of TOML, JSON and the fanotify
buffer; glob compilation (globset's matching is an external operator);
`created_unix`; a pid that is reused after a crash; the watcher giving up after an
error of its own; the deletion of rules.toml (no event is watched for it); events
whose path cannot be resolved, and programs that cannot (they share the name
`<unresolved>`, in verdicts and in rules); a fatal error of poll or read, which is a
crash.

A message of the prompt protocol is one item of a queue. A frame that the read
timeout cuts in two would leave the stream out of step, but only for a response
that is being written at that moment, which a UI that honours its deadline does not
do and which for another is no worse than `prompt_link_short`. A
`prompt_timeout_seconds` of 0 is excluded: `set_read_timeout` refuses it and every
prompt is denied. The settings a reload leaves alone are constants.

## 6. Plan

1. Abstract specification: an *AccessGuard* (each open is held, then allowed or
   denied by the rules and the policy that were loaded after the last change the
   daemon was told of) implemented by `EventLoop`, checked on the run that exists
   and proved from the `IInv` of `EventLoopProofs`.
2. Lemmas about the operators of `Marks` over a fixed tree (each marked directory
   is asked for by a watch that exists), now that `Asks` states it for `TreeWatch`.
3. Variants: `prompt_timeout_seconds = 0`, files that parse in part, a watcher
   thread that gives up.
