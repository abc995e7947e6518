------------------------------ MODULE TreeWatch -------------------------------
(***************************************************************************)
(* Keeping the marks up with a tree that changes: mark_all and walk_dirs   *)
(* of filewalld/src/main.rs, the inotify watches of treewatch.rs and the   *)
(* record of marks that a dump reports (markset.rs).                       *)
(*                                                                         *)
(* Programs create, remove and rename directories while the daemon walks,  *)
(* marks and watches them by path, one directory a step.  A mark and a     *)
(* watch belong to the directory (Node), whatever its path has become.     *)
(* Regular files are left to Marks: their directory's mark covers them.    *)
(***************************************************************************)
EXTENDS Policy

CONSTANTS
  Node,        \* the directories there will ever be
  Place,       \* the paths where they can be
  Trees,       \* the trees at the start, each from paths to directories
  Policies,    \* what config.toml may say
  QueueSize,   \* events an inotify instance holds
  MaxInputs    \* bound: renames, removals, reload requests, failed calls

ASSUME PlaceAssumption == Place \subseteq Path \ {<<>>}
ASSUME TreesAssumption ==
  \A t \in Trees :
    /\ DOMAIN t \subseteq Place /\ Range(t) \subseteq Node /\ IsInjective(t)
    /\ \A p \in DOMAIN t : \A n \in 1 .. Len(p) : SubSeq(p, 1, n) \in DOMAIN t
ASSUME TreePoliciesAssumption == Policies \subseteq Seq(WatchPolicy)
ASSUME TreeBoundsAssumption ==
  QueueSize \in Nat \ {0} /\ MaxInputs \in Nat

VARIABLES
  tree,      \* the directory at each path that has one
  spare,     \* the directories still to be created
  marked,    \* those with a fanotify mark
  watched,   \* those the current inotify instance watches
  queue,     \* its unread events
  config,    \* config.toml: {policy}, or {} when it cannot be loaded
  policy,    \* compiled from the config last loaded
  reload,    \* the RELOAD atomic
  pc,        \* where the event loop is
  todo,      \* the events or the watches left to handle in this phase
  by,        \* the watch the current walk is for
  stack,     \* directories of the walk not read yet
  found,     \* directories it found, not marked or watched yet
  wd_map,    \* the path each watched directory was added under
  record,    \* what the dump is built from
  budget,    \* inputs left
  unseen,    \* history: directories whose arrival no watch announces
  lost       \* history: an overflow, and no re-mark since

walkVars == <<todo, by, stack, found>>
worldVars == <<tree, spare, config>>
markVars == <<marked, record>>
watchVars == <<watched, wd_map>>
vars == <<worldVars, markVars, watchVars, walkVars, queue, policy, reload, pc, budget,
          unseen, lost>>

\* What a re-mark of the present tree would mark.
M == INSTANCE Marks WITH Dir <- DOMAIN tree, File <- {}

At(p) == {tree[q] : q \in DOMAIN tree \cap {p}}
Children(p) == {q \in DOMAIN tree : Len(q) = Len(p) + 1 /\ IsPrefix(p, q)}
Tree(p) == {q \in DOMAIN tree : IsPrefix(p, q)}
Update(f, S, v) == [x \in DOMAIN f \cup S |-> IF x \in S THEN v ELSE f[x]]

Overflow == [wd |-> {}, name |-> "IN_Q_OVERFLOW"]
Event == [wd : {{n} : n \in Node}, name : STRING] \cup {Overflow}

TypeOK ==
  /\ DOMAIN tree \subseteq Place /\ Range(tree) \subseteq Node /\ IsInjective(tree)
  /\ spare \subseteq Node \ Range(tree)
  /\ marked \subseteq Range(tree) /\ watched \subseteq Range(tree) \cap DOMAIN wd_map
  /\ queue \in Seq(Event) /\ Len(queue) <= QueueSize + 1
  /\ config \in {{}} \cup {{p} : p \in Policies} /\ policy \in Policies
  /\ reload \in BOOLEAN /\ lost \in BOOLEAN
  /\ pc \in {"poll", "live", "reload", "mark_all", "build"}
  /\ todo \in Seq(Event) \cup Seq(WatchPolicy) /\ by \in Seq(WatchPolicy)
  /\ stack \subseteq found /\ found \subseteq Seq(STRING)
  /\ DOMAIN wd_map \subseteq Node /\ Range(wd_map) \subseteq Seq(STRING)
  /\ DOMAIN record \subseteq Seq(STRING)
  /\ Range(record) \subseteq [recursive : BOOLEAN, ok : BOOLEAN]
  /\ budget \in 0 .. MaxInputs /\ unseen \subseteq Node

\* run(): the policy is built, mark_all begins.
Init ==
  /\ tree \in Trees /\ spare = Node \ Range(tree)
  /\ policy \in Policies /\ config = {policy}
  /\ marked = {} /\ watched = {} /\ queue = <<>> /\ wd_map = <<>> /\ record = <<>>
  /\ reload = FALSE /\ pc = "mark_all"
  /\ todo = policy /\ by = <<>> /\ stack = {} /\ found = {}
  /\ budget = MaxInputs
  /\ unseen = {} /\ lost = FALSE

Spend(n) == budget >= n /\ budget' = budget - n

------------------------------------------------------------------------------
(* The programs that change the tree, and what inotify tells of it. *)

IsAnnounced(p) == At(Front(p)) # {} /\ At(Front(p)) \subseteq watched

\* A full queue ends in one overflow event.
Announce(p) ==
  queue' =
    IF ~IsAnnounced(p) THEN queue
    ELSE IF Len(queue) < QueueSize
         THEN Append(queue, [wd |-> At(Front(p)), name |-> Last(p)])
    ELSE IF Overflow \in Range(queue) THEN queue
    ELSE Append(queue, Overflow)

\* The directories whose growth a recursive watch sets out to follow.
Followed == UNION {M!ScanWatch(w) : w \in {v \in Range(policy) : Recursive(v)}}

\* An arrival is announced to the watch of the parent, unless a re-mark is about
\* to replace the instance.  The others are unseen, but for those in a followed
\* directory that the daemon has finished with and could not watch.
Arrive(p, nodes) ==
  /\ Announce(p)
  /\ unseen' = IF IsAnnounced(p) /\ pc # "mark_all" THEN unseen \ nodes
               ELSE IF pc \in {"mark_all", "build", "live"} \/ Front(p) \notin Followed
               THEN unseen \cup nodes
               ELSE unseen

Mkdir(p) ==
  /\ p \in Place \ DOMAIN tree /\ spare # {}
  /\ Len(p) > 1 => Front(p) \in DOMAIN tree
  /\ LET n == CHOOSE n \in spare : TRUE
     IN  /\ tree' = Update(tree, {p}, n)
         /\ spare' = spare \ {n}
         /\ Arrive(p, {n})
  /\ UNCHANGED <<config, markVars, watchVars, walkVars, policy, reload, pc, budget, lost>>

\* Mark and watch go with the directory.
Rmdir(p) ==
  /\ p \in DOMAIN tree /\ Children(p) = {} /\ Spend(1)
  /\ tree' = [q \in DOMAIN tree \ {p} |-> tree[q]]
  /\ marked' = marked \ At(p) /\ watched' = watched \ At(p)
  /\ UNCHANGED <<spare, config, wd_map, record, walkVars, queue, policy, reload, pc,
                 unseen, lost>>

\* A rename takes the whole subtree along, with its marks and watches.
Move(p, q) ==
  LET moved == Tree(p)
      To(r) == q \o SubSeq(r, Len(p) + 1, Len(r))
      new   == {To(r) : r \in moved}
  IN  /\ p \in DOMAIN tree /\ q \in Place \ DOMAIN tree
      /\ Front(q) \in DOMAIN tree \ moved /\ new \subseteq Place
      /\ Spend(1)
      /\ tree' = [r \in (DOMAIN tree \ moved) \cup new |->
                   IF r \in new THEN CHOOSE n \in {tree[s] : s \in {t \in moved : To(t) = r}} : TRUE
                                ELSE tree[r]]
      /\ Arrive(q, {tree[r] : r \in moved})
      /\ UNCHANGED <<spare, config, markVars, watchVars, walkVars, policy, reload, pc,
                     lost>>

\* The watcher thread or a SIGHUP (RuleStore), with or without an edit.
RequestReload ==
  /\ Spend(1)
  /\ config' \in {{}} \cup {{p} : p \in Policies}
  /\ reload' = TRUE
  /\ UNCHANGED <<tree, spare, markVars, watchVars, walkVars, queue, policy, pc, unseen,
                 lost>>

------------------------------------------------------------------------------
(* event_loop(): the poll and the RELOAD check *)

\* on_ready reads what there is.
Poll ==
  /\ pc = "poll"
  /\ \/ queue # <<>> /\ todo' = queue /\ queue' = <<>> /\ pc' = "live"
     \/ queue = <<>> /\ pc' = "reload" /\ UNCHANGED <<todo, queue>>
  /\ UNCHANGED <<worldVars, markVars, watchVars, by, stack, found, policy, reload,
                 budget, unseen, lost>>

\* Fault: the flag is read and not cleared.
PeekReload == UNCHANGED reload

TakeReload == reload' = FALSE

\* mark_all clears the record and starts over.
CheckReload ==
  /\ pc = "reload"
  /\ TakeReload
  /\ IF reload /\ config # {}
     THEN /\ policy' \in config /\ todo' = policy'
          /\ record' = <<>> /\ unseen' = {} /\ lost' = FALSE
          /\ pc' = "mark_all"
     ELSE pc' = "poll" /\ UNCHANGED <<policy, todo, record, unseen, lost>>
  /\ UNCHANGED <<worldVars, marked, watchVars, by, stack, found, queue, budget>>

------------------------------------------------------------------------------
(* walk_dirs, and what is done with the directories it finds *)

Walking == stack # {} \/ found # {}

ReadDir(d) ==
  /\ d \in stack
  /\ LET entries == {q \in Children(d) : ~IsExcluded(Head(by), q)}
     IN  /\ stack' = (stack \ {d}) \cup entries
         /\ found' = found \cup entries
  /\ UNCHANGED <<worldVars, markVars, watchVars, todo, by, queue, policy, reload, pc,
                 budget, unseen, lost>>

\* FAN_MARK_ADD fails where nothing is, or for want of room; on a marked
\* directory it does nothing.
MarkDir(d, ok) ==
  /\ IF ok THEN At(d) # {} ELSE At(d) = {} \/ ~(At(d) \subseteq marked)
  /\ marked' = IF ok THEN marked \cup At(d) ELSE marked
  /\ record' = Update(record, {d}, [recursive |-> Recursive(Head(by)), ok |-> ok])

\* Fault: the descriptor is not remembered.
AddUnrecorded(d, ok) ==
  /\ IF ok THEN At(d) # {} ELSE At(d) = {} \/ ~(At(d) \subseteq watched)
  /\ watched' = IF ok THEN watched \cup At(d) ELSE watched
  /\ UNCHANGED wd_map

\* So does inotify_add_watch; a watched directory gets its new path.
Add(d, ok) ==
  /\ IF ok THEN At(d) # {} ELSE At(d) = {} \/ ~(At(d) \subseteq watched)
  /\ watched' = IF ok THEN watched \cup At(d) ELSE watched
  /\ wd_map' = IF ok THEN Update(wd_map, At(d), d) ELSE wd_map

Failures(d, outcomes) == IF At(d) = {} THEN 0 ELSE Cardinality({i \in DOMAIN outcomes : ~outcomes[i]})

\* The first phase marks, the second watches, on_ready does both.
Handle(d) ==
  /\ stack = {} /\ d \in found
  /\ found' = found \ {d}
  /\ unseen' = IF pc = "build" THEN unseen ELSE unseen \ At(d)
  /\ \E mark, add \in BOOLEAN :
       CASE pc = "mark_all" -> /\ MarkDir(d, mark) /\ Spend(Failures(d, <<mark>>))
                               /\ add = TRUE /\ UNCHANGED watchVars
         [] pc = "build" -> /\ Add(d, add) /\ Spend(Failures(d, <<add>>))
                            /\ mark = TRUE /\ UNCHANGED markVars
         [] pc = "live" -> /\ MarkDir(d, mark) /\ Add(d, add)
                           /\ Spend(Failures(d, <<mark, add>>))
  /\ UNCHANGED <<worldVars, todo, by, stack, queue, policy, reload, pc, lost>>

------------------------------------------------------------------------------
(* mark_all, TreeWatch::build and TreeWatch::on_ready *)

\* Start a walk from d for the watch w, or only handle d.
Walk(w, d, deep) ==
  /\ by' = <<w>> /\ found' = {d}
  /\ stack' = IF deep THEN {d} ELSE {}

NoWalk == UNCHANGED <<by, found, stack>>

\* scan_watch: a root that is missing is skipped, a shallow watch marks its root
\* and is never watched.
ScanWatch ==
  /\ pc \in {"mark_all", "build"} /\ ~Walking /\ todo # <<>>
  /\ LET w == Head(todo)
     IN  IF w.root \in DOMAIN tree /\ (pc = "mark_all" \/ Recursive(w))
         THEN Walk(w, w.root, Recursive(w))
         ELSE NoWalk
  /\ todo' = Tail(todo)
  /\ UNCHANGED <<worldVars, markVars, watchVars, queue, policy, reload, pc, budget,
                 unseen, lost>>

\* A new instance knows nothing of the events queued for the old one.
BeginBuild ==
  /\ pc = "mark_all" /\ ~Walking /\ todo = <<>>
  /\ queue' = <<>> /\ watched' = {} /\ wd_map' = <<>>
  /\ \/ todo' = policy /\ pc' = "build" /\ UNCHANGED budget
     \/ Spend(1) /\ pc' = "poll" /\ UNCHANGED todo    \* inotify_init failed
  /\ UNCHANGED <<worldVars, markVars, by, stack, found, policy, reload, unseen, lost>>

\* Fault: the exclusions are left to the walk.
NewDirsUnpruned(event) ==
  {e \in [w : Range(policy),
          dir : {Append(wd_map[n], event.name) : n \in event.wd \cap DOMAIN wd_map}] :
     e.w \in Covering(policy, e.dir)}

\* An event names a child of a directory by the path the daemon knows for it.
\* The first watch that covers that path decides.
NewDirs(event) ==
  {e \in [w : Range(policy),
          dir : {Append(wd_map[n], event.name) : n \in event.wd \cap DOMAIN wd_map}] :
     e.w \in Covering(policy, e.dir) /\ ~IsExcluded(e.w, e.dir)}

\* Fault: an overflow is one more event without a name.
IgnoreOverflow == UNCHANGED <<reload, lost>>

RecoverOverflow == reload' = TRUE /\ lost' = TRUE

TakeEvent ==
  /\ pc = "live" /\ ~Walking /\ todo # <<>>
  /\ todo' = Tail(todo)
  /\ IF Head(todo) = Overflow THEN RecoverOverflow /\ NoWalk
     ELSE /\ UNCHANGED <<reload, lost>>
          /\ IF NewDirs(Head(todo)) = {} THEN NoWalk
             ELSE \E e \in NewDirs(Head(todo)) : Walk(e.w, e.dir, TRUE)
  /\ UNCHANGED <<worldVars, markVars, watchVars, queue, policy, pc, budget, unseen>>

Done ==
  /\ pc \in {"build", "live"} /\ ~Walking /\ todo = <<>>
  /\ pc' = IF pc = "build" THEN "poll" ELSE "reload"
  /\ UNCHANGED <<worldVars, markVars, watchVars, walkVars, queue, policy, reload, budget,
                 unseen, lost>>

------------------------------------------------------------------------------
Daemon ==
  \/ Poll \/ CheckReload \/ ScanWatch \/ BeginBuild \/ TakeEvent \/ Done
  \/ \E d \in stack : ReadDir(d)
  \/ \E d \in found : Handle(d)

World ==
  \/ RequestReload
  \/ \E p \in Place : Mkdir(p) \/ Rmdir(p)
  \/ \E p, q \in Place : Move(p, q)

Next == Daemon \/ World

Spec == Init /\ [][Next]_vars

\* The daemon's thread runs; no program need ever change the tree.
FairSpec == Spec /\ WF_vars(Daemon)

------------------------------------------------------------------------------
(* Watches that overlap. *)

\* A re-mark marks the directory p for the watch w, if there is one; and follows it.
Asks(w, p) ==
  /\ w.root # <<>>
  /\ IF Recursive(w)
     THEN /\ Covers(w, p)
          /\ \A n \in Len(w.root) + 1 .. Len(p) : ~IsExcluded(w, SubSeq(p, 1, n))
     ELSE p = w.root

Follows(w, p) == Recursive(w) /\ Asks(w, p)

\* Where watches overlap it does not matter which of them decides: a directory
\* that one follows is followed by all that cover it, and a watch rooted in the
\* tree of a recursive one is recursive and does not exclude its own root.
WatchesAgree(pol) ==
  \A i, j \in DOMAIN pol :
    /\ \A p \in Place : Follows(pol[i], p) /\ Covers(pol[j], p) => Follows(pol[j], p)
    /\ Recursive(pol[i]) /\ Covers(pol[i], pol[j].root) =>
         /\ Recursive(pol[j])
         /\ pol[i].root # pol[j].root => ~IsExcluded(pol[j], pol[j].root)

PoliciesAgree == \A pol \in Policies : WatchesAgree(pol)

------------------------------------------------------------------------------
(* Properties. *)

\* What build_dump reports of a directory's coverage.
IsWatching(p) == p \in Range(wd_map)
ShowsNoMark(p) == p \in DOMAIN record /\ ~record[p].ok
ShowsNotLive(p) == p \in DOMAIN record /\ record[p].recursive /\ ~IsWatching(p)

Above(p) == {SubSeq(p, 1, n) : n \in 1 .. Len(p) - 1}

\* Directories a re-mark would mark and that are not marked.
Gaps == {p \in M!MarkAll(policy) : ~(At(p) \subseteq marked)}

\* The ways a gap comes about that the daemon reports or cannot help: the dump
\* shows the failed mark, or that a directory above is not watched; it or one
\* above arrived where nothing announced it; the re-mark an overflow asked for
\* met a broken config; or a removed directory's watch hides that the one now at
\* its path has none.
Known(p) ==
  \/ ShowsNoMark(p) \/ \E q \in Above(p) : ShowsNotLive(q)
  \/ \E q \in Above(p) \cup {p} : At(q) \cap unseen # {}
  \/ lost
  \/ \E q \in Above(p) : IsWatching(q) /\ ~(At(q) \subseteq watched)

AtRest == pc = "poll" /\ queue = <<>> /\ ~reload

\* Once the daemon has caught up, every directory that its watches would mark is
\* marked, or the gap is one of those named: no order of creations, renames,
\* removals, failures, overflows and reloads leaves another (treewatch.rs: "keep
\* a tree covered as it grows").
GapsAreKnown == AtRest => \A p \in Gaps : Known(p)

\* Nothing is marked that no watch asks for: no pruned subtree, nothing below a
\* shallow watch (build, dirs_to_mark).
MarksOnlyWhatIsWatched ==
  [][\A p \in DOMAIN tree : tree[p] \in marked' \ marked => p \in M!MarkAll(policy)]_vars

\* The daemon catches up: a new directory is marked in the end, or is a known
\* gap, whatever else goes on.
CatchesUp == []<>(AtRest /\ \A p \in Gaps : Known(p))
==============================================================================
