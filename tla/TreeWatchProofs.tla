--------------------------- MODULE TreeWatchProofs ---------------------------
(***************************************************************************)
(* What TreeWatch marks, and that every gap is known: theorems for every   *)
(* tree, every queue size and every policy whose overlapping watches       *)
(* agree.                                                                  *)
(***************************************************************************)
EXTENDS TreeWatchTypeProofs

------------------------------------------------------------------------------
(* What a step may mark. *)

\* Some watch asks for a mark on p.
Asked(p) == \E i \in DOMAIN policy : Asks(policy[i], p)

\* Some recursive watch follows p.
Grows(p) == \E i \in DOMAIN policy : Follows(policy[i], p)

\* Descriptors are known by paths that a watch follows, once a re-mark is over.
WatchesInv == pc # "mark_all" => \A n \in DOMAIN wd_map : Grows(wd_map[n])

\* A walk holds directories that its watch asks for; only a re-mark handles the
\* directory of a shallow watch.
WalkInv ==
  Walking => \E i \in DOMAIN policy :
    /\ by = <<policy[i]>>
    /\ \A d \in found : Asks(policy[i], d)
    /\ stack # {} \/ pc # "mark_all" => Recursive(policy[i])

\* What keeps the daemon to the directories its watches ask for.
PInv == TInv /\ WatchesInv /\ WalkInv

\* The watches of the present policy agree.
LEMMA AgreeNow ==
  ASSUME PoliciesAgree, ControlTyped
  PROVE  /\ WatchesAgree(policy)
         /\ \A i \in DOMAIN policy : policy[i] \in WatchPolicy
         /\ \A i, j \in DOMAIN policy : \A p \in Place :
              Follows(policy[i], p) /\ Covers(policy[j], p) => Follows(policy[j], p)
         /\ \A i, j \in DOMAIN policy :
              Recursive(policy[i]) /\ Covers(policy[i], policy[j].root) =>
                /\ Recursive(policy[j])
                /\ policy[i].root # policy[j].root => ~IsExcluded(policy[j], policy[j].root)
<1>1. policy \in Policies /\ policy \in Seq(WatchPolicy)
  BY PolicyTyped DEF ControlTyped
<1> QED
  BY <1>1 DEF PoliciesAgree, WatchesAgree

\* A watch asks for its root.
LEMMA RootFollowed ==
  ASSUME NEW w \in WatchPolicy, w.root # <<>>
  PROVE  Asks(w, w.root) /\ (Recursive(w) => Follows(w, w.root))
<1>1. w.root \in Names /\ Len(w.root) \in Nat /\ Covers(w, w.root)
  BY WatchRoot, PrefixOrder, CutIsPrefix DEF Covers
<1>2. Len(w.root) + 1 .. Len(w.root) = {}
  BY <1>1
<1> QED
  BY <1>1, <1>2 DEF Asks, Follows

\* What Marks says that a re-mark marks and follows, by directory.
LEMMA MarkAllIs ==
  ASSUME TInv
  PROVE  /\ M!MarkAll(policy) = {p \in DOMAIN tree : Asked(p)}
         /\ Followed = {p \in DOMAIN tree : Grows(p)}
<1>1. ASSUME NEW w, NEW p PROVE M!Covers(w, p) <=> Covers(w, p)
  BY DEF M!Covers, Covers, M!IsPrefix, IsPrefix
<1>2. ASSUME NEW g, NEW p PROVE M!GlobMatches(g, p) <=> GlobMatches(g, p)
  BY DEF M!GlobMatches, GlobMatches, M!AnyDepth, AnyDepth
<1>3. ASSUME NEW w, NEW p PROVE M!IsExcluded(w, p) <=> IsExcluded(w, p)
  BY <1>2 DEF M!IsExcluded, IsExcluded
<1>4. ASSUME NEW g PROVE M!PatternIsDeep(g) <=> PatternIsDeep(g)
  BY DEF M!PatternIsDeep, PatternIsDeep, M!AnyDepth, AnyDepth, M!Range, Range
<1>5. ASSUME NEW w PROVE M!Recursive(w) <=> Recursive(w)
  BY <1>4 DEF M!Recursive, Recursive
<1>6. ASSUME NEW w \in WatchPolicy, NEW p
      PROVE  p \in M!ScanWatch(w) <=> p \in DOMAIN tree /\ Asks(w, p)
  <2>1. TreeTyped /\ w.root \in Names /\ \A r \in DOMAIN tree : r \in Names /\ r # <<>>
    BY WatchRoot, PlacesAreNames DEF TInv, TreeTyped
  <2>2. CASE w.root \notin DOMAIN tree
    <3>1. M!ScanWatch(w) = {}
      BY <2>2 DEF M!ScanWatch
    <3>2. p \in DOMAIN tree => ~ Asks(w, p)
      BY <2>1, <2>2, AsksCovers, ClosedUp DEF Asks, Covers
    <3> QED
      BY <3>1, <3>2
  <2>3. CASE w.root \in DOMAIN tree /\ Recursive(w)
    <3>1. M!ScanWatch(w) = M!WalkDirs(w)
      BY <1>5, <2>3 DEF M!ScanWatch
    <3>2. p \in M!WalkDirs(w) <=>
            /\ p \in DOMAIN tree /\ Covers(w, p)
            /\ \A n \in Len(w.root) + 1 .. Len(p) : ~IsExcluded(w, SubSeq(p, 1, n))
      BY <1>1, <1>3 DEF M!WalkDirs
    <3> QED
      BY <2>1, <2>3, <3>1, <3>2 DEF Asks
  <2>4. CASE w.root \in DOMAIN tree /\ ~ Recursive(w)
    <3>1. M!ScanWatch(w) = {w.root}
      BY <1>5, <2>4 DEF M!ScanWatch
    <3> QED
      BY <2>1, <2>4, <3>1 DEF Asks
  <2> QED
    BY <2>2, <2>3, <2>4
<1>7. /\ \A i \in DOMAIN policy : policy[i] \in WatchPolicy /\ policy[i] \in Range(policy)
      /\ \A w \in Range(policy) : \E i \in DOMAIN policy : w = policy[i]
  BY PolicyTyped DEF TInv
<1>8. M!MarkAll(policy) = {p \in DOMAIN tree : Asked(p)}
  <2>1. M!MarkAll(policy) = UNION {M!ScanWatch(policy[i]) : i \in DOMAIN policy}
    BY DEF M!MarkAll
  <2> QED
    BY <1>6, <1>7, <2>1 DEF Asked
<1>9. Followed = {p \in DOMAIN tree : Grows(p)}
  <2>1. ASSUME NEW p \in Followed PROVE p \in DOMAIN tree /\ Grows(p)
    <3>1. PICK w \in Range(policy) : Recursive(w) /\ p \in M!ScanWatch(w)
      BY <2>1 DEF Followed
    <3>2. PICK i \in DOMAIN policy : w = policy[i]
      BY <1>7
    <3> QED
      BY <1>6, <1>7, <3>1, <3>2 DEF Grows, Follows
  <2>2. ASSUME NEW p \in DOMAIN tree, Grows(p) PROVE p \in Followed
    <3>1. PICK i \in DOMAIN policy : Follows(policy[i], p)
      BY <2>2 DEF Grows
    <3>2. policy[i] \in {v \in Range(policy) : Recursive(v)} /\ p \in M!ScanWatch(policy[i])
      BY <1>6, <1>7, <3>1 DEF Follows
    <3> QED
      BY <3>2 DEF Followed
  <2> QED
    BY <2>1, <2>2
<1> QED
  BY <1>8, <1>9

\* The watch that decides about a new directory follows it.
LEMMA NewDirFollowed ==
  ASSUME PoliciesAgree, PInv, pc = "live", NEW z \in Event \ {Overflow}, NEW e \in NewDirs(z)
  PROVE  \E i \in DOMAIN policy : e.w = policy[i] /\ Follows(policy[i], e.dir)
<1>1. TInv /\ ControlTyped
  BY DEF PInv, TInv
<1>2. PICK n \in DOMAIN wd_map : z.wd = {n} /\ e.dir = Append(wd_map[n], z.name)
  BY <1>1, NewDirsAre
<1>3. /\ e.w \in Range(policy) /\ e.w \in WatchPolicy /\ e.dir \in Names
      /\ e.w \in Covering(policy, e.dir) /\ ~ IsExcluded(e.w, e.dir)
  BY <1>1, NewDirsAre
<1>4. PICK i \in DOMAIN policy : e.w = policy[i] /\ Covers(policy[i], e.dir)
  BY <1>3 DEF Covering
<1> DEFINE p == wd_map[n]
<1>5. PICK k \in DOMAIN policy : Follows(policy[k], p)
  BY <1>1 DEF PInv, WatchesInv, Grows
<1>6. p \in Place /\ p \in Names /\ z.name \in STRING
  BY <1>1, PlacesAreNames, EventIs DEF TInv, MarksTyped, Range
<1> HIDE DEF p
<1>7. e.dir # <<>> /\ Front(e.dir) = p /\ IsPrefix(p, e.dir) /\ p # e.dir
  <2>1. e.dir = Append(p, z.name)
    BY <1>2 DEF p
  <2>2. Append(p, z.name) # <<>> /\ Front(Append(p, z.name)) = p
        /\ IsPrefix(p, Append(p, z.name)) /\ p # Append(p, z.name)
    BY <1>6, ChildOf, Zenon
  <2> QED
    BY <2>1, <2>2
<1>8. policy[i] \in WatchPolicy /\ policy[k] \in WatchPolicy
      /\ policy[i].root \in Names /\ policy[k].root \in Names
  BY <1>1, AgreeNow, WatchRoot
<1>9. Covers(policy[k], e.dir) /\ Recursive(policy[k]) /\ Covers(policy[k], p)
  <2>1. Covers(policy[k], p) /\ Recursive(policy[k])
    BY <1>5, <1>6, <1>8, AsksCovers DEF Follows
  <2> QED
    BY <1>3, <1>6, <1>7, <1>8, <2>1, PrefixOrder DEF Covers
<1>10. CASE policy[i].root = e.dir
  <2>1. Recursive(policy[i])
    BY <1>1, <1>9, <1>10, AgreeNow DEF Covers
  <2> QED
    BY <1>4, <1>7, <1>8, <1>10, <2>1, RootFollowed
<1>11. CASE policy[i].root # e.dir
  <2>1. Covers(policy[i], p)
    BY <1>3, <1>4, <1>7, <1>8, <1>11, BelowFront DEF Covers
  <2>2. Follows(policy[i], p)
    BY <1>1, <1>5, <1>6, <2>1, AgreeNow
  <2>3. Follows(policy[i], e.dir)
    BY <1>3, <1>4, <1>6, <1>7, <1>8, <2>2, FollowsChild
  <2> QED
    BY <1>4, <2>3
<1> QED
  BY <1>10, <1>11

\* Every step keeps WalkInv: walks start at what is asked for, and prune.
LEMMA WalkInvKept ==
  ASSUME PoliciesAgree, PInv, Next
  PROVE  WalkInv'
<1> USE DEF PInv
<1>1. TInv /\ WalkTyped /\ ControlTyped
  BY DEF TInv
<1>2. CASE Poll \/ CheckReload \/ Done \/ BeginBuild
  <2>1. ~ Walking /\ UNCHANGED <<stack, found>>
    <3>1. CASE Poll
      BY <1>1, <3>1 DEF Poll, WalkTyped
    <3>2. CASE CheckReload
      BY <1>1, <3>2 DEF CheckReload, WalkTyped
    <3> QED
      BY <1>2, <3>1, <3>2 DEF Done, BeginBuild, walkVars
  <2> QED
    BY <2>1 DEF WalkInv, Walking
<1>3. CASE World
  <2>1. UNCHANGED <<walkVars, policy, pc>>
    BY <1>3 DEF World, RequestReload, Mkdir, Rmdir, Move
  <2> QED
    BY <2>1 DEF WalkInv, Walking, walkVars
<1>4. CASE ScanWatch
  <2>1. /\ pc \in {"mark_all", "build"} /\ ~Walking /\ todo # <<>> /\ UNCHANGED <<policy, pc>>
        /\ IF Head(todo).root \in DOMAIN tree /\ (pc = "mark_all" \/ Recursive(Head(todo)))
           THEN Walk(Head(todo), Head(todo).root, Recursive(Head(todo)))
           ELSE NoWalk
    BY <1>4 DEF ScanWatch
  <2>2. CASE NoWalk
    BY <2>1, <2>2 DEF WalkInv, Walking, NoWalk
  <2>3. CASE ~ NoWalk
    <3>1. Head(todo) \in Range(policy)
      BY <1>1, <2>1, RangeOfTail DEF WalkTyped
    <3>2. PICK i \in DOMAIN policy : Head(todo) = policy[i]
      BY <1>1, <3>1, PolicyTyped
    <3>3. policy[i].root \in DOMAIN tree /\ policy[i] \in WatchPolicy
      BY <1>1, <2>1, <2>3, <3>2, PolicyTyped
    <3>4. policy[i].root # <<>>
      BY <1>1, <3>3, PlacesAreNames DEF TInv, TreeTyped
    <3>5. Asks(policy[i], policy[i].root)
      BY <3>3, <3>4, RootFollowed
    <3>6. /\ by' = <<policy[i]>> /\ found' = {policy[i].root}
          /\ stack' # {} => Recursive(policy[i])
          /\ pc # "mark_all" => Recursive(policy[i])
      BY <2>1, <2>3, <3>2 DEF Walk
    <3> QED
      BY <2>1, <3>5, <3>6 DEF WalkInv
  <2> QED
    BY <2>2, <2>3
<1>5. CASE TakeEvent
  <2>1. /\ pc = "live" /\ ~Walking /\ todo # <<>> /\ UNCHANGED <<policy, pc>>
        /\ \/ NoWalk
           \/ Head(todo) # Overflow /\ \E e \in NewDirs(Head(todo)) : Walk(e.w, e.dir, TRUE)
    BY <1>5 DEF TakeEvent
  <2>2. CASE NoWalk
    BY <2>1, <2>2 DEF WalkInv, Walking, NoWalk
  <2>3. CASE ~ NoWalk
    <3>1. PICK e \in NewDirs(Head(todo)) : Walk(e.w, e.dir, TRUE)
      BY <2>1, <2>3
    <3>2. Head(todo) \in Event \ {Overflow}
      BY <1>1, <2>1, <2>3, RangeOfTail DEF WalkTyped
    <3>3. PICK i \in DOMAIN policy : e.w = policy[i] /\ Follows(policy[i], e.dir)
      BY <2>1, <3>2, NewDirFollowed
    <3> QED
      BY <2>1, <3>1, <3>3 DEF WalkInv, Walk, Follows
  <2> QED
    BY <2>2, <2>3
<1>6. ASSUME NEW d \in stack, ReadDir(d) PROVE WalkInv'
  <2>1. PICK i \in DOMAIN policy :
          by = <<policy[i]>> /\ (\A q \in found : Asks(policy[i], q)) /\ Recursive(policy[i])
    BY <1>6 DEF WalkInv, Walking
  <2>2. /\ found' = found \cup {q \in Children(d) : ~IsExcluded(Head(by), q)}
        /\ UNCHANGED <<by, policy, pc>>
    BY <1>6 DEF ReadDir
  <2>3. ASSUME NEW q \in Children(d), ~IsExcluded(Head(by), q) PROVE Asks(policy[i], q)
    <3>1. d \in Names /\ Follows(policy[i], d) /\ policy[i] \in WatchPolicy
      BY <1>1, <2>1, PolicyTyped DEF WalkTyped, Follows
    <3>2. q \in Names /\ q # <<>> /\ Len(q) = Len(d) + 1 /\ IsPrefix(d, q) /\ q \in DOMAIN tree
      BY <1>1, PlacesAreNames DEF Children, TInv, TreeTyped
    <3>3. Front(q) = d
      <4>1. Len(q) \in Nat /\ Len(d) \in Nat /\ Len(q) - 1 = Len(d) /\ d = SubSeq(q, 1, Len(d))
        BY <3>1, <3>2, CutIsPrefix
      <4> QED
        BY <4>1 DEF Front
    <3> QED
      BY <2>1, <2>3, <3>1, <3>2, <3>3, FollowsChild DEF Follows
  <2> QED
    BY <2>1, <2>2, <2>3 DEF WalkInv
<1>7. ASSUME NEW d \in found, Handle(d) PROVE WalkInv'
  <2>1. found' \subseteq found /\ stack' = stack /\ UNCHANGED <<by, policy, pc>>
    BY <1>7, HandleIs
  <2>2. Walking
    BY DEF Walking
  <2> QED
    BY <2>1, <2>2 DEF WalkInv
<1> QED
  BY <1>2, <1>3, <1>4, <1>5, <1>6, <1>7 DEF Next, Daemon

\* Every step keeps WatchesInv.
LEMMA WatchesInvKept ==
  ASSUME PoliciesAgree, PInv, Next
  PROVE  WatchesInv'
<1> USE DEF PInv
<1>1. TInv /\ WalkTyped /\ ControlTyped
  BY DEF TInv
<1>2. CASE Poll \/ CheckReload \/ Done \/ World \/ ScanWatch \/ TakeEvent
           \/ \E d \in stack : ReadDir(d)
  <2>1. CASE pc' = "mark_all"
    BY <2>1 DEF WatchesInv
  <2>2. CASE pc' # "mark_all"
    <3>1. UNCHANGED <<wd_map, policy>> /\ pc # "mark_all"
      <4>1. CASE Poll \/ Done
        BY <4>1 DEF Poll, Done, watchVars
      <4>2. CASE CheckReload
        BY <2>2, <4>2 DEF CheckReload, watchVars
      <4>3. CASE World
        BY <2>2, <4>3 DEF World, RequestReload, Mkdir, Rmdir, Move, watchVars
      <4>4. CASE ScanWatch \/ TakeEvent \/ \E d \in stack : ReadDir(d)
        BY <2>2, <4>4 DEF ScanWatch, TakeEvent, ReadDir, watchVars
      <4> QED
        BY <1>2, <4>1, <4>2, <4>3, <4>4
    <3> QED
      BY <3>1 DEF WatchesInv, Grows
  <2> QED
    BY <2>1, <2>2
<1>3. CASE BeginBuild
  BY <1>3 DEF BeginBuild, WatchesInv
<1>4. ASSUME NEW d \in found, Handle(d) PROVE WatchesInv'
  <2> SUFFICES ASSUME pc # "mark_all" PROVE WatchesInv'
    BY <1>4, HandleIs DEF WatchesInv
  <2>1. PICK add \in BOOLEAN : Add(d, add)
    BY <1>4, HandleIs
  <2>2. UNCHANGED <<policy, pc>>
    BY <1>4, HandleIs
  <2>3. CASE UNCHANGED watchVars
    BY <2>2, <2>3 DEF WatchesInv, Grows, watchVars
  <2>4. CASE ~ UNCHANGED watchVars
    <3>1. /\ DOMAIN wd_map' = DOMAIN wd_map \cup {tree[d]} /\ wd_map'[tree[d]] = d
          /\ \A n \in DOMAIN wd_map \ {tree[d]} : wd_map'[n] = wd_map[n]
      BY <1>1, <2>1, <2>4, AddIs DEF TInv
    <3>2. Grows(d)
      BY DEF WalkInv, Walking, Grows, Follows
    <3>3. \A n \in DOMAIN wd_map' : Grows(wd_map'[n])
      BY <3>1, <3>2 DEF WatchesInv
    <3> QED
      BY <2>2, <3>3 DEF WatchesInv, Grows
  <2> QED
    BY <2>3, <2>4
<1> QED
  BY <1>2, <1>3, <1>4 DEF Next, Daemon

\* Every step keeps PInv.
LEMMA PInvKept ==
  ASSUME PoliciesAgree, PInv, [Next]_vars
  PROVE  PInv'
<1>1. CASE Next
  BY <1>1, NextTyped, WalkInvKept, WatchesInvKept DEF PInv
<1>2. CASE UNCHANGED vars
  <2>1. TInv'
    BY <1>2, NextTyped DEF PInv
  <2> QED
    BY <1>2, <2>1 DEF PInv, WatchesInv, WalkInv, Walking, Grows, vars, walkVars, watchVars
<1> QED
  BY <1>1, <1>2

\* PInv holds when run() begins.
LEMMA PInvInit == Init => PInv
<1> SUFFICES ASSUME Init PROVE PInv
  OBVIOUS
<1>1. TInv
  BY InitTyped
<1> QED
  BY <1>1 DEF PInv, WatchesInv, WalkInv, Walking, Init

\* Where watches that overlap agree, nothing is marked that no watch asks for, whatever
\* path a descriptor is known by when an event arrives (dirs_to_mark, build).
THEOREM OnlyWatchedIsMarked ==
  ASSUME PoliciesAgree
  PROVE  Spec => MarksOnlyWhatIsWatched
<1> DEFINE Only == \A p \in DOMAIN tree : tree[p] \in marked' \ marked => p \in M!MarkAll(policy)
<1>1. Init => PInv
  BY PInvInit
<1>2. PInv /\ [Next]_vars => PInv'
  BY PInvKept
<1>3. PInv /\ [Next]_vars => [Only]_vars
  <2> SUFFICES ASSUME PInv, Next PROVE Only
    OBVIOUS
  <2>1. TInv /\ TreeTyped
    BY DEF PInv, TInv
  <2>2. ASSUME NEW d \in found, Handle(d) PROVE Only
    <3>1. marked' \subseteq marked \cup At(d)
      <4>1. pc = "build" => marked' = marked
        BY <2>1, <2>2, HandleIs DEF markVars
      <4>2. pc # "build" => \E mark \in BOOLEAN : MarkDir(d, mark)
        BY <2>1, <2>2, HandleIs
      <4> QED
        BY <2>1, <4>1, <4>2, MarkDirIs
    <3>2. Asked(d)
      BY DEF PInv, WalkInv, Walking, Asked
    <3>3. \A p \in DOMAIN tree : tree[p] \in At(d) => p = d
      BY <2>1, AtIs
    <3> QED
      BY <2>1, <3>1, <3>2, <3>3, MarkAllIs
  <2>3. CASE ~ \E d \in found : Handle(d)
    <3>1. marked' \subseteq marked
      BY <2>3 DEF Next, Daemon, World, Poll, CheckReload, ScanWatch, BeginBuild, TakeEvent, Done,
         ReadDir, RequestReload, Mkdir, Rmdir, Move, markVars
    <3> QED
      BY <3>1
  <2> QED
    BY <2>2, <2>3
<1> QED
  BY <1>1, <1>2, <1>3, PTL DEF Spec, MarksOnlyWhatIsWatched

------------------------------------------------------------------------------
(* Why a directory may lack its mark or watch. *)

\* The events the daemon has not handled: read or still queued.
Events == (IF pc = "live" THEN Range(todo) ELSE {}) \cup Range(queue)

\* The record says p should be watched, and it is not, or not by its present path.
NotLive(q) ==
  q \in DOMAIN record /\ record[q].recursive /\ ~(IsWatching(q) /\ At(q) \subseteq watched)

\* The walk is about to mark q.
InHand(q) == pc # "build" /\ q \in found

\* A directory on the way to p came unannounced, and the walk has not got it.
Unannounced(p) == \E q \in DOMAIN tree : IsPrefix(q, p) /\ ~InHand(q) /\ tree[q] \in unseen

\* The event e announces a directory on the way to p.
Tells(e, p) == \E q \in DOMAIN tree : e.wd = {tree[q]} /\ IsPrefix(Append(q, e.name), p)

\* The daemon will hear of p.
Pending(p) == \E e \in Events \ {Overflow} : Tells(e, p)

\* A directory above p is not watched, and the walk will not watch it.
Blind(p) == pc # "build" /\ \E q \in Above(p) : q \notin found /\ NotLive(q)

\* The walk of an event will reach p.
InWalk(p) == pc = "live" /\ (p \in found \/ \E d \in stack : IsPrefix(d, p))

\* Why p may lack what its watches ask for while the daemon is at work.
Excused(p) ==
  lost \/ Overflow \in Events \/ Unannounced(p) \/ Pending(p) \/ Blind(p) \/ InWalk(p)

\* Some watch of the present policy prunes p.
Pruned(p) == PrunedBy(policy, p)

\* The directory at p has what its watches ask for, or the record says it has not,
\* and its descriptor is known by its path.
InOrder(p) ==
  /\ Asked(p) => tree[p] \in marked \/ ShowsNoMark(p)
  /\ Grows(p) => tree[p] \in watched \/ NotLive(p)
  /\ tree[p] \in watched => wd_map[tree[p]] = p \/ Pruned(p)

\* Outside a re-mark every directory is in order or excused.
CoveredInv == pc # "mark_all" => \A p \in DOMAIN tree : InOrder(p) \/ Excused(p)

\* An event is about a directory that was watched and is not yet created anew.
EventsInv ==
  \A e \in Events \ {Overflow} :
    /\ e.wd \cap spare = {}
    /\ \A q \in DOMAIN tree : e.wd = {tree[q]} => tree[q] \in watched

\* The record of a directory that grows says so.
RecordInv == \A d \in DOMAIN record \cap Place : Grows(d) => record[d].recursive

\* The re-mark is done with p for the watch w.
Recorded(w, p) ==
  /\ p \in DOMAIN record /\ (Recursive(w) => record[p].recursive)
  /\ tree[p] \in marked \/ ~record[p].ok

\* During a re-mark, what a watch asks for is still to be walked, or done with.
MarkingInv ==
  pc = "mark_all" => \A p \in DOMAIN tree : \A i \in DOMAIN policy : Asks(policy[i], p) =>
    \/ policy[i] \in Range(todo) \/ tree[p] \in unseen
    \/ p \in found \/ \E d \in stack : IsPrefix(d, p)
    \/ Recorded(policy[i], p)

\* The inductive invariant behind GapsAreKnown.
GInv == PInv /\ CoveredInv /\ EventsInv /\ RecordInv /\ MarkingInv

\* Unhandled events are events.
LEMMA EventsTyped ==
  ASSUME TInv
  PROVE  /\ Events \subseteq Event
         /\ \A e \in Events \ {Overflow} : e.name \in STRING /\ \E n \in Node : e.wd = {n}
<1>1. Range(queue) \subseteq Event
  BY RangeOfSeq DEF TInv, QueueTyped
<1>2. pc = "live" => Range(todo) \subseteq Event
  BY RangeOfSeq DEF TInv, WalkTyped
<1>3. Events \subseteq Event
  BY <1>1, <1>2 DEF Events
<1> QED
  BY <1>3, EventIs

\* Below a pruned directory nothing is asked for, and nothing is missing.
PrunedGoesDown ==
  PoliciesAgree /\ TInv =>
    \A p \in DOMAIN tree : \A q \in Names : IsPrefix(q, p) /\ Pruned(q) =>
      Pruned(p) /\ ~Asked(p) /\ ~Grows(p) /\ InOrder(p)

\* It holds in every typed state where the watches agree.
LEMMA PrunedInOrder == PrunedGoesDown
<1> SUFFICES ASSUME PoliciesAgree, TInv, NEW p \in DOMAIN tree, NEW q \in Names, IsPrefix(q, p), Pruned(q)
             PROVE  Pruned(p) /\ ~Asked(p) /\ ~Grows(p) /\ InOrder(p)
  BY DEF PrunedGoesDown
<1>1. p \in Place /\ p \in Names /\ Place \subseteq Names
      /\ policy \in Seq(WatchPolicy) /\ WatchesAgree(policy)
  BY PlacesAreNames, AgreeNow, PolicyTyped DEF TInv, TreeTyped
<1>2. \A j \in DOMAIN policy : ~ Asks(policy[j], p)
  BY <1>1, PrunedBelow DEF Pruned
<1>3. Pruned(p)
  <2>1. PICK i \in DOMAIN policy : Recursive(policy[i]) /\ Covers(policy[i], q)
    BY DEF Pruned, PrunedBy
  <2>2. policy[i].root \in Names
    BY <1>1, WatchRoot
  <2>3. Covers(policy[i], p)
    BY <1>1, <2>1, <2>2, PrefixOrder DEF Covers
  <2> QED
    BY <1>2, <2>1, <2>3 DEF Pruned, PrunedBy, Follows
<1> QED
  BY <1>2, <1>3 DEF InOrder, Asked, Grows, Follows

\* What explains a gap at q explains one below it.
LEMMA ReasonsBelow ==
  ASSUME TInv, NEW p \in DOMAIN tree, NEW q \in DOMAIN tree, IsPrefix(q, p)
  PROVE  /\ Unannounced(q) => Unannounced(p)
         /\ \A e \in Events \ {Overflow} : Tells(e, q) => Tells(e, p)
         /\ Blind(q) => Blind(p)
<1>1. p \in Names /\ q \in Names /\ \A r \in DOMAIN tree : r \in Names
  BY PlacesAreNames DEF TInv, TreeTyped
<1>2. ASSUME Unannounced(q) PROVE Unannounced(p)
  BY <1>1, <1>2, PrefixOrder DEF Unannounced
<1>3. ASSUME NEW e \in Events \ {Overflow}, Tells(e, q) PROVE Tells(e, p)
  <2>1. PICK r \in DOMAIN tree : e.wd = {tree[r]} /\ IsPrefix(Append(r, e.name), q)
    BY <1>3 DEF Tells
  <2>2. Append(r, e.name) \in Names
    BY <1>1, EventsTyped, AppendProperties DEF Names
  <2> QED
    BY <1>1, <2>1, <2>2, PrefixOrder DEF Tells
<1>4. ASSUME Blind(q) PROVE Blind(p)
  <2>1. PICK r \in Above(q) : r \notin found /\ NotLive(r)
    BY <1>4 DEF Blind
  <2>2. r \in Names
    BY <2>1 DEF NotLive, TInv, MarksTyped
  <2>3. r \in Above(p)
    BY <1>1, <2>1, <2>2, AboveIs, PrefixOrder
  <2> QED
    BY <1>4, <2>1, <2>3 DEF Blind
<1> QED
  BY <1>2, <1>3, <1>4

\* Between walks, what lies below an excused directory is excused.
ExcusesGoDown ==
  TInv /\ ~Walking =>
    \A p, q \in DOMAIN tree : IsPrefix(q, p) /\ Excused(q) => Excused(p)

\* It holds in every state.
LEMMA ExcusedBelow == ExcusesGoDown
<1> SUFFICES ASSUME TInv, NEW p \in DOMAIN tree, NEW q \in DOMAIN tree, IsPrefix(q, p),
                    ~Walking, Excused(q)
             PROVE  Excused(p)
  BY DEF ExcusesGoDown
<1>1. ~ InWalk(q)
  BY DEF InWalk, Walking
<1> QED
  BY <1>1, ReasonsBelow DEF Excused, Pending

\* An excuse outlives a change of the tree elsewhere.
LEMMA ExcusedKept ==
  ASSUME TInv, TreeTyped', NEW p \in DOMAIN tree,
         \A q \in DOMAIN tree : IsPrefix(q, p) =>
           /\ q \in DOMAIN tree' /\ tree'[q] = tree[q]
           /\ tree[q] \in unseen => tree[q] \in unseen'
           /\ tree[q] \in watched' => tree[q] \in watched,
         Events \subseteq Events',
         UNCHANGED <<wd_map, record, found, stack, pc, lost>>,
         Excused(p)
  PROVE  Excused(p)'
<1>1. p \in Names /\ \A r \in DOMAIN tree : r \in Names
  BY PlacesAreNames DEF TInv, TreeTyped
<1>2. ASSUME Unannounced(p) PROVE Unannounced(p)'
  BY <1>2 DEF Unannounced, InHand
<1>3. ASSUME Pending(p) PROVE Pending(p)'
  <2>1. PICK e \in Events \ {Overflow}, r \in DOMAIN tree :
          e.wd = {tree[r]} /\ IsPrefix(Append(r, e.name), p)
    BY <1>3 DEF Pending, Tells
  <2>2. IsPrefix(r, p)
    BY <1>1, <2>1, EventsTyped, ChildBelow
  <2> QED
    BY <2>1, <2>2 DEF Pending, Tells
<1>4. ASSUME Blind(p) PROVE Blind(p)'
  <2>1. PICK r \in Above(p) : r \notin found /\ NotLive(r)
    BY <1>4 DEF Blind
  <2>2. r \in Names
    BY <2>1 DEF NotLive, TInv, MarksTyped
  <2>3. r # <<>> /\ IsPrefix(r, p)
    BY <1>1, <2>1, <2>2, AboveIs
  <2>4. r \in DOMAIN tree
    BY <2>2, <2>3, ClosedUp DEF TInv
  <2>5. At(r) = {tree[r]} /\ At(r)' = {tree[r]}
    <3>1. r \in DOMAIN tree' /\ tree'[r] = tree[r]
      BY <2>3, <2>4
    <3>2. At(r)' = {tree'[q] : q \in DOMAIN tree' \cap {r}}
      BY DEF At
    <3> QED
      BY <2>4, <3>1, <3>2 DEF At
  <2>6. NotLive(r)'
    BY <2>1, <2>3, <2>4, <2>5 DEF NotLive, IsWatching
  <2> QED
    BY <1>4, <2>1, <2>6 DEF Blind
<1>5. ASSUME InWalk(p) PROVE InWalk(p)'
  BY <1>5 DEF InWalk
<1> QED
  BY <1>2, <1>3, <1>4, <1>5 DEF Excused

\* And after every step.
LEMMA ExcusedBelowNext == ExcusesGoDown'
BY ExcusedBelow, PTL

\* Below a pruned directory a step that keeps the policy leaves all in order.
LEMMA PrunedStays ==
  ASSUME PoliciesAgree, TInv, NEW p \in DOMAIN tree, NEW q \in Names, IsPrefix(q, p), Pruned(q),
         UNCHANGED policy
  PROVE  InOrder(p)'
<1>1. Pruned(p) /\ ~Asked(p) /\ ~Grows(p)
  BY PrunedInOrder DEF PrunedGoesDown
<1> QED
  BY <1>1 DEF Pruned, Asked, Grows, InOrder

\* A directory stays in order when its marks, watch and record stay.
LEMMA InOrderKept ==
  ASSUME TreeTyped, TreeTyped', NEW p \in DOMAIN tree, p \in DOMAIN tree', tree'[p] = tree[p],
         tree[p] \in marked => tree[p] \in marked',
         tree[p] \in watched' <=> tree[p] \in watched,
         UNCHANGED <<wd_map, record, policy>>,
         InOrder(p)
  PROVE  InOrder(p)'
<1>1. At(p) = {tree[p]} /\ At(p)' = {tree[p]}
  <2>1. At(p)' = {tree'[q] : q \in DOMAIN tree' \cap {p}}
    BY DEF At
  <2> QED
    BY <2>1 DEF At
<1>2. NotLive(p) => NotLive(p)'
  BY <1>1 DEF NotLive, IsWatching
<1>3. (Asked(p)' <=> Asked(p)) /\ (Grows(p)' <=> Grows(p)) /\ (Pruned(p)' <=> Pruned(p))
  BY DEF Asked, Grows, Pruned
<1>4. ShowsNoMark(p)' <=> ShowsNoMark(p)
  BY DEF ShowsNoMark
<1> QED
  BY <1>2, <1>3, <1>4 DEF InOrder

\* Steps that touch none of it keep GInv: a request, a stuttering step.
LEMMA SamePlaces ==
  ASSUME GInv, UNCHANGED <<tree, spare, marked, record, watchVars, queue, todo, pc, stack, found,
                           unseen, lost, policy>>
  PROVE  CoveredInv' /\ EventsInv' /\ RecordInv' /\ MarkingInv'
<1>1. /\ Events' = Events
      /\ \A q : At(q)' = At(q)
  BY DEF Events, At
<1>2. \A q : NotLive(q)' <=> NotLive(q)
  BY <1>1 DEF NotLive, IsWatching, watchVars
<1>3. \A q : Excused(q)' <=> Excused(q)
  BY <1>1, <1>2 DEF Excused, Unannounced, InHand, Pending, Tells, Blind, InWalk
<1>4. \A q : InOrder(q)' <=> InOrder(q)
  BY <1>2 DEF InOrder, Asked, Grows, ShowsNoMark, Pruned, watchVars
<1>5. CoveredInv'
  BY <1>3, <1>4 DEF GInv, CoveredInv
<1>6. EventsInv'
  BY <1>1 DEF GInv, EventsInv, watchVars
<1>7. RecordInv' /\ MarkingInv'
  BY DEF GInv, RecordInv, MarkingInv, Grows, Recorded
<1> QED
  BY <1>5, <1>6, <1>7

\* If some watch covers a path there is a first one.
LEMMA FirstCovering ==
  ASSUME NEW pol \in Seq(WatchPolicy), NEW p, NEW k \in DOMAIN pol, Covers(pol[k], p)
  PROVE  \E j \in DOMAIN pol : pol[j] \in Covering(pol, p) /\ Covers(pol[j], p)
<1> DEFINE hits == {i \in DOMAIN pol : Covers(pol[i], p)}
           back == {m \in 1 .. Len(pol) : (Len(pol) + 1) - m \in hits}
<1>1. Len(pol) \in Nat /\ DOMAIN pol = 1 .. Len(pol) /\ k \in hits
  BY LenProperties
<1>2. back \in SUBSET Nat /\ IsFiniteSet(back)
  <2>1. back \subseteq 1 .. Len(pol) /\ back \in SUBSET Nat
    BY <1>1
  <2>2. IsFiniteSet(1 .. Len(pol))
    BY <1>1, FS_Interval
  <2> QED
    BY <2>1, <2>2, FS_Subset
<1>3. (Len(pol) + 1) - k \in back
  <2>1. (Len(pol) + 1) - k \in 1 .. Len(pol) /\ (Len(pol) + 1) - ((Len(pol) + 1) - k) = k
    BY <1>1
  <2> QED
    BY <1>1, <2>1
<1> DEFINE m == Max(back)
           j == (Len(pol) + 1) - m
<1>4. m \in back /\ \A n \in back : n <= m
  BY <1>2, <1>3, FiniteHasMax
<1> HIDE DEF m
<1>5. j \in hits
  BY <1>4
<1>6. ASSUME NEW i \in hits PROVE j <= i
  <2>1. i \in 1 .. Len(pol) /\ (Len(pol) + 1) - ((Len(pol) + 1) - i) = i
        /\ (Len(pol) + 1) - i \in 1 .. Len(pol)
    BY <1>1
  <2>2. (Len(pol) + 1) - i \in back
    BY <2>1
  <2>3. (Len(pol) + 1) - i <= m /\ m \in 1 .. Len(pol)
    BY <1>4, <2>2
  <2> QED
    BY <1>1, <2>1, <2>3
<1>7. pol[j] \in Covering(pol, p)
  BY <1>5, <1>6 DEF Covering
<1> QED
  BY <1>5, <1>7

------------------------------------------------------------------------------
(* The steps that change the tree. *)

\* An arrival leaves the directories elsewhere in order or excused.
LEMMA ArrivalKeepsOld ==
  ASSUME TInv, TInv', NEW p \in Place, NEW N, Arrival(p, N),
         NEW P \in DOMAIN tree', tree'[P] \notin N
  PROVE  /\ P \in DOMAIN tree /\ tree'[P] = tree[P] /\ tree[P] \notin N
         /\ Excused(P) => Excused(P)'
         /\ InOrder(P) => InOrder(P)'
<1>1. /\ \A r \in DOMAIN tree' : tree'[r] \notin N =>
              r \in DOMAIN tree /\ tree'[r] = tree[r] /\ tree[r] \notin N
      /\ TreeTyped /\ TreeTyped'
      /\ UNCHANGED <<config, markVars, watchVars, walkVars, policy, reload, pc, lost>>
  BY DEF Arrival, TInv
<1>2. P \in DOMAIN tree /\ tree'[P] = tree[P] /\ tree[P] \notin N
  BY <1>1
<1>3. unseen \ N \subseteq unseen'
  BY DEF Arrival, Arrive
<1>4. Events \subseteq Events'
  <2>1. Range(queue) \subseteq Range(queue')
    BY AnnounceIs DEF Arrival, Arrive
  <2> QED
    BY <1>1, <2>1 DEF Events, walkVars
<1>5. ASSUME NEW q \in DOMAIN tree, IsPrefix(q, P)
      PROVE  /\ q \in DOMAIN tree' /\ tree'[q] = tree[q]
             /\ tree[q] \in unseen => tree[q] \in unseen'
             /\ tree[q] \in watched' => tree[q] \in watched
  <2>1. q \in Names /\ q # <<>> /\ P \in Names
    BY <1>1, <1>2, PlacesAreNames DEF TreeTyped
  <2>2. q \in DOMAIN tree'
    <3>1. Len(q) \in 1 .. Len(P) /\ q = SubSeq(P, 1, Len(q))
      BY <1>5, <2>1, CutIsPrefix, EmptySeq DEF Names
    <3> QED
      BY <1>1, <3>1 DEF TreeTyped, TreeClosed
  <2>3. tree'[q] = tree[q] /\ tree[q] \notin N
    BY <2>2 DEF Arrival
  <2> QED
    BY <1>1, <1>3, <2>2, <2>3 DEF watchVars
<1>6. Excused(P) => Excused(P)'
  BY <1>1, <1>2, <1>4, <1>5, ExcusedKept DEF walkVars, watchVars, markVars
<1>7. InOrder(P) => InOrder(P)'
  BY <1>1, <1>2, InOrderKept DEF watchVars, markVars
<1> QED
  BY <1>2, <1>6, <1>7

\* What arrives outside a re-mark is excused: it is announced, or it is unseen, or the
\* directory it arrived in is itself not live or excused.
LEMMA ArrivalExcuses ==
  ASSUME GInv, TInv', NEW p \in Place, NEW N, Arrival(p, N), pc # "mark_all",
         NEW P \in DOMAIN tree', tree'[P] \in N
  PROVE  Excused(P)'
<1>1. /\ TInv /\ TreeTyped /\ TreeTyped' /\ Announce(p) /\ Arrive(p, N)
      /\ UNCHANGED <<config, markVars, watchVars, walkVars, policy, reload, pc, lost>>
      /\ Front(p) \in DOMAIN tree => tree[Front(p)] \notin N
      /\ \A r \in DOMAIN tree : tree[r] \notin N => r \in DOMAIN tree'
      /\ \A r \in DOMAIN tree' \cap DOMAIN tree : tree'[r] = tree[r] /\ tree[r] \notin N
  BY DEF Arrival, Arrive, TInv, GInv, PInv
<1>2. P \notin DOMAIN tree /\ IsPrefix(p, P)
  BY DEF Arrival
<1>3. /\ p \in Names /\ p # <<>> /\ P \in Names /\ P # <<>> /\ Front(p) \in Names
      /\ IsPrefix(Front(p), p) /\ Front(p) # p /\ Append(Front(p), Last(p)) = p
      /\ IsPrefix(Front(p), P) /\ Front(p) # P
  <2>1. p \in Names /\ p # <<>> /\ P \in Names /\ P # <<>>
    BY <1>1, PlacesAreNames DEF TreeTyped
  <2>2. /\ Front(p) \in Names /\ IsPrefix(Front(p), p) /\ Front(p) # p
        /\ Append(Front(p), Last(p)) = p
    BY <2>1, FrontLast
  <2>3. IsPrefix(Front(p), P) /\ Front(p) # P
    BY <1>2, <2>1, <2>2, PrefixOrder
  <2> QED
    BY <2>1, <2>2, <2>3
<1>4. CASE IsAnnounced(p)
  <2>1. /\ Front(p) \in DOMAIN tree
        /\ Told(p) \in Event \ {Overflow}
        /\ Told(p) \in Range(queue') \/ Overflow \in Range(queue')
    BY <1>1, <1>4, AnnounceIs
  <2>2. Told(p) \in Events' \/ Overflow \in Events'
    BY <2>1 DEF Events
  <2>3. Front(p) \in DOMAIN tree' /\ tree'[Front(p)] = tree[Front(p)]
    BY <1>1, <2>1
  <2>4. Told(p).wd = {tree'[Front(p)]} /\ Told(p).name = Last(p)
    BY <2>3 DEF Told
  <2>5. PICK t : t = Told(p)
    OBVIOUS
  <2>6. Tells(t, P)'
    BY <1>2, <1>3, <2>3, <2>4, <2>5 DEF Tells
  <2> QED
    BY <2>1, <2>2, <2>5, <2>6 DEF Excused, Pending
<1>5. CASE ~IsAnnounced(p) /\ (pc \in {"build", "live"} \/ Front(p) \notin Followed)
  <2>1. tree'[P] \in unseen'
    BY <1>1, <1>5 DEF Arrive
  <2>2. CASE InHand(P)'
    <3>1. pc' = "live" /\ P \in found'
      BY <1>1, <2>2 DEF InHand, TInv, WalkTyped, Walking, walkVars
    <3> QED
      BY <3>1 DEF Excused, InWalk
  <2>3. CASE ~ InHand(P)'
    <3>1. IsPrefix(P, P)
      BY <1>3, PrefixOrder
    <3> QED
      BY <2>1, <2>3, <3>1 DEF Excused, Unannounced
  <2> QED
    BY <2>2, <2>3
<1>6. CASE ~IsAnnounced(p) /\ ~(pc \in {"build", "live"} \/ Front(p) \notin Followed)
  <2> DEFINE f == Front(p)
  <2>1. f \in DOMAIN tree /\ Grows(f) /\ At(f) = {tree[f]} /\ tree[f] \in Node
    BY <1>1, <1>6, MarkAllIs, AtIs
  <2>2. tree[f] \notin watched /\ tree[f] \notin N /\ f \in DOMAIN tree' /\ tree'[f] = tree[f]
    BY <1>1, <1>6, <2>1 DEF IsAnnounced
  <2>3. ~Walking /\ ~Walking' /\ found' = {} /\ pc' # "build"
    BY <1>1, <1>6 DEF TInv, WalkTyped, Walking, walkVars
  <2>4. CASE InOrder(f)
    <3>1. NotLive(f)
      BY <2>1, <2>2, <2>4 DEF InOrder
    <3>2. At(f)' = {tree[f]}
      <4>1. At(f)' = {tree'[q] : q \in DOMAIN tree' \cap {f}}
        BY DEF At
      <4> QED
        BY <2>2, <4>1
    <3>3. NotLive(f)'
      BY <1>1, <2>2, <3>1, <3>2 DEF NotLive, watchVars, markVars
    <3>4. f \in Above(P)
      <4>1. f # <<>>
        BY <1>1, <2>1, PlacesAreNames DEF TreeTyped
      <4> QED
        BY <1>3, <4>1, AboveIs
    <3> QED
      BY <2>3, <3>3, <3>4 DEF Excused, Blind
  <2>5. CASE Excused(f)
    <3>1. Excused(f)'
      BY <1>1, <2>2, <2>5, ArrivalKeepsOld
    <3> QED
      BY <1>3, <2>2, <2>3, <3>1, ExcusedBelowNext DEF ExcusesGoDown
  <2> QED
    BY <2>1, <2>4, <2>5 DEF GInv, CoveredInv
<1> QED
  BY <1>4, <1>5, <1>6

\* An arrival keeps GInv.
LEMMA ArrivalCovered ==
  ASSUME GInv, TInv', NEW p \in Place, NEW N, Arrival(p, N)
  PROVE  CoveredInv' /\ EventsInv' /\ RecordInv' /\ MarkingInv'
<1>1. /\ TInv /\ TreeTyped /\ TreeTyped' /\ Announce(p) /\ Arrive(p, N)
      /\ UNCHANGED <<config, markVars, watchVars, walkVars, policy, reload, pc, lost>>
      /\ N \subseteq spare \cup Range(tree) /\ N \cap spare' = {} /\ spare' \subseteq spare
  BY DEF Arrival, Arrive, TInv, GInv, PInv
<1>2. CoveredInv'
  <2> SUFFICES ASSUME pc # "mark_all", NEW P \in DOMAIN tree' PROVE InOrder(P)' \/ Excused(P)'
    BY <1>1 DEF CoveredInv
  <2>1. CASE tree'[P] \in N
    BY <2>1, ArrivalExcuses
  <2>2. CASE tree'[P] \notin N
    BY <1>1, <2>2, ArrivalKeepsOld DEF GInv, CoveredInv
  <2> QED
    BY <2>1, <2>2
<1>3. EventsInv'
  <2> SUFFICES ASSUME NEW e \in Events' \ {Overflow}
               PROVE  /\ e.wd \cap spare' = {}
                      /\ \A q \in DOMAIN tree' : e.wd = {tree'[q]} => tree'[q] \in watched
    BY <1>1 DEF EventsInv, watchVars
  <2>1. \/ e \in Events \ {Overflow}
        \/ e.wd = {tree[Front(p)]} /\ Front(p) \in DOMAIN tree /\ tree[Front(p)] \in watched
    <3>1. \/ Range(queue') \subseteq Range(queue) \cup {Overflow}
          \/ /\ Range(queue') \subseteq Range(queue) \cup {Told(p)}
             /\ Front(p) \in DOMAIN tree /\ tree[Front(p)] \in watched
      BY <1>1, AnnounceIs
    <3>2. Told(p).wd = {tree[Front(p)]}
      BY DEF Told
    <3> QED
      BY <1>1, <3>1, <3>2 DEF Events, walkVars
  <2>2. CASE e \in Events \ {Overflow}
    <3>1. e.wd \cap spare = {} /\ \A q \in DOMAIN tree : e.wd = {tree[q]} => tree[q] \in watched
      BY <2>2 DEF GInv, EventsInv
    <3>2. ASSUME NEW q \in DOMAIN tree', e.wd = {tree'[q]} PROVE tree'[q] \in watched
      <4>1. tree'[q] \in Range(tree)
        BY <1>1, <3>1, <3>2 DEF Arrival, Range
      <4> QED
        BY <3>1, <3>2, <4>1 DEF Range
    <3> QED
      BY <1>1, <3>1, <3>2
  <2>3. CASE e.wd = {tree[Front(p)]} /\ Front(p) \in DOMAIN tree /\ tree[Front(p)] \in watched
    <3>1. tree[Front(p)] \notin spare
      BY <1>1, <2>3 DEF TreeTyped, Range
    <3> QED
      BY <1>1, <2>3, <3>1
  <2> QED
    BY <2>1, <2>2, <2>3
<1>4. RecordInv'
  BY <1>1 DEF GInv, RecordInv, Grows, markVars
<1>5. MarkingInv'
  <2> SUFFICES ASSUME pc = "mark_all", NEW P \in DOMAIN tree', NEW i \in DOMAIN policy,
                      Asks(policy[i], P)
               PROVE  \/ policy[i] \in Range(todo) \/ tree'[P] \in unseen'
                      \/ P \in found \/ \E d \in stack : IsPrefix(d, P)
                      \/ Recorded(policy[i], P)'
    BY <1>1 DEF MarkingInv, walkVars
  <2>1. unseen' = unseen \cup N
    BY <1>1 DEF Arrive
  <2>2. CASE tree'[P] \in N
    BY <2>1, <2>2
  <2>3. CASE tree'[P] \notin N
    <3>1. P \in DOMAIN tree /\ tree'[P] = tree[P]
      BY <1>1, <2>3, ArrivalKeepsOld
    <3>2. Recorded(policy[i], P) => Recorded(policy[i], P)'
      BY <1>1, <3>1 DEF Recorded, markVars
    <3> QED
      BY <2>1, <3>1, <3>2 DEF GInv, MarkingInv
  <2> QED
    BY <2>2, <2>3
<1> QED
  BY <1>2, <1>3, <1>4, <1>5

\* A removal keeps GInv.
LEMMA RemovalCovered ==
  ASSUME GInv, TInv', NEW p \in Place, Removal(p)
  PROVE  CoveredInv' /\ EventsInv' /\ RecordInv' /\ MarkingInv'
<1>1. /\ TInv /\ TreeTyped /\ TreeTyped' /\ p \in DOMAIN tree
      /\ DOMAIN tree' = DOMAIN tree \ {p}
      /\ \A r \in DOMAIN tree' : tree'[r] = tree[r] /\ ~ IsPrefix(p, r)
      /\ marked' = marked \ {tree[p]} /\ watched' = watched \ {tree[p]}
      /\ UNCHANGED <<spare, config, wd_map, record, walkVars, queue, policy, reload, pc,
                     unseen, lost>>
  BY DEF Removal, TInv, GInv, PInv
<1>2. \A r \in DOMAIN tree' : r \in DOMAIN tree /\ tree[r] # tree[p]
  BY <1>1 DEF TreeTyped, IsInjective
<1>3. Events' = Events
  BY <1>1 DEF Events, walkVars
<1>4. CoveredInv'
  <2> SUFFICES ASSUME pc # "mark_all", NEW P \in DOMAIN tree' PROVE InOrder(P)' \/ Excused(P)'
    BY <1>1 DEF CoveredInv
  <2>1. \A q \in DOMAIN tree : IsPrefix(q, P) => q \in DOMAIN tree' /\ tree'[q] = tree[q]
    BY <1>1
  <2>2. Excused(P) => Excused(P)'
    BY <1>1, <1>2, <1>3, <2>1, ExcusedKept DEF walkVars
  <2>3. InOrder(P) => InOrder(P)'
    BY <1>1, <1>2, InOrderKept
  <2> QED
    BY <1>2, <2>2, <2>3 DEF GInv, CoveredInv
<1>5. EventsInv'
  BY <1>1, <1>2, <1>3 DEF GInv, EventsInv
<1>6. RecordInv'
  BY <1>1 DEF GInv, RecordInv, Grows
<1>7. MarkingInv'
  <2> SUFFICES ASSUME pc = "mark_all", NEW P \in DOMAIN tree', NEW i \in DOMAIN policy,
                      Asks(policy[i], P)
               PROVE  \/ policy[i] \in Range(todo) \/ tree[P] \in unseen
                      \/ P \in found \/ \E d \in stack : IsPrefix(d, P)
                      \/ Recorded(policy[i], P)'
    BY <1>1 DEF MarkingInv, walkVars
  <2>1. P \in DOMAIN tree /\ (Recorded(policy[i], P) => Recorded(policy[i], P)')
    BY <1>1, <1>2 DEF Recorded
  <2> QED
    BY <2>1 DEF GInv, MarkingInv
<1> QED
  BY <1>4, <1>5, <1>6, <1>7

------------------------------------------------------------------------------
(* The steps of the daemon. *)

\* The poll, the end of a phase and a reload keep GInv.
LEMMA LoopCovered ==
  ASSUME GInv, Poll \/ Done \/ CheckReload
  PROVE  CoveredInv' /\ EventsInv' /\ RecordInv' /\ MarkingInv'
<1>1. TInv /\ CoveredInv /\ EventsInv /\ RecordInv /\ MarkingInv
  BY DEF GInv, PInv
<1>2. CASE CheckReload /\ reload /\ config # {}
  <2>1. /\ todo' = policy' /\ record' = <<>> /\ pc' = "mark_all" /\ pc = "reload"
        /\ UNCHANGED <<worldVars, watchVars, queue>>
    BY <1>2 DEF CheckReload
  <2>2. CoveredInv' /\ RecordInv'
    BY <2>1 DEF CoveredInv, RecordInv
  <2>3. EventsInv'
    BY <1>1, <2>1 DEF EventsInv, Events, worldVars, watchVars
  <2>4. MarkingInv'
    BY <2>1 DEF MarkingInv, Range
  <2> QED
    BY <2>2, <2>3, <2>4
<1>3. CASE ~ (CheckReload /\ reload /\ config # {})
  <2>1. /\ ~Walking /\ pc # "mark_all" /\ pc' # "mark_all" /\ pc' # "build" /\ Events' = Events
        /\ UNCHANGED <<tree, spare, marked, record, watchVars, stack, found, unseen, lost, policy>>
    <3>1. CASE Poll
      <4>1. /\ pc = "poll" /\ (pc' = "live" \/ pc' = "reload")
            /\ \/ todo' = queue /\ queue' = <<>> /\ pc' = "live"
               \/ pc' = "reload" /\ UNCHANGED queue
            /\ UNCHANGED <<tree, spare, marked, record, watchVars, stack, found, unseen, lost, policy>>
        BY <3>1 DEF Poll, worldVars, markVars
      <4>2. Events' = Events
        BY <4>1 DEF Events, Range
      <4> QED
        BY <1>1, <4>1, <4>2 DEF TInv, WalkTyped
    <3>2. CASE Done
      <4>1. /\ pc \in {"build", "live"} /\ ~Walking /\ todo = <<>> /\ pc' \in {"poll", "reload"}
            /\ UNCHANGED <<queue, tree, spare, marked, record, watchVars, stack, found, unseen, lost,
                           policy>>
        BY <3>2 DEF Done, worldVars, markVars, walkVars
      <4>2. Events' = Events
        BY <4>1 DEF Events, Range
      <4> QED
        BY <4>1, <4>2
    <3>3. CASE CheckReload
      <4>1. /\ pc = "reload" /\ pc' = "poll"
            /\ UNCHANGED <<queue, tree, spare, marked, record, watchVars, stack, found, unseen, lost,
                           policy>>
        BY <1>3, <3>3 DEF CheckReload, worldVars
      <4>2. Events' = Events
        BY <4>1 DEF Events
      <4> QED
        BY <1>1, <4>1, <4>2 DEF TInv, WalkTyped
    <3> QED
      BY <3>1, <3>2, <3>3
  <2>2. found = {} /\ stack = {} /\ found' = {} /\ stack' = {}
    BY <2>1 DEF Walking
  <2>3. \A q : At(q)' = At(q)
    BY <2>1 DEF At
  <2>4. \A q : NotLive(q)' <=> NotLive(q)
    BY <2>1, <2>3 DEF NotLive, IsWatching, watchVars
  <2>5. \A q : Excused(q) => Excused(q)'
    BY <2>1, <2>2, <2>4
       DEF Excused, Unannounced, InHand, Pending, Tells, Blind, InWalk
  <2>6. \A q : InOrder(q)' <=> InOrder(q)
    BY <2>1, <2>4 DEF InOrder, Asked, Grows, ShowsNoMark, Pruned, watchVars
  <2>7. CoveredInv'
    BY <1>1, <2>1, <2>5, <2>6 DEF CoveredInv
  <2>8. EventsInv'
    BY <1>1, <2>1 DEF EventsInv, watchVars
  <2>9. RecordInv' /\ MarkingInv'
    BY <1>1, <2>1 DEF RecordInv, MarkingInv, Grows
  <2> QED
    BY <2>7, <2>8, <2>9
<1> QED
  BY <1>2, <1>3

\* Reading a directory of a walk leaves what lies below it to the walk, or it is pruned.
LEMMA ReadDirAdvances ==
  ASSUME PoliciesAgree, PInv, NEW d \in stack, ReadDir(d), NEW P \in DOMAIN tree,
         NEW s \in stack, IsPrefix(s, P)
  PROVE  \/ P \in found' \/ \E r \in stack' : IsPrefix(r, P)
         \/ \E c \in Names : IsPrefix(c, P) /\ Pruned(c)
<1>1. /\ TInv /\ WalkTyped /\ TreeTyped /\ ControlTyped
      /\ stack \subseteq found /\ found \subseteq Names
  BY DEF PInv, TInv, WalkTyped
<1>2. /\ stack' = (stack \ {d}) \cup {q \in Children(d) : ~IsExcluded(Head(by), q)}
      /\ found \subseteq found'
  BY DEF ReadDir
<1>3. CASE s # d
  BY <1>2, <1>3
<1>4. CASE P = d
  BY <1>1, <1>2, <1>4
<1>5. CASE s = d /\ P # d
  <2> DEFINE c == SubSeq(P, 1, Len(d) + 1)
  <2>1. P \in Names /\ d \in Names
    BY <1>1, PlacesAreNames DEF TreeTyped
  <2>2. /\ c \in Names /\ Len(c) = Len(d) + 1 /\ IsPrefix(d, c) /\ IsPrefix(c, P)
        /\ Len(d) + 1 \in 1 .. Len(P)
    BY <1>5, <2>1, BelowFront
  <2>3. c \in DOMAIN tree
    BY <1>1, <2>2 DEF TreeTyped, TreeClosed
  <2>4. c \in Children(d)
    BY <2>2, <2>3 DEF Children
  <2> HIDE DEF c
  <2>5. CASE ~ IsExcluded(Head(by), c)
    BY <1>2, <2>2, <2>4, <2>5
  <2>6. CASE IsExcluded(Head(by), c)
    <3>1. PICK i \in DOMAIN policy :
            by = <<policy[i]>> /\ Asks(policy[i], d) /\ Recursive(policy[i])
      BY <1>1 DEF PInv, WalkInv, Walking
    <3>2. policy[i] \in WatchPolicy /\ policy[i].root \in Names
      BY <1>1, AgreeNow, WatchRoot
    <3>3. Covers(policy[i], d) /\ Covers(policy[i], c) /\ c # policy[i].root
      <4>1. Covers(policy[i], d)
        BY <2>1, <3>1, <3>2, AsksCovers
      <4>2. Covers(policy[i], c)
        BY <2>1, <2>2, <3>2, <4>1, PrefixOrder DEF Covers
      <4>3. Len(policy[i].root) <= Len(d) /\ Len(d) \in Nat
        BY <2>1, <3>2, <4>1, CutIsPrefix DEF Covers
      <4> QED
        BY <2>2, <4>1, <4>2, <4>3
    <3>4. ~ Follows(policy[i], c)
      <4>1. IsPrefix(c, c) /\ Head(by) = policy[i]
        BY <2>2, <3>1, PrefixOrder
      <4> QED
        BY <2>2, <2>6, <3>2, <3>3, <4>1, ExcludedAbove
    <3> QED
      BY <2>2, <3>1, <3>3, <3>4 DEF Pruned, PrunedBy
  <2> QED
    BY <2>5, <2>6
<1> QED
  BY <1>3, <1>4, <1>5

\* Reading a directory keeps GInv.
LEMMA ReadDirCovered ==
  ASSUME PoliciesAgree, GInv, NEW d \in stack, ReadDir(d)
  PROVE  CoveredInv' /\ EventsInv' /\ RecordInv' /\ MarkingInv'
<1>1. PInv /\ TInv /\ CoveredInv /\ EventsInv /\ RecordInv /\ MarkingInv
  BY DEF GInv, PInv
<1>2. /\ stack' = (stack \ {d}) \cup {q \in Children(d) : ~IsExcluded(Head(by), q)}
      /\ found' = found \cup {q \in Children(d) : ~IsExcluded(Head(by), q)}
      /\ UNCHANGED <<worldVars, markVars, watchVars, todo, by, queue, policy, reload, pc,
                     budget, unseen, lost>>
  BY DEF ReadDir
<1>3. Events' = Events /\ \A q : At(q)' = At(q)
  BY <1>2 DEF Events, At, worldVars
<1>4. \A q : NotLive(q)' <=> NotLive(q)
  BY <1>2, <1>3 DEF NotLive, IsWatching, watchVars, markVars
<1>5. \A q : InOrder(q)' <=> InOrder(q)
  BY <1>2, <1>4 DEF InOrder, Asked, Grows, ShowsNoMark, Pruned, watchVars, markVars, worldVars
<1>6. EventsInv' /\ RecordInv'
  BY <1>1, <1>2, <1>3 DEF EventsInv, RecordInv, Grows, watchVars, markVars, worldVars
<1>7. MarkingInv'
  <2> SUFFICES ASSUME pc = "mark_all", NEW P \in DOMAIN tree, NEW i \in DOMAIN policy,
                      Asks(policy[i], P)
               PROVE  \/ policy[i] \in Range(todo) \/ tree[P] \in unseen
                      \/ P \in found' \/ \E r \in stack' : IsPrefix(r, P)
                      \/ Recorded(policy[i], P)
    BY <1>2 DEF MarkingInv, Recorded, markVars, worldVars
  <2>1. Asked(P)
    BY DEF Asked
  <2>2. ASSUME NEW s \in stack, IsPrefix(s, P)
        PROVE  P \in found' \/ \E r \in stack' : IsPrefix(r, P)
    BY <1>1, <2>1, <2>2, ReadDirAdvances, PrunedInOrder DEF PrunedGoesDown
  <2> QED
    BY <1>1, <1>2, <2>2 DEF MarkingInv
<1>8. CoveredInv'
  <2> SUFFICES ASSUME pc # "mark_all", NEW P \in DOMAIN tree PROVE InOrder(P)' \/ Excused(P)'
    BY <1>2 DEF CoveredInv, worldVars
  <2>1. CASE InOrder(P)
    BY <1>5, <2>1
  <2>2. CASE Excused(P) /\ pc = "build"
    BY <1>2, <1>3, <1>4, <2>2
       DEF Excused, Unannounced, InHand, Pending, Tells, Blind, InWalk, worldVars
  <2>3. CASE Excused(P) /\ pc = "live"
    <3>1. \A q \in found' : q \in found \/ q \in stack'
      BY <1>2
    <3>2. (\E q \in stack' : IsPrefix(q, P)) => Excused(P)'
      BY <1>2, <2>3 DEF Excused, InWalk
    <3>3. CASE Unannounced(P)
      <4>1. PICK q \in DOMAIN tree : IsPrefix(q, P) /\ ~InHand(q) /\ tree[q] \in unseen
        BY <3>3 DEF Unannounced
      <4>2. CASE q \in stack'
        BY <3>2, <4>1, <4>2
      <4>3. CASE q \notin stack'
        <5>1. ~ InHand(q)'
          BY <1>2, <3>1, <4>1, <4>3 DEF InHand
        <5> QED
          BY <1>2, <4>1, <5>1 DEF Excused, Unannounced, worldVars
      <4> QED
        BY <4>2, <4>3
    <3>4. CASE Blind(P)
      <4>1. PICK q \in Above(P) : q \notin found /\ NotLive(q)
        BY <3>4 DEF Blind
      <4>2. CASE q \in stack'
        <5>1. q \in Names /\ P \in Names
          BY <1>1, <4>1, PlacesAreNames DEF NotLive, TInv, MarksTyped, TreeTyped
        <5>2. IsPrefix(q, P)
          BY <4>1, <5>1, AboveIs
        <5> QED
          BY <3>2, <4>2, <5>2
      <4>3. CASE q \notin stack'
        BY <1>2, <1>4, <2>3, <3>1, <4>1, <4>3 DEF Excused, Blind
      <4> QED
        BY <4>2, <4>3
    <3>5. CASE InWalk(P)
      <4>1. CASE P \in found
        BY <1>2, <2>3, <4>1 DEF Excused, InWalk
      <4>2. ASSUME NEW s \in stack, IsPrefix(s, P) PROVE InOrder(P)' \/ Excused(P)'
        <5>1. CASE P \in found' \/ \E r \in stack' : IsPrefix(r, P)
          BY <1>2, <2>3, <5>1 DEF Excused, InWalk
        <5>2. ASSUME NEW c \in Names, IsPrefix(c, P), Pruned(c) PROVE InOrder(P)'
          BY <1>1, <1>2, <5>2, PrunedStays
        <5> QED
          BY <1>1, <4>2, <5>1, <5>2, ReadDirAdvances
      <4> QED
        BY <3>5, <4>1, <4>2 DEF InWalk
    <3>6. CASE Pending(P) \/ lost \/ Overflow \in Events
      BY <1>2, <1>3, <3>6 DEF Excused, Pending, Tells, worldVars
    <3> QED
      BY <2>3, <3>3, <3>4, <3>5, <3>6 DEF Excused
  <2>4. pc \in {"build", "live"}
    BY <1>1 DEF TInv, WalkTyped, Walking
  <2> QED
    BY <1>1, <2>1, <2>2, <2>3, <2>4 DEF CoveredInv
<1> QED
  BY <1>6, <1>7, <1>8

\* The record of the directory handled says recursive when any watch follows it.
LEMMA HandleRecords ==
  ASSUME PoliciesAgree, PInv, NEW d \in found, Handle(d)
  PROVE  \E k \in DOMAIN policy :
           /\ Asks(policy[k], d) /\ Head(by) = policy[k]
           /\ pc # "mark_all" => Recursive(policy[k])
           /\ d \in Place /\ Grows(d) => Recursive(policy[k])
<1>1. TInv /\ Walking /\ ControlTyped
  BY DEF PInv, TInv, Walking
<1>2. PICK k \in DOMAIN policy :
        /\ by = <<policy[k]>> /\ Asks(policy[k], d)
        /\ stack # {} \/ pc # "mark_all" => Recursive(policy[k])
  BY <1>1 DEF PInv, WalkInv
<1>3. ASSUME d \in Place, Grows(d) PROVE Recursive(policy[k])
  <2>1. PICK i \in DOMAIN policy : Follows(policy[i], d)
    BY <1>3 DEF Grows
  <2>2. Covers(policy[k], d)
    BY <1>1, <1>2, AgreeNow, AsksCovers DEF TInv, WalkTyped
  <2> QED
    BY <1>1, <1>3, <2>1, <2>2, AgreeNow DEF Follows
<1> QED
  BY <1>2, <1>3

\* Handling a directory leaves the others in order.
LEMMA HandleElsewhere ==
  ASSUME TInv, NEW d \in found, Handle(d), NEW P \in DOMAIN tree, P # d, InOrder(P)
  PROVE  InOrder(P)'
<1>1. TreeTyped
  BY DEF TInv
<1>2. /\ UNCHANGED <<worldVars, policy>>
      /\ \E mark, add \in BOOLEAN :
           /\ IF pc = "build" THEN UNCHANGED markVars ELSE MarkDir(d, mark)
           /\ IF pc = "mark_all" THEN UNCHANGED watchVars ELSE Add(d, add)
  BY HandleIs
<1>3. d \in DOMAIN tree => tree[P] # tree[d]
  BY <1>1 DEF TreeTyped, IsInjective
<1>4. /\ tree[P] \in marked => tree[P] \in marked'
      /\ P \in DOMAIN record' <=> P \in DOMAIN record
      /\ P \in DOMAIN record => record'[P] = record[P]
  <2>1. CASE pc = "build"
    BY <1>2, <2>1 DEF markVars
  <2>2. CASE pc # "build"
    <3>1. PICK mark \in BOOLEAN : MarkDir(d, mark)
      BY <1>2, <2>2
    <3>2. /\ marked \subseteq marked' /\ DOMAIN record' = DOMAIN record \cup {d}
          /\ \A p \in DOMAIN record \ {d} : record'[p] = record[p]
      BY <1>1, <3>1, MarkDirIs
    <3>3. P \in DOMAIN record' <=> P \in DOMAIN record
      BY <3>2
    <3>4. P \in DOMAIN record => record'[P] = record[P]
      BY <3>2
    <3> QED
      BY <3>2, <3>3, <3>4
  <2> QED
    BY <2>1, <2>2
<1>5. /\ tree[P] \in watched' <=> tree[P] \in watched
      /\ tree[P] \in watched => wd_map'[tree[P]] = wd_map[tree[P]]
  <2>1. CASE pc = "mark_all" \/ UNCHANGED watchVars
    BY <1>2, <2>1 DEF watchVars
  <2>2. CASE pc # "mark_all" /\ ~ UNCHANGED watchVars
    <3>1. /\ d \in DOMAIN tree /\ watched' = watched \cup {tree[d]}
          /\ \A n \in DOMAIN wd_map \ {tree[d]} : wd_map'[n] = wd_map[n]
      BY <1>1, <1>2, <2>2, AddIs
    <3> QED
      BY <1>3, <3>1 DEF TInv, MarksTyped
  <2> QED
    BY <2>1, <2>2
<1>6. At(P) = {tree[P]} /\ At(P)' = {tree[P]}
  <2>1. At(P)' = At(P)
    BY <1>2 DEF At, worldVars
  <2> QED
    BY <1>1, <2>1, AtIs
<1>7. /\ Asked(P)' <=> Asked(P)
      /\ Grows(P)' <=> Grows(P)
      /\ Pruned(P)' <=> Pruned(P)
  BY <1>2 DEF Asked, Grows, Pruned
<1>8. Grows(P) => tree[P] \in watched' \/ NotLive(P)'
  <2>1. tree[P] \notin watched /\ NotLive(P) => NotLive(P)'
    BY <1>4, <1>5, <1>6 DEF NotLive
  <2> QED
    BY <1>5, <2>1 DEF InOrder
<1>9. ShowsNoMark(P) => ShowsNoMark(P)'
  BY <1>4 DEF ShowsNoMark
<1>10. tree'[P] = tree[P]
  BY <1>2 DEF worldVars
<1> QED
  BY <1>4, <1>5, <1>7, <1>8, <1>9, <1>10 DEF InOrder

\* Handling a directory keeps GInv: it is then in order.
LEMMA HandleCovered ==
  ASSUME PoliciesAgree, GInv, NEW d \in found, Handle(d)
  PROVE  CoveredInv' /\ EventsInv' /\ RecordInv' /\ MarkingInv'
<1>1. PInv /\ TInv /\ TreeTyped /\ CoveredInv /\ EventsInv /\ RecordInv /\ MarkingInv
  BY DEF GInv, PInv, TInv
<1>2. /\ stack = {} /\ found' = found \ {d} /\ d \in Names
      /\ pc \in {"mark_all", "build", "live"}
      /\ unseen' = IF pc = "build" THEN unseen ELSE unseen \ At(d)
      /\ UNCHANGED <<worldVars, todo, by, stack, queue, policy, reload, pc, lost>>
  BY <1>1, HandleIs
<1>3. PICK mark, add \in BOOLEAN :
        /\ IF pc = "build" THEN UNCHANGED markVars ELSE MarkDir(d, mark)
        /\ IF pc = "mark_all" THEN UNCHANGED watchVars ELSE Add(d, add)
  BY <1>1, HandleIs
<1>4. PICK k \in DOMAIN policy :
        /\ Asks(policy[k], d) /\ Head(by) = policy[k]
        /\ pc # "mark_all" => Recursive(policy[k])
        /\ d \in Place /\ Grows(d) => Recursive(policy[k])
  BY <1>1, HandleRecords
<1>5. Events' = Events /\ \A q : At(q)' = At(q)
  BY <1>2 DEF Events, At, worldVars
<1>6. watched \subseteq watched'
  <2>1. CASE UNCHANGED watchVars
    BY <2>1 DEF watchVars
  <2>2. CASE ~ UNCHANGED watchVars
    BY <1>1, <1>3, <2>2, AddIs
  <2> QED
    BY <2>1, <2>2
<1>7. EventsInv'
  BY <1>1, <1>2, <1>5, <1>6 DEF EventsInv, worldVars
<1>8. pc # "build" =>
        /\ marked \subseteq marked'
        /\ d \in DOMAIN tree => (tree[d] \in marked' <=> mark \/ tree[d] \in marked)
        /\ DOMAIN record' = DOMAIN record \cup {d}
        /\ record'[d] = [recursive |-> Recursive(policy[k]), ok |-> mark]
        /\ \A p \in DOMAIN record \ {d} : record'[p] = record[p]
  BY <1>1, <1>3, <1>4, MarkDirIs
<1>9. RecordInv'
  <2> SUFFICES ASSUME NEW q \in DOMAIN record' \cap Place, Grows(q)
               PROVE  record'[q].recursive
    BY <1>2 DEF RecordInv, Grows
  <2>1. CASE pc = "build"
    <3>1. record' = record
      BY <1>3, <2>1 DEF markVars
    <3>2. q \in DOMAIN record \cap Place /\ Grows(q)
      BY <3>1
    <3>3. record[q].recursive
      BY <1>1, <3>2 DEF RecordInv
    <3> QED
      BY <3>1, <3>3
  <2>2. CASE pc # "build" /\ q = d
    <3>1. Recursive(policy[k])
      BY <1>4, <2>2
    <3>2. record'[q].recursive = Recursive(policy[k])
      BY <1>8, <2>2
    <3> QED
      BY <3>1, <3>2, Zenon
  <2>3. CASE pc # "build" /\ q # d
    BY <1>1, <1>8, <2>3 DEF RecordInv
  <2> QED
    BY <2>1, <2>2, <2>3
<1>10. MarkingInv'
  <2> SUFFICES ASSUME pc = "mark_all", NEW P \in DOMAIN tree, NEW i \in DOMAIN policy,
                      Asks(policy[i], P)
               PROVE  \/ policy[i] \in Range(todo) \/ tree[P] \in unseen'
                      \/ P \in found' \/ Recorded(policy[i], P)'
    BY <1>2 DEF MarkingInv, worldVars
  <2>1. CASE P = d
    <3>1. Recursive(policy[i]) => Recursive(policy[k])
      <4>1. d \in Place
        BY <1>1, <2>1 DEF TreeTyped
      <4> QED
        BY <1>4, <2>1, <4>1 DEF Grows, Follows
    <3> QED
      BY <1>2, <1>8, <2>1, <3>1 DEF Recorded, worldVars
  <2>2. CASE P # d
    <3>1. tree[P] \in unseen => tree[P] \in unseen'
      BY <1>1, <1>2, <2>2, AtIs
    <3>2. Recorded(policy[i], P) => Recorded(policy[i], P)'
      BY <1>2, <1>8, <2>2 DEF Recorded, worldVars
    <3> QED
      BY <1>1, <1>2, <2>2, <3>1, <3>2 DEF MarkingInv
  <2> QED
    BY <2>1, <2>2
<1>11. CoveredInv'
  <2> SUFFICES ASSUME pc # "mark_all", NEW P \in DOMAIN tree PROVE InOrder(P)' \/ Excused(P)'
    BY <1>2 DEF CoveredInv, worldVars
  <2>1. CASE P # d /\ InOrder(P)
    BY <1>1, <2>1, HandleElsewhere
  <2>2. \/ /\ add /\ d \in DOMAIN tree /\ watched' = watched \cup {tree[d]}
           /\ wd_map'[tree[d]] = d /\ Range(wd_map') \subseteq Range(wd_map) \cup {d}
        \/ ~ add /\ UNCHANGED watchVars /\ (d \in DOMAIN tree => tree[d] \notin watched)
    BY <1>1, <1>3, AddIs
  <2>3. CASE P = d /\ pc = "live"
    <3>1. tree[d] \in marked' \/ ShowsNoMark(d)'
      BY <1>8, <2>3 DEF ShowsNoMark
    <3>2. tree[d] \in watched' \/ NotLive(d)'
      <4>1. CASE add
        BY <2>2, <4>1
      <4>2. CASE ~ add
        <5>1. At(d)' = {tree[d]} /\ tree[d] \notin watched'
          BY <1>1, <1>5, <2>2, <2>3, <4>2, AtIs DEF watchVars
        <5> QED
          BY <1>4, <1>8, <2>3, <5>1 DEF NotLive
      <4> QED
        BY <4>1, <4>2
    <3>3. tree[d] \in watched' => wd_map'[tree[d]] = d
      BY <2>2, <2>3 DEF watchVars
    <3>4. tree'[d] = tree[d]
      BY <1>2 DEF worldVars
    <3> QED
      BY <2>3, <3>1, <3>2, <3>3, <3>4 DEF InOrder
  <2>4. CASE P = d /\ pc = "build" /\ InOrder(P)
    <3>1. UNCHANGED markVars /\ tree'[d] = tree[d]
      BY <1>2, <1>3, <2>4 DEF worldVars
    <3>2. CASE add
      <4>1. Asked(d)' => tree[d] \in marked' \/ ShowsNoMark(d)'
        BY <1>2, <2>4, <3>1 DEF InOrder, Asked, ShowsNoMark, markVars
      <4>2. tree[d] \in watched' /\ wd_map'[tree[d]] = d
        BY <2>2, <3>2
      <4> QED
        BY <2>4, <3>1, <4>1, <4>2 DEF InOrder
    <3>3. CASE ~ add
      <4>1. UNCHANGED watchVars
        BY <2>2, <3>3
      <4>2. NotLive(d)' <=> NotLive(d)
        BY <1>5, <3>1, <4>1 DEF NotLive, IsWatching, watchVars, markVars
      <4> QED
        BY <1>2, <2>4, <3>1, <4>1, <4>2
           DEF InOrder, Asked, Grows, ShowsNoMark, Pruned, watchVars, markVars
    <3> QED
      BY <3>2, <3>3
  <2>5. CASE Excused(P) /\ pc = "build"
    BY <1>2, <1>5, <2>5
       DEF Excused, Unannounced, InHand, Pending, Tells, Blind, InWalk, worldVars
  <2>6. CASE Excused(P) /\ pc = "live" /\ P # d
    <3>1. CASE Unannounced(P)
      <4>1. PICK q \in DOMAIN tree : IsPrefix(q, P) /\ q \notin found /\ tree[q] \in unseen
        BY <2>6, <3>1 DEF Unannounced, InHand
      <4>2. tree[q] \in unseen' /\ q \notin found'
        BY <1>1, <1>2, <4>1, AtIs
      <4> QED
        BY <1>2, <4>1, <4>2 DEF Excused, Unannounced, InHand, worldVars
    <3>2. CASE Pending(P) \/ lost \/ Overflow \in Events
      BY <1>2, <1>5, <3>2 DEF Excused, Pending, Tells, worldVars
    <3>3. CASE Blind(P)
      <4>1. PICK q \in Above(P) : q \notin found /\ NotLive(q)
        BY <3>3 DEF Blind
      <4>2. q # d /\ q \notin found' /\ q \in DOMAIN record' /\ record'[q].recursive
        BY <1>2, <1>8, <2>6, <4>1 DEF NotLive
      <4>3. IsWatching(q)' => IsWatching(q)
        BY <2>2, <4>2 DEF IsWatching, watchVars
      <4>4. At(q) \subseteq watched' => At(q) \subseteq watched
        <5>1. d \in DOMAIN tree => tree[d] \notin At(q)
          BY <1>1, <4>2, AtIs
        <5> QED
          BY <2>2, <5>1 DEF watchVars
      <4>5. NotLive(q)'
        BY <1>5, <4>1, <4>2, <4>3, <4>4 DEF NotLive
      <4> QED
        BY <1>2, <2>6, <4>1, <4>2, <4>5 DEF Excused, Blind
    <3>4. CASE InWalk(P)
      BY <1>2, <2>6, <3>4 DEF Excused, InWalk
    <3> QED
      BY <2>6, <3>1, <3>2, <3>3, <3>4 DEF Excused
  <2> QED
    BY <1>1, <1>2, <2>1, <2>3, <2>4, <2>5, <2>6 DEF CoveredInv
<1> QED
  BY <1>7, <1>9, <1>10, <1>11

\* Starting on a watch keeps GInv: its root leads to all it asks for.
LEMMA ScanWatchCovered ==
  ASSUME GInv, ScanWatch
  PROVE  CoveredInv' /\ EventsInv' /\ RecordInv' /\ MarkingInv'
<1>1. TInv /\ CoveredInv /\ EventsInv /\ RecordInv /\ MarkingInv
  BY DEF GInv, PInv
<1>2. /\ pc \in {"mark_all", "build"} /\ ~Walking /\ todo # <<>> /\ todo' = Tail(todo)
      /\ IF Head(todo).root \in DOMAIN tree /\ (pc = "mark_all" \/ Recursive(Head(todo)))
         THEN Walk(Head(todo), Head(todo).root, Recursive(Head(todo)))
         ELSE NoWalk
      /\ UNCHANGED <<worldVars, markVars, watchVars, queue, policy, reload, pc, budget,
                     unseen, lost>>
  BY DEF ScanWatch
<1>3. Events' = Events /\ \A q : At(q)' = At(q)
  BY <1>2 DEF Events, At, worldVars
<1>4. \A q : NotLive(q)' <=> NotLive(q)
  BY <1>2, <1>3 DEF NotLive, IsWatching, watchVars, markVars
<1>5. \A q : InOrder(q)' <=> InOrder(q)
  BY <1>2, <1>4 DEF InOrder, Asked, Grows, ShowsNoMark, Pruned, watchVars, markVars, worldVars
<1>6. EventsInv' /\ RecordInv'
  BY <1>1, <1>2, <1>3 DEF EventsInv, RecordInv, Grows, watchVars, markVars, worldVars
<1>7. CoveredInv'
  <2>1. pc = "build" => \A q : Excused(q) => Excused(q)'
    BY <1>2, <1>3 DEF Excused, Unannounced, InHand, Pending, Tells, Blind, InWalk, worldVars
  <2> QED
    BY <1>1, <1>2, <1>5, <2>1 DEF CoveredInv, worldVars
<1>8. MarkingInv'
  <2> SUFFICES ASSUME pc = "mark_all", NEW P \in DOMAIN tree, NEW i \in DOMAIN policy,
                      Asks(policy[i], P)
               PROVE  \/ policy[i] \in Range(todo') \/ tree[P] \in unseen
                      \/ P \in found' \/ \E r \in stack' : IsPrefix(r, P)
                      \/ Recorded(policy[i], P)
    BY <1>2 DEF MarkingInv, Recorded, markVars, worldVars
  <2>1. /\ todo \in Seq(WatchPolicy) /\ Range(todo) = {Head(todo)} \cup Range(todo')
        /\ policy[i] \in WatchPolicy /\ P \in Names
    BY <1>1, <1>2, PolicyTyped, RangeOfTail, AtIs DEF TInv, WalkTyped
  <2>2. CASE policy[i] = Head(todo)
    <3>1. /\ policy[i].root \in Names /\ policy[i].root # <<>> /\ IsPrefix(policy[i].root, P)
      BY <2>1, WatchRoot, AsksCovers DEF Asks, Covers
    <3>2. policy[i].root \in DOMAIN tree
      BY <1>1, <3>1, ClosedUp DEF TInv
    <3>3. Walk(policy[i], policy[i].root, Recursive(policy[i]))
      BY <1>2, <2>2, <3>2
    <3>4. CASE Recursive(policy[i])
      BY <3>1, <3>3, <3>4 DEF Walk
    <3>5. CASE ~ Recursive(policy[i])
      BY <3>3, <3>5 DEF Walk, Asks
    <3> QED
      BY <3>4, <3>5
  <2>3. CASE policy[i] # Head(todo)
    BY <1>1, <1>2, <2>1, <2>3 DEF MarkingInv, Walking
  <2> QED
    BY <2>2, <2>3
<1> QED
  BY <1>6, <1>7, <1>8

\* When marking is over and the new instance begins, what was marked is in order, what
\* is not watched yet is not live, and what came meanwhile is unseen.
LEMMA BeginBuildCovered ==
  ASSUME GInv, BeginBuild
  PROVE  CoveredInv' /\ EventsInv' /\ RecordInv' /\ MarkingInv'
<1>1. TInv /\ RecordInv /\ MarkingInv
  BY DEF GInv, PInv
<1>2. /\ pc = "mark_all" /\ found = {} /\ stack = {} /\ todo = <<>>
      /\ queue' = <<>> /\ watched' = {} /\ wd_map' = <<>> /\ pc' \in {"build", "poll"}
      /\ UNCHANGED <<worldVars, markVars, by, stack, found, policy, unseen, lost>>
  BY DEF BeginBuild, Walking
<1>3. Events' = {} /\ Range(wd_map') = {} /\ Range(todo) = {}
  BY <1>2 DEF Events, Range
<1>4. EventsInv' /\ RecordInv' /\ MarkingInv'
  BY <1>1, <1>2, <1>3 DEF EventsInv, RecordInv, MarkingInv, Grows, markVars
<1>5. ASSUME NEW P \in DOMAIN tree, tree[P] \in unseen PROVE Excused(P)'
  <2>1. IsPrefix(P, P)
    BY <1>1, AtIs, PrefixOrder DEF TInv
  <2> QED
    BY <1>2, <1>5, <2>1 DEF Excused, Unannounced, InHand, worldVars
<1>6. ASSUME NEW P \in DOMAIN tree, tree[P] \notin unseen PROVE InOrder(P)'
  <2>1. \A i \in DOMAIN policy : Asks(policy[i], P) => Recorded(policy[i], P)
    BY <1>1, <1>2, <1>3, <1>6 DEF MarkingInv
  <2>2. Asked(P) => tree[P] \in marked \/ ShowsNoMark(P)
    BY <2>1 DEF Asked, Recorded, ShowsNoMark
  <2>3. Grows(P) => NotLive(P)'
    BY <1>2, <1>3, <2>1 DEF Grows, Follows, Recorded, NotLive, IsWatching, markVars
  <2> QED
    BY <1>2, <2>2, <2>3 DEF InOrder, Asked, Grows, ShowsNoMark, markVars, worldVars
<1>7. CoveredInv'
  BY <1>2, <1>5, <1>6 DEF CoveredInv, worldVars
<1> QED
  BY <1>4, <1>7

\* An event about a directory known by its path starts a walk at the new child, or the
\* child is pruned.
LEMMA EventStartsWalk ==
  ASSUME PoliciesAgree, PInv, pc = "live", NEW z \in Event \ {Overflow}, NEW Q \in DOMAIN tree,
         z.wd = {tree[Q]}, tree[Q] \in watched, wd_map[tree[Q]] = Q
  PROVE  LET c == Append(Q, z.name)
         IN  \/ NewDirs(z) # {} /\ \A e \in NewDirs(z) : e.dir = c
             \/ Pruned(c)
<1> DEFINE c == Append(Q, z.name)
<1>1. /\ TInv /\ ControlTyped /\ Q \in Names /\ z.name \in STRING /\ Q \in Place
      /\ tree[Q] \in DOMAIN wd_map
      /\ policy \in Seq(WatchPolicy)
  BY AtIs, EventIs, PolicyTyped DEF PInv, TInv, MarksTyped, TreeTyped
<1>2. /\ c \in Names /\ c # <<>> /\ Front(c) = Q /\ IsPrefix(Q, c) /\ Q # c /\ Len(c) = Len(Q) + 1
      /\ ~IsPrefix(c, Q) /\ IsPrefix(c, c)
  BY <1>1, ChildOf, PrefixOrder, Zenon
<1>3. {Append(wd_map[n], z.name) : n \in z.wd \cap DOMAIN wd_map} = {c}
  <2>1. z.wd \cap DOMAIN wd_map = {tree[Q]}
    BY <1>1
  <2> QED
    BY <2>1
<1> HIDE DEF c
<1>4. PICK k \in DOMAIN policy : Follows(policy[k], Q)
  BY <1>1 DEF PInv, WatchesInv, Grows
<1>5. policy[k] \in WatchPolicy /\ policy[k].root \in Names /\ Recursive(policy[k])
      /\ Covers(policy[k], Q) /\ Covers(policy[k], c) /\ policy[k].root # c
  <2>1. policy[k] \in WatchPolicy /\ policy[k].root \in Names /\ Recursive(policy[k])
        /\ Covers(policy[k], Q)
    BY <1>1, <1>4, AgreeNow, WatchRoot, AsksCovers DEF Follows
  <2> QED
    BY <1>1, <1>2, <2>1, PrefixOrder DEF Covers
<1>6. PICK j \in DOMAIN policy : policy[j] \in Covering(policy, c) /\ Covers(policy[j], c)
  BY <1>1, <1>5, FirstCovering
<1>7. policy[j] \in WatchPolicy /\ policy[j].root \in Names /\ policy[j] \in Range(policy)
  BY <1>1, AgreeNow, WatchRoot, PolicyTyped
<1>8. CASE ~ IsExcluded(policy[j], c)
  <2> DEFINE e == [w |-> policy[j], dir |-> c]
  <2>1. e \in NewDirs(z)
    BY <1>3, <1>6, <1>7, <1>8 DEF NewDirs
  <2>2. \A f \in NewDirs(z) : f.dir = c
    BY <1>3 DEF NewDirs
  <2> QED
    BY <2>1, <2>2 DEF c
<1>9. CASE IsExcluded(policy[j], c)
  <2>1. policy[j].root # c
    BY <1>1, <1>5, <1>9, AgreeNow
  <2>2. Covers(policy[j], Q)
    BY <1>2, <1>6, <1>7, <2>1, BelowFront DEF Covers
  <2>3. Recursive(policy[j])
    BY <1>1, <1>4, <2>2, AgreeNow DEF Follows
  <2>4. ~ Follows(policy[j], c)
    BY <1>2, <1>6, <1>7, <1>9, <2>1, ExcludedAbove
  <2>5. Pruned(c)
    BY <1>6, <2>3, <2>4 DEF Pruned, PrunedBy
  <2> QED
    BY <2>5 DEF c
<1> QED
  BY <1>8, <1>9

\* Taking an event keeps GInv: the walk takes over what the event announced.
LEMMA TakeEventCovered ==
  ASSUME PoliciesAgree, GInv, TakeEvent
  PROVE  CoveredInv' /\ EventsInv' /\ RecordInv' /\ MarkingInv'
<1> DEFINE z == Head(todo)
<1>1. PInv /\ TInv /\ TreeTyped /\ CoveredInv /\ EventsInv /\ RecordInv /\ MarkingInv
  BY DEF GInv, PInv, TInv
<1>2. /\ pc = "live" /\ found = {} /\ stack = {} /\ todo # <<>> /\ todo' = Tail(todo)
      /\ IF z = Overflow THEN lost' = TRUE /\ NoWalk
         ELSE /\ UNCHANGED lost
              /\ IF NewDirs(z) = {} THEN NoWalk
                 ELSE \E e \in NewDirs(z) : Walk(e.w, e.dir, TRUE)
      /\ UNCHANGED <<worldVars, markVars, watchVars, queue, policy, pc, budget, unseen>>
  BY DEF TakeEvent, RecoverOverflow, Walking
<1>3. z \in Event /\ z \in Events /\ Events = {z} \cup Events' /\ \A q : At(q)' = At(q)
  BY <1>1, <1>2, RangeOfTail DEF TInv, WalkTyped, Events, At, worldVars
<1> HIDE DEF z
<1>4. \A q : NotLive(q)' <=> NotLive(q)
  BY <1>2, <1>3 DEF NotLive, IsWatching, watchVars, markVars
<1>5. \A q : InOrder(q)' <=> InOrder(q)
  BY <1>2, <1>4 DEF InOrder, Asked, Grows, ShowsNoMark, Pruned, watchVars, markVars, worldVars
<1>6. EventsInv' /\ RecordInv' /\ MarkingInv'
  BY <1>1, <1>2, <1>3 DEF EventsInv, RecordInv, MarkingInv, Grows, watchVars, markVars, worldVars
<1>7. CoveredInv'
  <2> SUFFICES ASSUME z # Overflow, NEW P \in DOMAIN tree PROVE InOrder(P)' \/ Excused(P)'
    BY <1>2 DEF CoveredInv, worldVars, Excused
  <2>1. P \in Names
    BY <1>1, AtIs
  <2>2. \A q \in found' : q \in stack'
    BY <1>2 DEF NoWalk, Walk
  <2>3. (\E q \in stack' : IsPrefix(q, P)) => Excused(P)'
    BY <1>2 DEF Excused, InWalk
  <2>4. lost \/ Overflow \in Events => Excused(P)'
    BY <1>2, <1>3 DEF Excused
  <2>5. Unannounced(P) => Excused(P)'
    BY <1>2, <2>2, <2>3 DEF Excused, Unannounced, InHand, worldVars
  <2>6. Blind(P) => Excused(P)'
    <3> SUFFICES ASSUME NEW q \in Above(P), NotLive(q) PROVE Excused(P)'
      BY DEF Blind
    <3>1. IsPrefix(q, P)
      BY <1>1, <2>1, AboveIs DEF NotLive, TInv, MarksTyped
    <3> QED
      BY <1>2, <1>4, <2>2, <2>3, <3>1 DEF Excused, Blind
  <2>7. ~ InWalk(P)
    BY <1>2 DEF InWalk
  <2>8. ASSUME NEW e \in Events \ {Overflow}, e # z, Tells(e, P) PROVE Excused(P)'
    <3>1. e \in Events' /\ Tells(e, P)'
      BY <1>2, <1>3, <2>8 DEF Tells, worldVars
    <3> QED
      BY <2>8, <3>1 DEF Excused, Pending
  <2>9. ASSUME Tells(z, P) PROVE InOrder(P)' \/ Excused(P)'
    <3>1. PICK Q \in DOMAIN tree : z.wd = {tree[Q]} /\ IsPrefix(Append(Q, z.name), P)
      BY <2>9 DEF Tells
    <3> DEFINE c == Append(Q, z.name)
    <3>2. /\ Q \in Names /\ z.name \in STRING /\ tree[Q] \in watched /\ c \in Names
          /\ IsPrefix(Q, P)
      <4>1. Q \in Names /\ z.name \in STRING /\ tree[Q] \in watched
        BY <1>1, <1>3, <3>1, AtIs, EventIs DEF EventsInv
      <4> QED
        BY <2>1, <3>1, <4>1, ChildOf, ChildBelow
    <3>3. ASSUME Pruned(c) PROVE InOrder(P)'
      BY <1>1, <1>2, <3>1, <3>2, <3>3, PrunedStays
    <3>4. CASE InOrder(Q)
      <4>1. CASE Pruned(Q)
        BY <1>1, <1>2, <3>2, <4>1, PrunedStays
      <4>2. CASE wd_map[tree[Q]] = Q
        <5>1. \/ NewDirs(z) # {} /\ \A e \in NewDirs(z) : e.dir = c
              \/ Pruned(c)
          BY <1>1, <1>2, <1>3, <3>1, <3>2, <4>2, EventStartsWalk
        <5>2. ASSUME NewDirs(z) # {}, \A e \in NewDirs(z) : e.dir = c PROVE Excused(P)'
          <6>1. stack' = {c}
            BY <1>2, <5>2 DEF Walk
          <6> QED
            BY <2>3, <3>1, <6>1
        <5> QED
          BY <3>3, <5>1, <5>2
      <4> QED
        BY <3>2, <3>4, <4>1, <4>2 DEF InOrder
    <3>5. CASE Excused(Q)
      <4>1. ~ InWalk(Q)
        BY <1>2 DEF InWalk
      <4>2. ~ Tells(z, Q)
        <5> SUFFICES ASSUME NEW R \in DOMAIN tree, z.wd = {tree[R]},
                            IsPrefix(Append(R, z.name), Q)
                     PROVE  FALSE
          BY DEF Tells
        <5>1. tree[R] = tree[Q]
          BY <3>1
        <5>2. R = Q
          BY <1>1, <5>1 DEF TreeTyped, IsInjective
        <5> QED
          BY <3>2, <5>2, ChildBelow
      <4>3. /\ Unannounced(Q) => Unannounced(P)
            /\ \A e \in Events \ {Overflow} : Tells(e, Q) => Tells(e, P)
            /\ Blind(Q) => Blind(P)
        BY <1>1, <3>2, ReasonsBelow
      <4> QED
        BY <2>4, <2>5, <2>6, <2>8, <3>5, <4>1, <4>2, <4>3 DEF Excused, Pending
    <3> QED
      BY <1>1, <1>2, <3>4, <3>5 DEF CoveredInv
  <2> QED
    BY <1>1, <1>2, <1>5, <2>4, <2>5, <2>6, <2>7, <2>8, <2>9 DEF CoveredInv, Excused, Pending
<1> QED
  BY <1>6, <1>7

------------------------------------------------------------------------------
(* The theorem. *)

\* GInv holds when run() begins.
LEMMA GInvInit == Init => GInv
<1> SUFFICES ASSUME Init PROVE GInv
  OBVIOUS
<1>1. PInv
  BY PInvInit
<1>2. CoveredInv /\ EventsInv /\ RecordInv /\ MarkingInv
  BY DEF Init, CoveredInv, EventsInv, Events, RecordInv, MarkingInv, Range
<1> QED
  BY <1>1, <1>2 DEF GInv

\* Every step keeps GInv.
LEMMA GInvKept ==
  ASSUME PoliciesAgree, GInv, [Next]_vars
  PROVE  GInv'
<1> DEFINE Rest == CoveredInv /\ EventsInv /\ RecordInv /\ MarkingInv
<1>1. PInv' /\ TInv' /\ TInv
  BY PInvKept DEF GInv, PInv
<1>2. CASE UNCHANGED vars \/ RequestReload
  <2>1. UNCHANGED <<tree, spare, marked, record, watchVars, queue, todo, pc, stack, found,
                    unseen, lost, policy>>
    BY <1>2 DEF RequestReload, vars, worldVars, markVars, walkVars
  <2>2. Rest'
    BY <2>1, SamePlaces
  <2> QED
    BY <1>1, <2>2 DEF GInv
<1>3. CASE Poll \/ Done \/ CheckReload
  BY <1>1, <1>3, LoopCovered DEF GInv
<1>4. CASE ScanWatch
  BY <1>1, <1>4, ScanWatchCovered DEF GInv
<1>5. CASE BeginBuild
  BY <1>1, <1>5, BeginBuildCovered DEF GInv
<1>6. CASE TakeEvent
  BY <1>1, <1>6, TakeEventCovered DEF GInv
<1>7. ASSUME NEW d \in stack, ReadDir(d) PROVE GInv'
  BY <1>1, <1>7, ReadDirCovered DEF GInv
<1>8. ASSUME NEW d \in found, Handle(d) PROVE GInv'
  BY <1>1, <1>8, HandleCovered DEF GInv
<1>9. ASSUME NEW p \in Place, Mkdir(p) PROVE GInv'
  <2>1. PICK n \in spare : Arrival(p, {n})
    BY <1>1, <1>9, MkdirArrives
  <2> QED
    BY <1>1, <2>1, ArrivalCovered DEF GInv
<1>10. ASSUME NEW p \in Place, NEW q \in Place, Move(p, q) PROVE GInv'
  BY <1>1, <1>10, MoveArrives, ArrivalCovered DEF GInv
<1>11. ASSUME NEW p \in Place, Rmdir(p) PROVE GInv'
  BY <1>1, <1>11, RmdirRemoves, RemovalCovered DEF GInv
<1> QED
  BY <1>2, <1>3, <1>4, <1>5, <1>6, <1>7, <1>8, <1>9, <1>10, <1>11 DEF Next, Daemon, World

\* At rest there is no event, no walk: what is left of the excuses is what Known names.
LEMMA GInvExplains == GInv => GapsAreKnown
<1> SUFFICES ASSUME GInv, AtRest, NEW p \in Gaps PROVE Known(p)
  BY DEF GapsAreKnown
<1>1. TInv /\ TreeTyped /\ CoveredInv
  BY DEF GInv, PInv, TInv
<1>2. pc = "poll" /\ queue = <<>> /\ found = {} /\ stack = {} /\ Events = {}
  <2>1. pc = "poll" /\ queue = <<>>
    BY DEF AtRest
  <2> QED
    BY <1>1, <2>1 DEF TInv, WalkTyped, Walking, Events, Range
<1>3. p \in DOMAIN tree /\ Asked(p) /\ tree[p] \notin marked
  BY <1>1, MarkAllIs, AtIs DEF Gaps
<1>4. p \in Names /\ \A q \in DOMAIN tree : q \in Names /\ q # <<>> /\ At(q) = {tree[q]}
  BY <1>1, <1>3, AtIs, PlacesAreNames DEF TreeTyped
<1>5. CASE InOrder(p)
  BY <1>3, <1>5 DEF InOrder, Known
<1>6. CASE Unannounced(p)
  <2>1. PICK q \in DOMAIN tree : IsPrefix(q, p) /\ tree[q] \in unseen
    BY <1>6 DEF Unannounced
  <2>2. q \in Above(p) \cup {p}
    BY <1>4, <2>1, AboveIs
  <2>3. At(q) \cap unseen # {}
    BY <1>4, <2>1
  <2> QED
    BY <2>2, <2>3 DEF Known
<1>7. CASE Blind(p)
  BY <1>7 DEF Blind, NotLive, Known, ShowsNotLive
<1> QED
  BY <1>1, <1>2, <1>3, <1>5, <1>6, <1>7 DEF CoveredInv, Excused, Pending, InWalk, Known

\* Where watches that overlap agree, once the daemon has caught up every directory that a
\* re-mark would mark is marked or its gap is one that Known names: for every tree,
\* every policy, every queue size, every interleaving of creations, renames, removals,
\* failures, overflows and reloads (mark_all, TreeWatch::build, on_ready).
THEOREM GapsAreExplained ==
  ASSUME PoliciesAgree
  PROVE  Spec => []GapsAreKnown
<1>1. Init => GInv
  BY GInvInit
<1>2. GInv /\ [Next]_vars => GInv'
  BY GInvKept
<1>3. GInv => GapsAreKnown
  BY GInvExplains
<1> QED
  BY <1>1, <1>2, <1>3, PTL DEF Spec
==============================================================================
