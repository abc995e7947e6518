------------------------- MODULE TreeWatchTypeProofs -------------------------
(***************************************************************************)
(* Type correctness of TreeWatch for every tree, policy and queue size,    *)
(* and the lemmas about paths, watches and single steps that it and        *)
(* TreeWatchProofs rest on.                                                *)
(***************************************************************************)
EXTENDS TreeWatch, RulesProofs, SequenceTheorems

------------------------------------------------------------------------------
(* Paths. *)

\* Every path: names from the root down (config.rs keeps them absolute).
Names == Seq(STRING)

\* A path is a prefix of another when it is what the other begins with.
LEMMA CutIsPrefix ==
  ASSUME NEW s \in Names, NEW t \in Names
  PROVE  /\ Len(s) \in Nat /\ Len(t) \in Nat
         /\ IsPrefix(s, t) <=> Len(s) <= Len(t) /\ s = SubSeq(t, 1, Len(s))
<1>1. Len(s) \in Nat /\ Len(t) \in Nat
  BY DEF Names
<1>2. SubSeq(s, 1, Len(s)) = s
  BY DEF Names
<1> QED
  BY <1>1, <1>2 DEF IsPrefix

\* The first n names of a path.
LEMMA CutsOf ==
  ASSUME NEW t \in Names, NEW n \in 0 .. Len(t)
  PROVE  /\ SubSeq(t, 1, n) \in Names /\ Len(SubSeq(t, 1, n)) = n
         /\ IsPrefix(SubSeq(t, 1, n), t)
         /\ \A m \in 0 .. n : SubSeq(SubSeq(t, 1, n), 1, m) = SubSeq(t, 1, m)
<1>1. Len(t) \in Nat
  BY DEF Names
<1>2. SubSeq(t, 1, n) \in Names /\ Len(SubSeq(t, 1, n)) = n
  BY DEF Names
<1>3. \A m \in 0 .. n : SubSeq(SubSeq(t, 1, n), 1, m) = SubSeq(t, 1, m)
  BY DEF Names
<1>4. IsPrefix(SubSeq(t, 1, n), t)
  <2> DEFINE c == SubSeq(t, 1, n)
  <2>1. c \in Names /\ Len(c) = n /\ n <= Len(t) /\ c = SubSeq(t, 1, Len(c))
    BY <1>1, <1>2
  <2> HIDE DEF c
  <2> QED
    BY <2>1, CutIsPrefix DEF c
<1> QED
  BY <1>2, <1>3, <1>4

\* Prefixes are ordered, and those of one path in a row.
LEMMA PrefixOrder ==
  /\ \A p \in Names : IsPrefix(p, p)
  /\ \A p, q, r \in Names : IsPrefix(p, q) /\ IsPrefix(q, r) => IsPrefix(p, r)
  /\ \A p, q \in Names : IsPrefix(p, q) /\ (IsPrefix(q, p) \/ Len(q) <= Len(p)) => p = q
  /\ \A p, q, r \in Names : IsPrefix(p, r) /\ IsPrefix(q, r) => IsPrefix(p, q) \/ IsPrefix(q, p)
<1>1. \A p \in Names : IsPrefix(p, p)
  BY DEF IsPrefix, Names
<1>2. ASSUME NEW p \in Names, NEW q \in Names, NEW r \in Names, IsPrefix(p, q), IsPrefix(q, r)
      PROVE  IsPrefix(p, r)
  <2>1. /\ Len(p) \in 0 .. Len(q) /\ p = SubSeq(q, 1, Len(p))
        /\ Len(q) \in 0 .. Len(r) /\ q = SubSeq(r, 1, Len(q))
    BY <1>2, CutIsPrefix
  <2>2. SubSeq(SubSeq(r, 1, Len(q)), 1, Len(p)) = SubSeq(r, 1, Len(p))
    BY <2>1, CutsOf
  <2> QED
    BY <2>1, <2>2, CutIsPrefix
<1>3. ASSUME NEW p \in Names, NEW q \in Names, IsPrefix(p, q), IsPrefix(q, p) \/ Len(q) <= Len(p)
      PROVE  p = q
  <2>1. p = SubSeq(q, 1, Len(p)) /\ Len(p) = Len(q)
    BY <1>3, CutIsPrefix
  <2> QED
    BY <2>1, SubSeqFull DEF Names
<1>4. ASSUME NEW p \in Names, NEW q \in Names, NEW r \in Names, IsPrefix(p, r), IsPrefix(q, r),
             Len(p) <= Len(q)
      PROVE  IsPrefix(p, q)
  BY <1>4, CutIsPrefix, CutsOf
<1>5. \A p, q \in Names : Len(p) <= Len(q) \/ Len(q) <= Len(p)
  BY CutIsPrefix
<1> QED
  BY <1>1, <1>2, <1>3, <1>4, <1>5

\* A path is its parent and a name.
LEMMA FrontLast ==
  ASSUME NEW p \in Names, p # <<>>
  PROVE  /\ Front(p) \in Names /\ Last(p) \in STRING
         /\ Len(p) \in Nat \ {0} /\ Len(Front(p)) = Len(p) - 1
         /\ IsPrefix(Front(p), p) /\ Front(p) # p
         /\ Append(Front(p), Last(p)) = p
<1>1. Len(p) \in Nat \ {0}
  BY EmptySeq DEF Names
<1>2. Front(p) \in Names /\ Len(Front(p)) = Len(p) - 1 /\ IsPrefix(Front(p), p)
  <2>1. Len(p) - 1 \in 0 .. Len(p)
    BY <1>1
  <2> QED
    BY <2>1, CutsOf DEF Front
<1>3. Last(p) \in STRING
  BY <1>1, ElementOfSeq DEF Last, Names
<1>4. Append(Front(p), Last(p)) = p
  <2> DEFINE a == Append(Front(p), Last(p))
  <2>1. a \in Names /\ Len(a) = Len(p) /\ a[Len(p)] = Last(p)
        /\ \A i \in 1 .. Len(p) - 1 : a[i] = Front(p)[i]
    BY <1>1, <1>2, <1>3, AppendProperties DEF Names
  <2>2. \A i \in 1 .. Len(p) - 1 : Front(p)[i] = p[i]
    BY <1>1 DEF Front, Names
  <2>3. \A i \in 1 .. Len(p) : a[i] = p[i]
    BY <1>1, <2>1, <2>2 DEF Last
  <2> QED
    BY <2>1, <2>3, SeqEqual DEF Names
<1> QED
  BY <1>1, <1>2, <1>3, <1>4

\* A name below a path makes a child of it.
LEMMA ChildOf ==
  ASSUME NEW p \in Names, NEW x \in STRING
  PROVE  LET c == Append(p, x)
         IN  /\ c \in Names /\ c # <<>> /\ Len(c) = Len(p) + 1
             /\ Front(c) = p /\ Last(c) = x /\ IsPrefix(p, c) /\ p # c
             /\ ~ IsPrefix(c, p)
<1> DEFINE c == Append(p, x)
<1>1. c \in Names /\ c # <<>> /\ Len(c) = Len(p) + 1 /\ Len(p) \in Nat
  <2>1. Len(p) \in Nat /\ c \in Seq(STRING) /\ Len(c) = Len(p) + 1
    BY AppendProperties, LenProperties DEF Names
  <2> HIDE DEF c
  <2>2. c # <<>>
    BY <2>1
  <2> QED
    BY <2>1, <2>2 DEF Names
<1>2. Front(c) = p /\ Last(c) = x
  <2>1. c[Len(p) + 1] = x
    BY AppendProperties DEF Names
  <2>2. SubSeq(c, 1, Len(p)) = p
    BY DEF Names
  <2> QED
    BY <1>1, <2>1, <2>2 DEF Front, Last
<1> HIDE DEF c
<1>3. IsPrefix(p, c) /\ p # c
  BY <1>1, <1>2, FrontLast
<1>4. ~ IsPrefix(c, p)
  BY <1>1, CutIsPrefix
<1> QED
  BY <1>1, <1>2, <1>3, <1>4 DEF c

\* Above(p) is every directory on the way to p, without p.
LEMMA AboveIs ==
  ASSUME NEW p \in Names, NEW q \in Names
  PROVE  q \in Above(p) <=> q # <<>> /\ IsPrefix(q, p) /\ q # p
<1>1. Len(p) \in Nat /\ Len(q) \in Nat /\ (q # <<>> <=> Len(q) # 0)
  BY EmptySeq DEF Names
<1>2. ASSUME q \in Above(p) PROVE q # <<>> /\ IsPrefix(q, p) /\ q # p
  <2>1. PICK n \in 1 .. Len(p) - 1 : q = SubSeq(p, 1, n)
    BY <1>2 DEF Above
  <2>2. n \in 0 .. Len(p)
    BY <1>1
  <2>3. Len(q) = n /\ IsPrefix(q, p)
    BY <2>1, <2>2, CutsOf
  <2> QED
    BY <1>1, <2>3
<1>3. ASSUME q # <<>>, IsPrefix(q, p), q # p PROVE q \in Above(p)
  <2>1. q = SubSeq(p, 1, Len(q)) /\ Len(q) <= Len(p)
    BY <1>3, CutIsPrefix
  <2>2. Len(q) # Len(p)
    BY <1>3, <1>1, PrefixOrder
  <2>3. Len(q) \in 1 .. Len(p) - 1
    BY <1>1, <1>3, <2>1, <2>2
  <2> QED
    BY <2>1, <2>3 DEF Above
<1> QED
  BY <1>2, <1>3, Zenon

\* What lies strictly below q is at or below a child of q.
LEMMA BelowFront ==
  ASSUME NEW p \in Names, NEW q \in Names, IsPrefix(q, p), q # p
  PROVE  /\ p # <<>> /\ IsPrefix(q, Front(p)) /\ Len(q) < Len(p)
         /\ LET c == SubSeq(p, 1, Len(q) + 1)
            IN  /\ c \in Names /\ Len(c) = Len(q) + 1 /\ IsPrefix(q, c) /\ IsPrefix(c, p)
                /\ Len(q) + 1 \in 1 .. Len(p)
<1>1. Len(p) \in Nat /\ Len(q) \in Nat /\ Len(q) < Len(p) /\ p # <<>>
  BY CutIsPrefix, PrefixOrder, EmptySeq DEF Names
<1>2. q = SubSeq(p, 1, Len(q))
  BY CutIsPrefix
<1>3. Front(p) = SubSeq(p, 1, Len(p) - 1)
  BY DEF Front
<1>4. ASSUME NEW n \in Len(q) .. Len(p) PROVE IsPrefix(q, SubSeq(p, 1, n))
  <2>1. n \in 0 .. Len(p) /\ Len(q) \in 0 .. n
    BY <1>1
  <2>2. /\ SubSeq(p, 1, n) \in Names /\ Len(SubSeq(p, 1, n)) = n
        /\ SubSeq(SubSeq(p, 1, n), 1, Len(q)) = SubSeq(p, 1, Len(q))
    BY <2>1, CutsOf
  <2>3. q = SubSeq(SubSeq(p, 1, n), 1, Len(q)) /\ Len(q) <= n
    BY <1>2, <2>1, <2>2
  <2> HIDE DEF IsPrefix
  <2> QED
    BY <2>2, <2>3, CutIsPrefix
<1> DEFINE c == SubSeq(p, 1, Len(q) + 1)
<1>5. c \in Names /\ Len(c) = Len(q) + 1 /\ IsPrefix(c, p)
  BY <1>1, CutsOf
<1>6. Len(q) + 1 \in Len(q) .. Len(p) /\ Len(p) - 1 \in Len(q) .. Len(p)
  BY <1>1
<1> QED
  BY <1>1, <1>3, <1>4, <1>5, <1>6

\* What lies below a child of q lies strictly below q.
LEMMA ChildBelow ==
  ASSUME NEW p \in Names, NEW q \in Names, NEW x \in STRING, IsPrefix(Append(q, x), p)
  PROVE  IsPrefix(q, p) /\ q # p
<1>1. Append(q, x) \in Names /\ IsPrefix(q, Append(q, x)) /\ ~ IsPrefix(Append(q, x), q)
  BY ChildOf
<1> QED
  BY <1>1, PrefixOrder

------------------------------------------------------------------------------
(* Watches. *)

\* The root of a watch is a path.
LEMMA WatchRoot ==
  ASSUME NEW w \in WatchPolicy
  PROVE  w.root \in Names
BY PathAssumption DEF WatchPolicy, Names

\* A watch asks for nothing outside its root (WatchPolicy::covers).
LEMMA AsksCovers ==
  ASSUME NEW w \in WatchPolicy, NEW p \in Names, Asks(w, p)
  PROVE  Covers(w, p) /\ p # <<>>
<1>1. w.root \in Names /\ w.root # <<>> /\ Covers(w, p)
  BY WatchRoot, PrefixOrder DEF Asks, Covers
<1>2. p # <<>>
  BY <1>1, CutIsPrefix, EmptySeq DEF Covers, Names
<1> QED
  BY <1>1, <1>2

\* A followed directory is followed to, from the root of the watch down.
LEMMA FollowsUp ==
  ASSUME NEW w \in WatchPolicy, NEW p \in Names, NEW a \in Names,
         Asks(w, p), IsPrefix(a, p), Covers(w, a), Recursive(w) \/ a # p
  PROVE  Follows(w, a)
<1>1. w.root \in Names /\ Len(w.root) \in Nat /\ Len(p) \in Nat /\ Len(a) \in Nat
      /\ Len(a) <= Len(p) /\ a = SubSeq(p, 1, Len(a))
  BY WatchRoot, CutIsPrefix
<1>2. Recursive(w)
  <2> SUFFICES ASSUME ~ Recursive(w), a # p PROVE FALSE
    OBVIOUS
  <2>1. p = w.root
    BY DEF Asks
  <2> QED
    BY <1>1, <2>1, PrefixOrder DEF Covers
<1>3. ASSUME NEW n \in Len(w.root) + 1 .. Len(a) PROVE ~ IsExcluded(w, SubSeq(a, 1, n))
  <2>1. n \in Len(w.root) + 1 .. Len(p) /\ n \in 0 .. Len(a) /\ Len(a) \in 0 .. Len(p)
    BY <1>1
  <2>2. SubSeq(a, 1, n) = SubSeq(p, 1, n)
    BY <1>1, <2>1, CutsOf
  <2> QED
    BY <1>2, <2>1, <2>2 DEF Asks
<1> QED
  BY <1>2, <1>3 DEF Follows, Asks

\* A child that is not excluded is followed as its parent is (walk_dirs).
LEMMA FollowsChild ==
  ASSUME NEW w \in WatchPolicy, NEW p \in Names, NEW c \in Names,
         Follows(w, p), c # <<>>, Front(c) = p, ~ IsExcluded(w, c)
  PROVE  Follows(w, c)
<1>1. w.root \in Names /\ Len(w.root) \in Nat /\ Len(p) \in Nat /\ Len(c) = Len(p) + 1
      /\ p = SubSeq(c, 1, Len(p)) /\ IsPrefix(p, c) /\ Covers(w, p) /\ Recursive(w)
  BY WatchRoot, CutIsPrefix, FrontLast, AsksCovers DEF Follows
<1>2. Covers(w, c)
  BY <1>1, PrefixOrder DEF Covers
<1>3. ASSUME NEW n \in Len(w.root) + 1 .. Len(c) PROVE ~ IsExcluded(w, SubSeq(c, 1, n))
  <2>1. CASE n = Len(c)
    <3>1. SubSeq(c, 1, n) = c
      BY <2>1, SubSeqFull DEF Names
    <3> QED
      BY <3>1
  <2>2. CASE n # Len(c)
    <3>1. n \in Len(w.root) + 1 .. Len(p) /\ n \in 0 .. Len(p) /\ Len(p) \in 0 .. Len(c)
      BY <1>1, <2>2
    <3>2. SubSeq(c, 1, n) = SubSeq(p, 1, n)
      BY <1>1, <3>1, CutsOf
    <3> QED
      BY <1>1, <3>1, <3>2 DEF Follows, Asks
  <2> QED
    BY <2>1, <2>2
<1> QED
  BY <1>1, <1>2, <1>3 DEF Follows, Asks

\* Nothing below an excluded directory is followed (walk_dirs prunes).
LEMMA ExcludedAbove ==
  ASSUME NEW w \in WatchPolicy, NEW p \in Names, NEW c \in Names,
         Covers(w, c), c # w.root, IsPrefix(c, p), IsExcluded(w, c)
  PROVE  ~ Follows(w, p)
<1>1. /\ w.root \in Names /\ Len(w.root) \in Nat /\ Len(p) \in Nat /\ Len(c) \in Nat
      /\ Len(c) <= Len(p) /\ c = SubSeq(p, 1, Len(c)) /\ Len(w.root) <= Len(c)
  BY WatchRoot, CutIsPrefix DEF Covers
<1>2. Len(w.root) # Len(c)
  BY <1>1, PrefixOrder DEF Covers
<1>3. Len(c) \in Len(w.root) + 1 .. Len(p)
  BY <1>1, <1>2
<1> QED
  BY <1>1, <1>3 DEF Follows, Asks

\* Some recursive watch prunes p from its tree.
PrunedBy(pol, p) ==
  \E i \in DOMAIN pol : Recursive(pol[i]) /\ Covers(pol[i], p) /\ ~ Follows(pol[i], p)

\* Where the watches agree, nothing below a pruned directory is asked for.
LEMMA PrunedBelow ==
  ASSUME NEW pol \in Seq(WatchPolicy), WatchesAgree(pol), Place \subseteq Names,
         NEW p \in Place, NEW q \in Names, IsPrefix(q, p), PrunedBy(pol, q),
         NEW j \in DOMAIN pol
  PROVE  ~ Asks(pol[j], p)
<1> SUFFICES ASSUME Asks(pol[j], p) PROVE FALSE
  OBVIOUS
<1>1. PICK i \in DOMAIN pol :
        Recursive(pol[i]) /\ Covers(pol[i], q) /\ ~ Follows(pol[i], q)
  BY DEF PrunedBy
<1>2. pol[i] \in WatchPolicy /\ pol[j] \in WatchPolicy /\ p \in Names
  OBVIOUS
<1>3. Covers(pol[i], p)
  BY <1>1, <1>2, WatchRoot, PrefixOrder DEF Covers
<1>4. Recursive(pol[j])
  BY <1>1, <1>2, <1>3 DEF Asks, WatchesAgree
<1>5. Follows(pol[i], p)
  BY <1>3, <1>4 DEF Follows, WatchesAgree
<1> QED
  BY <1>1, <1>2, <1>5, FollowsUp DEF Follows

\* Watches that do not overlap agree.
LEMMA DisjointWatchesAgree ==
  ASSUME NEW pol \in Seq(WatchPolicy),
         \A i, j \in DOMAIN pol : i # j => ~ Covers(pol[i], pol[j].root)
  PROVE  WatchesAgree(pol)
<1>1. Place \subseteq Names
  BY PlaceAssumption, PathAssumption DEF Names
<1>2. \A i \in DOMAIN pol : pol[i].root \in Names
  BY WatchRoot
<1>3. ASSUME NEW i \in DOMAIN pol, NEW j \in DOMAIN pol, NEW p \in Place,
             Follows(pol[i], p), Covers(pol[j], p)
      PROVE  i = j
  <2>1. IsPrefix(pol[i].root, p) /\ IsPrefix(pol[j].root, p) /\ p \in Names
    BY <1>1, <1>3, AsksCovers DEF Follows, Covers
  <2>2. Covers(pol[i], pol[j].root) \/ Covers(pol[j], pol[i].root)
    BY <1>2, <2>1, PrefixOrder DEF Covers
  <2> QED
    BY <2>2
<1> QED
  BY <1>3 DEF WatchesAgree

------------------------------------------------------------------------------
(* The type invariant. *)

\* Every directory has its parents.
TreeClosed == \A p \in DOMAIN tree : \A n \in 1 .. Len(p) : SubSeq(p, 1, n) \in DOMAIN tree

\* The tree: one place for each directory, none of them spare.
TreeTyped ==
  /\ DOMAIN tree \subseteq Place /\ Range(tree) \subseteq Node /\ IsInjective(tree)
  /\ TreeClosed
  /\ spare \subseteq Node \ Range(tree)

\* Marks and watches belong to directories there are; descriptors know places.
MarksTyped ==
  /\ marked \subseteq Range(tree) /\ watched \subseteq Range(tree) \cap DOMAIN wd_map
  /\ DOMAIN wd_map \subseteq Node /\ Range(wd_map) \subseteq Place
  /\ DOMAIN record \subseteq Names
  /\ Range(record) \subseteq [recursive : BOOLEAN, ok : BOOLEAN]

\* The inotify queue: one event more than it holds is the overflow.
QueueTyped ==
  /\ queue \in Seq(Event) /\ Len(queue) <= QueueSize + 1
  /\ Len(queue) = QueueSize + 1 => Overflow \in Range(queue)

\* The policy and the flags of the event loop.
ControlTyped ==
  /\ config \in {{}} \cup {{p} : p \in Policies} /\ policy \in Policies
  /\ reload \in BOOLEAN /\ lost \in BOOLEAN
  /\ budget \in 0 .. MaxInputs /\ unseen \subseteq Node

\* Between walks there is nothing to read, and in one a single watch decides.
WalkTyped ==
  /\ pc \in {"poll", "live", "reload", "mark_all", "build"}
  /\ CASE pc \in {"mark_all", "build"} ->
            todo \in Seq(WatchPolicy) /\ Range(todo) \subseteq Range(policy)
       [] pc = "live" -> todo \in Seq(Event)
       [] OTHER -> todo \in Seq(Event) \cup Seq(WatchPolicy) /\ ~ Walking
  /\ by \in Seq(WatchPolicy)
  /\ stack \subseteq found /\ found \subseteq Names
  /\ Walking => \E w \in Range(policy) : by = <<w>>

\* The type invariant with what it needs to be inductive.
TInv == TreeTyped /\ MarksTyped /\ QueueTyped /\ ControlTyped /\ WalkTyped

\* A place is a path, and not the root of the file system.
LEMMA PlacesAreNames == Place \subseteq Names \ {<<>>}
BY PlaceAssumption, PathAssumption DEF Names

\* TInv is stronger than the type invariant the runs check.
LEMMA TypedIsOK == TInv => TypeOK
<1> SUFFICES ASSUME TInv PROVE TypeOK
  OBVIOUS
<1> USE DEF TInv
<1>1. Range(wd_map) \subseteq Seq(STRING)
  BY PlacesAreNames DEF MarksTyped, Names
<1>2. todo \in Seq(Event) \cup Seq(WatchPolicy)
  BY DEF WalkTyped
<1> QED
  BY <1>1, <1>2
     DEF TypeOK, TreeTyped, MarksTyped, QueueTyped, ControlTyped, WalkTyped, Names

\* What is known of a policy that was loaded.
LEMMA PolicyTyped ==
  ASSUME ControlTyped
  PROVE  /\ policy \in Seq(WatchPolicy) /\ Range(policy) \subseteq WatchPolicy
         /\ \A w \in Range(policy) : \E i \in DOMAIN policy : w = policy[i]
         /\ \A i \in DOMAIN policy : policy[i] \in Range(policy)
BY TreePoliciesAssumption DEF ControlTyped, Range

\* At(p) is the directory at p, and no other's.
LEMMA AtIs ==
  ASSUME TreeTyped, NEW p
  PROVE  /\ p \in DOMAIN tree => At(p) = {tree[p]} /\ tree[p] \in Node /\ p \in Names
         /\ p \notin DOMAIN tree => At(p) = {}
         /\ \A q \in DOMAIN tree : tree[q] \in At(p) <=> q = p
BY PlacesAreNames DEF TreeTyped, At, Range, IsInjective

\* TInv holds when run() begins.
LEMMA InitTyped == Init => TInv
<1> SUFFICES ASSUME Init PROVE TInv
  OBVIOUS
<1>1. TreeTyped
  BY TreesAssumption DEF Init, TreeTyped, TreeClosed
<1>2. MarksTyped
  BY DEF Init, MarksTyped, Range
<1>3. QueueTyped
  BY TreeBoundsAssumption DEF Init, QueueTyped
<1>4. ControlTyped
  <2>1. config \in {{p} : p \in Policies}
    BY DEF Init
  <2>2. budget \in 0 .. MaxInputs
    BY TreeBoundsAssumption DEF Init
  <2> QED
    BY <2>1, <2>2 DEF Init, ControlTyped
<1>5. WalkTyped
  BY <1>4, PolicyTyped DEF Init, WalkTyped, Walking
<1> QED
  BY <1>1, <1>2, <1>3, <1>4, <1>5 DEF TInv

\* The bound on inputs is kept.
LEMMA SpendTyped ==
  ASSUME ControlTyped, NEW n \in Nat, Spend(n)
  PROVE  budget' \in 0 .. MaxInputs
BY TreeBoundsAssumption DEF ControlTyped, Spend

\* The number of failed calls is a number.
LEMMA FailuresTyped ==
  ASSUME NEW d, NEW a \in BOOLEAN, NEW b \in BOOLEAN
  PROVE  Failures(d, <<a>>) \in Nat /\ Failures(d, <<a, b>>) \in Nat
<1>1. \A S \in SUBSET (1 .. 2) : IsFiniteSet(S) /\ Cardinality(S) \in Nat
  <2>1. IsFiniteSet(1 .. 2)
    <3>1. IsFiniteSet({1} \cup {2})
      BY FS_Singleton, FS_AddElement
    <3>2. {1} \cup {2} = 1 .. 2
      OBVIOUS
    <3> QED
      BY <3>1, <3>2
  <2> QED
    BY <2>1, FS_Subset, FS_CardinalityType
<1>2. {i \in DOMAIN <<a>> : ~ <<a>>[i]} \in SUBSET (1 .. 2)
  OBVIOUS
<1>3. {i \in DOMAIN <<a, b>> : ~ <<a, b>>[i]} \in SUBSET (1 .. 2)
  OBVIOUS
<1> QED
  BY <1>1, <1>2, <1>3 DEF Failures

\* An event other than the overflow names a child of one directory.
LEMMA EventIs ==
  /\ \A e \in Event : e # Overflow =>
       e.name \in STRING /\ \E n \in Node : e.wd = {n}
  /\ \A n \in Node, x \in STRING :
       /\ [wd |-> {n}, name |-> x] \in Event /\ [wd |-> {n}, name |-> x] # Overflow
       /\ [wd |-> {n}, name |-> x].wd = {n} /\ [wd |-> {n}, name |-> x].name = x
  /\ Overflow \in Event
<1>1. ASSUME NEW n, NEW x PROVE [wd |-> {n}, name |-> x] # Overflow
  <2>1. [wd |-> {n}, name |-> x].wd # Overflow.wd
    BY DEF Overflow
  <2> QED
    BY <2>1
<1> QED
  BY <1>1 DEF Event

\* What a queue holds after one more.
LEMMA RangeOfAppend ==
  ASSUME NEW S, NEW s \in Seq(S), NEW e \in S
  PROVE  Append(s, e) \in Seq(S) /\ Len(Append(s, e)) = Len(s) + 1
         /\ Range(Append(s, e)) = Range(s) \cup {e}
<1>1. DOMAIN s = 1 .. Len(s) /\ Len(s) \in Nat
  BY LenProperties
<1>2. DOMAIN Append(s, e) = 1 .. Len(s) + 1
  BY AppendProperties, LenProperties
<1>3. \A i \in 1 .. Len(s) : Append(s, e)[i] = s[i]
  BY AppendProperties
<1>4. Append(s, e)[Len(s) + 1] = e
  BY AppendProperties
<1>5. \A i \in 1 .. Len(s) + 1 : i \in 1 .. Len(s) \/ i = Len(s) + 1
  BY <1>1
<1>6. Range(Append(s, e)) \subseteq Range(s) \cup {e}
  BY <1>1, <1>2, <1>3, <1>4, <1>5 DEF Range
<1>7. Range(s) \cup {e} \subseteq Range(Append(s, e))
  BY <1>1, <1>2, <1>3, <1>4 DEF Range
<1> QED
  BY <1>6, <1>7, AppendProperties

\* What a queue holds without its first.
LEMMA RangeOfTail ==
  ASSUME NEW S, NEW s \in Seq(S), s # <<>>
  PROVE  /\ Head(s) \in S /\ Tail(s) \in Seq(S)
         /\ Head(s) \in Range(s) /\ Range(s) = {Head(s)} \cup Range(Tail(s))
<1>1. /\ DOMAIN s = 1 .. Len(s) /\ Len(s) \in Nat \ {0} /\ Head(s) = s[1]
      /\ Tail(s) \in Seq(S) /\ Len(Tail(s)) = Len(s) - 1
      /\ \A i \in 1 .. Len(Tail(s)) : Tail(s)[i] = s[i + 1]
  BY LenProperties, HeadTailProperties, EmptySeq
<1>2. DOMAIN Tail(s) = 1 .. Len(s) - 1
  BY <1>1, LenProperties
<1>3. Range(s) \subseteq {Head(s)} \cup Range(Tail(s))
  <2> SUFFICES ASSUME NEW i \in 1 .. Len(s), i # 1
               PROVE  s[i] \in Range(Tail(s))
    BY <1>1 DEF Range
  <2>1. i - 1 \in 1 .. Len(s) - 1 /\ (i - 1) + 1 = i
    BY <1>1
  <2>2. Tail(s)[i - 1] = s[i]
    BY <1>1, <2>1
  <2> QED
    BY <1>2, <2>1, <2>2 DEF Range
<1>4. ASSUME NEW i \in 1 .. Len(s) - 1 PROVE Tail(s)[i] \in Range(s)
  <2>1. i + 1 \in 1 .. Len(s)
    BY <1>1
  <2> QED
    BY <1>1, <2>1 DEF Range
<1>5. Head(s) \in Range(s)
  BY <1>1 DEF Range
<1>6. Range(Tail(s)) \subseteq Range(s)
  BY <1>2, <1>4 DEF Range
<1> QED
  BY <1>1, <1>3, <1>5, <1>6, HeadTailProperties

------------------------------------------------------------------------------
(* The steps that change the tree. *)

\* What Mkdir and Move have in common: the directories N come to lie at p and below
\* it, the rest of the tree stays.
Arrival(p, N) ==
  /\ p \in Place \ DOMAIN tree
  /\ \A r \in DOMAIN tree' :
       \/ r \in DOMAIN tree /\ tree'[r] = tree[r] /\ tree[r] \notin N
       \/ r \notin DOMAIN tree /\ IsPrefix(p, r) /\ tree'[r] \in N
  /\ \A r \in DOMAIN tree : tree[r] \notin N => r \in DOMAIN tree'
  /\ Front(p) \in DOMAIN tree => tree[Front(p)] \notin N
  /\ N \subseteq spare \cup Range(tree) /\ N \subseteq Node
  /\ N \cap spare' = {} /\ spare' \subseteq spare
  /\ Range(tree) \subseteq Range(tree')
  /\ TreeTyped'
  /\ Arrive(p, N)
  /\ UNCHANGED <<config, markVars, watchVars, walkVars, policy, reload, pc, lost>>

\* A directory's parents, by prefix.
LEMMA ClosedUp ==
  ASSUME TreeTyped, NEW p \in DOMAIN tree, NEW q \in Names, q # <<>>, IsPrefix(q, p)
  PROVE  q \in DOMAIN tree
<1>1. p \in Names
  BY AtIs
<1>2. Len(q) \in 1 .. Len(p) /\ q = SubSeq(p, 1, Len(q))
  BY <1>1, CutIsPrefix, EmptySeq DEF Names
<1> QED
  BY <1>2 DEF TreeTyped, TreeClosed

\* Mkdir is the arrival of one new directory.
LEMMA MkdirArrives ==
  ASSUME TInv, NEW p \in Place, Mkdir(p)
  PROVE  \E n \in spare : Arrival(p, {n})
<1> DEFINE n == CHOOSE n \in spare : TRUE
<1>1. /\ n \in spare /\ p \in Place \ DOMAIN tree /\ (Len(p) > 1 => Front(p) \in DOMAIN tree)
      /\ tree' = Update(tree, {p}, n) /\ spare' = spare \ {n} /\ Arrive(p, {n})
      /\ UNCHANGED <<config, markVars, watchVars, walkVars, policy, reload, pc, lost>>
  BY DEF Mkdir
<1> HIDE DEF n
<1>2. /\ n \in Node /\ n \notin Range(tree) /\ p \in Names /\ p # <<>>
      /\ \A r \in DOMAIN tree : tree[r] # n /\ r \in Names
  BY <1>1, AtIs, PlacesAreNames DEF TInv, TreeTyped, Range
<1>3. /\ DOMAIN tree' = DOMAIN tree \cup {p} /\ tree'[p] = n
      /\ \A r \in DOMAIN tree : tree'[r] = tree[r]
      /\ Range(tree') = Range(tree) \cup {n}
  <2>1. /\ DOMAIN tree' = DOMAIN tree \cup {p} /\ tree'[p] = n
        /\ \A r \in DOMAIN tree : tree'[r] = tree[r]
    <3>1. DOMAIN tree \ {p} = DOMAIN tree
      BY <1>1
    <3>2. /\ DOMAIN Update(tree, {p}, n) = DOMAIN tree \cup {p}
          /\ Update(tree, {p}, n)[p] = n
          /\ \A r \in DOMAIN tree : Update(tree, {p}, n)[r] = tree[r]
      BY <1>1, <3>1 DEF Update
    <3> QED
      BY <1>1, <3>2
  <2> QED
    BY <2>1 DEF Range
<1>4. IsInjective(tree')
  BY <1>2, <1>3 DEF TInv, TreeTyped, IsInjective
<1>5. TreeClosed'
  <2> SUFFICES ASSUME NEW m \in 1 .. Len(p), m # Len(p)
               PROVE  SubSeq(p, 1, m) \in DOMAIN tree
    <3>1. SubSeq(p, 1, Len(p)) = p
      BY <1>2, SubSeqFull DEF Names
    <3> QED
      BY <1>3, <3>1 DEF TInv, TreeTyped, TreeClosed
  <2>1. Len(p) \in Nat /\ Len(p) > 1 /\ Len(p) - 1 \in 0 .. Len(p) /\ m \in 1 .. Len(p) - 1
    BY <1>2, FrontLast
  <2>2. SubSeq(p, 1, m) = SubSeq(Front(p), 1, m) /\ Len(Front(p)) = Len(p) - 1
    BY <1>2, <2>1, CutsOf DEF Front
  <2> QED
    BY <1>1, <2>1, <2>2 DEF TInv, TreeTyped, TreeClosed
<1>6. TreeTyped'
  BY <1>1, <1>2, <1>3, <1>4, <1>5 DEF TInv, TreeTyped
<1>7. IsPrefix(p, p)
  BY <1>2, PrefixOrder
<1>8. Arrival(p, {n})
  BY <1>1, <1>2, <1>3, <1>6, <1>7 DEF Arrival
<1> QED
  BY <1>1, <1>8

\* The path r with its prefix p replaced by q.
Rerooted(p, q, r) == q \o SubSeq(r, Len(p) + 1, Len(r))

\* Name by name: t is r with its prefix p replaced by q.
NamesRerooted(t, p, q, r) ==
  /\ t \in Names /\ Len(t) = Len(q) + Len(r) - Len(p)
  /\ Len(p) \in Nat /\ Len(q) \in Nat /\ Len(r) \in Nat /\ Len(p) <= Len(r)
  /\ \A i \in 1 .. Len(q) : t[i] = q[i]
  /\ \A i \in Len(p) + 1 .. Len(r) : t[i - Len(p) + Len(q)] = r[i]
  /\ \A i \in 1 .. Len(p) : r[i] = p[i]

\* The names of a rerooted path.
LEMMA RerootedIs ==
  ASSUME NEW p \in Names, NEW q \in Names, NEW r \in Names, IsPrefix(p, r)
  PROVE  NamesRerooted(Rerooted(p, q, r), p, q, r)
<1> DEFINE rest == SubSeq(r, Len(p) + 1, Len(r))
           t == Rerooted(p, q, r)
<1>1. Len(p) \in Nat /\ Len(q) \in Nat /\ Len(r) \in Nat /\ Len(p) <= Len(r)
      /\ p = SubSeq(r, 1, Len(p))
  BY CutIsPrefix
<1>2. rest \in Names /\ Len(rest) = Len(r) - Len(p)
      /\ \A i \in 1 .. Len(r) - Len(p) : rest[i] = r[i + Len(p)]
  BY <1>1 DEF Names
<1>3. t = q \o rest
  BY DEF Rerooted
<1> HIDE DEF rest, t
<1>4. /\ t \in Names /\ Len(t) = Len(q) + Len(rest)
      /\ \A i \in 1 .. Len(q) + Len(rest) : t[i] = IF i <= Len(q) THEN q[i] ELSE rest[i - Len(q)]
  BY <1>2, <1>3, ConcatProperties DEF Names
<1>5. ASSUME NEW i \in Len(p) + 1 .. Len(r) PROVE t[i - Len(p) + Len(q)] = r[i]
  <2>1. /\ i - Len(p) \in 1 .. Len(r) - Len(p) /\ (i - Len(p)) + Len(p) = i
        /\ i - Len(p) + Len(q) \in 1 .. Len(q) + Len(rest)
        /\ ~ (i - Len(p) + Len(q) <= Len(q)) /\ i - Len(p) + Len(q) - Len(q) = i - Len(p)
    BY <1>1, <1>2
  <2> QED
    BY <2>1, <1>2, <1>4
<1>6. \A i \in 1 .. Len(q) : t[i] = q[i]
  BY <1>1, <1>2, <1>4
<1>7. \A i \in 1 .. Len(p) : r[i] = p[i]
  BY <1>1 DEF Names
<1> QED
  <2>1. NamesRerooted(t, p, q, r)
    BY <1>1, <1>2, <1>4, <1>5, <1>6, <1>7 DEF NamesRerooted
  <2> QED
    BY <2>1 DEF t

\* What lies on the way to a rerooted path is the new place or rerooted itself.
LEMMA RerootedPrefix ==
  ASSUME NEW p \in Names, NEW q \in Names, NEW r \in Names, IsPrefix(p, r)
  PROVE  /\ IsPrefix(q, Rerooted(p, q, r))
         /\ \A n \in Len(q) .. Len(Rerooted(p, q, r)) :
              \E s \in Names : /\ IsPrefix(p, s) /\ IsPrefix(s, r)
                               /\ SubSeq(Rerooted(p, q, r), 1, n) = Rerooted(p, q, s)
<1> DEFINE t == Rerooted(p, q, r)
<1>0. NamesRerooted(t, p, q, r)
  BY RerootedIs
<1> HIDE DEF t
<1>1. /\ t \in Names /\ Len(t) = Len(q) + Len(r) - Len(p)
      /\ Len(p) \in Nat /\ Len(q) \in Nat /\ Len(r) \in Nat /\ Len(p) <= Len(r)
      /\ \A i \in 1 .. Len(q) : t[i] = q[i]
      /\ \A i \in Len(p) + 1 .. Len(r) : t[i - Len(p) + Len(q)] = r[i]
  BY <1>0 DEF NamesRerooted
<1>2. IsPrefix(q, t)
  <2>1. Len(q) \in 0 .. Len(t)
    BY <1>1
  <2> DEFINE c == SubSeq(t, 1, Len(q))
  <2>2. c \in Names /\ Len(c) = Len(q)
    BY <1>1, <2>1, CutsOf
  <2>3. \A i \in 1 .. Len(q) : c[i] = t[i]
    BY <1>1, <2>1 DEF Names
  <2> HIDE DEF c
  <2>4. c = q
    BY <1>1, <2>2, <2>3, SeqEqual DEF Names
  <2> QED
    BY <1>1, <2>1, <2>4, CutIsPrefix DEF c
<1>3. ASSUME NEW n \in Len(q) .. Len(t)
      PROVE  \E s \in Names : IsPrefix(p, s) /\ IsPrefix(s, r) /\ SubSeq(t, 1, n) = Rerooted(p, q, s)
  <2> DEFINE m == n - Len(q) + Len(p)
             s == SubSeq(r, 1, m)
             u == Rerooted(p, q, s)
             c == SubSeq(t, 1, n)
  <2>1. m \in 0 .. Len(r) /\ Len(p) \in 0 .. m /\ n \in 0 .. Len(t)
    BY <1>1
  <2>2. s \in Names /\ Len(s) = m /\ IsPrefix(s, r) /\ SubSeq(s, 1, Len(p)) = SubSeq(r, 1, Len(p))
    BY <2>1, CutsOf
  <2>3. \A i \in 1 .. m : s[i] = r[i]
    BY <2>1 DEF Names
  <2> HIDE DEF s
  <2>4. IsPrefix(p, s)
    BY <1>1, <2>1, <2>2, CutIsPrefix
  <2>5. /\ u \in Names /\ Len(u) = Len(q) + Len(s) - Len(p)
        /\ \A i \in 1 .. Len(q) : u[i] = q[i]
        /\ \A i \in Len(p) + 1 .. Len(s) : u[i - Len(p) + Len(q)] = s[i]
    <3>1. NamesRerooted(u, p, q, s)
      BY <2>2, <2>4, RerootedIs
    <3> HIDE DEF u
    <3> QED
      BY <3>1 DEF NamesRerooted
  <2>6. c \in Names /\ Len(c) = n /\ \A i \in 1 .. n : c[i] = t[i]
    <3>1. c \in Names /\ Len(c) = n
      BY <1>1, <2>1, CutsOf
    <3>2. \A i \in 1 .. n : c[i] = t[i]
      BY <1>1, <2>1 DEF Names
    <3> QED
      BY <3>1, <3>2
  <2> HIDE DEF u, c
  <2>7. Len(u) = n
    BY <1>1, <2>1, <2>2, <2>5
  <2>8. ASSUME NEW i \in 1 .. n PROVE c[i] = u[i]
    <3>1. CASE i <= Len(q)
      <4>1. i \in 1 .. Len(q)
        BY <1>1, <2>1, <3>1
      <4>2. t[i] = q[i] /\ u[i] = q[i] /\ c[i] = t[i]
        BY <1>1, <2>5, <2>6, <4>1
      <4> QED
        BY <4>2
    <3>2. CASE ~ (i <= Len(q))
      <4> DEFINE k == i - Len(q) + Len(p)
      <4>1. /\ k \in Len(p) + 1 .. Len(r) /\ k \in Len(p) + 1 .. Len(s) /\ k \in 1 .. m
            /\ k - Len(p) + Len(q) = i
        BY <1>1, <2>1, <2>2, <3>2
      <4> HIDE DEF k
      <4>2. t[i] = r[k] /\ u[i] = s[k] /\ s[k] = r[k]
        BY <1>1, <2>3, <2>5, <4>1
      <4> QED
        BY <2>6, <4>2
    <3> QED
      BY <3>1, <3>2
  <2>9. c = u
    BY <2>5, <2>6, <2>7, <2>8, SeqEqual DEF Names
  <2> QED
    BY <2>2, <2>4, <2>9 DEF u, c
<1> QED
  BY <1>2, <1>3 DEF t

\* Two paths are not rerooted to one.
LEMMA RerootedInjective ==
  ASSUME NEW p \in Names, NEW q \in Names, NEW r \in Names, NEW s \in Names,
         IsPrefix(p, r), IsPrefix(p, s), Rerooted(p, q, r) = Rerooted(p, q, s)
  PROVE  r = s
<1> DEFINE t == Rerooted(p, q, r)
           u == Rerooted(p, q, s)
<1>1. NamesRerooted(t, p, q, r)
  BY RerootedIs
<1>2. NamesRerooted(u, p, q, s)
  BY RerootedIs
<1>3. t = u
  OBVIOUS
<1> HIDE DEF t, u
<1>4. Len(r) = Len(s)
  BY <1>1, <1>2, <1>3 DEF NamesRerooted
<1>5. \A i \in 1 .. Len(r) : r[i] = s[i]
  <2> SUFFICES ASSUME NEW i \in 1 .. Len(r) PROVE r[i] = s[i]
    OBVIOUS
  <2>1. CASE i \in 1 .. Len(p)
    BY <1>1, <1>2, <1>4, <2>1 DEF NamesRerooted
  <2>2. CASE i \in Len(p) + 1 .. Len(r)
    <3>1. t[i - Len(p) + Len(q)] = r[i] /\ u[i - Len(p) + Len(q)] = s[i]
      BY <1>1, <1>2, <1>4, <2>2 DEF NamesRerooted
    <3> QED
      BY <1>3, <3>1
  <2> QED
    BY <1>1, <2>1, <2>2 DEF NamesRerooted
<1> QED
  BY <1>4, <1>5, SeqEqual DEF Names

\* Move is the arrival of the whole subtree: it stays in one piece, each directory at
\* one place.
LEMMA MoveArrives ==
  ASSUME TInv, NEW p \in Place, NEW q \in Place, Move(p, q)
  PROVE  Arrival(q, {tree[r] : r \in Tree(p)})
<1> DEFINE moved == Tree(p)
           To(r) == Rerooted(p, q, r)
           new == {To(r) : r \in moved}
           N == {tree[r] : r \in moved}
           kept == DOMAIN tree \ moved
<1>1. /\ p \in DOMAIN tree /\ q \in Place \ DOMAIN tree
      /\ Front(q) \in kept /\ new \subseteq Place
      /\ tree' = [r \in kept \cup new |->
                   IF r \in new THEN CHOOSE n \in {tree[s] : s \in {t \in moved : To(t) = r}} : TRUE
                                ELSE tree[r]]
      /\ Arrive(q, N) /\ Spend(1)
      /\ UNCHANGED <<spare, config, markVars, watchVars, walkVars, policy, reload, pc, lost>>
  BY DEF Move, Rerooted
<1>2. /\ p \in Names /\ q \in Names /\ q # <<>> /\ p # <<>>
      /\ \A r \in moved : r \in DOMAIN tree /\ r \in Names /\ IsPrefix(p, r)
      /\ \A r \in DOMAIN tree : r \in Names /\ tree[r] \in Node
      /\ \A r \in kept : ~ IsPrefix(p, r)
      /\ \A r, s \in DOMAIN tree : tree[r] = tree[s] => r = s
      /\ TreeTyped
  BY AtIs, PlacesAreNames DEF Tree, TInv, TreeTyped, IsInjective
<1>3. /\ \A r \in moved : To(r) \in Names /\ IsPrefix(q, To(r))
      /\ \A r, s \in moved : To(r) = To(s) => r = s
  <2>1. ASSUME NEW r \in moved PROVE To(r) \in Names /\ IsPrefix(q, To(r))
    <3>1. r \in Names /\ IsPrefix(p, r)
      BY <1>2, <2>1
    <3>2. NamesRerooted(Rerooted(p, q, r), p, q, r) /\ IsPrefix(q, Rerooted(p, q, r))
      BY <1>2, <3>1, RerootedIs, RerootedPrefix
    <3> QED
      BY <3>2 DEF NamesRerooted
  <2>2. ASSUME NEW r \in moved, NEW s \in moved, To(r) = To(s) PROVE r = s
    BY <1>2, <2>2, RerootedInjective
  <2> QED
    BY <2>1, <2>2
<1>4. \A r \in DOMAIN tree : ~ IsPrefix(q, r)
  BY <1>1, <1>2, ClosedUp
<1> HIDE DEF To, moved
<1>5. new \cap DOMAIN tree = {}
  BY <1>3, <1>4
<1>6. DOMAIN tree' = kept \cup new
  BY <1>1
<1>7. \A r \in kept : tree'[r] = tree[r]
  BY <1>1, <1>5
<1>8. ASSUME NEW s \in moved PROVE tree'[To(s)] = tree[s]
  <2>1. {t \in moved : To(t) = To(s)} = {s}
    BY <1>3
  <2>2. (CHOOSE n \in {tree[r] : r \in {s}} : TRUE) = tree[s]
    <3>1. {tree[r] : r \in {s}} = {tree[s]}
      OBVIOUS
    <3> QED
      BY <3>1
  <2>3. tree'[To(s)] = CHOOSE n \in {tree[r] : r \in {t \in moved : To(t) = To(s)}} : TRUE
    BY <1>1
  <2> QED
    BY <2>1, <2>2, <2>3
<1>9. Range(tree') = Range(tree)
  <2>1. ASSUME NEW r \in DOMAIN tree' PROVE tree'[r] \in Range(tree)
    BY <1>2, <1>6, <1>7, <1>8, <2>1 DEF Range
  <2>2. ASSUME NEW r \in DOMAIN tree PROVE \E t \in DOMAIN tree' : tree'[t] = tree[r]
    <3>1. CASE r \in moved
      BY <1>6, <1>8, <3>1
    <3>2. CASE r \notin moved
      BY <1>6, <1>7, <3>2
    <3> QED
      BY <3>1, <3>2
  <2> QED
    BY <2>1, <2>2 DEF Range
<1>10. /\ \A r \in kept : tree[r] \notin N
       /\ \A r \in new : \E s \in moved : r = To(s) /\ tree'[r] = tree[s]
  BY <1>2, <1>8
<1>11. IsInjective(tree')
  <2> SUFFICES ASSUME NEW r \in DOMAIN tree', NEW s \in DOMAIN tree', tree'[r] = tree'[s]
               PROVE  r = s
    BY DEF IsInjective
  <2>1. CASE r \in kept /\ s \in kept
    BY <1>2, <1>7, <2>1
  <2>2. CASE r \in new /\ s \in new
    BY <1>2, <1>10, <2>2
  <2>3. CASE (r \in new /\ s \in kept) \/ (r \in kept /\ s \in new)
    BY <1>7, <1>10, <2>3
  <2> QED
    BY <1>6, <2>1, <2>2, <2>3
<1>12. TreeClosed'
  <2> SUFFICES ASSUME NEW r \in DOMAIN tree', NEW n \in 1 .. Len(r)
               PROVE  SubSeq(r, 1, n) \in DOMAIN tree'
    BY DEF TreeClosed
  <2>0. r \in Names
    BY <1>2, <1>3, <1>6
  <2> DEFINE c == SubSeq(r, 1, n)
  <2>1. n \in 0 .. Len(r) /\ c \in Names /\ Len(c) = n /\ IsPrefix(c, r) /\ c # <<>>
    <3>1. Len(r) \in Nat /\ n \in 0 .. Len(r)
      BY <2>0, CutIsPrefix
    <3>2. c \in Names /\ Len(c) = n /\ IsPrefix(c, r)
      BY <2>0, <3>1, CutsOf
    <3> QED
      BY <3>1, <3>2
  <2>2. CASE r \in kept
    <3>1. c \in DOMAIN tree
      BY <2>1, <2>2, <1>2, ClosedUp
    <3>2. ~ IsPrefix(p, c)
      BY <2>0, <2>1, <2>2, <1>2, PrefixOrder
    <3> QED
      BY <3>1, <3>2, <1>2, <1>6 DEF moved, Tree
  <2>3. CASE r \in new
    <3>1. PICK s \in moved : r = To(s)
      BY <2>3
    <3>2. CASE n < Len(q)
      <4>1. IsPrefix(q, r) /\ Len(q) \in Nat
        BY <3>1, <1>2, <1>3, CutIsPrefix
      <4>2. IsPrefix(c, q) /\ c # q
        <5>1. IsPrefix(c, q) \/ IsPrefix(q, c)
          BY <2>0, <2>1, <4>1, <1>2, PrefixOrder
        <5>2. ~ IsPrefix(q, c) /\ c # q
          <6> HIDE DEF c
          <6> QED
            BY <2>1, <3>2, <4>1, <1>2, CutIsPrefix
        <5> QED
          BY <5>1, <5>2
      <4>3. IsPrefix(c, Front(q)) /\ Front(q) \in Names
        BY <4>2, <2>1, <1>2, BelowFront, FrontLast
      <4>4. c \in DOMAIN tree
        BY <4>3, <2>1, <1>1, <1>2, ClosedUp
      <4>5. ~ IsPrefix(p, c)
        BY <4>3, <2>1, <1>1, <1>2, PrefixOrder
      <4> QED
        BY <4>4, <4>5, <1>2, <1>6 DEF moved, Tree
    <3>3. CASE ~ (n < Len(q))
      <4>1. n \in Len(q) .. Len(r)
        BY <2>1, <3>3, <1>2, CutIsPrefix
      <4>2. PICK u \in Names : IsPrefix(p, u) /\ IsPrefix(u, s) /\ c = To(u)
        BY <3>1, <4>1, <1>2, RerootedPrefix DEF To
      <4>3. u # <<>>
        BY <4>2, <1>2, CutIsPrefix, EmptySeq DEF Names
      <4>4. u \in moved
        BY <4>2, <4>3, <1>2, ClosedUp DEF moved, Tree
      <4> QED
        BY <4>2, <4>4, <1>6
    <3> QED
      BY <3>2, <3>3
  <2> QED
    BY <1>6, <2>2, <2>3
<1>13. TreeTyped'
  <2>1. DOMAIN tree' \subseteq Place
    BY <1>1, <1>6 DEF TInv, TreeTyped
  <2> QED
    BY <2>1, <1>1, <1>9, <1>11, <1>12 DEF TInv, TreeTyped
<1>14. N \subseteq Range(tree) /\ N \subseteq Node /\ N \cap spare' = {} /\ spare' \subseteq spare
  BY <1>1, <1>2 DEF TInv, TreeTyped, Range
<1>15. \A r \in DOMAIN tree' :
         \/ r \in DOMAIN tree /\ tree'[r] = tree[r] /\ tree[r] \notin N
         \/ r \notin DOMAIN tree /\ IsPrefix(q, r) /\ tree'[r] \in N
  BY <1>3, <1>5, <1>6, <1>7, <1>10
<1>16. \A r \in DOMAIN tree : tree[r] \notin N => r \in DOMAIN tree'
  BY <1>6
<1> HIDE DEF N, new, kept
<1>17. Front(q) \in DOMAIN tree => tree[Front(q)] \notin N
  BY <1>1, <1>10
<1>18. Arrival(q, N)
  BY <1>1, <1>9, <1>13, <1>14, <1>15, <1>16, <1>17 DEF Arrival
<1> QED
  BY <1>18 DEF N, moved

\* The event that an arrival at p queues.
Told(p) == [wd |-> {tree[Front(p)]}, name |-> Last(p)]

\* An announcement is queued, or the queue then ends in an overflow.
LEMMA AnnounceIs ==
  ASSUME TInv, NEW p \in Place, Announce(p)
  PROVE  /\ QueueTyped'
         /\ ~ IsAnnounced(p) => queue' = queue
         /\ IsAnnounced(p) =>
              /\ Front(p) \in DOMAIN tree /\ tree[Front(p)] \in watched
              /\ Told(p) \in Event \ {Overflow}
              /\ \/ Range(queue') = Range(queue) \cup {Told(p)}
                 \/ Range(queue') = Range(queue) \cup {Overflow}
<1>1. /\ p \in Names /\ p # <<>> /\ Last(p) \in STRING
      /\ TreeTyped /\ QueueSize \in Nat
      /\ queue \in Seq(Event) /\ Len(queue) \in Nat /\ Len(queue) <= QueueSize + 1
      /\ Len(queue) = QueueSize + 1 => Overflow \in Range(queue)
  BY PlacesAreNames, FrontLast, TreeBoundsAssumption, LenProperties DEF TInv, QueueTyped
<1>2. IsAnnounced(p) =>
        /\ Front(p) \in DOMAIN tree /\ At(Front(p)) = {tree[Front(p)]}
        /\ tree[Front(p)] \in watched /\ tree[Front(p)] \in Node
  BY <1>1, AtIs DEF IsAnnounced
<1>3. IsAnnounced(p) => Told(p) \in Event \ {Overflow}
  BY <1>1, <1>2, EventIs DEF Told
<1>4. CASE ~ IsAnnounced(p)
  <2>1. queue' = queue
    BY <1>4 DEF Announce
  <2> QED
    BY <1>1, <1>4, <2>1 DEF QueueTyped
<1>5. CASE IsAnnounced(p) /\ Len(queue) < QueueSize
  <2>1. queue' = Append(queue, Told(p))
    BY <1>2, <1>5 DEF Announce, Told
  <2>2. /\ queue' \in Seq(Event) /\ Len(queue') = Len(queue) + 1
        /\ Range(queue') = Range(queue) \cup {Told(p)}
    BY <1>1, <1>3, <1>5, <2>1, RangeOfAppend
  <2>3. Len(queue') <= QueueSize /\ Len(queue') # QueueSize + 1 /\ Len(queue') <= QueueSize + 1
    BY <1>1, <1>5, <2>2
  <2>4. QueueTyped'
    BY <2>2, <2>3 DEF QueueTyped
  <2> QED
    BY <1>2, <1>3, <1>5, <2>2, <2>4
<1>6. CASE IsAnnounced(p) /\ ~ (Len(queue) < QueueSize) /\ Overflow \in Range(queue)
  <2>1. queue' = queue
    BY <1>6 DEF Announce
  <2>2. QueueTyped' /\ Range(queue') = Range(queue) \cup {Overflow}
    BY <1>1, <1>6, <2>1 DEF QueueTyped
  <2> QED
    BY <1>2, <1>3, <1>6, <2>2
<1>7. CASE IsAnnounced(p) /\ ~ (Len(queue) < QueueSize) /\ Overflow \notin Range(queue)
  <2>1. queue' = Append(queue, Overflow)
    BY <1>7 DEF Announce
  <2>2. /\ queue' \in Seq(Event) /\ Len(queue') = Len(queue) + 1
        /\ Range(queue') = Range(queue) \cup {Overflow}
    BY <1>1, <2>1, RangeOfAppend, EventIs
  <2>3. Len(queue') <= QueueSize + 1
    BY <1>1, <1>7, <2>2
  <2>4. QueueTyped'
    BY <2>2, <2>3 DEF QueueTyped
  <2> QED
    BY <1>2, <1>3, <1>7, <2>2, <2>4
<1> QED
  BY <1>4, <1>5, <1>6, <1>7

\* Steps that leave policy and flags alone keep them typed.
LEMMA UnchangedControl ==
  ASSUME ControlTyped, UNCHANGED <<config, policy, reload, lost>>,
         budget' \in 0 .. MaxInputs, unseen' \subseteq Node
  PROVE  ControlTyped'
BY DEF ControlTyped

\* Steps that leave the walk alone keep it typed.
LEMMA UnchangedWalk ==
  ASSUME WalkTyped, UNCHANGED <<walkVars, pc, policy>>
  PROVE  WalkTyped'
BY DEF WalkTyped, walkVars, Walking

\* An arrival keeps TInv.
LEMMA ArrivalTyped ==
  ASSUME TInv, NEW p \in Place, NEW N, Arrival(p, N), budget' \in 0 .. MaxInputs
  PROVE  TInv'
<1> USE DEF TInv
<1>1. TreeTyped'
  BY DEF Arrival
<1>2. MarksTyped'
  BY DEF MarksTyped, Arrival, markVars, watchVars
<1>3. QueueTyped'
  BY AnnounceIs DEF Arrival, Arrive
<1>4. unseen' \subseteq Node
  BY DEF Arrival, Arrive, ControlTyped
<1>5. ControlTyped'
  BY <1>4, UnchangedControl DEF Arrival
<1>6. WalkTyped'
  BY UnchangedWalk DEF Arrival
<1> QED
  BY <1>1, <1>2, <1>3, <1>5, <1>6

\* What Rmdir does: a directory without children goes, with its mark and watch.
Removal(p) ==
  /\ p \in DOMAIN tree
  /\ DOMAIN tree' = DOMAIN tree \ {p}
  /\ \A r \in DOMAIN tree' : tree'[r] = tree[r] /\ ~ IsPrefix(p, r)
  /\ TreeTyped' /\ Range(tree') = Range(tree) \ {tree[p]}
  /\ marked' = marked \ {tree[p]} /\ watched' = watched \ {tree[p]}
  /\ UNCHANGED <<spare, config, wd_map, record, walkVars, queue, policy, reload, pc,
                 unseen, lost>>

\* Rmdir is such a removal.
LEMMA RmdirRemoves ==
  ASSUME TInv, NEW p \in Place, Rmdir(p)
  PROVE  Removal(p)
<1>1. /\ p \in DOMAIN tree /\ Children(p) = {}
      /\ tree' = [q \in DOMAIN tree \ {p} |-> tree[q]]
      /\ marked' = marked \ At(p) /\ watched' = watched \ At(p)
      /\ UNCHANGED <<spare, config, wd_map, record, walkVars, queue, policy, reload, pc,
                     unseen, lost>>
  BY DEF Rmdir
<1>2. /\ At(p) = {tree[p]} /\ p \in Names /\ TreeTyped
      /\ \A r \in DOMAIN tree : r \in Names
      /\ \A r, s \in DOMAIN tree : tree[r] = tree[s] => r = s
  BY <1>1, AtIs DEF TInv, TreeTyped, IsInjective
<1>3. ASSUME NEW r \in DOMAIN tree, IsPrefix(p, r) PROVE r = p
  <2> SUFFICES ASSUME r # p PROVE FALSE
    OBVIOUS
  <2> DEFINE c == SubSeq(r, 1, Len(p) + 1)
  <2>1. c \in Names /\ Len(c) = Len(p) + 1 /\ IsPrefix(p, c) /\ Len(p) + 1 \in 1 .. Len(r)
    BY <1>2, <1>3, BelowFront
  <2>2. c \in DOMAIN tree
    BY <1>2, <2>1 DEF TreeTyped, TreeClosed
  <2> QED
    BY <1>1, <2>1, <2>2 DEF Children
<1>4. /\ DOMAIN tree' = DOMAIN tree \ {p}
      /\ \A r \in DOMAIN tree' : tree'[r] = tree[r] /\ ~ IsPrefix(p, r)
  BY <1>1, <1>3
<1>5. Range(tree') = Range(tree) \ {tree[p]}
  BY <1>1, <1>2, <1>4 DEF Range
<1>6. IsInjective(tree')
  BY <1>2, <1>4 DEF IsInjective
<1>7. TreeClosed'
  <2> SUFFICES ASSUME NEW r \in DOMAIN tree', NEW n \in 1 .. Len(r)
               PROVE  SubSeq(r, 1, n) \in DOMAIN tree'
    BY DEF TreeClosed
  <2>1. r \in DOMAIN tree /\ r \in Names /\ ~ IsPrefix(p, r) /\ n \in 0 .. Len(r)
    BY <1>2, <1>4, CutIsPrefix
  <2>2. SubSeq(r, 1, n) \in DOMAIN tree
    BY <2>1, <1>2 DEF TreeTyped, TreeClosed
  <2>3. IsPrefix(SubSeq(r, 1, n), r)
    BY <2>1, CutsOf
  <2> QED
    BY <1>4, <2>1, <2>2, <2>3
<1>8. TreeTyped'
  BY <1>1, <1>2, <1>4, <1>5, <1>6, <1>7 DEF TreeTyped
<1> QED
  BY <1>1, <1>2, <1>4, <1>5, <1>8 DEF Removal

\* A removal keeps TInv.
LEMMA RemovalTyped ==
  ASSUME TInv, NEW p \in Place, Removal(p), budget' \in 0 .. MaxInputs
  PROVE  TInv'
<1> USE DEF TInv
<1>1. TreeTyped'
  BY DEF Removal
<1>2. MarksTyped'
  BY DEF MarksTyped, Removal
<1>3. QueueTyped'
  BY DEF QueueTyped, Removal
<1>4. ControlTyped'
  BY UnchangedControl DEF Removal, ControlTyped
<1>6. WalkTyped'
  BY UnchangedWalk DEF Removal
<1> QED
  BY <1>1, <1>2, <1>3, <1>4, <1>6

------------------------------------------------------------------------------
(* The steps of the daemon. *)

\* Reading a directory only grows the walk.
LEMMA ReadDirIs ==
  ASSUME TInv, NEW d \in stack, ReadDir(d)
  PROVE  /\ \E e \in SUBSET DOMAIN tree :
              /\ e = {q \in Children(d) : ~IsExcluded(Head(by), q)}
              /\ stack' = (stack \ {d}) \cup e /\ found' = found \cup e
         /\ UNCHANGED <<worldVars, markVars, watchVars, todo, by, queue, policy, reload, pc,
                        budget, unseen, lost>>
BY DEF ReadDir, Children

\* Reading a directory keeps TInv.
LEMMA ReadDirTyped ==
  ASSUME TInv, NEW d \in stack, ReadDir(d)
  PROVE  TInv'
<1> USE DEF TInv
<1>1. PICK e \in SUBSET DOMAIN tree :
         stack' = (stack \ {d}) \cup e /\ found' = found \cup e
  BY ReadDirIs
<1>2. UNCHANGED <<worldVars, markVars, watchVars, todo, by, queue, policy, reload, pc,
                        budget, unseen, lost>>
  BY ReadDirIs
<1>3. e \subseteq Names
  BY <1>1, PlacesAreNames DEF TreeTyped
<1>4. WalkTyped'
  <2>1. Walking /\ pc \in {"mark_all", "build", "live"}
    BY DEF Walking, WalkTyped
  <2>2. stack' \subseteq found' /\ found' \subseteq Names
    BY <1>1, <1>3 DEF WalkTyped
  <2>3. \E w \in Range(policy) : by = <<w>>
    BY <2>1 DEF WalkTyped
  <2> QED
    BY <1>2, <2>1, <2>2, <2>3 DEF WalkTyped
<1>5. TreeTyped' /\ MarksTyped' /\ QueueTyped' /\ ControlTyped'
  BY <1>2 DEF TreeTyped, TreeClosed, MarksTyped, QueueTyped, ControlTyped, worldVars, markVars, watchVars
<1> QED
  BY <1>4, <1>5

\* Handling a directory: which of mark and watch are added in which phase.
LEMMA HandleIs ==
  ASSUME TInv, NEW d \in found, Handle(d)
  PROVE  /\ stack = {} /\ found' = found \ {d} /\ d \in Names
         /\ pc \in {"mark_all", "build", "live"}
         /\ unseen' = IF pc = "build" THEN unseen ELSE unseen \ At(d)
         /\ \E mark, add \in BOOLEAN :
              /\ IF pc = "build" THEN UNCHANGED markVars ELSE MarkDir(d, mark)
              /\ IF pc = "mark_all" THEN UNCHANGED watchVars ELSE Add(d, add)
         /\ UNCHANGED <<worldVars, todo, by, stack, queue, policy, reload, pc, lost>>
         /\ budget' \in 0 .. MaxInputs
<1>1. pc \in {"mark_all", "build", "live"}
  BY DEF TInv, WalkTyped, Walking
<1>2. PICK mark, add \in BOOLEAN :
        CASE pc = "mark_all" -> /\ MarkDir(d, mark) /\ Spend(Failures(d, <<mark>>))
                                /\ add = TRUE /\ UNCHANGED watchVars
          [] pc = "build" -> /\ Add(d, add) /\ Spend(Failures(d, <<add>>))
                             /\ mark = TRUE /\ UNCHANGED markVars
          [] pc = "live" -> /\ MarkDir(d, mark) /\ Add(d, add)
                            /\ Spend(Failures(d, <<mark, add>>))
  BY DEF Handle
<1>3. /\ IF pc = "build" THEN UNCHANGED markVars ELSE MarkDir(d, mark)
      /\ IF pc = "mark_all" THEN UNCHANGED watchVars ELSE Add(d, add)
      /\ \E n \in Nat : Spend(n)
  <2>1. CASE pc = "mark_all"
    BY <1>2, <2>1, FailuresTyped
  <2>2. CASE pc = "build"
    BY <1>2, <2>2, FailuresTyped
  <2>3. CASE pc = "live"
    BY <1>2, <2>3, FailuresTyped
  <2> QED
    BY <1>1, <2>1, <2>2, <2>3
<1>4. budget' \in 0 .. MaxInputs
  BY <1>3, SpendTyped DEF TInv
<1>5. /\ stack = {} /\ found' = found \ {d}
      /\ unseen' = IF pc = "build" THEN unseen ELSE unseen \ At(d)
      /\ UNCHANGED <<worldVars, todo, by, stack, queue, policy, reload, pc, lost>>
  BY DEF Handle
<1> QED
  BY <1>1, <1>3, <1>4, <1>5 DEF TInv, WalkTyped

\* A mark that fails leaves a record saying so (MarkSet::record).
LEMMA MarkDirIs ==
  ASSUME TreeTyped, NEW d, NEW ok \in BOOLEAN, MarkDir(d, ok)
  PROVE  /\ marked \subseteq marked' /\ marked' \subseteq marked \cup At(d)
         /\ d \in DOMAIN tree => (tree[d] \in marked' <=> ok \/ tree[d] \in marked)
         /\ DOMAIN record' = DOMAIN record \cup {d}
         /\ record'[d] = [recursive |-> Recursive(Head(by)), ok |-> ok]
         /\ \A p \in DOMAIN record \ {d} : record'[p] = record[p]
         /\ Range(record') \subseteq Range(record) \cup {record'[d]}
<1>1. /\ marked' = IF ok THEN marked \cup At(d) ELSE marked
      /\ record' = Update(record, {d}, [recursive |-> Recursive(Head(by)), ok |-> ok])
  BY DEF MarkDir
<1>2. /\ DOMAIN record' = DOMAIN record \cup {d}
      /\ record'[d] = [recursive |-> Recursive(Head(by)), ok |-> ok]
      /\ \A p \in DOMAIN record \ {d} : record'[p] = record[p]
  BY <1>1 DEF Update
<1>3. Range(record') \subseteq Range(record) \cup {record'[d]}
  BY <1>2 DEF Range
<1>4. d \in DOMAIN tree => At(d) = {tree[d]}
  BY AtIs
<1> QED
  BY <1>1, <1>2, <1>3, <1>4

\* A watch that fails leaves no descriptor, and there was none on that directory.
LEMMA AddIs ==
  ASSUME TreeTyped, NEW d, NEW ok \in BOOLEAN, Add(d, ok)
  PROVE  \/ /\ ok /\ d \in DOMAIN tree /\ watched' = watched \cup {tree[d]}
            /\ DOMAIN wd_map' = DOMAIN wd_map \cup {tree[d]}
            /\ wd_map'[tree[d]] = d
            /\ \A n \in DOMAIN wd_map \ {tree[d]} : wd_map'[n] = wd_map[n]
            /\ Range(wd_map') \subseteq Range(wd_map) \cup {d}
         \/ /\ ~ ok /\ UNCHANGED watchVars
            /\ d \in DOMAIN tree => tree[d] \notin watched
<1>1. CASE ok
  <2>1. d \in DOMAIN tree /\ At(d) = {tree[d]}
    BY <1>1, AtIs DEF Add
  <2>2. /\ watched' = watched \cup {tree[d]}
        /\ wd_map' = Update(wd_map, {tree[d]}, d)
    BY <1>1, <2>1 DEF Add
  <2>3. /\ DOMAIN wd_map' = DOMAIN wd_map \cup {tree[d]}
        /\ wd_map'[tree[d]] = d
        /\ \A n \in DOMAIN wd_map \ {tree[d]} : wd_map'[n] = wd_map[n]
    BY <2>2 DEF Update
  <2>4. Range(wd_map') \subseteq Range(wd_map) \cup {d}
    BY <2>3 DEF Range
  <2> QED
    BY <1>1, <2>1, <2>2, <2>3, <2>4
<1>2. CASE ~ ok
  <2>1. UNCHANGED watchVars
    BY <1>2 DEF Add, watchVars
  <2>2. d \in DOMAIN tree => tree[d] \notin watched
    BY <1>2, AtIs DEF Add
  <2> QED
    BY <1>2, <2>1, <2>2
<1> QED
  BY <1>1, <1>2

\* Handling a directory keeps TInv.
LEMMA HandleTyped ==
  ASSUME TInv, NEW d \in found, Handle(d)
  PROVE  TInv'
<1> USE DEF TInv
<1>1. /\ stack = {} /\ found' = found \ {d} /\ d \in Names
      /\ pc \in {"mark_all", "build", "live"}
      /\ unseen' = IF pc = "build" THEN unseen ELSE unseen \ At(d)
      /\ UNCHANGED <<worldVars, todo, by, stack, queue, policy, reload, pc, lost>>
      /\ budget' \in 0 .. MaxInputs
  BY HandleIs
<1>2. PICK mark, add \in BOOLEAN :
        /\ IF pc = "build" THEN UNCHANGED markVars ELSE MarkDir(d, mark)
        /\ IF pc = "mark_all" THEN UNCHANGED watchVars ELSE Add(d, add)
  BY HandleIs
<1>3. At(d) \subseteq Range(tree) /\ (d \in DOMAIN tree => tree[d] \in Range(tree) \cap Node)
  BY DEF At, Range, TreeTyped
<1>4. MarksTyped'
  <2>1. marked' \subseteq Range(tree)
    BY <1>2, <1>3, MarkDirIs DEF MarksTyped, markVars
  <2>2. /\ DOMAIN record' \subseteq Names
        /\ Range(record') \subseteq [recursive : BOOLEAN, ok : BOOLEAN]
    <3>1. CASE pc = "build"
      BY <1>2, <3>1 DEF MarksTyped, markVars
    <3>2. CASE pc # "build"
      <4>1. /\ DOMAIN record' = DOMAIN record \cup {d}
            /\ record'[d] = [recursive |-> Recursive(Head(by)), ok |-> mark]
            /\ Range(record') \subseteq Range(record) \cup {record'[d]}
        BY <1>2, <3>2, MarkDirIs
      <4>2. Recursive(Head(by)) \in BOOLEAN
        BY DEF Recursive
      <4>3. record'[d] \in [recursive : BOOLEAN, ok : BOOLEAN]
        BY <4>1, <4>2
      <4> QED
        BY <1>1, <4>1, <4>3 DEF MarksTyped
    <3> QED
      BY <3>1, <3>2
  <2>3. /\ watched' \subseteq Range(tree) \cap DOMAIN wd_map'
        /\ DOMAIN wd_map' \subseteq Node /\ Range(wd_map') \subseteq Place
    <3>1. CASE UNCHANGED watchVars
      BY <3>1 DEF MarksTyped, watchVars
    <3>2. CASE ~ UNCHANGED watchVars
      <4>1. /\ d \in DOMAIN tree /\ watched' = watched \cup {tree[d]}
            /\ DOMAIN wd_map' = DOMAIN wd_map \cup {tree[d]}
            /\ Range(wd_map') \subseteq Range(wd_map) \cup {d}
        BY <1>2, <3>2, AddIs
      <4> QED
        BY <1>3, <4>1 DEF MarksTyped, TreeTyped
    <3> QED
      BY <3>1, <3>2
  <2> QED
    BY <1>1, <2>1, <2>2, <2>3 DEF MarksTyped, worldVars
<1>5. WalkTyped'
  BY <1>1 DEF WalkTyped, Walking
<1>6. unseen' \subseteq Node
  BY <1>1 DEF ControlTyped
<1>7. ControlTyped'
  BY <1>1, <1>6, UnchangedControl DEF worldVars
<1>8. TreeTyped' /\ QueueTyped'
  BY <1>1 DEF TreeTyped, TreeClosed, QueueTyped, worldVars
<1> QED
  BY <1>4, <1>5, <1>7, <1>8

\* Starting on a watch keeps TInv.
LEMMA ScanWatchTyped ==
  ASSUME TInv, ScanWatch
  PROVE  TInv'
<1> USE DEF TInv
<1>1. /\ pc \in {"mark_all", "build"} /\ ~Walking /\ todo # <<>> /\ todo' = Tail(todo)
      /\ UNCHANGED <<worldVars, markVars, watchVars, queue, policy, reload, pc, budget,
                     unseen, lost>>
  BY DEF ScanWatch
<1>2. /\ Tail(todo) \in Seq(WatchPolicy) /\ Range(Tail(todo)) \subseteq Range(policy)
      /\ Head(todo) \in Range(policy)
  BY <1>1, RangeOfTail DEF WalkTyped
<1>3. \/ NoWalk
      \/ Head(todo).root \in DOMAIN tree
         /\ Walk(Head(todo), Head(todo).root, Recursive(Head(todo)))
  BY DEF ScanWatch
<1>4. WalkTyped'
  <2>1. CASE NoWalk
    BY <1>1, <1>2, <2>1 DEF WalkTyped, Walking, NoWalk
  <2>2. CASE /\ Head(todo).root \in DOMAIN tree
             /\ Walk(Head(todo), Head(todo).root, Recursive(Head(todo)))
    <3>1. /\ by' = <<Head(todo)>> /\ found' = {Head(todo).root}
          /\ stack' \subseteq {Head(todo).root}
      BY <2>2 DEF Walk
    <3>2. Head(todo).root \in Names
      BY <2>2, PlacesAreNames DEF TreeTyped
    <3>3. by' \in Seq(WatchPolicy)
      BY <1>2, <3>1, PolicyTyped
    <3>4. \E w \in Range(policy) : by' = <<w>>
      BY <1>2, <3>1
    <3>5. stack' \subseteq found' /\ found' \subseteq Names
      BY <3>1, <3>2
    <3> HIDE DEF TInv
    <3> QED
      BY <1>1, <1>2, <3>3, <3>4, <3>5 DEF WalkTyped
  <2> QED
    BY <1>3, <2>1, <2>2
<1>5. TreeTyped' /\ MarksTyped' /\ QueueTyped' /\ ControlTyped'
  BY <1>1 DEF TreeTyped, TreeClosed, MarksTyped, QueueTyped, ControlTyped, worldVars, markVars, watchVars
<1> QED
  BY <1>4, <1>5

\* Replacing the inotify instance keeps TInv.
LEMMA BeginBuildTyped ==
  ASSUME TInv, BeginBuild
  PROVE  TInv'
<1> USE DEF TInv
<1>1. /\ pc = "mark_all" /\ ~Walking /\ todo = <<>>
      /\ queue' = <<>> /\ watched' = {} /\ wd_map' = <<>>
      /\ \/ todo' = policy /\ pc' = "build" /\ UNCHANGED budget
         \/ Spend(1) /\ pc' = "poll" /\ UNCHANGED todo
      /\ UNCHANGED <<worldVars, markVars, by, stack, found, policy, reload, unseen, lost>>
  BY DEF BeginBuild
<1>2. budget' \in 0 .. MaxInputs
  BY <1>1, SpendTyped DEF ControlTyped
<1>3. ControlTyped'
  BY <1>1, <1>2, UnchangedControl DEF worldVars, ControlTyped
<1>4. QueueTyped'
  BY <1>1, TreeBoundsAssumption DEF QueueTyped
<1>5. MarksTyped' /\ TreeTyped'
  BY <1>1 DEF MarksTyped, TreeTyped, TreeClosed, worldVars, markVars, Range
<1>6. WalkTyped'
  <2>1. policy \in Seq(WatchPolicy)
    BY PolicyTyped
  <2> QED
    BY <1>1, <2>1 DEF WalkTyped, Walking
<1> QED
  BY <1>3, <1>4, <1>5, <1>6

\* The new directory of an event lies below the path its descriptor is known by.
LEMMA NewDirsAre ==
  ASSUME TInv, NEW z \in Event \ {Overflow}, NEW e \in NewDirs(z)
  PROVE  /\ e.w \in Range(policy) /\ e.w \in WatchPolicy /\ e.dir \in Names
         /\ e.w \in Covering(policy, e.dir) /\ ~ IsExcluded(e.w, e.dir)
         /\ \E n \in DOMAIN wd_map : /\ z.wd = {n} /\ e.dir = Append(wd_map[n], z.name)
<1>1. PICK n \in z.wd \cap DOMAIN wd_map : e.dir = Append(wd_map[n], z.name)
  BY DEF NewDirs
<1>2. z.name \in STRING /\ z.wd = {n}
  BY <1>1, EventIs
<1>3. wd_map[n] \in Names
  BY <1>1, PlacesAreNames DEF TInv, MarksTyped, Range
<1>4. e.dir \in Names
  BY <1>1, <1>2, <1>3, AppendProperties DEF Names
<1>5. e.w \in Range(policy) /\ e.w \in Covering(policy, e.dir) /\ ~ IsExcluded(e.w, e.dir)
  BY DEF NewDirs
<1>6. e.w \in WatchPolicy
  BY <1>5, PolicyTyped DEF TInv
<1> QED
  BY <1>1, <1>2, <1>4, <1>5, <1>6

\* Taking an event keeps TInv.
LEMMA TakeEventTyped ==
  ASSUME TInv, TakeEvent
  PROVE  TInv'
<1> USE DEF TInv
<1>1. /\ pc = "live" /\ ~Walking /\ todo # <<>> /\ todo' = Tail(todo)
      /\ UNCHANGED <<worldVars, markVars, watchVars, queue, policy, pc, budget, unseen>>
      /\ reload' \in BOOLEAN /\ lost' \in BOOLEAN
  BY DEF TakeEvent, RecoverOverflow, ControlTyped
<1>2. Tail(todo) \in Seq(Event) /\ Head(todo) \in Event
  BY <1>1, RangeOfTail DEF WalkTyped
<1>3. \/ NoWalk
      \/ Head(todo) # Overflow /\ \E e \in NewDirs(Head(todo)) : Walk(e.w, e.dir, TRUE)
  BY DEF TakeEvent
<1>4. WalkTyped'
  <2>1. CASE NoWalk
    BY <1>1, <1>2, <2>1 DEF WalkTyped, Walking, NoWalk
  <2>2. CASE Head(todo) # Overflow /\ \E e \in NewDirs(Head(todo)) : Walk(e.w, e.dir, TRUE)
    <3>1. PICK e \in NewDirs(Head(todo)) : Walk(e.w, e.dir, TRUE)
      BY <2>2
    <3>2. e.w \in Range(policy) /\ e.w \in WatchPolicy /\ e.dir \in Names
      BY <1>2, <2>2, NewDirsAre
    <3>3. by' = <<e.w>> /\ found' = {e.dir} /\ stack' = {e.dir}
      BY <3>1 DEF Walk
    <3>4. by' \in Seq(WatchPolicy)
      BY <3>2, <3>3
    <3> HIDE DEF TInv
    <3> QED
      BY <1>1, <1>2, <3>2, <3>3, <3>4 DEF WalkTyped
  <2> QED
    BY <1>3, <2>1, <2>2
<1>5. ControlTyped'
  BY <1>1 DEF ControlTyped, worldVars
<1>6. TreeTyped' /\ MarksTyped' /\ QueueTyped'
  BY <1>1 DEF TreeTyped, TreeClosed, MarksTyped, QueueTyped, worldVars, markVars, watchVars
<1> QED
  BY <1>4, <1>5, <1>6

\* The poll, the reload and its request keep TInv.
LEMMA LoopTyped ==
  ASSUME TInv, Poll \/ CheckReload \/ Done \/ RequestReload
  PROVE  TInv'
<1> USE DEF TInv
<1>1. CASE Poll
  <2>1. QueueTyped'
    <3>1. queue' = <<>> \/ queue' = queue
      BY <1>1 DEF Poll
    <3>2. CASE queue' = <<>>
      BY <3>2, TreeBoundsAssumption DEF QueueTyped
    <3> QED
      BY <3>1, <3>2 DEF QueueTyped
  <2>2. WalkTyped'
    BY <1>1 DEF Poll, WalkTyped, Walking, QueueTyped
  <2>3. TreeTyped' /\ MarksTyped' /\ ControlTyped'
    BY <1>1 DEF Poll, TreeTyped, TreeClosed, MarksTyped, ControlTyped, worldVars, markVars, watchVars
  <2> QED
    BY <2>1, <2>2, <2>3
<1>2. CASE CheckReload
  <2>1. CASE reload /\ config # {}
    <3>1. /\ policy' \in config /\ todo' = policy' /\ record' = <<>> /\ unseen' = {} /\ lost' = FALSE
          /\ pc' = "mark_all" /\ reload' = FALSE /\ pc = "reload"
          /\ UNCHANGED <<worldVars, marked, watchVars, by, stack, found, queue, budget>>
      BY <1>2, <2>1 DEF CheckReload, TakeReload
    <3>2. ControlTyped'
      BY <3>1 DEF ControlTyped, worldVars
    <3>3. policy' \in Seq(WatchPolicy)
      BY <3>2, TreePoliciesAssumption DEF ControlTyped
    <3>4. WalkTyped'
      BY <3>1, <3>3 DEF WalkTyped, Walking
    <3>5. TreeTyped' /\ MarksTyped' /\ QueueTyped'
      BY <3>1 DEF TreeTyped, TreeClosed, MarksTyped, QueueTyped, worldVars, watchVars, Range
    <3> QED
      BY <3>2, <3>4, <3>5
  <2>2. CASE ~ (reload /\ config # {})
    <3>1. /\ pc = "reload" /\ pc' = "poll" /\ reload' = FALSE
          /\ UNCHANGED <<policy, todo, record, unseen, lost>>
          /\ UNCHANGED <<worldVars, marked, watchVars, by, stack, found, queue, budget>>
      BY <1>2, <2>2 DEF CheckReload, TakeReload
    <3>2. ControlTyped'
      BY <3>1 DEF ControlTyped, worldVars
    <3>3. WalkTyped'
      BY <3>1 DEF WalkTyped, Walking
    <3>4. TreeTyped' /\ MarksTyped' /\ QueueTyped'
      BY <3>1 DEF TreeTyped, TreeClosed, MarksTyped, QueueTyped, worldVars, watchVars
    <3> QED
      BY <3>2, <3>3, <3>4
  <2> QED
    BY <2>1, <2>2
<1>3. CASE Done
  <2>1. WalkTyped'
    BY <1>3 DEF Done, WalkTyped, Walking, walkVars
  <2>2. TreeTyped' /\ MarksTyped' /\ ControlTyped' /\ QueueTyped'
    BY <1>3 DEF Done, TreeTyped, TreeClosed, MarksTyped, ControlTyped, QueueTyped, worldVars, markVars, watchVars
  <2> QED
    BY <2>1, <2>2
<1>4. CASE RequestReload
  <2>1. /\ Spend(1) /\ config' \in {{}} \cup {{p} : p \in Policies} /\ reload' = TRUE
        /\ UNCHANGED <<tree, spare, markVars, watchVars, walkVars, queue, policy, pc, unseen, lost>>
    BY <1>4 DEF RequestReload
  <2>2. budget' \in 0 .. MaxInputs
    BY <2>1, SpendTyped
  <2>3. ControlTyped'
    BY <2>1, <2>2 DEF ControlTyped
  <2>4. WalkTyped'
    BY <2>1, UnchangedWalk
  <2>5. TreeTyped' /\ MarksTyped' /\ QueueTyped'
    BY <2>1 DEF TreeTyped, TreeClosed, MarksTyped, QueueTyped, markVars, watchVars
  <2> QED
    BY <2>3, <2>4, <2>5
<1> QED
  BY <1>1, <1>2, <1>3, <1>4

\* Every step keeps TInv.
LEMMA NextTyped ==
  ASSUME TInv, [Next]_vars
  PROVE  TInv'
<1>1. CASE UNCHANGED vars
  BY <1>1 DEF TInv, TreeTyped, TreeClosed, MarksTyped, QueueTyped, ControlTyped, WalkTyped,
     Walking, vars, worldVars, markVars, watchVars, walkVars
<1>2. ASSUME NEW p \in Place, Mkdir(p) PROVE TInv'
  <2>1. budget' \in 0 .. MaxInputs
    BY <1>2 DEF Mkdir, TInv, ControlTyped
  <2> QED
    BY <1>2, <2>1, MkdirArrives, ArrivalTyped
<1>3. ASSUME NEW p \in Place, Rmdir(p) PROVE TInv'
  <2>1. budget' \in 0 .. MaxInputs
    BY <1>3, SpendTyped DEF Rmdir, TInv
  <2> QED
    BY <1>3, <2>1, RmdirRemoves, RemovalTyped
<1>4. ASSUME NEW p \in Place, NEW q \in Place, Move(p, q) PROVE TInv'
  <2>1. budget' \in 0 .. MaxInputs
    BY <1>4, SpendTyped DEF Move, TInv
  <2> QED
    BY <1>4, <2>1, MoveArrives, ArrivalTyped
<1> QED
  BY <1>1, <1>2, <1>3, <1>4, LoopTyped, ScanWatchTyped, BeginBuildTyped, TakeEventTyped,
     ReadDirTyped, HandleTyped DEF Next, Daemon, World

\* Whatever programs do to the tree, a mark and a watch are on a directory that
\* exists, each directory has one place, a walk holds paths, the queue holds its
\* size and an overflow (main.rs, treewatch.rs).
THEOREM TreeTypeCorrect == Spec => []TypeOK
<1>1. Init => TInv
  BY InitTyped
<1>2. TInv /\ [Next]_vars => TInv'
  BY NextTyped
<1>3. TInv => TypeOK
  BY TypedIsOK
<1> QED
  BY <1>1, <1>2, <1>3, PTL DEF Spec
==============================================================================
