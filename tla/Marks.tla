-------------------------------- MODULE Marks ---------------------------------
(***************************************************************************)
(* Which opens the kernel reports (scan_watch, walk_dirs and mark_all of   *)
(* filewalld/src/main.rs).  A marked directory reports the opens of its    *)
(* immediate files, a marked file its own.                                 *)
(***************************************************************************)
EXTENDS Policy

CONSTANTS
  Dir,     \* the directories among the paths
  File     \* the regular files

Parent(path) == SubSeq(path, 1, Len(path) - 1)

\* The root and every directory below it, but for the subtrees of excluded ones.
WalkDirs(w) ==
  {d \in Dir :
     /\ Covers(w, d)
     /\ \A n \in Len(w.root) + 1 .. Len(d) : ~IsExcluded(w, SubSeq(d, 1, n))}

\* Fault: a root that is not there is marked.
ScanMissing(w) ==
  IF w.root \notin Dir THEN {w.root}
  ELSE IF Recursive(w) THEN WalkDirs(w)
  ELSE {w.root}

ScanWatch(w) ==
  IF w.root \notin Dir THEN {w.root} \cap File
  ELSE IF Recursive(w) THEN WalkDirs(w)
  ELSE {w.root}

MarkAll(policy) == UNION {ScanWatch(policy[i]) : i \in DOMAIN policy}

\* The calls of mark_all, each for a watch and one of its paths.
Attempts(policy) == UNION {{i} \X ScanWatch(policy[i]) : i \in DOMAIN policy}

\* What is marked when some of them fail.
Placed(policy, fails) == {call[2] : call \in Attempts(policy) \ fails}

\* Fault: only a mark that succeeds is recorded.
Unrecorded(policy, fails) == {}

\* The MarkSet has one entry for a path: the outcome of the last call for it.
RecordedOk(policy, fails) ==
  {call[2] : call \in {c \in Attempts(policy) \ fails :
                \A i \in DOMAIN policy : i > c[1] => c[2] \notin ScanWatch(policy[i])}}

RecordedFailed(policy, fails) == MarkAll(policy) \ RecordedOk(policy, fails)

\* The files whose opens the marks report.
Reported(marks) == {f \in File : f \in marks \/ Parent(f) \in marks}

\* The files a policy sets out to guard: in scope of the watch that decides
\* about them, in no directory that watch excludes.
Guarded(policy) ==
  {f \in File :
     \E w \in Covering(policy, f) :
       /\ IsIncluded(w, f) /\ ~IsExcluded(w, f)
       /\ \A n \in Len(w.root) + 1 .. Len(f) : ~IsExcluded(w, SubSeq(f, 1, n))}
==============================================================================
