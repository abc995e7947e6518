-------------------------------- MODULE Policy --------------------------------
(***************************************************************************)
(* What the daemon decides about one open from its config and its learned  *)
(* rules (filewalld/src/policy.rs and the event loop of main.rs), and what *)
(* an "Always" answer adds.                                                *)
(*                                                                         *)
(* A policy is a sequence of watches, in the order of config.toml.  A glob *)
(* is a sequence of components, each the set of the names it accepts; the  *)
(* component `**' is AnyDepth.  Globs over executables stand for the set   *)
(* of the executables they accept.                                         *)
(***************************************************************************)
EXTENDS Rules

Action == {"prompt", "allow", "deny"}

AnyDepth == {}

WatchPolicy ==
  [root: Path, allow: SUBSET Exe, default_action: Action,
   learn_object: ObjectKind, learn_cwd: BOOLEAN,
   exclude: SUBSET Seq(SUBSET STRING), include: SUBSET Seq(SUBSET STRING)]

\* The glob cut against the path: component i stands for the names from
\* cut[i - 1] + 1 to cut[i].  A trailing `**' after other components stands for
\* at least one name.
GlobMatches(glob, path) ==
  \E cut \in [0 .. Len(glob) -> 0 .. Len(path)] :
    /\ cut[0] = 0 /\ cut[Len(glob)] = Len(path)
    /\ \A i \in 1 .. Len(glob) :
         IF glob[i] = AnyDepth
         THEN cut[i] >= cut[i - 1] + (IF i > 1 /\ i = Len(glob) THEN 1 ELSE 0)
         ELSE cut[i] = cut[i - 1] + 1 /\ path[cut[i]] \in glob[i]

\* A pattern that can match below the immediate children of the root.
PatternIsDeep(glob) == Len(glob) > 1 \/ AnyDepth \in Range(glob)

Recursive(w) == w.include = {} \/ \E glob \in w.include : PatternIsDeep(glob)

Covers(w, path) == IsPrefix(w.root, path)

IsExcluded(w, path) == \E glob \in w.exclude : GlobMatches(glob, path)

IsIncluded(w, path) ==
  \/ w.include = {}
  \/ \E glob \in w.include :
       GlobMatches(glob, SubSeq(path, Len(w.root) + 1, Len(path)))

\* The first watch that covers the path, if any.
Covering(policy, path) ==
  LET hits == {i \in DOMAIN policy : Covers(policy[i], path)}
  IN  {policy[i] : i \in {j \in hits : \A k \in hits : j <= k}}

EvaluateWatch(w, exe) == IF exe \in w.allow THEN "allow" ELSE w.default_action

\* A path no watch covers is allowed.
EvaluatePolicy(policy, access) ==
  LET outcomes == {EvaluateWatch(w, access.exe) :
                     w \in Covering(policy, access.path)}
  IN  IF outcomes = {} THEN "allow" ELSE CHOOSE o \in outcomes : TRUE

\* Deny-wins, over the config's outcome and the learned rules' verdict.
Combine(outcome, learned) ==
  CASE learned = "deny" \/ outcome = "deny" -> "deny"
    [] learned = "allow" /\ outcome # "deny" -> "allow"
    [] learned = "none" -> outcome

\* Excluded, or matching none of the patterns: allowed without a look at who
\* asks.
OutOfScope(policy, path) ==
  \E w \in Covering(policy, path) : IsExcluded(w, path) \/ ~IsIncluded(w, path)

Verdict(policy, rules, access) ==
  IF OutOfScope(policy, access.path) THEN "allow"
  ELSE Combine(EvaluatePolicy(policy, access), EvaluateRules(rules, access))

------------------------------------------------------------------------------
(* "Always". *)

AlwaysTarget(w, path) ==
  IF w.learn_object = "tree"
  THEN [object |-> w.root, object_kind |-> "tree"]
  ELSE [object |-> path, object_kind |-> "file"]

\* Fault: the rule is not pinned to the cwd.
LearnRuleAnywhere(w, action, access) ==
  [id |-> 0, action |-> action, exe |-> access.exe,
   object |-> AlwaysTarget(w, access.path).object,
   object_kind |-> AlwaysTarget(w, access.path).object_kind,
   cwd |-> {}]

LearnRule(w, action, access) ==
  [id |-> 0, action |-> action, exe |-> access.exe,
   object |-> AlwaysTarget(w, access.path).object,
   object_kind |-> AlwaysTarget(w, access.path).object_kind,
   cwd |-> IF w.learn_cwd THEN {access.cwd} ELSE {}]

\* What the dialog says an "Always" would cover.
PromptRequest(w, access) ==
  [exe |-> access.exe, cwd |-> access.cwd,
   always_object |-> AlwaysTarget(w, access.path).object,
   always_tree |-> AlwaysTarget(w, access.path).object_kind = "tree",
   always_cwd_pinned |-> w.learn_cwd]

\* The accesses a user who reads the dialog takes that to be.
InScope(request, access) ==
  /\ access.exe = request.exe
  /\ IF request.always_tree THEN IsPrefix(request.always_object, access.path)
                            ELSE access.path = request.always_object
  /\ request.always_cwd_pinned => access.cwd = request.cwd
==============================================================================
