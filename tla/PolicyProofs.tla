----------------------------- MODULE PolicyProofs -----------------------------
(***************************************************************************)
(* What the operators that decide about one open do, for every policy,     *)
(* every store of rules and every tree: the lemmas the theorems about      *)
(* EventLoop rest on.                                                      *)
(***************************************************************************)
EXTENDS Marks, RulesProofs

\* Some rule of the store is about the access.
Decides(store, access) == \E r \in Range(store.rules) : Matches(r, access)

------------------------------------------------------------------------------
(* Matching does not read the id. *)

\* LearnedRule::matches of a rule and of the rule stamped with an id agree.
LEMMA StampedMatches ==
  ASSUME NEW r \in LearnedRule, NEW id \in Nat, NEW access
  PROVE  /\ [r EXCEPT !.id = id] \in LearnedRule
         /\ [r EXCEPT !.id = id].action = r.action
         /\ Matches([r EXCEPT !.id = id], access) <=> Matches(r, access)
<1>1. /\ [r EXCEPT !.id = id].exe = r.exe
      /\ [r EXCEPT !.id = id].object = r.object
      /\ [r EXCEPT !.id = id].object_kind = r.object_kind
      /\ [r EXCEPT !.id = id].cwd = r.cwd
      /\ [r EXCEPT !.id = id].action = r.action
  BY DEF LearnedRule
<1>2. [r EXCEPT !.id = id] \in LearnedRule
  BY DEF LearnedRule
<1> QED
  BY <1>1, <1>2 DEF Matches

\* Rules::push keeps every rule and adds the new one, stamped.
LEMMA PushRange ==
  ASSUME NEW store, IsStore(store), NEW rule \in LearnedRule
  PROVE  Range(Push(store, rule).rules) =
           Range(store.rules) \cup {[rule EXCEPT !.id = AllocId(store)]}
<1> DEFINE rules == store.rules
           slot == MaxOr0(DOMAIN rules) + 1
           new == Push(store, rule).rules
           stamped == [rule EXCEPT !.id = AllocId(store)]
<1>1. DOMAIN rules \in SUBSET Nat /\ IsFiniteSet(DOMAIN rules)
  BY DEF IsStore
<1>2. slot \notin DOMAIN rules
  BY <1>1, MaxOr0Bounds
<1>3. /\ DOMAIN new = DOMAIN rules \cup {slot}
      /\ \A i \in DOMAIN new : new[i] = IF i = slot THEN stamped ELSE rules[i]
  BY DEF Push
<1> HIDE DEF rules, slot, new, stamped
<1>4. \A i \in DOMAIN rules : new[i] = rules[i]
  BY <1>2, <1>3
<1>5. new[slot] = stamped
  BY <1>3
<1>6. Range(new) = Range(rules) \cup {stamped}
  BY <1>3, <1>4, <1>5 DEF Range
<1> QED
  BY <1>6 DEF rules, new, stamped

\* Rules::backfill_ids changes ids only, so Rules::load decides what the file does.
LEMMA BackfillDecides ==
  ASSUME NEW store, IsStore(store), DistinctIds(store), NEW access
  PROVE  Decides(BackfillIds(store), access) <=> Decides(store, access)
<1> DEFINE rules == store.rules
           new == BackfillIds(store).rules
<1>1. GoodStore(BackfillIds(store))
  BY BackfillIdsGood
<1>2. \A i \in DOMAIN new : new[i] \in LearnedRule /\ new[i].id \in Nat
  BY <1>1, StoreIds DEF GoodStore
<1>3. \A i \in DOMAIN rules : rules[i] \in LearnedRule
  BY StoreIds
<1>4. DOMAIN new = DOMAIN rules
  BY DEF BackfillIds
<1>5. \A i \in DOMAIN rules :
        \/ new[i] = rules[i]
        \/ \E id : new[i] = [rules[i] EXCEPT !.id = id]
  BY Zenon DEF BackfillIds
<1> HIDE DEF rules, new
<1>6. ASSUME NEW i \in DOMAIN rules PROVE Matches(new[i], access) <=> Matches(rules[i], access)
  <2>1. CASE new[i] = rules[i]
    BY <2>1
  <2>2. ASSUME NEW id, new[i] = [rules[i] EXCEPT !.id = id]
        PROVE  Matches(new[i], access) <=> Matches(rules[i], access)
    <3>1. new[i].id = id
      BY <2>2, <1>3 DEF LearnedRule
    <3>2. id \in Nat
      BY <3>1, <1>2, <1>4
    <3> QED
      BY <2>2, <3>2, <1>3, StampedMatches
  <2> QED
    BY <1>5, <2>1, <2>2
<1> QED
  BY <1>4, <1>6 DEF Decides, Range, rules, new

------------------------------------------------------------------------------
(* Verdicts. *)

\* Rules::evaluate is deny-wins, and "none" when no rule is about the access.
LEMMA EvaluateRulesCases ==
  ASSUME NEW store, IsStore(store), NEW access
  PROVE  LET hits == {r \in Range(store.rules) : Matches(r, access)}
             v == EvaluateRules(store, access)
         IN  /\ v \in {"allow", "deny", "none"}
             /\ v = "deny" <=> \E r \in hits : r.action = "deny"
             /\ v = "none" <=> hits = {}
<1> DEFINE hits == {r \in Range(store.rules) : Matches(r, access)}
<1>1. \A r \in hits : r.action \in {"allow", "deny"}
  BY DEF IsStore, LearnedRule, RuleAction
<1>2. EvaluateRules(store, access) =
        CASE \E r \in hits : r.action = "deny" -> "deny"
          [] hits # {} /\ \A r \in hits : r.action = "allow" -> "allow"
          [] OTHER -> "none"
  BY DEF EvaluateRules
<1> HIDE DEF hits
<1>3. CASE \E r \in hits : r.action = "deny"
  BY <1>2, <1>3, <1>1 DEF hits
<1>4. CASE ~ \E r \in hits : r.action = "deny"
  <2>1. \A r \in hits : r.action = "allow"
    BY <1>1, <1>4
  <2>2. CASE hits = {}
    <3>1. EvaluateRules(store, access) = "none"
      BY <1>2, <1>4, <2>2
    <3> QED
      BY <3>1, <1>4, <2>2 DEF hits
  <2>3. CASE hits # {}
    <3>1. EvaluateRules(store, access) = "allow"
      BY <1>2, <1>4, <2>1, <2>3
    <3> QED
      BY <3>1, <1>4, <2>3 DEF hits
  <2> QED
    BY <2>2, <2>3
<1> QED
  BY <1>3, <1>4

\* A rule that is pushed decides what it matches, unless a deny does, and nothing
\* else.
LEMMA PushEvaluates ==
  ASSUME NEW store, GoodStore(store), NEW rule \in LearnedRule, NEW access
  PROVE  LET old == EvaluateRules(store, access)
             new == EvaluateRules(Push(store, rule), access)
         IN  /\ ~Matches(rule, access) => new = old
             /\ Matches(rule, access) =>
                  new = IF old = "deny" \/ rule.action = "deny" THEN "deny" ELSE "allow"
<1> DEFINE stamped == [rule EXCEPT !.id = AllocId(store)]
           pushed == Push(store, rule)
           Hits(S) == {r \in Range(S.rules) : Matches(r, access)}
           Denies(S) == \E r \in Hits(S) : r.action = "deny"
<1>1. IsStore(store) /\ AllocId(store) \in Nat
  BY DEF GoodStore, IsStore, AllocId
<1>2. IsStore(pushed)
  BY PushGood DEF GoodStore
<1>3. /\ stamped.action = rule.action
      /\ Matches(stamped, access) <=> Matches(rule, access)
  BY <1>1, StampedMatches
<1>4. Range(pushed.rules) = Range(store.rules) \cup {stamped}
  BY <1>1, PushRange
<1>5. /\ EvaluateRules(store, access) \in {"allow", "deny", "none"}
      /\ EvaluateRules(store, access) = "deny" <=> Denies(store)
      /\ EvaluateRules(store, access) = "none" <=> Hits(store) = {}
  BY <1>1, EvaluateRulesCases
<1>6. /\ EvaluateRules(pushed, access) \in {"allow", "deny", "none"}
      /\ EvaluateRules(pushed, access) = "deny" <=> Denies(pushed)
      /\ EvaluateRules(pushed, access) = "none" <=> Hits(pushed) = {}
  BY <1>2, EvaluateRulesCases
<1>7. rule.action \in {"allow", "deny"}
  BY DEF LearnedRule, RuleAction
<1> HIDE DEF stamped, pushed
<1>8. CASE ~Matches(rule, access)
  <2>1. Hits(pushed) = Hits(store)
    BY <1>3, <1>4, <1>8
  <2> QED
    BY <2>1, <1>5, <1>6, <1>8 DEF pushed
<1>9. CASE Matches(rule, access)
  <2>1. Hits(pushed) = Hits(store) \cup {stamped}
    BY <1>3, <1>4, <1>9
  <2>2. Denies(pushed) <=> Denies(store) \/ rule.action = "deny"
    BY <2>1, <1>3
  <2>3. Hits(pushed) # {}
    BY <2>1
  <2> HIDE DEF Hits, Denies
  <2> QED
    BY <2>2, <2>3, <1>5, <1>6, <1>7, <1>9 DEF pushed
<1> QED
  BY <1>8, <1>9

\* The first covering watch is one watch.
LEMMA CoveringIsOne ==
  ASSUME NEW policy \in Seq(WatchPolicy), NEW path
  PROVE  /\ Covering(policy, path) \subseteq WatchPolicy
         /\ \A v, w \in Covering(policy, path) : v = w
<1> DEFINE hits == {i \in DOMAIN policy : Covers(policy[i], path)}
           first == {j \in hits : \A k \in hits : j <= k}
<1>1. DOMAIN policy \subseteq Nat /\ \A i \in DOMAIN policy : policy[i] \in WatchPolicy
  OBVIOUS
<1>2. \A i, j \in first : i = j
  BY <1>1
<1>3. Covering(policy, path) = {policy[i] : i \in first}
  BY DEF Covering
<1> QED
  BY <1>1, <1>2, <1>3

\* A prompt means that a watch covers the path and has it in scope, the config
\* says prompt and no rule is about the access; and conversely.
LEMMA PromptVerdict ==
  ASSUME NEW policy \in Seq(WatchPolicy), NEW store, IsStore(store), NEW access
  PROVE  /\ Verdict(policy, store, access) = "prompt" <=>
              /\ ~OutOfScope(policy, access.path)
              /\ EvaluatePolicy(policy, access) = "prompt"
              /\ EvaluateRules(store, access) = "none"
         /\ EvaluatePolicy(policy, access) = "prompt" => Covering(policy, access.path) # {}
         /\ EvaluatePolicy(policy, access) \in Action
<1> DEFINE covering == Covering(policy, access.path)
           outcomes == {EvaluateWatch(w, access.exe) : w \in covering}
<1>1. covering \subseteq WatchPolicy
  BY CoveringIsOne
<1>2. outcomes \subseteq Action
  BY <1>1 DEF EvaluateWatch, WatchPolicy, Action
<1>3. EvaluatePolicy(policy, access) =
        IF outcomes = {} THEN "allow" ELSE CHOOSE o \in outcomes : TRUE
  BY DEF EvaluatePolicy
<1>4. outcomes # {} => EvaluatePolicy(policy, access) \in outcomes
  BY <1>3
<1>5. EvaluatePolicy(policy, access) \in Action
  BY <1>2, <1>3, <1>4 DEF Action
<1>6. EvaluateRules(store, access) \in {"allow", "deny", "none"}
  BY EvaluateRulesCases
<1>7. EvaluatePolicy(policy, access) = "prompt" => covering # {}
  BY <1>3
<1> QED
  BY <1>5, <1>6, <1>7 DEF Verdict, Combine, Action

\* What a rule decides is not prompted for, whatever the config says.
LEMMA DecidedIsNotPrompted ==
  ASSUME NEW policy \in Seq(WatchPolicy), NEW store, IsStore(store), NEW access,
         Decides(store, access)
  PROVE  Verdict(policy, store, access) # "prompt"
BY PromptVerdict, EvaluateRulesCases DEF Decides

------------------------------------------------------------------------------
(* What an "Always" adds. *)

\* The rule an "Always" persists matches exactly the accesses in the scope that
\* the dialog showed (learned_rule and the prompt's fields agree).
LEMMA LearnRuleScope ==
  ASSUME NEW w \in WatchPolicy, NEW action \in RuleAction, NEW access \in Access,
         NEW a \in Access
  PROVE  /\ LearnRule(w, action, access) \in LearnedRule
         /\ LearnRule(w, action, access).action = action
         /\ Matches(LearnRule(w, action, access), a) <=> InScope(PromptRequest(w, access), a)
<1> DEFINE rule == LearnRule(w, action, access)
           target == AlwaysTarget(w, access.path)
<1>1. /\ access.path \in Path /\ access.exe \in Exe /\ access.cwd \in Cwd
      /\ w.root \in Path /\ w.learn_object \in {"file", "tree"} /\ w.learn_cwd \in BOOLEAN
  BY DEF Access, WatchPolicy, ObjectKind
<1>2. target.object \in Path /\ target.object_kind \in {"file", "tree"}
  BY <1>1 DEF AlwaysTarget
<1>3. /\ rule.id = 0 /\ rule.action = action /\ rule.exe = access.exe
      /\ rule.object = target.object /\ rule.object_kind = target.object_kind
      /\ rule.cwd = IF w.learn_cwd THEN {access.cwd} ELSE {}
  BY DEF LearnRule
<1>4. rule \in LearnedRule
  <2> DEFINE cwd == IF w.learn_cwd THEN {access.cwd} ELSE {}
  <2>1. cwd \in {{}} \cup {{c} : c \in Cwd}
    BY <1>1
  <2>2. rule = [id |-> 0, action |-> action, exe |-> access.exe,
                object |-> target.object, object_kind |-> target.object_kind, cwd |-> cwd]
    BY DEF LearnRule
  <2> HIDE DEF rule, target, cwd
  <2> QED
    BY <1>1, <1>2, <2>1, <2>2 DEF LearnedRule, ObjectKind
<1>5. LET r == PromptRequest(w, access)
      IN  /\ r.exe = access.exe /\ r.cwd = access.cwd
          /\ r.always_object = target.object
          /\ r.always_tree <=> target.object_kind = "tree"
          /\ r.always_cwd_pinned = w.learn_cwd
  BY DEF PromptRequest
<1> DEFINE request == PromptRequest(w, access)
<1>6. (rule.cwd \subseteq {a.cwd}) <=> (w.learn_cwd => a.cwd = access.cwd)
  BY <1>1, <1>3
<1> HIDE DEF rule, target, request
<1>7. Matches(rule, a) <=>
        /\ access.exe = a.exe
        /\ \/ target.object_kind = "file" /\ a.path = target.object
           \/ target.object_kind = "tree" /\ IsPrefix(target.object, a.path)
        /\ w.learn_cwd => a.cwd = access.cwd
  BY <1>3, <1>6 DEF Matches
<1>8. InScope(request, a) <=>
        /\ a.exe = access.exe
        /\ IF target.object_kind = "tree" THEN IsPrefix(target.object, a.path)
                                          ELSE a.path = target.object
        /\ w.learn_cwd => a.cwd = access.cwd
  BY <1>5 DEF InScope, request
<1> QED
  BY <1>2, <1>3, <1>4, <1>7, <1>8 DEF rule, request

\* With that rule pushed, an access in scope that would have been prompted for is
\* decided as the user said, a denied one stays denied, and nothing else changes.
LEMMA AlwaysDecides ==
  ASSUME NEW policy \in Seq(WatchPolicy), NEW store, GoodStore(store),
         NEW w \in WatchPolicy, NEW action \in RuleAction,
         NEW access \in Access, NEW a \in Access
  PROVE  LET new == Push(store, LearnRule(w, action, access))
             was == Verdict(policy, store, a)
             is == Verdict(policy, new, a)
         IN  IF InScope(PromptRequest(w, access), a)
             THEN (was = "prompt" => is = action) /\ (was = "deny" => is = "deny")
             ELSE is = was
<1> DEFINE rule == LearnRule(w, action, access)
           new == Push(store, rule)
           outcome == EvaluatePolicy(policy, a)
           learned == EvaluateRules(store, a)
           learnt == EvaluateRules(new, a)
<1>1. rule \in LearnedRule /\ rule.action = action
  BY LearnRuleScope
<1>2. Matches(rule, a) <=> InScope(PromptRequest(w, access), a)
  BY LearnRuleScope
<1>3. /\ ~Matches(rule, a) => learnt = learned
      /\ Matches(rule, a) =>
           learnt = IF learned = "deny" \/ rule.action = "deny" THEN "deny" ELSE "allow"
  BY <1>1, PushEvaluates
<1>4. outcome \in Action /\ learned \in {"allow", "deny", "none"}
  BY PromptVerdict, EvaluateRulesCases DEF GoodStore
<1>5. /\ Verdict(policy, store, a) =
           IF OutOfScope(policy, a.path) THEN "allow" ELSE Combine(outcome, learned)
      /\ Verdict(policy, new, a) =
           IF OutOfScope(policy, a.path) THEN "allow" ELSE Combine(outcome, learnt)
  BY DEF Verdict
<1>6. action \in {"allow", "deny"}
  BY DEF RuleAction
<1> HIDE DEF rule, new, outcome, learned, learnt
<1>7. CASE ~Matches(rule, a)
  BY <1>2, <1>3, <1>5, <1>7 DEF new, rule
<1>8. CASE Matches(rule, a)
  <2>1. learnt = IF learned = "deny" \/ action = "deny" THEN "deny" ELSE "allow"
    BY <1>1, <1>3, <1>8
  <2>2. Combine(outcome, learned) = "prompt" => Combine(outcome, learnt) = action
    BY <1>4, <1>6, <2>1 DEF Combine, Action
  <2>3. Combine(outcome, learned) = "deny" => Combine(outcome, learnt) = "deny"
    BY <1>4, <1>6, <2>1 DEF Combine, Action
  <2> QED
    BY <1>2, <1>5, <1>8, <2>2, <2>3 DEF new, rule
<1> QED
  BY <1>7, <1>8

------------------------------------------------------------------------------
(* What is marked. *)

\* A sequence that is a prefix of another is cut from it.
LEMMA PrefixIsCut ==
  ASSUME NEW S, NEW s \in Seq(S), NEW t \in Seq(S), IsPrefix(s, t)
  PROVE  /\ Len(s) \in Nat /\ Len(t) \in Nat /\ Len(s) <= Len(t)
         /\ s = SubSeq(t, 1, Len(s))
<1>1. Len(s) \in Nat /\ Len(t) \in Nat /\ Len(s) <= Len(t)
  BY DEF IsPrefix
<1>2. SubSeq(s, 1, Len(s)) = s
  OBVIOUS
<1> QED
  BY <1>1, <1>2 DEF IsPrefix

\* A prefix of a prefix is cut from the whole.
LEMMA CutOfCut ==
  ASSUME NEW S, NEW t \in Seq(S), NEW m \in 0 .. Len(t), NEW n \in 0 .. m
  PROVE  /\ Len(SubSeq(t, 1, m)) = m
         /\ SubSeq(SubSeq(t, 1, m), 1, n) = SubSeq(t, 1, n)
OBVIOUS

\* What is left behind a cut.
LEMMA RestOfCut ==
  ASSUME NEW S, NEW t \in Seq(S), NEW m \in 0 .. Len(t)
  PROVE  /\ SubSeq(t, m + 1, Len(t)) \in Seq(S)
         /\ Len(SubSeq(t, m + 1, Len(t))) = Len(t) - m
OBVIOUS

\* A shallow glob that matches below the root matches a child of the root.
LEMMA ShallowMatchesChildren ==
  ASSUME NEW glob \in Seq(SUBSET STRING), NEW names \in Seq(STRING),
         ~PatternIsDeep(glob), GlobMatches(glob, names)
  PROVE  Len(names) <= 1
<1>1. Len(glob) \in Nat /\ Len(glob) <= 1 /\ Len(names) \in Nat
  BY DEF PatternIsDeep
<1>2. PICK cut \in [0 .. Len(glob) -> 0 .. Len(names)] :
        /\ cut[0] = 0 /\ cut[Len(glob)] = Len(names)
        /\ \A i \in 1 .. Len(glob) :
             IF glob[i] = AnyDepth
             THEN cut[i] >= cut[i - 1] + (IF i > 1 /\ i = Len(glob) THEN 1 ELSE 0)
             ELSE cut[i] = cut[i - 1] + 1 /\ names[cut[i]] \in glob[i]
  BY DEF GlobMatches
<1>3. CASE Len(glob) = 0
  BY <1>1, <1>2, <1>3
<1>4. CASE Len(glob) = 1
  <2>1. glob[1] # AnyDepth
    BY <1>4 DEF PatternIsDeep, Range
  <2>2. cut[1] = cut[0] + 1
    BY <1>2, <1>4, <2>1
  <2> QED
    BY <1>1, <1>2, <1>4, <2>2
<1>5. \A n \in Nat : n <= 1 => n = 0 \/ n = 1
  OBVIOUS
<1>6. Len(glob) = 0 \/ Len(glob) = 1
  BY <1>1, <1>5, Zenon
<1> QED
  BY <1>3, <1>4, <1>6

\* Every file that a policy guards is reported once the policy is marked: the root
\* alone is enough where the patterns are shallow.
LEMMA GuardedIsMarked ==
  ASSUME NEW policy \in Seq(WatchPolicy), PathAssumption,
         File \subseteq Path, Dir \subseteq Path, Dir \cap File = {},
         \A f \in File :
           Parent(f) \in Dir /\ \A p \in Path : IsStrictPrefix(p, f) => p \in Dir
  PROVE  Guarded(policy) \subseteq Reported(MarkAll(policy))
<1> SUFFICES ASSUME NEW f \in Guarded(policy)
             PROVE  f \in Reported(MarkAll(policy))
  OBVIOUS
<1>1. PICK w \in Covering(policy, f) :
        /\ IsIncluded(w, f) /\ ~IsExcluded(w, f)
        /\ \A n \in Len(w.root) + 1 .. Len(f) : ~IsExcluded(w, SubSeq(f, 1, n))
  BY DEF Guarded
<1>2. f \in File /\ f \in Seq(STRING)
  BY PathAssumption DEF Guarded
<1>3. PICK i \in DOMAIN policy : w = policy[i] /\ Covers(w, f)
  BY DEF Covering
<1>4. w \in WatchPolicy
  BY CoveringIsOne
<1>5. w.root \in Path /\ w.root \in Seq(STRING) /\ w.include \subseteq Seq(SUBSET STRING)
  BY <1>4, PathAssumption DEF WatchPolicy
<1>6. IsPrefix(w.root, f)
  BY <1>3 DEF Covers
<1>7. /\ Len(w.root) \in Nat /\ Len(f) \in Nat /\ Len(w.root) <= Len(f)
      /\ w.root = SubSeq(f, 1, Len(w.root))
  BY <1>2, <1>5, <1>6, PrefixIsCut
<1>8. ScanWatch(w) \subseteq MarkAll(policy)
  BY <1>3 DEF MarkAll
<1>9. CASE w.root = f
  <2>1. f \in ScanWatch(w)
    BY <1>2, <1>9 DEF ScanWatch
  <2> QED
    BY <1>2, <1>8, <2>1 DEF Reported
<1>10. CASE w.root # f
  <2>1. Len(w.root) < Len(f)
    <3>1. SubSeq(f, 1, Len(f)) = f
      BY <1>2
    <3> QED
      BY <1>7, <1>10, <3>1
  <2>2. w.root \in Dir /\ Parent(f) \in Dir
    BY <1>2, <1>5, <1>6, <1>10 DEF IsStrictPrefix
  <2>3. Len(f) - 1 \in 0 .. Len(f) /\ Len(w.root) \in 0 .. Len(f) - 1
    BY <1>7, <2>1
  <2>4. /\ Len(Parent(f)) = Len(f) - 1
        /\ \A n \in 0 .. Len(f) - 1 : SubSeq(Parent(f), 1, n) = SubSeq(f, 1, n)
    <3>1. \A n \in 0 .. Len(f) - 1 :
            /\ Len(SubSeq(f, 1, Len(f) - 1)) = Len(f) - 1
            /\ SubSeq(SubSeq(f, 1, Len(f) - 1), 1, n) = SubSeq(f, 1, n)
      BY <1>2, <2>3, CutOfCut
    <3> QED
      BY <2>3, <3>1 DEF Parent
  <2>5. Parent(f) \in ScanWatch(w)
    <3>1. CASE Recursive(w)
      <4>1. Covers(w, Parent(f))
        <5>1. SubSeq(w.root, 1, Len(w.root)) = w.root
          BY <1>5
        <5>2. SubSeq(Parent(f), 1, Len(w.root)) = w.root
          BY <1>7, <2>3, <2>4
        <5> QED
          BY <5>1, <5>2, <2>3, <2>4 DEF Covers, IsPrefix
      <4>2. \A n \in Len(w.root) + 1 .. Len(Parent(f)) :
              ~IsExcluded(w, SubSeq(Parent(f), 1, n))
        <5> SUFFICES ASSUME NEW n \in Len(w.root) + 1 .. Len(Parent(f))
                     PROVE  ~IsExcluded(w, SubSeq(Parent(f), 1, n))
          OBVIOUS
        <5>1. n \in 0 .. Len(f) - 1 /\ n \in Len(w.root) + 1 .. Len(f)
          BY <1>7, <2>4
        <5> QED
          BY <1>1, <2>4, <5>1
      <4> QED
        BY <2>2, <3>1, <4>1, <4>2 DEF ScanWatch, WalkDirs
    <3>2. CASE ~Recursive(w)
      <4> DEFINE names == SubSeq(f, Len(w.root) + 1, Len(f))
      <4>1. names \in Seq(STRING) /\ Len(names) = Len(f) - Len(w.root)
        <5>1. Len(w.root) \in 0 .. Len(f)
          BY <1>7
        <5> QED
          BY <1>2, <5>1, RestOfCut
      <4>2. PICK glob \in w.include : GlobMatches(glob, names)
        BY <1>1, <3>2 DEF IsIncluded, Recursive
      <4>3. ~PatternIsDeep(glob)
        BY <3>2 DEF Recursive
      <4>4. Len(names) <= 1
        BY <1>5, <4>1, <4>2, <4>3, ShallowMatchesChildren
      <4>5. Len(w.root) = Len(f) - 1
        BY <1>7, <2>1, <4>1, <4>4
      <4>6. Parent(f) = w.root
        BY <1>7, <4>5 DEF Parent
      <4> QED
        BY <2>2, <3>2, <4>6 DEF ScanWatch
    <3> QED
      BY <3>1, <3>2
  <2> QED
    BY <1>2, <1>8, <2>5 DEF Reported
<1> QED
  BY <1>9, <1>10
==============================================================================
