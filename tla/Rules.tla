-------------------------------- MODULE Rules --------------------------------
(***************************************************************************)
(* The learned-rule store shared by filewalld and filewallctl              *)
(* (filewall-rules/src/lib.rs): what a rule matches, how ids are allocated *)
(* and back-filled, what is read back from rules.toml and what a removal   *)
(* leaves.                                                                 *)
(*                                                                         *)
(* The Vec of rules is a function from slots: the order of the slots is    *)
(* the order of the Vec and a removed rule leaves a gap.  An Option is the *)
(* set of its zero or one elements.                                        *)
(***************************************************************************)
EXTENDS Integers, FiniteSets, SequencesExt

CONSTANTS
  Exe,     \* executable paths, as /proc/<pid>/exe names them
  Path,    \* absolute paths, each the sequence of its components
  Cwd      \* working directories

ASSUME PathAssumption == Path \subseteq Seq(STRING)

RuleAction == {"allow", "deny"}
ObjectKind == {"file", "tree"}

LearnedRule ==
  [id: Nat, action: RuleAction, exe: Exe, object: Path,
   object_kind: ObjectKind, cwd: {{}} \cup {{c} : c \in Cwd}]

\* What the daemon knows of one open when it asks the rules about it.
Access == [path: Path, exe: Exe, cwd: Cwd]

Matches(r, access) ==
  /\ r.exe = access.exe
  /\ \/ r.object_kind = "file" /\ access.path = r.object
     \/ r.object_kind = "tree" /\ IsPrefix(r.object, access.path)
  /\ r.cwd \subseteq {access.cwd}

\* Deny-wins over every rule that matches.
EvaluateRules(store, access) ==
  LET hits == {r \in Range(store.rules) : Matches(r, access)}
  IN  CASE \E r \in hits : r.action = "deny" -> "deny"
        [] hits # {} /\ \A r \in hits : r.action = "allow" -> "allow"
        [] OTHER -> "none"

------------------------------------------------------------------------------
(* The store: the id allocator and the rules. *)

EmptyRules == <<>>
DefaultStore == [next_id |-> 0, rules |-> EmptyRules]

Ids(store) == {store.rules[i].id : i \in DOMAIN store.rules}

MaxOr0(S) == IF S = {} THEN 0 ELSE Max(S)

\* Fault: next_id taken for the last id given.
AllocLastId(store) == store.next_id - 1

AllocId(store) == IF store.next_id >= 1 THEN store.next_id ELSE 1

Push(store, rule) ==
  LET id   == AllocId(store)
      slot == MaxOr0(DOMAIN store.rules) + 1
  IN  [next_id |-> id + 1,
       rules   |-> [i \in DOMAIN store.rules \cup {slot} |->
                     IF i = slot THEN [rule EXCEPT !.id = id]
                                 ELSE store.rules[i]]]

\* Slots before i whose rule still carries the id 0.
UnstampedBefore(rules, i) == {j \in DOMAIN rules : rules[j].id = 0 /\ j < i}

\* Fault: continue from next_id without a look at the ids in the file.
BackfillIdsBlindly(store) ==
  LET rules == store.rules
      base  == MaxOr0({store.next_id, 1})
      fresh == {i \in DOMAIN rules : rules[i].id = 0}
  IN  [next_id |-> base + Cardinality(fresh),
       rules   |-> [i \in DOMAIN rules |->
                     IF i \in fresh
                     THEN [rules[i] EXCEPT
                             !.id = base + Cardinality(UnstampedBefore(rules, i))]
                     ELSE rules[i]]]

BackfillIds(store) ==
  LET rules == store.rules
      base  == MaxOr0({store.next_id, MaxOr0(Ids(store)) + 1})
      fresh == {i \in DOMAIN rules : rules[i].id = 0}
  IN  [next_id |-> base + Cardinality(fresh),
       rules   |-> [i \in DOMAIN rules |->
                     IF i \in fresh
                     THEN [rules[i] EXCEPT
                             !.id = base + Cardinality(UnstampedBefore(rules, i))]
                     ELSE rules[i]]]

\* rules.toml as found on disk: <<store>> when it parses, <<>> when it is
\* missing or does not.
Unreadable == <<>>
Load(file) == IF file = Unreadable THEN DefaultStore ELSE BackfillIds(file[1])

RemoveIds(store, ids) ==
  [store EXCEPT !.rules =
     Restrict(@, {i \in DOMAIN @ : @[i].id \notin ids})]

------------------------------------------------------------------------------
(* What the code relies on of a store in memory and of a file on disk. *)

IsStore(store) ==
  /\ DOMAIN store = {"next_id", "rules"}
  /\ store = [next_id |-> store.next_id, rules |-> store.rules]
  /\ store.next_id \in Nat
  /\ DOMAIN store.rules \subseteq Nat /\ IsFiniteSet(DOMAIN store.rules)
  /\ store.rules = [i \in DOMAIN store.rules |-> store.rules[i]]
  /\ Range(store.rules) \subseteq LearnedRule

IsFile(file) ==
  \/ file = Unreadable
  \/ file = <<file[1]>> /\ IsStore(file[1])

DistinctIds(store) ==
  \A i, j \in DOMAIN store.rules :
    (store.rules[i].id = store.rules[j].id /\ store.rules[i].id # 0) => i = j

\* Every rule has been stamped, with an id the allocator will not hand out.
Stamped(store) ==
  \A i \in DOMAIN store.rules :
    store.rules[i].id # 0 /\ store.rules[i].id < store.next_id
==============================================================================
