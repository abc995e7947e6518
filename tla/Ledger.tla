-------------------------------- MODULE Ledger --------------------------------
(***************************************************************************)
(* What rules.toml is to its readers while only the daemon writes it: a    *)
(* set of rules that grows, each new one with an id above all the others,  *)
(* so that an id that has been shown keeps its rule for ever (the promise  *)
(* of next_id, filewall-rules/src/lib.rs: it "only ever climbs").          *)
(***************************************************************************)
EXTENDS Naturals

VARIABLE ledger

OneRulePerId(rules) == \A r, s \in rules : r.id = s.id => r = s

Init == OneRulePerId(ledger)

\* Several at once: those an earlier save failed to write.
Append ==
  /\ ledger \subseteq ledger'
  /\ OneRulePerId(ledger' \ ledger)
  /\ \A r \in ledger' \ ledger, s \in ledger : s.id < r.id

Spec == Init /\ [][Append]_ledger
==============================================================================
