----------------------------- MODULE MCTreeWatch ------------------------------
(***************************************************************************)
(* A small instance of TreeWatch for TLC: a watched tree that excludes one *)
(* name, and a directory beside it that things are moved to and from.      *)
(***************************************************************************)
EXTENDS TreeWatch

W == <<"w">>
WA == <<"w", "a">>
WS == <<"w", "skip">>
WAA == <<"w", "a", "a">>
Out == <<"out">>
OutA == <<"out", "a">>
OutAA == <<"out", "a", "a">>

MCPlace == {W, WA, WS, WAA, Out, OutA, OutAA}
MCPath == MCPlace
MCNode == 1 .. 5

MCTrees == {(W :> 1) @@ (Out :> 2) @@ (WA :> 3)}

Watch(root, exclude, include) ==
  [root |-> root, allow |-> {}, default_action |-> "prompt", learn_object |-> "file",
   learn_cwd |-> FALSE, exclude |-> exclude, include |-> include]

Skip == {<<AnyDepth, {"skip"}>>}
TreeOfW == Watch(W, Skip, {})
TreeOfA == Watch(WA, {}, {})
ShallowOut == Watch(Out, {}, {<<{"f"}>>})

MCPolicies == {<<TreeOfW>>, <<ShallowOut, TreeOfA, TreeOfW>>}

ASSUME AgreementAssumption == PoliciesAgree
==============================================================================
