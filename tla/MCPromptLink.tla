---------------------------- MODULE MCPromptLink -----------------------------
(***************************************************************************)
(* Small instances of PromptLink for TLC: the connections are strings, the *)
(* other constants are given in each .cfg.                                 *)
(***************************************************************************)
EXTENDS PromptLink

OneUi == {"c1"}
OneRestart == {"c1", "c2"}
TwoRestarts == {"c1", "c2", "c3"}
==============================================================================
