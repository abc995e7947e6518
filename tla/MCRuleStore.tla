----------------------------- MODULE MCRuleStore -----------------------------
(***************************************************************************)
(* Small instances of RuleStore for TLC.  Two rules are enough for an id   *)
(* to move from one to the other; one of the files predates ids.           *)
(***************************************************************************)
EXTENDS RuleStore

MCExe == {"git", "node"}
MCPath == {<<"home", "key">>}
MCCwd == {"work"}

Rule(id, exe) ==
  [id |-> id, action |-> "allow", exe |-> exe, object |-> <<"home", "key">>,
   object_kind |-> "file", cwd |-> {}]

MCLearnable == {Rule(0, exe) : exe \in MCExe}

\* One legacy rule, no next_id.
LegacyFile == <<[next_id |-> 0, rules |-> <<Rule(0, "git"), Rule(0, "node")>>]>>
\* Written by a past daemon; rule 1 has been removed since.
SavedFile == <<[next_id |-> 3, rules |-> <<Rule(2, "git")>>]>>
\* A legacy rule pasted into a stamped file whose next_id lags behind.
MixedFile == <<[next_id |-> 1, rules |-> <<Rule(0, "git"), Rule(2, "node")>>]>>

MCInitialFiles == {Unreadable, LegacyFile, SavedFile, MixedFile}
MCOldFiles == {MixedFile}
MCOneFile == {SavedFile}
MCEditedFiles == {Unreadable, LegacyFile}
MCNoFiles == {}
==============================================================================
