----------------------------- MODULE MCEventLoop ------------------------------
(***************************************************************************)
(* Small instances of EventLoop for TLC: a home directory with a history   *)
(* file, an .ssh directory and the watches example_config.toml sets on     *)
(* such a tree.                                                            *)
(***************************************************************************)
EXTENDS EventLoop

Home == <<"home">>
Ssh == <<"home", "ssh">>
History == <<"home", "zsh_history">>
Key == <<"home", "ssh", "id">>
Known == <<"home", "ssh", "known_hosts">>
SshHistory == <<"home", "ssh", "old_history">>
Etc == <<"etc">>
Config == <<"etc", "config">>
RulesToml == <<"etc", "rules">>

MCExe == {"git", "node"}
MCCwd == {"work", "tmp"}
MCDir == {Home, Ssh, Etc}
MCFile == {History, Key, Known, SshHistory, Config, RulesToml}
MCPath == MCDir \cup MCFile \cup {<<"home", "gone">>}
MCConfigPath == Config
MCRulesPath == RulesToml

Watch(root, allow, learn_object, learn_cwd, exclude, include) ==
  [root |-> root, allow |-> allow, default_action |-> "prompt",
   learn_object |-> learn_object, learn_cwd |-> learn_cwd,
   exclude |-> exclude, include |-> include]

HistoryName == {"zsh_history", "old_history"}

SshTree == Watch(Ssh, {"git"}, "tree", TRUE, {<<AnyDepth, {"known_hosts"}>>}, {})
HomeShallow == Watch(Home, {}, "file", FALSE, {}, {<<HistoryName>>})
HomeDeep == Watch(Home, {}, "file", FALSE, {},
                  {<<AnyDepth, HistoryName>>, <<{"zsh_history"}>>})
SshDeep == Watch(Ssh, {}, "file", FALSE, {}, {<<AnyDepth, HistoryName>>})
Gone == <<"home", "gone">>
GoneTree == Watch(Gone, {}, "tree", FALSE, {}, {})
EtcTree == Watch(Etc, {}, "file", FALSE, {}, {})

HomeOnly == <<HomeShallow>>
GoneSshHome == <<GoneTree, SshTree, HomeDeep>>
HomeThenSsh == <<HomeShallow, SshDeep>>

MCAccesses ==
  {[path |-> Key, exe |-> "node", cwd |-> "work"],
   [path |-> History, exe |-> "git", cwd |-> "work"]}
MCOneAccess == {[path |-> Key, exe |-> "node", cwd |-> "work"]}

MCTwoPolicies == {HomeOnly, GoneSshHome}
MCShadowed == {HomeThenSsh}
MCOwnWatched == {<<EtcTree, SshTree>>}

NoRules == <<DefaultStore>>
AllowKey ==
  <<[next_id |-> 2, rules |->
      <<[id |-> 1, action |-> "allow", exe |-> "node", object |-> Key,
         object_kind |-> "file", cwd |-> {}]>>]>>
MCEditedRules == {NoRules, AllowKey}
MCNoEdits == {}
==============================================================================
