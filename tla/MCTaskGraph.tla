---------------------------- MODULE MCTaskGraph -----------------------------
(* A chain whose draft lists it backwards, a flat list of other tasks, drafts that are     *)
(* refused, and the hard rules of a run that checks them.                                 *)
EXTENDS TaskGraph

node(name, deps) == [name |-> name, deps |-> deps]
skeleton(nodes)  == [format |-> "skeleton", nodes |-> nodes]

MCAlphabet   == <<"a", "b", "c", "d", "e">>
MCRewordings == {<<{}>>, <<{}, {"injury"}>>}
MCMentions   == {<<"b", "injury">>}
MCDrafts ==
  {skeleton(<<node("e", <<"d">>), node("d", <<"c">>), node("c", <<>>)>>),
   [format |-> "flat", steps |-> 2],
   [format |-> "flat", steps |-> 0],
   [format |-> "other"],
   skeleton(<<node("a", <<>>), node("a", <<>>)>>),
   skeleton(<<node("a", <<"c">>)>>),
   skeleton(<<node("a", <<>>), node("b", <<"c">>), node("c", <<"b">>)>>),
   skeleton(<<node("a", <<>>), node("b", <<"a", "a">>)>>)}

MCObservable == {"injury"}
MCDoublePay  == {"contract"}
MCNoMention  == {}
MCNoKeyword  == {<<{}>>, <<{}, {}>>}

=============================================================================
