------------------------------ MODULE MCFyLoad ------------------------------
(***************************************************************************)
(* Documents for FyLoad: one of the nodes below, or a sequence of up to    *)
(* MaxItems of them.                                                       *)
(***************************************************************************)
EXTENDS FyLoad

S(text) == <<Event("scalar", text, "")>>
R(name) == <<Event("alias", name, "")>>
Seq_(items) == <<Event("seq", "", "")>> \o FlattenSeq(items) \o <<End>>
Map_(nodes) == <<Event("map", "", "")>> \o FlattenSeq(nodes) \o <<End>>
At_(name, node) == <<[Head(node) EXCEPT !.anchor = name]>> \o Tail(node)

Plain == {At_("a", S("x")), R("a"), R("b")}
Mappings ==
  {Map_(<<S("x"), S("x")>>), Map_(<<S("x"), S("y"), S("y"), S("y")>>)}
Merging ==
  {Map_(<<S(MergeKey), R("a"), S("x"), S("y")>>),
   Map_(<<S("x"), S("y"), S(MergeKey), R("b")>>),
   Map_(<<S(MergeKey), Seq_(<<R("b"), R("a")>>)>>), Map_(<<S(MergeKey), S("x")>>),
   Map_(<<S(MergeKey), At_("a", Seq_(<<R("b")>>))>>)}
Keys ==
  {Map_(<<R("a"), S("y"), S("x"), S("y")>>), Map_(<<Seq_(<<R("a")>>), S("y")>>),
   Map_(<<S("x"), S("x"), S("x"), S("y")>>), Map_(<<Map_(<<S("x"), S("y")>>), R("b")>>)}
Sequences_ == {At_("b", Seq_(<<R("a")>>)), At_("a", Seq_(<<R("a")>>))}
Deep == {Seq_(<<Seq_(<<Seq_(<<S("x")>>)>>)>>)}

MCFragments ==
  Plain \cup Merging \cup Keys \cup Sequences_ \cup Deep
  \cup {At_("a", m) : m \in Mappings} \cup {At_("b", Map_(<<S("x"), S("y"), S("y"), S("y")>>))}
=============================================================================
