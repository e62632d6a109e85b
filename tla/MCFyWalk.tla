------------------------------ MODULE MCFyWalk ------------------------------
(***************************************************************************)
(* Path expressions for FyWalk: trees of up to three operators over all    *)
(* kinds of operands, and texts that are no expressions; two documents,    *)
(* one with a sequence that is long enough for indices of two digits.      *)
(***************************************************************************)
EXTENDS FyWalk

A == Leaf("key", <<"a">>)
B == Leaf("key", <<"b">>)
Operands ==
  {A, Leaf("quoted", <<"b">>), Leaf("index", <<0>>), Leaf("index", <<-1>>), Leaf("slice", <<0, 2>>),
   Leaf("slice", <<-1, 2>>), Leaf("root", << >>), Leaf("this", << >>), Leaf("parent", << >>),
   Leaf("every", << >>), Leaf("every_r", << >>), Leaf("alias", <<"x">>), Leaf(":", <<"a">>),
   Leaf("/", << >>)}
Few == {A, Leaf("every", << >>), Leaf("/", << >>), Leaf(":", <<"b">>)}

Unary(ts) == {Tree(op, << >>, <<t>>) : op \in {"from_root", "collection", "$", "[]"}, t \in ts}
Binary(ts, us) ==
  {Tree(op, << >>, <<t, u>>) : op \in {"chain", ",", "||", "&&"}, t \in ts, u \in us}

One == Unary(Operands) \cup Binary(Operands, Operands)
Small == Unary(Few) \cup Binary(Few, Few)
Two == Unary(Small) \cup Binary(Small, {A, Leaf("/", << >>)}) \cup Binary({A, Leaf("/", << >>)}, Small)
Tiny == Unary({A}) \cup Binary({A}, {B})
Three == Binary(Tiny, Tiny) \cup Unary(Unary(Tiny)) \cup Unary(Binary(Tiny, {B}))

Long == {Leaf("index", <<10>>), Leaf("index", <<11>>), Leaf("index", <<12>>), Leaf("index", <<-11>>),
         Leaf("slice", <<2, 11>>), Leaf("slice", <<0, 12>>)}
Trees == Operands \cup Long \cup Unary(Long) \cup Binary(Long, Few) \cup One \cup Two \cup Three
Written == {[text |-> Write(t, 0), tree |-> t] : t \in Trees}

\* other texts
Alphabet == {"/", "a", "0", ",", "|", "(", ")", "$", ":", "."}
Others ==
  {[text |-> t, tree |-> NoTree] :
     t \in UNION {[1 .. n -> Alphabet] : n \in 1 .. 3} \cup [1 .. 4 -> {"/", "a", ",", "(", ")"}]}
  \cup {[text |-> t, tree |-> NoTree] :
          t \in {<<"a", "@">>, <<"'", "a">>, <<"0", "0">>, <<"1", "2">>, <<"[", "a">>}}

MCPaths == Written \cup Others
MCAgain == {[text |-> Write(A, 0), tree |-> A]}

-----------------------------------------------------------------------------
\* {a: &x [y, {b: y}], b: {a: y, b: *x}}
N(kind, text) == Node(kind, text, 1, FALSE)
Doc1 ==
  LET h == <<[N("map", "") EXCEPT !.pairs = <<[key |-> 2, value |-> 3], [key |-> 8, value |-> 9]>>],
             N("scalar", "a"), [N("seq", "") EXCEPT !.items = <<4, 5>>],
             N("scalar", "y"), [N("map", "") EXCEPT !.pairs = <<[key |-> 6, value |-> 7]>>],
             N("scalar", "b"), N("scalar", "y"), N("scalar", "b"),
             [N("map", "") EXCEPT !.pairs = <<[key |-> 10, value |-> 11], [key |-> 12, value |-> 13]>>],
             N("scalar", "a"), N("scalar", "y"), N("scalar", "b"), N("alias", "x")>>
  IN  [heap |-> ResolveParents(h, 1, NoNode), root |-> 1, starts |-> {1, 3, 7, 9, 13},
       anchors |-> <<[name |-> "x", node |-> 3, at |-> 1, multiple |-> FALSE]>>]

\* [y, y, ...]
Doc2 ==
  LET h == <<[N("seq", "") EXCEPT !.items = [i \in 1 .. 13 |-> i + 1]]>> \o [i \in 1 .. 13 |-> N("scalar", "y")]
  IN  [heap |-> ResolveParents(h, 1, NoNode), root |-> 1, starts |-> {1}, anchors |-> << >>]

MCDocs == {Doc1, Doc2}
=============================================================================
