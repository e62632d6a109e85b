------------------------------ MODULE PathTrees ------------------------------
(***************************************************************************)
(* What path expressions are meant to be: trees, how a tree is written     *)
(* with the operators of fy-walk.c and no more parentheses than it needs,  *)
(* and the nodes of a document it stands for.  Nothing here depends on how *)
(* an expression is parsed.                                                *)
(***************************************************************************)
EXTENDS FyNodes, Integers, TLC

Tree(op, val, kids) == [op |-> op, val |-> val, kids |-> kids]
Leaf(op, val) == Tree(op, val, << >>)
NoTree == Leaf("none", << >>)

\* how strongly the operator of a tree binds: a slash in front of, between or
\* behind operands binds like one that is the root alone
Binds(t) ==
  CASE t.op = ":" -> 20
    [] t.op = "," -> 15
    [] t.op \in {"chain", "from_root", "collection", "/"} -> 10
    [] t.op \in {"$", "%", "[]", "{}"} -> 5
    [] t.op \in {"||", "&&"} -> 4
    [] OTHER -> 100

Chars == [op \in {"||", "&&", "[]", "{}"} |->
            CASE op = "||" -> <<"|", "|">> [] op = "&&" -> <<"&", "&">>
              [] op = "[]" -> <<"[", "]">> [] op = "{}" -> <<"{", "}">>]
Sign(op) == IF op \in DOMAIN Chars THEN Chars[op] ELSE <<op>>

\* numbers have one digit or two
WriteDigits(i) == (IF i > 9 THEN <<ToString(i \div 10)>> ELSE << >>) \o <<ToString(i % 10)>>
WriteNumber(i) == IF i < 0 THEN <<"-">> \o WriteDigits(-i) ELSE WriteDigits(i)

\* the numbers in a tree, without their signs
RECURSIVE Numbers(_)
Numbers(t) ==
  (IF t.op \in {"index", "slice"} THEN {IF v < 0 THEN -v ELSE v : v \in ToSet(t.val)} ELSE {})
  \cup UNION {Numbers(k) : k \in ToSet(t.kids)}

\* the text of a tree below an operator that binds like `min`
RECURSIVE Write(_, _)
Write(t, min) ==
  LET l == t.kids[1]
      r == t.kids[2]
      text ==
        CASE t.op = "root"       -> <<"^">>
          [] t.op = "this"       -> <<".">>
          [] t.op = "parent"     -> <<".", ".">>
          [] t.op = "every"      -> <<"*">>
          [] t.op = "every_r"    -> <<"*", "*">>
          [] t.op = "key"        -> <<t.val[1]>>
          [] t.op = "quoted"     -> <<"'", t.val[1], "'">>
          [] t.op = "alias"      -> <<"*", t.val[1]>>
          [] t.op = "index"      -> WriteNumber(t.val[1])
          [] t.op = "slice"      -> WriteNumber(t.val[1]) \o <<":">> \o WriteNumber(t.val[2])
          [] t.op = ":"          -> <<":", t.val[1]>>
          [] t.op = "/"          -> <<"/">>
          [] t.op = "from_root"  -> <<"/">> \o Write(l, 11)
          [] t.op = "collection" -> Write(l, 10) \o <<"/">>
          [] t.op = "chain"      -> Write(l, 10) \o <<"/">> \o Write(r, 11)
          [] t.op = ","          -> Write(l, 15) \o <<",">> \o Write(r, 16)
          [] t.op \in {"||", "&&"}           -> Write(l, 4) \o Sign(t.op) \o Write(r, 5)
          [] t.op \in {"$", "%", "[]", "{}"} -> Write(l, 5) \o Sign(t.op)
  IN  IF Binds(t) < min THEN <<"(">> \o text \o <<")">> ELSE text

-----------------------------------------------------------------------------
(* Meaning: the nodes, in order and each once.                             *)

Once(ns) ==
  FoldLeft(LAMBDA acc, n : IF n = NoNode \/ n \in ToSet(acc) THEN acc ELSE Append(acc, n), << >>, ns)

Inside(h, n) == h[n].items \o [i \in DOMAIN h[n].pairs |-> h[n].pairs[i].value]

RECURSIVE Preorder(_, _)
Preorder(h, n) == <<n>> \o FlattenSeq([i \in DOMAIN Inside(h, n) |-> Preorder(h, Inside(h, n)[i])])

\* the conditions of a && b && c; parentheses among them change nothing
RECURSIVE Conditions(_)
Conditions(t) ==
  IF t.op = "&&" THEN Conditions(t.kids[1]) \o Conditions(t.kids[2]) ELSE <<t>>

RECURSIVE Stands(_, _, _)
Stands(t, d, n) ==
  LET h == d.heap
      kind == h[n].kind
      Kid(i) == Stands(t.kids[i], d, n)
      Then(ns, u) == FlattenSeq([i \in DOMAIN ns |-> Stands(u, d, ns[i])])
      If(ns, kinds) == SelectSeq(ns, LAMBDA m : h[m].kind \in kinds)
      Valued(p) == h[p.key].kind = "scalar" /\ h[p.key].text = t.val[1]
      Values(m) == LET ps == SelectSeq(h[m].pairs, Valued)
                   IN  [i \in DOMAIN ps |-> ps[i].value]
      size == Len(h[n].items)
      conds == Conditions(t)
      true == {k \in DOMAIN conds : \A i \in 1 .. k : Stands(conds[i], d, n) # << >>}
      named == SelectSeq(d.anchors, LAMBDA a : a.name = t.val[1])
  IN  Once(
        CASE t.op \in {"root", "/"}  -> <<d.root>>
          [] t.op = "this"           -> <<n>>
          [] t.op = "parent"         -> <<h[n].parent>>
          [] t.op \in {"key", "quoted"} -> Values(n)
          [] t.op = ":"              -> IF h[n].parent = NoNode THEN << >> ELSE Values(h[n].parent)
          [] t.op = "index"          ->
               SelectSeq(h[n].items, LAMBDA m : \E i \in 1 .. size :
                           h[n].items[i] = m /\ t.val[1] \in {i - 1, i - 1 - size})
          [] t.op = "slice"          ->
               IF t.val[1] < 0 THEN << >>
               ELSE SelectSeq(h[n].items, LAMBDA m : \E i \in 1 .. size :
                                h[n].items[i] = m /\ t.val[1] < i /\ i <= t.val[2])
          [] t.op = "every"          -> IF kind \in {"scalar", "alias"} THEN <<n>> ELSE Inside(h, n)
          [] t.op = "every_r"        -> Preorder(h, n)
          [] t.op = "alias"          -> IF named = << >> THEN << >> ELSE <<Last(named).node>>
          [] t.op = "from_root"      -> Then(<<d.root>>, t.kids[1])
          [] t.op = "chain"          -> Then(Kid(1), t.kids[2])
          [] t.op = ","              -> Kid(1) \o Kid(2)
          [] t.op = "||"             -> IF Kid(1) # << >> THEN Kid(1) ELSE Kid(2)
          [] t.op = "&&"             ->
               IF true = {} THEN << >>
               ELSE Stands(conds[CHOOSE k \in true : \A i \in true : i <= k], d, n)
          [] t.op \in {"collection", "%"} -> If(Kid(1), {"seq", "map"})
          [] t.op = "$"              -> If(Kid(1), {"scalar", "alias"})
          [] t.op = "[]"             -> If(Kid(1), {"seq"})
          [] t.op = "{}"             -> If(Kid(1), {"map"}))
=============================================================================
