----------------------------- MODULE FyPathExpr -----------------------------
(***************************************************************************)
(* The path expressions of fy-walk.c as texts, tokens and expressions:     *)
(* fy_path_fetch_tokens(), the operator stack and the operand stack, and   *)
(* evaluate().  A text is a sequence of characters; a token has the place  *)
(* of its first character and of the one behind its last.                  *)
(*                                                                         *)
(* A key in quotes has one letter, and stands for every key that is loaded *)
(* as a document of its own.                                               *)
(***************************************************************************)
EXTENDS Integers, Sequences, SequencesExt, Bitwise

Letters == {"a", "b", "x"}
Digits == [c \in {"0", "1", "2"} |-> CHOOSE d \in 0 .. 2 : ToString(d) = c]
IsNum(c) == c \in DOMAIN Digits
Alnums == Letters \cup DOMAIN Digits \cup {"-"}

Token(type, at, end, val) == [type |-> type, at |-> at, end |-> end, val |-> val]
NoToken == Token("none", 0, 0, << >>)

\* fy_reader_peek_at()
CharAt(text, i) == IF i \in DOMAIN text THEN text[i] ELSE "end"

\* the place behind a run of such characters
RECURSIVE RunEnd(_, _, _)
RunEnd(text, i, chars) ==
  IF CharAt(text, i) \in chars THEN RunEnd(text, i + 1, chars) ELSE i

Name(text, i, j) == FoldLeft(LAMBDA s, c : s \o c, "", SubSeq(text, i, j - 1))

-----------------------------------------------------------------------------
(* Tokens.                                                                 *)

\* the tokens of one and of two characters
Simple ==
  [c \in {"/", "^", ":", "$", "%", ",", "(", ")", ".", "*"} |->
     CASE c = "^" -> "root" [] c = "." -> "this" [] c = "*" -> "every" [] OTHER -> c]
Double ==
  [p \in {<<"[", "]">>, <<"{", "}">>, <<".", ".">>, <<"*", "*">>, <<"|", "|">>, <<"&", "&">>} |->
     CASE p[1] = "." -> "parent" [] p[1] = "*" -> "every_r" [] OTHER -> p[1] \o p[2]]

\* the digits are put together with `|`: 11 is read as 10 | 1, which is 11, but
\* 12 as 10 | 2, which is 10
NumberOf(text, i, j) ==
  FoldLeft(LAMBDA v, c : (v * 10) | Digits[c], 0, SubSeq(text, i, j - 1))

\* a number with its sign: where it ends, its value, and whether it is one
StartsNumber(text, i) ==
  IsNum(CharAt(text, i)) \/ (CharAt(text, i) = "-" /\ IsNum(CharAt(text, i + 1)))
Number(text, i) ==
  LET neg == CharAt(text, i) = "-"
      from == IF neg THEN i + 1 ELSE i
      to == RunEnd(text, from, DOMAIN Digits)
      v == NumberOf(text, from, to)
  IN  [end |-> to, val |-> IF neg THEN -v ELSE v, ok |-> v > 0 \/ to = from + 1]

\* fy_path_fetch_seq_index_or_slice(): {} is an error
FetchIndex(text, i) ==
  LET a == Number(text, i)
      slice == CharAt(text, a.end) = ":" /\ StartsNumber(text, a.end + 1)
      b == Number(text, a.end + 1)
  IN  IF ~a.ok \/ (slice /\ ~b.ok) THEN {}
      ELSE IF slice THEN {Token("slice", i, b.end, <<a.val, b.val>>)}
      ELSE {Token("index", i, a.end, <<a.val>>)}

\* fy_path_fetch_simple_map_key(), fy_path_fetch_flow_map_key()
FetchKey(text, i) ==
  LET j == RunEnd(text, i, Alnums) IN {Token("key", i, j, <<Name(text, i, j)>>)}

FetchFlowKey(text, i) ==
  IF CharAt(text, i) = "'" /\ CharAt(text, i + 1) \in Letters /\ CharAt(text, i + 2) = "'"
  THEN {Token("key", i, i + 3, <<text[i + 1]>>)} ELSE {}

\* fy_path_fetch_tokens(), behind STREAM_START
FetchToken(text, i) ==
  LET c == CharAt(text, i)
      d == CharAt(text, i + 1)
  IN  IF c = "end" THEN {Token("STREAM_END", i, i, << >>)}
      ELSE IF <<c, d>> \in DOMAIN Double THEN {Token(Double[<<c, d>>], i, i + 2, << >>)}
      ELSE IF c = "*" /\ d \in Letters
      THEN LET j == RunEnd(text, i + 2, Alnums)
           IN  {Token("alias", i, j, <<Name(text, i + 1, j)>>)}
      ELSE IF c \in DOMAIN Simple THEN {Token(Simple[c], i, i + 1, << >>)}
      ELSE IF c \in Letters THEN FetchKey(text, i)
      ELSE IF c \in {"'", "[", "{"} THEN FetchFlowKey(text, i)
      ELSE IF StartsNumber(text, i) THEN FetchIndex(text, i)
      ELSE {}

\* fy_token_type_is_operand()
OperandTypes == {"root", "this", "parent", "key", "index", "slice", "every", "every_r", "alias"}

Filters == {"$", "%", "[]", "{}"}

\* fy_token_type_operator_prec()
Prec(type) ==
  CASE type = "/" -> 10
    [] type \in Filters -> 5
    [] type = ":" -> 20
    [] type = "," -> 15
    [] type \in {"||", "&&"} -> 4
    [] type \in {"(", ")"} -> 30

-----------------------------------------------------------------------------
(* Expressions: struct fy_path_expr.                                       *)

Expr(type, token, children) == [type |-> type, fyt |-> token, children |-> children]
ParentTypes == {"chain", "multi", "or", "and"}

\* fy_map_token_to_path_expr_type(), for the operators with two sides
Combines(type) ==
  CASE type = "," -> "multi" [] type = "||" -> "or" [] type = "&&" -> "and"

\* fy_path_expr_start_mark(), fy_path_expr_end_mark()
RECURSIVE StartMark(_)
StartMark(e) == IF e.type \in ParentTypes THEN StartMark(Head(e.children)) ELSE e.fyt.at
RECURSIVE EndMark(_)
EndMark(e) == IF e.type \in ParentTypes THEN EndMark(Last(e.children)) ELSE e.fyt.end

IsBefore(e, t) == EndMark(e) <= t.at
IsAfter(e, t) == StartMark(e) >= t.end

-----------------------------------------------------------------------------
(* evaluate().  An evaluation has the two stacks, and whether it failed.   *)

Failed(s) == [s EXCEPT !.failed = TRUE]
Popped(args, n) == SubSeq(args, 1, Len(args) - n)

\* do_prefix: a chain of the operator and its operand
Prefix(s, top, type) ==
  LET r == Last(s.args)
  IN  IF s.args = << >> THEN Failed(s)
      ELSE IF top.type = ":" /\ r.fyt.type # "key" THEN [Failed(s) EXCEPT !.args = Popped(@, 1)]
      ELSE [s EXCEPT !.args = Append(Popped(@, 1), Expr("chain", NoToken, <<Expr(type, top, << >>), r>>))]

\* do_infix: sides of the same type give their children
Infix(s, top, type) ==
  LET n == Len(s.args)
      Parts(e) == IF e.type = type THEN e.children ELSE <<e>>
  IN  IF n < 2 THEN [Failed(s) EXCEPT !.args = << >>]
      ELSE [s EXCEPT !.args =
              Append(Popped(@, 2), Expr(type, top, Parts(s.args[n - 1]) \o Parts(s.args[n])))]

\* do_suffix: the operator goes to the end of a chain
Suffix(s, top, type) ==
  LET l == Last(s.args)
      path == IF l.type = "chain" THEN l.children ELSE <<l>>
  IN  IF s.args = << >> THEN Failed(s)
      ELSE [s EXCEPT !.args =
              Append(Popped(@, 1), Expr("chain", NoToken, Append(path, Expr(type, top, << >>))))]

Slash_NoCut(s, top) ==   \* mutant: operands in front of a || or ( are seen
  LET n == Len(s.args)
  IN  IF n > 1 THEN Infix(s, top, "chain")
      ELSE IF n = 0 THEN [s EXCEPT !.args = Append(@, Expr("root", top, << >>))]
      ELSE IF IsBefore(s.args[1], top) THEN Suffix(s, top, "%")
      ELSE Prefix(s, top, "root")

\* a slash: between two operands it is a chain, behind one a filter for
\* collections, in front of one or alone the root.  Operands in front of the
\* operator below it are not seen, if that is one a root may follow
Slash(s, top) ==
  LET n == Len(s.args)
      cut == s.ops # << >> /\ Last(s.ops).type \in {"||", "&&", "("}
      Sees(i) == i > 0 /\ ~(cut /\ IsBefore(s.args[i], Last(s.ops)))
  IN  IF Sees(n) /\ Sees(n - 1) THEN Infix(s, top, "chain")
      ELSE IF Sees(n) THEN IF IsBefore(s.args[n], top) THEN Suffix(s, top, "%")
                           ELSE Prefix(s, top, "root")
      ELSE IF Sees(n - 1) /\ ~IsAfter(s.args[n - 1], top) THEN Suffix(s, top, "%")
      ELSE [s EXCEPT !.args = Append(@, Expr("root", top, << >>))]

RECURSIVE EvaluateGroup(_)

Evaluate_KeepsParen(s) ==   \* mutant: an open parenthesis stays
  LET top == Last(s.ops)
      t == [s EXCEPT !.ops = Popped(@, 1)]
  IN  CASE top.type = "/"            -> Slash(t, top)
        [] top.type = ":"            -> Prefix(t, top, "parent")
        [] top.type \in {",", "||", "&&"} -> Infix(t, top, Combines(top.type))
        [] top.type \in Filters      -> Suffix(t, top, top.type)
        [] top.type = "("            -> s
        [] top.type = ")"            -> EvaluateGroup(t)

\* evaluate(): the operator on top of the stack
Evaluate(s) ==
  LET top == Last(s.ops)
      t == [s EXCEPT !.ops = Popped(@, 1)]
  IN  CASE top.type = "/"            -> Slash(t, top)
        [] top.type = ":"            -> Prefix(t, top, "parent")
        [] top.type \in {",", "||", "&&"} -> Infix(t, top, Combines(top.type))
        [] top.type \in Filters      -> Suffix(t, top, top.type)
        [] top.type = "("            -> Failed(t)
        [] top.type = ")"            -> EvaluateGroup(t)

\* FYTT_PE_RPAREN: all that is above the open parenthesis
EvaluateGroup(s) ==
  IF s.failed \/ s.ops = << >> THEN Failed(s)
  ELSE IF Last(s.ops).type = "(" THEN [s EXCEPT !.ops = Popped(@, 1)]
  ELSE EvaluateGroup(Evaluate(s))
=============================================================================
