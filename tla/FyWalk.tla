------------------------------- MODULE FyWalk -------------------------------
(***************************************************************************)
(* struct fy_path_parser and struct fy_path_exec of fy-walk.c: a path      *)
(* expression is parsed, and executed on the nodes of a document.  A       *)
(* parser may be used for several expressions.                             *)
(***************************************************************************)
EXTENDS FyPathExpr, FyPath, PathTrees

CONSTANTS Paths,        \* the texts, each with what it means; see Tree
          Again,        \* those given to a parser that has been used
          Docs,         \* the documents: heap, root, anchors, and nodes to start at
          MaxParses     \* bound on the expressions given to one parser

ASSUME WalkAssumption == MaxParses \in Nat /\ Again \subseteq Paths

VARIABLES path,         \* the text being parsed, with what it means
          at,           \* the reader's place
          queued,       \* fypp->queued_tokens
          started,      \* fypp->stream_start_produced
          ended,        \* fypp->stream_end_produced
          bad,          \* fypp->stream_error
          ops, args,    \* the operator stack and the operand stack
          phase,        \* where the calls are
          expr,         \* the expression fy_path_parse_expression() returned
          walk,         \* the document, start and results of an execution
          parses        \* the number of expressions so far

stacks == <<ops, args>>
reader == <<at, queued, started, ended>>
vars == <<path, reader, bad, stacks, phase, expr, walk, parses>>

NoExpr == Expr("none", NoToken, << >>)
NoPath == [text |-> << >>, tree |-> NoTree]
NoWalk == [doc |-> << >>, start |-> NoNode, results |-> << >>]

Init ==
  /\ path = NoPath /\ at = 1 /\ queued = << >>
  /\ started = FALSE /\ ended = FALSE /\ bad = FALSE
  /\ ops = << >> /\ args = << >>
  /\ phase = "idle" /\ expr = NoExpr /\ walk = NoWalk /\ parses = 0

-----------------------------------------------------------------------------
(* The parser.                                                             *)

ResetParser_KeepsOperands ==   \* mutant: the operands are left
  /\ ops' = << >> /\ queued' = << >> /\ at' = 1
  /\ UNCHANGED <<args, started, ended, bad>>

\* fy_path_parser_reset(), fy_path_parser_cleanup(): the marks of the stream stay
ResetParser ==
  /\ ops' = << >> /\ args' = << >> /\ queued' = << >> /\ at' = 1
  /\ UNCHANGED <<started, ended, bad>>

\* fy_path_parse_expr_from_string(), up to the call that parses
ParseExprFromString(p) ==
  /\ phase \in {"idle", "parsed", "executed", "failed"} /\ parses < MaxParses
  /\ path' = p /\ ResetParser
  /\ phase' = "start" /\ expr' = NoExpr /\ walk' = NoWalk /\ parses' = parses + 1

\* fy_path_scan_peek() behind STREAM_START: {} for no token
Peek ==
  IF queued # << >> THEN {Head(queued)}
  ELSE IF ended \/ bad THEN {}
  ELSE FetchToken(path.text, at)

\* the token is fetched, and taken or left in the queue
Take(t) == queued' = << >> /\ at' = t.end /\ UNCHANGED <<started, ended>>
Leave(t) == queued' = <<t>> /\ at' = t.end /\ UNCHANGED <<started, ended>>

Reading == UNCHANGED <<path, expr, walk, parses>>

\* the stream has to start
Start ==
  /\ phase = "start"
  /\ IF started \/ bad
     THEN phase' = "failed" /\ bad' = TRUE /\ UNCHANGED <<at, queued, started>>
     ELSE phase' = "parsing" /\ started' = TRUE /\ UNCHANGED <<at, queued, bad>>
  /\ UNCHANGED <<ended, stacks>> /\ Reading

\* push_operand(), push_operator(): the stacks grow as they must
PushOperand(e) == args' = Append(args, e)
PushOperator(t) == ops' = Append(ops, t)

\* an operand goes to its stack
Operand ==
  /\ phase = "parsing"
  /\ \E t \in Peek :
       /\ t.type \in OperandTypes
       /\ PushOperand(Expr(t.type, t, << >>)) /\ Take(t)
  /\ UNCHANGED <<ops, bad, phase>> /\ Reading

PushesFirst(t) ==
  ops # << >> => Last(ops).type = "(" \/ Prec(t.type) > Prec(Last(ops).type)

\* an operator that binds stronger than the one below it
StrongOperator ==
  /\ phase = "parsing"
  /\ \E t \in Peek :
       /\ t.type \notin OperandTypes \cup {"STREAM_END"} /\ PushesFirst(t)
       /\ PushOperator(t) /\ Take(t)
  /\ UNCHANGED <<args, bad, phase>> /\ Reading

\* the result of evaluating the topmost operator
Evaluated(next) ==
  LET s == Evaluate([ops |-> ops, args |-> args, failed |-> FALSE])
  IN  /\ ops' = s.ops /\ args' = s.args
      /\ phase' = IF s.failed THEN "failed" ELSE next
      /\ bad' = (bad \/ s.failed)

\* one that does not has to wait for it to be evaluated
WeakOperator ==
  /\ phase = "parsing"
  /\ \E t \in Peek :
       /\ t.type \notin OperandTypes \cup {"STREAM_END"} /\ ~PushesFirst(t)
       /\ Leave(t)
  /\ Evaluated("parsing") /\ Reading

\* STREAM_END, or a text that is no token: what there is will be evaluated
ScanEnd ==
  /\ phase = "parsing"
  /\ \E t \in Peek : t.type = "STREAM_END" /\ queued' = <<t>> /\ at' = t.end
  /\ ended' = TRUE /\ phase' = "ending"
  /\ UNCHANGED <<started, bad, stacks>> /\ Reading

ScanError ==
  /\ phase = "parsing" /\ Peek = {}
  /\ bad' = TRUE /\ phase' = "ending"
  /\ UNCHANGED <<reader, stacks>> /\ Reading

EvaluateRest ==
  /\ phase = "ending" /\ ops # << >>
  /\ Evaluated("ending") /\ UNCHANGED reader /\ Reading

\* one operand has to be left
Finish ==
  /\ phase = "ending" /\ ops = << >>
  /\ IF Len(args) = 1
     THEN expr' = args[1] /\ args' = << >> /\ phase' = "parsed" /\ queued' = << >> /\ UNCHANGED bad
     ELSE phase' = "failed" /\ bad' = TRUE /\ UNCHANGED <<expr, args, queued>>
  /\ UNCHANGED <<path, at, started, ended, ops, walk, parses>>

Parse ==
  Start \/ Operand \/ StrongOperator \/ WeakOperator \/ ScanEnd \/ ScanError
  \/ EvaluateRest \/ Finish

-----------------------------------------------------------------------------
(* The executor.  Results are lists of nodes.                              *)

\* fy_walk_result_add(): nothing is added twice
ResultAdd(rs, n) == IF n = NoNode \/ n \in ToSet(rs) THEN rs ELSE Append(rs, n)

\* fy_walk_result_list_move()
ResultMove(to, from) == FoldLeft(ResultAdd, to, from)

\* fy_walk_result_add_recursive()
RECURSIVE AddRecursive(_, _, _)
AddRecursive(h, rs, n) ==
  LET Add(acc, m) == AddRecursive(h, acc, m)
  IN  FoldLeft(Add, ResultAdd(rs, n),
               h[n].items \o [i \in DOMAIN h[n].pairs |-> h[n].pairs[i].value])

\* fy_path_expr_execute_single_result()
SingleTypes == {"root", "this", "parent", "key", "index", "alias"} \cup Filters
SingleResult(d, e, n) ==
  LET h == d.heap
      When(cond) == IF cond THEN n ELSE NoNode
  IN  CASE e.type = "root"   -> d.root
        [] e.type = "this"   -> n
        [] e.type = "parent" -> h[n].parent
        [] e.type = "alias"  -> AnchorByName(d.anchors, e.fyt.val[1], FALSE)
        [] e.type = "index"  -> ItemByIndex(h, n, e.fyt.val[1])
        [] e.type = "key"    -> ValueAt(h, n, Text(e.fyt.val[1]))
        [] e.type = "$"      -> When(h[n].kind \in {"scalar", "alias"})
        [] e.type = "%"      -> When(h[n].kind \in {"seq", "map"})
        [] e.type = "[]"     -> When(h[n].kind = "seq")
        [] e.type = "{}"     -> When(h[n].kind = "map")

\* the chain that has single results only
LeafChain(d, e, n) ==
  FoldLeft(LAMBDA m, c : IF m = NoNode THEN m ELSE SingleResult(d, c, m), n, e.children)

\* fpet_seq_slice: numbers below zero are not handled
SliceItems(d, e, n) ==
  LET from == e.fyt.val[1]
      to == e.fyt.val[2]
      size == Len(d.heap[n].items)
  IN  IF from < 0 \/ to < 1 \/ from >= to THEN << >>
      ELSE SubSeq(d.heap[n].items, from + 1, IF size < to THEN size ELSE to)

EveryChild(d, n) ==
  IF d.heap[n].kind \in {"scalar", "alias"} THEN <<n>>
  ELSE d.heap[n].items \o [i \in DOMAIN d.heap[n].pairs |-> d.heap[n].pairs[i].value]

\* fpet_logical_or: the first results that are not empty
FirstResults(lists) ==
  LET i == SelectInSeq(lists, LAMBDA rs : rs # << >>) IN IF i = 0 THEN << >> ELSE lists[i]

\* fpet_logical_and: the last ones before any that are empty
LatestResults(lists) ==
  LET i == SelectInSeq(lists, LAMBDA rs : rs = << >>)
  IN  IF i = 1 THEN << >> ELSE lists[IF i = 0 THEN Len(lists) ELSE i - 1]

\* fy_path_expr_execute(): rs with the results added
RECURSIVE ExprExecute(_, _, _, _)
ExprExecute(d, e, rs, n) ==
  LET Of(c) == ExprExecute(d, c, << >>, n)
      Step(ts, c) == FoldLeft(LAMBDA acc, m : ExprExecute(d, c, acc, m), << >>, ts)
      all == [i \in DOMAIN e.children |-> Of(e.children[i])]
  IN  IF n = NoNode THEN rs
      ELSE IF e.type \in SingleTypes THEN ResultAdd(rs, SingleResult(d, e, n))
      ELSE CASE e.type = "chain" ->
                  IF \A i \in DOMAIN e.children : e.children[i].type \in SingleTypes
                  THEN ResultAdd(rs, LeafChain(d, e, n))
                  ELSE ResultMove(rs, FoldLeft(Step, <<n>>, e.children))
             [] e.type = "multi"   -> FoldLeft(ResultMove, rs, all)
             [] e.type = "every"   -> ResultMove(rs, EveryChild(d, n))
             [] e.type = "every_r" -> AddRecursive(d.heap, rs, n)
             [] e.type = "slice"   -> ResultMove(rs, SliceItems(d, e, n))
             [] e.type = "or"      -> ResultMove(rs, FirstResults(all))
             [] e.type = "and"     -> ResultMove(rs, LatestResults(all))

\* fy_path_exec_execute()
Execute(d, n) ==
  /\ phase = "parsed"
  /\ walk' = [doc |-> d, start |-> n, results |-> ExprExecute(d, expr, << >>, n)]
  /\ phase' = "executed"
  /\ UNCHANGED <<path, reader, bad, stacks, expr, parses>>

Next ==
  \/ \E p \in IF parses = 0 THEN Paths ELSE Again : ParseExprFromString(p)
  \/ Parse
  \/ \E d \in Docs : \E n \in d.starts : Execute(d, n)
  \/ phase \in {"executed", "failed"} /\ parses = MaxParses /\ UNCHANGED vars

Fairness == WF_vars(Parse)

Spec == Init /\ [][Next]_vars /\ Fairness

-----------------------------------------------------------------------------
(* Properties.                                                             *)

\* the operands of the text up to a place, and those in an expression
RECURSIVE OperandsIn(_, _, _)
OperandsIn(text, i, end) ==
  IF i >= end THEN << >>
  ELSE LET t == CHOOSE u \in FetchToken(text, i) : TRUE
       IN  (IF t.type \in OperandTypes THEN <<t>> ELSE << >>) \o OperandsIn(text, t.end, end)

RECURSIVE OperandsOf(_)
OperandsOf(e) ==
  IF e.type \in ParentTypes
  THEN FlattenSeq([i \in DOMAIN e.children |-> OperandsOf(e.children[i])])
  ELSE IF e.fyt.type \in OperandTypes THEN <<e.fyt>> ELSE << >>

\* Whatever the text, no operand is lost, doubled or moved: the operand stack,
\* and then the expression that is returned, hold the operands read so far in
\* the order of the text, through all the regrouping of evaluate().
OperandsKept ==
  phase # "failed" =>
    OperandsIn(path.text, 1, at) =
      FlattenSeq([i \in DOMAIN args |-> OperandsOf(args[i])])
        \o (IF expr = NoExpr THEN << >> ELSE OperandsOf(expr))

\* a last digit that has no bit in common with the tens before it, so that `|`
\* adds it (fy_path_fetch_seq_index_or_slice() reads 12 as 10)
Additive(v) == (((v \div 10) * 10) & (v % 10)) = 0

\* A new parser accepts every expression that is written as the precedence of
\* the operators demands, and the expression yields, from every node, exactly
\* the nodes it stands for, in order and each once: a slash is taken for the
\* root, a chain or a filter as it should, chains that are run by the shorter
\* loop for single results yield what the general one does, and children that
\* were merged into their parents mean the same there.  Expressions with a
\* number whose digits do not add up are accepted, but left out of the rest; so
\* is a parser that was used before, which refuses every expression.
ParsesRight ==
  path.tree # NoTree =>
    /\ phase = "failed" => parses > 1
    /\ phase = "executed" /\ (\A v \in Numbers(path.tree) : Additive(v)) =>
         walk.results = Stands(path.tree, walk.doc, walk.start)

\* Every text is parsed or refused: evaluate() takes something from the stack
\* of operators whenever the loops around it go on.
Finishes == phase = "start" ~> phase \in {"parsed", "failed"}

=============================================================================
