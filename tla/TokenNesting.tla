---------------------------- MODULE TokenNesting ----------------------------
(***************************************************************************)
(* How tokens open and close collections: the reference that the contexts  *)
(* of the scanner and of the parser are compared with.  A block sequence   *)
(* or mapping is "seq" or "map", a flow one its bracket.                   *)
(***************************************************************************)
EXTENDS FyTypes, Lists, Integers

OpenedBy(t) ==
  CASE t = "BLOCK_SEQUENCE_START" -> "seq"
    [] t = "BLOCK_MAPPING_START"  -> "map"
    [] t = "FLOW_SEQUENCE_START"  -> "["
    [] t = "FLOW_MAPPING_START"   -> "{"

ClosedBy(t) == CASE t = "BLOCK_END"         -> {"seq", "map"}
                 [] t = "FLOW_SEQUENCE_END" -> {"["}
                 [] t = "FLOW_MAPPING_END"  -> {"{"}

(* What token t does to a list of open collections.  A closing token that  *)
(* does not match leaves "bad" behind.                                     *)
Nested(s, t) ==
  CASE t \in BlockStarts \cup FlowStarts -> Append(s, OpenedBy(t))
    [] t \in FlowEnds \cup {"BLOCK_END"} ->
         IF s # << >> /\ Last(s) \in ClosedBy(t) THEN Front(s) ELSE Append(s, "bad")
    [] OTHER -> s

(* The same for a list of tokens, in order.                                *)
NestedBy(s, ts) ==
  LET after[i \in 0 .. Len(ts)] == IF i = 0 THEN s ELSE Nested(after[i - 1], ts[i])
  IN  after[Len(ts)]

(* What the scanner's indent stack and flow stack say is open.             *)
OpenIn(indents, flows) ==
  [i \in 1 .. Len(indents) - 1 |-> IF indents[i + 1].bmap THEN "map" ELSE "seq"]
  \o [i \in 1 .. Len(flows) - 1 |-> flows[i + 1].flow]

(* What the parser's state and state stack say is open; inside a node the  *)
(* state is on the stack.  An indentless sequence and a single pair have   *)
(* no tokens of their own.                                                 *)
Kind(s) ==
  CASE s \in {"BLOCK_SEQUENCE_FIRST_ENTRY", "BLOCK_SEQUENCE_ENTRY"} -> <<"seq">>
    [] s \in {"BLOCK_MAPPING_FIRST_KEY", "BLOCK_MAPPING_KEY",
              "BLOCK_MAPPING_VALUE"} -> <<"map">>
    [] s \in {"FLOW_SEQUENCE_FIRST_ENTRY", "FLOW_SEQUENCE_ENTRY",
              "FLOW_SEQUENCE_ENTRY_MAPPING_KEY", "FLOW_SEQUENCE_ENTRY_MAPPING_VALUE",
              "FLOW_SEQUENCE_ENTRY_MAPPING_END"} -> <<"[">>
    [] s \in {"FLOW_MAPPING_FIRST_KEY", "FLOW_MAPPING_KEY", "FLOW_MAPPING_VALUE",
              "FLOW_MAPPING_EMPTY_VALUE"} -> <<"{">>
    [] OTHER -> << >>

OpenStates(at, state, stack) ==
  FlattenSeq([i \in DOMAIN stack |-> Kind(stack[i])])
  \o (IF at = "node" THEN << >> ELSE Kind(state))

=============================================================================
