---------------------------- MODULE EventStream ----------------------------
(***************************************************************************)
(* What the parser promises to every caller of fy_parser_parse(), whatever *)
(* the tokens are: the events it hands out spell a prefix of a well-nested *)
(* stream.  Documents sit in a stream one after the other, each has        *)
(* exactly one root node, collections close in the reverse order they were *)
(* opened, and a mapping holds whole key/value pairs.                      *)
(*                                                                         *)
(* nest is the list of what is open, outermost first: "stream"; a document *)
(* as "root" (its root node has not been completed) or "done"; a sequence  *)
(* as "seq"; a mapping as "key" or "val", after what it waits for.         *)
(***************************************************************************)
EXTENDS FyTypes, Naturals

VARIABLES event,   \* the event of this step, "NONE" if there is none
          nest

vars == <<event, nest>>

Top       == nest[Len(nest)]
Open      == nest # << >>
Outer     == SubSeq(nest, 1, Len(nest) - 1)
WantsNode == Open /\ Top \in {"root", "seq", "key", "val"}

(* What waits for a node, once that node is complete.                      *)
Advance(w) == CASE w = "root" -> "done"
                [] w = "key"  -> "val"
                [] w = "val"  -> "key"
                [] OTHER      -> w

Completed(s) == [s EXCEPT ![Len(s)] = Advance(@)]

Init == event = "NONE" /\ nest = << >>

StreamStart == /\ nest = << >>
               /\ event' = "STREAM_START"
               /\ nest' = <<"stream">>

DocumentStart == /\ Open /\ Top = "stream"
                 /\ event' = "DOCUMENT_START"
                 /\ nest' = Append(nest, "root")

Leaf == /\ WantsNode
        /\ event' \in {"SCALAR", "ALIAS"}
        /\ nest' = Completed(nest)

CollectionStart == /\ WantsNode
                   /\ \/ event' = "SEQUENCE_START" /\ nest' = Append(nest, "seq")
                      \/ event' = "MAPPING_START"  /\ nest' = Append(nest, "key")

CollectionEnd == /\ Open
                 /\ \/ event' = "SEQUENCE_END" /\ Top = "seq"
                    \/ event' = "MAPPING_END"  /\ Top = "key"
                 /\ nest' = Completed(Outer)

DocumentEnd == /\ Open /\ Top = "done"
               /\ event' = "DOCUMENT_END"
               /\ nest' = Outer

StreamEnd == /\ nest = <<"stream">>
             /\ event' = "STREAM_END"
             /\ nest' = << >>

Silent == event' = "NONE" /\ UNCHANGED nest

(* fy_parser_reset(): whatever was open is abandoned.                      *)
Abandon == event' = "NONE" /\ nest' = << >>

Next == \/ StreamStart \/ DocumentStart \/ Leaf \/ CollectionStart
        \/ CollectionEnd \/ DocumentEnd \/ StreamEnd \/ Silent \/ Abandon

Spec == Init /\ [][Next]_vars

=============================================================================
