------------------------------- MODULE FyScan -------------------------------
(***************************************************************************)
(* The token stream a caller of fy_scan() reads: the scanner of FyScanner  *)
(* and a consumer that takes one token after the other.                    *)
(***************************************************************************)
EXTENDS FyScanner, TokenNesting

VARIABLE out     \* the collections opened and not closed in what was taken

vars == <<scanVars, out>>

ScanInit == Init /\ inputs = 1 /\ out = << >>

(* fy_scan(): fy_scan_peek() and fy_scan_remove().                         *)
Take ==
  /\ Ready /\ ~Restarts
  /\ queue' = Tail(queue) /\ Produces(Head(queue))
  /\ out' = Nested(out, Head(queue))
  /\ UNCHANGED <<contextVars, json, stream_end_reached, inputs, stream_error, look, ahead>>

Next == Take \/ ((Scan \/ OpenInput) /\ UNCHANGED out)

Spec == ScanInit /\ [][Next]_vars

-----------------------------------------------------------------------------
(* Properties.                                                             *)

Levels   == [indent : {-2} \cup Columns, bmap : BOOLEAN]
Pendings == [column : {-1} \cup Columns, old : BOOLEAN]
Brackets == [flow : {"none", "[", "{"}, pending : Pendings]
Keys == [token : Nat \ {0}, column : Columns, flow_level : Nat,
         required : BOOLEAN, old : BOOLEAN, endold : BOOLEAN]

(* Every variable has its type: neither the flow level nor the indent      *)
(* stack nor the flow stack ever underflows, whatever the text closes.     *)
TypeOK ==
  /\ queue \in Seq(Tokens) /\ simple_keys \in Seq(Keys)
  /\ indents \in Seq(Levels) /\ indents # << >>
  /\ flows \in Seq(Brackets) /\ flows # << >>
  /\ flow_level \in Nat /\ look \in Lexemes /\ ahead \subseteq Anything
  /\ simple_key_allowed \in BOOLEAN /\ last_was_comma \in BOOLEAN
  /\ json \in BOOLEAN /\ stream_start_produced \in BOOLEAN
  /\ stream_end_reached \in BOOLEAN /\ stream_end_produced \in BOOLEAN
  /\ current \in BOOLEAN /\ stream_error \in BOOLEAN /\ inputs \in Nat

(* A simple key points into the token queue, and tokens are put in front   *)
(* of it long after it was saved.  Every key still points at a queued      *)
(* token that can begin a key, at most one key is kept per flow level, and *)
(* the list is ordered: inner keys come first and point further back, so   *)
(* that fy_fetch_value() and the purging, which only look at the head,     *)
(* find the key they want and never move the token of another key.         *)
KeyStarts == Scalars \cup FlowStarts \cup {"ALIAS", "ANCHOR", "TAG_DEF"}

KeysAnchored ==
  /\ \A i \in DOMAIN simple_keys :
       /\ simple_keys[i].token \in DOMAIN queue
       /\ queue[simple_keys[i].token] \in KeyStarts
       /\ simple_keys[i].flow_level <= flow_level
  /\ \A i, j \in DOMAIN simple_keys : i < j =>
       /\ simple_keys[i].flow_level > simple_keys[j].flow_level
       /\ simple_keys[i].token > simple_keys[j].token

(* The indent stack grows strictly towards its top, although a level may   *)
(* be opened late, at the column of a key that was scanned before.         *)
IndentsIncrease ==
  \A i, j \in DOMAIN indents : i < j => indents[i].indent < indents[j].indent

(* Until an error, the tokens handed out and those queued, taken together, *)
(* open and close collections in a properly nested way, and what they      *)
(* leave open is what the indent stack and the flow stack say: also when   *)
(* the start of a mapping is put in front of tokens queued before, and     *)
(* when several block levels end at once.                                  *)
Balanced == ~stream_error => NestedBy(out, queue) = OpenIn(indents, flows)

=============================================================================
