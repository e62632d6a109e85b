------------------------------ MODULE FyParser ------------------------------
(***************************************************************************)
(* The event parser of libfyaml: fy_parse_internal() and fy_parse_node(),  *)
(* driven by an arbitrary token stream.                                    *)
(*                                                                         *)
(* One call of fy_parser_parse() runs until it returns an event, and peeks *)
(* at the next token whenever it has removed one.  The scanner works       *)
(* inside those peeks, so a call is modelled as the steps between them;    *)
(* `call' holds the locals of the call and where it has got to.  Here the  *)
(* scanner is an environment that queues any token at all (Fetch), which   *)
(* makes every property below hold for every token stream; module FyStream *)
(* puts the real scanner in its place.                                     *)
(*                                                                         *)
(* Left out: allocation failure, the token and document marks, and the     *)
(* implicit/explicit flags of a document, which nothing here tests.        *)
(***************************************************************************)
EXTENDS FyTypes, Integers, Lists

CONSTANTS Supply,      \* the token types the scanner delivers
          MaxDepth,    \* bound: no collection opens on a stack this deep
          MaxInputs    \* bound on the inputs queued at once

ASSUME SupplyAssumption == Supply \subseteq BodyTokens
ASSUME BoundsAssumption == MaxDepth \in Nat /\ MaxInputs \in Nat \ {0}

VARIABLES
  (* struct fy_parser *)
  state,                 \* fyp->state
  state_stack,           \* fyp->state_stack, top last
  fyds,                  \* fyp->current_document_state
  stream_error,
  stream_end_token,      \* a copy of STREAM_END is being kept
  stream_has_content,
  next_single_document,
  call,                  \* locals of the running fy_parse_internal()
  event,                 \* the event this step returns, or "NONE"
  (* shared with the scanner *)
  queue,                 \* fyp->queued_tokens
  flow_level,            \* fyp->flow_level
  json,                  \* fyp_json_mode()
  stream,                \* token stream: "closed" or "open"
  inputs                 \* length of fyp->queued_inputs

parserVars  == <<state, state_stack, fyds, stream_error, stream_end_token,
                 stream_has_content, next_single_document, call, event>>
scannerVars == <<queue, flow_level, json, stream, inputs>>
vars        == <<parserVars, scannerVars>>

-----------------------------------------------------------------------------
(* Document state: version, whether %YAML was seen, and the handles bound  *)
(* by %TAG (DefaultHandles are always bound).                              *)
DefaultDocumentState == [version |-> "1.2", vd |-> FALSE, td |-> {}]

(* Where a call can be waiting for a token.  "idle": no call is running;   *)
(* "peek": a call is running and its first token has just been fetched.    *)
Points == {"idle", "peek", "node", "docstart", "block_entry", "block_key",
           "block_value", "flow_seq_entry", "flow_seq_value",
           "flow_map_entry", "flow_map_key", "flow_map_value"}

NoCall == [at |-> "idle", is_block |-> FALSE, anchor |-> FALSE, tag |-> "NONE",
           had_doc_end |-> FALSE, had_directives |-> FALSE]

Calls == [at : Points, is_block : BOOLEAN, anchor : BOOLEAN,
          tag : Tags \cup {"NONE"}, had_doc_end : BOOLEAN,
          had_directives : BOOLEAN]

(* The locals of fy_parse_node() when it is entered.                       *)
NodeCall(isBlock) == [NoCall EXCEPT !.at = "node", !.is_block = isBlock]

Init ==
  /\ state = "NONE" /\ state_stack = << >>
  /\ fyds = DefaultDocumentState
  /\ stream_error = FALSE /\ stream_end_token = FALSE
  /\ stream_has_content = FALSE /\ next_single_document = FALSE
  /\ call = NoCall /\ event = "NONE"
  /\ queue = << >> /\ flow_level = 0
  /\ json = FALSE /\ stream = "closed" /\ inputs = 0

-----------------------------------------------------------------------------
(* Building blocks of the steps.                                           *)

At(p)    == call.at = p /\ ~stream_error /\ queue # << >>
tok      == Head(queue)
Starting == call.at \in {"idle", "peek"}
Idle(S)  == (At("idle") \/ At("peek")) /\ state \in S

Consume == queue' = Tail(queue) /\ UNCHANGED <<flow_level, json, stream, inputs>>
Keep    == UNCHANGED scannerVars

Return(e)    == call' = NoCall /\ event' = e
Continue(c)  == call' = c /\ event' = "NONE"
Goto(p)      == Continue([call EXCEPT !.at = p])

Push(s)      == state_stack' = Append(state_stack, s)
SetState(s)  == state' = s /\ UNCHANGED state_stack

(* fy_parse_state_pop(): an empty stack yields FYPS_NONE.                  *)
PopState ==
  IF state_stack = << >>
  THEN state' = "NONE" /\ UNCHANGED state_stack
  ELSE state' = Last(state_stack) /\ state_stack' = Front(state_stack)

DocUnchanged ==
  UNCHANGED <<fyds, stream_error, stream_has_content, next_single_document>>

(* A call looks at its first token: a STREAM_END is copied once.           *)
KeepStreamEnd ==
  stream_end_token' = (stream_end_token \/ (Starting /\ tok = "STREAM_END"))

(* goto err_out: the stream is dead until fy_parser_reset().               *)
Failed ==
  /\ stream_error' = TRUE /\ event' = "NONE" /\ KeepStreamEnd
  /\ UNCHANGED <<state_stack, stream_has_content, next_single_document, call>>
Fail == Failed /\ UNCHANGED <<state, fyds>> /\ Keep

(* A step that touches only the parser's control state and the queue.      *)
Plain == DocUnchanged /\ KeepStreamEnd

(* Push s and enter fy_parse_node() with the token at the head.            *)
EnterNode(s, isBlock) ==
  /\ Push(s) /\ Continue(NodeCall(isBlock))
  /\ UNCHANGED state /\ Keep /\ Plain

(* fy_parse_empty_scalar() and the state that follows it.                  *)
EmptyScalar(s) == SetState(s) /\ Return("SCALAR") /\ Keep /\ Plain

(* Remove the head and peek again at point p.                              *)
Advance(p) == Consume /\ Goto(p) /\ UNCHANGED <<state, state_stack>> /\ Plain

EndCollection_KeepsToken(e, used) ==   \* mutant: the token is not removed
  PopState /\ Return(e) /\ Keep /\ Plain

(* Pop the state and return a collection's end event.                      *)
EndCollection(e, used) ==
  PopState /\ Return(e) /\ (IF used THEN Consume ELSE Keep) /\ Plain

-----------------------------------------------------------------------------
(* FYPS_NONE, FYPS_STREAM_START and fy_parse_stream_start().               *)

StreamStart ==
  /\ Idle({"NONE", "STREAM_START"})
  /\ IF tok = "STREAM_START"
     THEN /\ state' = "IMPLICIT_DOCUMENT_START" /\ state_stack' = << >>
          /\ stream_end_token' = FALSE /\ stream_has_content' = FALSE
          /\ Return("STREAM_START") /\ Consume
          /\ UNCHANGED <<fyds, stream_error, next_single_document>>
     ELSE Failed /\ state' = "STREAM_START" /\ UNCHANGED fyds /\ Keep

(* FYPS_IMPLICIT_DOCUMENT_START, FYPS_DOCUMENT_START: the part before the  *)
(* loops over document end markers and directives.                         *)
DocumentStartEnter ==
  /\ Idle({"IMPLICIT_DOCUMENT_START", "DOCUMENT_START"})
  /\ stream_has_content' = (stream_has_content \/ tok # "STREAM_END")
  /\ KeepStreamEnd /\ Goto("docstart")
  /\ UNCHANGED <<state, state_stack, fyds, stream_error, next_single_document>>
  /\ Keep

(* Superfluous document end markers are dropped.                           *)
DocumentStartSkipEnd ==
  /\ At("docstart") /\ tok = "DOCUMENT_END" /\ ~call.had_directives
  /\ Continue([call EXCEPT !.had_doc_end = TRUE])
  /\ Consume /\ Plain /\ UNCHANGED <<state, state_stack>>

(* A directive has been applied to the document state, or refused.         *)
DirectiveTaken(ds) ==
  /\ fyds' = ds /\ Consume
  /\ Continue([call EXCEPT !.had_directives = TRUE])
  /\ UNCHANGED <<state, state_stack, stream_error, stream_end_token,
                 stream_has_content, next_single_document>>
DirectiveRefused(ds) == Failed /\ fyds' = ds /\ UNCHANGED state /\ Consume

(* fy_parse_version_directive() with fy_check_document_version(): the      *)
(* number is stored before it is found unsupported.                        *)
VersionDirective ==
  /\ At("docstart") /\ tok \in VersionDirectives
  /\ \/ fyds.vd /\ DirectiveRefused(fyds)
     \/ /\ ~fyds.vd /\ tok = "VERSION_BAD"
        /\ DirectiveRefused([fyds EXCEPT !.version = "bad"])
     \/ /\ ~fyds.vd /\ tok # "VERSION_BAD"
        /\ DirectiveTaken([fyds EXCEPT !.vd = TRUE,
                !.version = IF tok = "VERSION_1_1" THEN "1.1" ELSE "1.2"])

(* fy_parse_tag_directive(): only a binding that still is the default one  *)
(* may be replaced.                                                        *)
TagDirective ==
  /\ At("docstart") /\ tok \in TagDirectives
  /\ IF HandleOf(tok) \in fyds.td
     THEN DirectiveRefused(fyds)
     ELSE DirectiveTaken([fyds EXCEPT !.td = @ \cup {HandleOf(tok)}])

(* fy_parse_stream_end() and the event; the next input, if there is one,   *)
(* starts a new stream.                                                    *)
EndStream_StaysInStream ==   \* mutant: fy_parse_stream_end(), state forgotten
  /\ Return("STREAM_END") /\ Consume
  /\ UNCHANGED <<state, state_stack, fyds, stream_error, stream_end_token,
                 stream_has_content, next_single_document>>

EndStream ==
  /\ stream_end_token' = FALSE
  /\ state' = IF inputs > 0 THEN "NONE" ELSE "END"
  /\ Return("STREAM_END") /\ Consume
  /\ UNCHANGED <<state_stack, fyds, stream_error, stream_has_content,
                 next_single_document>>

DocumentStartStreamEnd ==
  /\ At("docstart") /\ tok = "STREAM_END"
  /\ IF json /\ ~stream_has_content THEN Fail ELSE EndStream

DocumentStart_NoPush ==      \* mutant: FYPS_DOCUMENT_END is not pushed
  /\ At("docstart")
  /\ tok \notin Directives \cup {"STREAM_END"}
  /\ tok = "DOCUMENT_END" => call.had_directives
  /\ LET explicit == tok = "DOCUMENT_START" IN
     IF \/ ~(state = "IMPLICIT_DOCUMENT_START" \/ call.had_doc_end \/ explicit)
        \/ tok = "DOCUMENT_END"
     THEN Fail
     ELSE /\ SetState(IF explicit THEN "DOCUMENT_CONTENT" ELSE "BLOCK_NODE")
          /\ Return("DOCUMENT_START")
          /\ (IF explicit THEN Consume ELSE Keep) /\ Plain

(* The document start event itself.                                        *)
DocumentStart ==
  /\ At("docstart")
  /\ tok \notin Directives \cup {"STREAM_END"}
  /\ tok = "DOCUMENT_END" => call.had_directives
  /\ LET explicit == tok = "DOCUMENT_START" IN
     IF \/ ~(state = "IMPLICIT_DOCUMENT_START" \/ call.had_doc_end \/ explicit)
        \/ tok = "DOCUMENT_END"
     THEN Fail
     ELSE /\ state' = IF explicit THEN "DOCUMENT_CONTENT" ELSE "BLOCK_NODE"
          /\ Push("DOCUMENT_END") /\ Return("DOCUMENT_START")
          /\ (IF explicit THEN Consume ELSE Keep) /\ Plain

(* FYPS_DOCUMENT_END with fy_reset_document_state(), which also clears the *)
(* scanner's flow context.  A directive may follow without an explicit     *)
(* end marker in YAML 1.1 only.                                            *)
DocumentEnd ==
  /\ Idle({"DOCUMENT_END"})
  /\ IF tok \in Directives /\ fyds.version # "1.1"
     THEN Fail
     ELSE /\ KeepStreamEnd /\ Return("DOCUMENT_END")
          /\ next_single_document' = FALSE
          /\ IF next_single_document
             THEN SetState("SINGLE_DOCUMENT_END") /\ UNCHANGED <<fyds, flow_level>>
             ELSE /\ SetState("DOCUMENT_START")
                  /\ fyds' = DefaultDocumentState /\ flow_level' = 0
          /\ UNCHANGED <<queue, json, stream, inputs, stream_error,
                         stream_has_content>>

SingleDocumentEnd ==
  /\ Idle({"SINGLE_DOCUMENT_END"})
  /\ IF tok = "STREAM_END" THEN EndStream ELSE Fail

-----------------------------------------------------------------------------
(* FYPS_DOCUMENT_CONTENT, FYPS_BLOCK_NODE and fy_parse_node().             *)

DocumentContent ==
  /\ Idle(NodeStates)
  /\ IF /\ state = "DOCUMENT_CONTENT"
        /\ tok \in Directives \cup DocumentMarkers \cup {"STREAM_END"}
     THEN PopState /\ Return("SCALAR") /\ Keep /\ Plain
     ELSE Continue(NodeCall(TRUE)) /\ UNCHANGED <<state, state_stack>> /\ Keep /\ Plain

HasProperty == call.anchor \/ call.tag # "NONE"

NodeAlias ==
  /\ At("node") /\ tok = "ALIAS"
  /\ IF HasProperty
     THEN Fail
     ELSE PopState /\ Return("ALIAS") /\ Consume /\ Plain

NodeProperty ==
  /\ At("node")
  /\ \/ /\ tok = "ANCHOR" /\ ~call.anchor
        /\ Continue([call EXCEPT !.anchor = TRUE])
     \/ /\ tok \in Tags /\ call.tag = "NONE"
        /\ Continue([call EXCEPT !.tag = tok])
  /\ Consume /\ Plain /\ UNCHANGED <<state, state_stack>>

(* The head is past the node's properties, and the tag's handle is bound.  *)
Content     == /\ At("node") /\ tok # "ALIAS"
               /\ tok = "ANCHOR" => call.anchor
               /\ tok \in Tags => call.tag # "NONE"
HandleBound == call.tag # "NONE" => HandleOf(call.tag) \in DefaultHandles \cup fyds.td

NodeBadTag == Content /\ ~HandleBound /\ Fail

(* The token that starts each collection, the event and the first state.   *)
Opens(t) ==
  CASE t = "FLOW_SEQUENCE_START"  -> <<"SEQUENCE_START", "FLOW_SEQUENCE_FIRST_ENTRY">>
    [] t = "FLOW_MAPPING_START"   -> <<"MAPPING_START", "FLOW_MAPPING_FIRST_KEY">>
    [] t = "BLOCK_SEQUENCE_START" -> <<"SEQUENCE_START", "BLOCK_SEQUENCE_FIRST_ENTRY">>
    [] t = "BLOCK_MAPPING_START"  -> <<"MAPPING_START", "BLOCK_MAPPING_FIRST_KEY">>

Openers == FlowStarts \cup (IF call.is_block THEN BlockStarts ELSE {})

IndentlessStart ==
  tok = "BLOCK_ENTRY" /\ state \in {"BLOCK_MAPPING_VALUE", "BLOCK_MAPPING_FIRST_KEY"}

NodeIndentless ==
  /\ Content /\ HandleBound /\ IndentlessStart
  /\ SetState("INDENTLESS_SEQUENCE_ENTRY") /\ Return("SEQUENCE_START")
  /\ Keep /\ Plain

NodeScalar ==
  /\ Content /\ HandleBound /\ tok \in Scalars
  /\ PopState /\ Return("SCALAR") /\ Consume /\ Plain

NodeCollection ==
  /\ Content /\ HandleBound /\ tok \in Openers
  /\ SetState(Opens(tok)[2]) /\ Return(Opens(tok)[1])
  /\ Consume /\ Plain

(* Nothing follows the properties: an empty scalar, or no node at all.     *)
NodeEmpty ==
  /\ Content /\ HandleBound /\ ~IndentlessStart
  /\ tok \notin Scalars \cup Openers
  /\ IF HasProperty
     THEN PopState /\ Return("SCALAR") /\ Keep /\ Plain
     ELSE Fail

-----------------------------------------------------------------------------
(* Block collections.                                                      *)

BlockSequence ==
  /\ Idle(SeqEntryStates)
  /\ \/ /\ tok = "BLOCK_ENTRY" /\ Advance("block_entry")
     \/ /\ tok # "BLOCK_ENTRY"
        /\ IF state = "INDENTLESS_SEQUENCE_ENTRY"
           THEN EndCollection("SEQUENCE_END", FALSE)
           ELSE IF tok = "BLOCK_END"
           THEN EndCollection("SEQUENCE_END", TRUE)
           ELSE Fail

(* is_seq: whether the entry has a node.                                   *)
EntryHasNode ==
  \/ tok \notin {"BLOCK_ENTRY", "BLOCK_END"}
  \/ state = "INDENTLESS_SEQUENCE_ENTRY" /\ tok \notin {"KEY", "VALUE"}

BlockSequenceEntry ==
  /\ At("block_entry")
  /\ IF EntryHasNode THEN EnterNode(state, TRUE) ELSE EmptyScalar("BLOCK_SEQUENCE_ENTRY")

BlockMappingKey ==
  /\ Idle({"BLOCK_MAPPING_FIRST_KEY", "BLOCK_MAPPING_KEY"})
  /\ \/ tok = "KEY" /\ Advance("block_key")
     \/ tok \in {"BLOCK_END", "STREAM_END"} /\ EndCollection("MAPPING_END", TRUE)
     \/ tok \notin {"KEY", "BLOCK_END", "STREAM_END"} /\ Fail

BlockMappingKeyNode_NoValue ==   \* mutant: an empty key is given no value
  /\ At("block_key")
  /\ IF tok \notin {"KEY", "VALUE", "BLOCK_END"}
     THEN EnterNode("BLOCK_MAPPING_VALUE", TRUE)
     ELSE EmptyScalar("BLOCK_MAPPING_KEY")

BlockMappingKeyNode ==
  /\ At("block_key")
  /\ IF tok \notin {"KEY", "VALUE", "BLOCK_END"}
     THEN EnterNode("BLOCK_MAPPING_VALUE", TRUE)
     ELSE EmptyScalar("BLOCK_MAPPING_VALUE")

BlockMappingValue ==
  /\ Idle({"BLOCK_MAPPING_VALUE"})
  /\ IF tok = "VALUE" THEN Advance("block_value") ELSE EmptyScalar("BLOCK_MAPPING_KEY")

BlockMappingValueNode_FirstKey ==   \* mutant: returns to the wrong state
  /\ At("block_value")
  /\ IF tok \notin {"KEY", "VALUE", "BLOCK_END"}
     THEN EnterNode("BLOCK_MAPPING_FIRST_KEY", TRUE)
     ELSE EmptyScalar("BLOCK_MAPPING_KEY")

BlockMappingValueNode ==
  /\ At("block_value")
  /\ IF tok \notin {"KEY", "VALUE", "BLOCK_END"}
     THEN EnterNode("BLOCK_MAPPING_KEY", TRUE)
     ELSE EmptyScalar("BLOCK_MAPPING_KEY")

-----------------------------------------------------------------------------
(* Flow collections.                                                       *)

(* A node that JSON does not allow to be left out.                         *)
EmptyUnlessJson(s) == IF json THEN Fail ELSE EmptyScalar(s)

(* The entry, or what ends the sequence, once the comma is out of the way. *)
FlowSequenceItem ==
  \/ /\ tok = "KEY"
     /\ SetState("FLOW_SEQUENCE_ENTRY_MAPPING_KEY") /\ Return("MAPPING_START")
     /\ Consume /\ Plain
  \/ /\ tok = "FLOW_SEQUENCE_END" /\ EndCollection("SEQUENCE_END", TRUE)
  \/ /\ tok \notin {"KEY", "FLOW_SEQUENCE_END"}
     /\ EnterNode("FLOW_SEQUENCE_ENTRY", FALSE)

FlowSequence ==
  /\ Idle({"FLOW_SEQUENCE_FIRST_ENTRY", "FLOW_SEQUENCE_ENTRY"})
  /\ IF tok = "STREAM_END"
     THEN IF flow_level > 0 THEN Fail ELSE EndCollection("SEQUENCE_END", TRUE)
     ELSE IF state = "FLOW_SEQUENCE_FIRST_ENTRY" \/ tok = "FLOW_SEQUENCE_END"
     THEN FlowSequenceItem
     ELSE IF tok = "FLOW_ENTRY" THEN Advance("flow_seq_entry") ELSE Fail

FlowSequenceEntry == At("flow_seq_entry") /\ FlowSequenceItem

(* A single pair inside a flow sequence.                                   *)
FlowSequencePairKey ==
  /\ Idle({"FLOW_SEQUENCE_ENTRY_MAPPING_KEY"})
  /\ IF tok \in {"VALUE", "FLOW_ENTRY", "FLOW_SEQUENCE_END"}
     THEN EmptyUnlessJson("FLOW_SEQUENCE_ENTRY_MAPPING_VALUE")
     ELSE EnterNode("FLOW_SEQUENCE_ENTRY_MAPPING_VALUE", FALSE)

FlowSequencePairValue ==
  /\ Idle({"FLOW_SEQUENCE_ENTRY_MAPPING_VALUE"})
  /\ IF tok = "VALUE"
     THEN Advance("flow_seq_value")
     ELSE EmptyUnlessJson("FLOW_SEQUENCE_ENTRY_MAPPING_END")

FlowSequencePairValueNode ==
  /\ At("flow_seq_value")
  /\ IF tok \in {"FLOW_ENTRY", "FLOW_SEQUENCE_END"}
     THEN EmptyUnlessJson("FLOW_SEQUENCE_ENTRY_MAPPING_END")
     ELSE EnterNode("FLOW_SEQUENCE_ENTRY_MAPPING_END", FALSE)

FlowSequencePairEnd ==
  /\ Idle({"FLOW_SEQUENCE_ENTRY_MAPPING_END"})
  /\ SetState("FLOW_SEQUENCE_ENTRY") /\ Return("MAPPING_END") /\ Keep /\ Plain

FlowMappingItem_NoJson ==   \* mutant: no JSON check of a key without a value
  \/ /\ tok = "KEY" /\ Advance("flow_map_key")
  \/ /\ tok = "FLOW_MAPPING_END" /\ EndCollection("MAPPING_END", TRUE)
  \/ /\ tok \notin {"KEY", "FLOW_MAPPING_END"}
     /\ EnterNode("FLOW_MAPPING_EMPTY_VALUE", FALSE)

FlowMappingItem ==
  \/ /\ tok = "KEY" /\ Advance("flow_map_key")
  \/ /\ tok = "FLOW_MAPPING_END" /\ EndCollection("MAPPING_END", TRUE)
  \/ /\ tok \notin {"KEY", "FLOW_MAPPING_END"}
     /\ IF json THEN Fail ELSE EnterNode("FLOW_MAPPING_EMPTY_VALUE", FALSE)

FlowMapping ==
  /\ Idle({"FLOW_MAPPING_FIRST_KEY", "FLOW_MAPPING_KEY"})
  /\ IF state = "FLOW_MAPPING_FIRST_KEY" \/ tok = "FLOW_MAPPING_END"
     THEN FlowMappingItem
     ELSE IF tok = "FLOW_ENTRY" THEN Advance("flow_map_entry") ELSE Fail

FlowMappingEntry == At("flow_map_entry") /\ FlowMappingItem

FlowMappingKeyNode ==
  /\ At("flow_map_key")
  /\ IF json /\ tok # "SCALAR_DQ"
     THEN Fail
     ELSE IF tok \in {"VALUE", "FLOW_ENTRY", "FLOW_MAPPING_END"}
     THEN EmptyScalar("FLOW_MAPPING_VALUE")
     ELSE EnterNode("FLOW_MAPPING_VALUE", FALSE)

FlowMappingValue ==
  /\ Idle({"FLOW_MAPPING_VALUE"})
  /\ IF tok = "VALUE"
     THEN Advance("flow_map_value")
     ELSE EmptyUnlessJson("FLOW_MAPPING_KEY")

FlowMappingValueNode ==
  /\ At("flow_map_value")
  /\ IF tok \in {"FLOW_ENTRY", "FLOW_MAPPING_END"}
     THEN EmptyUnlessJson("FLOW_MAPPING_KEY")
     ELSE EnterNode("FLOW_MAPPING_KEY", FALSE)

FlowMappingEmptyValue ==
  Idle({"FLOW_MAPPING_EMPTY_VALUE"}) /\ EmptyScalar("FLOW_MAPPING_KEY")

-----------------------------------------------------------------------------
(* fy_scan_peek(), as the parser sees it: the queue is empty and the call  *)
(* asks for a token.                                                       *)

Asks   == queue = << >> /\ ~stream_error /\ state # "END"
Silent == event' = "NONE" /\ call' = IF call.at = "idle" THEN [call EXCEPT !.at = "peek"] ELSE call
ParserIdle == UNCHANGED <<state, state_stack, fyds, stream_end_token,
                          stream_has_content, next_single_document>>

(* A closed token stream goes on with the next input, whose name or the    *)
(* configuration says whether it is JSON.                                  *)
OpenInput ==
  /\ Asks /\ stream = "closed" /\ inputs > 0
  /\ inputs' = inputs - 1 /\ json' \in BOOLEAN
  /\ stream' = "open" /\ queue' = <<"STREAM_START">>
  /\ Silent /\ ParserIdle /\ UNCHANGED <<stream_error, flow_level>>

(* fy_reader_input_open() fails: the input is dropped.                     *)
OpenFail ==
  /\ Asks /\ stream = "closed" /\ inputs > 0
  /\ inputs' = inputs - 1 /\ stream_error' = TRUE
  /\ Silent /\ ParserIdle /\ UNCHANGED <<queue, flow_level, json, stream>>

(* The bound on nesting: tokens that open a collection are held back.      *)
Room(t) ==
  \/ Len(state_stack) < MaxDepth
  \/ t \notin FlowStarts \cup BlockStarts \cup {"BLOCK_ENTRY"}
  \/ t = "BLOCK_ENTRY" /\ state \in SeqEntryStates

(* The scanner keeps flow_level at the number of brackets it has open.     *)
FlowLevelAfter(t) ==
  CASE t \in FlowStarts -> flow_level + 1
    [] t \in FlowEnds   -> flow_level - 1
    [] OTHER            -> flow_level

FetchToken ==
  /\ Asks /\ stream = "open"
  /\ \E t \in Supply :
       /\ Room(t) /\ (t \in FlowEnds => flow_level > 0)
       /\ queue' = <<t>> /\ flow_level' = FlowLevelAfter(t)
  /\ Silent /\ ParserIdle /\ UNCHANGED <<stream_error, json, stream, inputs>>

FetchStreamEnd ==
  /\ Asks /\ stream = "open"
  /\ stream' = "closed" /\ queue' = <<"STREAM_END">>
  /\ Silent /\ ParserIdle /\ UNCHANGED <<stream_error, flow_level, json, inputs>>

(* The scanner meets an error in the text.                                 *)
ScanFail ==
  /\ Asks /\ stream = "open"
  /\ stream_error' = TRUE /\ Silent /\ ParserIdle /\ Keep

(* No input is left.  A call that is just starting is given the kept copy  *)
(* of STREAM_END again; without one, or later in the call, it fails.       *)
CanRepeat == call.at = "idle" /\ state # "NONE" /\ stream_end_token
Exhausted == Asks /\ stream = "closed" /\ inputs = 0

RepeatStreamEnd ==
  /\ Exhausted /\ CanRepeat
  /\ queue' = <<"STREAM_END">> /\ Silent /\ ParserIdle
  /\ UNCHANGED <<stream_error, flow_level, json, stream, inputs>>

NoToken ==
  /\ Exhausted /\ ~CanRepeat
  /\ stream_error' = TRUE /\ Silent /\ ParserIdle /\ Keep

-----------------------------------------------------------------------------
(* The caller, between two calls of fy_parser_parse().                     *)

Between == call.at = "idle" \/ stream_error

(* fy_parse_input_reset().  Inputs still queued are freed and stay on the  *)
(* list: what the next peek reads is undefined, and no state of the model, *)
(* so the callers modelled here have none when they come to it.  The queue *)
(* of tokens is not touched.                                               *)
InputReset ==
  /\ inputs = 0
  /\ state' = "NONE" /\ state_stack' = << >> /\ stream' = "closed"
  /\ call' = NoCall /\ event' = "NONE"
  /\ UNCHANGED <<stream_end_token, queue, json>>

(* fy_parser_set_input_file(), _set_string(), _set_input_fp() ...          *)
SetInput ==
  /\ Between /\ state \in {"NONE", "END"}
  /\ InputReset /\ inputs' = 1
  /\ UNCHANGED <<fyds, stream_error, stream_has_content,
                 next_single_document, flow_level>>

(* fy_parse_input_append()                                                 *)
AppendInput ==
  /\ Between /\ inputs < MaxInputs
  /\ inputs' = inputs + 1 /\ event' = "NONE"
  /\ ParserIdle /\ UNCHANGED <<stream_error, call, queue, flow_level, json, stream>>

(* fy_parser_set_next_single_document()                                    *)
SetNextSingleDocument ==
  /\ Between /\ next_single_document' = TRUE /\ event' = "NONE"
  /\ UNCHANGED <<state, state_stack, fyds, stream_error, stream_end_token,
                 stream_has_content, call>>
  /\ Keep

(* fy_parser_reset()                                                       *)
Reset ==
  /\ Between /\ InputReset /\ inputs' = inputs
  /\ next_single_document' = FALSE /\ stream_error' = FALSE
  /\ stream_has_content' = FALSE
  /\ fyds' = DefaultDocumentState /\ flow_level' = 0

-----------------------------------------------------------------------------
Document == \/ StreamStart \/ DocumentStartEnter \/ DocumentStartSkipEnd
            \/ VersionDirective \/ TagDirective \/ DocumentStartStreamEnd
            \/ DocumentStart \/ DocumentEnd \/ SingleDocumentEnd
            \/ DocumentContent

Node == \/ NodeAlias \/ NodeProperty \/ NodeBadTag \/ NodeIndentless
        \/ NodeScalar \/ NodeCollection \/ NodeEmpty

Block == \/ BlockSequence \/ BlockSequenceEntry
         \/ BlockMappingKey \/ BlockMappingKeyNode
         \/ BlockMappingValue \/ BlockMappingValueNode

Flow == \/ FlowSequence \/ FlowSequenceEntry
        \/ FlowSequencePairKey \/ FlowSequencePairValue
        \/ FlowSequencePairValueNode \/ FlowSequencePairEnd
        \/ FlowMapping \/ FlowMappingEntry \/ FlowMappingKeyNode
        \/ FlowMappingValue \/ FlowMappingValueNode \/ FlowMappingEmptyValue

(* fy_parse_internal(): exactly one of these is enabled while a call has a *)
(* token to work on.                                                       *)
Parse == Document \/ Node \/ Block \/ Flow

Peek == \/ OpenInput \/ OpenFail \/ FetchToken \/ FetchStreamEnd
        \/ ScanFail \/ RepeatStreamEnd \/ NoToken

API == SetInput \/ AppendInput \/ SetNextSingleDocument \/ Reset

Next == Parse \/ Peek \/ API

Spec == Init /\ [][Next]_vars

(* The caller keeps calling fy_parser_parse(), a call does not stop        *)
(* halfway, and the text of an input is finite.                            *)
FairSpec == Spec /\ WF_vars(Parse) /\ WF_vars(Peek) /\ SF_vars(FetchStreamEnd)

-----------------------------------------------------------------------------
(* Properties.                                                             *)

(* Every variable has its type: in particular fy_parse_state_pop() never   *)
(* yields a state that fy_parse_internal() does not handle.                *)
TypeOK ==
  /\ state \in ParserStates /\ state_stack \in Seq(PushedStates)
  /\ fyds \in [version : {"1.1", "1.2", "bad"}, vd : BOOLEAN, td : SUBSET Handles]
  /\ stream_error \in BOOLEAN /\ stream_end_token \in BOOLEAN
  /\ stream_has_content \in BOOLEAN /\ next_single_document \in BOOLEAN
  /\ call \in Calls /\ event \in Events
  /\ queue \in Seq(Tokens) /\ Len(queue) <= 1 /\ flow_level \in Nat
  /\ json \in BOOLEAN /\ stream \in {"closed", "open"} /\ inputs \in 0 .. MaxInputs

(* The states of a call outside a document, and in one.                    *)
OutsideStates == {"NONE", "STREAM_START", "IMPLICIT_DOCUMENT_START",
                  "DOCUMENT_START", "DOCUMENT_END", "SINGLE_DOCUMENT_END", "END"}

(* A call that waits for a token is still in the state whose case it is    *)
(* running.                                                                *)
CallDiscipline ==
  /\ call.at = "docstart" => state \in {"IMPLICIT_DOCUMENT_START", "DOCUMENT_START"}
  /\ call.at = "block_entry" => state \in SeqEntryStates
  /\ call.at \notin {"idle", "peek", "docstart"} => state \notin OutsideStates

(* Outside a document the state stack is empty, inside one DOCUMENT_END    *)
(* lies at its bottom and nowhere else.  So fy_parse_state_pop() never     *)
(* meets an empty stack, whose FYPS_NONE would silently end the stream in  *)
(* mid-document, and what the handlers push inside a document is gone when *)
(* it ends.  Which states lie between is what WellNested is about.         *)
StackDiscipline ==
  /\ CallDiscipline
  /\ state \in OutsideStates => state_stack = << >>
  /\ state \notin OutsideStates =>
       /\ state_stack # << >>
       /\ \A i \in DOMAIN state_stack : (state_stack[i] = "DOCUMENT_END") <=> (i = 1)

FlowStates == {"FLOW_SEQUENCE_FIRST_ENTRY", "FLOW_SEQUENCE_ENTRY",
               "FLOW_SEQUENCE_ENTRY_MAPPING_KEY",
               "FLOW_SEQUENCE_ENTRY_MAPPING_VALUE",
               "FLOW_SEQUENCE_ENTRY_MAPPING_END", "FLOW_MAPPING_FIRST_KEY",
               "FLOW_MAPPING_KEY", "FLOW_MAPPING_VALUE", "FLOW_MAPPING_EMPTY_VALUE"}

InStream == state \notin {"NONE", "STREAM_START", "END"}

(* In JSON mode no node of a flow collection is made up by the parser: a   *)
(* scalar event inside one always comes from a token, unless the scanner   *)
(* let a tag or an anchor through.  The check is spread over six cases of  *)
(* fy_parse_internal() and relies on EMPTY_VALUE never being pushed.       *)
JsonNoEmptyNodes ==
  [][ json /\ event' = "SCALAR" /\ state \in FlowStates /\ ~HasProperty
        => queue' # queue ]_vars

(* The events spell a well-nested stream: the parser implements module     *)
(* EventStream.  What is open is read off the state stack; a state on the  *)
(* stack stands for a collection with an unfinished child, the current     *)
(* state for one whose last child is complete.                             *)
Pending(s) ==
  CASE s = "DOCUMENT_END" -> <<"root">>
    [] s \in SeqEntryStates \cup {"FLOW_SEQUENCE_ENTRY"} -> <<"seq">>
    [] s \in {"BLOCK_MAPPING_VALUE", "FLOW_MAPPING_VALUE",
              "FLOW_MAPPING_EMPTY_VALUE"} -> <<"key">>
    [] s \in {"BLOCK_MAPPING_KEY", "FLOW_MAPPING_KEY"} -> <<"val">>
    [] s = "FLOW_SEQUENCE_ENTRY_MAPPING_VALUE" -> <<"seq", "key">>
    [] s = "FLOW_SEQUENCE_ENTRY_MAPPING_END" -> <<"seq", "val">>

Current(s) ==
  CASE s = "DOCUMENT_END" -> <<"done">>
    [] s \in SeqEntryStates \cup {"FLOW_SEQUENCE_ENTRY",
              "FLOW_SEQUENCE_FIRST_ENTRY"} -> <<"seq">>
    [] s \in {"BLOCK_MAPPING_FIRST_KEY", "BLOCK_MAPPING_KEY",
              "FLOW_MAPPING_FIRST_KEY", "FLOW_MAPPING_KEY"} -> <<"key">>
    [] s \in {"BLOCK_MAPPING_VALUE", "FLOW_MAPPING_VALUE",
              "FLOW_MAPPING_EMPTY_VALUE"} -> <<"val">>
    [] s = "FLOW_SEQUENCE_ENTRY_MAPPING_VALUE" -> <<"seq", "val">>
    [] s \in {"FLOW_SEQUENCE_ENTRY_MAPPING_KEY",
              "FLOW_SEQUENCE_ENTRY_MAPPING_END"} -> <<"seq", "key">>
    [] OTHER -> << >>

Nest ==
  (IF InStream THEN <<"stream">> ELSE << >>)
  \o FlattenSeq([i \in DOMAIN state_stack |-> Pending(state_stack[i])])
  \o (IF call.at = "node" THEN << >> ELSE Current(state))

ES == INSTANCE EventStream WITH nest <- Nest

WellNested == ES!Spec

(* A stream that has been opened is brought to its end, or to an error:    *)
(* no token, and no lack of one, leaves fy_parser_parse() without an       *)
(* answer while the caller goes on asking.                                 *)
StreamEnds == (stream = "open") ~> (stream_error \/ state \in {"NONE", "END"})

(* "check whether it's a sequence entry or not": an entry of an indentless *)
(* sequence without a node is an empty entry, not an error.                *)
IndentlessEntryMayBeEmpty ==
  ~ /\ stream_error /\ call.at = "node" /\ ~HasProperty
    /\ state = "INDENTLESS_SEQUENCE_ENTRY"
    /\ queue # << >> /\ tok \in {"BLOCK_ENTRY", "BLOCK_END"}

=============================================================================
