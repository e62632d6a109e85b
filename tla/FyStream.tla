------------------------------ MODULE FyStream ------------------------------
(***************************************************************************)
(* The scanner and the event parser together, as one fy_parser runs them:  *)
(* the parser of FyParser takes its tokens from the queue the scanner of   *)
(* FyScanner fills.  The scanner only runs inside the parser's peeks, but  *)
(* it runs ahead: it queues several tokens while a simple key is pending.  *)
(* The two share struct fy_parser, and the parser clears parts of the      *)
(* scanner's context at the start of a stream and the end of a document.   *)
(***************************************************************************)
EXTENDS FyScanner, TokenNesting

CONSTANT MaxInputs     \* bound on the inputs queued at once

ASSUME InputsAssumption == MaxInputs \in Nat \ {0}

VARIABLES state, state_stack, fyds, stream_end_token, stream_has_content,
          next_single_document, call, event

P == INSTANCE FyParser WITH Supply <- {}, MaxDepth <- 0,
                            stream <- IF current THEN "open" ELSE "closed"

vars == <<scanVars, state, state_stack, fyds, stream_end_token,
          stream_has_content, next_single_document, call, event>>

flagVars == <<simple_key_allowed, stream_start_produced, stream_end_reached,
              stream_end_produced, look, ahead>>

StreamInit == Init /\ P!Init

-----------------------------------------------------------------------------
(* fy_scan_peek() returns the head of the queue: it has been produced, and *)
(* if it is one of the stream's ends this has been recorded.               *)
Handed ==
  /\ queue # << >>
  /\ IF stream_end_produced
     THEN Head(queue) = "STREAM_END"
     ELSE /\ Ready /\ Head(queue) # "STREAM_END"
          /\ Head(queue) = "STREAM_START" => stream_start_produced

(* The scanner at work inside a peek of the parser.                        *)
InPeek == ~stream_error /\ state # "END" /\ P!Silent /\ P!ParserIdle

Fetching == InPeek /\ (Scan \/ OpenInput)

HandOut ==
  /\ Ready /\ ~Handed /\ ~Restarts /\ InPeek
  /\ Produces(Head(queue))
  /\ UNCHANGED <<queue, contextVars, json, stream_end_reached, inputs,
                 stream_error, look, ahead>>

ScannerContext_KeepsFlows ==   \* mutant: the flow stack is not recycled
  IF event' = "STREAM_START"
  THEN /\ indents' = <<NoIndent>> /\ simple_keys' = << >>
       /\ flows' = <<NoFlow>> /\ last_was_comma' = FALSE
  ELSE UNCHANGED <<simple_keys, indents, flows, last_was_comma>>

(* What the step of the parser does to the scanner's context:              *)
(* fy_parse_stream_start(), which leaves flow_level, and                   *)
(* fy_reset_document_state(), which leaves the pending complex key.        *)
ScannerContext ==
  CASE event' = "STREAM_START" ->
         /\ indents' = <<NoIndent>> /\ simple_keys' = << >>
         /\ flows' = <<NoFlow>> /\ last_was_comma' = FALSE
    [] event' = "DOCUMENT_END" /\ state' = "DOCUMENT_START" ->
         /\ flows' = <<[flow |-> "none", pending |-> Last(flows).pending]>>
         /\ UNCHANGED <<simple_keys, indents, last_was_comma>>
    [] OTHER -> UNCHANGED <<simple_keys, indents, flows, last_was_comma>>

(* fy_parse_internal() up to its next peek.                                *)
Parsing == Handed /\ UNCHANGED <<flagVars, current>> /\ P!Parse /\ ScannerContext

(* No input is left: what is queued is dropped, and the parser gives the   *)
(* end of the stream again or fails.                                       *)
NoInput ==
  /\ inputs = 0 /\ ~current
  /\ Restarts \/ ~(stream_end_produced \/ stream_start_produced \/ Ready)
  /\ UNCHANGED <<flagVars, current, simple_keys, indents, flows, last_was_comma>>
  /\ P!RepeatStreamEnd \/ P!NoToken

-----------------------------------------------------------------------------
(* The caller.                                                             *)

AppendInput ==
  UNCHANGED <<flagVars, current, simple_keys, indents, flows, last_was_comma>>
  /\ P!AppendInput

(* fy_parser_reset() with fy_parse_input_reset() and fy_reader_reset():    *)
(* the simple keys, the indents and the queue stay.                        *)
Reset ==
  /\ current' = FALSE /\ stream_start_produced' = FALSE
  /\ stream_end_reached' = FALSE /\ stream_end_produced' = FALSE
  /\ last_was_comma' = FALSE /\ flows' = <<NoFlow>>
  /\ indents' = [indents EXCEPT ![Len(indents)].bmap = FALSE]
  /\ UNCHANGED <<simple_keys, simple_key_allowed, look, ahead>>
  /\ P!Reset

-----------------------------------------------------------------------------
Step == Fetching \/ HandOut \/ Parsing \/ NoInput

Next == Step \/ AppendInput

Spec == StreamInit /\ [][Next]_vars

(* The caller goes on asking for events, and the text is finite.           *)
FairSpec == Spec /\ WF_vars(Step) /\ SF_vars(InPeek /\ StreamEnd)

-----------------------------------------------------------------------------
(* Properties.                                                             *)

(* The collections the parser has open.                                    *)
ParserOpen == OpenStates(call.at, state, state_stack)

(* A document that follows another one without a marker: the parser is     *)
(* about to refuse it, and has already cleared the brackets the scanner    *)
(* may have opened in it.                                                  *)
Doomed ==
  /\ state = "DOCUMENT_START" /\ ~call.had_doc_end /\ queue # << >>
  /\ Head(queue) \notin Directives \cup DocumentMarkers \cup {"STREAM_END"}

(* Scanner and parser keep separate stacks and never compare them.  In a   *)
(* stream without an error they agree: what the parser has open, carried   *)
(* on by the tokens still queued, is what the scanner's indents and        *)
(* brackets say, also across fy_reset_document_state(), which clears the   *)
(* scanner's brackets while the scanner may be ahead.                      *)
StacksAgree ==
  P!InStream /\ ~stream_error /\ ~Doomed =>
    NestedBy(ParserOpen, queue) = OpenIn(indents, flows)

(* fy_parse_stream_start() clears the flow stack but not flow_level, and   *)
(* fy_reset_document_state() both: over several documents and inputs the   *)
(* level stays the depth of the stack, until a mismatched bracket leaves   *)
(* the level but not the stack, which is an error.                         *)
FlowDepth == ~stream_error => flow_level = Len(flows) - 1

(* The scanner consults the document state (the version, the tag handles)  *)
(* that the parser builds from the directives.  It only runs ahead inside  *)
(* one document: when it fetches, no directive, marker or end of stream    *)
(* is waiting for the parser, so the state it sees is that of the text it  *)
(* scans.                                                                  *)
AheadWithinDocument ==
  Fetches => \A i \in DOMAIN queue :
    queue[i] \notin Directives \cup DocumentMarkers \cup {"STREAM_START", "STREAM_END"}

(* A block mapping also ends at STREAM_END, and then consumes it.  With    *)
(* the tokens of the real scanner that never happens: whoever removes      *)
(* STREAM_END from the queue returns the event.                            *)
StreamEndDelivered ==
  [][ queue # << >> /\ Head(queue) = "STREAM_END" /\ queue' = Tail(queue)
        => event' = "STREAM_END" ]_vars

(* Every input that is opened is parsed to its end or to an error: the     *)
(* parser never waits for a token the scanner will not produce, and the    *)
(* scanner never holds back a token for good.                              *)
StreamEnds == current ~> (stream_error \/ state \in {"NONE", "END"})

(* "Completely reset a parser, including after an error that caused a      *)
(* parser error to be emitted" (fy_parser_reset()): a parser that is ready *)
(* to start a stream has neither a token nor a simple key left over from   *)
(* an earlier one.  With a token the new stream is refused; with a key,    *)
(* fy_scan_peek() would never hand out STREAM_START, and queue another one *)
(* for ever.                                                               *)
ResetForgetsStream ==
  state = "NONE" /\ ~stream_error =>
    /\ simple_keys = << >>
    /\ queue # << >> => Head(queue) = "STREAM_START"

=============================================================================
