--------------------------- MODULE FyStreamProofs ---------------------------
(***************************************************************************)
(* That the scanner and the parser agree, for every text, every number of  *)
(* documents and inputs, and any depth.  First the phases of a stream, and *)
(* how a step passes from one to the next, given what the scanner and the  *)
(* parser do in it.  Then what is known of each alone, from FyScanNest and *)
(* FyParserProofs: whoever takes the tokens of the scanner is the parser,  *)
(* and what has been taken is what the parser has open.                    *)
(***************************************************************************)
EXTENDS FyStream, TLAPS

Boundary == Directives \cup DocumentMarkers \cup {"STREAM_START", "STREAM_END"}

(* While the parser is in a stream, and while it is not: the token that    *)
(* begins a stream is alone in the queue, and the one that ends it, once   *)
(* it has been produced.  In a stream the two agree on what is open, which *)
(* is a; a document the parser is about to refuse is the only place where  *)
(* they do not, and the scanner then waits.                                *)
Inside(a) ==
  /\ stream_start_produced /\ (stream_end_produced => queue = <<"STREAM_END">>)
  /\ a \/ (Doomed /\ simple_keys = << >>)

Outside ==
  /\ queue \in {<< >>, <<"STREAM_START">>} /\ flow_level = 0 /\ simple_keys = << >>
  /\ state # "STREAM_START"
  /\ stream_start_produced /\ ~stream_end_produced => queue = <<"STREAM_START">>

Phase(a) == ~stream_error => IF P!InStream THEN Inside(a) ELSE Outside

(* The phase after a step; b is that they agree then.                      *)
Phased(b) ==
  ~stream_error' =>
    IF P!InStream'
    THEN /\ stream_start_produced' /\ (stream_end_produced' => queue' = <<"STREAM_END">>)
         /\ b \/ (Doomed' /\ simple_keys' = << >>)
    ELSE Outside'

-----------------------------------------------------------------------------
(* The scanner at work, and what comes from outside.                       *)

(* The handlers of fy_fetch_tokens() run inside a stream.                  *)
LEMMA ScanPhase ==
  ASSUME NEW a, NEW b, Phase(a), Fetches, a /\ ~stream_error' => b,
         UNCHANGED <<state, stream_start_produced, stream_end_produced>>
  PROVE  Phased(b)
<1>1. /\ stream_start_produced /\ ~stream_end_produced /\ ~stream_error
      /\ ~(queue # << >> /\ simple_keys = << >>)
  BY DEF Fetches, Ready
<1>2. P!InStream /\ a
  BY <1>1 DEF Phase, Inside, Outside, Doomed
<1> QED BY <1>1, <1>2 DEF Phased, P!InStream

(* The next input, between two streams.                                    *)
LEMMA OpenInputPhase ==
  ASSUME NEW a, NEW b, Phase(a), InPeek, OpenInput, inputs \in 0 .. MaxInputs
  PROVE  Phased(b) /\ inputs' \in 0 .. MaxInputs
<1>1. /\ queue' = (IF stream_end_produced THEN << >> ELSE queue) \o <<"STREAM_START">>
      /\ stream_start_produced' = FALSE
      /\ UNCHANGED <<simple_keys, flow_level, stream_error, state>> /\ ~stream_error
      /\ current \/ inputs > 0
      /\ IF current THEN inputs' = inputs ELSE inputs' = inputs - 1
  BY DEF OpenInput, InPeek, P!ParserIdle
<1>2. inputs' \in 0 .. MaxInputs
  BY <1>1, InputsAssumption
<1>3. ~P!InStream /\ Outside
  BY <1>1 DEF Phase, Inside, OpenInput, Restarts
<1>4. queue' = <<"STREAM_START">>
  <2>1. ~stream_end_produced => queue = << >>
    BY <1>3 DEF Outside, OpenInput, Restarts, Ready
  <2>2. queue' = << >> \o <<"STREAM_START">>
    BY <1>1, <2>1
  <2> QED BY <2>2
<1> QED BY <1>1, <1>2, <1>3, <1>4 DEF Phased, Outside, P!InStream

(* fy_scan_peek() hands out the head of the queue.                         *)
LEMMA HandOutPhase ==
  ASSUME NEW a, NEW b, Phase(a), HandOut, a => b,
         Head(queue) = "STREAM_END" => queue = <<"STREAM_END">>,
         call'.had_doc_end = call.had_doc_end
  PROVE  Phased(b)
<1>1. /\ queue # << >> /\ simple_keys = << >> /\ ~stream_error
      /\ stream_start_produced' = (stream_start_produced \/ Head(queue) = "STREAM_START")
      /\ stream_end_produced' = (stream_end_produced \/ Head(queue) = "STREAM_END")
      /\ UNCHANGED <<queue, simple_keys, flow_level, state>>
  BY DEF HandOut, Ready, Produces, contextVars, InPeek, P!ParserIdle
<1>2. Doomed => Doomed'
  BY <1>1 DEF Doomed
<1>3. CASE P!InStream
  BY <1>1, <1>2, <1>3 DEF Phase, Inside, Phased, P!InStream
<1>4. CASE ~P!InStream
  BY <1>1, <1>4 DEF Phase, Outside, Phased, P!InStream
<1> QED BY <1>3, <1>4

(* Without an input only a parser that is between two streams asks, and    *)
(* then there is no end to repeat: it fails.                               *)
LEMMA NoInputFails ==
  ASSUME NEW a, Phase(a), NoInput
  PROVE  /\ queue = << >> /\ stream_error' = TRUE /\ InPeek
         /\ UNCHANGED <<flagVars, current, simple_keys, indents, flows, last_was_comma>>
         /\ UNCHANGED <<queue, flow_level, json, inputs>>
<1>1. /\ queue = << >> /\ ~stream_error
      /\ Restarts \/ ~(stream_end_produced \/ stream_start_produced \/ Ready)
      /\ UNCHANGED <<flagVars, current, simple_keys, indents, flows, last_was_comma>>
      /\ P!RepeatStreamEnd \/ P!NoToken
  BY DEF NoInput, P!RepeatStreamEnd, P!NoToken, P!Exhausted, P!Asks
<1>2. ~P!InStream /\ state # "STREAM_START"
  BY <1>1 DEF Phase, Inside, Outside, Restarts
<1>3. /\ stream_error' = TRUE /\ UNCHANGED <<queue, flow_level, json, inputs>>
      /\ P!Silent /\ P!ParserIdle /\ state # "END"
  BY <1>1, <1>2 DEF P!RepeatStreamEnd, P!NoToken, P!InStream, P!CanRepeat, P!Exhausted,
     P!Asks, P!Keep, P!scannerVars
<1> QED BY <1>1, <1>3 DEF InPeek

(* fy_parse_input_append() only queues an input, and no step at all        *)
(* changes even less.                                                      *)
LEMMA SamePhase ==
  ASSUME NEW a, NEW b, Phase(a), a => b,
         UNCHANGED <<queue, simple_keys, flow_level, stream_start_produced,
                     stream_end_produced, stream_error, state, call>>
  PROVE  Phased(b)
<1>1. Doomed => Doomed'
  BY DEF Doomed
<1> QED BY <1>1 DEF Phase, Inside, Outside, Phased, P!InStream

(* fy_parse_setup()                                                        *)
LEMMA InitPhase == ASSUME NEW a, StreamInit PROVE Phase(a)
BY DEF StreamInit, Init, P!Init, Phase, Outside, P!InStream

-----------------------------------------------------------------------------
(* The parser at work.                                                     *)

(* What has been handed out: no simple key is pending, so the scanner      *)
(* waits, and a boundary is alone in the queue.                            *)
Waiting ==
  /\ queue # << >> /\ simple_keys = << >>
  /\ Head(queue) \in Boundary => queue = <<Head(queue)>>
  /\ stream_end_produced <=> Head(queue) = "STREAM_END"
  /\ Head(queue) = "STREAM_START" => stream_start_produced

(* What a step of fy_parse_internal() does to the queue and to what is     *)
(* open.  A document without a marker is refused.                          *)
Holds == UNCHANGED <<queue, flow_level, json, inputs>>
Drops == queue' = Tail(queue) /\ UNCHANGED <<flow_level, json, inputs>>
Inner == /\ P!InStream /\ P!InStream' /\ event' \notin {"STREAM_START", "STREAM_END"}
         /\ event' = "DOCUMENT_END" => state' # "DOCUMENT_START"

Fails  == /\ stream_error' /\ event' = "NONE"
          /\ Holds \/ (Drops /\ Head(queue) # "STREAM_END")
Moves  == Inner /\ Holds /\ ParserOpen' = ParserOpen
Takes  == /\ Inner /\ Drops /\ Head(queue) # "STREAM_END"
          /\ ParserOpen' = Nested(ParserOpen, Head(queue))
Begins == /\ ~P!InStream /\ Head(queue) = "STREAM_START" /\ Drops
          /\ event' = "STREAM_START" /\ P!InStream' /\ ParserOpen' = << >>
Stops  == /\ P!InStream /\ Head(queue) = "STREAM_END" /\ Drops
          /\ event' = "STREAM_END" /\ state' \in {"NONE", "END"} /\ ParserOpen = << >>
Leaves == /\ state = "DOCUMENT_END" /\ state' = "DOCUMENT_START"
          /\ event' = "DOCUMENT_END" /\ ~call'.had_doc_end
          /\ flow_level' = 0 /\ UNCHANGED <<queue, json, inputs>>
          /\ ParserOpen = << >> /\ ParserOpen' = << >>
Refuses == Holds /\ state' = "DOCUMENT_START" /\ ~call'.had_doc_end /\ event' = "NONE"

Does == /\ Fails \/ Moves \/ Takes \/ Begins \/ Stops \/ Leaves
        /\ Doomed => Fails \/ Refuses

(* The steps inside a stream leave the scanner's context alone.            *)
LEMMA InsideKeeps ==
  ASSUME Parsing, Moves \/ Takes
  PROVE  UNCHANGED <<simple_keys, indents, flows, flow_level, look, stream_end_reached>>
BY DEF Parsing, flagVars, ScannerContext, Moves, Takes, Inner, Holds, Drops

(* The beginning of a stream finds nothing queued, and clears it.          *)
LEMMA BeginClears ==
  ASSUME NEW a, Phase(a), Parsing, ~stream_error, Waiting, Begins
  PROVE  /\ queue' = << >> /\ flow_level' = 0 /\ simple_keys' = << >>
         /\ indents' = <<NoIndent>> /\ flows' = <<NoFlow>>
<1>1. queue = <<"STREAM_START">> /\ flow_level = 0
  BY DEF Phase, Outside, Begins, Waiting
<1>2. queue' = << >> /\ flow_level' = 0
  BY <1>1 DEF Begins, Drops
<1>3. simple_keys' = << >> /\ indents' = <<NoIndent>> /\ flows' = <<NoFlow>>
  BY DEF Parsing, ScannerContext, Begins
<1> QED BY <1>2, <1>3

(* The end of a document clears the brackets.                              *)
LEMMA LeaveKeeps ==
  ASSUME Parsing, Leaves
  PROVE  /\ UNCHANGED <<queue, simple_keys, indents, look, stream_end_reached>>
         /\ flows' = <<[flow |-> "none", pending |-> Last(flows).pending]>>
BY DEF Parsing, flagVars, ScannerContext, Leaves

(* What the step does to the scanner, whatever it is.                      *)
KeepsScanner ==
  /\ queue' \in {queue, Tail(queue)} /\ simple_keys' = << >>
  /\ UNCHANGED <<simple_key_allowed, json, stream_start_produced, stream_end_reached,
                 stream_end_produced, current, inputs, look, ahead>>
  /\ last_was_comma' \in {FALSE, last_was_comma} /\ indents' \in {<<NoIndent>>, indents}
  /\ \/ UNCHANGED <<flows, flow_level>>
     \/ flows' = <<NoFlow>> /\ flow_level' = 0
     \/ /\ flows' = <<[flow |-> "none", pending |-> Last(flows).pending]>>
        /\ flow_level' = 0

(* A step of the parser that is one of these does this to it.              *)
LEMMA ParseKeepsScanner ==
  ASSUME NEW a, Phase(a), Parsing, ~stream_error, Waiting, Does
  PROVE  KeepsScanner
<1>1. Begins => flow_level' = 0
  BY BeginClears
<1>2. /\ queue' \in {queue, Tail(queue)} /\ UNCHANGED <<json, inputs>>
      /\ event' = "STREAM_START" => flow_level' = 0
      /\ IF event' = "DOCUMENT_END" /\ state' = "DOCUMENT_START"
         THEN flow_level' = 0 ELSE flow_level' = flow_level
  <2>1. CASE Fails
    BY <2>1 DEF Fails, Holds, Drops
  <2>2. CASE Moves \/ Takes
    BY <2>2 DEF Moves, Takes, Inner, Holds, Drops
  <2>3. CASE Begins \/ Stops
    BY <1>1, <2>3 DEF Begins, Stops, Drops
  <2>4. CASE Leaves
    BY <2>4 DEF Leaves
  <2> QED BY <2>1, <2>2, <2>3, <2>4 DEF Does
<1>3. CASE event' = "STREAM_START"
  BY <1>2, <1>3 DEF Parsing, flagVars, ScannerContext, Waiting, KeepsScanner
<1>4. CASE event' = "DOCUMENT_END" /\ state' = "DOCUMENT_START"
  BY <1>2, <1>4 DEF Parsing, flagVars, ScannerContext, Waiting, KeepsScanner
<1>5. CASE event' # "STREAM_START" /\ ~(event' = "DOCUMENT_END" /\ state' = "DOCUMENT_START")
  BY <1>2, <1>5 DEF Parsing, flagVars, ScannerContext, Waiting, KeepsScanner
<1> QED BY <1>3, <1>4, <1>5

(* The phase it leads to.  Behind a document comes a boundary, and then    *)
(* the scanner has nothing open, or a document that is refused.            *)
LEMMA ParsePhase ==
  ASSUME NEW a, NEW b, Phase(a), Parsing, ~stream_error, Waiting, Does,
         a /\ (Moves \/ Takes) => b, Begins => b, a /\ Stops => flow_level = 0,
         a /\ Leaves /\ Head(queue) \in Boundary => b
  PROVE  Phased(b)
<1>1. /\ UNCHANGED <<stream_start_produced, stream_end_produced>> /\ simple_keys' = << >>
  BY ParseKeepsScanner DEF KeepsScanner
<1> SUFFICES ASSUME ~stream_error' PROVE Phased(b)
  BY DEF Phased
<1>2. CASE ~P!InStream
  <2>1. Begins /\ b
    BY <1>2 DEF Does, Fails, Moves, Takes, Inner, Stops, Leaves, P!InStream
  <2>2. queue' = << >> /\ stream_start_produced /\ ~stream_end_produced
    BY <2>1, BeginClears DEF Waiting, Begins
  <2> QED BY <1>1, <2>1, <2>2 DEF Begins, Phased
<1>3. CASE P!InStream /\ a
  <2>1. stream_start_produced /\ (stream_end_produced => queue = <<"STREAM_END">>)
    BY <1>3 DEF Phase, Inside
  <2>2. CASE Moves \/ Takes
    BY <1>1, <1>3, <2>1, <2>2 DEF Moves, Takes, Inner, Holds, Waiting, Phased
  <2>3. CASE Stops
    <3>1. queue = <<"STREAM_END">> /\ stream_end_produced /\ flow_level = 0
      BY <1>3, <2>3 DEF Stops, Waiting, Boundary
    <3>2. queue' = << >> /\ flow_level' = 0
      BY <2>3, <3>1 DEF Stops, Drops
    <3> QED BY <1>1, <2>3, <3>1, <3>2 DEF Phased, Outside, P!InStream, Stops
  <2>4. CASE Leaves
    <3>1. Head(queue) \notin Boundary => Doomed'
      BY <2>4 DEF Leaves, Doomed, Boundary, Waiting
    <3>2. P!InStream' /\ queue' = queue
      BY <2>4 DEF Leaves, P!InStream
    <3> QED BY <1>1, <1>3, <2>1, <2>4, <3>1, <3>2 DEF Phased
  <2> QED BY <1>3, <2>2, <2>3, <2>4 DEF Does, Fails, Begins
<1>4. CASE P!InStream /\ ~a
  <2>1. Inside(a) /\ Doomed
    BY <1>4 DEF Phase, Inside
  <2>2. Refuses
    BY <2>1 DEF Does, Fails
  <2>3. Doomed' /\ P!InStream' /\ queue' = queue
    BY <2>1, <2>2 DEF Refuses, Holds, Doomed, P!InStream
  <2> QED BY <1>1, <2>1, <2>3 DEF Phased, Inside
<1> QED BY <1>2, <1>3, <1>4

(* The end of the stream is taken by the step that returns its event.      *)
LEMMA EndTaken ==
  ASSUME NEW a, Phase(a), Next, queue = <<"STREAM_END">>, simple_keys = << >>, queue' = << >>,
         Scan => Fetches, Parsing => Does
  PROVE  event' = "STREAM_END"
<1>1. queue' # queue
  OBVIOUS
<1>2. CASE Parsing
  <2>1. Head(queue) = "STREAM_END"
    OBVIOUS
  <2> QED BY <1>1, <1>2, <2>1 DEF Does, Fails, Moves, Takes, Begins, Stops, Leaves, Holds
<1>3. CASE Fetching
  <2>1. OpenInput
    BY <1>3 DEF Fetching, Fetches, Ready
  <2>2. queue' = << >> \o <<"STREAM_START">> \/ queue' = <<"STREAM_END">> \o <<"STREAM_START">>
    BY <2>1 DEF OpenInput
  <2> QED BY <2>2
<1>4. CASE HandOut \/ AppendInput
  BY <1>1, <1>4 DEF HandOut, AppendInput, P!AppendInput
<1>5. CASE NoInput
  BY <1>5, NoInputFails
<1> QED BY <1>2, <1>3, <1>4, <1>5 DEF Next, Step

-----------------------------------------------------------------------------
(***************************************************************************)
(* What is known of the scanner.                                           *)
(***************************************************************************)
SN == INSTANCE FyScanNest WITH out <- ParserOpen

(* The two agree on what is open, and at the end of the text no block is.  *)
Agrees == SN!NestInv /\ SN!Unrolled

(* What the module assumes of its constants.                               *)
LEMMA ScannerConstants ==
  /\ /\ MaxColumn \in Nat /\ MaxFlow \in Nat /\ MaxQueue \in Nat
     /\ Sloppy \in BOOLEAN
  /\ Chars \subseteq SN!AllChars
BY ScanBounds, CharsAssumption DEF AllChars, SN!AllChars

(* The definitions of FyScanner and TokenNesting mean the same there:      *)
(* those of the fetches that fail, and the others.                         *)
LEMMA ScanFailsIs == ScanFails => SN!ScanFails
BY Zenon DEF
   ScanFails, SN!ScanFails, FlowStartFails, SN!FlowStartFails, FlowEndFails,
   SN!FlowEndFails, FlowEntryFails, SN!FlowEntryFails, BlockEntryFails,
   SN!BlockEntryFails, ComplexKeyFails, SN!ComplexKeyFails, ValueFails,
   SN!ValueFails, PropertyFails, SN!PropertyFails, BlockScalarFails,
   SN!BlockScalarFails, ScalarFails, SN!ScalarFails, LexicalError, SN!LexicalError,
   Refuse, SN!Refuse, FailsWith, SN!FailsWith, TailRefused, SN!TailRefused,
   QueuedFails, SN!QueuedFails, ScalarToken, SN!ScalarToken, streamVars,
   SN!streamVars, contextVars, SN!contextVars, Fetches, SN!Fetches, Ready,
   SN!Ready, LeaveBlocks, SN!LeaveBlocks, flowing, SN!flowing, AgeFlows,
   SN!AgeFlows, pending, SN!pending, Last, SN!Last, NewLine, SN!NewLine, Unroll,
   SN!Unroll, Popped, SN!Popped, BlockEnds, SN!BlockEnds, NoText, SN!NoText,
   Follows, SN!Follows, LaterLine, SN!LaterLine, FlowIndicators, SN!FlowIndicators,
   Plains, SN!Plains, Markers, SN!Markers, SameLine, SN!SameLine, Spans, SN!Spans,
   Class, SN!Class, Anything, SN!Anything, Gaps, SN!Gaps, LineEnd, SN!LineEnd,
   Done, SN!Done, Fetch, SN!Fetch, LexemesOf, SN!LexemesOf, Columns, SN!Columns,
   levels, SN!levels, LineBreak, SN!LineBreak, SavePending, SN!SavePending,
   NoPending, SN!NoPending, WithPending, SN!WithPending, allowed, SN!allowed, Key,
   SN!Key, Indent, SN!Indent, Saved, SN!Saved, Reuses, SN!Reuses, Purged,
   SN!Purged, StaleLen, SN!StaleLen, PrefixLen, SN!PrefixLen, After, SN!After,
   tokens, SN!tokens, SaveFails, SN!SaveFails, PurgeFails, SN!PurgeFails,
   RequiredIn, SN!RequiredIn, keys, SN!keys, Age, SN!Age, FlowIndentOK,
   SN!FlowIndentOK, Colon, SN!Colon, Removed, SN!Removed, RemoveLen, SN!RemoveLen,
   RemoveFails, SN!RemoveFails, NoDash, SN!NoDash, Dash, SN!Dash, QueueKeyStart,
   SN!QueueKeyStart, Opened, SN!Opened, Opening, SN!Opening, UseKey, SN!UseKey,
   HasKey, SN!HasKey, FlowPop, SN!FlowPop, Front, SN!Front, FlowMatches,
   SN!FlowMatches, Closes, SN!Closes, Stuck, SN!Stuck, RemoveStuck, SN!RemoveStuck,
   SaveStuck, SN!SaveStuck, PendStuck, SN!PendStuck, FlowStartToken,
   SN!FlowStartToken, EndedKey, SN!EndedKey, Start, SN!Start, EntryIndentOK,
   SN!EntryIndentOK, KeyPlaceOK, SN!KeyPlaceOK, Misplaced, SN!Misplaced,
   JsonValueOK, SN!JsonValueOK, Failed, SN!Failed

(* A fetch of the scanner is one there.                                    *)
LEMMA ScanIs == Scan => SN!Scan
BY ScanFailsIs, Zenon DEF
   Scan, SN!Scan, FlowStart, SN!FlowStart, FlowEnd, SN!FlowEnd, FlowEntry,
   SN!FlowEntry, BlockEntry, SN!BlockEntry, ComplexKey, SN!ComplexKey, Value,
   SN!Value, AnchorOrAlias, SN!AnchorOrAlias, Tag, SN!Tag, BlockScalar,
   SN!BlockScalar, FlowScalar, SN!FlowScalar, PlainScalar, SN!PlainScalar,
   Directive, SN!Directive, DocumentIndicator, SN!DocumentIndicator, StreamEnd,
   SN!StreamEnd, streamVars, SN!streamVars, contextVars, SN!contextVars, Fetches,
   SN!Fetches, Ready, SN!Ready, LeaveBlocks, SN!LeaveBlocks, flowing, SN!flowing,
   AgeFlows, SN!AgeFlows, pending, SN!pending, Last, SN!Last, NewLine, SN!NewLine,
   Unroll, SN!Unroll, Popped, SN!Popped, BlockEnds, SN!BlockEnds, NoText,
   SN!NoText, Follows, SN!Follows, LaterLine, SN!LaterLine, FlowIndicators,
   SN!FlowIndicators, Plains, SN!Plains, Markers, SN!Markers, SameLine,
   SN!SameLine, Spans, SN!Spans, Class, SN!Class, Anything, SN!Anything, Gaps,
   SN!Gaps, LineEnd, SN!LineEnd, Done, SN!Done, Fetch, SN!Fetch, LexemesOf,
   SN!LexemesOf, Columns, SN!Columns, levels, SN!levels, LineBreak, SN!LineBreak,
   SavePending, SN!SavePending, NoPending, SN!NoPending, WithPending,
   SN!WithPending, allowed, SN!allowed, Key, SN!Key, Indent, SN!Indent, Saved,
   SN!Saved, Reuses, SN!Reuses, Purged, SN!Purged, StaleLen, SN!StaleLen,
   PrefixLen, SN!PrefixLen, After, SN!After, tokens, SN!tokens, SaveFails,
   SN!SaveFails, PurgeFails, SN!PurgeFails, RequiredIn, SN!RequiredIn, keys,
   SN!keys, Age, SN!Age, FlowIndentOK, SN!FlowIndentOK, Colon, SN!Colon, Removed,
   SN!Removed, RemoveLen, SN!RemoveLen, RemoveFails, SN!RemoveFails, NoDash,
   SN!NoDash, Dash, SN!Dash, QueueKeyStart, SN!QueueKeyStart, Opened, SN!Opened,
   Opening, SN!Opening, UseKey, SN!UseKey, HasKey, SN!HasKey, FlowPop, SN!FlowPop,
   Front, SN!Front, FlowMatches, SN!FlowMatches, Closes, SN!Closes, Stuck,
   SN!Stuck, RemoveStuck, SN!RemoveStuck, SaveStuck, SN!SaveStuck, PendStuck,
   SN!PendStuck, FlowStartToken, SN!FlowStartToken, EndedKey, SN!EndedKey, Start,
   SN!Start, EntryIndentOK, SN!EntryIndentOK, KeyPlaceOK, SN!KeyPlaceOK, Misplaced,
   SN!Misplaced, JsonValueOK, SN!JsonValueOK, Failed, SN!Failed

(* So is the next input.                                                   *)
LEMMA OpenInputIs == OpenInput => SN!OpenInput
BY Zenon DEF
   OpenInput, SN!OpenInput, LineBreak, SN!LineBreak, Anything, SN!Anything, Gaps,
   SN!Gaps, NoText, SN!NoText, Ready, SN!Ready, Restarts, SN!Restarts

(* So is the start.                                                        *)
LEMMA ScanInitIs == Init => SN!Init
BY Zenon DEF
   Init, SN!Init, Anything, SN!Anything, Gaps, SN!Gaps, NoText, SN!NoText, NoFlow,
   SN!NoFlow, NoPending, SN!NoPending, pending, SN!pending, flowing, SN!flowing,
   AgeFlows, SN!AgeFlows, NewLine, SN!NewLine, Last, SN!Last, NoIndent, SN!NoIndent

(* Tokens nest there as they do here.                                      *)
LEMMA NestingIs ==
  /\ \A s, t : SN!Nested(s, t) = Nested(s, t)
  /\ SN!NestedBy(ParserOpen, queue) = NestedBy(ParserOpen, queue)
  /\ SN!OpenIn(indents, flows) = OpenIn(indents, flows)
BY Zenon DEF
   NestedBy, SN!NestedBy, Nested, SN!Nested, Front, SN!Front, ClosedBy, SN!ClosedBy,
   Last, SN!Last, FlowEnds, SN!FlowEnds, OpenedBy, SN!OpenedBy, FlowStarts,
   SN!FlowStarts, BlockStarts, SN!BlockStarts, OpenIn, SN!OpenIn

(* The boundaries are the same.                                            *)
LEMMA BoundaryIs == SN!Boundary = Boundary
BY Zenon DEF Boundary, SN!Boundary, Directives, VersionDirectives, TagDirectives,
   DocumentMarkers, SN!Directives, SN!VersionDirectives, SN!TagDirectives,
   SN!DocumentMarkers

(* So are the empty lists.                                                 *)
LEMMA LevelsAre ==
  NoIndent = SN!NoIndent /\ NoFlow = SN!NoFlow /\ \A s : Last(s) = SN!Last(s)
BY Zenon DEF NoIndent, SN!NoIndent, NoFlow, SN!NoFlow, NoPending, SN!NoPending, Last, SN!Last

-----------------------------------------------------------------------------
(* The handlers of fy_fetch_tokens() keep its invariant, and agreement.    *)
LEMMA ScannerScans ==
  ASSUME SN!IInv, Scan
  PROVE  /\ SN!IInv' /\ Fetches
         /\ UNCHANGED <<stream_start_produced, stream_end_produced, inputs>>
         /\ Agrees /\ ParserOpen' = ParserOpen /\ ~stream_error' => Agrees'
BY ScanIs, ScannerConstants, SN!ScanStep, SN!ScanStream, SN!ScanNests, SN!EndUnrolls, Zenon
   DEF Agrees, Fetches, SN!Fetches, Ready, SN!Ready

(* The next input keeps the invariant.                                     *)
LEMMA ScannerOpens == ASSUME SN!IInv, OpenInput PROVE SN!IInv'
BY OpenInputIs, ScannerConstants, SN!OpenInputStep, Zenon

(* So does handing out a token; a STREAM_END is then alone in the queue.   *)
LEMMA ScannerHands ==
  ASSUME SN!IInv, HandOut
  PROVE  SN!IInv' /\ (Head(queue) = "STREAM_END" => queue = <<"STREAM_END">>)
<1>1. /\ SN!Ready /\ SN!Produces(Head(queue))
      /\ UNCHANGED <<queue, SN!contextVars, json, stream_end_reached, inputs,
                     stream_error, look, ahead>>
  BY DEF HandOut, Ready, SN!Ready, Produces, SN!Produces, contextVars, SN!contextVars
<1> QED BY <1>1, ScannerConstants, SN!ProduceStep, Zenon

(* A token that has been handed out.                                       *)
LEMMA ScannerWaits == ASSUME SN!IInv, Handed PROVE Waiting
<1>1. Head(queue) \in Boundary => queue = <<Head(queue)>>
  BY BoundaryIs, ScannerConstants, SN!BoundaryAtHead, Zenon DEF SN!IInv, Handed
<1> QED BY <1>1 DEF Waiting, Handed, Ready, SN!IInv, SN!StreamOK

(* The invariant survives whatever the parser does to the scanner.         *)
LEMMA ScannerAside ==
  ASSUME SN!IInv, ~stream_error, Waiting, KeepsScanner, stream_error' \in BOOLEAN
  PROVE  SN!IInv'
<1>1. /\ SN!LevelsOK(indents) /\ SN!FlowsOK(flows, flow_level) /\ last_was_comma \in BOOLEAN
      /\ flows \in Seq(SN!Brackets) /\ flows # << >>
  BY DEF SN!IInv, SN!StreamOK, SN!BracketsOK, SN!FlowsOK
<1>2. /\ SN!LevelsOK(<<NoIndent>>) /\ SN!FlowsOK(<<NoFlow>>, 0)
      /\ SN!FlowsOK(<<[flow |-> "none", pending |-> Last(flows).pending]>>, 0)
  BY <1>1, LevelsAre, ScannerConstants, SN!FreshLevels, Zenon
<1>3. /\ SN!LevelsOK(indents') /\ SN!FlowsOK(flows', flow_level')
      /\ last_was_comma' \in BOOLEAN /\ simple_keys = << >> /\ queue # << >>
  BY <1>1, <1>2, Zenon DEF KeepsScanner, Waiting
<1>4. SN!BracketsOK'
  BY <1>3, ScannerConstants, SN!FlowsNotEmpty DEF SN!BracketsOK
<1> QED BY <1>3, <1>4, ScannerConstants, SN!AsideStep, Zenon DEF KeepsScanner

(* It does not depend on what else there is.                               *)
LEMMA ScannerStill ==
  ASSUME SN!IInv, stream_error => stream_error', stream_error' \in BOOLEAN, inputs' \in Nat,
         UNCHANGED <<flagVars, current, simple_keys, indents, flows, last_was_comma>>,
         UNCHANGED <<queue, flow_level, json>>
  PROVE  SN!IInv'
BY DEF SN!IInv, SN!BracketsOK, SN!StreamOK, flagVars

(* Agreement depends on nothing else.                                      *)
LEMMA AgreesStill ==
  ASSUME Agrees, UNCHANGED <<ParserOpen, queue, simple_keys, indents, flows, flow_level,
                             look, stream_end_reached>>
  PROVE  Agrees'
BY DEF Agrees, SN!NestInv, SN!Unrolled

(* Agreement after a step of the parser.                                   *)
LEMMA AgreesInside ==
  ASSUME SN!IInv, Agrees, Waiting, Parsing, Moves \/ Takes
  PROVE  Agrees'
<1>1. UNCHANGED <<simple_keys, indents, flows, flow_level, look, stream_end_reached>>
  BY InsideKeeps
<1>2. CASE Moves
  BY <1>1, <1>2, AgreesStill DEF Moves, Holds
<1>3. CASE Takes
  <2>1. queue' = Tail(queue) /\ ParserOpen' = SN!Nested(ParserOpen, Head(queue))
    BY <1>3, NestingIs, Zenon DEF Takes, Drops
  <2>2. SN!NestInv'
    BY <1>1, <2>1, ScannerConstants, SN!TakenNests, Zenon DEF Agrees, Waiting
  <2> QED BY <1>1, <2>2 DEF Agrees, SN!Unrolled
<1> QED BY <1>2, <1>3

(* It survives the end of a document that a boundary follows.              *)
LEMMA AgreesLeaving ==
  ASSUME SN!IInv, ~stream_error, Agrees, Waiting, Parsing, Leaves, Head(queue) \in Boundary
  PROVE  Agrees'
<1>1. /\ UNCHANGED <<queue, simple_keys, indents, look, stream_end_reached>>
      /\ \E f : flows' = <<f>>
  BY LeaveKeeps, Zenon
<1>2. \E b \in SN!Boundary : queue = <<b>>
  BY BoundaryIs, Zenon DEF Waiting
<1>3. SN!NestInv' /\ Len(indents) = 1
  BY <1>1, <1>2, ScannerConstants, SN!ResetNests, SN!NothingAtBoundary, Zenon
     DEF Agrees, Leaves
<1> QED BY <1>1, <1>3 DEF Agrees, SN!Unrolled

(* It holds again at the beginning of a stream.                            *)
LEMMA AgreesBeginning ==
  ASSUME NEW a, Phase(a), Parsing, ~stream_error, Waiting, Begins
  PROVE  Agrees'
BY BeginClears, LevelsAre, ScannerConstants, SN!BeginNests, Zenon DEF Agrees, Begins

(* At the end of the text nothing is open, or a bracket.                   *)
LEMMA AgreesAtEnd ==
  ASSUME SN!IInv, ~stream_error, Agrees, queue = <<"STREAM_END">>
  PROVE  IF ParserOpen = << >> THEN flow_level = 0
         ELSE flow_level > 0 /\ Last(ParserOpen) \notin {"seq", "map"}
<1>1. "STREAM_END" \in SN!Boundary
  BY DEF SN!Boundary
<1> QED BY <1>1, LevelsAre, ScannerConstants, SN!NothingAtBoundary, SN!OpenAtEnd, Zenon
        DEF Agrees

(* What the properties of FyStream need.                                   *)
LEMMA ScannerImplies ==
  ASSUME SN!IInv
  PROVE  /\ FlowDepth /\ AheadWithinDocument
         /\ queue # << >> /\ Head(queue) = "STREAM_END" =>
              queue = <<"STREAM_END">> /\ simple_keys = << >>
<1>1. FlowDepth
  <2>1. ~stream_error => flow_level \in Nat /\ Len(flows) = flow_level + 1
    BY DEF SN!IInv, SN!BracketsOK, SN!FlowsOK
  <2> QED BY <2>1 DEF FlowDepth
<1>2. AheadWithinDocument
  <2> SUFFICES ASSUME Fetches, NEW i \in DOMAIN queue PROVE queue[i] \notin Boundary
    BY DEF AheadWithinDocument, Boundary
  <2>1. queue \in Seq(SN!Body)
    BY ScannerConstants, SN!FetchesBody, Zenon DEF Fetches, SN!Fetches, Ready, SN!Ready
  <2>2. queue[i] \notin SN!Boundary
    BY <2>1 DEF SN!Body
  <2> QED BY <2>2, BoundaryIs
<1>3. ASSUME queue # << >>, Head(queue) = "STREAM_END"
      PROVE  queue = <<"STREAM_END">> /\ simple_keys = << >>
  BY <1>3, ScannerConstants, SN!BoundaryAtHead, Zenon DEF SN!IInv, SN!Boundary
<1> QED BY <1>1, <1>2, <1>3

(* Agreement is what StacksAgree says.                                     *)
LEMMA AgreesMeans ==
  ASSUME Agrees, ~stream_error PROVE NestedBy(ParserOpen, queue) = OpenIn(indents, flows)
BY NestingIs, ScannerConstants, SN!NestBalanced, Zenon DEF Agrees, SN!Balanced

-----------------------------------------------------------------------------
(***************************************************************************)
(* What is known of the parser.                                            *)
(***************************************************************************)
PP == INSTANCE FyParserProofs WITH Supply <- {}, MaxDepth <- 0,
                                   stream <- IF current THEN "open" ELSE "closed"

(* The inductive invariant.                                                *)
SInv == SN!IInv /\ PP!IInv /\ PP!PointOK /\ Phase(Agrees)

(* What the module assumes of its constants.                               *)
LEMMA ParserConstants == 0 \in Nat /\ MaxInputs \in Nat \ {0} /\ {} \subseteq PP!BodyTokens
BY InputsAssumption

(* The definitions of FyParser and TokenNesting mean the same there.       *)
LEMMA ParseIs == P!Parse => PP!Parse
BY Zenon DEF
   P!Parse, PP!Parse, P!Flow, PP!Flow, P!FlowMappingEmptyValue,
   PP!FlowMappingEmptyValue, P!EmptyScalar, PP!EmptyScalar, P!Plain, PP!Plain,
   P!KeepStreamEnd, PP!KeepStreamEnd, P!tok, PP!tok, P!Starting, PP!Starting,
   P!DocUnchanged, PP!DocUnchanged, P!Keep, PP!Keep, P!scannerVars, PP!scannerVars,
   P!Return, PP!Return, P!NoCall, PP!NoCall, P!SetState, PP!SetState, P!Idle, PP!Idle,
   P!At, PP!At, P!FlowMappingValueNode, PP!FlowMappingValueNode, P!EnterNode,
   PP!EnterNode, P!NodeCall, PP!NodeCall, P!Continue, PP!Continue, P!Push, PP!Push,
   P!EmptyUnlessJson, PP!EmptyUnlessJson, P!Fail, PP!Fail, P!Failed, PP!Failed,
   P!FlowMappingValue, PP!FlowMappingValue, P!Advance, PP!Advance, P!Goto, PP!Goto,
   P!Consume, PP!Consume, P!FlowMappingKeyNode, PP!FlowMappingKeyNode,
   P!FlowMappingEntry, PP!FlowMappingEntry, P!FlowMappingItem, PP!FlowMappingItem,
   P!EndCollection, PP!EndCollection, P!PopState, PP!PopState, P!Front, PP!Front,
   P!Last, PP!Last, P!FlowMapping, PP!FlowMapping, P!FlowSequencePairEnd,
   PP!FlowSequencePairEnd, P!FlowSequencePairValueNode, PP!FlowSequencePairValueNode,
   P!FlowSequencePairValue, PP!FlowSequencePairValue, P!FlowSequencePairKey,
   PP!FlowSequencePairKey, P!FlowSequenceEntry, PP!FlowSequenceEntry,
   P!FlowSequenceItem, PP!FlowSequenceItem, P!FlowSequence, PP!FlowSequence, P!Block,
   PP!Block, P!BlockMappingValueNode, PP!BlockMappingValueNode, P!BlockMappingValue,
   PP!BlockMappingValue, P!BlockMappingKeyNode, PP!BlockMappingKeyNode,
   P!BlockMappingKey, PP!BlockMappingKey, P!BlockSequenceEntry, PP!BlockSequenceEntry,
   P!EntryHasNode, PP!EntryHasNode, P!BlockSequence, PP!BlockSequence,
   P!SeqEntryStates, PP!SeqEntryStates, P!Node, PP!Node, P!NodeEmpty, PP!NodeEmpty,
   P!HasProperty, PP!HasProperty, P!Openers, PP!Openers, P!BlockStarts,
   PP!BlockStarts, P!FlowStarts, PP!FlowStarts, P!Scalars, PP!Scalars,
   P!IndentlessStart, PP!IndentlessStart, P!HandleBound, PP!HandleBound,
   P!DefaultHandles, PP!DefaultHandles, P!HandleOf, PP!HandleOf, P!Content,
   PP!Content, P!Tags, PP!Tags, P!NodeCollection, PP!NodeCollection, P!Opens,
   PP!Opens, P!NodeScalar, PP!NodeScalar, P!NodeIndentless, PP!NodeIndentless,
   P!NodeBadTag, PP!NodeBadTag, P!NodeProperty, PP!NodeProperty, P!NodeAlias,
   PP!NodeAlias, P!Document, PP!Document, P!DocumentContent, PP!DocumentContent,
   P!DocumentMarkers, PP!DocumentMarkers, P!Directives, PP!Directives,
   P!TagDirectives, PP!TagDirectives, P!VersionDirectives, PP!VersionDirectives,
   P!NodeStates, PP!NodeStates, P!SingleDocumentEnd, PP!SingleDocumentEnd,
   P!EndStream, PP!EndStream, P!DocumentEnd, PP!DocumentEnd, P!DefaultDocumentState,
   PP!DefaultDocumentState, P!DocumentStart, PP!DocumentStart,
   P!DocumentStartStreamEnd, PP!DocumentStartStreamEnd, P!TagDirective,
   PP!TagDirective, P!DirectiveTaken, PP!DirectiveTaken, P!DirectiveRefused,
   PP!DirectiveRefused, P!VersionDirective, PP!VersionDirective,
   P!DocumentStartSkipEnd, PP!DocumentStartSkipEnd, P!DocumentStartEnter,
   PP!DocumentStartEnter, P!StreamStart, PP!StreamStart

(* A queued input is one there.                                            *)
LEMMA AppendInputIs == P!AppendInput => PP!AppendInput
BY Zenon DEF
   P!AppendInput, PP!AppendInput, P!ParserIdle, PP!ParserIdle, P!Between, PP!Between

(* So is the start.                                                        *)
LEMMA ParseInitIs == P!Init => PP!Init
BY Zenon DEF
   P!Init, PP!Init, P!NoCall, PP!NoCall, P!DefaultDocumentState, PP!DefaultDocumentState

(* What is open there is what is open here.                                *)
LEMMA OpenIs ==
  /\ PP!Opened = ParserOpen /\ PP!Opened' = ParserOpen'
  /\ \A s, t : PP!Nested(s, t) = Nested(s, t)
BY Zenon DEF ParserOpen, PP!Opened,
   OpenStates, PP!OpenStates, Kind, PP!Kind, FlattenSeq, PP!FlattenSeq,
   PP!Nested, Nested, PP!Front, Front, PP!ClosedBy, ClosedBy, PP!Last, Last, PP!FlowEnds,
   FlowEnds, PP!OpenedBy, OpenedBy, PP!FlowStarts, FlowStarts, PP!BlockStarts, BlockStarts

(* The tokens are the same.                                                *)
LEMMA TokensAre == SN!Tokens = PP!Tokens
BY Zenon DEF
   SN!Tokens, PP!Tokens, SN!BodyTokens, PP!BodyTokens, SN!DocumentMarkers,
   PP!DocumentMarkers, SN!BlockStarts, PP!BlockStarts, SN!FlowEnds, PP!FlowEnds,
   SN!FlowStarts, PP!FlowStarts, SN!Scalars, PP!Scalars, SN!Tags, PP!Tags,
   SN!Directives, PP!Directives, SN!TagDirectives, PP!TagDirectives,
   SN!VersionDirectives, PP!VersionDirectives

-----------------------------------------------------------------------------
(* The scanner sees the parser as it was.                                  *)
LEMMA PeekStep ==
  ASSUME PP!IInv, PP!PointOK, InPeek, SN!IInv', inputs' \in 0 .. MaxInputs
  PROVE  /\ PP!IInv' /\ PP!PointOK' /\ PP!Shows /\ ParserOpen' = ParserOpen
         /\ call'.had_doc_end = call.had_doc_end /\ state' = state
<1>1. PP!Silent /\ PP!ParserIdle /\ state' = state
  BY DEF InPeek, P!Silent, PP!Silent, P!ParserIdle, PP!ParserIdle
<1>2. PP!ScannerOK' /\ stream_error' \in BOOLEAN
  BY TokensAre DEF SN!IInv, SN!QueueOK, SN!BracketsOK, SN!StreamOK, PP!ScannerOK
<1> QED BY <1>1, <1>2, OpenIs, ParserConstants, PP!PeekKeeps, Zenon

(* fy_parse_internal() up to its next peek.                                *)
LEMMA ParserDoes ==
  ASSUME SInv, Parsing
  PROVE  /\ PP!IInv' /\ PP!PointOK' /\ PP!Shows
         /\ ~stream_error /\ stream_error' \in BOOLEAN /\ Waiting /\ Does
<1>1. PP!IInv /\ PP!PointOK /\ PP!Parse /\ Phase(Agrees) /\ SN!IInv
  BY ParseIs DEF SInv, Parsing
<1>2. PP!IInv' /\ PP!PointOK' /\ PP!Shows /\ ~stream_error
  BY <1>1, ParserConstants, PP!ParseKeeps, PP!ParseRuns, Zenon
<1>3. stream_error' \in BOOLEAN
  BY <1>2 DEF PP!IInv, PP!Typed
<1>4. Waiting
  BY <1>1, ScannerWaits DEF Parsing
<1>5. PP!EndOK
  <2> SUFFICES ASSUME Head(queue) = "STREAM_END", ParserOpen # << >>
               PROVE  flow_level > 0 /\ Last(ParserOpen) \notin {"seq", "map"}
    BY OpenIs DEF PP!EndOK, PP!tok, PP!Last, Last
  <2>1. queue = <<"STREAM_END">> /\ Agrees
    BY <1>1, <1>2, <1>4 DEF Waiting, Boundary, Phase, Outside, Inside, Doomed
  <2> QED BY <1>1, <1>2, <2>1, AgreesAtEnd
<1>6. /\ PP!Takes \/ PP!StreamBegins \/ PP!StreamStops \/ PP!DocumentStops
  BY <1>1, <1>5, ParserConstants, PP!ParseTakes, Zenon
<1>7. /\ PP!Keep => Holds
      /\ PP!Consume => Drops
      /\ PP!Dies => Fails
  BY DEF PP!Keep, PP!Consume, PP!Dies, PP!tok, PP!scannerVars, Holds, Drops, Fails
<1>8. PP!Takes => Fails \/ Moves \/ Takes
  BY <1>7, OpenIs, Zenon DEF PP!Takes, PP!tok, PP!Quiet, PP!InStream, P!InStream, Inner,
     Moves, Takes
<1>9. /\ PP!StreamBegins => Begins
      /\ PP!StreamStops => Stops
      /\ PP!DocumentStops => Leaves
  BY <1>7, OpenIs DEF PP!StreamBegins, PP!StreamStops, PP!DocumentStops, PP!InStream, PP!tok,
     P!InStream, Begins, Stops, Leaves
<1>10. Doomed => Fails \/ Refuses
  <2> SUFFICES ASSUME Doomed PROVE Fails \/ Refuses
    OBVIOUS
  <2>1. PP!tok \notin PP!Directives \cup PP!DocumentMarkers \cup {"STREAM_END"}
    BY Zenon DEF Doomed, PP!tok, Directives, PP!Directives, VersionDirectives, TagDirectives,
       PP!VersionDirectives, PP!TagDirectives, DocumentMarkers, PP!DocumentMarkers
  <2> QED BY <1>1, <1>7, <2>1, ParserConstants, PP!Refuses, Zenon DEF Doomed, Refuses
<1> QED BY <1>2, <1>3, <1>4, <1>6, <1>8, <1>9, <1>10 DEF Does

-----------------------------------------------------------------------------
(* Every step keeps the invariant, and shows a step of EventStream.        *)

(* Phased is Phase after the step.                                         *)
LEMMA PhaseAgain == Phased(Agrees') <=> Phase(Agrees)'
BY DEF Phased, Phase, Inside

(* The scanner at work.                                                    *)
LEMMA FetchingStep == ASSUME SInv, Fetching PROVE SInv' /\ PP!Shows
<1>1. InPeek /\ SN!IInv /\ PP!IInv /\ PP!PointOK /\ Phase(Agrees) /\ inputs \in 0 .. MaxInputs
  BY DEF SInv, Fetching, PP!IInv, PP!Typed
<1>2. CASE Scan
  <2>1. /\ SN!IInv' /\ Fetches
        /\ UNCHANGED <<stream_start_produced, stream_end_produced, inputs>>
        /\ Agrees /\ ParserOpen' = ParserOpen /\ ~stream_error' => Agrees'
    BY <1>1, <1>2, ScannerScans
  <2>2. /\ PP!IInv' /\ PP!PointOK' /\ PP!Shows /\ ParserOpen' = ParserOpen /\ state' = state
    BY <1>1, <2>1, PeekStep
  <2>3. Phase(Agrees)'
    BY <1>1, <2>1, <2>2, ScanPhase, PhaseAgain, Zenon
  <2> QED BY <2>1, <2>2, <2>3 DEF SInv
<1>3. CASE OpenInput
  <2>1. SN!IInv' /\ Phase(Agrees)' /\ inputs' \in 0 .. MaxInputs
    BY <1>1, <1>3, ScannerOpens, OpenInputPhase, PhaseAgain, Zenon
  <2>2. PP!IInv' /\ PP!PointOK' /\ PP!Shows
    BY <1>1, <2>1, PeekStep
  <2> QED BY <2>1, <2>2 DEF SInv
<1> QED BY <1>2, <1>3 DEF Fetching

(* A token is handed out.                                                  *)
LEMMA HandOutStep == ASSUME SInv, HandOut PROVE SInv' /\ PP!Shows
<1>1. /\ SN!IInv /\ PP!IInv /\ PP!PointOK /\ Phase(Agrees) /\ InPeek
      /\ inputs' \in 0 .. MaxInputs
      /\ UNCHANGED <<queue, simple_keys, indents, flows, flow_level, look, stream_end_reached>>
  BY DEF SInv, HandOut, PP!IInv, PP!Typed, contextVars
<1>2. SN!IInv' /\ (Head(queue) = "STREAM_END" => queue = <<"STREAM_END">>)
  BY <1>1, ScannerHands
<1>3. /\ PP!IInv' /\ PP!PointOK' /\ PP!Shows /\ ParserOpen' = ParserOpen
      /\ call'.had_doc_end = call.had_doc_end
  BY <1>1, <1>2, PeekStep
<1>4. Agrees => Agrees'
  BY <1>1, <1>3, AgreesStill
<1>5. Phase(Agrees)'
  BY <1>1, <1>2, <1>3, <1>4, HandOutPhase, PhaseAgain, Zenon
<1> QED BY <1>2, <1>3, <1>5 DEF SInv

(* The parser at work.                                                     *)
LEMMA ParsingStep == ASSUME SInv, Parsing PROVE SInv' /\ PP!Shows
<1>1. /\ PP!IInv' /\ PP!PointOK' /\ PP!Shows
      /\ ~stream_error /\ stream_error' \in BOOLEAN /\ Waiting /\ Does
  BY ParserDoes
<1>2. SN!IInv /\ Phase(Agrees)
  BY DEF SInv
<1>3. SN!IInv'
  BY <1>1, <1>2, ParseKeepsScanner, ScannerAside, Zenon
<1>4. Agrees /\ Stops => flow_level = 0
  BY <1>1, <1>2, AgreesAtEnd DEF Stops, Waiting, Boundary
<1>5. Phase(Agrees)'
  BY <1>1, <1>2, <1>4, AgreesInside, AgreesLeaving, AgreesBeginning, ParsePhase, PhaseAgain,
     Zenon
<1> QED BY <1>1, <1>3, <1>5 DEF SInv

(* No input is left.                                                       *)
LEMMA NoInputStep == ASSUME SInv, NoInput PROVE SInv' /\ PP!Shows
<1>1. /\ stream_error' = TRUE /\ InPeek /\ UNCHANGED <<queue, flow_level, json, inputs>>
      /\ UNCHANGED <<flagVars, current, simple_keys, indents, flows, last_was_comma>>
  BY NoInputFails DEF SInv
<1>2. SN!IInv'
  BY <1>1, ScannerStill DEF SInv, SN!IInv, SN!StreamOK
<1>3. PP!IInv' /\ PP!PointOK' /\ PP!Shows
  BY <1>1, <1>2, PeekStep DEF SInv, PP!IInv, PP!Typed
<1> QED BY <1>1, <1>2, <1>3 DEF SInv, Phase

(* Between two steps, and when an input is appended.                       *)
LEMMA SameStep ==
  ASSUME SN!IInv, Phase(Agrees), inputs' \in Nat,
         UNCHANGED <<flagVars, current, simple_keys, indents, flows, last_was_comma>>,
         UNCHANGED <<queue, flow_level, json, state, state_stack, stream_error, call>>
  PROVE  SN!IInv' /\ Phase(Agrees)'
<1>1. SN!IInv'
  BY ScannerStill DEF SN!IInv, SN!StreamOK
<1>2. ParserOpen' = ParserOpen
  BY DEF ParserOpen
<1>3. Agrees => Agrees'
  BY <1>2, AgreesStill DEF flagVars
<1>4. Phase(Agrees)'
  BY <1>3, SamePhase, PhaseAgain, Zenon DEF flagVars
<1> QED BY <1>1, <1>4

(* fy_parse_input_append()                                                 *)
LEMMA AppendStep == ASSUME SInv, AppendInput PROVE SInv' /\ PP!Shows
<1>1. PP!IInv /\ PP!PointOK /\ PP!API
  BY AppendInputIs DEF SInv, AppendInput, PP!API
<1>2. PP!IInv' /\ PP!PointOK' /\ PP!Shows
  BY <1>1, ParserConstants, PP!OtherSteps, PP!OtherShows, Zenon
<1>3. SN!IInv' /\ Phase(Agrees)'
  BY <1>2, SameStep DEF SInv, AppendInput, P!AppendInput, P!ParserIdle, PP!IInv, PP!Typed
<1> QED BY <1>2, <1>3 DEF SInv

(* Every step.                                                             *)
LEMMA StepSInv == ASSUME SInv, Next PROVE SInv' /\ PP!Shows
BY FetchingStep, HandOutStep, ParsingStep, NoInputStep, AppendStep DEF Next, Step

(* fy_parse_setup()                                                        *)
LEMMA InitSInv == StreamInit => SInv
<1> SUFFICES ASSUME StreamInit PROVE SInv
  OBVIOUS
<1>1. SN!Init /\ PP!Init /\ inputs \in Nat
  BY ScanInitIs, ParseInitIs DEF StreamInit, P!Init
<1>2. SN!IInv /\ PP!IInv
  BY <1>1, ScannerConstants, SN!SetupInv, ParserConstants, PP!InitIInv, Zenon
<1>3. PP!PointOK
  BY <1>1 DEF PP!Init, PP!NoCall, PP!PointOK, PP!PointsIn
<1> QED BY <1>2, <1>3, InitPhase DEF SInv

(* So it holds in every state of every behaviour.                          *)
LEMMA Invariant == Spec => []SInv
<1>1. SInv /\ UNCHANGED vars => SInv'
  <2> SUFFICES ASSUME SInv, UNCHANGED vars PROVE SInv'
    OBVIOUS
  <2>1. /\ UNCHANGED <<flagVars, current, simple_keys, indents, flows, last_was_comma>>
        /\ UNCHANGED <<queue, flow_level, json, state, state_stack, stream_error, call>>
        /\ UNCHANGED <<inputs, fyds, stream_end_token, stream_has_content,
                       next_single_document, event>>
    BY DEF vars, scanVars, contextVars, streamVars, flagVars
  <2>2. PP!IInv' /\ PP!PointOK'
    BY <2>1 DEF SInv, PP!IInv, PP!Typed, PP!StackDiscipline, PP!CallDiscipline, PP!PointOK
  <2>3. SN!IInv' /\ Phase(Agrees)'
    BY <2>1, SameStep DEF SInv, SN!IInv, SN!StreamOK
  <2> QED BY <2>2, <2>3 DEF SInv
<1>2. SInv /\ [Next]_vars => SInv'
  BY <1>1, StepSInv
<1> QED BY <1>2, InitSInv, PTL DEF Spec

-----------------------------------------------------------------------------
(* For every text, however deep it nests and over any number of documents  *)
(* and inputs: in a stream without an error, what the parser's state stack *)
(* says is open, carried on by the tokens still queued, is what the        *)
(* scanner's indents and brackets say.  fy_reset_document_state() clears   *)
(* the scanner's brackets only where there are none, or where the document *)
(* that has begun is refused.                                              *)
THEOREM StreamStacksAgree == Spec => []StacksAgree
<1>1. SInv => StacksAgree
  BY AgreesMeans DEF SInv, Phase, Inside, StacksAgree
<1> QED BY <1>1, Invariant, PTL

(* Until an error the flow level is the depth of the flow stack, although  *)
(* only one of the two is cleared at the start of a stream.                *)
THEOREM StreamFlowDepth == Spec => []FlowDepth
<1>1. SInv => FlowDepth
  BY ScannerImplies DEF SInv
<1> QED BY <1>1, Invariant, PTL

(* The scanner never fetches past a directive, a document marker or an end *)
(* of the stream that the parser has not seen.                             *)
THEOREM StreamAheadWithinDocument == Spec => []AheadWithinDocument
<1>1. SInv => AheadWithinDocument
  BY ScannerImplies DEF SInv
<1> QED BY <1>1, Invariant, PTL

(* Whoever removes STREAM_END from the queue returns the event: no block   *)
(* mapping, and no error, swallows it.                                     *)
THEOREM StreamEndIsDelivered == Spec => StreamEndDelivered
<1>1. SInv /\ [Next]_vars =>
        [queue # << >> /\ Head(queue) = "STREAM_END" /\ queue' = Tail(queue)
           => event' = "STREAM_END"]_vars
  <2> SUFFICES ASSUME SInv, Next, queue # << >>, Head(queue) = "STREAM_END",
                      queue' = Tail(queue)
               PROVE  event' = "STREAM_END"
    OBVIOUS
  <2>1. SN!IInv /\ Phase(Agrees)
    BY DEF SInv
  <2>2. queue = <<"STREAM_END">> /\ simple_keys = << >>
    BY <2>1, ScannerImplies
  <2>3. queue' = << >>
    BY <2>2
  <2>4. (Scan => Fetches) /\ (Parsing => Does)
    BY <2>1, ScannerScans, ParserDoes
  <2> QED BY <2>1, <2>2, <2>3, <2>4, EndTaken
<1> QED BY <1>1, Invariant, PTL DEF Spec, StreamEndDelivered

=============================================================================
