----------------------------- MODULE FyEmitter -----------------------------
(***************************************************************************)
(* The streaming emitter of fy-emit.c.  fy_emit_event() queues an event    *)
(* and acts on queued events for as long as it has seen enough of what     *)
(* follows them; a stack of states and a stack of layout contexts follow   *)
(* the nesting.  fy_emit_document(), the other way to drive an emitter,    *)
(* is one action that shares the document markers with it.                 *)
(*                                                                         *)
(* What is written is reduced to what decides its structure: whether a     *)
(* collection is written with brackets, the indentation of its items, and  *)
(* the markers around a document.  Scalars, tags, comments, line breaks    *)
(* and the "? " of a complex key are left out.                             *)
(*                                                                         *)
(* An event is its type and a mark: "flow" for a collection whose token is *)
(* a flow one; for a document "implicit", "explicit" or, at its start,     *)
(* "directives".  The marks of a document are those of its state, not of   *)
(* the events: the parser sets end_implicit of the state when it makes     *)
(* DOCUMENT_END, and fy_event_create() sets it to false when it makes      *)
(* DOCUMENT_START, so an end submitted as implicit is then an explicit     *)
(* one.                                                                    *)
(***************************************************************************)
EXTENDS FyTypes, Integers, FiniteSets, Lists

CONSTANTS Modes,        \* the FYECF_MODE_* the emitter may be configured with
          StartMark,    \* FYECF_DOC_START_MARK_*
          EndMark,      \* FYECF_DOC_END_MARK_*
          IndentWidth,  \* fy_emit_indent()
          MaxDepth,     \* bound on the nesting of the submitted events
          MaxDocs,      \* bound on the documents of a run
          MaxStrays     \* bound on the events submitted out of order

ASSUME EmitterAssumption ==
  /\ Modes \subseteq {"ORIGINAL", "BLOCK", "DEJSON", "FLOW", "FLOW_ONELINE",
                      "JSON", "JSON_ONELINE"}
  /\ StartMark \in {"AUTO", "OFF", "ON"} /\ EndMark \in {"AUTO", "OFF", "ON"}
  /\ IndentWidth \in 1..9 /\ MaxDepth \in Nat /\ MaxDocs \in Nat
  /\ MaxStrays \in Nat

VARIABLES
  mode,
  state, state_stack,   \* FYES_* and the states to return to
  s_indent,             \* the indentation the next node starts from
  s_sc, sc_stack,       \* the context of the innermost collection, the others
  flow_level,
  queued_events,
  fyds,                 \* the document being written, or NoDocument
  had,                  \* FYEF_HAD_DOCUMENT_{END,OUTPUT}, as a set
  calling,              \* fy_emit_event() has not returned yet
  failed,               \* the last call returned -1
  event,                \* the event acted on in this step
  fed, nest,            \* the caller: the event it submits, what it has open
  docs,                 \* documents the caller has started
  explicit,             \* ... and how the last one ended
  strays,               \* ... and the events it submitted out of order
  written               \* the last thing written: nothing, a marker, content, or
                        \* content right after content ("joined", for good)

emitterVars == <<state, state_stack, s_indent, s_sc, sc_stack, flow_level,
                 fyds, had>>
callerVars  == <<fed, nest, docs, explicit, strays>>
vars == <<mode, emitterVars, queued_events, calling, failed, event, callerVars,
          written>>

States == {"NONE", "STREAM_START", "FIRST_DOCUMENT_START", "DOCUMENT_START",
           "DOCUMENT_CONTENT", "DOCUMENT_END", "SEQUENCE_FIRST_ITEM",
           "SEQUENCE_ITEM", "MAPPING_FIRST_KEY", "MAPPING_KEY",
           "MAPPING_VALUE", "END"}

NoDocument == "none"
NoContext  == [kind |-> "none", flow |-> FALSE, flags |-> FALSE, empty |-> FALSE,
               flow_token |-> FALSE, indent |-> 0, s_indent |-> 0]

Starts == {"STREAM_START", "DOCUMENT_START", "SEQUENCE_START", "MAPPING_START"}
Ends   == {"STREAM_END", "DOCUMENT_END", "SEQUENCE_END", "MAPPING_END"}

JsonMode    == mode \in {"JSON", "JSON_ONELINE"}
FlowMode    == mode \in {"FLOW", "FLOW_ONELINE"}
BlockMode   == mode \in {"BLOCK", "DEJSON"}
OneLineMode == mode \in {"FLOW_ONELINE", "JSON_ONELINE"}

(***************************************************************************)
(* The queue: how many events must follow its head, or close what it       *)
(* opened, before the head can be acted on.                                *)
(***************************************************************************)
Need(type) == CASE type = "DOCUMENT_START" -> 1
                [] type = "SEQUENCE_START" -> 2
                [] type = "MAPPING_START"  -> 3
                [] OTHER                   -> 0

Level(q, k) == Cardinality({i \in 1..k : q[i].type \in Starts})
                 - Cardinality({i \in 1..k : q[i].type \in Ends})

Ready_IgnoresEnds(q) ==
  /\ q # << >>
  /\ \/ Need(Head(q).type) = 0
     \/ Len(q) > Need(Head(q).type)

Ready(q) ==
  /\ q # << >>
  /\ \/ Need(Head(q).type) = 0
     \/ Len(q) > Need(Head(q).type)
     \/ \E k \in 1..Len(q) : Level(q, k) = 0

(* fy_emit_streaming_{sequence,mapping}_empty(): nothing to peek at, or    *)
(* the end of the collection.                                              *)
StreamingEmpty(q, end) == ~Ready(q) \/ Head(q).type = end

(***************************************************************************)
(* The layout of a collection.                                             *)
(***************************************************************************)
IncreaseIndent(flow, indent) ==
  IF indent < 0 THEN IF flow THEN IndentWidth ELSE 0
                ELSE indent + IndentWidth

(* Does the prolog write an opening bracket, and the epilog a closing one? *)
Bracketed(sc) == sc.flow \/ JsonMode

FlowLayout(sc) ==
  IF BlockMode THEN sc.empty
               ELSE FlowMode \/ flow_level > 0 \/ sc.flow_token \/ sc.empty

(* fy_emit_{sequence,mapping}_prolog()                                     *)
Prolog(sc) ==
  LET flow    == IF JsonMode THEN sc.flow ELSE FlowLayout(sc)
      outer   == IF ~JsonMode /\ flow /\ flow_level = 0
                 THEN IncreaseIndent(FALSE, sc.indent) ELSE sc.indent
      flags   == flow \/ JsonMode
      deepens == ~OneLineMode /\ ~(sc.kind = "map" /\ sc.empty)
  IN  [sc EXCEPT !.flow = flow, !.flags = flags,
                 !.indent = IF deepens THEN IncreaseIndent(flags, outer)
                                       ELSE outer]

(***************************************************************************)
(* A node.  flags is the FLOW flag of the context it is written in, indent *)
(* the indentation it starts from, rest the queue behind its event.        *)
(***************************************************************************)
PopState(stack) == IF stack = << >> THEN "NONE" ELSE Last(stack)
Pop(stack)      == IF stack = << >> THEN << >> ELSE Front(stack)

LeafNode_KeepsState(stack) ==
  /\ state' = PopState(stack)
  /\ state_stack' = stack
  /\ UNCHANGED <<s_sc, sc_stack, flow_level>>

LeafNode(stack) ==
  /\ state' = PopState(stack)
  /\ state_stack' = Pop(stack)
  /\ UNCHANGED <<s_sc, sc_stack, flow_level>>

CollectionNode(e, stack, flags, indent, rest) ==
  LET seq == e.type = "SEQUENCE_START"
      sc  == Prolog([kind |-> IF seq THEN "seq" ELSE "map",
                     flow |-> flags, flags |-> FALSE,
                     empty |-> StreamingEmpty(rest, IF seq THEN "SEQUENCE_END"
                                                           ELSE "MAPPING_END"),
                     flow_token |-> e.mark = "flow",
                     indent |-> indent, s_indent |-> indent])
  IN  /\ sc_stack' = Append(sc_stack, s_sc)
      /\ s_sc' = sc
      /\ s_indent' = sc.indent
      /\ flow_level' = flow_level + (IF Bracketed(sc) THEN 1 ELSE 0)
      /\ state' = IF seq THEN "SEQUENCE_FIRST_ITEM" ELSE "MAPPING_FIRST_KEY"
      /\ state_stack' = stack

(* fy_emit_streaming_node() for one of NodeEvents; UNCHANGED of what the   *)
(* document has is left to the callers.                                    *)
StreamingNode(e, stack, flags, indent, rest) ==
  \/ /\ e.type \in {"SCALAR", "ALIAS"}
     /\ LeafNode(stack)
     /\ s_indent' = indent
  \/ /\ e.type \in {"SEQUENCE_START", "MAPPING_START"}
     /\ CollectionNode(e, stack, flags, indent, rest)

(* The end of a collection: the context of the enclosing one comes back,   *)
(* and with it the indentation that one was started with.                  *)
EndCollection ==
  /\ flow_level' = flow_level - (IF Bracketed(s_sc) THEN 1 ELSE 0)
  /\ s_sc' = Last(sc_stack)
  /\ sc_stack' = Front(sc_stack)
  /\ s_indent' = s_sc'.s_indent
  /\ state' = PopState(state_stack)
  /\ state_stack' = Pop(state_stack)

(***************************************************************************)
(* The handlers of fy_emit_event(), for the head e of the queue.           *)
(***************************************************************************)
Reset ==
  /\ state_stack' = << >> /\ sc_stack' = << >>
  /\ flow_level' = 0
  /\ s_indent' = -1
  /\ had' = {"END"}
  /\ UNCHANGED s_sc

HandleStreamStart(e) ==
  /\ state = "STREAM_START"
  /\ e.type = "STREAM_START"
  /\ Reset
  /\ state' = "FIRST_DOCUMENT_START"
  /\ UNCHANGED <<fyds, written>>

Marked(w)       == IF w = "joined" THEN w ELSE "marker"
WithContent(w)  == IF w \in {"content", "joined"} THEN "joined" ELSE "content"

(* fy_emit_common_document_start(): the marker before the content, and     *)
(* what is left of the flags once the directives are out.                  *)
HadAfterDirectives(start) == IF ~JsonMode /\ start = "directives" THEN {} ELSE had

StartMarker_IfDirectives(start) ==
  /\ ~JsonMode
  /\ \/ StartMark = "ON"
     \/ StartMark = "AUTO" /\ start = "directives"
     \/ LET h == HadAfterDirectives(start) IN "OUTPUT" \in h /\ "END" \notin h

StartMarker(start) ==
  /\ ~JsonMode
  /\ \/ StartMark = "ON"
     \/ StartMark = "AUTO" /\ start # "implicit"
     \/ LET h == HadAfterDirectives(start) IN "OUTPUT" \in h /\ "END" \notin h

(* An end marker goes before directives that do not follow one.            *)
AfterStart(start) ==
  IF \/ StartMarker(start)
     \/ ~JsonMode /\ start = "directives" /\ "END" \notin had
  THEN Marked(written) ELSE written

HandleDocumentStart(e) ==
  /\ state \in {"FIRST_DOCUMENT_START", "DOCUMENT_START"}
  /\ UNCHANGED <<state_stack, s_indent, s_sc, sc_stack, flow_level>>
  /\ \/ /\ e.type = "STREAM_END"
        /\ state' = "END"
        /\ UNCHANGED <<fyds, had, written>>
     \/ /\ e.type = "DOCUMENT_START"
        /\ fyds' = e.mark
        /\ had' = HadAfterDirectives(e.mark) \ {"END"}
        /\ written' = AfterStart(e.mark)
        /\ state' = "DOCUMENT_CONTENT"

HandleDocumentContent(e, rest) ==
  /\ state = "DOCUMENT_CONTENT"
  /\ e.type \in NodeEvents
  /\ StreamingNode(e, Append(state_stack, "DOCUMENT_END"), FALSE, s_indent, rest)
  /\ written' = WithContent(written)
  /\ UNCHANGED <<fyds, had>>

(* fy_emit_common_document_end(): is the end marked?  `end` stands for     *)
(* fyds->end_implicit                                                      *)
EndMarker(end) ==
  /\ ~JsonMode
  /\ EndMark = "ON" \/ (EndMark = "AUTO" /\ end = "explicit")

AfterEnd(end, w) == IF EndMarker(end) THEN Marked(w) ELSE w

HandleDocumentEnd(e) ==
  /\ state = "DOCUMENT_END"
  /\ e.type = "DOCUMENT_END"
  /\ written' = AfterEnd(e.mark, written)
  /\ fyds' = NoDocument
  /\ Reset
  /\ state' = "DOCUMENT_START"

HandleSequenceItem_KeepsIndent(e, rest) ==
  /\ state \in {"SEQUENCE_FIRST_ITEM", "SEQUENCE_ITEM"}
  /\ \/ e.type = "SEQUENCE_END" /\ EndCollection
     \/ /\ e.type \in NodeEvents
        /\ StreamingNode(e, Append(state_stack, "SEQUENCE_ITEM"),
                         s_sc.flags, s_indent, rest)
  /\ UNCHANGED <<fyds, had, written>>

HandleSequenceItem(e, rest) ==
  /\ state \in {"SEQUENCE_FIRST_ITEM", "SEQUENCE_ITEM"}
  /\ \/ e.type = "SEQUENCE_END" /\ EndCollection
     \/ /\ e.type \in NodeEvents
        /\ StreamingNode(e, Append(state_stack, "SEQUENCE_ITEM"),
                         s_sc.flags, s_sc.indent, rest)
  /\ UNCHANGED <<fyds, had, written>>

HandleMappingKey_NoValue(e, rest) ==
  /\ state \in {"MAPPING_FIRST_KEY", "MAPPING_KEY"}
  /\ \/ e.type = "MAPPING_END" /\ EndCollection
     \/ /\ e.type \in NodeEvents
        /\ StreamingNode(e, Append(state_stack, "MAPPING_KEY"),
                         s_sc.flags, s_sc.indent, rest)
  /\ UNCHANGED <<fyds, had, written>>

HandleMappingKey(e, rest) ==
  /\ state \in {"MAPPING_FIRST_KEY", "MAPPING_KEY"}
  /\ \/ e.type = "MAPPING_END" /\ EndCollection
     \/ /\ e.type \in NodeEvents
        /\ StreamingNode(e, Append(state_stack, "MAPPING_VALUE"),
                         s_sc.flags, s_sc.indent, rest)
  /\ UNCHANGED <<fyds, had, written>>

(* A value does not go back to the indentation of its mapping.             *)
HandleMappingValue(e, rest) ==
  /\ state = "MAPPING_VALUE"
  /\ e.type \in NodeEvents
  /\ StreamingNode(e, Append(state_stack, "MAPPING_KEY"),
                   s_sc.flags, s_indent, rest)
  /\ UNCHANGED <<fyds, had, written>>

(* What each state takes; anything else is refused.                        *)
Expected ==
  CASE state = "STREAM_START" -> {"STREAM_START"}
    [] state \in {"FIRST_DOCUMENT_START", "DOCUMENT_START"} ->
         {"DOCUMENT_START", "STREAM_END"}
    [] state \in {"DOCUMENT_CONTENT", "MAPPING_VALUE"} -> NodeEvents
    [] state = "DOCUMENT_END" -> {"DOCUMENT_END"}
    [] state \in {"SEQUENCE_FIRST_ITEM", "SEQUENCE_ITEM"} ->
         NodeEvents \cup {"SEQUENCE_END"}
    [] state \in {"MAPPING_FIRST_KEY", "MAPPING_KEY"} ->
         NodeEvents \cup {"MAPPING_END"}
    [] OTHER -> {}

(* The error returns.  A refused root has already pushed its state.        *)
Refused(e) ==
  /\ e.type \notin Expected
  /\ state_stack' = IF state = "DOCUMENT_CONTENT"
                    THEN Append(state_stack, "DOCUMENT_END") ELSE state_stack
  /\ UNCHANGED <<state, s_indent, s_sc, sc_stack, flow_level, fyds, had, written>>

Handle(e, rest) ==
  \/ HandleStreamStart(e)
  \/ HandleDocumentStart(e)
  \/ HandleDocumentContent(e, rest)
  \/ HandleDocumentEnd(e)
  \/ HandleSequenceItem(e, rest)
  \/ HandleMappingKey(e, rest)
  \/ HandleMappingValue(e, rest)

(***************************************************************************)
(* fy_emit_event(): queue the event, then act on what is ready until       *)
(* nothing is or a handler fails.                                          *)
(***************************************************************************)
Act ==
  /\ calling /\ Ready(queued_events)
  /\ queued_events' = Tail(queued_events)
  /\ LET e == Head(queued_events)
     IN \/ /\ Handle(e, Tail(queued_events))
           /\ event' = e.type
           /\ UNCHANGED <<calling, failed>>
        \/ /\ Refused(e)
           /\ event' = "NONE"
           /\ calling' = FALSE
           /\ failed' = TRUE
  /\ fed' = "NONE"
  /\ UNCHANGED <<mode, nest, docs, explicit, strays>>

Return ==
  /\ calling /\ ~Ready(queued_events)
  /\ calling' = FALSE
  /\ event' = "NONE" /\ fed' = "NONE"
  /\ UNCHANGED <<mode, emitterVars, queued_events, failed, nest, docs, explicit,
                 strays, written>>

(***************************************************************************)
(* The caller: the events of a parser, which are those of EventStream, and *)
(* up to MaxStrays events it has no business submitting.  A parser starts  *)
(* a document implicitly only as the first one or after an explicit end.   *)
(***************************************************************************)
Source == INSTANCE EventStream WITH event <- fed

Marks(type) ==
  CASE type \in {"SEQUENCE_START", "MAPPING_START"} -> {"flow", "block"}
    [] type = "DOCUMENT_START" ->
         {"explicit"} \cup (IF explicit THEN {"implicit", "directives"} ELSE {})
    [] type = "DOCUMENT_END" -> {"implicit", "explicit"}
    [] OTHER -> {"none"}

Submit ==
  /\ ~calling
  /\ state = "NONE" => docs = 0
  /\ \E type \in Events \ {"NONE"} : \E mark \in Marks(type) :
       /\ fed' = type
       /\ \/ /\ Source!Next /\ UNCHANGED strays
             /\ type = "STREAM_START" => state = "NONE"
          \/ /\ strays < MaxStrays /\ strays' = strays + 1
             /\ UNCHANGED nest
       /\ Len(nest') + strays' <= MaxDepth
       /\ docs' = docs + (IF type = "DOCUMENT_START" THEN 1 ELSE 0)
       /\ docs' <= MaxDocs
       /\ explicit' = IF type = "DOCUMENT_END" THEN mark = "explicit" ELSE explicit
       /\ queued_events' = Append(queued_events, [type |-> type, mark |-> mark])
  /\ state' = IF state = "NONE" THEN "STREAM_START" ELSE state
  /\ calling' = TRUE /\ failed' = FALSE /\ event' = "NONE"
  /\ UNCHANGED <<mode, state_stack, s_indent, s_sc, sc_stack, flow_level, fyds,
                 had, written>>

(* fy_emit_document(), on an emitter that is not fed events.  A missing    *)
(* root, or one that JSON cannot express, is refused between the start and *)
(* the end of the document, which stays the current one; while there is    *)
(* one no other can start.                                                 *)
EmitDocument ==
  /\ ~calling /\ state = "NONE"
  /\ docs < MaxDocs /\ docs' = docs + 1
  /\ event' = "NONE"
  /\ \/ /\ fyds # NoDocument
        /\ failed' = TRUE
        /\ UNCHANGED <<fyds, had, written, explicit>>
     \/ /\ fyds = NoDocument
        /\ \E start \in Marks("DOCUMENT_START") :
             \/ \E end \in Marks("DOCUMENT_END") :
                  /\ had' = {"OUTPUT"} \cup (IF EndMarker(end) THEN {"END"} ELSE {})
                  /\ written' = AfterEnd(end, WithContent(AfterStart(start)))
                  /\ explicit' = (end = "explicit")
                  /\ failed' = FALSE
                  /\ UNCHANGED fyds
             \/ /\ fyds' = start
                /\ had' = HadAfterDirectives(start) \ {"END"}
                /\ written' = AfterStart(start)
                /\ failed' = TRUE
                /\ UNCHANGED explicit
  /\ UNCHANGED <<mode, state, state_stack, s_indent, s_sc, sc_stack, flow_level,
                 queued_events, calling, fed, nest, strays>>

(* fy_emit_setup()                                                         *)
Init ==
  /\ mode \in Modes
  /\ state = "NONE" /\ state_stack = << >>
  /\ s_indent = -1 /\ s_sc = NoContext /\ sc_stack = << >>
  /\ flow_level = 0
  /\ queued_events = << >>
  /\ fyds = NoDocument /\ had = {"END"}
  /\ calling = FALSE /\ failed = FALSE /\ event = "NONE"
  /\ fed = "NONE" /\ nest = << >> /\ docs = 0 /\ explicit = TRUE /\ strays = 0
  /\ written = "nothing"

Next == Submit \/ Act \/ Return \/ EmitDocument

Spec == Init /\ [][Next]_vars

-----------------------------------------------------------------------------
(* The open collections, outermost first.                                  *)
Contexts == IF sc_stack = << >> THEN << >> ELSE Append(Tail(sc_stack), s_sc)

(* The events the emitter acts on are those of a well-nested stream,       *)
(* whatever the caller submits: what fy_emit_event() refuses leaves the    *)
(* nesting as it was.  What is open is read off the state and the top of   *)
(* the stack of states, one for every open collection; refused roots may   *)
(* have left DOCUMENT_ENDs below.                                          *)
Waiting(st) == CASE st = "DOCUMENT_CONTENT" -> <<"root">>
                 [] st = "DOCUMENT_END" -> <<"done">>
                 [] st \in {"SEQUENCE_FIRST_ITEM", "SEQUENCE_ITEM"} -> <<"seq">>
                 [] st \in {"MAPPING_FIRST_KEY", "MAPPING_KEY"} -> <<"key">>
                 [] st = "MAPPING_VALUE" -> <<"val">>
                 [] OTHER -> << >>

Within(st) == CASE st = "DOCUMENT_END"  -> "root"
                [] st = "SEQUENCE_ITEM" -> "seq"
                [] st = "MAPPING_VALUE" -> "key"
                [] st = "MAPPING_KEY"   -> "val"

Enclosing ==
  LET below == Len(state_stack) - Len(sc_stack)
  IN  [i \in 1..Len(sc_stack) |-> Within(state_stack[below + i])]

Opened ==
  IF state \in {"NONE", "STREAM_START", "END"} THEN << >>
  ELSE <<"stream">> \o Enclosing \o Waiting(state)

Acted == INSTANCE EventStream WITH nest <- Opened

WritesWellNested == Acted!Spec

(* fy_emit_event() refuses nothing a parser can produce: one stream of     *)
(* well-nested events never fails.                                         *)
Accepts == strays = 0 /\ state # "NONE" => ~failed

(* The look-ahead is bounded and never holds an event back for good: at    *)
(* most three events wait between two calls, and none once the caller has  *)
(* closed its document.                                                    *)
Lookahead ==
  ~calling /\ ~failed =>
    /\ Len(queued_events) <= 3
    /\ strays = 0 /\ nest \in {<<>>, <<"stream">>} => queued_events = << >>

(* An item of a sequence and a key of a mapping that are themselves block  *)
(* collections are indented more than the collection they are in.          *)
IndentsNest ==
  \A i \in 2..Len(Contexts) :
    ~Bracketed(Contexts[i]) /\ Enclosing[i] # "val" =>
      Contexts[i].indent > Contexts[i - 1].indent

(* Between the contents of two documents there is a marker, so that they   *)
(* read back as two (JSON has none).                                       *)
DocumentsSeparated ==
  ~JsonMode /\ strays = 0 => written # "joined"
=============================================================================
