--------------------------- MODULE FyParserProofs ---------------------------
(***************************************************************************)
(* Theorems about the event parser, for every token stream, every nesting  *)
(* depth and every number of inputs: its types and its state stack, and    *)
(* then that it implements EventStream.                                    *)
(***************************************************************************)
EXTENDS FyParser, TokenNesting, NestLists, TLAPS

(* TypeOK but for the length of the queue, which is that of this model's   *)
(* scanner: nothing the parser does depends on it.                         *)
Typed ==
  /\ state \in ParserStates /\ state_stack \in Seq(PushedStates)
  /\ fyds \in [version : {"1.1", "1.2", "bad"}, vd : BOOLEAN, td : SUBSET Handles]
  /\ stream_error \in BOOLEAN /\ stream_end_token \in BOOLEAN
  /\ stream_has_content \in BOOLEAN /\ next_single_document \in BOOLEAN
  /\ call \in Calls /\ event \in Events
  /\ queue \in Seq(Tokens) /\ flow_level \in Nat
  /\ json \in BOOLEAN /\ stream \in {"closed", "open"} /\ inputs \in 0 .. MaxInputs

(* The types and StackDiscipline hold only together: the type of the state *)
(* after a pop is that of the stack, and that the stack is not empty       *)
(* depends on the state.                                                   *)
IInv == Typed /\ StackDiscipline

(* What a pop does to a stack that obeys the discipline: an unfinished     *)
(* collection becomes current, or the document is complete.                *)
LEMMA PopDiscipline ==
  ASSUME Typed, StackDiscipline, state \notin OutsideStates, PopState
  PROVE  /\ state' \in PushedStates
         /\ state_stack' \in Seq(PushedStates)
         /\ state' \in OutsideStates => state' = "DOCUMENT_END" /\ state_stack' = << >>
         /\ state' \notin OutsideStates =>
              /\ state_stack' # << >>
              /\ \A i \in DOMAIN state_stack' :
                   (state_stack'[i] = "DOCUMENT_END") <=> (i = 1)
<1> DEFINE n == Len(state_stack)
<1>1. state_stack \in Seq(PushedStates) /\ state_stack # << >>
  BY DEF Typed, StackDiscipline
<1>2. n \in Nat \ {0} /\ DOMAIN state_stack = 1 .. n
  BY <1>1
<1>3. state' = state_stack[n] /\ state_stack' = SubSeq(state_stack, 1, n - 1)
  BY <1>1 DEF PopState, Last, Front
<1>4. state' \in PushedStates
  BY <1>1, <1>2, <1>3
<1>5. /\ state_stack' \in Seq(PushedStates) /\ Len(state_stack') = n - 1
      /\ DOMAIN state_stack' = 1 .. (n - 1)
      /\ \A i \in 1 .. (n - 1) : state_stack'[i] = state_stack[i]
  BY <1>1, <1>2, <1>3
<1>6. (state' = "DOCUMENT_END") <=> (n = 1)
  BY <1>2, <1>3 DEF StackDiscipline
<1>7. state' \in OutsideStates <=> state' = "DOCUMENT_END"
  BY <1>4 DEF PushedStates, SeqEntryStates, OutsideStates
<1>8. CASE n = 1
  BY <1>4, <1>5, <1>6, <1>7, <1>8
<1>9. CASE n # 1
  <2>1. state' \notin OutsideStates /\ state_stack' # << >>
    BY <1>2, <1>5, <1>6, <1>7, <1>9
  <2>2. \A i \in DOMAIN state_stack' : (state_stack'[i] = "DOCUMENT_END") <=> (i = 1)
    BY <1>2, <1>5 DEF StackDiscipline
  <2> QED BY <1>4, <1>5, <2>1, <2>2
<1> QED BY <1>8, <1>9

(* Pushing the state to come back to, on entering a node.                  *)
LEMMA PushDiscipline ==
  ASSUME Typed, StackDiscipline, state \notin OutsideStates,
         NEW s \in PushedStates \ {"DOCUMENT_END"}, Push(s)
  PROVE  /\ state_stack' \in Seq(PushedStates) /\ state_stack' # << >>
         /\ \A i \in DOMAIN state_stack' :
              (state_stack'[i] = "DOCUMENT_END") <=> (i = 1)
<1>1. state_stack \in Seq(PushedStates) /\ state_stack # << >>
  BY DEF Typed, StackDiscipline
<1>2. Len(state_stack) \in Nat \ {0} /\ DOMAIN state_stack = 1 .. Len(state_stack)
  BY <1>1
<1>3. state_stack' = Append(state_stack, s)
  BY DEF Push
<1> QED BY <1>1, <1>2, <1>3 DEF StackDiscipline

-----------------------------------------------------------------------------
(* Typed in parts: control, document and scanner.                          *)
InDocument == ParserStates \ OutsideStates

ControlOK == /\ state \in ParserStates /\ state_stack \in Seq(PushedStates)
             /\ call \in Calls /\ event \in Events
DocOK     == /\ fyds \in [version : {"1.1", "1.2", "bad"}, vd : BOOLEAN,
                           td : SUBSET Handles]
             /\ stream_error \in BOOLEAN /\ stream_end_token \in BOOLEAN
             /\ stream_has_content \in BOOLEAN /\ next_single_document \in BOOLEAN
ScannerOK == /\ queue \in Seq(Tokens) /\ flow_level \in Nat
             /\ json \in BOOLEAN /\ stream \in {"closed", "open"}
             /\ inputs \in 0 .. MaxInputs

(* The type invariant in three parts, which different actions disturb.     *)
LEMMA TypeParts == Typed <=> ControlOK /\ DocOK /\ ScannerOK
BY DEF Typed, ControlOK, DocOK, ScannerOK

(* No call is a call, and it is idle.                                      *)
LEMMA NoCallType == NoCall \in Calls /\ NoCall.at = "idle"
BY DEF NoCall, Calls, Points

(* So is the call of fy_parse_node().                                      *)
LEMMA NodeCallType ==
  ASSUME NEW b \in BOOLEAN
  PROVE  NodeCall(b) \in Calls /\ NodeCall(b).at = "node"
BY Zenon DEF NodeCall, NoCall, Calls, Points

(* A step that removes the token at the head, or leaves it.                *)
LEMMA QueueStep ==
  ASSUME Typed, queue # << >>, Consume \/ Keep
  PROVE  ScannerOK'
<1>1. CASE Keep
  BY <1>1 DEF Typed, ScannerOK, Keep, scannerVars
<1>2. CASE Consume
  <2>1. queue' \in Seq(Tokens)
    BY <1>2 DEF Typed, Consume
  <2> QED BY <1>2, <2>1 DEF Typed, ScannerOK, Consume
<1> QED BY <1>1, <1>2

(* The head of the queue is a token.                                       *)
LEMMA HeadType ==
  ASSUME Typed, queue # << >>
  PROVE  tok \in Tokens
BY DEF Typed, tok

(* A step that leaves the document state alone keeps its type.             *)
LEMMA PlainStep ==
  ASSUME Typed, Plain
  PROVE  DocOK'
BY DEF Typed, DocOK, Plain, DocUnchanged, KeepStreamEnd

(* The shapes a step takes, and that each of them preserves the invariant. *)
LEMMA FailStep ==
  ASSUME IInv, Fail
  PROVE  IInv'
<1>1. ScannerOK'
  BY DEF IInv, Typed, ScannerOK, Fail, Keep, scannerVars
<1>2. ControlOK' /\ DocOK'
  BY DEF IInv, Typed, ControlOK, DocOK, Fail, Failed, KeepStreamEnd, Events
<1>3. StackDiscipline'
  BY DEF IInv, StackDiscipline, CallDiscipline, Fail, Failed
<1> QED BY <1>1, <1>2, <1>3, TypeParts DEF IInv, Typed, ControlOK, DocOK, ScannerOK

(* A handler that returns an event and goes back to the state it pops.     *)
LEMMA PopStep ==
  ASSUME IInv, state \notin OutsideStates, queue # << >>,
         NEW e \in Events, PopState, Return(e), Consume \/ Keep, Plain
  PROVE  IInv'
<1>1. Typed /\ StackDiscipline
  BY DEF IInv
<1>2. ScannerOK' /\ DocOK'
  BY <1>1, QueueStep, PlainStep
<1>3. /\ state' \in PushedStates /\ state_stack' \in Seq(PushedStates)
      /\ state' \in OutsideStates => state_stack' = << >>
      /\ state' \notin OutsideStates =>
              /\ state_stack' # << >>
              /\ \A i \in DOMAIN state_stack' :
                   (state_stack'[i] = "DOCUMENT_END") <=> (i = 1)
  BY <1>1, PopDiscipline
<1>4. call' \in Calls /\ call'.at = "idle" /\ event' \in Events
  BY NoCallType DEF Return
<1>5. ControlOK'
  BY <1>3, <1>4 DEF ControlOK, ParserStates
<1>6. StackDiscipline'
  BY <1>3, <1>4 DEF StackDiscipline, CallDiscipline
<1> QED BY <1>2, <1>5, <1>6 DEF IInv, Typed, ControlOK, DocOK, ScannerOK

(* A handler that returns an event and goes on in a state of the document. *)
LEMMA SetStep ==
  ASSUME IInv, state \notin OutsideStates, queue # << >>,
         NEW e \in Events, NEW s \in InDocument,
         SetState(s), Return(e), Consume \/ Keep, Plain
  PROVE  IInv'
<1>1. Typed /\ StackDiscipline
  BY DEF IInv
<1>2. ScannerOK' /\ DocOK'
  BY <1>1, QueueStep, PlainStep
<1>3. call' \in Calls /\ call'.at = "idle" /\ event' \in Events
  BY NoCallType DEF Return
<1>4. ControlOK'
  BY <1>1, <1>3 DEF Typed, ControlOK, SetState, InDocument
<1>5. StackDiscipline'
  BY <1>1, <1>3 DEF StackDiscipline, CallDiscipline, SetState, InDocument
<1> QED BY <1>2, <1>4, <1>5 DEF IInv, Typed, ControlOK, DocOK, ScannerOK

(* A step that stays in the call and in the state, with a token taken.     *)
LEMMA ContinueStep ==
  ASSUME IInv, state \notin OutsideStates, queue # << >>,
         NEW c \in Calls, c.at \notin {"docstart"},
         c.at = "block_entry" => state \in SeqEntryStates,
         Continue(c), UNCHANGED <<state, state_stack>>, Consume \/ Keep, Plain
  PROVE  IInv'
<1>1. Typed /\ StackDiscipline
  BY DEF IInv
<1>2. ScannerOK' /\ DocOK'
  BY <1>1, QueueStep, PlainStep
<1>3. ControlOK'
  BY <1>1 DEF Typed, ControlOK, Continue, Events
<1>4. StackDiscipline'
  BY <1>1 DEF StackDiscipline, CallDiscipline, Continue
<1> QED BY <1>2, <1>3, <1>4 DEF IInv, Typed, ControlOK, DocOK, ScannerOK

(* A handler that goes on to its next point.                               *)
LEMMA AdvanceStep ==
  ASSUME IInv, state \notin OutsideStates, queue # << >>,
         NEW p \in Points \ {"docstart"},
         p = "block_entry" => state \in SeqEntryStates, Advance(p)
  PROVE  IInv'
<1> DEFINE c == [call EXCEPT !.at = p]
<1>1. call \in Calls
  BY DEF IInv, Typed
<1>2. c \in Calls /\ c.at = p
  BY <1>1 DEF Calls
<1>3. Continue(c) /\ UNCHANGED <<state, state_stack>> /\ Consume /\ Plain
  BY DEF Advance, Goto
<1> HIDE DEF c
<1> QED BY <1>2, <1>3, ContinueStep

(* A handler that pushes the state to return to and calls fy_parse_node(). *)
LEMMA EnterNodeStep ==
  ASSUME IInv, state \notin OutsideStates, queue # << >>,
         NEW s \in PushedStates \ {"DOCUMENT_END"}, NEW b \in BOOLEAN,
         EnterNode(s, b)
  PROVE  IInv'
<1>1. Typed /\ StackDiscipline
  BY DEF IInv
<1>2. ScannerOK' /\ DocOK'
  BY <1>1, QueueStep, PlainStep DEF EnterNode
<1>3. /\ state_stack' \in Seq(PushedStates) /\ state_stack' # << >>
      /\ \A i \in DOMAIN state_stack' :
           (state_stack'[i] = "DOCUMENT_END") <=> (i = 1)
  BY <1>1, PushDiscipline DEF EnterNode
<1>4. call' \in Calls /\ call'.at = "node" /\ event' \in Events
  BY NodeCallType DEF EnterNode, Continue, Events
<1>5. state' = state /\ state \in ParserStates
  BY <1>1 DEF EnterNode, Typed
<1>6. ControlOK'
  BY <1>3, <1>4, <1>5 DEF ControlOK
<1>7. StackDiscipline'
  BY <1>3, <1>4, <1>5 DEF StackDiscipline, CallDiscipline
<1> QED BY <1>2, <1>6, <1>7 DEF IInv, Typed, ControlOK, DocOK, ScannerOK

(* fy_parse_empty_scalar()                                                 *)
LEMMA EmptyScalarStep ==
  ASSUME IInv, state \notin OutsideStates, queue # << >>,
         NEW s \in InDocument, EmptyScalar(s)
  PROVE  IInv'
BY SetStep DEF EmptyScalar, Events, NodeEvents

(* The end of a collection.                                                *)
LEMMA EndCollectionStep ==
  ASSUME IInv, state \notin OutsideStates, queue # << >>,
         NEW e \in Events, NEW used \in BOOLEAN, EndCollection(e, used)
  PROVE  IInv'
BY PopStep DEF EndCollection

(* The memberships the steps below need.                                   *)
LEMMA States ==
  /\ PushedStates \ {"DOCUMENT_END"} \subseteq InDocument
  /\ {"BLOCK_MAPPING_FIRST_KEY", "FLOW_SEQUENCE_FIRST_ENTRY",
      "FLOW_SEQUENCE_ENTRY_MAPPING_KEY", "FLOW_MAPPING_FIRST_KEY"} \subseteq InDocument
  /\ NodeStates \subseteq InDocument
  /\ SeqEntryStates \subseteq PushedStates \ {"DOCUMENT_END"}
  /\ {"BLOCK_MAPPING_KEY", "BLOCK_MAPPING_VALUE", "FLOW_SEQUENCE_ENTRY",
      "FLOW_SEQUENCE_ENTRY_MAPPING_VALUE", "FLOW_SEQUENCE_ENTRY_MAPPING_END",
      "FLOW_MAPPING_KEY", "FLOW_MAPPING_VALUE", "FLOW_MAPPING_EMPTY_VALUE"}
        \subseteq PushedStates \ {"DOCUMENT_END"}
BY DEF InDocument, ParserStates, PushedStates, SeqEntryStates, NodeStates, OutsideStates

-----------------------------------------------------------------------------
(* The cases of fy_parse_internal(), one group of actions at a time.       *)

(* The handlers of the flow states.                                        *)
LEMMA FlowSteps ==
  ASSUME IInv, Flow
  PROVE  IInv'
<1> USE States
<1>1. ASSUME queue # << >>, state \notin OutsideStates, FlowSequenceItem
      PROVE  IInv'
  <2>1. CASE tok = "KEY"
    BY <1>1, <2>1, SetStep DEF FlowSequenceItem, Events, NodeEvents
  <2>2. CASE tok = "FLOW_SEQUENCE_END"
    BY <1>1, <2>2, EndCollectionStep, Zenon DEF FlowSequenceItem, Events
  <2>3. CASE tok \notin {"KEY", "FLOW_SEQUENCE_END"}
    BY <1>1, <2>3, EnterNodeStep, Zenon DEF FlowSequenceItem
  <2> QED BY <2>1, <2>2, <2>3
<1>2. ASSUME queue # << >>, state \notin OutsideStates, FlowMappingItem
      PROVE  IInv'
  <2>1. CASE tok = "KEY"
    BY <1>2, <2>1, AdvanceStep DEF FlowMappingItem, Points
  <2>2. CASE tok = "FLOW_MAPPING_END"
    BY <1>2, <2>2, EndCollectionStep, Zenon DEF FlowMappingItem, Events
  <2>3. CASE tok \notin {"KEY", "FLOW_MAPPING_END"}
    BY <1>2, <2>3, EnterNodeStep, FailStep, Zenon DEF FlowMappingItem
  <2> QED BY <2>1, <2>2, <2>3
<1>3. ASSUME queue # << >>, state \notin OutsideStates,
             NEW s \in InDocument, EmptyUnlessJson(s)
      PROVE  IInv'
  BY <1>3, EmptyScalarStep, FailStep DEF EmptyUnlessJson
<1>4. ASSUME NEW p \in Points \ {"idle", "peek", "docstart"}, At(p)
      PROVE  queue # << >> /\ state \notin OutsideStates
  BY <1>4 DEF At, IInv, StackDiscipline, CallDiscipline
<1>5. ASSUME NEW S \in SUBSET InDocument, Idle(S)
      PROVE  queue # << >> /\ state \notin OutsideStates
  BY <1>5 DEF Idle, At, InDocument
<1>6. CASE FlowSequence
  <2>1. queue # << >> /\ state \notin OutsideStates
    BY <1>5, <1>6 DEF FlowSequence
  <2>2. CASE FlowSequenceItem
    BY <1>1, <2>1, <2>2
  <2>3. CASE EndCollection("SEQUENCE_END", TRUE)
    BY <2>1, <2>3, EndCollectionStep, Zenon DEF Events
  <2>4. CASE Advance("flow_seq_entry")
    BY <2>1, <2>4, AdvanceStep DEF Points
  <2> QED BY <1>6, <2>2, <2>3, <2>4, FailStep, Zenon DEF FlowSequence
<1>7. CASE FlowSequenceEntry
  BY <1>1, <1>4, <1>7 DEF FlowSequenceEntry, Points
<1>8. CASE FlowSequencePairKey
  BY <1>3, <1>5, <1>8, EnterNodeStep, Zenon DEF FlowSequencePairKey
<1>9. CASE FlowSequencePairValue
  BY <1>3, <1>5, <1>9, AdvanceStep DEF FlowSequencePairValue, Points
<1>10. CASE FlowSequencePairValueNode
  BY <1>3, <1>4, <1>10, EnterNodeStep, Zenon DEF FlowSequencePairValueNode, Points
<1>11. CASE FlowSequencePairEnd
  BY <1>5, <1>11, SetStep DEF FlowSequencePairEnd, Events
<1>12. CASE FlowMapping
  <2>1. queue # << >> /\ state \notin OutsideStates
    BY <1>5, <1>12 DEF FlowMapping
  <2>2. CASE FlowMappingItem
    BY <1>2, <2>1, <2>2
  <2>3. CASE Advance("flow_map_entry")
    BY <2>1, <2>3, AdvanceStep DEF Points
  <2> QED BY <1>12, <2>2, <2>3, FailStep DEF FlowMapping
<1>13. CASE FlowMappingEntry
  BY <1>2, <1>4, <1>13 DEF FlowMappingEntry, Points
<1>14. CASE FlowMappingKeyNode
  BY <1>4, <1>14, EnterNodeStep, EmptyScalarStep, FailStep, Zenon DEF FlowMappingKeyNode, Points
<1>15. CASE FlowMappingValue
  BY <1>3, <1>5, <1>15, AdvanceStep DEF FlowMappingValue, Points
<1>16. CASE FlowMappingValueNode
  BY <1>3, <1>4, <1>16, EnterNodeStep, Zenon DEF FlowMappingValueNode, Points
<1>17. CASE FlowMappingEmptyValue
  BY <1>5, <1>17, EmptyScalarStep DEF FlowMappingEmptyValue
<1> QED BY <1>6, <1>7, <1>8, <1>9, <1>10, <1>11, <1>12, <1>13, <1>14, <1>15,
           <1>16, <1>17 DEF Flow

(* The handlers of the block states.                                       *)
LEMMA BlockSteps ==
  ASSUME IInv, Block
  PROVE  IInv'
<1> USE States
<1>1. ASSUME NEW p \in Points \ {"idle", "peek", "docstart"}, At(p)
      PROVE  queue # << >> /\ state \notin OutsideStates
  BY <1>1 DEF At, IInv, StackDiscipline, CallDiscipline
<1>2. ASSUME NEW S \in SUBSET InDocument, Idle(S)
      PROVE  queue # << >> /\ state \in S /\ state \notin OutsideStates
  BY <1>2 DEF Idle, At, InDocument
<1>3. CASE BlockSequence
  <2>1. queue # << >> /\ state \in SeqEntryStates /\ state \notin OutsideStates
    BY <1>2, <1>3 DEF BlockSequence
  <2>2. CASE tok = "BLOCK_ENTRY"
    BY <1>3, <2>1, <2>2, AdvanceStep DEF BlockSequence, Points
  <2>3. CASE tok # "BLOCK_ENTRY"
    BY <1>3, <2>1, <2>3, EndCollectionStep, FailStep, Zenon DEF BlockSequence, Events
  <2> QED BY <2>2, <2>3
<1>4. CASE BlockSequenceEntry
  <2>1. queue # << >> /\ state \in SeqEntryStates /\ state \notin OutsideStates
    BY <1>4, States DEF BlockSequenceEntry, At, IInv, StackDiscipline, CallDiscipline,
       InDocument
  <2> QED BY <1>4, <2>1, EnterNodeStep, EmptyScalarStep, Zenon DEF BlockSequenceEntry, SeqEntryStates
<1>5. CASE BlockMappingKey
  BY <1>2, <1>5, AdvanceStep, EndCollectionStep, FailStep, Zenon DEF BlockMappingKey, Points, Events
<1>6. CASE BlockMappingKeyNode
  BY <1>1, <1>6, EnterNodeStep, EmptyScalarStep, Zenon DEF BlockMappingKeyNode, Points
<1>7. CASE BlockMappingValue
  BY <1>2, <1>7, AdvanceStep, EmptyScalarStep DEF BlockMappingValue, Points
<1>8. CASE BlockMappingValueNode
  BY <1>1, <1>8, EnterNodeStep, EmptyScalarStep, Zenon DEF BlockMappingValueNode, Points
<1> QED BY <1>3, <1>4, <1>5, <1>6, <1>7, <1>8 DEF Block

(* fy_parse_node()                                                         *)
LEMMA NodeSteps ==
  ASSUME IInv, Node
  PROVE  IInv'
<1>1. queue # << >> /\ state \notin OutsideStates /\ call \in Calls /\ tok \in Tokens
  BY HeadType DEF Node, NodeAlias, NodeProperty, NodeBadTag, NodeIndentless,
     NodeScalar, NodeCollection, NodeEmpty, Content, At, IInv, Typed,
     StackDiscipline, CallDiscipline
<1>2. CASE NodeAlias
  BY <1>1, <1>2, PopStep, FailStep DEF NodeAlias, Events, NodeEvents
<1>3. CASE NodeProperty
  <2>1. ASSUME tok = "ANCHOR", Continue([call EXCEPT !.anchor = TRUE])
        PROVE  IInv'
    <3> DEFINE c == [call EXCEPT !.anchor = TRUE]
    <3>1. c \in Calls /\ c.at = "node"
      BY <1>1, <1>3, Zenon DEF Calls, NodeProperty, At
    <3>2. Continue(c) /\ UNCHANGED <<state, state_stack>> /\ Consume /\ Plain
      BY <1>3, <2>1 DEF NodeProperty
    <3> HIDE DEF c
    <3> QED BY <1>1, <3>1, <3>2, ContinueStep
  <2>2. ASSUME tok \in Tags, Continue([call EXCEPT !.tag = tok])
        PROVE  IInv'
    <3> DEFINE c == [call EXCEPT !.tag = tok]
    <3>1. c \in Calls /\ c.at = "node"
      BY <1>1, <1>3, <2>2 DEF Calls, NodeProperty, At
    <3>2. Continue(c) /\ UNCHANGED <<state, state_stack>> /\ Consume /\ Plain
      BY <1>3, <2>2 DEF NodeProperty
    <3> HIDE DEF c
    <3> QED BY <1>1, <3>1, <3>2, ContinueStep
  <2> QED BY <1>3, <2>1, <2>2 DEF NodeProperty
<1>4. CASE NodeBadTag
  BY <1>4, FailStep DEF NodeBadTag
<1>5. CASE NodeIndentless
  BY <1>1, <1>5, SetStep, States DEF NodeIndentless, Events, NodeEvents, SeqEntryStates
<1>6. CASE NodeScalar
  BY <1>1, <1>6, PopStep DEF NodeScalar, Events, NodeEvents
<1>7. CASE NodeCollection
  <2>1. tok \in FlowStarts \cup BlockStarts
    BY <1>7 DEF NodeCollection, Openers
  <2>2. Opens(tok)[1] \in Events /\ Opens(tok)[2] \in InDocument
    BY <2>1, States DEF Opens, FlowStarts, BlockStarts, Events, NodeEvents, SeqEntryStates
  <2> QED BY <1>1, <1>7, <2>2, SetStep DEF NodeCollection
<1>8. CASE NodeEmpty
  BY <1>1, <1>8, PopStep, FailStep DEF NodeEmpty, Events, NodeEvents
<1> QED BY <1>2, <1>3, <1>4, <1>5, <1>6, <1>7, <1>8 DEF Node

(* A directive changes the document state only.                            *)
LEMMA DirectiveSteps ==
  ASSUME IInv, VersionDirective \/ TagDirective
  PROVE  IInv'
<1> DEFINE DS == [version : {"1.1", "1.2", "bad"}, vd : BOOLEAN, td : SUBSET Handles]
<1>1. Typed /\ StackDiscipline /\ queue # << >> /\ call.at = "docstart" /\ fyds \in DS
  BY DEF IInv, VersionDirective, TagDirective, At, Typed
<1>2. ASSUME NEW ds \in DS, DirectiveRefused(ds)
      PROVE  IInv'
  <2>1. ScannerOK'
    BY <1>1, <1>2, QueueStep DEF DirectiveRefused
  <2>2. ControlOK' /\ DocOK'
    BY <1>1, <1>2 DEF DirectiveRefused, Failed, KeepStreamEnd, Typed, ControlOK, DocOK, Events
  <2>3. StackDiscipline'
    BY <1>1, <1>2 DEF DirectiveRefused, Failed, StackDiscipline, CallDiscipline
  <2> QED BY <2>1, <2>2, <2>3 DEF IInv, Typed, ControlOK, DocOK, ScannerOK
<1>3. ASSUME NEW ds \in DS, DirectiveTaken(ds)
      PROVE  IInv'
  <2>1. ScannerOK'
    BY <1>1, <1>3, QueueStep DEF DirectiveTaken
  <2>2. call' \in Calls /\ call'.at = "docstart"
    BY <1>1, <1>3, Zenon DEF DirectiveTaken, Continue, Typed, Calls
  <2>3. ControlOK' /\ DocOK'
    BY <1>1, <1>3, <2>2 DEF DirectiveTaken, Continue, Typed, ControlOK, DocOK, Events
  <2>4. StackDiscipline'
    BY <1>1, <1>3, <2>2 DEF DirectiveTaken, StackDiscipline, CallDiscipline
  <2> QED BY <2>1, <2>3, <2>4 DEF IInv, Typed, ControlOK, DocOK, ScannerOK
<1>4. CASE VersionDirective
  <2>1. [fyds EXCEPT !.version = "bad"] \in DS
    BY <1>1
  <2>2. [fyds EXCEPT !.vd = TRUE,
            !.version = IF tok = "VERSION_1_1" THEN "1.1" ELSE "1.2"] \in DS
    BY <1>1, Zenon
  <2> QED BY <1>1, <1>2, <1>3, <1>4, <2>1, <2>2, Zenon DEF VersionDirective
<1>5. CASE TagDirective
  <2>1. [fyds EXCEPT !.td = @ \cup {HandleOf(tok)}] \in DS
    BY <1>1 DEF HandleOf, Handles, DefaultHandles
  <2> QED BY <1>1, <1>2, <1>3, <1>5, <2>1 DEF TagDirective
<1> QED BY <1>4, <1>5

(* Steps outside a document: the stack is and stays empty, but for the     *)
(* DOCUMENT_END that opens it.                                             *)
LEMMA EndStreamStep ==
  ASSUME IInv, queue # << >>, state_stack = << >>, EndStream
  PROVE  IInv'
<1>1. Typed
  BY DEF IInv
<1>2. ScannerOK'
  BY <1>1, QueueStep DEF EndStream
<1>3. call' \in Calls /\ call'.at = "idle"
  BY NoCallType DEF EndStream, Return
<1>4. ControlOK' /\ DocOK'
  BY <1>1, <1>3, Zenon DEF EndStream, Return, Typed, ControlOK, DocOK, Events, ParserStates
<1>5. StackDiscipline'
  BY <1>3 DEF EndStream, StackDiscipline, CallDiscipline, OutsideStates
<1> QED BY <1>2, <1>4, <1>5 DEF IInv, Typed, ControlOK, DocOK, ScannerOK

(* The handlers of the document states and of the stream.                  *)
LEMMA DocumentSteps ==
  ASSUME IInv, Document
  PROVE  IInv'
<1>1. Typed /\ StackDiscipline /\ CallDiscipline
  BY DEF IInv, StackDiscipline
<1>2. CASE StreamStart
  <2>1. queue # << >> /\ state \in OutsideStates /\ state_stack = << >>
    BY <1>1, <1>2 DEF StreamStart, Idle, At, StackDiscipline, OutsideStates
  <2>2. CASE tok = "STREAM_START"
    <3>1. ScannerOK'
      BY <1>1, <1>2, <2>1, <2>2, QueueStep DEF StreamStart
    <3>2. call' \in Calls /\ call'.at = "idle"
      BY <1>2, <2>2, NoCallType DEF StreamStart, Return
    <3>3. /\ state' = "IMPLICIT_DOCUMENT_START" /\ state_stack' = << >>
          /\ event' = "STREAM_START"
      BY <1>2, <2>2 DEF StreamStart, Return
    <3>4. ControlOK'
      BY <3>2, <3>3 DEF ControlOK, Events, ParserStates
    <3>5. DocOK'
      BY <1>1, <1>2, <2>2, Zenon DEF StreamStart, Typed, DocOK
    <3>6. StackDiscipline'
      BY <3>2, <3>3 DEF StackDiscipline, CallDiscipline, OutsideStates
    <3> QED BY <3>1, <3>4, <3>5, <3>6 DEF IInv, Typed, ControlOK, DocOK, ScannerOK
  <2>3. CASE tok # "STREAM_START"
    <3>1. ScannerOK'
      BY <1>1, <1>2, <2>1, <2>3, QueueStep DEF StreamStart
    <3>2. ControlOK' /\ DocOK'
      BY <1>1, <1>2, <2>3
         DEF StreamStart, Failed, KeepStreamEnd, Typed, ControlOK, DocOK, Events, ParserStates
    <3>3. StackDiscipline'
      BY <1>1, <1>2, <2>1, <2>3
         DEF StreamStart, Idle, At, Failed, StackDiscipline, CallDiscipline, OutsideStates
    <3> QED BY <3>1, <3>2, <3>3 DEF IInv, Typed, ControlOK, DocOK, ScannerOK
  <2> QED BY <2>2, <2>3
<1>3. CASE DocumentStartEnter
  <2>1. queue # << >> /\ state \in {"IMPLICIT_DOCUMENT_START", "DOCUMENT_START"}
    BY <1>3 DEF DocumentStartEnter, Idle, At
  <2>2. ScannerOK'
    BY <1>1, <1>3, <2>1, QueueStep DEF DocumentStartEnter
  <2>3. call' \in Calls /\ call'.at = "docstart"
    BY <1>1, <1>3 DEF DocumentStartEnter, Goto, Continue, Typed, Calls, Points
  <2>4. ControlOK' /\ DocOK'
    BY <1>1, <1>3, <2>3 DEF DocumentStartEnter, Goto, Continue, KeepStreamEnd,
       Typed, ControlOK, DocOK, Events
  <2>5. StackDiscipline'
    BY <1>1, <1>3, <2>1, <2>3 DEF DocumentStartEnter, StackDiscipline, CallDiscipline
  <2> QED BY <2>2, <2>4, <2>5 DEF IInv, Typed, ControlOK, DocOK, ScannerOK
<1>4. CASE DocumentStartSkipEnd
  <2>1. queue # << >> /\ call.at = "docstart"
    BY <1>4 DEF DocumentStartSkipEnd, At
  <2>2. ScannerOK' /\ DocOK'
    BY <1>1, <1>4, <2>1, QueueStep, PlainStep DEF DocumentStartSkipEnd
  <2>3. call' \in Calls /\ call'.at = "docstart"
    BY <1>1, <1>4, <2>1, Zenon DEF DocumentStartSkipEnd, Continue, Typed, Calls
  <2>4. ControlOK'
    BY <1>1, <1>4, <2>3 DEF DocumentStartSkipEnd, Continue, Typed, ControlOK, Events
  <2>5. StackDiscipline'
    BY <1>1, <1>4, <2>1, <2>3 DEF DocumentStartSkipEnd, StackDiscipline, CallDiscipline
  <2> QED BY <2>2, <2>4, <2>5 DEF IInv, Typed, ControlOK, DocOK, ScannerOK
<1>5. CASE VersionDirective \/ TagDirective
  BY <1>5, DirectiveSteps
<1>6. CASE DocumentStartStreamEnd
  <2>1. queue # << >> /\ state_stack = << >>
    BY <1>1, <1>6 DEF DocumentStartStreamEnd, At, StackDiscipline, CallDiscipline, OutsideStates
  <2> QED BY <1>6, <2>1, EndStreamStep, FailStep DEF DocumentStartStreamEnd
<1>7. CASE DocumentStart
  <2>1. queue # << >> /\ state_stack = << >>
    BY <1>1, <1>7 DEF DocumentStart, At, StackDiscipline, CallDiscipline, OutsideStates
  <2>2. CASE Fail
    BY <2>2, FailStep
  <2>3. CASE ~Fail
    <3>1. /\ state' \in NodeStates /\ Push("DOCUMENT_END") /\ Return("DOCUMENT_START")
          /\ Consume \/ Keep
          /\ Plain
      BY <1>7, <2>3 DEF DocumentStart, NodeStates
    <3>2. ScannerOK' /\ DocOK'
      BY <1>1, <1>7, <2>1, <2>3, QueueStep, PlainStep DEF DocumentStart
    <3>3. call' \in Calls /\ call'.at = "idle" /\ event' \in Events
      BY <3>1, NoCallType DEF Return, Events
    <3>4. state_stack' = <<"DOCUMENT_END">>
      BY <2>1, <3>1 DEF Push
    <3>5. ControlOK'
      BY <3>1, <3>3, <3>4 DEF ControlOK, ParserStates, PushedStates
    <3>6. state' \notin OutsideStates
      BY <3>1, States DEF InDocument
    <3>7. StackDiscipline'
      BY <3>3, <3>4, <3>6 DEF StackDiscipline, CallDiscipline
    <3> QED BY <3>2, <3>5, <3>7 DEF IInv, Typed, ControlOK, DocOK, ScannerOK
  <2> QED BY <2>2, <2>3
<1>8. CASE DocumentEnd
  <2>1. queue # << >> /\ state_stack = << >>
    BY <1>1, <1>8 DEF DocumentEnd, Idle, At, StackDiscipline, OutsideStates
  <2>2. CASE Fail
    BY <2>2, FailStep
  <2>3. CASE ~Fail
    <3>1. /\ KeepStreamEnd /\ Return("DOCUMENT_END") /\ next_single_document' = FALSE
          /\ state' \in {"SINGLE_DOCUMENT_END", "DOCUMENT_START"}
          /\ UNCHANGED <<queue, json, stream, inputs, stream_error,
                         stream_has_content, state_stack>>
          /\ fyds' \in {fyds, DefaultDocumentState} /\ flow_level' \in {0, flow_level}
      BY <1>8, <2>3 DEF DocumentEnd, SetState
    <3>2. ScannerOK'
      BY <1>1, <3>1 DEF Typed, ScannerOK
    <3>3. call' \in Calls /\ call'.at = "idle" /\ event' \in Events
      BY <3>1, NoCallType DEF Return, Events
    <3>4. ControlOK'
      BY <1>1, <3>1, <3>3 DEF Typed, ControlOK, ParserStates
    <3>5. DocOK'
      <4>1. DefaultDocumentState \in [version : {"1.1", "1.2", "bad"}, vd : BOOLEAN,
                                      td : SUBSET Handles]
        BY DEF DefaultDocumentState
      <4>2. stream_end_token' \in BOOLEAN
        BY <1>1, <3>1 DEF Typed, KeepStreamEnd
      <4> QED BY <1>1, <3>1, <4>1, <4>2, Zenon DEF Typed, DocOK
    <3>6. StackDiscipline'
      BY <2>1, <3>1, <3>3 DEF StackDiscipline, CallDiscipline, OutsideStates
    <3> QED BY <3>2, <3>4, <3>5, <3>6 DEF IInv, Typed, ControlOK, DocOK, ScannerOK
  <2> QED BY <2>2, <2>3
<1>9. CASE SingleDocumentEnd
  <2>1. queue # << >> /\ state_stack = << >>
    BY <1>1, <1>9 DEF SingleDocumentEnd, Idle, At, StackDiscipline, OutsideStates
  <2> QED BY <1>9, <2>1, EndStreamStep, FailStep DEF SingleDocumentEnd
<1>10. CASE DocumentContent
  <2>1. queue # << >> /\ state \notin OutsideStates
    BY <1>10, States DEF DocumentContent, Idle, At, InDocument
  <2>2. CASE PopState /\ Return("SCALAR") /\ Keep /\ Plain
    BY <2>1, <2>2, PopStep DEF Events, NodeEvents
  <2>3. CASE Continue(NodeCall(TRUE)) /\ UNCHANGED <<state, state_stack>> /\ Keep /\ Plain
    BY <2>1, <2>3, NodeCallType, ContinueStep, Zenon
  <2> QED BY <1>10, <2>2, <2>3, Zenon DEF DocumentContent
<1> QED BY <1>2, <1>3, <1>4, <1>5, <1>6, <1>7, <1>8, <1>9, <1>10 DEF Document

(* Fetching changes the queue and marks a call as begun.                   *)
LEMMA PeekSteps ==
  ASSUME IInv, Peek
  PROVE  IInv'
<1>1. Typed /\ StackDiscipline /\ Silent /\ ParserIdle
  BY DEF IInv, Peek, OpenInput, OpenFail, FetchToken, FetchStreamEnd, ScanFail,
     RepeatStreamEnd, NoToken
<1>2. call' \in Calls /\ (call'.at = call.at \/ (call.at = "idle" /\ call'.at = "peek"))
  BY <1>1 DEF Typed, Silent, Calls, Points
<1>3. ControlOK'
  BY <1>1, <1>2 DEF Typed, ControlOK, ParserIdle, Silent, Events
<1>4. StackDiscipline'
  BY <1>1, <1>2 DEF StackDiscipline, CallDiscipline, ParserIdle
<1>5. stream_error' \in BOOLEAN
  BY <1>1, Zenon DEF Typed, Peek, OpenInput, OpenFail, FetchToken, FetchStreamEnd, ScanFail,
     RepeatStreamEnd, NoToken
<1>6. DocOK'
  BY <1>1, <1>5 DEF Typed, DocOK, ParserIdle
<1>7. ScannerOK'
  <2>1. CASE OpenInput
    BY <1>1, <2>1, BoundsAssumption DEF OpenInput, Typed, ScannerOK, Tokens
  <2>2. CASE OpenFail
    BY <1>1, <2>2, BoundsAssumption DEF OpenFail, Typed, ScannerOK
  <2>3. CASE FetchToken
    <3>1. PICK t \in Supply : /\ (t \in FlowEnds => flow_level > 0) /\ queue' = <<t>>
                              /\ flow_level' = FlowLevelAfter(t)
      BY <2>3 DEF FetchToken
    <3>2. t \in Tokens
      BY SupplyAssumption DEF Tokens
    <3>3. flow_level' \in Nat
      BY <1>1, <3>1 DEF Typed, FlowLevelAfter
    <3> QED BY <1>1, <2>3, <3>1, <3>2, <3>3 DEF FetchToken, Typed, ScannerOK
  <2>4. CASE FetchStreamEnd
    BY <1>1, <2>4 DEF FetchStreamEnd, Typed, ScannerOK, Tokens
  <2>5. CASE ScanFail \/ NoToken
    BY <1>1, <2>5 DEF ScanFail, NoToken, Keep, scannerVars, Typed, ScannerOK
  <2>6. CASE RepeatStreamEnd
    BY <1>1, <2>6 DEF RepeatStreamEnd, Typed, ScannerOK, Tokens
  <2> QED BY <2>1, <2>2, <2>3, <2>4, <2>5, <2>6 DEF Peek
<1> QED BY <1>3, <1>4, <1>6, <1>7 DEF IInv, Typed, ControlOK, DocOK, ScannerOK

(* The caller's operations, and a step that changes nothing.               *)
LEMMA OtherSteps ==
  ASSUME IInv, API \/ UNCHANGED vars
  PROVE  IInv'
<1>1. Typed /\ StackDiscipline
  BY DEF IInv
<1>2. ASSUME InputReset, inputs' \in {0, 1}, flow_level' \in {0, flow_level}
      PROVE  ControlOK' /\ ScannerOK' /\ StackDiscipline'
  <2>1. call' \in Calls /\ call'.at = "idle" /\ state_stack' = << >> /\ state' = "NONE"
        /\ event' = "NONE"
    BY <1>2, NoCallType DEF InputReset
  <2>2. ControlOK'
    BY <2>1 DEF ControlOK, ParserStates, Events
  <2>3. ScannerOK'
    BY <1>1, <1>2, BoundsAssumption DEF InputReset, Typed, ScannerOK
  <2>4. StackDiscipline'
    BY <2>1 DEF StackDiscipline, CallDiscipline, OutsideStates
  <2> QED BY <2>2, <2>3, <2>4
<1>3. CASE SetInput
  <2>1. ControlOK' /\ ScannerOK' /\ StackDiscipline'
    BY <1>2, <1>3 DEF SetInput
  <2>2. DocOK'
    BY <1>1, <1>3 DEF SetInput, InputReset, Typed, DocOK
  <2> QED BY <2>1, <2>2 DEF IInv, Typed, ControlOK, DocOK, ScannerOK
<1>4. CASE Reset
  <2>1. ControlOK' /\ ScannerOK' /\ StackDiscipline'
    BY <1>2, <1>4 DEF Reset, InputReset
  <2>2. DocOK'
    BY <1>1, <1>4, Zenon DEF Reset, InputReset, Typed, DocOK, DefaultDocumentState
  <2> QED BY <2>1, <2>2 DEF IInv, Typed, ControlOK, DocOK, ScannerOK
<1>5. CASE AppendInput
  <2>1. ControlOK' /\ DocOK' /\ ScannerOK'
    BY <1>1, <1>5, BoundsAssumption
       DEF AppendInput, ParserIdle, Typed, ControlOK, DocOK, ScannerOK, Events
  <2>2. StackDiscipline'
    BY <1>1, <1>5 DEF AppendInput, ParserIdle, StackDiscipline, CallDiscipline
  <2> QED BY <2>1, <2>2 DEF IInv, Typed, ControlOK, DocOK, ScannerOK
<1>6. CASE SetNextSingleDocument
  <2>1. ControlOK' /\ DocOK' /\ ScannerOK'
    BY <1>1, <1>6 DEF SetNextSingleDocument, Keep, scannerVars, Typed, ControlOK,
       DocOK, ScannerOK, Events
  <2>2. StackDiscipline'
    BY <1>1, <1>6 DEF SetNextSingleDocument, StackDiscipline, CallDiscipline
  <2> QED BY <2>1, <2>2 DEF IInv, Typed, ControlOK, DocOK, ScannerOK
<1>7. CASE UNCHANGED vars
  BY <1>1, <1>7 DEF IInv, Typed, StackDiscipline, CallDiscipline, vars, parserVars, scannerVars
<1> QED BY <1>3, <1>4, <1>5, <1>6, <1>7 DEF API

(* The initial states satisfy the invariant.                               *)
LEMMA InitIInv == Init => IInv
<1> SUFFICES ASSUME Init PROVE IInv
  OBVIOUS
<1>1. ControlOK
  BY NoCallType DEF Init, ControlOK, ParserStates, Events
<1>2. DocOK
  BY Zenon DEF Init, DocOK, DefaultDocumentState
<1>3. ScannerOK
  <2>1. queue \in Seq(Tokens)
    BY DEF Init
  <2>2. json \in BOOLEAN /\ stream \in {"closed", "open"}
    BY Zenon DEF Init
  <2> QED BY <2>1, <2>2, BoundsAssumption DEF Init, ScannerOK
<1>4. StackDiscipline
  BY NoCallType DEF Init, StackDiscipline, CallDiscipline, OutsideStates
<1> QED BY <1>1, <1>2, <1>3, <1>4, TypeParts DEF IInv

(* Every step keeps it.                                                    *)
LEMMA NextIInv == IInv /\ [Next]_vars => IInv'
BY DocumentSteps, NodeSteps, BlockSteps, FlowSteps, PeekSteps, OtherSteps DEF Next, Parse

(* So it holds in every state of every behaviour.                          *)
LEMMA Inductive == Spec => []IInv
BY InitIInv, NextIInv, PTL DEF Spec

(* A step of fy_parse_internal() removes at most the token at the head.    *)
LEMMA ParseQueue ==
  ASSUME Parse
  PROVE  queue' \in {queue, Tail(queue)}
<1>1. ASSUME Consume \/ Keep PROVE queue' \in {queue, Tail(queue)}
  BY <1>1 DEF Consume, Keep, scannerVars
<1>2. CASE Document
  <2>1. CASE DocumentEnd
    BY <1>1, <2>1 DEF DocumentEnd, Fail
  <2>2. CASE ~DocumentEnd
    BY <1>1, <1>2, <2>2 DEF Document, StreamStart, DocumentStartEnter, DocumentStartSkipEnd,
       VersionDirective, TagDirective, DirectiveTaken, DirectiveRefused,
       DocumentStartStreamEnd, DocumentStart, SingleDocumentEnd, DocumentContent,
       EndStream, Fail
  <2> QED BY <2>1, <2>2
<1>3. CASE Node
  BY <1>1, <1>3 DEF Node, NodeAlias, NodeProperty, NodeBadTag, NodeIndentless,
     NodeScalar, NodeCollection, NodeEmpty, Fail
<1>4. CASE Block
  BY <1>1, <1>4 DEF Block, BlockSequence, BlockSequenceEntry, BlockMappingKey,
     BlockMappingKeyNode, BlockMappingValue, BlockMappingValueNode, Advance,
     EndCollection, EnterNode, EmptyScalar, Fail
<1>5. CASE Flow
  BY <1>1, <1>5 DEF Flow, FlowSequence, FlowSequenceEntry, FlowSequenceItem,
     FlowSequencePairKey, FlowSequencePairValue, FlowSequencePairValueNode,
     FlowSequencePairEnd, FlowMapping, FlowMappingEntry, FlowMappingItem,
     FlowMappingKeyNode, FlowMappingValue, FlowMappingValueNode, FlowMappingEmptyValue,
     Advance, EndCollection, EnterNode, EmptyScalar, EmptyUnlessJson, Fail
<1> QED BY <1>2, <1>3, <1>4, <1>5 DEF Parse

(* This model's scanner queues a token when the queue is empty.            *)
Short == Len(queue) <= 1

(* So it never holds more than one.                                        *)
LEMMA NextShort == IInv /\ Short /\ [Next]_vars => Short'
<1> SUFFICES ASSUME IInv, Short, [Next]_vars PROVE Short'
  OBVIOUS
<1>1. queue \in Seq(Tokens) /\ Len(queue) \in Nat
  BY DEF IInv, Typed
<1>2. ASSUME queue' = queue PROVE Short'
  BY <1>2 DEF Short
<1>3. CASE Parse
  <2>1. At(call.at)
    BY <1>3 DEF Parse, Document, StreamStart, DocumentStartEnter, DocumentStartSkipEnd,
       VersionDirective, TagDirective, DocumentStartStreamEnd, DocumentStart, DocumentEnd,
       SingleDocumentEnd, DocumentContent, Node, NodeAlias, NodeProperty, NodeBadTag,
       NodeIndentless, NodeScalar, NodeCollection, NodeEmpty, Content, Block, BlockSequence,
       BlockSequenceEntry, BlockMappingKey, BlockMappingKeyNode, BlockMappingValue,
       BlockMappingValueNode, Flow, FlowSequence, FlowSequenceEntry, FlowSequencePairKey,
       FlowSequencePairValue, FlowSequencePairValueNode, FlowSequencePairEnd, FlowMapping,
       FlowMappingEntry, FlowMappingKeyNode, FlowMappingValue, FlowMappingValueNode,
       FlowMappingEmptyValue, Idle, At
  <2>2. queue # << >>
    BY <2>1 DEF At
  <2>3. queue' = Tail(queue) => Len(queue') = Len(queue) - 1
    BY <1>1, <2>2
  <2> QED BY <1>1, <1>2, <1>3, <2>3, ParseQueue DEF Short
<1>4. CASE Peek
  <2>1. queue' = queue \/ (\E t : queue' = <<t>>)
    BY <1>4, Zenon DEF Peek, OpenInput, OpenFail, FetchToken, FetchStreamEnd, ScanFail,
       RepeatStreamEnd, NoToken, Keep, scannerVars
  <2>2. ASSUME NEW t, queue' = <<t>> PROVE Short'
    BY <2>2 DEF Short
  <2> QED BY <1>2, <2>1, <2>2, Zenon
<1>5. CASE API
  BY <1>2, <1>5 DEF API, SetInput, AppendInput, SetNextSingleDocument, Reset, InputReset,
     Keep, scannerVars
<1>6. CASE UNCHANGED vars
  BY <1>2, <1>6 DEF vars, scannerVars
<1> QED BY <1>3, <1>4, <1>5, <1>6 DEF Next

(* Type correctness of the parser: whatever the tokens, the state popped   *)
(* off the stack is one that fy_parse_internal() handles.                  *)
THEOREM TypeCorrect == Spec => []TypeOK
<1>1. Init => Short
  BY DEF Init, Short
<1>2. IInv /\ Short => TypeOK
  BY DEF IInv, Typed, Short, TypeOK
<1> QED BY <1>1, <1>2, NextShort, Inductive, PTL DEF Spec

(* Outside documents the state stack is empty, and inside one DOCUMENT_END *)
(* is at its bottom and only there, so fy_parse_state_pop() never meets an *)
(* empty stack.                                                            *)
THEOREM StackSafe == Spec => []StackDiscipline
<1>1. IInv => StackDiscipline
  BY DEF IInv
<1> QED BY <1>1, Inductive, PTL

-----------------------------------------------------------------------------
(***************************************************************************)
(* The parser implements EventStream, for every token stream.  What is     *)
(* open is the list of words of the states on the stack, followed by those *)
(* of the current one: a state of a collection stands for its innermost    *)
(* word, and the state of a pair inside a flow sequence for that sequence  *)
(* as well.                                                                *)
(***************************************************************************)

(* The states of a pair inside a flow sequence.                            *)
PairStates == {"FLOW_SEQUENCE_ENTRY_MAPPING_KEY", "FLOW_SEQUENCE_ENTRY_MAPPING_VALUE",
               "FLOW_SEQUENCE_ENTRY_MAPPING_END"}

(* The states between two nodes of a collection, or after the root node.   *)
Holding == PushedStates \cup
           {"BLOCK_MAPPING_FIRST_KEY", "FLOW_SEQUENCE_FIRST_ENTRY",
            "FLOW_SEQUENCE_ENTRY_MAPPING_KEY", "FLOW_MAPPING_FIRST_KEY"}

(* The innermost word of a state on the stack, and of the current state.   *)
PendingWord(s) ==
  CASE s = "DOCUMENT_END" -> "root"
    [] s \in SeqEntryStates \cup {"FLOW_SEQUENCE_ENTRY"} -> "seq"
    [] s \in {"BLOCK_MAPPING_VALUE", "FLOW_MAPPING_VALUE", "FLOW_MAPPING_EMPTY_VALUE",
              "FLOW_SEQUENCE_ENTRY_MAPPING_VALUE"} -> "key"
    [] OTHER -> "val"

CurrentWord(s) ==
  CASE s = "DOCUMENT_END" -> "done"
    [] s \in SeqEntryStates \cup {"FLOW_SEQUENCE_ENTRY", "FLOW_SEQUENCE_FIRST_ENTRY"} -> "seq"
    [] s \in {"BLOCK_MAPPING_VALUE", "FLOW_MAPPING_VALUE", "FLOW_MAPPING_EMPTY_VALUE",
              "FLOW_SEQUENCE_ENTRY_MAPPING_VALUE"} -> "val"
    [] OTHER -> "key"

(* The words a state adds, and what then lies beneath the innermost one.   *)
Adds(s, w, c) == c = IF s \in PairStates THEN <<"seq", w>> ELSE <<w>>
Beneath(b, s) == IF s \in PairStates THEN Append(b, "seq") ELSE b

(* What the stack holds open, and Nest as an operator of its parts.        *)
Base(ss) == <<"stream">> \o FlattenSeq([i \in DOMAIN ss |-> Pending(ss[i])])

NestOf(at, st, ss) ==
  (IF st \notin {"NONE", "STREAM_START", "END"} THEN <<"stream">> ELSE << >>)
  \o FlattenSeq([i \in DOMAIN ss |-> Pending(ss[i])])
  \o (IF at = "node" THEN << >> ELSE Current(st))

(* Where a call waits tells the state whose case it runs.                  *)
PointsIn(at, st) ==
  /\ at = "block_key" => st \in {"BLOCK_MAPPING_FIRST_KEY", "BLOCK_MAPPING_KEY"}
  /\ at = "block_value" => st = "BLOCK_MAPPING_VALUE"
  /\ at = "flow_seq_entry" => st = "FLOW_SEQUENCE_ENTRY"
  /\ at = "flow_seq_value" => st = "FLOW_SEQUENCE_ENTRY_MAPPING_VALUE"
  /\ at = "flow_map_entry" => st = "FLOW_MAPPING_KEY"
  /\ at = "flow_map_key" => st \in {"FLOW_MAPPING_FIRST_KEY", "FLOW_MAPPING_KEY"}
  /\ at = "flow_map_value" => st = "FLOW_MAPPING_VALUE"

-----------------------------------------------------------------------------
(* What a state on the stack and the current state add to what is open.    *)
LEMMA StateWords ==
  /\ \A s \in PushedStates :
       /\ PendingWord(s) \in {"root", "seq", "key", "val"} /\ PendingWord(s) \in Words
       /\ CurrentWord(s) = After(PendingWord(s))
       /\ Adds(s, PendingWord(s), Pending(s))
       /\ Pending(s) \in Seq(Words)
  /\ \A s \in Holding :
       /\ CurrentWord(s) \in Words /\ s \notin {"NONE", "STREAM_START", "END"}
       /\ Adds(s, CurrentWord(s), Current(s))
<1>1. ASSUME NEW s \in PushedStates
      PROVE  /\ PendingWord(s) \in {"root", "seq", "key", "val"}
             /\ CurrentWord(s) = After(PendingWord(s))
  BY DEF PushedStates, SeqEntryStates, PendingWord, CurrentWord, After
<1>2. ASSUME NEW s \in PushedStates
      PROVE  Adds(s, PendingWord(s), Pending(s))
  BY DEF PushedStates, SeqEntryStates, PendingWord, Pending, PairStates, Adds
<1>3. ASSUME NEW s \in Holding
      PROVE  Adds(s, CurrentWord(s), Current(s))
  BY DEF Holding, PushedStates, SeqEntryStates, CurrentWord, Current, PairStates, Adds
<1>4. ASSUME NEW s \in Holding
      PROVE  CurrentWord(s) \in Words /\ s \notin {"NONE", "STREAM_START", "END"}
  BY DEF Holding, PushedStates, SeqEntryStates, CurrentWord, Words
<1>5. {"root", "seq", "key", "val"} \subseteq Words
  BY DEF Words
<1>6. \A w \in Words : <<w>> \in Seq(Words) /\ <<"seq", w>> \in Seq(Words)
  BY <1>5
<1>7. ASSUME NEW s \in PushedStates PROVE Pending(s) \in Seq(Words)
  <2>1. PendingWord(s) \in Words /\ Adds(s, PendingWord(s), Pending(s))
    BY <1>1, <1>2, <1>5
  <2>2. Pending(s) = <<PendingWord(s)>> \/ Pending(s) = <<"seq", PendingWord(s)>>
    BY <2>1 DEF Adds
  <2> QED BY <1>6, <2>1, <2>2, Zenon
<1> QED BY <1>1, <1>2, <1>3, <1>4, <1>5, <1>7

(* The words of a state join what is beneath them.                         *)
LEMMA JoinWords ==
  ASSUME NEW b \in Seq(Words), NEW s, NEW c, NEW w \in Words,
         Adds(s, w, c)
  PROVE  b \o c = Append(Beneath(b, s), w) /\ Beneath(b, s) \in Seq(Words) /\ c \in Seq(Words)
<1>1. "seq" \in Words
  BY DEF Words
<1>2. CASE s \in PairStates
  <2>1. b \o <<"seq", w>> = Append(Append(b, "seq"), w)
    BY <1>1, Two
  <2>2. Append(b, "seq") \in Seq(Words)
    BY <1>1, AppendProperties
  <2>3. <<"seq", w>> \in Seq(Words)
    BY <1>1
  <2> QED BY <1>2, <2>1, <2>2, <2>3 DEF Beneath, Adds
<1>3. CASE s \notin PairStates
  <2>1. b \o <<w>> = Append(b, w)
    BY AppendIsConcat
  <2>2. <<w>> \in Seq(Words)
    OBVIOUS
  <2> QED BY <1>3, <2>1, <2>2 DEF Beneath, Adds
<1> QED BY <1>2, <1>3

(* What the stack holds open, and what a state more on it does.            *)
LEMMA BaseStep ==
  ASSUME NEW ss \in Seq(PushedStates), NEW x \in PushedStates
  PROVE  Base(ss) \in Seq(Words) /\ Base(Append(ss, x)) = Base(ss) \o Pending(x)
<1> DEFINE F == [s \in PushedStates |-> Pending(s)]
<1>1. ListMap(F, PushedStates, Words)
  BY StateWords, Zenon DEF ListMap
<1>2. F[x] = Pending(x) /\ Pending(x) \in Seq(Words)
  BY StateWords
<1>3. ASSUME NEW t \in Seq(PushedStates)
      PROVE  Base(t) = <<"stream">> \o Mapped(F, t)
  <2>1. \A i \in DOMAIN t : F[t[i]] = Pending(t[i])
    BY ElementOfSeq, LenProperties
  <2>2. [i \in DOMAIN t |-> F[t[i]]] = [i \in DOMAIN t |-> Pending(t[i])]
    BY <2>1, Zenon
  <2> QED BY <2>2, Zenon DEF Base, Mapped
<1> HIDE DEF F
<1>4. Mapped(F, ss) \in Seq(Words) /\ Mapped(F, Append(ss, x)) = Mapped(F, ss) \o F[x]
  BY <1>1, FlattenMapped
<1>5. Append(ss, x) \in Seq(PushedStates)
  BY AppendProperties
<1>6. <<"stream">> \in Seq(Words)
  BY DEF Words
<1>7. (<<"stream">> \o Mapped(F, ss)) \o Pending(x) = <<"stream">> \o (Mapped(F, ss) \o Pending(x))
  BY <1>2, <1>4, <1>6, ConcatAssociative
<1>8. <<"stream">> \o Mapped(F, ss) \in Seq(Words)
  BY <1>4, <1>6, ConcatProperties
<1> QED BY <1>2, <1>3, <1>4, <1>5, <1>7, <1>8, Zenon

(* What the stack holds open is a list of words.                           *)
LEMMA BaseType ==
  ASSUME NEW ss \in Seq(PushedStates)
  PROVE  Base(ss) \in Seq(Words)
<1>1. "DOCUMENT_END" \in PushedStates
  BY DEF PushedStates
<1> QED BY <1>1, BaseStep, Zenon

(* A state more on the stack holds its words open.                         *)
LEMMA BasePush ==
  ASSUME NEW ss \in Seq(PushedStates), NEW x \in PushedStates
  PROVE  /\ Base(Append(ss, x)) = Append(Beneath(Base(ss), x), PendingWord(x))
         /\ Beneath(Base(ss), x) \in Seq(Words)
<1>1. Base(ss) \in Seq(Words) /\ Base(Append(ss, x)) = Base(ss) \o Pending(x)
  BY BaseStep, Zenon
<1>2. PendingWord(x) \in Words /\ Adds(x, PendingWord(x), Pending(x))
  BY StateWords, Zenon
<1>3. Base(ss) \o Pending(x) = Append(Beneath(Base(ss), x), PendingWord(x))
       /\ Beneath(Base(ss), x) \in Seq(Words)
  BY <1>1, <1>2, JoinWords, Zenon
<1> QED BY <1>1, <1>3

(* What is open inside a document, between two nodes of a collection.      *)
LEMMA Held ==
  ASSUME NEW ss \in Seq(PushedStates), NEW st \in Holding, NEW at, at # "node"
  PROVE  /\ NestOf(at, st, ss) = Append(Beneath(Base(ss), st), CurrentWord(st))
         /\ Beneath(Base(ss), st) \in Seq(Words) /\ CurrentWord(st) \in Words
<1>1. Base(ss) \in Seq(Words)
  BY BaseType, Zenon
<1>2. /\ CurrentWord(st) \in Words /\ st \notin {"NONE", "STREAM_START", "END"}
      /\ Adds(st, CurrentWord(st), Current(st))
  BY StateWords, Zenon
<1>3. NestOf(at, st, ss) = Base(ss) \o Current(st)
  BY <1>2 DEF NestOf, Base
<1>4. /\ Base(ss) \o Current(st) = Append(Beneath(Base(ss), st), CurrentWord(st))
      /\ Beneath(Base(ss), st) \in Seq(Words)
  BY <1>1, <1>2, JoinWords, Zenon
<1> QED BY <1>2, <1>3, <1>4

(* What is open before a node.                                             *)
LEMMA Bare ==
  ASSUME NEW ss \in Seq(PushedStates), NEW st \in ParserStates \ OutsideStates, NEW at,
         at = "node" \/ st \in NodeStates
  PROVE  NestOf(at, st, ss) = Base(ss)
<1>1. st \notin {"NONE", "STREAM_START", "END"}
  BY DEF OutsideStates
<1>2. st \in NodeStates => Current(st) = << >>
  BY DEF NodeStates, Current, SeqEntryStates
<1>3. NestOf(at, st, ss) = Base(ss) \o << >>
  BY <1>1, <1>2, Zenon DEF NestOf, Base
<1>4. Base(ss) \o << >> = Base(ss)
  BY BaseType, ConcatEmptySeq
<1> QED BY <1>3, <1>4

(* A stack in a document waits for a node, and completing that node is     *)
(* what fy_parse_state_pop() does to it.                                   *)
LEMMA Popped ==
  ASSUME NEW ss \in Seq(PushedStates), ss # << >>
  PROVE  /\ Wants(Base(ss)) /\ Base(ss) \in Seq(Words)
         /\ NestOf("idle", Last(ss), Front(ss)) = Complete(Base(ss))
<1> DEFINE f == SubSeq(ss, 1, Len(ss) - 1)
           x == ss[Len(ss)]
<1>1. Last(ss) = x /\ Front(ss) = f
  BY DEF Last, Front
<1>2. f \in Seq(PushedStates) /\ x \in PushedStates /\ ss = Append(f, x)
  BY AppendProperties
<1> HIDE DEF f, x
<1> DEFINE b == Beneath(Base(f), x)
<1>3. Base(ss) = Append(b, PendingWord(x)) /\ b \in Seq(Words)
  BY <1>2, BasePush
<1>4. /\ PendingWord(x) \in {"root", "seq", "key", "val"} /\ PendingWord(x) \in Words
      /\ CurrentWord(x) = After(PendingWord(x)) /\ x \in Holding
  BY <1>2, StateWords DEF Holding
<1>5. NestOf("idle", x, f) = Append(b, CurrentWord(x))
  BY <1>2, <1>4, Held
<1> HIDE DEF b
<1> DEFINE n == Append(b, PendingWord(x))
<1>6. /\ n \in Seq(Words) /\ n # << >> /\ n[Len(n)] = PendingWord(x)
      /\ Complete(n) = Append(b, After(PendingWord(x)))
  BY <1>3, <1>4, Tip
<1> HIDE DEF n
<1>7. Base(ss) = n
  BY <1>3 DEF n
<1> HIDE DEF Complete
<1> QED BY <1>1, <1>4, <1>5, <1>6, <1>7, Zenon DEF Wants

(* What is open outside a document.                                        *)
LEMMA Outside ==
  ASSUME NEW at, at # "node"
  PROVE  /\ \A st \in {"NONE", "STREAM_START", "END"} : NestOf(at, st, << >>) = << >>
         /\ \A st \in {"IMPLICIT_DOCUMENT_START", "DOCUMENT_START", "SINGLE_DOCUMENT_END"} :
              NestOf(at, st, << >>) = <<"stream">>
         /\ NestOf(at, "DOCUMENT_END", << >>) = <<"stream", "done">>
         /\ Base(<<"DOCUMENT_END">>) = <<"stream", "root">>
<1> DEFINE r == << >>
           p == [i \in DOMAIN r |-> Pending(r[i])]
<1>1. p = << >>
  OBVIOUS
<1>2. FlattenSeq(p) = << >>
  BY <1>1 DEF FlattenSeq
<1>3. /\ << >> \o << >> = << >> /\ <<"stream">> \o << >> = <<"stream">>
      /\ <<"stream">> \o <<"done">> = <<"stream", "done">>
      /\ <<"stream">> \o <<"root">> = <<"stream", "root">>
  <2>1. << >> \in Seq(Words) /\ "stream" \in Words /\ "done" \in Words /\ "root" \in Words
    BY DEF Words
  <2>2. << >> \o << >> = << >>
    BY <2>1, ConcatEmptySeq
  <2> QED BY <2>1, <2>2, Joined
<1>4. \A st \in {"NONE", "STREAM_START", "END", "IMPLICIT_DOCUMENT_START",
                 "DOCUMENT_START", "SINGLE_DOCUMENT_END"} : Current(st) = << >>
  BY DEF Current, SeqEntryStates
<1>5. Current("DOCUMENT_END") = <<"done">>
  BY DEF Current, SeqEntryStates
<1>6. \A st : NestOf(at, st, r) =
        (IF st \notin {"NONE", "STREAM_START", "END"} THEN <<"stream">> ELSE << >>)
          \o << >> \o Current(st)
  BY <1>2 DEF NestOf
<1>7. Base(<<"DOCUMENT_END">>) = <<"stream", "root">>
  <2>1. r \in Seq(PushedStates) /\ "DOCUMENT_END" \in PushedStates
    BY DEF PushedStates
  <2>2. Append(r, "DOCUMENT_END") = <<"DOCUMENT_END">>
    OBVIOUS
  <2>3. Base(r) = <<"stream">>
    BY <1>2, <1>3, Zenon DEF Base
  <2>4. PendingWord("DOCUMENT_END") = "root" /\ "DOCUMENT_END" \notin PairStates
    BY DEF PendingWord, PairStates, SeqEntryStates
  <2>5. Base(Append(r, "DOCUMENT_END")) = Append(<<"stream">>, "root")
    BY <2>1, <2>3, <2>4, BasePush, Zenon DEF Beneath
  <2>6. Append(<<"stream">>, "root") = <<"stream", "root">>
    <3>1. <<"stream">> \in Seq(Words) /\ "root" \in Words
      BY DEF Words
    <3>2. Append(<<"stream">>, "root") = <<"stream">> \o <<"root">>
      BY <3>1, AppendIsConcat
    <3> QED BY <1>3, <3>2, Zenon
  <2> QED BY <2>2, <2>5, <2>6
<1> QED BY <1>3, <1>4, <1>5, <1>6, <1>7, Zenon

-----------------------------------------------------------------------------
(* A step of the parser is one of EventStream, and a call that waits does  *)
(* so in the state whose case it runs.                                     *)
PointOK == PointsIn(call.at, state)
Shows   == \/ Follows(event', Nest, Nest')
           \/ event' = "NONE" /\ Nest' \in {Nest, << >>}

(* What a step in a state may do: enter the node that is due, leave it     *)
(* out, end the collection, or begin one.                                  *)
SamePair(st, s) == st \in PairStates <=> s \in PairStates
Enters(st, s) == /\ st \in Holding /\ s \in PushedStates \ {"DOCUMENT_END"} /\ SamePair(st, s)
                 /\ PendingWord(s) = CurrentWord(st)
Skips(st, s)  == /\ st \in Holding /\ s \in Holding /\ SamePair(st, s)
                 /\ CurrentWord(st) \in {"seq", "key", "val"}
                 /\ CurrentWord(s) = After(CurrentWord(st))
Ends(st, e)   == /\ st \in Holding \ PairStates
                 /\ \/ e = "SEQUENCE_END" /\ CurrentWord(st) = "seq"
                    \/ e = "MAPPING_END" /\ CurrentWord(st) = "key"
Begins(e, s)  == /\ s \in Holding \ PairStates
                 /\ \/ e = "SEQUENCE_START" /\ CurrentWord(s) = "seq"
                    \/ e = "MAPPING_START" /\ CurrentWord(s) = "key"

(* Every handler does what is due in its state.                            *)
LEMMA Moves ==
  /\ \A st \in SeqEntryStates :
       Enters(st, st) /\ Skips(st, "BLOCK_SEQUENCE_ENTRY") /\ Ends(st, "SEQUENCE_END")
  /\ \A st \in {"BLOCK_MAPPING_FIRST_KEY", "BLOCK_MAPPING_KEY"} :
       /\ Enters(st, "BLOCK_MAPPING_VALUE") /\ Skips(st, "BLOCK_MAPPING_VALUE")
       /\ Ends(st, "MAPPING_END")
  /\ Enters("BLOCK_MAPPING_VALUE", "BLOCK_MAPPING_KEY")
  /\ Skips("BLOCK_MAPPING_VALUE", "BLOCK_MAPPING_KEY")
  /\ \A st \in {"FLOW_SEQUENCE_FIRST_ENTRY", "FLOW_SEQUENCE_ENTRY"} :
       Enters(st, "FLOW_SEQUENCE_ENTRY") /\ Ends(st, "SEQUENCE_END")
  /\ \A st \in {"FLOW_MAPPING_FIRST_KEY", "FLOW_MAPPING_KEY"} :
       /\ Enters(st, "FLOW_MAPPING_VALUE") /\ Enters(st, "FLOW_MAPPING_EMPTY_VALUE")
       /\ Skips(st, "FLOW_MAPPING_VALUE") /\ Ends(st, "MAPPING_END")
  /\ Enters("FLOW_MAPPING_VALUE", "FLOW_MAPPING_KEY")
  /\ Skips("FLOW_MAPPING_VALUE", "FLOW_MAPPING_KEY")
  /\ Skips("FLOW_MAPPING_EMPTY_VALUE", "FLOW_MAPPING_KEY")
  /\ Enters("FLOW_SEQUENCE_ENTRY_MAPPING_KEY", "FLOW_SEQUENCE_ENTRY_MAPPING_VALUE")
  /\ Skips("FLOW_SEQUENCE_ENTRY_MAPPING_KEY", "FLOW_SEQUENCE_ENTRY_MAPPING_VALUE")
  /\ Enters("FLOW_SEQUENCE_ENTRY_MAPPING_VALUE", "FLOW_SEQUENCE_ENTRY_MAPPING_END")
  /\ Skips("FLOW_SEQUENCE_ENTRY_MAPPING_VALUE", "FLOW_SEQUENCE_ENTRY_MAPPING_END")
<1>1. \A st \in SeqEntryStates :
        Enters(st, st) /\ Skips(st, "BLOCK_SEQUENCE_ENTRY") /\ Ends(st, "SEQUENCE_END")
  BY DEF SeqEntryStates, Enters, Skips, Ends, SamePair, Holding, PushedStates, PairStates,
     CurrentWord, PendingWord, After
<1>2. /\ \A st \in {"BLOCK_MAPPING_FIRST_KEY", "BLOCK_MAPPING_KEY"} :
           /\ Enters(st, "BLOCK_MAPPING_VALUE") /\ Skips(st, "BLOCK_MAPPING_VALUE")
           /\ Ends(st, "MAPPING_END")
      /\ Enters("BLOCK_MAPPING_VALUE", "BLOCK_MAPPING_KEY")
      /\ Skips("BLOCK_MAPPING_VALUE", "BLOCK_MAPPING_KEY")
  BY DEF SeqEntryStates, Enters, Skips, Ends, SamePair, Holding, PushedStates, PairStates,
     CurrentWord, PendingWord, After
<1>3. /\ \A st \in {"FLOW_SEQUENCE_FIRST_ENTRY", "FLOW_SEQUENCE_ENTRY"} :
           Enters(st, "FLOW_SEQUENCE_ENTRY") /\ Ends(st, "SEQUENCE_END")
      /\ \A st \in {"FLOW_MAPPING_FIRST_KEY", "FLOW_MAPPING_KEY"} :
           /\ Enters(st, "FLOW_MAPPING_VALUE") /\ Enters(st, "FLOW_MAPPING_EMPTY_VALUE")
           /\ Skips(st, "FLOW_MAPPING_VALUE") /\ Ends(st, "MAPPING_END")
  BY DEF SeqEntryStates, Enters, Skips, Ends, SamePair, Holding, PushedStates, PairStates,
     CurrentWord, PendingWord, After
<1>4. /\ Enters("FLOW_MAPPING_VALUE", "FLOW_MAPPING_KEY")
      /\ Skips("FLOW_MAPPING_VALUE", "FLOW_MAPPING_KEY")
      /\ Skips("FLOW_MAPPING_EMPTY_VALUE", "FLOW_MAPPING_KEY")
  BY DEF SeqEntryStates, Enters, Skips, SamePair, Holding, PushedStates, PairStates,
     CurrentWord, PendingWord, After
<1>5. /\ Enters("FLOW_SEQUENCE_ENTRY_MAPPING_KEY", "FLOW_SEQUENCE_ENTRY_MAPPING_VALUE")
      /\ Skips("FLOW_SEQUENCE_ENTRY_MAPPING_KEY", "FLOW_SEQUENCE_ENTRY_MAPPING_VALUE")
      /\ Enters("FLOW_SEQUENCE_ENTRY_MAPPING_VALUE", "FLOW_SEQUENCE_ENTRY_MAPPING_END")
      /\ Skips("FLOW_SEQUENCE_ENTRY_MAPPING_VALUE", "FLOW_SEQUENCE_ENTRY_MAPPING_END")
  BY DEF SeqEntryStates, Enters, Skips, SamePair, Holding, PushedStates, PairStates,
     CurrentWord, PendingWord, After
<1> QED BY <1>1, <1>2, <1>3, <1>4, <1>5

(* The collections that fy_parse_node() opens.                             *)
LEMMA Beginnings ==
  /\ \A t \in FlowStarts \cup BlockStarts : Begins(Opens(t)[1], Opens(t)[2])
  /\ Begins("SEQUENCE_START", "INDENTLESS_SEQUENCE_ENTRY")
<1>1. ASSUME NEW t \in FlowStarts \cup BlockStarts
      PROVE  Opens(t) \in {<<"SEQUENCE_START", "FLOW_SEQUENCE_FIRST_ENTRY">>,
                           <<"MAPPING_START", "FLOW_MAPPING_FIRST_KEY">>,
                           <<"SEQUENCE_START", "BLOCK_SEQUENCE_FIRST_ENTRY">>,
                           <<"MAPPING_START", "BLOCK_MAPPING_FIRST_KEY">>}
  BY DEF Opens, FlowStarts, BlockStarts
<1>2. /\ Begins("SEQUENCE_START", "FLOW_SEQUENCE_FIRST_ENTRY")
      /\ Begins("MAPPING_START", "FLOW_MAPPING_FIRST_KEY")
      /\ Begins("SEQUENCE_START", "BLOCK_SEQUENCE_FIRST_ENTRY")
      /\ Begins("MAPPING_START", "BLOCK_MAPPING_FIRST_KEY")
      /\ Begins("SEQUENCE_START", "INDENTLESS_SEQUENCE_ENTRY")
  BY DEF Begins, Holding, PushedStates, SeqEntryStates, PairStates, CurrentWord
<1> QED BY <1>1, <1>2

(* What is open, as an operator of the point, the state and the stack.     *)
LEMMA NestIs == /\ Nest = NestOf(call.at, state, state_stack)
                /\ Nest' = NestOf(call'.at, state', state_stack')
BY DEF Nest, NestOf, InStream

-----------------------------------------------------------------------------
(* The shapes a step takes, and what each of them shows.                   *)

(* The node due is complete: its event is a leaf's and the state is popped.*)
LEMMA LeafShows ==
  ASSUME IInv, state \notin OutsideStates, call.at = "node" \/ state \in NodeStates,
         PopState, NEW e \in {"SCALAR", "ALIAS"}, Return(e)
  PROVE  Shows /\ PointOK'
<1>1. /\ state_stack \in Seq(PushedStates) /\ state_stack # << >>
      /\ state \in ParserStates \ OutsideStates
  BY DEF IInv, Typed, StackDiscipline
<1>2. Nest = Base(state_stack)
  BY <1>1, NestIs, Bare
<1>3. state' = Last(state_stack) /\ state_stack' = Front(state_stack)
  BY <1>1 DEF PopState
<1>4. call'.at = "idle" /\ event' = e
  BY NoCallType DEF Return
<1>5. Nest' = NestOf("idle", Last(state_stack), Front(state_stack))
  BY <1>3, <1>4, NestIs
<1>6. Wants(Base(state_stack)) /\ Nest' = Complete(Base(state_stack))
  BY <1>1, <1>5, Popped
<1> HIDE DEF Complete
<1> QED BY <1>2, <1>4, <1>6 DEF Shows, Follows, PointOK, PointsIn

(* A collection ends: it was the node due.                                 *)
LEMMA EndShows ==
  ASSUME IInv, state \notin OutsideStates, call.at # "node",
         NEW e, Ends(state, e), NEW used \in BOOLEAN, EndCollection(e, used)
  PROVE  Shows /\ PointOK'
<1>1. state_stack \in Seq(PushedStates) /\ state_stack # << >>
  BY DEF IInv, Typed, StackDiscipline
<1>2. state \in Holding /\ state \notin PairStates
  BY DEF Ends
<1> DEFINE b == Base(state_stack)
           w == CurrentWord(state)
           n == Append(b, w)
<1>3. Nest = n /\ b \in Seq(Words) /\ w \in Words
  BY <1>1, <1>2, NestIs, Held DEF Beneath
<1>4. state' = Last(state_stack) /\ state_stack' = Front(state_stack)
  BY <1>1 DEF PopState, EndCollection
<1>5. call'.at = "idle" /\ event' = e
  BY NoCallType DEF Return, EndCollection
<1>6. Nest' = NestOf("idle", Last(state_stack), Front(state_stack))
  BY <1>4, <1>5, NestIs
<1>7. Nest' = Complete(b)
  BY <1>1, <1>6, Popped
<1> HIDE DEF b, w
<1>8. n # << >> /\ n[Len(n)] = w /\ SubSeq(n, 1, Len(n) - 1) = b
  BY <1>3, Tip
<1> HIDE DEF n
<1>9. \/ e = "SEQUENCE_END" /\ w = "seq"
      \/ e = "MAPPING_END" /\ w = "key"
  BY DEF Ends, w
<1> HIDE DEF Complete
<1> QED BY <1>3, <1>5, <1>7, <1>8, <1>9, Zenon DEF Shows, Follows, PointOK, PointsIn

(* The node due is left out.                                               *)
LEMMA SkipShows ==
  ASSUME IInv, call.at # "node", NEW s, Skips(state, s), EmptyScalar(s)
  PROVE  Shows /\ PointOK'
<1>1. state_stack \in Seq(PushedStates)
  BY DEF IInv, Typed
<1> DEFINE b == Beneath(Base(state_stack), state)
           w == CurrentWord(state)
           n == Append(b, w)
<1>2. /\ state \in Holding /\ s \in Holding /\ w \in {"seq", "key", "val"}
      /\ CurrentWord(s) = After(w) /\ Beneath(Base(state_stack), s) = b
  BY DEF Skips, SamePair, Beneath
<1>3. Nest = n /\ b \in Seq(Words) /\ w \in Words
  BY <1>1, <1>2, NestIs, Held
<1>4. state' = s /\ state_stack' = state_stack /\ call'.at = "idle" /\ event' = "SCALAR"
  BY NoCallType DEF EmptyScalar, SetState, Return
<1>5. Nest' = NestOf("idle", s, state_stack)
  BY <1>4, NestIs
<1>6. Nest' = Append(b, After(w))
  BY <1>1, <1>2, <1>5, Held
<1> HIDE DEF b, w
<1>7. n # << >> /\ n[Len(n)] = w /\ Complete(n) = Append(b, After(w))
  BY <1>3, Tip
<1> HIDE DEF n, Complete
<1>8. Wants(n)
  BY <1>2, <1>7 DEF Wants
<1> QED BY <1>3, <1>4, <1>6, <1>7, <1>8 DEF Shows, Follows, PointOK, PointsIn

(* The call goes on to the node due: nothing new is open.                  *)
LEMMA EnterShows ==
  ASSUME IInv, state \notin OutsideStates, call.at # "node", NEW s, Enters(state, s),
         NEW isBlock \in BOOLEAN, EnterNode(s, isBlock)
  PROVE  Shows /\ PointOK'
<1>1. state_stack \in Seq(PushedStates) /\ state \in ParserStates \ OutsideStates
  BY DEF IInv, Typed
<1>2. /\ state \in Holding /\ s \in PushedStates /\ PendingWord(s) = CurrentWord(state)
      /\ Beneath(Base(state_stack), s) = Beneath(Base(state_stack), state)
  BY DEF Enters, SamePair, Beneath
<1>3. Nest = Append(Beneath(Base(state_stack), state), CurrentWord(state))
  BY <1>1, <1>2, NestIs, Held
<1>4. /\ state' = state /\ state_stack' = Append(state_stack, s)
      /\ call'.at = "node" /\ event' = "NONE"
  BY NodeCallType DEF EnterNode, Push, Continue
<1> DEFINE t == Append(state_stack, s)
<1>5. t \in Seq(PushedStates)
  BY <1>1, <1>2, AppendProperties
<1>6. Nest' = NestOf("node", state, t)
  BY <1>4, NestIs
<1>7. NestOf("node", state, t) = Base(t)
  BY <1>1, <1>5, Bare, Zenon
<1>8. Base(t) = Append(Beneath(Base(state_stack), s), PendingWord(s))
  BY <1>1, <1>2, BasePush
<1>9. Nest' = Nest
  BY <1>2, <1>3, <1>6, <1>7, <1>8
<1> QED BY <1>4, <1>9 DEF Shows, PointOK, PointsIn

(* fy_parse_node() meets a collection.                                     *)
LEMMA BeginShows ==
  ASSUME IInv, state \notin OutsideStates, call.at = "node",
         NEW e, NEW s, Begins(e, s), SetState(s), Return(e)
  PROVE  Shows /\ PointOK'
<1>1. /\ state_stack \in Seq(PushedStates) /\ state_stack # << >>
      /\ state \in ParserStates \ OutsideStates
  BY DEF IInv, Typed, StackDiscipline
<1>2. Nest = Base(state_stack)
  BY <1>1, NestIs, Bare
<1>3. Wants(Base(state_stack))
  BY <1>1, Popped
<1>4. state' = s /\ state_stack' = state_stack /\ call'.at = "idle" /\ event' = e
  BY NoCallType DEF SetState, Return
<1>5. Nest' = NestOf("idle", s, state_stack)
  BY <1>4, NestIs
<1>6. Nest' = Append(Base(state_stack), CurrentWord(s))
  BY <1>1, <1>5, Held DEF Begins, Beneath
<1> QED BY <1>2, <1>3, <1>4, <1>6 DEF Begins, Shows, Follows, PointOK, PointsIn

(* A step that leaves the state and the stack alone and delivers nothing.  *)
LEMMA StayShows ==
  ASSUME UNCHANGED <<state, state_stack>>, event' = "NONE",
         call'.at = "node" <=> call.at = "node", PointsIn(call'.at, state)
  PROVE  Shows /\ PointOK'
<1>1. NestOf(call'.at, state, state_stack) = NestOf(call.at, state, state_stack)
  BY Zenon DEF NestOf
<1>2. Nest' = Nest
  BY <1>1, NestIs
<1> QED BY <1>2 DEF Shows, PointOK

(* A handler that goes on to its next point.                               *)
LEMMA AdvanceShows ==
  ASSUME IInv, call.at # "node", NEW p, p # "node", PointsIn(p, state), Advance(p)
  PROVE  Shows /\ PointOK'
<1>1. call'.at = p /\ UNCHANGED <<state, state_stack>> /\ event' = "NONE"
  BY DEF IInv, Typed, Calls, Advance, Goto, Continue
<1> QED BY <1>1, StayShows

(* An error keeps the call and what is open.                               *)
LEMMA FailShows ==
  ASSUME PointOK, Failed, UNCHANGED state
  PROVE  Shows /\ PointOK'
<1>1. call' = call /\ UNCHANGED <<state, state_stack>> /\ event' = "NONE"
  BY DEF Failed
<1> QED BY <1>1, StayShows DEF PointOK

-----------------------------------------------------------------------------
(* What each handler shows.                                                *)

(* A call that is just starting, and one that waits at a point.            *)
LEMMA Starts ==
  ASSUME IInv, PointOK
  PROVE  /\ \A S : Idle(S) => state \in S /\ call.at # "node"
         /\ \A p : At(p) => call.at = p /\ PointsIn(p, state)
BY DEF Idle, At, PointOK

(* The handlers of the block states.                                       *)
LEMMA BlockShows ==
  ASSUME IInv, PointOK, Block
  PROVE  Shows /\ PointOK'
<1> USE Starts, Moves
<1>1. \A st \in Holding \ {"DOCUMENT_END"} : st \notin OutsideStates
  BY DEF Holding, PushedStates, SeqEntryStates, OutsideStates
<1>2. \A st, s : (Enters(st, s) \/ Skips(st, s) \/ Ends(st, s))
        => st \in Holding /\ st # "DOCUMENT_END"
  BY DEF Enters, Skips, Ends, CurrentWord, PendingWord, PushedStates, SeqEntryStates
<1>3. CASE BlockSequence
  <2>1. state \in SeqEntryStates /\ call.at # "node" /\ PointsIn("block_entry", state)
    BY <1>3 DEF BlockSequence, PointsIn
  <2>2. CASE Advance("block_entry")
    BY <2>1, <2>2, AdvanceShows
  <2>3. ASSUME NEW used \in BOOLEAN, EndCollection("SEQUENCE_END", used)
        PROVE  Shows /\ PointOK'
    BY <1>1, <1>2, <2>1, <2>3, EndShows
  <2>4. CASE Fail
    BY <2>4, FailShows DEF Fail
  <2> QED BY <1>3, <2>2, <2>3, <2>4, Zenon DEF BlockSequence
<1>4. CASE BlockSequenceEntry
  <2>1. state \in SeqEntryStates /\ call.at # "node"
    BY <1>4 DEF BlockSequenceEntry, At, IInv, StackDiscipline, CallDiscipline
  <2>2. CASE EnterNode(state, TRUE)
    BY <1>1, <1>2, <2>1, <2>2, EnterShows, Zenon
  <2>3. CASE EmptyScalar("BLOCK_SEQUENCE_ENTRY")
    BY <2>1, <2>3, SkipShows
  <2> QED BY <1>4, <2>2, <2>3, Zenon DEF BlockSequenceEntry
<1>5. CASE BlockMappingKey
  <2>1. /\ state \in {"BLOCK_MAPPING_FIRST_KEY", "BLOCK_MAPPING_KEY"} /\ call.at # "node"
        /\ PointsIn("block_key", state)
    BY <1>5 DEF BlockMappingKey, PointsIn
  <2>2. CASE Advance("block_key")
    BY <2>1, <2>2, AdvanceShows
  <2>3. CASE EndCollection("MAPPING_END", TRUE)
    BY <1>1, <1>2, <2>1, <2>3, EndShows, Zenon
  <2>4. CASE Fail
    BY <2>4, FailShows DEF Fail
  <2> QED BY <1>5, <2>2, <2>3, <2>4, Zenon DEF BlockMappingKey
<1>6. CASE BlockMappingKeyNode
  <2>1. state \in {"BLOCK_MAPPING_FIRST_KEY", "BLOCK_MAPPING_KEY"} /\ call.at # "node"
    BY <1>6 DEF BlockMappingKeyNode, PointsIn
  <2>2. CASE EnterNode("BLOCK_MAPPING_VALUE", TRUE)
    BY <1>1, <1>2, <2>1, <2>2, EnterShows, Zenon
  <2>3. CASE EmptyScalar("BLOCK_MAPPING_VALUE")
    BY <2>1, <2>3, SkipShows
  <2> QED BY <1>6, <2>2, <2>3, Zenon DEF BlockMappingKeyNode
<1>7. CASE BlockMappingValue
  <2>1. state = "BLOCK_MAPPING_VALUE" /\ call.at # "node" /\ PointsIn("block_value", state)
    BY <1>7 DEF BlockMappingValue, PointsIn
  <2>2. CASE Advance("block_value")
    BY <2>1, <2>2, AdvanceShows
  <2>3. CASE EmptyScalar("BLOCK_MAPPING_KEY")
    BY <2>1, <2>3, SkipShows
  <2> QED BY <1>7, <2>2, <2>3 DEF BlockMappingValue
<1>8. CASE BlockMappingValueNode
  <2>1. state = "BLOCK_MAPPING_VALUE" /\ call.at # "node"
    BY <1>8 DEF BlockMappingValueNode, PointsIn
  <2>2. CASE EnterNode("BLOCK_MAPPING_KEY", TRUE)
    BY <1>1, <1>2, <2>1, <2>2, EnterShows, Zenon
  <2>3. CASE EmptyScalar("BLOCK_MAPPING_KEY")
    BY <2>1, <2>3, SkipShows
  <2> QED BY <1>8, <2>2, <2>3, Zenon DEF BlockMappingValueNode
<1> QED BY <1>3, <1>4, <1>5, <1>6, <1>7, <1>8 DEF Block

(* fy_parse_node()                                                         *)
LEMMA NodeShows ==
  ASSUME IInv, PointOK, Node
  PROVE  Shows /\ PointOK'
<1>1. call.at = "node" /\ state \notin OutsideStates /\ call \in Calls
  BY DEF Node, NodeAlias, NodeProperty, NodeBadTag, NodeIndentless,
     NodeScalar, NodeCollection, NodeEmpty, Content, At, IInv, Typed,
     StackDiscipline, CallDiscipline
<1>2. CASE Fail
  BY <1>2, FailShows DEF Fail
<1>3. ASSUME NEW e \in {"SCALAR", "ALIAS"}, PopState, Return(e)
      PROVE  Shows /\ PointOK'
  BY <1>1, <1>3, LeafShows
<1>4. CASE NodeProperty
  <2>1. call'.at = "node" /\ event' = "NONE" /\ UNCHANGED <<state, state_stack>>
    BY <1>1, <1>4 DEF NodeProperty, Continue, Calls
  <2>2. PointsIn("node", state)
    BY DEF PointsIn
  <2> QED BY <1>1, <2>1, <2>2, StayShows
<1>5. CASE NodeIndentless
  BY <1>1, <1>5, Beginnings, BeginShows DEF NodeIndentless
<1>6. CASE NodeCollection
  <2>1. tok \in FlowStarts \cup BlockStarts
    BY <1>6 DEF NodeCollection, Openers
  <2>2. Begins(Opens(tok)[1], Opens(tok)[2])
    BY <2>1, Beginnings
  <2>3. SetState(Opens(tok)[2]) /\ Return(Opens(tok)[1])
    BY <1>6 DEF NodeCollection
  <2> QED BY <1>1, <2>2, <2>3, BeginShows
<1>7. CASE NodeAlias
  BY <1>2, <1>3, <1>7 DEF NodeAlias
<1>8. CASE NodeScalar
  BY <1>3, <1>8 DEF NodeScalar
<1>9. CASE NodeEmpty
  BY <1>2, <1>3, <1>9 DEF NodeEmpty
<1>10. CASE NodeBadTag
  BY <1>2, <1>10 DEF NodeBadTag
<1> QED BY <1>4, <1>5, <1>6, <1>7, <1>8, <1>9, <1>10 DEF Node

(* The entry of a flow sequence, which may be a pair, and the pair's end.  *)
LEMMA PairShows ==
  ASSUME IInv, call.at # "node",
         \/ /\ state \in {"FLOW_SEQUENCE_FIRST_ENTRY", "FLOW_SEQUENCE_ENTRY"}
            /\ SetState("FLOW_SEQUENCE_ENTRY_MAPPING_KEY") /\ Return("MAPPING_START")
         \/ /\ state = "FLOW_SEQUENCE_ENTRY_MAPPING_END"
            /\ SetState("FLOW_SEQUENCE_ENTRY") /\ Return("MAPPING_END")
  PROVE  Shows /\ PointOK'
<1>1. state_stack \in Seq(PushedStates) /\ "seq" \in Words /\ "key" \in Words
  BY DEF IInv, Typed, Words
<1> DEFINE b == Base(state_stack)
           n == Append(b, "seq")
           m == Append(n, "key")
<1>2. /\ \A st \in {"FLOW_SEQUENCE_FIRST_ENTRY", "FLOW_SEQUENCE_ENTRY"} :
           st \in Holding /\ CurrentWord(st) = "seq" /\ Beneath(b, st) = b
      /\ \A st \in {"FLOW_SEQUENCE_ENTRY_MAPPING_KEY", "FLOW_SEQUENCE_ENTRY_MAPPING_END"} :
           st \in Holding /\ CurrentWord(st) = "key" /\ Beneath(b, st) = n
  BY DEF Holding, PushedStates, SeqEntryStates, CurrentWord, Beneath, PairStates
<1>3. b \in Seq(Words)
  BY <1>1, BaseType, Zenon
<1>4. state_stack' = state_stack /\ call'.at = "idle"
  BY NoCallType DEF SetState, Return
<1>5. ASSUME NEW st \in {"FLOW_SEQUENCE_FIRST_ENTRY", "FLOW_SEQUENCE_ENTRY"},
             NEW at, at # "node"
      PROVE  NestOf(at, st, state_stack) = n
  BY <1>1, <1>2, <1>5, Held
<1>6. ASSUME NEW st \in {"FLOW_SEQUENCE_ENTRY_MAPPING_KEY", "FLOW_SEQUENCE_ENTRY_MAPPING_END"},
             NEW at, at # "node"
      PROVE  NestOf(at, st, state_stack) = m
  BY <1>1, <1>2, <1>6, Held
<1> HIDE DEF b
<1>7. /\ n \in Seq(Words) /\ n # << >> /\ n[Len(n)] = "seq"
      /\ Complete(n) = Append(b, After("seq"))
  BY <1>1, <1>3, Tip
<1>8. Complete(n) = n
  BY <1>7 DEF After
<1> HIDE DEF n, Complete
<1>9. m # << >> /\ m[Len(m)] = "key" /\ SubSeq(m, 1, Len(m) - 1) = n
  BY <1>1, <1>7, Tip
<1> HIDE DEF m
<1>10. PointOK'
  BY <1>4 DEF PointOK, PointsIn
<1>11. CASE /\ state \in {"FLOW_SEQUENCE_FIRST_ENTRY", "FLOW_SEQUENCE_ENTRY"}
            /\ SetState("FLOW_SEQUENCE_ENTRY_MAPPING_KEY") /\ Return("MAPPING_START")
  <2>1. state' = "FLOW_SEQUENCE_ENTRY_MAPPING_KEY" /\ event' = "MAPPING_START"
    BY <1>11 DEF SetState, Return
  <2>2. Nest = n /\ Nest' = m
    BY <1>4, <1>5, <1>6, <1>11, <2>1, NestIs
  <2>3. Wants(n)
    BY <1>7 DEF Wants
  <2> QED BY <1>10, <2>1, <2>2, <2>3 DEF Shows, Follows, m
<1>12. CASE /\ state = "FLOW_SEQUENCE_ENTRY_MAPPING_END"
            /\ SetState("FLOW_SEQUENCE_ENTRY") /\ Return("MAPPING_END")
  <2>1. state' = "FLOW_SEQUENCE_ENTRY" /\ event' = "MAPPING_END"
    BY <1>12 DEF SetState, Return
  <2>2. Nest = m /\ Nest' = n
    BY <1>4, <1>5, <1>6, <1>12, <2>1, NestIs
  <2> QED BY <1>8, <1>9, <1>10, <2>1, <2>2, Zenon DEF Shows, Follows
<1> QED BY <1>11, <1>12

(* The handlers of the flow states.                                        *)
LEMMA FlowShows ==
  ASSUME IInv, PointOK, Flow
  PROVE  Shows /\ PointOK'
<1> USE Starts, Moves
<1>1. \A st \in Holding \ {"DOCUMENT_END"} : st \notin OutsideStates
  BY DEF Holding, PushedStates, SeqEntryStates, OutsideStates
<1>2. \A st, s : (Enters(st, s) \/ Skips(st, s) \/ Ends(st, s))
        => st \in Holding /\ st # "DOCUMENT_END"
  BY DEF Enters, Skips, Ends, CurrentWord, PendingWord, PushedStates, SeqEntryStates
<1>3. CASE Fail
  BY <1>3, FailShows DEF Fail
<1>4. ASSUME call.at # "node", NEW s, Enters(state, s), EnterNode(s, FALSE)
      PROVE  Shows /\ PointOK'
  BY <1>1, <1>2, <1>4, EnterShows, Zenon
<1>5. ASSUME call.at # "node", NEW s, Skips(state, s), EmptyUnlessJson(s)
      PROVE  Shows /\ PointOK'
  BY <1>3, <1>5, SkipShows DEF EmptyUnlessJson
<1>6. ASSUME call.at # "node", NEW e, Ends(state, e), EndCollection(e, TRUE)
      PROVE  Shows /\ PointOK'
  BY <1>1, <1>2, <1>6, EndShows, Zenon
<1>7. ASSUME state \in {"FLOW_SEQUENCE_FIRST_ENTRY", "FLOW_SEQUENCE_ENTRY"},
             call.at # "node", FlowSequenceItem
      PROVE  Shows /\ PointOK'
  <2>1. CASE SetState("FLOW_SEQUENCE_ENTRY_MAPPING_KEY") /\ Return("MAPPING_START")
    BY <1>7, <2>1, PairShows
  <2>2. CASE EndCollection("SEQUENCE_END", TRUE)
    BY <1>6, <1>7, <2>2, Zenon
  <2>3. CASE EnterNode("FLOW_SEQUENCE_ENTRY", FALSE)
    BY <1>4, <1>7, <2>3, Zenon
  <2> QED BY <1>7, <2>1, <2>2, <2>3, Zenon DEF FlowSequenceItem
<1>8. ASSUME state \in {"FLOW_MAPPING_FIRST_KEY", "FLOW_MAPPING_KEY"},
             call.at # "node", FlowMappingItem
      PROVE  Shows /\ PointOK'
  <2>1. CASE Advance("flow_map_key")
    <3>1. PointsIn("flow_map_key", state)
      BY <1>8 DEF PointsIn
    <3> QED BY <1>8, <2>1, <3>1, AdvanceShows
  <2>2. CASE EndCollection("MAPPING_END", TRUE)
    BY <1>6, <1>8, <2>2, Zenon
  <2>3. CASE EnterNode("FLOW_MAPPING_EMPTY_VALUE", FALSE)
    BY <1>4, <1>8, <2>3, Zenon
  <2> QED BY <1>3, <1>8, <2>1, <2>2, <2>3, Zenon DEF FlowMappingItem
<1>9. CASE FlowSequence
  <2>1. /\ state \in {"FLOW_SEQUENCE_FIRST_ENTRY", "FLOW_SEQUENCE_ENTRY"}
        /\ call.at # "node"
    BY <1>9 DEF FlowSequence
  <2>2. CASE FlowSequenceItem
    BY <1>7, <2>1, <2>2
  <2>3. CASE EndCollection("SEQUENCE_END", TRUE)
    BY <1>6, <2>1, <2>3, Zenon
  <2>4. CASE state = "FLOW_SEQUENCE_ENTRY" /\ Advance("flow_seq_entry")
    <3>1. PointsIn("flow_seq_entry", state)
      BY <2>4 DEF PointsIn
    <3> QED BY <2>1, <2>4, <3>1, AdvanceShows
  <2> QED BY <1>3, <1>9, <2>1, <2>2, <2>3, <2>4, Zenon DEF FlowSequence
<1>10. CASE FlowSequenceEntry
  <2>1. state = "FLOW_SEQUENCE_ENTRY" /\ call.at # "node" /\ FlowSequenceItem
    BY <1>10 DEF FlowSequenceEntry, PointsIn
  <2> QED BY <1>7, <2>1
<1>11. CASE FlowSequencePairKey
  <2>1. state = "FLOW_SEQUENCE_ENTRY_MAPPING_KEY" /\ call.at # "node"
    BY <1>11 DEF FlowSequencePairKey
  <2> QED BY <1>4, <1>5, <1>11, <2>1, Zenon DEF FlowSequencePairKey
<1>12. CASE FlowSequencePairValue
  <2>1. /\ state = "FLOW_SEQUENCE_ENTRY_MAPPING_VALUE" /\ call.at # "node"
        /\ PointsIn("flow_seq_value", state)
    BY <1>12 DEF FlowSequencePairValue, PointsIn
  <2> QED BY <1>5, <1>12, <2>1, AdvanceShows DEF FlowSequencePairValue
<1>13. CASE FlowSequencePairValueNode
  <2>1. state = "FLOW_SEQUENCE_ENTRY_MAPPING_VALUE" /\ call.at # "node"
    BY <1>13 DEF FlowSequencePairValueNode, PointsIn
  <2> QED BY <1>4, <1>5, <1>13, <2>1, Zenon DEF FlowSequencePairValueNode
<1>14. CASE FlowSequencePairEnd
  <2>1. state = "FLOW_SEQUENCE_ENTRY_MAPPING_END" /\ call.at # "node"
    BY <1>14 DEF FlowSequencePairEnd
  <2> QED BY <1>14, <2>1, PairShows DEF FlowSequencePairEnd
<1>15. CASE FlowMapping
  <2>1. state \in {"FLOW_MAPPING_FIRST_KEY", "FLOW_MAPPING_KEY"} /\ call.at # "node"
    BY <1>15 DEF FlowMapping
  <2>2. CASE FlowMappingItem
    BY <1>8, <2>1, <2>2
  <2>3. CASE state = "FLOW_MAPPING_KEY" /\ Advance("flow_map_entry")
    <3>1. PointsIn("flow_map_entry", state)
      BY <2>3 DEF PointsIn
    <3> QED BY <2>1, <2>3, <3>1, AdvanceShows
  <2> QED BY <1>3, <1>15, <2>1, <2>2, <2>3 DEF FlowMapping
<1>16. CASE FlowMappingEntry
  <2>1. state = "FLOW_MAPPING_KEY" /\ call.at # "node" /\ FlowMappingItem
    BY <1>16 DEF FlowMappingEntry, PointsIn
  <2> QED BY <1>8, <2>1
<1>17. CASE FlowMappingKeyNode
  <2>1. state \in {"FLOW_MAPPING_FIRST_KEY", "FLOW_MAPPING_KEY"} /\ call.at # "node"
    BY <1>17 DEF FlowMappingKeyNode, PointsIn
  <2>2. CASE EmptyScalar("FLOW_MAPPING_VALUE")
    BY <2>1, <2>2, SkipShows
  <2>3. CASE EnterNode("FLOW_MAPPING_VALUE", FALSE)
    BY <1>4, <2>1, <2>3, Zenon
  <2> QED BY <1>3, <1>17, <2>2, <2>3, Zenon DEF FlowMappingKeyNode
<1>18. CASE FlowMappingValue
  <2>1. state = "FLOW_MAPPING_VALUE" /\ call.at # "node" /\ PointsIn("flow_map_value", state)
    BY <1>18 DEF FlowMappingValue, PointsIn
  <2> QED BY <1>5, <1>18, <2>1, AdvanceShows DEF FlowMappingValue
<1>19. CASE FlowMappingValueNode
  <2>1. state = "FLOW_MAPPING_VALUE" /\ call.at # "node"
    BY <1>19 DEF FlowMappingValueNode, PointsIn
  <2> QED BY <1>4, <1>5, <1>19, <2>1, Zenon DEF FlowMappingValueNode
<1>20. CASE FlowMappingEmptyValue
  <2>1. state = "FLOW_MAPPING_EMPTY_VALUE" /\ call.at # "node"
    BY <1>20 DEF FlowMappingEmptyValue
  <2> QED BY <1>20, <2>1, SkipShows DEF FlowMappingEmptyValue
<1> QED BY <1>9, <1>10, <1>11, <1>12, <1>13, <1>14, <1>15, <1>16, <1>17, <1>18,
           <1>19, <1>20 DEF Flow

(* The end of a stream.                                                    *)
LEMMA EndStreamShows ==
  ASSUME state_stack = << >>, call.at # "node", EndStream,
         state \in {"IMPLICIT_DOCUMENT_START", "DOCUMENT_START", "SINGLE_DOCUMENT_END"}
  PROVE  Shows /\ PointOK'
<1>1. /\ state_stack' = << >> /\ state' \in {"NONE", "END"}
      /\ call'.at = "idle" /\ event' = "STREAM_END"
  BY NoCallType DEF EndStream, Return
<1>2. Nest = <<"stream">>
  BY NestIs, Outside
<1>3. Nest' = << >>
  BY <1>1, NestIs, Outside
<1> QED BY <1>1, <1>2, <1>3 DEF Shows, Follows, PointOK, PointsIn

(* The handlers of the document states and of the stream.                  *)
LEMMA DocumentShows ==
  ASSUME IInv, PointOK, Document
  PROVE  Shows /\ PointOK'
<1> USE Starts
<1>1. /\ state \in OutsideStates => state_stack = << >>
      /\ call.at = "docstart" => state \in {"IMPLICIT_DOCUMENT_START", "DOCUMENT_START"}
      /\ call \in Calls
  BY DEF IInv, Typed, StackDiscipline, CallDiscipline
<1>2. CASE Fail
  BY <1>2, FailShows DEF Fail
<1>3. CASE StreamStart
  <2>1. state \in {"NONE", "STREAM_START"} /\ call.at # "node" /\ state_stack = << >>
    BY <1>1, <1>3 DEF StreamStart, OutsideStates
  <2>2. Nest = << >>
    BY <2>1, NestIs, Outside
  <2>3. CASE tok = "STREAM_START"
    <3>1. /\ state' = "IMPLICIT_DOCUMENT_START" /\ state_stack' = << >>
          /\ call'.at = "idle" /\ event' = "STREAM_START"
      BY <1>3, <2>3, NoCallType DEF StreamStart, Return
    <3>2. Nest' = <<"stream">>
      BY <3>1, NestIs, Outside
    <3> QED BY <2>2, <3>1, <3>2 DEF Shows, Follows, PointOK, PointsIn
  <2>4. CASE tok # "STREAM_START"
    <3>1. /\ state' = "STREAM_START" /\ state_stack' = << >>
          /\ call' = call /\ event' = "NONE"
      BY <1>3, <2>1, <2>4 DEF StreamStart, Failed
    <3>2. Nest' = << >>
      BY <2>1, <3>1, NestIs, Outside
    <3>3. PointOK'
      BY <2>1, <3>1 DEF PointOK, PointsIn
    <3> QED BY <3>1, <3>2, <3>3 DEF Shows
  <2> QED BY <2>3, <2>4
<1>4. CASE DocumentStartEnter \/ DocumentStartSkipEnd
  <2>1. call.at # "node" /\ call'.at = "docstart"
    BY <1>1, <1>4 DEF DocumentStartEnter, DocumentStartSkipEnd, Goto, Continue, Calls
  <2>2. event' = "NONE" /\ UNCHANGED <<state, state_stack>>
    BY <1>4 DEF DocumentStartEnter, DocumentStartSkipEnd, Goto, Continue
  <2>3. PointsIn("docstart", state)
    BY DEF PointsIn
  <2> QED BY <2>1, <2>2, <2>3, StayShows
<1>5. CASE VersionDirective \/ TagDirective
  <2>1. call.at = "docstart"
    BY <1>5 DEF VersionDirective, TagDirective
  <2>2. ASSUME NEW ds, DirectiveRefused(ds) PROVE Shows /\ PointOK'
    BY <2>2, FailShows DEF DirectiveRefused
  <2>3. ASSUME NEW ds, DirectiveTaken(ds) PROVE Shows /\ PointOK'
    <3>1. call'.at = "docstart" /\ event' = "NONE" /\ UNCHANGED <<state, state_stack>>
      BY <1>1, <2>1, <2>3 DEF DirectiveTaken, Continue, Calls
    <3>2. PointsIn("docstart", state)
      BY DEF PointsIn
    <3> QED BY <2>1, <3>1, <3>2, StayShows
  <2>4. CASE VersionDirective
    BY <2>2, <2>3, <2>4 DEF VersionDirective
  <2>5. CASE TagDirective
    BY <2>2, <2>3, <2>5 DEF TagDirective
  <2> QED BY <1>5, <2>4, <2>5
<1>6. CASE DocumentStartStreamEnd
  <2>1. call.at = "docstart"
    BY <1>6 DEF DocumentStartStreamEnd
  <2>2. state \in {"IMPLICIT_DOCUMENT_START", "DOCUMENT_START"} /\ state_stack = << >>
    BY <1>1, <2>1 DEF OutsideStates
  <2> QED BY <1>2, <1>6, <2>1, <2>2, EndStreamShows DEF DocumentStartStreamEnd
<1>7. CASE DocumentStart
  <2>1. call.at = "docstart"
    BY <1>7 DEF DocumentStart
  <2>2. state \in {"IMPLICIT_DOCUMENT_START", "DOCUMENT_START"} /\ state_stack = << >>
    BY <1>1, <2>1 DEF OutsideStates
  <2>3. CASE ~Fail
    <3>1. state' \in NodeStates /\ Push("DOCUMENT_END") /\ Return("DOCUMENT_START")
      BY <1>7, <2>3 DEF DocumentStart, NodeStates
    <3>2. /\ state_stack' = <<"DOCUMENT_END">> /\ call'.at = "idle"
          /\ event' = "DOCUMENT_START"
      BY <2>2, <3>1, NoCallType DEF Push, Return
    <3>3. Nest = <<"stream">>
      BY <2>1, <2>2, NestIs, Outside
    <3>4. <<"DOCUMENT_END">> \in Seq(PushedStates) /\ state' \in ParserStates \ OutsideStates
      BY <3>1 DEF PushedStates, NodeStates, ParserStates, OutsideStates
    <3>5. Nest' = NestOf("idle", state', <<"DOCUMENT_END">>)
      BY <3>2, NestIs
    <3>6. Nest' = <<"stream", "root">>
      <4>1. NestOf("idle", state', <<"DOCUMENT_END">>) = Base(<<"DOCUMENT_END">>)
        BY <3>1, <3>4, Bare, Zenon
      <4>2. Base(<<"DOCUMENT_END">>) = <<"stream", "root">>
        BY <2>1, Outside, Zenon
      <4> QED BY <3>5, <4>1, <4>2
    <3>7. <<"stream">> \in Seq(Words) /\ "root" \in Words
      BY DEF Words
    <3>8. <<"stream", "root">> = Append(<<"stream">>, "root")
      BY <3>7, AppendIsConcat, Joined DEF Words
    <3>9. <<"stream">> # << >> /\ <<"stream">>[Len(<<"stream">>)] = "stream"
      OBVIOUS
    <3> QED BY <3>2, <3>3, <3>6, <3>8, <3>9 DEF Shows, Follows, PointOK, PointsIn
  <2> QED BY <1>2, <2>3
<1>8. CASE DocumentEnd
  <2>1. state = "DOCUMENT_END" /\ call.at # "node" /\ state_stack = << >>
    BY <1>1, <1>8 DEF DocumentEnd, OutsideStates
  <2>2. CASE ~Fail
    <3>1. /\ state' \in {"SINGLE_DOCUMENT_END", "DOCUMENT_START"} /\ state_stack' = << >>
          /\ call'.at = "idle" /\ event' = "DOCUMENT_END"
      BY <1>8, <2>1, <2>2, NoCallType DEF DocumentEnd, SetState, Return
    <3>2. Nest = <<"stream", "done">>
      BY <2>1, NestIs, Outside
    <3>3. Nest' = <<"stream">>
      BY <3>1, NestIs, Outside
    <3> DEFINE n == Append(<<"stream">>, "done")
    <3>4. <<"stream">> \in Seq(Words) /\ "done" \in Words /\ "stream" \in Words
      BY DEF Words
    <3>5. n # << >> /\ n[Len(n)] = "done" /\ SubSeq(n, 1, Len(n) - 1) = <<"stream">>
      BY <3>4, Tip, Zenon
    <3>6. <<"stream", "done">> = n
      BY <3>4, AppendIsConcat, Joined
    <3> HIDE DEF n
    <3> QED BY <3>1, <3>2, <3>3, <3>5, <3>6 DEF Shows, Follows, PointOK, PointsIn
  <2> QED BY <1>2, <2>2
<1>9. CASE SingleDocumentEnd
  <2>1. state = "SINGLE_DOCUMENT_END" /\ call.at # "node" /\ state_stack = << >>
    BY <1>1, <1>9 DEF SingleDocumentEnd, OutsideStates
  <2> QED BY <1>2, <1>9, <2>1, EndStreamShows DEF SingleDocumentEnd
<1>10. CASE DocumentContent
  <2>1. state \in NodeStates /\ call.at # "node" /\ state \notin OutsideStates
    BY <1>10, States DEF DocumentContent, InDocument
  <2>2. CASE PopState /\ Return("SCALAR")
    BY <2>1, <2>2, LeafShows
  <2>3. CASE Continue(NodeCall(TRUE)) /\ UNCHANGED <<state, state_stack>>
    <3>1. state_stack \in Seq(PushedStates) /\ state \in ParserStates \ OutsideStates
      BY <2>1 DEF IInv, Typed
    <3>2. /\ call'.at = "node" /\ event' = "NONE"
          /\ state' = state /\ state_stack' = state_stack
      BY <2>3, NodeCallType, Zenon DEF Continue
    <3>3. Nest = Base(state_stack)
      BY <2>1, <3>1, NestIs, Bare
    <3>4. Nest' = NestOf("node", state, state_stack)
      BY <3>2, NestIs
    <3>5. Nest' = Base(state_stack)
      BY <3>1, <3>4, Bare
    <3> QED BY <3>2, <3>3, <3>5 DEF Shows, PointOK, PointsIn
  <2> QED BY <1>10, <2>2, <2>3, Zenon DEF DocumentContent
<1> QED BY <1>3, <1>4, <1>5, <1>6, <1>7, <1>8, <1>9, <1>10 DEF Document

(* Fetching, and the caller's operations.                                  *)
LEMMA OtherShows ==
  ASSUME IInv, PointOK, Peek \/ API
  PROVE  Shows /\ PointOK'
<1>1. call \in Calls
  BY DEF IInv, Typed
<1>2. CASE Peek
  <2>1. Silent /\ ParserIdle
    BY <1>2 DEF Peek, OpenInput, OpenFail, FetchToken, FetchStreamEnd, ScanFail,
       RepeatStreamEnd, NoToken
  <2>2. call'.at = call.at \/ (call.at = "idle" /\ call'.at = "peek")
    BY <1>1, <2>1 DEF Silent, Calls
  <2>3. event' = "NONE" /\ UNCHANGED <<state, state_stack>>
    BY <2>1 DEF Silent, ParserIdle
  <2>4. PointsIn(call'.at, state)
    BY <2>2 DEF PointOK, PointsIn
  <2> QED BY <2>2, <2>3, <2>4, StayShows
<1>3. CASE AppendInput \/ SetNextSingleDocument
  <2>1. call' = call /\ event' = "NONE" /\ UNCHANGED <<state, state_stack>>
    BY <1>3 DEF AppendInput, SetNextSingleDocument, ParserIdle
  <2> QED BY <2>1, StayShows DEF PointOK
<1>4. CASE SetInput \/ Reset
  <2>1. call'.at = "idle" /\ event' = "NONE" /\ state' = "NONE" /\ state_stack' = << >>
    BY <1>4, NoCallType DEF SetInput, Reset, InputReset
  <2>2. Nest' = << >>
    BY <2>1, NestIs, Outside
  <2> QED BY <2>1, <2>2 DEF Shows, PointOK, PointsIn
<1> QED BY <1>2, <1>3, <1>4 DEF API

(* What a step shows is a step of EventStream.                             *)
LEMMA ShowsStep ==
  ASSUME Shows
  PROVE  ES!Next
<1>1. CASE Follows(event', Nest, Nest')
  BY <1>1 DEF Follows, Wants, Complete, After, ES!Next, ES!StreamStart, ES!DocumentStart,
     ES!Leaf, ES!CollectionStart, ES!CollectionEnd, ES!DocumentEnd, ES!StreamEnd, ES!Open,
     ES!Top, ES!WantsNode, ES!Completed, ES!Advance, ES!Outer
<1>2. CASE event' = "NONE" /\ Nest' \in {Nest, << >>}
  BY <1>2 DEF ES!Next, ES!Silent, ES!Abandon
<1> QED BY <1>1, <1>2 DEF Shows

(* Whatever the tokens are, the events that fy_parser_parse() hands out    *)
(* spell a prefix of a well-nested stream: every handler does to the state *)
(* stack what its event does to the nesting, for streams, documents and    *)
(* collections of any number and depth.                                    *)
THEOREM ParserWellNested == Spec => WellNested
<1>1. Init => PointOK /\ ES!Init
  <2> SUFFICES ASSUME Init PROVE PointOK /\ ES!Init
    OBVIOUS
  <2>1. call.at = "idle" /\ state = "NONE" /\ state_stack = << >> /\ event = "NONE"
    BY NoCallType DEF Init
  <2>2. Nest = << >>
    BY <2>1, NestIs, Outside
  <2> QED BY <2>1, <2>2 DEF PointOK, PointsIn, ES!Init
<1>2. IInv /\ PointOK /\ [Next]_vars => PointOK' /\ [ES!Next]_(ES!vars)
  <2> SUFFICES ASSUME IInv, PointOK, [Next]_vars
               PROVE  PointOK' /\ [ES!Next]_(ES!vars)
    OBVIOUS
  <2>1. CASE Next
    BY <2>1, DocumentShows, NodeShows, BlockShows, FlowShows, OtherShows, ShowsStep
       DEF Next, Parse
  <2>2. CASE UNCHANGED vars
    <3>1. PointOK'
      BY <2>2 DEF PointOK, vars, parserVars
    <3>2. Nest' = Nest /\ event' = event
      BY <2>2 DEF Nest, InStream, vars, parserVars
    <3> QED BY <3>1, <3>2 DEF ES!vars
  <2> QED BY <2>1, <2>2
<1> QED BY <1>1, <1>2, Inductive, PTL DEF Spec, WellNested, ES!Spec

-----------------------------------------------------------------------------
(***************************************************************************)
(* What a step of the parser does to the collections that TokenNesting     *)
(* counts: a token that is removed opens and closes in the parser's states *)
(* what it opens and closes in a list of tokens.  Module FyStreamProofs    *)
(* joins this with what the scanner knows of the same tokens.              *)
(***************************************************************************)
Opened == OpenStates(call.at, state, state_stack)
Inner  == {"seq", "map", "[", "{"}
Collections(ss) == FlattenSeq([i \in DOMAIN ss |-> Kind(ss[i])])

(* A token that opens and closes nothing and is not the last one.          *)
Neutral(t) == t \notin BlockStarts \cup FlowStarts \cup FlowEnds \cup {"BLOCK_END", "STREAM_END"}

(* The collection that each state of one stands for.                       *)
LEMMA Kinds ==
  /\ \A st \in {"BLOCK_SEQUENCE_FIRST_ENTRY", "BLOCK_SEQUENCE_ENTRY"} : Kind(st) = <<"seq">>
  /\ \A st \in {"BLOCK_MAPPING_FIRST_KEY", "BLOCK_MAPPING_KEY", "BLOCK_MAPPING_VALUE"} :
       Kind(st) = <<"map">>
  /\ \A st \in {"FLOW_SEQUENCE_FIRST_ENTRY", "FLOW_SEQUENCE_ENTRY",
                "FLOW_SEQUENCE_ENTRY_MAPPING_KEY", "FLOW_SEQUENCE_ENTRY_MAPPING_VALUE",
                "FLOW_SEQUENCE_ENTRY_MAPPING_END"} : Kind(st) = <<"[">>
  /\ \A st \in {"FLOW_MAPPING_FIRST_KEY", "FLOW_MAPPING_KEY", "FLOW_MAPPING_VALUE",
                "FLOW_MAPPING_EMPTY_VALUE"} : Kind(st) = <<"{">>
  /\ \A st \in OutsideStates \cup NodeStates \cup {"INDENTLESS_SEQUENCE_ENTRY"} :
       Kind(st) = << >>
<1>1. \A st \in OutsideStates \cup NodeStates \cup {"INDENTLESS_SEQUENCE_ENTRY"} :
        Kind(st) = << >>
  BY DEF Kind, OutsideStates, NodeStates
<1>2. /\ \A st \in {"BLOCK_SEQUENCE_FIRST_ENTRY", "BLOCK_SEQUENCE_ENTRY"} : Kind(st) = <<"seq">>
      /\ \A st \in {"BLOCK_MAPPING_FIRST_KEY", "BLOCK_MAPPING_KEY", "BLOCK_MAPPING_VALUE"} :
           Kind(st) = <<"map">>
  BY DEF Kind
<1>3. /\ \A st \in {"FLOW_SEQUENCE_FIRST_ENTRY", "FLOW_SEQUENCE_ENTRY",
                    "FLOW_SEQUENCE_ENTRY_MAPPING_KEY", "FLOW_SEQUENCE_ENTRY_MAPPING_VALUE",
                    "FLOW_SEQUENCE_ENTRY_MAPPING_END"} : Kind(st) = <<"[">>
      /\ \A st \in {"FLOW_MAPPING_FIRST_KEY", "FLOW_MAPPING_KEY", "FLOW_MAPPING_VALUE",
                    "FLOW_MAPPING_EMPTY_VALUE"} : Kind(st) = <<"{">>
  BY DEF Kind
<1> QED BY <1>1, <1>2, <1>3

(* It is a list of at most one.                                            *)
LEMMA KindType == \A st : Kind(st) \in Seq(Inner)
<1>1. /\ <<"seq">> \in Seq(Inner) /\ <<"map">> \in Seq(Inner) /\ <<"[">> \in Seq(Inner)
      /\ <<"{">> \in Seq(Inner) /\ << >> \in Seq(Inner)
  BY DEF Inner
<1> QED BY <1>1, Zenon DEF Kind

(* What a state more on the stack adds.                                    *)
LEMMA CollectionsStep ==
  ASSUME NEW ss \in Seq(PushedStates), NEW x \in PushedStates
  PROVE  /\ Collections(ss) \in Seq(Inner)
         /\ Collections(Append(ss, x)) = Collections(ss) \o Kind(x)
<1> DEFINE F == [s \in PushedStates |-> Kind(s)]
<1>1. ListMap(F, PushedStates, Inner)
  BY KindType, Zenon DEF ListMap
<1>2. F[x] = Kind(x)
  OBVIOUS
<1>3. ASSUME NEW t \in Seq(PushedStates)
      PROVE  Collections(t) = Mapped(F, t)
  <2>1. \A i \in DOMAIN t : F[t[i]] = Kind(t[i])
    BY ElementOfSeq, LenProperties
  <2>2. [i \in DOMAIN t |-> F[t[i]]] = [i \in DOMAIN t |-> Kind(t[i])]
    BY <2>1, Zenon
  <2> QED BY <2>2, Zenon DEF Collections, Mapped
<1> HIDE DEF F
<1>4. Mapped(F, ss) \in Seq(Inner) /\ Mapped(F, Append(ss, x)) = Mapped(F, ss) \o F[x]
  BY <1>1, FlattenMapped
<1>5. Append(ss, x) \in Seq(PushedStates)
  BY AppendProperties
<1> QED BY <1>2, <1>3, <1>4, <1>5, Zenon

(* What is open, by the point of the call, the state and the stack.        *)
LEMMA OpenOf ==
  ASSUME NEW ss \in Seq(PushedStates)
  PROVE  /\ Collections(ss) \in Seq(Inner)
         /\ \A at, st : at # "node" => OpenStates(at, st, ss) = Collections(ss) \o Kind(st)
         /\ \A at, st : at = "node" \/ Kind(st) = << >> => OpenStates(at, st, ss) = Collections(ss)
         /\ ss # << >> => OpenStates("idle", Last(ss), Front(ss)) = Collections(ss)
<1>1. Collections(ss) \in Seq(Inner)
  <2>1. "DOCUMENT_END" \in PushedStates
    BY DEF PushedStates
  <2> QED BY <2>1, CollectionsStep, Zenon
<1>2. Collections(ss) \o << >> = Collections(ss)
  BY <1>1, ConcatEmptySeq
<1>3. ASSUME NEW t, NEW at, NEW st, at # "node"
      PROVE  OpenStates(at, st, t) = Collections(t) \o Kind(st)
  BY <1>3, Zenon DEF OpenStates, Collections
<1>4. ASSUME NEW at, NEW st, at = "node" \/ Kind(st) = << >>
      PROVE  OpenStates(at, st, ss) = Collections(ss)
  BY <1>2, <1>4, Zenon DEF OpenStates, Collections
<1>5. ASSUME ss # << >> PROVE OpenStates("idle", Last(ss), Front(ss)) = Collections(ss)
  <2> DEFINE f == SubSeq(ss, 1, Len(ss) - 1)
             x == ss[Len(ss)]
  <2>1. Last(ss) = x /\ Front(ss) = f
    BY DEF Last, Front
  <2>2. f \in Seq(PushedStates) /\ x \in PushedStates /\ ss = Append(f, x)
    BY <1>5, AppendProperties
  <2> HIDE DEF f, x
  <2>3. Collections(ss) = Collections(f) \o Kind(x)
    BY <2>2, CollectionsStep
  <2>4. OpenStates("idle", x, f) = Collections(f) \o Kind(x)
    BY <1>3
  <2> QED BY <2>1, <2>3, <2>4
<1> QED BY <1>1, <1>3, <1>4, <1>5

-----------------------------------------------------------------------------
(* A step inside a stream that begins and ends neither the stream nor the  *)
(* document, and what it may do: fail, leave the token, or remove it.      *)
InnerEvents == {"NONE", "SCALAR", "ALIAS", "SEQUENCE_START", "SEQUENCE_END",
                "MAPPING_START", "MAPPING_END", "DOCUMENT_START"}
Quiet == /\ InStream /\ InStream' /\ event' \notin {"STREAM_START", "STREAM_END"}
         /\ event' = "DOCUMENT_END" => state' # "DOCUMENT_START"
Skip  == Keep \/ (Consume /\ Neutral(tok))
Dies  == /\ stream_error' /\ event' = "NONE"
         /\ Keep \/ (Consume /\ tok # "STREAM_END")
Takes == \/ Dies
         \/ Quiet /\ Keep /\ Opened' = Opened
         \/ Quiet /\ Consume /\ Opened' = Nested(Opened, tok) /\ tok # "STREAM_END"

(* A token that opens and closes nothing.                                  *)
LEMMA SkipTakes ==
  ASSUME Quiet, Skip, Opened' = Opened
  PROVE  Takes
<1>1. CASE Keep
  BY <1>1 DEF Takes
<1>2. CASE Consume /\ Neutral(tok)
  <2>1. Nested(Opened, tok) = Opened /\ tok # "STREAM_END"
    BY <1>2 DEF Neutral, Nested
  <2> QED BY <1>2, <2>1 DEF Takes
<1> QED BY <1>1, <1>2 DEF Skip

(* Events and states that keep a step quiet.                               *)
LEMMA QuietStep ==
  ASSUME state \notin OutsideStates, state' \in PushedStates \cup InDocument,
         event' \in InnerEvents
  PROVE  Quiet
<1>1. InStream
  BY DEF InStream, OutsideStates
<1>2. InStream'
  BY DEF InStream, PushedStates, SeqEntryStates, InDocument, ParserStates, OutsideStates
<1>3. event' \notin {"STREAM_START", "STREAM_END", "DOCUMENT_END"}
  BY DEF InnerEvents
<1> QED BY <1>1, <1>2, <1>3 DEF Quiet

(* The state is popped: nothing was open above it.                         *)
LEMMA LeafTakes ==
  ASSUME IInv, state \notin OutsideStates, call.at = "node" \/ Kind(state) = << >>,
         PopState, NEW e \in InnerEvents, Return(e), Skip
  PROVE  Takes
<1>1. state_stack \in Seq(PushedStates) /\ state_stack # << >>
  BY DEF IInv, Typed, StackDiscipline
<1>2. /\ state' = Last(state_stack) /\ state_stack' = Front(state_stack)
      /\ call'.at = "idle" /\ event' = e
  BY <1>1, NoCallType DEF PopState, Return
<1>3. Opened = Collections(state_stack)
  BY <1>1, OpenOf DEF Opened
<1>4. Opened' = OpenStates("idle", Last(state_stack), Front(state_stack))
  BY <1>2 DEF Opened
<1>5. Opened' = Opened
  BY <1>1, <1>3, <1>4, OpenOf
<1>6. Typed /\ StackDiscipline
  BY DEF IInv
<1>7. state' \in PushedStates
  BY <1>6, PopDiscipline
<1> QED BY <1>2, <1>5, <1>7, QuietStep, SkipTakes

(* The token that ends a collection closes it.                             *)
LEMMA EndTakes ==
  ASSUME IInv, state \notin OutsideStates, call.at # "node", NEW w \in Inner,
         Kind(state) = <<w>>, tok \in FlowEnds \cup {"BLOCK_END"}, w \in ClosedBy(tok),
         NEW e \in InnerEvents, EndCollection(e, TRUE)
  PROVE  Takes
<1>1. state_stack \in Seq(PushedStates) /\ state_stack # << >>
  BY DEF IInv, Typed, StackDiscipline
<1> DEFINE b == Collections(state_stack)
           n == Append(b, w)
<1>2. /\ state' = Last(state_stack) /\ state_stack' = Front(state_stack)
      /\ call'.at = "idle" /\ event' = e /\ Consume
  BY <1>1, NoCallType DEF EndCollection, PopState, Return
<1>3. b \in Seq(Inner) /\ Opened = b \o <<w>>
  <2>1. b \in Seq(Inner) /\ Opened = Collections(state_stack) \o Kind(state)
    BY <1>1, OpenOf, Zenon DEF Opened
  <2> QED BY <2>1
<1>4. Opened' = OpenStates("idle", Last(state_stack), Front(state_stack))
  BY <1>2 DEF Opened
<1>5. Opened' = b
  BY <1>1, <1>4, OpenOf
<1> HIDE DEF b
<1>6. Opened = n
  BY <1>3, AppendIsConcat
<1>7. n # << >> /\ n[Len(n)] = w /\ SubSeq(n, 1, Len(n) - 1) = b
  BY <1>3, AppendProperties
<1> HIDE DEF n
<1>8. tok \notin BlockStarts \cup FlowStarts /\ tok # "STREAM_END"
  BY DEF BlockStarts, FlowStarts, FlowEnds
<1>9. Nested(n, tok) = b
  BY <1>7, <1>8 DEF Nested, Last, Front
<1>10. Typed /\ StackDiscipline /\ PopState
  BY DEF IInv, EndCollection
<1>11. state' \in PushedStates
  BY <1>10, PopDiscipline
<1> QED BY <1>2, <1>5, <1>6, <1>8, <1>9, <1>11, QuietStep DEF Takes

(* The handler goes on in another state of the same collection.            *)
LEMMA SetTakes ==
  ASSUME IInv, state \notin OutsideStates, call.at # "node",
         NEW s \in InDocument, Kind(s) = Kind(state), SetState(s),
         NEW e \in InnerEvents, Return(e), Skip
  PROVE  Takes
<1>1. state_stack \in Seq(PushedStates)
  BY DEF IInv, Typed
<1>2. state' = s /\ state_stack' = state_stack /\ call'.at = "idle" /\ event' = e
  BY NoCallType DEF SetState, Return
<1>3. Opened = Collections(state_stack) \o Kind(state)
  BY <1>1, OpenOf, Zenon DEF Opened
<1>4. Opened' = OpenStates("idle", s, state_stack)
  BY <1>2 DEF Opened
<1>5. Opened' = Collections(state_stack) \o Kind(s)
  BY <1>1, <1>4, OpenOf
<1>6. Opened' = Opened
  BY <1>3, <1>5
<1> QED BY <1>2, <1>6, QuietStep, SkipTakes

(* The handler pushes a state of the same collection and enters a node.    *)
LEMMA EnterTakes ==
  ASSUME IInv, state \notin OutsideStates, call.at # "node",
         NEW s \in PushedStates, Kind(s) = Kind(state), NEW b \in BOOLEAN, EnterNode(s, b)
  PROVE  Takes
<1>1. state_stack \in Seq(PushedStates) /\ state \in InDocument
  BY DEF IInv, Typed, InDocument
<1>2. /\ state' = state /\ state_stack' = Append(state_stack, s) /\ call'.at = "node"
      /\ event' = "NONE" /\ Keep
  BY NodeCallType DEF EnterNode, Push, Continue
<1>3. Append(state_stack, s) \in Seq(PushedStates)
  BY <1>1, AppendProperties
<1>4. Opened' = OpenStates("node", state, Append(state_stack, s))
  BY <1>2 DEF Opened
<1>5. Opened' = Collections(Append(state_stack, s))
  BY <1>3, <1>4, OpenOf
<1>6. Opened = Collections(state_stack) \o Kind(state)
  BY <1>1, OpenOf DEF Opened
<1>7. Opened' = Opened
  BY <1>1, <1>5, <1>6, CollectionsStep
<1>8. Quiet
  BY <1>1, <1>2, QuietStep DEF InnerEvents
<1> QED BY <1>2, <1>7, <1>8 DEF Takes

(* fy_parse_node() meets a collection, which a token opens unless it is an *)
(* indentless sequence.                                                    *)
LEMMA BeginTakes ==
  ASSUME IInv, state \notin OutsideStates, call.at = "node",
         NEW s \in InDocument, SetState(s), NEW e \in InnerEvents, Return(e),
         \/ Keep /\ Kind(s) = << >>
         \/ /\ Consume /\ tok \in BlockStarts \cup FlowStarts
            /\ Kind(s) = <<OpenedBy(tok)>> /\ OpenedBy(tok) \in Inner
  PROVE  Takes
<1>1. state_stack \in Seq(PushedStates)
  BY DEF IInv, Typed
<1>2. state' = s /\ state_stack' = state_stack /\ call'.at = "idle" /\ event' = e
  BY NoCallType DEF SetState, Return
<1>3. Quiet
  BY <1>2, QuietStep
<1> DEFINE b == Collections(state_stack)
<1>4. Opened = b /\ b \in Seq(Inner)
  BY <1>1, OpenOf DEF Opened
<1>5. Opened' = b \o Kind(s) /\ (Kind(s) = << >> => Opened' = b)
  BY <1>1, <1>2, OpenOf DEF Opened
<1> HIDE DEF b
<1>6. CASE Keep /\ Kind(s) = << >>
  BY <1>3, <1>4, <1>5, <1>6 DEF Takes
<1>7. CASE /\ Consume /\ tok \in BlockStarts \cup FlowStarts
           /\ Kind(s) = <<OpenedBy(tok)>> /\ OpenedBy(tok) \in Inner
  <2>1. b \o <<OpenedBy(tok)>> = Append(b, OpenedBy(tok))
    BY <1>4, <1>7, AppendIsConcat
  <2>2. tok \notin FlowEnds \cup {"BLOCK_END"} /\ tok # "STREAM_END"
    BY <1>7 DEF BlockStarts, FlowStarts, FlowEnds
  <2>3. Nested(Opened, tok) = Append(b, OpenedBy(tok))
    BY <1>4, <1>7, <2>2 DEF Nested
  <2> QED BY <1>3, <1>5, <1>7, <2>1, <2>2, <2>3 DEF Takes
<1> QED BY <1>6, <1>7

(* The call goes on in its state.                                          *)
LEMMA StayTakes ==
  ASSUME InStream, UNCHANGED <<state, state_stack>>, event' = "NONE", Skip,
         (call'.at = "node" <=> call.at = "node") \/ Kind(state) = << >>
  PROVE  Takes
<1>1. Opened' = Opened
  BY Zenon DEF Opened, OpenStates
<1>2. Quiet
  BY DEF Quiet, InStream
<1> QED BY <1>1, <1>2, SkipTakes

(* It goes on to its next point.                                           *)
LEMMA AdvanceTakes ==
  ASSUME IInv, state \notin OutsideStates, call.at # "node", NEW p, p # "node",
         Neutral(tok), Advance(p)
  PROVE  Takes
<1>1. call'.at = p /\ UNCHANGED <<state, state_stack>> /\ event' = "NONE" /\ Consume
  BY DEF IInv, Typed, Calls, Advance, Goto, Continue
<1>2. InStream
  BY DEF InStream, OutsideStates
<1> QED BY <1>1, <1>2, StayTakes DEF Skip

(* An error.                                                               *)
LEMMA FailTakes ==
  ASSUME Failed, Keep \/ (Consume /\ tok # "STREAM_END")
  PROVE  Takes
BY DEF Failed, Dies, Takes

-----------------------------------------------------------------------------
(* What each handler takes.                                                *)

(* STREAM_END finds nothing open, or an open bracket that flow_level knows *)
(* of: what the scanner guarantees (FyStreamProofs).                       *)
EndOK == tok = "STREAM_END" =>
           \/ Opened = << >>
           \/ flow_level > 0 /\ Last(Opened) \notin {"seq", "map"}

(* So at STREAM_END no block collection is innermost, nor any collection   *)
(* at flow level zero.                                                     *)
LEMMA EndOpen ==
  ASSUME IInv, EndOK, tok = "STREAM_END", call.at # "node",
         NEW w \in Inner, Kind(state) = <<w>>
  PROVE  w \notin {"seq", "map"} /\ flow_level > 0
<1>1. state_stack \in Seq(PushedStates)
  BY DEF IInv, Typed
<1> DEFINE b == Collections(state_stack)
           n == Append(b, w)
<1>2. b \in Seq(Inner) /\ Opened = b \o <<w>>
  <2>1. b \in Seq(Inner) /\ Opened = Collections(state_stack) \o Kind(state)
    BY <1>1, OpenOf, Zenon DEF Opened
  <2> QED BY <2>1
<1> HIDE DEF b
<1>3. Opened = n
  BY <1>2, AppendIsConcat
<1>4. n # << >> /\ n[Len(n)] = w
  BY <1>2, AppendProperties
<1> HIDE DEF n
<1> QED BY <1>3, <1>4 DEF EndOK, Last

(* The tokens that open and close nothing.                                 *)
LEMMA NeutralTokens ==
  \A t \in {"BLOCK_ENTRY", "KEY", "VALUE", "FLOW_ENTRY", "ALIAS", "ANCHOR", "STREAM_START"}
          \cup Tags \cup Scalars \cup Directives \cup DocumentMarkers : Neutral(t)
<1>1. \A t \in {"BLOCK_ENTRY", "KEY", "VALUE", "FLOW_ENTRY", "ALIAS", "ANCHOR", "STREAM_START"} :
        Neutral(t)
  BY DEF Neutral, BlockStarts, FlowStarts, FlowEnds
<1>2. \A t \in Tags \cup Scalars : Neutral(t)
  BY DEF Neutral, BlockStarts, FlowStarts, FlowEnds, Tags, Scalars
<1>3. \A t \in Directives \cup DocumentMarkers : Neutral(t)
  BY DEF Neutral, BlockStarts, FlowStarts, FlowEnds, Directives, VersionDirectives,
     TagDirectives, DocumentMarkers
<1> QED BY <1>1, <1>2, <1>3

(* The handlers of the block states.                                       *)
LEMMA BlockTakes ==
  ASSUME IInv, PointOK, EndOK, Block
  PROVE  Takes
<1> USE Starts
<1>1. /\ \A st \in SeqEntryStates : st \notin OutsideStates /\ st \in PushedStates
      /\ \A st \in {"BLOCK_MAPPING_FIRST_KEY", "BLOCK_MAPPING_KEY", "BLOCK_MAPPING_VALUE"} :
           st \notin OutsideStates /\ st \in InDocument
      /\ {"BLOCK_MAPPING_KEY", "BLOCK_MAPPING_VALUE"} \subseteq PushedStates
      /\ "BLOCK_SEQUENCE_ENTRY" \in InDocument
      /\ "seq" \in Inner /\ "map" \in Inner
      /\ {"SEQUENCE_END", "MAPPING_END", "SCALAR"} \subseteq InnerEvents
  BY DEF SeqEntryStates, OutsideStates, PushedStates, InDocument, ParserStates, Inner, InnerEvents
<1>2. ASSUME Fail PROVE Takes
  BY <1>2, FailTakes DEF Fail
<1>3. ASSUME state \notin OutsideStates, call.at # "node", NEW s \in InDocument,
             Kind(s) = Kind(state), EmptyScalar(s)
      PROVE  Takes
  BY <1>1, <1>3, SetTakes DEF EmptyScalar, Skip
<1>4. ASSUME tok = "BLOCK_END" PROVE tok \in FlowEnds \cup {"BLOCK_END"}
                                      /\ {"seq", "map"} = ClosedBy(tok)
  BY <1>4 DEF ClosedBy
<1>5. CASE BlockSequence
  <2>1. state \in SeqEntryStates /\ call.at # "node" /\ state \notin OutsideStates
    BY <1>1, <1>5 DEF BlockSequence
  <2>2. CASE tok = "BLOCK_ENTRY" /\ Advance("block_entry")
    BY <2>1, <2>2, AdvanceTakes, NeutralTokens
  <2>3. CASE state = "INDENTLESS_SEQUENCE_ENTRY" /\ EndCollection("SEQUENCE_END", FALSE)
    BY <1>1, <2>1, <2>3, LeafTakes, Kinds DEF EndCollection, Skip
  <2>4. CASE /\ state # "INDENTLESS_SEQUENCE_ENTRY" /\ tok = "BLOCK_END"
             /\ EndCollection("SEQUENCE_END", TRUE)
    <3>1. Kind(state) = <<"seq">>
      BY <2>1, <2>4, Kinds DEF SeqEntryStates
    <3> QED BY <1>1, <1>4, <2>1, <2>4, <3>1, EndTakes, Zenon
  <2> QED BY <1>2, <1>5, <2>2, <2>3, <2>4, Zenon DEF BlockSequence
<1>6. CASE BlockSequenceEntry
  <2>1. state \in SeqEntryStates /\ call.at # "node" /\ state \notin OutsideStates
    BY <1>1, <1>6 DEF BlockSequenceEntry, At, IInv, StackDiscipline, CallDiscipline
  <2>2. CASE EnterNode(state, TRUE)
    BY <1>1, <2>1, <2>2, EnterTakes, Zenon
  <2>3. CASE ~EntryHasNode /\ EmptyScalar("BLOCK_SEQUENCE_ENTRY")
    <3>1. state # "INDENTLESS_SEQUENCE_ENTRY"
      BY <2>3 DEF EntryHasNode
    <3>2. Kind("BLOCK_SEQUENCE_ENTRY") = Kind(state)
      BY <2>1, <3>1, Kinds DEF SeqEntryStates
    <3> QED BY <1>1, <1>3, <2>1, <2>3, <3>2, Zenon
  <2> QED BY <1>6, <2>2, <2>3, Zenon DEF BlockSequenceEntry
<1>7. ASSUME state \in {"BLOCK_MAPPING_FIRST_KEY", "BLOCK_MAPPING_KEY", "BLOCK_MAPPING_VALUE"},
             call.at # "node", NEW s \in {"BLOCK_MAPPING_KEY", "BLOCK_MAPPING_VALUE"},
             EnterNode(s, TRUE) \/ EmptyScalar(s)
      PROVE  Takes
  <2>1. Kind(s) = Kind(state) /\ state \notin OutsideStates
    BY <1>1, <1>7, Kinds
  <2> QED BY <1>1, <1>3, <1>7, <2>1, EnterTakes, Zenon
<1>8. CASE BlockMappingKey
  <2>1. /\ state \in {"BLOCK_MAPPING_FIRST_KEY", "BLOCK_MAPPING_KEY"} /\ call.at # "node"
        /\ state \notin OutsideStates /\ Kind(state) = <<"map">>
    <3>1. state \in {"BLOCK_MAPPING_FIRST_KEY", "BLOCK_MAPPING_KEY"} /\ call.at # "node"
      BY <1>8 DEF BlockMappingKey
    <3> QED BY <1>1, <3>1, Kinds
  <2>2. CASE tok = "KEY" /\ Advance("block_key")
    BY <2>1, <2>2, AdvanceTakes, NeutralTokens
  <2>3. ASSUME tok = "STREAM_END" PROVE FALSE
    <3>1. "map" \notin {"seq", "map"}
      BY <1>1, <2>1, <2>3, EndOpen, Zenon
    <3> QED BY <3>1
  <2>4. CASE tok = "BLOCK_END" /\ EndCollection("MAPPING_END", TRUE)
    BY <1>1, <1>4, <2>1, <2>4, EndTakes, Zenon
  <2> QED BY <1>2, <1>8, <2>2, <2>3, <2>4 DEF BlockMappingKey
<1>9. CASE BlockMappingKeyNode
  <2>1. state \in {"BLOCK_MAPPING_FIRST_KEY", "BLOCK_MAPPING_KEY"} /\ call.at # "node"
    BY <1>9 DEF BlockMappingKeyNode, PointsIn
  <2> QED BY <1>7, <1>9, <2>1, Zenon DEF BlockMappingKeyNode
<1>10. CASE BlockMappingValue
  <2>1. /\ state = "BLOCK_MAPPING_VALUE" /\ call.at # "node" /\ state \notin OutsideStates
    BY <1>1, <1>10 DEF BlockMappingValue
  <2>2. CASE tok = "VALUE" /\ Advance("block_value")
    BY <2>1, <2>2, AdvanceTakes, NeutralTokens
  <2> QED BY <1>7, <1>10, <2>1, <2>2, Zenon DEF BlockMappingValue
<1>11. CASE BlockMappingValueNode
  <2>1. state = "BLOCK_MAPPING_VALUE" /\ call.at # "node"
    BY <1>11 DEF BlockMappingValueNode, PointsIn
  <2> QED BY <1>7, <1>11, <2>1, Zenon DEF BlockMappingValueNode
<1> QED BY <1>5, <1>6, <1>8, <1>9, <1>10, <1>11 DEF Block

(* fy_parse_node()                                                         *)
LEMMA NodeTakes ==
  ASSUME IInv, PointOK, Node
  PROVE  Takes
<1>1. call.at = "node" /\ state \notin OutsideStates /\ call \in Calls
  BY DEF Node, NodeAlias, NodeProperty, NodeBadTag, NodeIndentless,
     NodeScalar, NodeCollection, NodeEmpty, Content, At, IInv, Typed,
     StackDiscipline, CallDiscipline
<1>2. ASSUME Fail PROVE Takes
  BY <1>2, FailTakes DEF Fail
<1>3. ASSUME NEW e \in {"SCALAR", "ALIAS"}, PopState, Return(e), Skip
      PROVE  Takes
  BY <1>1, <1>3, LeafTakes DEF InnerEvents
<1>4. CASE NodeProperty
  <2>1. call'.at = "node" /\ event' = "NONE" /\ UNCHANGED <<state, state_stack>>
    BY <1>1, <1>4 DEF NodeProperty, Continue, Calls
  <2>2. Skip
    BY <1>4, NeutralTokens DEF NodeProperty, Skip
  <2>3. InStream
    BY <1>1 DEF InStream, OutsideStates
  <2> QED BY <1>1, <2>1, <2>2, <2>3, StayTakes
<1>5. CASE NodeIndentless
  <2>1. /\ "INDENTLESS_SEQUENCE_ENTRY" \in InDocument /\ "SEQUENCE_START" \in InnerEvents
        /\ Kind("INDENTLESS_SEQUENCE_ENTRY") = << >>
    BY States, Kinds DEF SeqEntryStates, InnerEvents
  <2> QED BY <1>1, <1>5, <2>1, BeginTakes DEF NodeIndentless
<1>6. CASE NodeCollection
  <2>1. tok \in BlockStarts \cup FlowStarts
    BY <1>6 DEF NodeCollection, Openers
  <2>2. Opens(tok)[1] \in InnerEvents /\ Opens(tok)[2] \in InDocument
    BY <2>1, States DEF Opens, FlowStarts, BlockStarts, InnerEvents, SeqEntryStates
  <2>3. Kind(Opens(tok)[2]) = <<OpenedBy(tok)>> /\ OpenedBy(tok) \in Inner
    BY <2>1, Kinds DEF Opens, OpenedBy, FlowStarts, BlockStarts, Inner
  <2>4. SetState(Opens(tok)[2]) /\ Return(Opens(tok)[1]) /\ Consume
    BY <1>6 DEF NodeCollection
  <2> QED BY <1>1, <2>1, <2>2, <2>3, <2>4, BeginTakes
<1>7. CASE NodeAlias
  BY <1>2, <1>3, <1>7, NeutralTokens DEF NodeAlias, Skip
<1>8. CASE NodeScalar
  BY <1>3, <1>8, NeutralTokens DEF NodeScalar, Skip
<1>9. CASE NodeEmpty
  BY <1>2, <1>3, <1>9 DEF NodeEmpty, Skip
<1>10. CASE NodeBadTag
  BY <1>2, <1>10 DEF NodeBadTag
<1> QED BY <1>4, <1>5, <1>6, <1>7, <1>8, <1>9, <1>10 DEF Node

(* The handlers of the flow states.                                        *)
LEMMA FlowTakes ==
  ASSUME IInv, PointOK, EndOK, Flow
  PROVE  Takes
<1> USE Starts
<1> DEFINE SeqStates == {"FLOW_SEQUENCE_FIRST_ENTRY", "FLOW_SEQUENCE_ENTRY",
                         "FLOW_SEQUENCE_ENTRY_MAPPING_KEY",
                         "FLOW_SEQUENCE_ENTRY_MAPPING_VALUE",
                         "FLOW_SEQUENCE_ENTRY_MAPPING_END"}
           MapStates == {"FLOW_MAPPING_FIRST_KEY", "FLOW_MAPPING_KEY", "FLOW_MAPPING_VALUE",
                         "FLOW_MAPPING_EMPTY_VALUE"}
           In(s) == \/ state \in SeqStates /\ s \in SeqStates
                    \/ state \in MapStates /\ s \in MapStates
<1>1. /\ \A st \in SeqStates : Kind(st) = <<"[">> /\ st \in InDocument
      /\ \A st \in MapStates : Kind(st) = <<"{">> /\ st \in InDocument
      /\ "[" \in Inner /\ "{" \in Inner
      /\ {"SEQUENCE_END", "MAPPING_END", "SCALAR", "MAPPING_START"} \subseteq InnerEvents
  BY Kinds, States DEF Inner, InnerEvents
<1>2. \A s : In(s) => Kind(s) = Kind(state) /\ s \in InDocument /\ state \notin OutsideStates
  BY <1>1 DEF InDocument
<1>3. ASSUME Fail PROVE Takes
  BY <1>3, FailTakes DEF Fail
<1>4. ASSUME call.at # "node", NEW s \in PushedStates, In(s), EnterNode(s, FALSE)
      PROVE  Takes
  BY <1>2, <1>4, EnterTakes, Zenon
<1>5. ASSUME call.at # "node", NEW s, In(s), NEW e \in InnerEvents, SetState(s), Return(e), Skip
      PROVE  Takes
  BY <1>2, <1>5, SetTakes, Zenon
<1>6. ASSUME call.at # "node", NEW s, In(s), EmptyScalar(s) \/ EmptyUnlessJson(s)
      PROVE  Takes
  BY <1>1, <1>3, <1>5, <1>6 DEF EmptyScalar, EmptyUnlessJson, Skip
<1>7. ASSUME call.at # "node", In(state), NEW p, p # "node",
             tok \in {"VALUE", "FLOW_ENTRY", "KEY"}, Advance(p)
      PROVE  Takes
  BY <1>2, <1>7, AdvanceTakes, NeutralTokens
<1>8. /\ \A st \in SeqStates : state = st => In(state)
      /\ \A st \in MapStates : state = st => In(state)
  OBVIOUS
<1>9. {"FLOW_SEQUENCE_ENTRY", "FLOW_SEQUENCE_ENTRY_MAPPING_VALUE",
       "FLOW_SEQUENCE_ENTRY_MAPPING_END", "FLOW_MAPPING_KEY", "FLOW_MAPPING_VALUE",
       "FLOW_MAPPING_EMPTY_VALUE"} \subseteq PushedStates
  BY DEF PushedStates
<1>10. ASSUME state \in {"FLOW_SEQUENCE_FIRST_ENTRY", "FLOW_SEQUENCE_ENTRY"},
              call.at # "node", FlowSequenceItem
       PROVE  Takes
  <2>1. state \notin OutsideStates /\ Kind(state) = <<"[">>
        /\ In("FLOW_SEQUENCE_ENTRY_MAPPING_KEY") /\ In("FLOW_SEQUENCE_ENTRY")
    BY <1>1, <1>10 DEF InDocument
  <2>2. CASE /\ tok = "KEY" /\ SetState("FLOW_SEQUENCE_ENTRY_MAPPING_KEY")
             /\ Return("MAPPING_START") /\ Consume
    <3>1. Skip
      BY <2>2, NeutralTokens DEF Skip
    <3> HIDE DEF In
    <3> QED BY <1>1, <1>5, <1>10, <2>1, <2>2, <3>1
  <2>3. CASE tok = "FLOW_SEQUENCE_END" /\ EndCollection("SEQUENCE_END", TRUE)
    <3>1. tok \in FlowEnds \cup {"BLOCK_END"} /\ "[" \in ClosedBy(tok)
      BY <2>3 DEF FlowEnds, ClosedBy
    <3> QED BY <1>1, <1>10, <2>1, <2>3, <3>1, EndTakes, Zenon
  <2>4. CASE EnterNode("FLOW_SEQUENCE_ENTRY", FALSE)
    <3> HIDE DEF In
    <3> QED BY <1>4, <1>9, <1>10, <2>1, <2>4, Zenon
  <2> QED BY <1>10, <2>2, <2>3, <2>4, Zenon DEF FlowSequenceItem
<1>11. ASSUME state \in {"FLOW_MAPPING_FIRST_KEY", "FLOW_MAPPING_KEY"},
              call.at # "node", FlowMappingItem
       PROVE  Takes
  <2>1. state \notin OutsideStates /\ Kind(state) = <<"{">>
        /\ In(state) /\ In("FLOW_MAPPING_EMPTY_VALUE")
    BY <1>1, <1>11 DEF InDocument
  <2>2. CASE tok = "KEY" /\ Advance("flow_map_key")
    <3> HIDE DEF In
    <3> QED BY <1>7, <1>11, <2>1, <2>2
  <2>3. CASE tok = "FLOW_MAPPING_END" /\ EndCollection("MAPPING_END", TRUE)
    <3>1. tok \in FlowEnds \cup {"BLOCK_END"} /\ "{" \in ClosedBy(tok)
      BY <2>3 DEF FlowEnds, ClosedBy
    <3> QED BY <1>1, <1>11, <2>1, <2>3, <3>1, EndTakes, Zenon
  <2>4. CASE EnterNode("FLOW_MAPPING_EMPTY_VALUE", FALSE)
    <3> HIDE DEF In
    <3> QED BY <1>4, <1>9, <1>11, <2>1, <2>4, Zenon
  <2> QED BY <1>3, <1>11, <2>2, <2>3, <2>4, Zenon DEF FlowMappingItem
<1> HIDE DEF In
<1>12. CASE FlowSequence
  <2>1. /\ state \in {"FLOW_SEQUENCE_FIRST_ENTRY", "FLOW_SEQUENCE_ENTRY"}
        /\ call.at # "node"
    BY <1>12 DEF FlowSequence
  <2>2. Kind(state) = <<"[">> /\ In(state)
    BY <1>1, <1>8, <2>1
  <2>3. ASSUME tok = "STREAM_END" PROVE flow_level > 0
    BY <1>1, <2>1, <2>2, <2>3, EndOpen, Zenon
  <2>4. CASE FlowSequenceItem
    BY <1>10, <2>1, <2>4
  <2>5. CASE tok = "FLOW_ENTRY" /\ Advance("flow_seq_entry")
    BY <1>7, <2>1, <2>2, <2>5
  <2> QED BY <1>3, <1>12, <2>3, <2>4, <2>5, Zenon DEF FlowSequence
<1>13. CASE FlowSequenceEntry
  <2>1. state = "FLOW_SEQUENCE_ENTRY" /\ call.at # "node" /\ FlowSequenceItem
    BY <1>13 DEF FlowSequenceEntry, PointsIn
  <2> QED BY <1>10, <2>1
<1>14. ASSUME state \in {"FLOW_SEQUENCE_ENTRY_MAPPING_KEY", "FLOW_SEQUENCE_ENTRY_MAPPING_VALUE",
                        "FLOW_SEQUENCE_ENTRY_MAPPING_END"}
       PROVE  /\ In(state) /\ In("FLOW_SEQUENCE_ENTRY_MAPPING_VALUE")
              /\ In("FLOW_SEQUENCE_ENTRY_MAPPING_END") /\ In("FLOW_SEQUENCE_ENTRY")
  BY <1>14 DEF In
<1>15. ASSUME state \in MapStates
       PROVE  /\ In(state) /\ In("FLOW_MAPPING_KEY") /\ In("FLOW_MAPPING_VALUE")
              /\ In("FLOW_MAPPING_EMPTY_VALUE")
  BY <1>15 DEF In
<1>16. CASE FlowSequencePairKey
  <2>1. state = "FLOW_SEQUENCE_ENTRY_MAPPING_KEY" /\ call.at # "node"
    BY <1>16 DEF FlowSequencePairKey
  <2> QED BY <1>4, <1>6, <1>9, <1>14, <1>16, <2>1, Zenon DEF FlowSequencePairKey
<1>17. CASE FlowSequencePairValue
  <2>1. state = "FLOW_SEQUENCE_ENTRY_MAPPING_VALUE" /\ call.at # "node"
    BY <1>17 DEF FlowSequencePairValue
  <2> QED BY <1>6, <1>7, <1>14, <1>17, <2>1 DEF FlowSequencePairValue
<1>18. CASE FlowSequencePairValueNode
  <2>1. state = "FLOW_SEQUENCE_ENTRY_MAPPING_VALUE" /\ call.at # "node"
    BY <1>18 DEF FlowSequencePairValueNode, PointsIn
  <2> QED BY <1>4, <1>6, <1>9, <1>14, <1>18, <2>1, Zenon DEF FlowSequencePairValueNode
<1>19. CASE FlowSequencePairEnd
  <2>1. state = "FLOW_SEQUENCE_ENTRY_MAPPING_END" /\ call.at # "node" /\ Skip
    BY <1>19 DEF FlowSequencePairEnd, Skip
  <2> QED BY <1>1, <1>5, <1>14, <1>19, <2>1 DEF FlowSequencePairEnd
<1>20. CASE FlowMapping
  <2>1. state \in {"FLOW_MAPPING_FIRST_KEY", "FLOW_MAPPING_KEY"} /\ call.at # "node"
    BY <1>20 DEF FlowMapping
  <2>2. CASE FlowMappingItem
    BY <1>11, <2>1, <2>2
  <2>3. CASE tok = "FLOW_ENTRY" /\ Advance("flow_map_entry")
    BY <1>7, <1>15, <2>1, <2>3
  <2> QED BY <1>3, <1>20, <2>2, <2>3 DEF FlowMapping
<1>21. CASE FlowMappingEntry
  <2>1. state = "FLOW_MAPPING_KEY" /\ call.at # "node" /\ FlowMappingItem
    BY <1>21 DEF FlowMappingEntry, PointsIn
  <2> QED BY <1>11, <2>1
<1>22. CASE FlowMappingKeyNode
  <2>1. state \in {"FLOW_MAPPING_FIRST_KEY", "FLOW_MAPPING_KEY"} /\ call.at # "node"
    BY <1>22 DEF FlowMappingKeyNode, PointsIn
  <2>2. In("FLOW_MAPPING_VALUE")
    BY <1>15, <2>1
  <2> QED BY <1>3, <1>4, <1>6, <1>9, <1>22, <2>1, <2>2, Zenon DEF FlowMappingKeyNode
<1>23. CASE FlowMappingValue
  <2>1. state = "FLOW_MAPPING_VALUE" /\ call.at # "node"
    BY <1>23 DEF FlowMappingValue
  <2> QED BY <1>6, <1>7, <1>15, <1>23, <2>1 DEF FlowMappingValue
<1>24. CASE FlowMappingValueNode
  <2>1. state = "FLOW_MAPPING_VALUE" /\ call.at # "node"
    BY <1>24 DEF FlowMappingValueNode, PointsIn
  <2> QED BY <1>4, <1>6, <1>9, <1>15, <1>24, <2>1, Zenon DEF FlowMappingValueNode
<1>25. CASE FlowMappingEmptyValue
  <2>1. state = "FLOW_MAPPING_EMPTY_VALUE" /\ call.at # "node"
    BY <1>25 DEF FlowMappingEmptyValue
  <2> QED BY <1>6, <1>15, <1>25, <2>1 DEF FlowMappingEmptyValue
<1> QED BY <1>12, <1>13, <1>16, <1>17, <1>18, <1>19, <1>20, <1>21, <1>22, <1>23,
           <1>24, <1>25 DEF Flow

(* The steps that begin and end a stream, and the one that ends a document *)
(* and clears the scanner's flow context.                                  *)
StreamBegins  == /\ ~InStream /\ tok = "STREAM_START" /\ Consume
                 /\ event' = "STREAM_START" /\ state' = "IMPLICIT_DOCUMENT_START"
                 /\ Opened' = << >>
StreamStops   == /\ InStream /\ tok = "STREAM_END" /\ Consume
                 /\ event' = "STREAM_END" /\ state' \in {"NONE", "END"} /\ Opened = << >>
DocumentStops == /\ state = "DOCUMENT_END" /\ state' = "DOCUMENT_START"
                 /\ event' = "DOCUMENT_END" /\ ~call'.had_doc_end
                 /\ flow_level' = 0 /\ UNCHANGED <<queue, json, stream, inputs>>
                 /\ Opened = << >> /\ Opened' = << >>

(* Outside a document no collection is open.                               *)
LEMMA OpenOutside ==
  /\ \A at, st : Kind(st) = << >> => OpenStates(at, st, << >>) = << >>
  /\ \A at, st : Kind(st) = << >> => OpenStates(at, st, <<"DOCUMENT_END">>) = << >>
<1> DEFINE r == << >>
           d == <<"DOCUMENT_END">>
<1>1. r \in Seq(PushedStates) /\ "DOCUMENT_END" \in PushedStates /\ d = Append(r, "DOCUMENT_END")
      /\ d \in Seq(PushedStates)
  BY DEF PushedStates
<1>2. Collections(r) = << >>
  <2>1. [i \in DOMAIN r |-> Kind(r[i])] = << >>
    OBVIOUS
  <2> QED BY <2>1 DEF Collections, FlattenSeq
<1>3. Kind("DOCUMENT_END") = << >>
  BY Kinds DEF OutsideStates
<1>4. << >> \o << >> = << >>
  <2>1. << >> \in Seq(Inner)
    OBVIOUS
  <2> QED BY <2>1, ConcatEmptySeq
<1> HIDE DEF r, d
<1>5. Collections(d) = << >>
  BY <1>1, <1>2, <1>3, <1>4, CollectionsStep
<1>6. \A at, st : Kind(st) = << >> => OpenStates(at, st, r) = << >>
  BY <1>1, <1>2, OpenOf, Zenon
<1>7. \A at, st : Kind(st) = << >> => OpenStates(at, st, d) = << >>
  BY <1>1, <1>5, OpenOf, Zenon
<1> QED BY <1>6, <1>7 DEF r, d

(* The handlers of the document states and of the stream.                  *)
LEMMA DocumentTakes ==
  ASSUME IInv, PointOK, Document
  PROVE  Takes \/ StreamBegins \/ StreamStops \/ DocumentStops
<1> USE Starts
<1>1. /\ state \in OutsideStates => state_stack = << >> /\ Kind(state) = << >>
      /\ call.at = "docstart" => state \in {"IMPLICIT_DOCUMENT_START", "DOCUMENT_START"}
      /\ call \in Calls
  BY Kinds DEF IInv, Typed, StackDiscipline, CallDiscipline
<1>2. /\ Opened = OpenStates(call.at, state, state_stack)
      /\ Opened' = OpenStates(call'.at, state', state_stack')
  BY DEF Opened
<1>3. state \in OutsideStates => Opened = << >>
  BY <1>1, <1>2, OpenOutside
<1>4. {"NONE", "STREAM_START", "IMPLICIT_DOCUMENT_START", "DOCUMENT_START", "DOCUMENT_END",
       "SINGLE_DOCUMENT_END", "END"} \subseteq OutsideStates
  BY DEF OutsideStates
<1>5. ASSUME Fail PROVE Takes
  BY <1>5, FailTakes DEF Fail
<1>6. ASSUME EndStream, tok = "STREAM_END", state \in OutsideStates, InStream
      PROVE  StreamStops
  BY <1>3, <1>6 DEF EndStream, Return, StreamStops, InStream
<1>7. CASE StreamStart
  <2>1. state \in {"NONE", "STREAM_START"}
    BY <1>7 DEF StreamStart
  <2>2. CASE tok = "STREAM_START"
    <3>1. /\ state' = "IMPLICIT_DOCUMENT_START" /\ state_stack' = << >>
          /\ event' = "STREAM_START" /\ Consume
      BY <1>7, <2>2 DEF StreamStart, Return
    <3>2. Kind("IMPLICIT_DOCUMENT_START") = << >>
      BY <1>4, Kinds
    <3>3. Opened' = << >>
      BY <1>2, <3>1, <3>2, OpenOutside
    <3> QED BY <2>1, <2>2, <3>1, <3>3 DEF StreamBegins, InStream
  <2>3. CASE tok # "STREAM_START"
    BY <1>7, <2>3, FailTakes DEF StreamStart
  <2> QED BY <2>2, <2>3
<1>8. CASE DocumentStartEnter \/ DocumentStartSkipEnd
  <2>1. event' = "NONE" /\ UNCHANGED <<state, state_stack>>
    BY <1>8 DEF DocumentStartEnter, DocumentStartSkipEnd, Goto, Continue
  <2>2. state \in {"IMPLICIT_DOCUMENT_START", "DOCUMENT_START"}
    BY <1>1, <1>8 DEF DocumentStartEnter, DocumentStartSkipEnd
  <2>3. Skip
    BY <1>8, NeutralTokens DEF DocumentStartEnter, DocumentStartSkipEnd, Skip, DocumentMarkers
  <2> QED BY <1>1, <1>4, <2>1, <2>2, <2>3, StayTakes DEF InStream
<1>9. CASE VersionDirective \/ TagDirective
  <2>1. state \in {"IMPLICIT_DOCUMENT_START", "DOCUMENT_START"} /\ tok \in Directives
    BY <1>1, <1>9 DEF VersionDirective, TagDirective, Directives
  <2>2. ASSUME NEW ds, DirectiveRefused(ds) PROVE Takes
    BY <2>1, <2>2, NeutralTokens, FailTakes DEF DirectiveRefused, Neutral
  <2>3. ASSUME NEW ds, DirectiveTaken(ds) PROVE Takes
    <3>1. event' = "NONE" /\ UNCHANGED <<state, state_stack>> /\ Skip
      BY <2>1, <2>3, NeutralTokens DEF DirectiveTaken, Continue, Skip
    <3> QED BY <1>1, <1>4, <2>1, <3>1, StayTakes DEF InStream
  <2>4. CASE VersionDirective
    BY <2>2, <2>3, <2>4 DEF VersionDirective
  <2>5. CASE TagDirective
    BY <2>2, <2>3, <2>5 DEF TagDirective
  <2> QED BY <1>9, <2>4, <2>5
<1>10. CASE DocumentStartStreamEnd
  <2>1. /\ state \in {"IMPLICIT_DOCUMENT_START", "DOCUMENT_START"} /\ InStream
        /\ tok = "STREAM_END"
    BY <1>1, <1>10 DEF DocumentStartStreamEnd, InStream
  <2> QED BY <1>4, <1>5, <1>6, <1>10, <2>1 DEF DocumentStartStreamEnd
<1>11. CASE DocumentStart
  <2>1. state \in {"IMPLICIT_DOCUMENT_START", "DOCUMENT_START"} /\ state_stack = << >>
    BY <1>1, <1>4, <1>11 DEF DocumentStart
  <2>2. CASE ~Fail
    <3>1. /\ state' \in NodeStates /\ Push("DOCUMENT_END") /\ Return("DOCUMENT_START")
          /\ Keep \/ (tok = "DOCUMENT_START" /\ Consume)
      BY <1>11, <2>2 DEF DocumentStart, NodeStates
    <3>2. state_stack' = <<"DOCUMENT_END">> /\ event' = "DOCUMENT_START"
      BY <2>1, <3>1 DEF Push, Return
    <3>3. Kind(state') = << >>
      BY <3>1, Kinds
    <3>4. Opened' = << >> /\ Opened = << >>
      BY <1>2, <1>3, <1>4, <2>1, <3>2, <3>3, OpenOutside
    <3>5. Quiet
      BY <2>1, <3>1, <3>2 DEF Quiet, InStream, NodeStates
    <3>6. Skip
      BY <3>1, NeutralTokens DEF Skip, DocumentMarkers
    <3> QED BY <3>4, <3>5, <3>6, SkipTakes
  <2> QED BY <1>5, <2>2
<1>12. CASE DocumentEnd
  <2>1. state = "DOCUMENT_END" /\ state_stack = << >> /\ Opened = << >>
    BY <1>1, <1>3, <1>4, <1>12 DEF DocumentEnd
  <2>2. CASE ~Fail
    <3>1. /\ state' \in {"SINGLE_DOCUMENT_END", "DOCUMENT_START"} /\ state_stack' = << >>
          /\ call' = NoCall /\ event' = "DOCUMENT_END"
          /\ UNCHANGED <<queue, json, stream, inputs>>
          /\ state' = "DOCUMENT_START" => flow_level' = 0
          /\ state' # "DOCUMENT_START" => flow_level' = flow_level
      BY <1>12, <2>1, <2>2 DEF DocumentEnd, SetState, Return
    <3>2. Kind(state') = << >>
      BY <1>4, <3>1, Kinds
    <3>3. Opened' = << >>
      BY <1>2, <3>1, <3>2, OpenOutside
    <3>4. CASE state' = "DOCUMENT_START"
      BY <2>1, <3>1, <3>3, <3>4 DEF DocumentStops, NoCall
    <3>5. CASE state' # "DOCUMENT_START"
      BY <2>1, <3>1, <3>3, <3>5 DEF Takes, Quiet, InStream, Keep, scannerVars
    <3> QED BY <3>4, <3>5
  <2> QED BY <1>5, <2>2
<1>13. CASE SingleDocumentEnd
  <2>1. state = "SINGLE_DOCUMENT_END" /\ InStream
    BY <1>13 DEF SingleDocumentEnd, InStream
  <2> QED BY <1>4, <1>5, <1>6, <1>13, <2>1 DEF SingleDocumentEnd
<1>14. CASE DocumentContent
  <2>1. state \in NodeStates /\ state \notin OutsideStates /\ Kind(state) = << >> /\ InStream
    <3>1. state \in NodeStates
      BY <1>14 DEF DocumentContent
    <3> QED BY <3>1, Kinds DEF OutsideStates, NodeStates, InStream
  <2>2. CASE PopState /\ Return("SCALAR") /\ Keep
    BY <2>1, <2>2, LeafTakes DEF InnerEvents, Skip
  <2>3. CASE Continue(NodeCall(TRUE)) /\ UNCHANGED <<state, state_stack>> /\ Keep
    BY <2>1, <2>3, StayTakes DEF Continue, Skip
  <2> QED BY <1>14, <2>2, <2>3, Zenon DEF DocumentContent
<1> QED BY <1>7, <1>8, <1>9, <1>10, <1>11, <1>12, <1>13, <1>14 DEF Document

(* What any step of fy_parse_internal() does to the head of the queue.     *)
LEMMA ParseTakes ==
  ASSUME IInv, PointOK, EndOK, Parse
  PROVE  Takes \/ StreamBegins \/ StreamStops \/ DocumentStops
BY BlockTakes, NodeTakes, FlowTakes, DocumentTakes DEF Parse

(* It is a step of a stream that has not failed, and finds a token.        *)
LEMMA ParseRuns ==
  ASSUME Parse
  PROVE  ~stream_error /\ queue # << >>
<1>1. ASSUME \E p : At(p) PROVE ~stream_error /\ queue # << >>
  BY <1>1 DEF At
<1>2. CASE Document
  BY <1>1, <1>2 DEF Document, StreamStart, DocumentStartEnter, DocumentStartSkipEnd,
     VersionDirective, TagDirective, DocumentStartStreamEnd, DocumentStart, DocumentEnd,
     SingleDocumentEnd, DocumentContent, Idle
<1>3. CASE Node
  BY <1>1, <1>3 DEF Node, NodeAlias, NodeProperty, NodeBadTag, NodeIndentless,
     NodeScalar, NodeCollection, NodeEmpty, Content
<1>4. CASE Block
  BY <1>1, <1>4 DEF Block, BlockSequence, BlockSequenceEntry, BlockMappingKey,
     BlockMappingKeyNode, BlockMappingValue, BlockMappingValueNode, Idle
<1>5. CASE Flow
  BY <1>1, <1>5 DEF Flow, FlowSequence, FlowSequenceEntry, FlowSequencePairKey,
     FlowSequencePairValue, FlowSequencePairValueNode, FlowSequencePairEnd, FlowMapping,
     FlowMappingEntry, FlowMappingKeyNode, FlowMappingValue, FlowMappingValueNode,
     FlowMappingEmptyValue, Idle
<1> QED BY <1>2, <1>3, <1>4, <1>5 DEF Parse

(* What the scanner does inside a peek is nothing to the parser.           *)
LEMMA PeekKeeps ==
  ASSUME IInv, PointOK, Silent, ParserIdle, ScannerOK', stream_error' \in BOOLEAN
  PROVE  /\ IInv' /\ PointOK' /\ Shows /\ Opened' = Opened
         /\ call'.had_doc_end = call.had_doc_end
<1>1. Typed /\ StackDiscipline /\ call \in Calls
  BY DEF IInv, Typed
<1>2. /\ call' \in Calls /\ (call'.at = call.at \/ (call.at = "idle" /\ call'.at = "peek"))
      /\ call'.had_doc_end = call.had_doc_end
  BY <1>1 DEF Silent, Calls, Points
<1>3. ControlOK' /\ DocOK'
  BY <1>1, <1>2 DEF Typed, ControlOK, DocOK, ParserIdle, Silent, Events
<1>4. StackDiscipline'
  BY <1>1, <1>2 DEF StackDiscipline, CallDiscipline, ParserIdle
<1>5. IInv'
  BY <1>3, <1>4 DEF IInv, Typed, ControlOK, DocOK, ScannerOK
<1>6. event' = "NONE" /\ UNCHANGED <<state, state_stack>>
  BY DEF Silent, ParserIdle
<1>7. PointsIn(call'.at, state)
  BY <1>2 DEF PointOK, PointsIn
<1>8. Shows /\ PointOK'
  BY <1>2, <1>6, <1>7, StayShows
<1>9. Opened' = Opened
  BY <1>2, <1>6 DEF Opened, OpenStates
<1> QED BY <1>2, <1>5, <1>8, <1>9

(* It keeps the invariant and shows a step of EventStream.                 *)
LEMMA ParseKeeps ==
  ASSUME IInv, PointOK, Parse
  PROVE  IInv' /\ PointOK' /\ Shows
BY DocumentSteps, NodeSteps, BlockSteps, FlowSteps, DocumentShows, NodeShows, BlockShows,
   FlowShows DEF Parse

(* A handler of a node or of a collection runs inside a document.          *)
LEMMA RunsInside ==
  ASSUME IInv, PointOK, Node \/ Block \/ Flow
  PROVE  state \notin OutsideStates
<1>1. ASSUME NEW p \in Points \ {"idle", "peek", "docstart"}, At(p)
      PROVE  state \notin OutsideStates
  BY <1>1 DEF At, IInv, StackDiscipline, CallDiscipline
<1>2. ASSUME NEW S \in SUBSET InDocument, Idle(S)
      PROVE  state \notin OutsideStates
  BY <1>2 DEF Idle, At, InDocument
<1>3. CASE Node
  BY <1>1, <1>3 DEF Node, NodeAlias, NodeProperty, NodeBadTag, NodeIndentless,
     NodeScalar, NodeCollection, NodeEmpty, Content, Points
<1>4. CASE Block
  BY <1>1, <1>2, <1>4, States DEF Block, BlockSequence, BlockSequenceEntry, BlockMappingKey,
     BlockMappingKeyNode, BlockMappingValue, BlockMappingValueNode, Points
<1>5. CASE Flow
  BY <1>1, <1>2, <1>5, States DEF Flow, FlowSequence, FlowSequenceEntry, FlowSequencePairKey,
     FlowSequencePairValue, FlowSequencePairValueNode, FlowSequencePairEnd, FlowMapping,
     FlowMappingEntry, FlowMappingKeyNode, FlowMappingValue, FlowMappingValueNode,
     FlowMappingEmptyValue, Points
<1> QED BY <1>3, <1>4, <1>5

(* A document that follows another one without a marker is refused.        *)
LEMMA Refuses ==
  ASSUME IInv, PointOK, Parse, state = "DOCUMENT_START", ~call.had_doc_end,
         tok \notin Directives \cup DocumentMarkers \cup {"STREAM_END"}
  PROVE  \/ Dies
         \/ Keep /\ state' = "DOCUMENT_START" /\ ~call'.had_doc_end /\ event' = "NONE"
<1>1. ~(Node \/ Block \/ Flow) /\ call \in Calls
  BY RunsInside DEF OutsideStates, IInv, Typed
<1>2. tok \notin VersionDirectives \cup TagDirectives \cup {"DOCUMENT_START", "DOCUMENT_END"}
  BY DEF Directives, DocumentMarkers
<1>3. DocumentStartEnter \/ DocumentStart
  BY <1>1, <1>2 DEF Parse, Document, StreamStart, DocumentStartSkipEnd, VersionDirective,
     TagDirective, DocumentStartStreamEnd, DocumentEnd, SingleDocumentEnd, DocumentContent,
     Idle, NodeStates
<1>4. CASE DocumentStartEnter
  BY <1>1, <1>4 DEF DocumentStartEnter, Goto, Continue, Calls
<1>5. CASE DocumentStart
  BY <1>2, <1>5 DEF DocumentStart, Fail, Failed, Dies
<1> QED BY <1>3, <1>4, <1>5

=============================================================================
