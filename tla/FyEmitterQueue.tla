--------------------------- MODULE FyEmitterQueue ---------------------------
(***************************************************************************)
(* Theorems about FyEmitter that relate the queue to what the caller has   *)
(* open: while the caller submits the events of a parser, the nesting it   *)
(* has reached is the one the emitter has acted on, moved on by the queued *)
(* events one after the other.                                             *)
(***************************************************************************)
EXTENDS FyEmitterProofs, FiniteSetTheorems

Event == [type : Events \ {"NONE"},
          mark : {"flow", "block", "implicit", "explicit", "directives", "none"}]

(* h lists the nestings between n and m, one before each event of q.       *)
IsChain(h, q, n, m) ==
  /\ h[1] = n /\ h[Len(q) + 1] = m
  /\ \A i \in 1 .. Len(q) + 1 : h[i] \in Seq(Words)
  /\ \A i \in 1 .. Len(q) : Follows(q[i].type, h[i], h[i + 1])

Chained(q, n, m) == \E h : IsChain(h, q, n, m)

(* Only the first event of a stream starts it.                             *)
StartsOnce(q, st) ==
  \A i \in 1 .. Len(q) : q[i].type = "STREAM_START" => i = 1 /\ st = "STREAM_START"

Queued ==
  /\ strays \in Nat /\ queued_events \in Seq(Event)
  /\ state = "NONE" => queued_events = << >>
  /\ strays = 0 => /\ Chained(queued_events, Open, nest)
                   /\ StartsOnce(queued_events, state)
                   /\ state # "NONE" => ~failed

-----------------------------------------------------------------------------
(* An event leaves one nesting to reach from another.                      *)
LEMMA FollowsOne ==
  ASSUME NEW t, NEW n, NEW m1, NEW m2, Follows(t, n, m1), Follows(t, n, m2)
  PROVE  m1 = m2
BY DEF Follows

(* What is around the innermost of what is open.                           *)
LEMMA OuterType ==
  ASSUME NEW n \in Seq(Words), n # << >>
  PROVE  LET o == SubSeq(n, 1, Len(n) - 1) IN o \in Seq(Words) /\ Len(o) = Len(n) - 1
<1>1. Len(n) \in Nat \ {0}
  BY EmptySeq, Zenon
<1>2. Front(n) \in Seq(Words) /\ Len(Front(n)) = Len(n) - 1
  BY Popped, Zenon
<1> QED BY <1>2 DEF Front

(* The nesting an event leads to, and how much deeper it is.               *)
LEMMA FollowsType ==
  ASSUME NEW t, NEW n \in Seq(Words), NEW m, Follows(t, n, m)
  PROVE  /\ m \in Seq(Words)
         /\ t \in Starts => Len(m) = Len(n) + 1
         /\ t \in Ends => Len(m) = Len(n) - 1
         /\ t \notin Starts \cup Ends => Len(m) = Len(n)
<1>0. /\ "stream" \in Words /\ "root" \in Words /\ "seq" \in Words /\ "key" \in Words
      /\ Len(n) \in Nat
  BY LenProperties DEF Words
<1>1. ASSUME n # << >> PROVE Len(n) > 0
  BY <1>0, <1>1, EmptySeq
<1>2. ASSUME NEW w \in Words, m = Append(n, w) PROVE m \in Seq(Words) /\ Len(m) = Len(n) + 1
  BY <1>2, AppendProperties
<1>3. CASE t = "STREAM_START" /\ n = << >> /\ m = <<"stream">>
  <2>1. m \in Seq(Words) /\ Len(m) = 1 /\ Len(n) = 0
    BY <1>0, <1>3
  <2> QED BY <1>3, <2>1 DEF Starts, Ends
<1>4. CASE t = "DOCUMENT_START" /\ m = Append(n, "root")
  BY <1>0, <1>2, <1>4 DEF Starts, Ends
<1>5. CASE t \in {"SCALAR", "ALIAS"} /\ Wants(n) /\ m = Complete(n)
  <2>1. m \in Seq(Words) /\ Len(m) = Len(n)
    BY <1>0, <1>1, <1>5, Completes, Zenon DEF Wants
  <2> QED BY <1>5, <2>1 DEF Starts, Ends
<1>6. CASE t = "SEQUENCE_START" /\ m = Append(n, "seq")
  BY <1>0, <1>2, <1>6 DEF Starts, Ends
<1>7. CASE t = "MAPPING_START" /\ m = Append(n, "key")
  BY <1>0, <1>2, <1>7 DEF Starts, Ends
<1>8. CASE n # << >> /\ t \in {"SEQUENCE_END", "MAPPING_END"} /\ n[Len(n)] \in {"seq", "key"}
           /\ m = Complete(SubSeq(n, 1, Len(n) - 1))
  <2> DEFINE o == SubSeq(n, 1, Len(n) - 1)
  <2>1. o \in Seq(Words) /\ Len(o) = Len(n) - 1
    BY <1>8, OuterType
  <2> HIDE DEF o
  <2>2. Complete(o) \in Seq(Words) /\ Len(Complete(o)) = Len(o)
    <3>1. CASE Len(o) = 0
      <4>1. o = << >>
        BY <2>1, <3>1, EmptySeq
      <4>2. Complete(<< >>) = << >>
        BY DEF Complete
      <4> QED BY <2>1, <4>1, <4>2, Zenon
    <3>2. CASE Len(o) # 0
      <4>1. Len(o) \in Nat /\ Len(o) > 0
        BY <2>1, <3>2, LenProperties
      <4> QED BY <2>1, <4>1, Completes, Zenon
    <3> QED BY <3>1, <3>2
  <2>3. m \in Seq(Words) /\ Len(m) = Len(n) - 1
    BY <1>8, <2>1, <2>2 DEF o
  <2> QED BY <1>8, <2>3 DEF Starts, Ends
<1>9. CASE t = "DOCUMENT_END" /\ n # << >> /\ n[Len(n)] = "done" /\ m = SubSeq(n, 1, Len(n) - 1)
  <2>1. m \in Seq(Words) /\ Len(m) = Len(n) - 1
    BY <1>9, OuterType
  <2> QED BY <1>9, <2>1 DEF Starts, Ends
<1>10. CASE t = "STREAM_END" /\ n = <<"stream">> /\ m = << >>
  BY <1>10 DEF Starts, Ends
<1> QED BY <1>3, <1>4, <1>5, <1>6, <1>7, <1>8, <1>9, <1>10 DEF Follows

(* An event more in the queue.                                             *)
LEMMA ChainPush ==
  ASSUME NEW q \in Seq(Event), NEW e \in Event, NEW n, NEW m, NEW m2,
         Chained(q, n, m), Follows(e.type, m, m2)
  PROVE  Chained(Append(q, e), n, m2)
<1>1. PICK h : IsChain(h, q, n, m)
  BY DEF Chained
<1> DEFINE k  == Len(q)
           q2 == Append(q, e)
           h2 == [i \in 1 .. k + 2 |-> IF i = k + 2 THEN m2 ELSE h[i]]
<1>2. /\ Len(q2) = k + 1 /\ q2[k + 1] = e /\ (\A i \in 1 .. k : q2[i] = q[i]) /\ k \in Nat
  BY AppendProperties, LenProperties
<1> HIDE DEF q2
<1>3. /\ h[1] = n /\ h[k + 1] = m /\ (\A i \in 1 .. k + 1 : h[i] \in Seq(Words))
      /\ \A i \in 1 .. k : Follows(q[i].type, h[i], h[i + 1])
  BY <1>1 DEF IsChain
<1>4. m2 \in Seq(Words)
  <2>1. m \in Seq(Words)
    BY <1>2, <1>3
  <2> QED BY <2>1, FollowsType, Zenon
<1>5. h2[1] = n /\ h2[k + 2] = m2 /\ \A i \in 1 .. k + 1 : h2[i] = h[i]
  BY <1>2, <1>3
<1> HIDE DEF h2, k
<1>6. ASSUME NEW i \in 1 .. k + 2 PROVE h2[i] \in Seq(Words)
  <2>1. CASE i = k + 2
    BY <1>4, <1>5, <2>1
  <2>2. CASE i \in 1 .. k + 1
    BY <1>3, <1>5, <2>2
  <2> QED BY <1>2, <2>1, <2>2
<1>7. ASSUME NEW i \in 1 .. k + 1 PROVE Follows(q2[i].type, h2[i], h2[i + 1])
  <2>1. CASE i = k + 1
    <3>1. i + 1 = k + 2 /\ k + 1 \in 1 .. k + 1
      BY <1>2, <2>1
    <3>2. q2[i] = e /\ h2[i] = m /\ h2[i + 1] = m2
      BY <1>2, <1>3, <1>5, <2>1, <3>1
    <3> QED BY <3>2
  <2>2. CASE i \in 1 .. k
    <3>1. i + 1 \in 1 .. k + 1
      BY <1>2, <2>2
    <3>2. q2[i] = q[i] /\ h2[i] = h[i] /\ h2[i + 1] = h[i + 1]
      BY <1>2, <1>5, <2>2, <3>1
    <3> QED BY <1>3, <2>2, <3>2
  <2> QED BY <1>2, <2>1, <2>2
<1>8. Len(q2) + 1 = k + 2
  BY <1>2
<1>9. IsChain(h2, q2, n, m2)
  BY <1>2, <1>5, <1>6, <1>7, <1>8 DEF IsChain
<1> QED BY <1>9 DEF Chained, q2

(* The head of the queue acted on.                                         *)
LEMMA ChainPop ==
  ASSUME NEW q \in Seq(Event), q # << >>, NEW n, NEW m, NEW n2,
         Chained(q, n, m), Follows(Head(q).type, n, n2)
  PROVE  Chained(Tail(q), n2, m)
<1>1. PICK h : IsChain(h, q, n, m)
  BY DEF Chained
<1> DEFINE k  == Len(q)
           q2 == Tail(q)
           h2 == [i \in 1 .. k |-> h[i + 1]]
<1>2. k \in Nat /\ k > 0
  BY EmptySeq, LenProperties
<1>3. Len(q2) = k - 1 /\ (\A i \in 1 .. k - 1 : q2[i] = q[i + 1]) /\ Head(q) = q[1]
  BY HeadTailProperties
<1> HIDE DEF q2
<1>4. /\ h[1] = n /\ h[k + 1] = m /\ (\A i \in 1 .. k + 1 : h[i] \in Seq(Words))
      /\ \A i \in 1 .. k : Follows(q[i].type, h[i], h[i + 1])
  BY <1>1 DEF IsChain
<1>5. \A i \in 1 .. k : h2[i] = h[i + 1]
  OBVIOUS
<1> HIDE DEF h2, k
<1>6. h[2] = n2
  <2>1. Follows(q[1].type, h[1], h[1 + 1])
    BY <1>2, <1>4
  <2>2. Follows(q[1].type, n, h[2])
    BY <1>4, <2>1
  <2> QED BY <1>3, <2>2, FollowsOne
<1>7. h2[1] = n2 /\ h2[k] = m
  <2>1. 1 \in 1 .. k /\ k \in 1 .. k /\ 1 + 1 = 2
    BY <1>2
  <2> QED BY <1>4, <1>5, <1>6, <2>1
<1>8. ASSUME NEW i \in 1 .. k PROVE h2[i] \in Seq(Words)
  <2>1. i + 1 \in 1 .. k + 1
    BY <1>2
  <2> QED BY <1>4, <1>5, <2>1
<1>9. ASSUME NEW i \in 1 .. k - 1 PROVE Follows(q2[i].type, h2[i], h2[i + 1])
  <2>1. i \in 1 .. k /\ i + 1 \in 1 .. k
    BY <1>2
  <2>2. Follows(q[i + 1].type, h[i + 1], h[(i + 1) + 1])
    BY <1>4, <2>1
  <2> QED BY <1>3, <1>5, <2>1, <2>2
<1>10. Len(q2) + 1 = k
  BY <1>2, <1>3
<1>11. IsChain(h2, q2, n2, m)
  BY <1>3, <1>7, <1>8, <1>9, <1>10 DEF IsChain
<1> QED BY <1>11 DEF Chained, q2

(* The caller's nesting moves as EventStream says.                         *)
LEMMA SourceFollows ==
  ASSUME Source!Next, fed' # "NONE"
  PROVE  Follows(fed', nest, nest')
BY DEF Follows, Wants, Complete, After, Source!Next, Source!StreamStart,
   Source!DocumentStart, Source!Leaf, Source!CollectionStart, Source!CollectionEnd,
   Source!DocumentEnd, Source!StreamEnd, Source!Open, Source!Top, Source!WantsNode,
   Source!Completed, Source!Advance, Source!Outer, Source!Silent, Source!Abandon

(* An event that may follow what the emitter has acted on is one that its  *)
(* state takes.                                                            *)
LEMMA FollowsExpected ==
  ASSUME Struct, NEW t, NEW m, Follows(t, Open, m),
         t = "STREAM_START" => state = "STREAM_START"
  PROVE  t \in Expected
<1>0. state \in Inside \cup Outside /\ Len(sc_stack) \in Nat
      /\ (state \notin Inside => Len(sc_stack) = 0)
  BY LenProperties DEF Struct, StacksOK
<1>1. CASE state \in Idle
  <2>1. Open = << >>
    BY <1>1 DEF Open, NestOf
  <2>2. << >> # <<"stream">>
    OBVIOUS
  <2>3. t = "STREAM_START"
    BY <2>1, <2>2 DEF Follows, Wants
  <2> QED BY <2>3 DEF Expected
<1>2. CASE state \in {"FIRST_DOCUMENT_START", "DOCUMENT_START"}
  <2>1. Open = <<"stream">>
    BY <1>0, <1>2, NestOutside DEF Open, Inside
  <2>2. <<"stream">> # << >> /\ <<"stream">>[Len(<<"stream">>)] = "stream"
    OBVIOUS
  <2>3. Open # << >> /\ Open[Len(Open)] = "stream"
    BY <2>1, <2>2
  <2>4. t \in {"DOCUMENT_START", "STREAM_END"}
    BY <2>3 DEF Follows, Wants
  <2> QED BY <1>2, <2>4 DEF Expected
<1>3. ASSUME state \notin Idle, NEW w \in Words, Waiting(state) = <<w>>, w # "stream"
      PROVE  \/ t \in NodeEvents /\ w \in {"root", "seq", "key", "val"}
             \/ t = "SEQUENCE_END" /\ w = "seq"
             \/ t = "MAPPING_END" /\ w = "key"
             \/ t = "DOCUMENT_END" /\ w = "done"
  <2>1. Open # << >> /\ Open[Len(Open)] = w
    BY <1>3, WantsIs
  <2>2. Open # <<"stream">>
    <3>1. <<"stream">>[Len(<<"stream">>)] = "stream"
      OBVIOUS
    <3> QED BY <1>3, <2>1, <3>1
  <2> QED BY <1>3, <2>1, <2>2 DEF Follows, Wants, NodeEvents
<1>4. CASE state = "DOCUMENT_CONTENT"
  <2>1. Waiting(state) = <<"root">> /\ state \notin Idle /\ "root" \in Words
    BY <1>4 DEF Waiting, Idle, Words
  <2>2. t \in NodeEvents
    BY <1>3, <2>1
  <2> QED BY <1>4, <2>2 DEF Expected
<1>5. CASE state = "DOCUMENT_END"
  <2>1. Waiting(state) = <<"done">> /\ state \notin Idle /\ "done" \in Words
    BY <1>5 DEF Waiting, Idle, Words
  <2>2. t = "DOCUMENT_END"
    BY <1>3, <2>1
  <2> QED BY <1>5, <2>2 DEF Expected
<1>6. CASE state \in {"SEQUENCE_FIRST_ITEM", "SEQUENCE_ITEM"}
  <2>1. Waiting(state) = <<"seq">> /\ state \notin Idle /\ "seq" \in Words
    BY <1>6 DEF Waiting, Idle, Words
  <2>2. t \in NodeEvents \cup {"SEQUENCE_END"}
    BY <1>3, <2>1
  <2> QED BY <1>6, <2>2 DEF Expected
<1>7. CASE state \in {"MAPPING_FIRST_KEY", "MAPPING_KEY"}
  <2>1. Waiting(state) = <<"key">> /\ state \notin Idle /\ "key" \in Words
    BY <1>7 DEF Waiting, Idle, Words
  <2>2. t \in NodeEvents \cup {"MAPPING_END"}
    BY <1>3, <2>1
  <2> QED BY <1>7, <2>2 DEF Expected
<1>8. CASE state = "MAPPING_VALUE"
  <2>1. Waiting(state) = <<"val">> /\ state \notin Idle /\ "val" \in Words
    BY <1>8 DEF Waiting, Idle, Words
  <2>2. t \in NodeEvents
    BY <1>3, <2>1
  <2> QED BY <1>8, <2>2 DEF Expected
<1> QED BY <1>0, <1>1, <1>2, <1>4, <1>5, <1>6, <1>7, <1>8 DEF Inside, Outside, Idle

(* The states between the documents and before the root of one.            *)
Border == {"FIRST_DOCUMENT_START", "DOCUMENT_START", "DOCUMENT_CONTENT"}

(* The handlers only lead to states of a stream that has started, and those*)
(* of nodes stay within their document.                                    *)
LEMMA HandleStates ==
  ASSUME Struct, NEW e, NEW rest, Handle(e, rest)
  PROVE  /\ state' \notin {"NONE", "STREAM_START"}
         /\ state \in Inside \cup {"DOCUMENT_CONTENT"} => state' \notin Border
<1>1. state_stack \in Seq(Pushed) /\ StacksOK(state, state_stack, sc_stack)
  BY DEF Struct, StacksOK
<1>2. \A x \in Pushed \cup Inside : x \notin {"NONE", "STREAM_START"} \cup Border
  BY DEF Pushed, Inside, Border
<1>3. ASSUME NEW x \in Pushed, NEW flags, NEW indent,
             StreamingNode(e, Append(state_stack, x), flags, indent, rest)
      PROVE  state' \notin {"NONE", "STREAM_START"} \cup Border
  <2>1. PopState(Append(state_stack, x)) = x
    BY <1>1, PushPop, Zenon
  <2> QED BY <1>2, <1>3, <2>1 DEF StreamingNode, LeafNode, CollectionNode, Inside
<1>4. ASSUME EndCollection, state \in Inside PROVE state' \notin {"NONE", "STREAM_START"} \cup Border
  <2>1. Len(state_stack) \in Nat /\ Len(sc_stack) \in Nat
        /\ Len(sc_stack) > 0 /\ Len(sc_stack) <= Len(state_stack)
    BY <1>4, LenProperties DEF Struct, StacksOK
  <2>2. state_stack # << >>
    BY <2>1, EmptySeq
  <2>3. PopState(state_stack) \in Pushed
    BY <1>1, <2>2, Popped, Zenon DEF PopState
  <2> QED BY <1>2, <1>4, <2>3 DEF EndCollection
<1>5. /\ "DOCUMENT_END" \in Pushed /\ "SEQUENCE_ITEM" \in Pushed
      /\ "MAPPING_KEY" \in Pushed /\ "MAPPING_VALUE" \in Pushed
  BY DEF Pushed
<1>6. CASE HandleStreamStart(e) \/ HandleDocumentStart(e) \/ HandleDocumentEnd(e)
  BY <1>6 DEF HandleStreamStart, HandleDocumentStart, HandleDocumentEnd, Inside
<1>7. CASE HandleDocumentContent(e, rest)
  BY <1>3, <1>5, <1>7, Zenon DEF HandleDocumentContent
<1>8. CASE HandleSequenceItem(e, rest)
  BY <1>3, <1>4, <1>5, <1>8 DEF HandleSequenceItem, Inside
<1>9. CASE HandleMappingKey(e, rest)
  BY <1>3, <1>4, <1>5, <1>9 DEF HandleMappingKey, Inside
<1>10. CASE HandleMappingValue(e, rest)
  BY <1>3, <1>5, <1>10 DEF HandleMappingValue
<1> QED BY <1>6, <1>7, <1>8, <1>9, <1>10 DEF Handle

(* A step about no event leaves what is open.                              *)
LEMMA Stays ==
  ASSUME Struct, Next, event' = "NONE"
  PROVE  Open' = Open
BY StepStruct DEF Follows

(* What the caller submits.                                                *)
LEMMA SubmitEvent ==
  ASSUME NEW type \in Events \ {"NONE"}, NEW mark \in Marks(type)
  PROVE  [type |-> type, mark |-> mark] \in Event
<1>1. mark \in {"flow", "block", "implicit", "explicit", "directives", "none"}
  BY DEF Marks
<1> QED BY <1>1 DEF Event

(* The next event to act on is one the state takes.                        *)
LEMMA HeadExpected ==
  ASSUME Struct, Queued, strays = 0, queued_events # << >>
  PROVE  Head(queued_events).type \in Expected
<1> DEFINE q == queued_events
<1>1. q \in Seq(Event) /\ Chained(q, Open, nest) /\ StartsOnce(q, state)
  BY DEF Queued
<1>2. Len(q) \in Nat /\ Len(q) > 0 /\ Head(q) = q[1]
  BY <1>1, EmptySeq, LenProperties, HeadTailProperties
<1>3. PICK h : IsChain(h, q, Open, nest)
  BY <1>1 DEF Chained
<1> HIDE DEF q
<1>4. Follows(q[1].type, Open, h[1 + 1]) 
  BY <1>2, <1>3 DEF IsChain
<1>5. q[1].type = "STREAM_START" => state = "STREAM_START"
  BY <1>1, <1>2 DEF StartsOnce
<1>6. q[1].type \in Expected
  BY <1>4, <1>5, FollowsExpected
<1> QED BY <1>2, <1>6 DEF q

(* Every step keeps the queue in order.                                    *)
LEMMA StepQueued ==
  ASSUME Struct, Queued, Next
  PROVE  Queued'
<1>1. /\ strays \in Nat /\ queued_events \in Seq(Event)
      /\ state = "NONE" => queued_events = << >>
  BY DEF Queued
<1>2. CASE Submit
  <2>1. PICK type \in Events \ {"NONE"} : \E mark \in Marks(type) :
          /\ fed' = type
          /\ \/ /\ Source!Next /\ UNCHANGED strays
                /\ type = "STREAM_START" => state = "NONE"
             \/ strays' = strays + 1
          /\ queued_events' = Append(queued_events, [type |-> type, mark |-> mark])
    BY <1>2 DEF Submit
  <2>2. PICK mark \in Marks(type) :
          /\ fed' = type
          /\ \/ /\ Source!Next /\ UNCHANGED strays
                /\ type = "STREAM_START" => state = "NONE"
             \/ strays' = strays + 1
          /\ queued_events' = Append(queued_events, [type |-> type, mark |-> mark])
    BY <2>1
  <2> DEFINE e == [type |-> type, mark |-> mark]
             q == queued_events
  <2>3. e \in Event /\ e.type = type
    BY SubmitEvent
  <2>4. /\ state' = IF state = "NONE" THEN "STREAM_START" ELSE state
        /\ failed' = FALSE /\ event' = "NONE"
    BY <1>2 DEF Submit
  <2>5. state' # "NONE" /\ Open' = Open
    BY <2>4, Stays
  <2>6. strays' \in Nat
    BY <1>1, <2>2
  <2>7. queued_events' = Append(q, e)
    BY <2>2
  <2> HIDE DEF e
  <2>8. /\ Append(q, e) \in Seq(Event) /\ Len(Append(q, e)) = Len(q) + 1
        /\ (\A i \in 1 .. Len(q) : Append(q, e)[i] = q[i])
        /\ Append(q, e)[Len(q) + 1] = e /\ Len(q) \in Nat
    BY <1>1, <2>3, AppendProperties, LenProperties
  <2>9. ASSUME strays' = 0
        PROVE  Chained(queued_events', Open', nest') /\ StartsOnce(queued_events', state')
    <3>1. /\ strays = 0 /\ Source!Next /\ (type = "STREAM_START" => state = "NONE")
      BY <1>1, <2>2, <2>9
    <3>2. Chained(q, Open, nest) /\ StartsOnce(q, state)
      BY <3>1 DEF Queued
    <3>3. Follows(e.type, nest, nest')
      BY <2>2, <2>3, <3>1, SourceFollows
    <3>4. Chained(Append(q, e), Open, nest')
      BY <1>1, <2>3, <3>2, <3>3, ChainPush
    <3>5. StartsOnce(Append(q, e), state')
      <4> DEFINE r == Append(q, e)
      <4> HIDE DEF r
      <4> SUFFICES ASSUME NEW i \in 1 .. Len(q) + 1, r[i].type = "STREAM_START"
                   PROVE  i = 1 /\ state' = "STREAM_START"
        BY <2>8 DEF StartsOnce, r
      <4>1. CASE i \in 1 .. Len(q)
        BY <2>4, <2>8, <3>2, <4>1 DEF StartsOnce, r
      <4>2. CASE i = Len(q) + 1
        <5>1. state = "NONE"
          BY <2>3, <2>8, <3>1, <4>2 DEF r
        <5>2. Len(q) = 0
          BY <1>1, <5>1
        <5> QED BY <2>4, <4>2, <5>1, <5>2
      <4> QED BY <2>8, <4>1, <4>2
    <3> QED BY <2>5, <2>7, <3>4, <3>5
  <2> QED BY <2>4, <2>5, <2>6, <2>7, <2>8, <2>9 DEF Queued
<1>3. CASE Act
  <2> DEFINE q == queued_events
             e == Head(q)
  <2>1. q # << >> /\ q' = Tail(q) /\ strays' = strays /\ nest' = nest
    BY <1>3 DEF Act, Ready
  <2>2. Len(q) \in Nat /\ Tail(q) \in Seq(Event) /\ Len(Tail(q)) = Len(q) - 1
        /\ \A i \in 1 .. Len(q) - 1 : Tail(q)[i] = q[i + 1]
    BY <1>1, <2>1, LenProperties, HeadTailProperties
  <2>3. ASSUME Refused(e), strays = 0 PROVE FALSE
    BY <2>1, <2>3, HeadExpected DEF Refused
  <2>4. ASSUME strays = 0, Handle(e, Tail(q))
        PROVE  Chained(Tail(q), Open', nest) /\ StartsOnce(Tail(q), state')
    <3>1. Follows(e.type, Open, Open')
      BY <2>4, HandleStep
    <3>2. Chained(q, Open, nest) /\ StartsOnce(q, state)
      BY <2>4 DEF Queued
    <3>3. Chained(Tail(q), Open', nest)
      BY <1>1, <2>1, <3>1, <3>2, ChainPop
    <3>4. ASSUME NEW i \in 1 .. Len(Tail(q)) PROVE Tail(q)[i].type # "STREAM_START"
      <4>1. i \in 1 .. Len(q) - 1 /\ i + 1 \in 1 .. Len(q) /\ i + 1 # 1
        BY <2>2
      <4> QED BY <2>2, <3>2, <4>1 DEF StartsOnce
    <3> QED BY <3>3, <3>4 DEF StartsOnce
  <2>5. state # "NONE" /\ state' # "NONE"
    <3>1. state # "NONE"
      BY <1>1, <2>1
    <3>2. CASE Handle(e, Tail(q))
      BY <3>1, <3>2, HandleStates
    <3>3. CASE Refused(e)
      BY <3>1, <3>3 DEF Refused
    <3> QED BY <1>3, <3>1, <3>2, <3>3, Zenon DEF Act
  <2>6. strays = 0 => Handle(e, Tail(q)) /\ failed' = failed
    BY <1>3, <2>3, Zenon DEF Act
  <2>7. strays = 0 => ~failed
    BY <2>5 DEF Queued
  <2> HIDE DEF e
  <2>8. strays' = 0 => Chained(q', Open', nest') /\ StartsOnce(q', state') /\ ~failed'
    BY <2>1, <2>4, <2>6, <2>7
  <2> QED BY <1>1, <2>1, <2>2, <2>5, <2>8 DEF Queued
<1>4. CASE Return
  <2>1. /\ UNCHANGED <<state, queued_events, failed, nest, strays>> /\ event' = "NONE"
    BY <1>4 DEF Return, emitterVars
  <2>2. Open' = Open
    BY <2>1, Stays
  <2> QED BY <2>1, <2>2 DEF Queued
<1>5. CASE EmitDocument
  <2>1. /\ UNCHANGED <<state, queued_events, nest, strays>> /\ event' = "NONE" /\ state = "NONE"
    BY <1>5 DEF EmitDocument
  <2>2. Open' = Open
    BY <2>1, Stays
  <2> QED BY <2>1, <2>2 DEF Queued
<1> QED BY <1>2, <1>3, <1>4, <1>5 DEF Next

(* The queue starts empty.                                                 *)
LEMMA InitQueued == Init => Queued
<1> SUFFICES ASSUME Init PROVE Queued
  OBVIOUS
<1>1. /\ strays = 0 /\ queued_events = << >> /\ state = "NONE" /\ nest = << >> /\ Open = << >>
  BY InitStruct DEF Init
<1>2. IsChain([i \in 1 .. 1 |-> << >>], << >>, << >>, << >>)
  BY DEF IsChain
<1>3. Chained(<< >>, << >>, << >>)
  BY <1>2 DEF Chained
<1>4. StartsOnce(<< >>, "NONE")
  BY DEF StartsOnce
<1> QED BY <1>1, <1>3, <1>4 DEF Queued

(* Both invariants together, for every step.                               *)
LEMMA AlwaysQueued == Spec => [](Struct /\ Queued)
<1>1. Init => Struct /\ Queued
  BY InitStruct, InitQueued
<1>2. Struct /\ Queued /\ [Next]_vars => (Struct /\ Queued)'
  <2>1. Struct /\ Queued /\ Next => (Struct /\ Queued)'
    BY StepStruct, StepQueued
  <2>2. Struct /\ Queued /\ UNCHANGED vars => (Struct /\ Queued)'
    BY DEF Struct, Queued, Open, vars, emitterVars, callerVars
  <2> QED BY <2>1, <2>2
<1> QED BY <1>1, <1>2, PTL DEF Spec

(* fy_emit_event() refuses nothing a parser can produce: as long as no     *)
(* stray event was submitted, no call of it has failed, whatever the       *)
(* look-ahead has delayed.                                                 *)
THEOREM EmitterAccepts == Spec => []Accepts
<1>1. Queued => Accepts
  BY DEF Queued, Accepts
<1> QED BY <1>1, AlwaysQueued, PTL

-----------------------------------------------------------------------------
(* Between two calls the head of the queue is not ready.                   *)
Drained == ~calling /\ ~failed => ~Ready(queued_events)

(* Every step keeps that: a call returns when nothing is ready.            *)
LEMMA StepDrained ==
  ASSUME Queued, Drained, Next
  PROVE  Drained'
<1>1. CASE Submit
  BY <1>1 DEF Submit, Drained
<1>2. CASE Act
  BY <1>2, Zenon DEF Act, Drained
<1>3. CASE Return
  <2>1. ~Ready(queued_events) /\ queued_events' = queued_events
    BY <1>3 DEF Return
  <2> QED BY <2>1 DEF Drained, Ready, Level
<1>4. CASE EmitDocument
  <2>1. queued_events' = << >>
    BY <1>4 DEF EmitDocument, Queued
  <2> QED BY <2>1 DEF Drained, Ready
<1> QED BY <1>1, <1>2, <1>3, <1>4 DEF Next

(* A start followed by an end is balanced.                                 *)
LEMMA Balances ==
  ASSUME NEW q, q[1].type \in Starts, q[2].type \in Ends
  PROVE  Level(q, 2) = 0
<1>1. q[1].type \notin Ends /\ q[2].type \notin Starts
  BY DEF Starts, Ends
<1>2. {i \in 1 .. 2 : q[i].type \in Starts} = {1}
  BY <1>1
<1>3. {i \in 1 .. 2 : q[i].type \in Ends} = {2}
  BY <1>1
<1>4. Cardinality({1}) = 1 /\ Cardinality({2}) = 1
  BY FS_Singleton, Zenon
<1> DEFINE S == {i \in 1 .. 2 : q[i].type \in Starts}
           E == {i \in 1 .. 2 : q[i].type \in Ends}
<1>5. Level(q, 2) = Cardinality(S) - Cardinality(E)
  BY Zenon DEF Level
<1>6. Cardinality(S) = 1 /\ Cardinality(E) = 1
  BY <1>2, <1>3, <1>4, Zenon
<1> HIDE DEF S, E
<1> QED BY <1>5, <1>6

(* A list that waits for a node holds the stream and the document.         *)
LEMMA WantsTwo ==
  ASSUME Struct, Wants(Open)
  PROVE  Len(Open) >= 2
<1>1. Len(sc_stack) \in Nat /\ state \in Inside \cup Outside
      /\ (state \notin Inside => Len(sc_stack) = 0)
  BY LenProperties DEF Struct, StacksOK
<1>2. CASE state \in Idle
  BY <1>2 DEF Open, NestOf, Wants
<1>3. CASE state \in {"FIRST_DOCUMENT_START", "DOCUMENT_START"}
  <2>1. Open = <<"stream">>
    BY <1>1, <1>3, NestOutside DEF Open, Inside
  <2>2. <<"stream">>[Len(<<"stream">>)] = "stream"
    OBVIOUS
  <2> QED BY <2>1, <2>2 DEF Wants
<1>4. CASE state \in (Inside \cup Outside) \ (Idle \cup {"FIRST_DOCUMENT_START", "DOCUMENT_START"})
  <2>1. state \notin Idle /\ \E w \in Words : Waiting(state) = <<w>>
    BY <1>4 DEF Waiting, Words, Inside, Outside, Idle
  <2>2. Len(Open) = Len(sc_stack) + 2
    BY <2>1, WantsIs
  <2> QED BY <1>1, <2>2
<1> QED BY <1>1, <1>2, <1>3, <1>4

(* While the head waits, the caller has not closed what it is in: it would *)
(* take two ends to leave a root that the queue opens a collection in, and *)
(* the first of them closes that collection.                               *)
LEMMA NothingHeldBack ==
  ASSUME Struct, Queued, ~Ready(queued_events), strays = 0, nest \in {<< >>, <<"stream">>}
  PROVE  queued_events = << >>
<1> DEFINE q == queued_events
<1> SUFFICES ASSUME q # << >> PROVE FALSE
  OBVIOUS
<1>1. q \in Seq(Event) /\ Chained(q, Open, nest)
  BY DEF Queued
<1>2. PICK h : IsChain(h, q, Open, nest)
  BY <1>1 DEF Chained
<1>3. Len(q) \in Nat /\ Len(q) > 0 /\ Head(q) = q[1]
  BY <1>1, EmptySeq, LenProperties, HeadTailProperties
<1>4. /\ Need(q[1].type) # 0 /\ ~(Len(q) > Need(q[1].type))
      /\ \A k \in 1 .. Len(q) : Level(q, k) # 0
  BY <1>3 DEF Ready
<1> HIDE DEF q
<1>5. ASSUME NEW i \in 1 .. Len(q)
      PROVE  /\ h[i] \in Seq(Words) /\ Len(h[i]) \in Nat /\ Len(h[i + 1]) \in Nat
             /\ q[i].type \in Starts => Len(h[i + 1]) = Len(h[i]) + 1
             /\ q[i].type \in Ends => Len(h[i + 1]) = Len(h[i]) - 1
             /\ q[i].type \notin Starts \cup Ends => Len(h[i + 1]) = Len(h[i])
  <2>1. i \in 1 .. Len(q) + 1 /\ i + 1 \in 1 .. Len(q) + 1
    BY <1>3
  <2>2. h[i] \in Seq(Words) /\ h[i + 1] \in Seq(Words) /\ Follows(q[i].type, h[i], h[i + 1])
    BY <1>2, <2>1 DEF IsChain
  <2> QED BY <2>2, FollowsType, LenProperties
<1>6. h[1] = Open /\ h[Len(q) + 1] = nest
  BY <1>2 DEF IsChain
<1>7. Len(nest) <= 1
  <2>1. Len(<< >>) = 0 /\ Len(<<"stream">>) = 1
    OBVIOUS
  <2>2. Len(nest) = 0 \/ Len(nest) = 1
    BY <2>1, Zenon
  <2>3. 0 <= 1 /\ 1 <= 1
    OBVIOUS
  <2> QED BY <2>2, <2>3, Zenon
<1>8. 1 \in 1 .. Len(q) /\ Follows(q[1].type, Open, h[1 + 1])
  BY <1>2, <1>3 DEF IsChain
<1>9. q[1].type \in {"DOCUMENT_START", "SEQUENCE_START", "MAPPING_START"}
  BY <1>4 DEF Need
<1>10. q[1].type \in Starts /\ Len(h[2]) = Len(Open) + 1 /\ Len(Open) \in Nat
  <2>1. q[1].type \in Starts
    BY <1>9 DEF Starts
  <2>2. Len(h[1]) \in Nat /\ Len(h[1 + 1]) = Len(h[1]) + 1
    BY <1>5, <1>8, <2>1
  <2> QED BY <1>6, <2>1, <2>2
<1>11. CASE q[1].type = "DOCUMENT_START"
  <2>0. Need(q[1].type) = 1
    BY <1>11 DEF Need
  <2>6. \A k \in Nat : k > 0 /\ ~(k > 1) => k = 1
    OBVIOUS
  <2>1. Len(q) = 1
    BY <1>3, <1>4, <2>0, <2>6, Zenon
  <2>2. Open # << >>
    BY <1>8, <1>11 DEF Follows
  <2>3. Open \in Seq(Words)
    BY <1>5, <1>6, <1>8
  <2>4. Len(Open) > 0
    BY <1>10, <2>2, <2>3, EmptySeq
  <2>5. h[2] = nest
    BY <1>6, <2>1
  <2> QED BY <1>7, <1>10, <2>4, <2>5
<1>12. CASE q[1].type \in {"SEQUENCE_START", "MAPPING_START"}
  <2>0. Need(q[1].type) \in 2 .. 3
    BY <1>12 DEF Need
  <2>1. Len(q) <= 3
    BY <1>3, <1>4, <2>0
  <2>2. Len(Open) >= 2
    <3>1. Wants(Open)
      BY <1>8, <1>12 DEF Follows
    <3> QED BY <3>1, WantsTwo
  <2>3. CASE Len(q) = 1
    BY <1>6, <1>7, <1>10, <2>2, <2>3
  <2>4. CASE Len(q) = 2
    <3>1. Len(h[2]) \in Nat /\ Len(h[2 + 1]) \in Nat /\ Len(h[2 + 1]) >= Len(h[2]) - 1
      BY <1>5, <2>4
    <3> QED BY <1>6, <1>7, <1>10, <2>2, <2>4, <3>1
  <2>5. CASE Len(q) = 3
    <3>1. 2 \in 1 .. Len(q) /\ 3 \in 1 .. Len(q) /\ 2 + 1 = 3 /\ 3 + 1 = 4
      BY <2>5
    <3>2. Len(h[3]) \in Nat /\ Len(h[4]) \in Nat /\ Len(h[4]) >= Len(h[3]) - 1
      <4>1. /\ Len(h[3]) \in Nat /\ Len(h[3 + 1]) \in Nat
            /\ Len(h[3 + 1]) >= Len(h[3]) - 1
        BY <1>5, <3>1
      <4> QED BY <3>1, <4>1
    <3>3. h[4] = nest
      BY <1>6, <2>5
    <3>4. Len(h[3]) < Len(h[2])
      BY <1>7, <1>10, <2>2, <3>2, <3>3
    <3>5. q[2].type \in Ends
      <4>1. /\ Len(h[2]) \in Nat
            /\ q[2].type \in Starts => Len(h[3]) = Len(h[2]) + 1
            /\ q[2].type \notin Starts \cup Ends => Len(h[3]) = Len(h[2])
        BY <1>5, <3>1
      <4> QED BY <3>4, <4>1
    <3>6. Level(q, 2) = 0
      BY <1>10, <3>5, Balances
    <3> QED BY <1>4, <3>1, <3>6
  <2>6. \A k \in Nat : k > 0 /\ k <= 3 => k = 1 \/ k = 2 \/ k = 3
    OBVIOUS
  <2> QED BY <1>3, <2>1, <2>3, <2>4, <2>5, <2>6, Zenon
<1> QED BY <1>9, <1>11, <1>12

(* The look-ahead is bounded, and nothing is held back once the caller has *)
(* closed its document.                                                    *)
THEOREM EmitterLookahead == Spec => []Lookahead
<1>1. Init => Drained
  BY DEF Init, Drained, Ready
<1>2. Queued /\ Drained /\ [Next]_vars => Drained'
  <2>1. Queued /\ Drained /\ Next => Drained'
    BY StepDrained
  <2>2. Drained /\ UNCHANGED vars => Drained'
    BY DEF Drained, Ready, Level, vars
  <2> QED BY <2>1, <2>2
<1>3. Struct /\ Queued /\ Drained => Lookahead
  <2> SUFFICES ASSUME Struct, Queued, Drained, ~calling, ~failed
               PROVE  /\ Len(queued_events) <= 3
                      /\ strays = 0 /\ nest \in {<<>>, <<"stream">>} => queued_events = << >>
    BY DEF Lookahead
  <2>1. ~Ready(queued_events)
    BY DEF Drained
  <2>2. queued_events \in Seq(Event) /\ Len(queued_events) \in Nat
    BY LenProperties DEF Queued
  <2>3. Len(queued_events) <= 3
    <3>1. CASE queued_events = << >>
      BY <3>1
    <3>2. CASE queued_events # << >>
      <4>1. ~(Len(queued_events) > Need(Head(queued_events).type))
        BY <2>1, <3>2 DEF Ready
      <4>2. Need(Head(queued_events).type) \in 0 .. 3
        BY DEF Need
      <4> QED BY <2>2, <4>1, <4>2
    <3> QED BY <3>1, <3>2
  <2> QED BY <2>1, <2>3, NothingHeldBack
<1> QED BY <1>1, <1>2, <1>3, AlwaysQueued, PTL DEF Spec

-----------------------------------------------------------------------------
(***************************************************************************)
(* Documents.  The queue never reaches over the border of a document: the  *)
(* start of one is queued first and the end of one last, and how the       *)
(* caller ended the last document is still what the marks of these events  *)
(* depend on.                                                              *)
(***************************************************************************)
Shape(n) ==
  \A i \in 1 .. Len(n) : /\ n[i] = "stream" <=> i = 1
                         /\ n[i] \in {"root", "done"} <=> i = 2
                         /\ n[i] = "done" => Len(n) = 2

DocumentMark(e, ended) ==
  /\ e.mark \in {"explicit", "implicit", "directives"}
  /\ e.mark # "explicit" => ended

Ordered ==
  strays = 0 =>
    /\ Shape(nest)
    /\ \A i \in 1 .. Len(queued_events) :
         /\ queued_events[i].type = "DOCUMENT_START" =>
              i = 1 /\ DocumentMark(queued_events[i], explicit)
         /\ queued_events[i].type = "DOCUMENT_END" =>
              /\ i = Len(queued_events) /\ nest = <<"stream">>
              /\ explicit <=> queued_events[i].mark = "explicit"

(* Nothing but a document is open in a stream, and nothing but its root in *)
(* a document.                                                             *)
LEMMA ShapeKept ==
  ASSUME NEW t, NEW n \in Seq(Words), NEW m, Shape(n), Follows(t, n, m)
  PROVE  Shape(m)
<1>0. m \in Seq(Words) /\ Len(n) \in Nat /\ Len(m) \in Nat
  BY FollowsType, LenProperties, Zenon
<1>1. ASSUME n # << >> PROVE Len(n) > 0 /\ Len(n) \in 1 .. Len(n)
  BY <1>0, <1>1, EmptySeq
<1>2. ASSUME NEW w \in {"root", "seq", "key"}, n # << >>, m = Append(n, w),
             w = "root" <=> Len(n) = 1, n[Len(n)] # "done"
      PROVE  Shape(m)
  <2>1. Len(m) = Len(n) + 1 /\ m[Len(n) + 1] = w /\ \A i \in 1 .. Len(n) : m[i] = n[i]
    BY <1>2, AppendProperties DEF Words
  <2>2. ASSUME NEW i \in 1 .. Len(n), n[i] = "done" PROVE FALSE
    <3>1. i = 2 /\ Len(n) = 2
      BY <2>2 DEF Shape
    <3> QED BY <1>2, <2>2, <3>1
  <2> SUFFICES ASSUME NEW i \in 1 .. Len(n) + 1
               PROVE  /\ m[i] = "stream" <=> i = 1
                      /\ m[i] \in {"root", "done"} <=> i = 2
                      /\ m[i] = "done" => Len(m) = 2
    BY <2>1 DEF Shape
  <2>3. CASE i \in 1 .. Len(n)
    BY <2>1, <2>2, <2>3 DEF Shape
  <2>4. CASE i = Len(n) + 1
    <3>1. m[i] = w
      BY <2>1, <2>4
    <3>2. \A k \in Nat : k > 0 => k + 1 # 1 /\ (k + 1 = 2 <=> k = 1)
      OBVIOUS
    <3>3. Len(n) > 0
      BY <1>1, <1>2
    <3>4. i # 1 /\ (i = 2 <=> Len(n) = 1)
      BY <1>0, <2>4, <3>2, <3>3, Zenon
    <3>5. w # "stream" /\ w # "done" /\ (w \in {"root", "done"} <=> w = "root")
      OBVIOUS
    <3> QED BY <1>2, <3>1, <3>4, <3>5, Zenon
  <2> QED BY <1>0, <2>3, <2>4
<1>3. ASSUME NEW o \in Seq(Words), o # << >>, Shape(o),
             o[Len(o)] \in {"root", "seq", "key", "val"}, m = Complete(o)
      PROVE  Shape(m)
  <2> DEFINE k == Len(o)
  <2>1. k \in Nat /\ k > 0 /\ k \in 1 .. k
    BY <1>3, EmptySeq, LenProperties
  <2>2. Len(m) = k /\ m[k] = After(o[k]) /\ \A i \in 1 .. k - 1 : m[i] = o[i]
    BY <1>3, <2>1, Completes, Zenon
  <2>3. /\ o[k] = "stream" <=> k = 1
        /\ o[k] \in {"root", "done"} <=> k = 2
    BY <1>3, <2>1, Zenon DEF Shape
  <2>4. /\ After(o[k]) # "stream" /\ k # 1
        /\ After(o[k]) \in {"root", "done"} <=> o[k] = "root"
    BY <1>3, <2>3 DEF After
  <2> HIDE DEF k
  <2> SUFFICES ASSUME NEW i \in 1 .. k
               PROVE  /\ m[i] = "stream" <=> i = 1
                      /\ m[i] \in {"root", "done"} <=> i = 2
                      /\ m[i] = "done" => k = 2
    BY <2>2 DEF Shape
  <2>5. CASE i = k
    BY <1>3, <2>2, <2>3, <2>4, <2>5 DEF k
  <2>6. CASE i \in 1 .. k - 1
    BY <1>3, <2>1, <2>2, <2>6 DEF Shape, k
  <2> QED BY <2>1, <2>5, <2>6
<1>4. ASSUME n # << >>, NEW o, o = SubSeq(n, 1, Len(n) - 1), n[Len(n)] # "done", Len(n) # 1
      PROVE  o \in Seq(Words) /\ o # << >> /\ Shape(o)
             /\ o[Len(o)] \in {"root", "seq", "key", "val", "stream"}
             /\ (o[Len(o)] = "stream" => Len(n) = 2)
  <2>1. Len(n) - 1 \in Nat /\ Len(n) - 1 > 0 /\ Len(n) = (Len(n) - 1) + 1
    <3>1. \A k \in Nat : k > 0 /\ k # 1 => k - 1 \in Nat /\ k - 1 > 0 /\ k = (k - 1) + 1
      OBVIOUS
    <3>2. Len(n) > 0
      BY <1>1, <1>4
    <3> QED BY <1>0, <1>4, <3>1, <3>2, Zenon
  <2>2. o \in Seq(Words) /\ Len(o) = Len(n) - 1 /\ \A i \in 1 .. Len(n) - 1 : o[i] = n[i]
    BY <1>4, <2>1, Outers, Zenon
  <2>3. ASSUME NEW i \in 1 .. Len(n), n[i] = "done" PROVE FALSE
    <3>1. i = 2 /\ Len(n) = 2
      BY <2>3 DEF Shape
    <3> QED BY <1>4, <2>3, <3>1
  <2>4. \A i \in 1 .. Len(n) - 1 : i \in 1 .. Len(n)
    BY <1>0
  <2>5. Shape(o)
    BY <2>2, <2>3, <2>4 DEF Shape
  <2>6. o # << >> /\ Len(o) \in 1 .. Len(n) - 1
    BY <2>1, <2>2, EmptySeq
  <2>7. o[Len(o)] \in Words /\ o[Len(o)] # "done" /\ (o[Len(o)] = "stream" => Len(o) = 1)
    BY <2>2, <2>3, <2>4, <2>6, ElementOfSeq DEF Shape
  <2> QED BY <1>0, <2>2, <2>5, <2>6, <2>7 DEF Words
<1>5. CASE t = "STREAM_START" /\ n = << >> /\ m = <<"stream">>
  <2>1. Len(m) = 1 /\ m[1] = "stream"
    BY <1>5
  <2> QED BY <2>1 DEF Shape
<1>6. CASE n # << >> /\ n[Len(n)] = "stream" /\ m = Append(n, "root")
  <2>1. Len(n) = 1
    BY <1>1, <1>6, Zenon DEF Shape
  <2> QED BY <1>2, <1>6, <2>1
<1>7. CASE Wants(n) /\ m = Complete(n)
  BY <1>3, <1>7 DEF Wants
<1>8. CASE Wants(n) /\ (m = Append(n, "seq") \/ m = Append(n, "key"))
  <2>1. Len(n) # 1 /\ n[Len(n)] # "done" /\ n # << >>
    BY <1>1, <1>8 DEF Wants, Shape
  <2> QED BY <1>2, <1>8, <2>1
<1>9. CASE n # << >> /\ n[Len(n)] \in {"seq", "key"} /\ m = Complete(SubSeq(n, 1, Len(n) - 1))
  <2>1. Len(n) # 1 /\ Len(n) # 2
    BY <1>1, <1>9 DEF Shape
  <2> QED BY <1>3, <1>4, <1>9, <2>1, Zenon
<1>10. CASE n # << >> /\ n[Len(n)] = "done" /\ m = SubSeq(n, 1, Len(n) - 1)
  <2>1. Len(n) = 2
    BY <1>1, <1>10 DEF Shape
  <2>2. Len(m) = 1 /\ m[1] = n[1]
    <3>1. 1 \in Nat /\ 1 > 0 /\ Len(n) = 1 + 1
      BY <2>1
    <3>2. Len(m) = 1 /\ \A i \in 1 .. 1 : m[i] = n[i]
      BY <1>10, <3>1, Outers, Zenon
    <3> QED BY <3>2
  <2> QED BY <2>1, <2>2 DEF Shape
<1>11. CASE m = << >>
  BY <1>11 DEF Shape
<1> QED BY <1>5, <1>6, <1>7, <1>8, <1>9, <1>10, <1>11 DEF Follows

(* The end of a document is submitted once its start was acted on.         *)
LEMMA EndLate ==
  ASSUME Struct, Queued, Ordered, strays = 0, ~Ready(queued_events),
         nest # << >>, nest[Len(nest)] = "done"
  PROVE  /\ \A i \in 1 .. Len(queued_events) : queued_events[i].type # "DOCUMENT_START"
         /\ state \notin {"FIRST_DOCUMENT_START", "DOCUMENT_START"}
<1> DEFINE q == queued_events
<1>1. q \in Seq(Event) /\ Chained(q, Open, nest) /\ StartsOnce(q, state) /\ Len(q) \in Nat
  BY LenProperties DEF Queued
<1>2. PICK h : IsChain(h, q, Open, nest)
  BY <1>1 DEF Chained
<1>3. ASSUME q # << >>, q[1].type = "DOCUMENT_START" PROVE FALSE
  <2>1. Len(q) > 0 /\ Head(q) = q[1]
    BY <1>1, <1>3, EmptySeq, HeadTailProperties
  <2>2. Need(q[1].type) = 1
    BY <1>3 DEF Need
  <2>3. ~(Len(q) > 1)
    BY <1>3, <2>1, <2>2 DEF Ready
  <2>4. \A k \in Nat : k > 0 /\ ~(k > 1) => k = 1
    OBVIOUS
  <2>5. Len(q) = 1
    BY <1>1, <2>1, <2>3, <2>4, Zenon
  <2>6. 1 \in 1 .. Len(q) /\ Len(q) + 1 = 1 + 1
    BY <2>5
  <2>7. Follows(q[1].type, h[1], nest) /\ h[1] \in Seq(Words)
    BY <1>2, <2>6 DEF IsChain
  <2>8. nest = Append(h[1], "root")
    BY <1>3, <2>7 DEF Follows
  <2>9. nest[Len(nest)] = "root"
    BY <2>7, <2>8, AppendProperties DEF Words
  <2> QED BY <2>9
<1>4. ASSUME NEW i \in 1 .. Len(q), q[i].type = "DOCUMENT_START" PROVE FALSE
  <2>1. i = 1
    BY <1>4 DEF Ordered
  <2>2. q # << >>
    BY <1>1, <1>4, EmptySeq
  <2> QED BY <1>3, <1>4, <2>1, <2>2
<1>5. ASSUME state \in {"FIRST_DOCUMENT_START", "DOCUMENT_START"} PROVE FALSE
  <2>1. CASE q = << >>
    <3>1. Len(q) + 1 = 1
      BY <2>1
    <3>2. nest = Open
      BY <1>2, <3>1 DEF IsChain
    <3>3. Open = <<"stream">>
      BY <1>5, NestOutside, LenProperties DEF Open, Struct, StacksOK, Inside
    <3>4. <<"stream">>[Len(<<"stream">>)] = "stream"
      OBVIOUS
    <3> QED BY <3>2, <3>3, <3>4
  <2>2. CASE q # << >>
    <3>1. Head(q).type \in Expected
      BY <2>2, HeadExpected
    <3>2. Head(q).type \in {"DOCUMENT_START", "STREAM_END"}
      BY <1>5, <3>1 DEF Expected
    <3>3. Head(q).type # "STREAM_END"
      <4>1. Need("STREAM_END") = 0
        BY DEF Need
      <4> QED BY <2>2, <4>1 DEF Ready
    <3>4. Head(q) = q[1]
      BY <1>1, <2>2, HeadTailProperties
    <3> QED BY <1>3, <2>2, <3>2, <3>3, <3>4
  <2> QED BY <2>1, <2>2
<1> QED BY <1>4, <1>5

(* What the caller may submit next, given how it has been called so far.   *)
LEMMA AtSubmit ==
  ASSUME Struct, Queued, Drained, Ordered, Submit, strays' = 0
  PROVE  /\ strays = 0 /\ ~Ready(queued_events) /\ nest \in Seq(Words)
         /\ Follows(fed', nest, nest')
         /\ \A i \in 1 .. Len(queued_events) : queued_events[i].type # "DOCUMENT_END"
<1>1. strays = 0 /\ Source!Next /\ fed' # "NONE" /\ ~calling
  <2>1. PICK type \in Events \ {"NONE"} :
          /\ fed' = type
          /\ (Source!Next /\ strays' = strays) \/ strays' = strays + 1
    BY DEF Submit
  <2>2. strays \in Nat /\ ~calling
    BY DEF Queued, Submit
  <2> QED BY <2>1, <2>2
<1>2. ~Ready(queued_events)
  <2>1. CASE state = "NONE"
    BY <2>1 DEF Queued, Ready
  <2>2. CASE state # "NONE"
    BY <1>1, <2>2 DEF Queued, Drained
  <2> QED BY <2>1, <2>2
<1>3. Follows(fed', nest, nest')
  BY <1>1, SourceFollows
<1>4. nest \in Seq(Words)
  <2>1. PICK h : IsChain(h, queued_events, Open, nest)
    BY <1>1 DEF Queued, Chained
  <2>2. Len(queued_events) + 1 \in 1 .. Len(queued_events) + 1
    BY LenProperties DEF Queued
  <2> QED BY <2>1, <2>2 DEF IsChain
<1>5. ASSUME NEW i \in 1 .. Len(queued_events), queued_events[i].type = "DOCUMENT_END" PROVE FALSE
  <2>1. nest = <<"stream">>
    BY <1>1, <1>5 DEF Ordered
  <2>2. queued_events = << >>
    BY <1>1, <1>2, <2>1, NothingHeldBack
  <2> QED BY <1>5, <2>2
<1> QED BY <1>1, <1>2, <1>3, <1>4, <1>5

(* Every step keeps the documents apart in the queue.                      *)
LEMMA StepOrdered ==
  ASSUME Struct, Queued, Drained, Ordered, Next
  PROVE  Ordered'
<1> DEFINE q == queued_events
<1>0. strays \in Nat /\ q \in Seq(Event) /\ Len(q) \in Nat
  BY LenProperties DEF Queued
<1>1. CASE Submit
  <2> SUFFICES ASSUME strays' = 0
               PROVE  /\ Shape(nest')
                      /\ \A i \in 1 .. Len(q') :
                           /\ q'[i].type = "DOCUMENT_START" => i = 1 /\ DocumentMark(q'[i], explicit')
                           /\ q'[i].type = "DOCUMENT_END" =>
                                /\ i = Len(q') /\ nest' = <<"stream">>
                                /\ explicit' <=> q'[i].mark = "explicit"
    BY DEF Ordered, Shape
  <2>1. /\ strays = 0 /\ ~Ready(q) /\ nest \in Seq(Words) /\ Follows(fed', nest, nest')
        /\ \A i \in 1 .. Len(q) : q[i].type # "DOCUMENT_END"
    BY <1>1, AtSubmit
  <2>0. PICK type \in Events \ {"NONE"} : \E mark \in Marks(type) :
          /\ fed' = type
          /\ explicit' = IF type = "DOCUMENT_END" THEN mark = "explicit" ELSE explicit
          /\ q' = Append(q, [type |-> type, mark |-> mark])
    BY <1>1 DEF Submit
  <2>2. PICK mark \in Marks(type) :
          /\ fed' = type
          /\ explicit' = IF type = "DOCUMENT_END" THEN mark = "explicit" ELSE explicit
          /\ q' = Append(q, [type |-> type, mark |-> mark])
    BY <2>0
  <2> DEFINE e == [type |-> type, mark |-> mark]
  <2>3. e \in Event /\ e.type = type /\ e.mark = mark
    BY SubmitEvent
  <2>4. Shape(nest) /\ Shape(nest')
    BY <2>1, ShapeKept DEF Ordered
  <2> HIDE DEF e
  <2>5. /\ Len(q') = Len(q) + 1 /\ q'[Len(q) + 1] = e
        /\ \A i \in 1 .. Len(q) : q'[i] = q[i]
    BY <1>0, <2>2, <2>3, AppendProperties DEF e
  <2>6. type = "DOCUMENT_START" => q = << >> /\ DocumentMark(e, explicit')
    <3> SUFFICES ASSUME type = "DOCUMENT_START" PROVE q = << >> /\ DocumentMark(e, explicit')
      OBVIOUS
    <3>1. nest # << >> /\ nest[Len(nest)] = "stream"
      BY <2>1, <2>2 DEF Follows
    <3>2. nest = <<"stream">>
      <4>1. Len(nest) \in Nat /\ Len(nest) > 0 /\ Len(nest) \in 1 .. Len(nest)
        BY <2>1, <3>1, EmptySeq, LenProperties
      <4>2. Len(nest) = 1
        BY <2>4, <3>1, <4>1, Zenon DEF Shape
      <4>3. "stream" \in Words
        BY DEF Words
      <4>4. <<"stream">> \in Seq(Words) /\ Len(<<"stream">>) = 1 /\ <<"stream">>[1] = "stream"
        BY <4>3
      <4> QED BY <2>1, <3>1, <4>2, <4>4, SameList
    <3>3. q = << >>
      BY <2>1, <3>2, NothingHeldBack
    <3>4. DocumentMark(e, explicit')
      BY <2>2, <2>3 DEF Marks, DocumentMark
    <3> QED BY <3>3, <3>4
  <2>7. type = "DOCUMENT_END" =>
          /\ nest' = <<"stream">> /\ (explicit' <=> mark = "explicit")
          /\ \A i \in 1 .. Len(q) : q[i].type # "DOCUMENT_START"
    <3> SUFFICES ASSUME type = "DOCUMENT_END"
                 PROVE  /\ nest' = <<"stream">> /\ (explicit' <=> mark = "explicit")
                        /\ \A i \in 1 .. Len(q) : q[i].type # "DOCUMENT_START"
      OBVIOUS
    <3>1. nest # << >> /\ nest[Len(nest)] = "done"
      BY <2>1, <2>2 DEF Follows
    <3>2. \A i \in 1 .. Len(q) : q[i].type # "DOCUMENT_START"
      BY <2>1, <3>1, EndLate
    <3>3. Len(nest) \in Nat /\ Len(nest) > 0 /\ Len(nest) \in 1 .. Len(nest)
      BY <2>1, <3>1, EmptySeq, LenProperties
    <3>4. Len(nest) = 2
      BY <2>4, <3>1, <3>3 DEF Shape
    <3>5. nest' \in Seq(Words) /\ Len(nest') = Len(nest) - 1
      BY <2>1, <2>2, FollowsType, Zenon DEF Ends
    <3>6. Len(nest') = 1
      BY <3>4, <3>5
    <3>7. nest'[1] = "stream"
      BY <2>4, <3>6 DEF Shape
    <3>8. nest' = <<"stream">>
      <4>1. "stream" \in Words
        BY DEF Words
      <4>2. <<"stream">> \in Seq(Words) /\ Len(<<"stream">>) = 1 /\ <<"stream">>[1] = "stream"
        BY <4>1
      <4> QED BY <3>5, <3>6, <3>7, <4>2, SameList
    <3> QED BY <2>2, <3>2, <3>8, Zenon
  <2>8. type # "DOCUMENT_END" => explicit' = explicit
    BY <2>2
  <2>9. ASSUME NEW i \in 1 .. Len(q), q[i].type = "DOCUMENT_START"
        PROVE  i = 1 /\ DocumentMark(q[i], explicit')
    <3>1. i = 1 /\ DocumentMark(q[i], explicit)
      BY <2>1, <2>9 DEF Ordered
    <3>2. explicit' = explicit
      BY <2>7, <2>8, <2>9
    <3> QED BY <3>1, <3>2 DEF DocumentMark
  <2> SUFFICES ASSUME NEW i \in 1 .. Len(q) + 1
               PROVE  /\ q'[i].type = "DOCUMENT_START" => i = 1 /\ DocumentMark(q'[i], explicit')
                      /\ q'[i].type = "DOCUMENT_END" =>
                           /\ i = Len(q') /\ nest' = <<"stream">>
                           /\ explicit' <=> q'[i].mark = "explicit"
    BY <2>4, <2>5
  <2>10. CASE i \in 1 .. Len(q)
    <3>1. q'[i] = q[i] /\ q[i].type # "DOCUMENT_END"
      BY <2>1, <2>5, <2>10
    <3> QED BY <2>9, <2>10, <3>1 DEF DocumentMark
  <2>11. CASE i = Len(q) + 1
    <3>1. q'[i] = e /\ i = Len(q')
      BY <2>5, <2>11
    <3>2. type = "DOCUMENT_START" => i = 1
      BY <2>6, <2>11
    <3> QED BY <2>3, <2>6, <2>7, <3>1, <3>2 DEF DocumentMark
  <2> QED BY <1>0, <2>10, <2>11
<1>2. CASE Act
  <2>1. /\ q # << >> /\ q' = Tail(q) /\ strays' = strays /\ nest' = nest /\ explicit' = explicit
    BY <1>2 DEF Act, Ready
  <2>2. /\ Len(Tail(q)) = Len(q) - 1
        /\ \A i \in 1 .. Len(q) - 1 : Tail(q)[i] = q[i + 1]
    BY <1>0, <2>1, HeadTailProperties
  <2> SUFFICES ASSUME strays = 0, NEW i \in 1 .. Len(q')
               PROVE  /\ q'[i].type = "DOCUMENT_START" => i = 1 /\ DocumentMark(q'[i], explicit')
                      /\ q'[i].type = "DOCUMENT_END" =>
                           /\ i = Len(q') /\ nest' = <<"stream">>
                           /\ explicit' <=> q'[i].mark = "explicit"
    BY <2>1 DEF Ordered, Shape
  <2>3. i \in 1 .. Len(q) - 1 /\ q'[i] = q[i + 1] /\ Len(q') = Len(q) - 1
    BY <2>1, <2>2
  <2>4. i + 1 \in 1 .. Len(q) /\ i + 1 # 1 /\ (i + 1 = Len(q) => i = Len(q) - 1)
    BY <1>0, <2>3
  <2> QED BY <2>1, <2>3, <2>4, Zenon DEF Ordered
<1>3. CASE Return
  BY <1>3 DEF Return, Ordered, DocumentMark, Shape
<1>4. CASE EmitDocument
  <2>1. q' = << >> /\ nest' = nest /\ strays' = strays
    BY <1>4 DEF EmitDocument, Queued
  <2> QED BY <2>1 DEF Ordered, Shape
<1> QED BY <1>1, <1>2, <1>3, <1>4 DEF Next

-----------------------------------------------------------------------------
(***************************************************************************)
(* What was written last.  Without markers at the start of documents, or   *)
(* with neither those that AUTO leaves out nor end markers, streamed       *)
(* documents do run together: nothing but the markers separates them.      *)
(***************************************************************************)
Marking == StartMark = "ON" \/ (StartMark = "AUTO" /\ EndMark # "OFF")

Separated ==
  /\ docs \in Nat
  /\ ~JsonMode /\ strays = 0 =>
       /\ written \in {"nothing", "marker", "content"}
       /\ state = "NONE" /\ docs = 0 => written = "nothing"
       /\ state = "STREAM_START" => written = "nothing"
       /\ state = "NONE" /\ fyds = NoDocument /\ written = "content" =>
            "OUTPUT" \in had /\ "END" \notin had
       /\ state = "DOCUMENT_CONTENT" => written # "content"
       /\ state \in {"FIRST_DOCUMENT_START", "DOCUMENT_START"} /\ StartMark = "AUTO"
            /\ written = "content" => ~explicit

(* The start of a document separates it from what was written before.      *)
LEMMA StartSeparates ==
  ASSUME Marking, Separated, ~JsonMode, strays = 0, NEW mark,
         mark \in {"explicit", "implicit", "directives"}, mark # "explicit" => explicit,
         state \in {"FIRST_DOCUMENT_START", "DOCUMENT_START"}
  PROVE  AfterStart(mark) \in {"nothing", "marker"}
<1>1. /\ written \in {"nothing", "marker", "content"}
      /\ StartMark = "AUTO" /\ written = "content" => ~explicit
  BY DEF Separated
<1>2. Marked(written) = "marker"
  BY <1>1 DEF Marked
<1>3. CASE StartMark = "ON" \/ (StartMark = "AUTO" /\ mark # "implicit")
  <2>1. StartMarker(mark)
    BY <1>3 DEF StartMarker
  <2> QED BY <1>2, <2>1 DEF AfterStart
<1>4. CASE StartMark = "AUTO" /\ mark = "implicit"
  <2>1. written # "content"
    BY <1>1, <1>4
  <2> QED BY <1>1, <1>2, <2>1 DEF AfterStart
<1> QED BY <1>3, <1>4 DEF Marking

(* The same for a document that fy_emit_document() writes, whatever the    *)
(* markers: it remembers what it wrote last in the flags.                  *)
LEMMA DocumentSeparates ==
  ASSUME Separated, ~JsonMode, strays = 0, state = "NONE", fyds = NoDocument, NEW mark
  PROVE  AfterStart(mark) \in {"nothing", "marker"}
<1>1. /\ written \in {"nothing", "marker", "content"}
      /\ written = "content" => "OUTPUT" \in had /\ "END" \notin had
  BY DEF Separated
<1>2. Marked(written) = "marker"
  BY <1>1 DEF Marked
<1>3. CASE written = "content" /\ mark = "directives"
  BY <1>1, <1>2, <1>3 DEF AfterStart
<1>4. CASE written = "content" /\ mark # "directives"
  <2>1. HadAfterDirectives(mark) = had
    BY <1>4 DEF HadAfterDirectives
  <2>2. StartMarker(mark)
    BY <1>1, <1>4, <2>1 DEF StartMarker
  <2> QED BY <1>2, <2>2 DEF AfterStart
<1>5. CASE written # "content"
  BY <1>1, <1>2, <1>5 DEF AfterStart
<1> QED BY <1>3, <1>4, <1>5

(* What acting on the head of the queue writes.                            *)
LEMMA HandleSeparates ==
  ASSUME Marking, Struct, Queued, Ordered, Separated, ~JsonMode, strays = 0,
         queued_events # << >>, NEW rest, Handle(Head(queued_events), rest),
         explicit' = explicit
  PROVE  /\ written' \in {"nothing", "marker", "content"}
         /\ state' \notin {"NONE", "STREAM_START"}
         /\ state' = "DOCUMENT_CONTENT" => written' # "content"
         /\ state' \in {"FIRST_DOCUMENT_START", "DOCUMENT_START"} /\ StartMark = "AUTO"
              /\ written' = "content" => ~explicit'
<1> DEFINE e == Head(queued_events)
<1>1. /\ written \in {"nothing", "marker", "content"}
      /\ state = "STREAM_START" => written = "nothing"
      /\ state = "DOCUMENT_CONTENT" => written # "content"
  BY DEF Separated
<1>2. /\ state' \notin {"NONE", "STREAM_START"}
      /\ state \in Inside \cup {"DOCUMENT_CONTENT"} => state' \notin Border
  BY HandleStates
<1>3. /\ e = queued_events[1] /\ 1 \in 1 .. Len(queued_events)
  <2>1. queued_events \in Seq(Event) /\ Len(queued_events) \in Nat
    BY LenProperties DEF Queued
  <2>2. Len(queued_events) > 0
    BY <2>1, EmptySeq
  <2> QED BY <2>1, <2>2, HeadTailProperties
<1>4. /\ e.type = "DOCUMENT_START" => DocumentMark(e, explicit)
      /\ e.type = "DOCUMENT_END" => (explicit <=> e.mark = "explicit")
  BY <1>3 DEF Ordered
<1> HIDE DEF e
<1>5. CASE HandleStreamStart(e)
  BY <1>1, <1>2, <1>5 DEF HandleStreamStart
<1>6. CASE HandleDocumentStart(e)
  <2>1. CASE e.type = "STREAM_END"
    BY <1>1, <1>6, <2>1 DEF HandleDocumentStart
  <2>2. CASE e.type = "DOCUMENT_START"
    <3>1. /\ state \in {"FIRST_DOCUMENT_START", "DOCUMENT_START"}
          /\ written' = AfterStart(e.mark) /\ state' = "DOCUMENT_CONTENT"
      BY <1>6, <2>2 DEF HandleDocumentStart
    <3>2. AfterStart(e.mark) \in {"nothing", "marker"}
      BY <1>4, <2>2, <3>1, StartSeparates DEF DocumentMark
    <3> QED BY <3>1, <3>2
  <2> QED BY <1>6, <2>1, <2>2 DEF HandleDocumentStart
<1>7. CASE HandleDocumentContent(e, rest)
  <2>1. state = "DOCUMENT_CONTENT" /\ written' = WithContent(written)
    BY <1>7 DEF HandleDocumentContent
  <2>2. written' = "content"
    BY <1>1, <2>1 DEF WithContent
  <2> QED BY <1>2, <2>1, <2>2 DEF Border
<1>8. CASE HandleDocumentEnd(e)
  <2>1. /\ e.type = "DOCUMENT_END" /\ state' = "DOCUMENT_START"
        /\ written' = AfterEnd(e.mark, written)
    BY <1>8 DEF HandleDocumentEnd
  <2>2. CASE EndMarker(e.mark)
    BY <1>1, <2>1, <2>2 DEF AfterEnd, Marked
  <2>3. CASE ~EndMarker(e.mark)
    <3>1. written' = written
      BY <2>1, <2>3 DEF AfterEnd
    <3>2. StartMark = "AUTO" => e.mark # "explicit"
      BY <2>3, EmitterAssumption DEF EndMarker, Marking
    <3> QED BY <1>1, <1>4, <2>1, <3>1, <3>2
  <2> QED BY <2>2, <2>3
<1>9. CASE HandleSequenceItem(e, rest) \/ HandleMappingKey(e, rest) \/ HandleMappingValue(e, rest)
  <2>1. state \in Inside /\ written' = written
    BY <1>9 DEF HandleSequenceItem, HandleMappingKey, HandleMappingValue, Inside
  <2> QED BY <1>1, <1>2, <2>1 DEF Border
<1> QED BY <1>5, <1>6, <1>7, <1>8, <1>9 DEF Handle, e

(* Every step keeps the documents apart.                                   *)
LEMMA StepSeparated ==
  ASSUME Marking, Struct, Queued, Drained, Ordered, Separated, Next
  PROVE  Separated'
<1>1. docs \in Nat /\ strays \in Nat
  BY DEF Separated, Queued
<1>2. CASE Submit
  <2>1. docs' \in Nat
    BY <1>1, <1>2 DEF Submit
  <2>2. ASSUME strays' = 0, ~JsonMode PROVE
          /\ strays = 0
          /\ state \in {"FIRST_DOCUMENT_START", "DOCUMENT_START"} => explicit' = explicit
    <3>1. /\ strays = 0 /\ ~Ready(queued_events) /\ Follows(fed', nest, nest')
      BY <1>2, <2>2, AtSubmit
    <3>2. ASSUME fed' = "DOCUMENT_END"
          PROVE  state \notin {"FIRST_DOCUMENT_START", "DOCUMENT_START"}
      <4>1. nest # << >> /\ nest[Len(nest)] = "done"
        BY <3>1, <3>2 DEF Follows
      <4> QED BY <3>1, <4>1, EndLate
    <3>3. fed' # "DOCUMENT_END" => explicit' = explicit
      BY <1>2 DEF Submit
    <3> QED BY <3>1, <3>2, <3>3
  <2>3. /\ written' = written /\ mode' = mode
        /\ state' = (IF state = "NONE" THEN "STREAM_START" ELSE state)
        /\ state = "NONE" => docs = 0
    BY <1>2 DEF Submit
  <2> QED BY <2>1, <2>2, <2>3 DEF Separated, JsonMode
<1>3. CASE Act
  <2>1. /\ queued_events # << >> /\ mode' = mode /\ docs' = docs /\ strays' = strays
        /\ explicit' = explicit
    BY <1>3 DEF Act, Ready
  <2>2. CASE Handle(Head(queued_events), Tail(queued_events))
    <3>1. ASSUME ~JsonMode, strays = 0
          PROVE  /\ written' \in {"nothing", "marker", "content"}
                 /\ state' \notin {"NONE", "STREAM_START"}
                 /\ state' = "DOCUMENT_CONTENT" => written' # "content"
                 /\ state' \in {"FIRST_DOCUMENT_START", "DOCUMENT_START"} /\ StartMark = "AUTO"
                      /\ written' = "content" => ~explicit'
      BY <2>1, <2>2, <3>1, HandleSeparates
    <3> QED BY <1>1, <2>1, <3>1 DEF Separated, JsonMode
  <2>3. CASE Refused(Head(queued_events))
    <3>1. state' = state /\ written' = written /\ fyds' = fyds /\ had' = had
      BY <2>3 DEF Refused
    <3> QED BY <2>1, <3>1 DEF Separated, JsonMode
  <2> QED BY <1>3, <2>2, <2>3, Zenon DEF Act
<1>4. CASE Return
  BY <1>4 DEF Return, Separated, JsonMode, emitterVars
<1>5. CASE EmitDocument
  <2>1. /\ docs' = docs + 1 /\ state = "NONE" /\ state' = "NONE" /\ mode' = mode
        /\ strays' = strays
    BY <1>5 DEF EmitDocument
  <2>2. docs' \in Nat /\ docs' # 0
    BY <1>1, <2>1
  <2>3. CASE fyds # NoDocument
    <3>1. fyds' = fyds /\ written' = written
      BY <1>5, <2>3 DEF EmitDocument
    <3> QED BY <2>1, <2>2, <2>3, <3>1 DEF Separated, JsonMode
  <2>4. CASE fyds = NoDocument
    <3>1. PICK start \in Marks("DOCUMENT_START") :
             \/ \E end \in Marks("DOCUMENT_END") :
                  /\ had' = {"OUTPUT"} \cup (IF EndMarker(end) THEN {"END"} ELSE {})
                  /\ written' = AfterEnd(end, WithContent(AfterStart(start)))
             \/ fyds' = start /\ written' = AfterStart(start)
      BY <1>5, <2>4 DEF EmitDocument
    <3>2. ~JsonMode /\ strays = 0 => AfterStart(start) \in {"nothing", "marker"}
      BY <2>1, <2>4, DocumentSeparates
    <3>3. CASE fyds' = start /\ written' = AfterStart(start)
      BY <2>1, <2>2, <3>2, <3>3 DEF Separated, JsonMode
    <3>4. ASSUME NEW end \in Marks("DOCUMENT_END"),
                 had' = {"OUTPUT"} \cup (IF EndMarker(end) THEN {"END"} ELSE {}),
                 written' = AfterEnd(end, WithContent(AfterStart(start)))
          PROVE  Separated'
      <4>1. ~JsonMode /\ strays = 0 => WithContent(AfterStart(start)) = "content"
        BY <3>2 DEF WithContent
      <4>2. CASE EndMarker(end)
        <5>1. ~JsonMode /\ strays = 0 => written' = "marker"
          BY <3>4, <4>1, <4>2 DEF AfterEnd, Marked
        <5> QED BY <2>1, <2>2, <5>1 DEF Separated, JsonMode
      <4>3. CASE ~EndMarker(end)
        <5>1. ~JsonMode /\ strays = 0 => written' = "content"
          BY <3>4, <4>1, <4>3 DEF AfterEnd
        <5>2. "OUTPUT" \in had' /\ "END" \notin had'
          BY <3>4, <4>3
        <5> QED BY <2>1, <2>2, <5>1, <5>2 DEF Separated, JsonMode
      <4> QED BY <4>2, <4>3
    <3> QED BY <3>1, <3>3, <3>4
  <2> QED BY <2>3, <2>4
<1> QED BY <1>2, <1>3, <1>4, <1>5 DEF Next

(* Between the contents of two documents there is a marker: what           *)
(* fy_emit_common_document_start() decides from the flags of the emitter,  *)
(* and from the start that the parser gave the document, agrees with what  *)
(* was written when the last document ended, in events as well as through  *)
(* fy_emit_document(), as long as the configuration has markers to write.  *)
THEOREM EmitterDocumentsSeparated ==
  ASSUME Marking
  PROVE  Spec => []DocumentsSeparated
<1> DEFINE IInv == Struct /\ Queued /\ Drained /\ Ordered /\ Separated
<1>1. Init => IInv
  <2> SUFFICES ASSUME Init PROVE IInv
    OBVIOUS
  <2>1. Drained /\ Ordered /\ Separated
    BY DEF Init, Drained, Ready, Ordered, Shape, Separated
  <2> QED BY <2>1, InitStruct, InitQueued
<1>2. IInv /\ [Next]_vars => IInv'
  <2> SUFFICES ASSUME IInv, [Next]_vars PROVE IInv'
    OBVIOUS
  <2>1. CASE Next
    BY <2>1, StepStruct, StepQueued, StepDrained, StepOrdered, StepSeparated
  <2>2. CASE UNCHANGED vars
    <3>1. /\ Struct' /\ Queued'
      BY <2>2 DEF Struct, Queued, Chained, IsChain, StartsOnce, Open, vars, emitterVars, callerVars
    <3>2. Drained'
      BY <2>2, Zenon DEF Drained, Ready, Level, vars, emitterVars, callerVars
    <3>3. Ordered'
      BY <2>2 DEF Ordered, Shape, vars, emitterVars, callerVars
    <3>4. Separated'
      BY <2>2 DEF Separated, JsonMode, vars, emitterVars, callerVars
    <3> QED BY <3>1, <3>2, <3>3, <3>4
  <2> QED BY <2>1, <2>2
<1>3. IInv => DocumentsSeparated
  BY DEF Separated, DocumentsSeparated
<1> QED BY <1>1, <1>2, <1>3, PTL DEF Spec

=============================================================================
