----------------------------- MODULE FyScanNest -----------------------------
(***************************************************************************)
(* That the tokens of the scanner nest as its indent stack and its flow    *)
(* stack say, for every text.  What NestedBy makes of lists of tokens is   *)
(* in FyScanProofs; here is what single operations do to what the lists    *)
(* say is open, then the handlers, one after the other, and then what a    *)
(* parser that takes the tokens needs to know.                             *)
(***************************************************************************)
EXTENDS FyScanProofs

(* What the stacks say is open.                                            *)

(* One word for every bracket that is open.                                *)
LEMMA FlowedType ==
  ASSUME NEW fs \in Seq(Brackets), fs # << >>
  PROVE  /\ Flowed(fs) \in Seq(Words) /\ Len(Flowed(fs)) = Len(fs) - 1
         /\ \A i \in 1 .. Len(fs) - 1 : Flowed(fs)[i] = fs[i + 1].flow
<1> DEFINE n == Len(fs) - 1
<1>1. n \in Nat
  BY EmptySeq
<1>2. ASSUME NEW i \in 1 .. n PROVE fs[i + 1].flow \in Words
  <2>1. i + 1 \in 1 .. Len(fs)
    BY <1>1
  <2>2. fs[i + 1] \in Brackets
    BY <2>1, ElementOfSeq
  <2> QED BY <2>2, Zenon DEF Words, Brackets
<1>3. Flowed(fs) \in [1 .. n -> Words]
  BY <1>2 DEF Flowed
<1>4. Flowed(fs) \in Seq(Words) /\ Len(Flowed(fs)) = n
  BY <1>1, <1>3, SeqOfFunction
<1>5. \A i \in 1 .. n : Flowed(fs)[i] = fs[i + 1].flow
  BY DEF Flowed
<1> QED BY <1>4, <1>5

(* One more bracket is one more word.                                      *)
LEMMA FlowedAppend ==
  ASSUME NEW fs \in Seq(Brackets), fs # << >>, NEW f \in Brackets
  PROVE  Flowed(Append(fs, f)) = Append(Flowed(fs), f.flow)
<1> DEFINE z == Append(fs, f)
           n == Len(fs)
           b == Flowed(fs)
           c == Flowed(z)
           d == Append(b, f.flow)
<1>1. n \in Nat /\ n > 0
  BY EmptySeq
<1>2. /\ z \in Seq(Brackets) /\ z # << >> /\ Len(z) = n + 1 /\ z[n + 1] = f
      /\ \A i \in 1 .. n : z[i] = fs[i]
  BY AppendProperties
<1>3. /\ b \in Seq(Words) /\ Len(b) = n - 1
      /\ \A i \in 1 .. n - 1 : b[i] = fs[i + 1].flow
  BY FlowedType
<1> HIDE DEF z
<1>4. /\ c \in Seq(Words) /\ Len(c) = Len(z) - 1
      /\ \A i \in 1 .. Len(z) - 1 : c[i] = z[i + 1].flow
  BY <1>2, FlowedType
<1>5. f.flow \in Words
  BY Zenon DEF Words, Brackets
<1> HIDE DEF b, c
<1>6. /\ d \in Seq(Words) /\ Len(d) = Len(b) + 1 /\ d[Len(b) + 1] = f.flow
      /\ \A i \in 1 .. Len(b) : d[i] = b[i]
  BY <1>3, <1>5, AppendProperties
<1> HIDE DEF d, n
<1>7. Len(c) = n /\ Len(d) = n
  BY <1>1, <1>2, <1>3, <1>4, <1>6
<1>8. ASSUME NEW i \in 1 .. n PROVE c[i] = d[i]
  <2>1. c[i] = z[i + 1].flow
    BY <1>1, <1>2, <1>4
  <2>2. CASE i = n
    BY <1>1, <1>2, <1>3, <1>6, <2>1, <2>2
  <2>3. CASE i # n
    <3>1. i \in 1 .. n - 1 /\ i + 1 \in 1 .. n
      BY <1>1, <2>3
    <3>2. d[i] = fs[i + 1].flow
      BY <1>3, <1>6, <3>1
    <3> QED BY <1>2, <2>1, <3>1, <3>2
  <2> QED BY <2>2, <2>3
<1>9. c = d
  BY <1>4, <1>6, <1>7, <1>8, SeqEqual
<1> QED BY <1>9 DEF b, c, d, z

(* So ageing the brackets and setting what is pending keep the words.      *)
LEMMA FlowedAged ==
  ASSUME NEW fs \in Seq(Brackets)
  PROVE  Flowed(AgeFlows(fs)) = Flowed(fs)
<1> DEFINE a == AgeFlows(fs)
<1>1. Len(fs) \in Nat /\ DOMAIN fs = 1 .. Len(fs)
  BY LenProperties
<1>2. \A i \in 1 .. Len(fs) : a[i].flow = fs[i].flow
  <2> SUFFICES ASSUME NEW i \in 1 .. Len(fs) PROVE a[i].flow = fs[i].flow
    OBVIOUS
  <2> DEFINE f == fs[i]
             p == [f.pending EXCEPT !.old = f.pending.column >= 0]
  <2>1. a[i] = [f EXCEPT !.pending = p]
    BY <1>1 DEF AgeFlows
  <2>2. f \in Brackets
    BY ElementOfSeq
  <2> HIDE DEF p, f, a
  <2>3. a[i].flow = f.flow
    BY <2>1, <2>2, Zenon DEF Brackets
  <2> QED BY <2>3 DEF f
<1>3. Len(a) = Len(fs)
  <2>1. DOMAIN a = 1 .. Len(fs)
    BY <1>1 DEF AgeFlows
  <2>2. a \in [1 .. Len(fs) -> {a[i] : i \in 1 .. Len(fs)}]
    BY <1>1, <2>1 DEF AgeFlows
  <2> HIDE DEF a
  <2> QED BY <1>1, <2>2, SeqOfFunction
<1> HIDE DEF a
<1>4. Flowed(fs) = Flowed(a)
  BY <1>1, <1>2, <1>3, FlowedSame
<1> QED BY <1>4 DEF a

(* The same for WithPending.                                               *)
LEMMA FlowedPending ==
  ASSUME NEW fs \in Seq(Brackets), fs # << >>, NEW p \in Pendings
  PROVE  Flowed(WithPending(fs, p)) = Flowed(fs)
<1> DEFINE n == Len(fs)
           e == [fs[n] EXCEPT !.pending = p]
           w == [fs EXCEPT ![n] = e]
<1>1. n \in Nat /\ n \in 1 .. Len(fs)
  BY EmptySeq
<1>2. fs[n] \in Brackets
  BY <1>1, ElementOfSeq
<1>3. e \in Brackets /\ e.flow = fs[n].flow
  BY <1>2, Zenon DEF Brackets
<1>4. WithPending(fs, p) = w
  <2>1. DOMAIN fs = 1 .. Len(fs)
    BY LenProperties
  <2> QED BY <1>1, <2>1 DEF WithPending
<1> HIDE DEF n, e
<1>5. Len(w) = Len(fs) /\ \A j \in 1 .. Len(fs) : w[j] = IF j = n THEN e ELSE fs[j]
  BY <1>1, <1>3, ExceptSeq
<1> HIDE DEF w
<1>6. \A j \in 1 .. Len(fs) : fs[j].flow = w[j].flow
  BY <1>3, <1>5
<1>7. Flowed(fs) = Flowed(w)
  BY <1>1, <1>5, <1>6, FlowedSame DEF n
<1> QED BY <1>4, <1>7

-----------------------------------------------------------------------------
(* Closing block levels.                                                   *)

(* Outside brackets no bracket is open.                                    *)
LEMMA NoBracket ==
  ASSUME NEW fs, FlowsOK(fs, 0)
  PROVE  Flowed(fs) = << >>
<1>1. fs \in Seq(Brackets) /\ Len(fs) = 1
  BY DEF FlowsOK
<1>2. fs # << >>
  BY <1>1
<1>3. Flowed(fs) \in Seq(Words) /\ Len(Flowed(fs)) = 0
  BY <1>1, <1>2, FlowedType
<1> QED BY <1>3, EmptySeq

(* fy_parse_unroll_indent() closes exactly the levels it pops.             *)
LEMMA UnrollNests ==
  ASSUME LevelsOK(indents), FlowsOK(flows, flow_level), queue \in Seq(Tokens),
         Nests(out, queue, indents, flows), NEW column \in Int, column >= -1
  PROVE  Nests(out, queue \o BlockEnds(column), Unroll(indents, column), flows)
<1> DEFINE k == Popped(indents, column)
           L == Len(indents)
           F == Flowed(flows)
<1>1. indents \in Seq(Levels) /\ indents # << >> /\ L \in Nat
  BY DEF LevelsOK
<1>2. k \in 0 .. L - 1 /\ k \in Nat /\ (flow_level > 0 => k = 0)
  BY PoppedIs
<1>3. BlockEnds(column) = Ends(k) /\ Unroll(indents, column) = SubSeq(indents, 1, L - k)
  BY DEF BlockEnds, Ends, Unroll
<1>4. Ends(k) \in Seq(Tokens)
  BY <1>2, EndsAppend
<1> HIDE DEF k
<1>5. NestedBy(out, queue \o Ends(k)) = NestedBy(Blocks(indents) \o F, Ends(k))
  <2>1. NestedBy(out, queue \o Ends(k)) = NestedBy(NestedBy(out, queue), Ends(k))
    BY <1>4, NestedByConcat
  <2>2. NestedBy(out, queue) = Blocks(indents) \o F
    BY DEF Nests
  <2> QED BY <2>1, <2>2
<1>6. Blocks(indents) \in Seq(Words)
  BY <1>1, BlocksType
<1>7. CASE flow_level > 0
  <2>1. k = 0 /\ Ends(k) = << >> /\ L - k = L
    BY <1>1, <1>2, <1>7, EndsAppend
  <2>2. SubSeq(indents, 1, L) = indents
    BY <1>1, SubSeqFull
  <2>3. NestedBy(Blocks(indents) \o F, << >>) = Blocks(indents) \o F
    BY NestedByNone, Zenon
  <2> QED BY <1>3, <1>5, <2>1, <2>2, <2>3, Zenon DEF Nests
<1>8. CASE ~(flow_level > 0)
  <2>1. flow_level = 0
    BY <1>8 DEF FlowsOK
  <2>2. F = << >>
    BY <2>1, NoBracket
  <2>3. NestedBy(Blocks(indents), Ends(k)) = Blocks(SubSeq(indents, 1, L - k))
    BY <1>1, <1>2, EndsNest
  <2>4. Blocks(indents) \o << >> = Blocks(indents)
    BY <1>6, ConcatEmptySeq
  <2> DEFINE u == SubSeq(indents, 1, L - k)
  <2>5. u \in Seq(Levels) /\ u # << >>
    <3>1. LevelsOK(Unroll(indents, column))
      BY UnrollOK
    <3> QED BY <1>3, <3>1 DEF LevelsOK
  <2> HIDE DEF u
  <2>6. Blocks(u) \in Seq(Words)
    BY <2>5, BlocksType
  <2>7. Blocks(u) \o << >> = Blocks(u)
    BY <2>6, ConcatEmptySeq
  <2> HIDE DEF F
  <2>8. NestedBy(out, queue \o Ends(k)) = Blocks(u) \o F
    BY <1>5, <2>2, <2>3, <2>4, <2>7 DEF u
  <2> QED BY <1>3, <2>8 DEF Nests, F, u
<1> QED BY <1>7, <1>8

-----------------------------------------------------------------------------
(* Lists of keys.                                                          *)

(* What is left behind the head of the list.                               *)
LEMMA AfterPart ==
  ASSUME NEW q, NEW fl, NEW ks, KeysOK(ks, q, fl), NEW n \in 0 .. Len(ks)
  PROVE  Part(After(ks, n), ks)
<1>1. /\ Len(After(ks, n)) = Len(ks) - n
      /\ \A i \in 1 .. Len(ks) - n : After(ks, n)[i] = ks[n + i]
  BY AfterOK
<1>2. Len(ks) \in Nat
  BY DEF KeysOK
<1>3. \A i \in 1 .. Len(ks) - n : n + i \in 1 .. Len(ks)
  BY <1>2
<1> QED BY <1>1, <1>3 DEF Part

(* Purging leaves a part.                                                  *)
LEMMA PurgedPart ==
  ASSUME NEW q, NEW fl, NEW ks, NEW at \in Nat, KeysOK(ks, q, fl)
  PROVE  Part(Purged(ks, at), ks)
<1>1. StaleLen(ks, at) \in 0 .. Len(ks)
  BY StaleLenIs DEF KeysOK
<1> QED BY <1>1, AfterPart DEF Purged

(* So does removing.                                                       *)
LEMMA RemovedPart ==
  ASSUME flow_level \in Nat, NEW q, NEW fl, NEW ks, KeysOK(ks, q, fl)
  PROVE  Part(Removed(ks), ks)
<1>1. RemoveLen(ks) \in 0 .. Len(ks)
  BY RemoveLenIs DEF KeysOK
<1> QED BY <1>1, AfterPart DEF Removed

(* The tail of a list of keys.                                             *)
LEMMA TailPart ==
  ASSUME NEW q, NEW fl, NEW ks, KeysOK(ks, q, fl), ks # << >>
  PROVE  Part(Tail(ks), ks)
<1>1. ks \in Seq(Keys) /\ Len(ks) \in Nat /\ 1 \in 0 .. Len(ks)
  BY EmptySeq DEF KeysOK
<1>2. Tail(ks) = After(ks, 1)
  BY <1>1, TailIsSubSeq DEF After
<1> QED BY <1>1, <1>2, AfterPart, Zenon

(* A key behind which the line has changed opens no mapping.               *)
LEMMA AgedNoFresh ==
  ASSUME NEW ks \in Seq(Keys)
  PROVE  NoFresh(Age(ks))
<1> DEFINE a == Age(ks)
<1>1. Len(ks) \in Nat /\ DOMAIN ks = 1 .. Len(ks)
  BY LenProperties
<1>2. \A i \in 1 .. Len(ks) : a[i].old = TRUE
  <2> SUFFICES ASSUME NEW i \in 1 .. Len(ks) PROVE a[i].old = TRUE
    BY Zenon
  <2>1. ks[i] \in Keys
    BY ElementOfSeq
  <2> QED BY <1>1, <2>1, Zenon DEF Age, Keys
<1>3. Len(a) = Len(ks)
  <2>1. a \in [1 .. Len(ks) -> {a[i] : i \in 1 .. Len(ks)}]
    BY <1>1, Zenon DEF Age
  <2> HIDE DEF a
  <2> QED BY <1>1, <2>1, SeqOfFunction
<1> HIDE DEF a
<1>4. NoFresh(a)
  BY <1>2, <1>3 DEF NoFresh, Fresh
<1> QED BY <1>4 DEF a

(* What is saved: the new key, and some of those before.                   *)
LEMMA SavedParts ==
  ASSUME flow_level \in Nat, NEW q, NEW ks, KeysOK(ks, q, flow_level), NEW k \in Keys
  PROVE  \A i \in 1 .. Len(Saved(ks, k)) :
           Saved(ks, k)[i] = k \/ \E j \in 1 .. Len(ks) : Saved(ks, k)[i] = ks[j]
<1> DEFINE p == Purged(ks, flow_level)
           r == IF Reuses(p) THEN Tail(p) ELSE p
           z == <<k>> \o r
<1>1. KeysOK(p, q, flow_level) /\ Part(p, ks)
  BY PurgedOK, PurgedPart
<1> HIDE DEF p
<1>2. Part(r, ks) /\ r \in Seq(Keys)
  <2>1. CASE Reuses(p)
    <3>1. p # << >> /\ p \in Seq(Keys)
      BY <1>1, <2>1 DEF Reuses, KeysOK
    <3>2. Part(Tail(p), p)
      BY <1>1, <3>1, TailPart
    <3>3. Tail(p) \in Seq(Keys)
      BY <3>1, HeadTailProperties
    <3> QED BY <1>1, <2>1, <3>2, <3>3, PartOfPart
  <2>2. CASE ~Reuses(p)
    BY <1>1, <2>2 DEF KeysOK
  <2> QED BY <2>1, <2>2
<1>3. Saved(ks, k) = IF allowed THEN z ELSE p
  BY DEF Saved, p
<1> HIDE DEF r
<1>4. /\ Len(r) \in Nat /\ Len(z) = Len(r) + 1 /\ z[1] = k
      /\ \A i \in 2 .. Len(r) + 1 : z[i] = r[i - 1]
  BY <1>2
<1> HIDE DEF z
<1>5. ASSUME NEW i \in 1 .. Len(z) PROVE z[i] = k \/ \E j \in 1 .. Len(ks) : z[i] = ks[j]
  <2>1. CASE i = 1
    BY <1>4, <2>1
  <2>2. CASE i # 1
    <3>1. i - 1 \in 1 .. Len(r) /\ z[i] = r[i - 1]
      BY <1>4, <2>2
    <3> QED BY <1>2, <3>1 DEF Part
  <2> QED BY <2>1, <2>2
<1> QED BY <1>1, <1>3, <1>5 DEF Part

-----------------------------------------------------------------------------
(* Tokens queued behind the others.                                        *)

(* A bracket that opens.                                                   *)
LEMMA TurnsOpen ==
  ASSUME NEW fs \in Seq(Brackets), fs # << >>, NEW gs, NEW t \in FlowStarts,
         Flowed(gs) = Append(Flowed(fs), OpenedBy(t))
  PROVE  Turns(fs, <<t>>, gs)
<1> DEFINE F == Flowed(fs)
           w == OpenedBy(t)
<1>1. F \in Seq(Words)
  BY FlowedType
<1>2. t \in Tokens
  BY DEF Tokens, BodyTokens
<1> HIDE DEF F
<1>3. ASSUME NEW b \in Seq(Words) PROVE NestedBy(b \o F, <<t>>) = b \o Append(F, w)
  <2>1. NestedBy(b \o F, <<t>>) = Append(b \o F, w) /\ w \in Words
    BY <1>2, NestedByOne, NestedOpens, Zenon
  <2>2. b \o F \in Seq(Words) /\ <<w>> \in Seq(Words)
    BY <1>1, <2>1, ConcatProperties
  <2>3. Append(b \o F, w) = (b \o F) \o <<w>> /\ Append(F, w) = F \o <<w>>
    BY <1>1, <2>1, <2>2, AppendIsConcat
  <2> HIDE DEF w
  <2>4. (b \o F) \o <<w>> = b \o (F \o <<w>>)
    BY <1>1, <2>2, ConcatAssociative
  <2> QED BY <2>1, <2>3, <2>4, Zenon
<1> QED BY <1>3, Zenon DEF Turns, F

(* A bracket that closes.                                                  *)
LEMMA TurnsClose ==
  ASSUME NEW fs, NEW gs \in Seq(Brackets), gs # << >>, NEW t \in FlowEnds,
         NEW w \in ClosedBy(t), Flowed(fs) = Append(Flowed(gs), w)
  PROVE  Turns(fs, <<t>>, gs)
<1> DEFINE G == Flowed(gs)
<1>1. G \in Seq(Words)
  BY FlowedType
<1>2. t \in Tokens /\ w \in Words
  <2>1. t \in Tokens
    BY DEF Tokens, BodyTokens
  <2>2. w \in Words
    BY Zenon DEF ClosedBy, Words, FlowEnds
  <2> QED BY <2>1, <2>2
<1> HIDE DEF G
<1>3. ASSUME NEW b \in Seq(Words) PROVE NestedBy(b \o Append(G, w), <<t>>) = b \o G
  <2>1. b \o G \in Seq(Words) /\ <<w>> \in Seq(Words)
    BY <1>1, <1>2, ConcatProperties
  <2>2. Append(b \o G, w) = (b \o G) \o <<w>> /\ Append(G, w) = G \o <<w>>
    BY <1>1, <1>2, <2>1, AppendIsConcat
  <2>3. (b \o G) \o <<w>> = b \o (G \o <<w>>)
    BY <1>1, <2>1, ConcatAssociative
  <2>4. Nested(Append(b \o G, w), t) = b \o G
    BY <2>1, NestedCloses, Zenon
  <2>5. NestedBy(b \o Append(G, w), <<t>>) = Nested(b \o Append(G, w), t)
    BY <1>2, NestedByOne
  <2> QED BY <2>2, <2>3, <2>4, <2>5, Zenon
<1> QED BY <1>3, Zenon DEF Turns, G

(* The token just queued, for which a key is saved.                        *)
LEMMA SaveNests ==
  ASSUME flow_level \in Nat, look'.column \in Columns, tokens \in Seq(Tokens),
         LevelsOK(levels), FlowsOK(flowing, flow_level),
         NEW o, NEW ks, KeysOK(ks, tokens, flow_level),
         AllNest(o, ks, tokens, levels, flowing, look'.column),
         flow_level = 0 => Last(levels).indent <= look'.column,
         NEW t \in Tokens, NEW gs, Turns(flowing, <<t>>, gs),
         NEW old \in BOOLEAN, NEW endold \in BOOLEAN, queue' = Append(tokens, t)
  PROVE  AllNest(o, Saved(ks, Key(Len(queue'), old, endold)), queue', levels, gs,
                 look'.column)
<1> DEFINE k == Key(Len(queue'), old, endold)
           z == Saved(ks, k)
           col == look'.column
<1>1. levels \in Seq(Levels) /\ levels # << >> /\ <<t>> \in Seq(Tokens)
  BY DEF LevelsOK
<1>2. queue' = tokens \o <<t>> /\ Len(queue') = Len(tokens) + 1 /\ Len(tokens) \in Nat
  BY AppendIsConcat, AppendProperties, LenProperties
<1>3. AllNest(o, ks, queue', levels, gs, col)
  BY <1>1, <1>2, GrowNests, Zenon
<1>4. /\ k \in Keys /\ k.token = Len(tokens) + 1 /\ k.flow_level = flow_level
      /\ k.column = look'.column
  BY <1>2 DEF Key, Keys
<1> HIDE DEF k
<1>5. KeyNests(o, k, queue', levels, gs, col)
  <2> SUFFICES ASSUME Fresh(k)
               PROVE  /\ Last(levels).indent <= k.column /\ k.column <= col
                      /\ Splits(o, queue', k.token, levels, gs)
    BY DEF KeyNests
  <2>1. flow_level = 0
    BY <1>4 DEF Fresh
  <2>2. Last(levels).indent <= k.column /\ k.column <= col
    <3>1. col \in Nat
      BY ColumnsNat, Zenon
    <3> QED BY <1>4, <2>1, <3>1
  <2>3. Flowed(flowing) = << >>
    BY <2>1, NoBracket
  <2>4. NestedBy(o, tokens) = Blocks(levels)
    <3>1. NestedBy(o, tokens) = Blocks(levels) \o Flowed(flowing)
      BY DEF AllNest, Nests
    <3>2. Blocks(levels) \in Seq(Words)
      BY <1>1, BlocksType
    <3> QED BY <2>3, <3>1, <3>2, ConcatEmptySeq
  <2>5. ASSUME NEW b \in Seq(Words) PROVE NestedBy(b, <<t>>) = b \o Flowed(gs)
    <3>1. NestedBy(b \o Flowed(flowing), <<t>>) = b \o Flowed(gs)
      BY Zenon DEF Turns
    <3>2. b \o << >> = b
      BY ConcatEmptySeq
    <3> QED BY <2>3, <3>1, <3>2, Zenon
  <2>6. Len(tokens) = k.token - 1
    BY <1>2, <1>4
  <2>7. Splits(o, queue', k.token, levels, gs)
    BY <1>1, <1>2, <2>4, <2>5, <2>6, Zenon DEF Splits
  <2> QED BY <2>2, <2>7
<1>6. \A i \in 1 .. Len(z) : z[i] = k \/ \E j \in 1 .. Len(ks) : z[i] = ks[j]
  BY <1>4, SavedParts
<1> HIDE DEF z, col
<1>7. KeysNest(o, z, queue', levels, gs, col)
  BY <1>3, <1>5, <1>6, Zenon DEF KeysNest, AllNest
<1> QED BY <1>3, <1>7 DEF AllNest, z, k, col

(* A key saved as old opens no mapping.                                    *)
LEMMA SaveOldNoFresh ==
  ASSUME flow_level \in Nat, NEW q, NEW ks, KeysOK(ks, q, flow_level), NoFresh(ks),
         NEW k \in Keys, k.old
  PROVE  NoFresh(Saved(ks, k))
<1>1. \A i \in 1 .. Len(Saved(ks, k)) :
        Saved(ks, k)[i] = k \/ \E j \in 1 .. Len(ks) : Saved(ks, k)[i] = ks[j]
  BY SavedParts
<1>2. ~Fresh(k)
  BY DEF Fresh
<1> QED BY <1>1, <1>2, Zenon DEF NoFresh

-----------------------------------------------------------------------------
(* The invariants.                                                         *)

(* Once the end of the stream has been taken nothing is queued.            *)
Drained == stream_end_produced => queue = << >>

(* The inductive invariant, which holds until an error.  Balanced is       *)
(* Nests, inside AllNest; KeysNest adds that a mapping can still be opened *)
(* in front of every key that may open one.  A lexeme that spans lines     *)
(* leaves no such key behind.                                              *)
NestInv == /\ out \in Seq(Words)
           /\ AllNest(out, simple_keys, queue, indents, flows, look.column)
           /\ look.c \in Spans => NoFresh(simple_keys)

(* At the end of the text no block is open, unless a bracket still is.     *)
Unrolled == stream_end_reached /\ flow_level = 0 => Len(indents) = 1

-----------------------------------------------------------------------------
(* A fetch.                                                                *)

(* Columns are numbers.                                                    *)
LEMMA ColumnInt ==
  ASSUME NEW c \in Columns PROVE c \in Nat /\ c \in Int /\ c >= -1
<1>1. c \in Nat
  BY ColumnsNat
<1> QED BY <1>1

(* On the line of the lexeme before, the text does not go back.            *)
LEMMA LineGrows ==
  ASSUME IInv, NEW C, Fetch(C), ~NewLine, look.c \notin Spans
  PROVE  look.column <= look'.column
<1>1. look' \in LexemesOf(C \cap Chars) /\ Follows(look') /\ look'.column \in Columns
  BY DEF Fetch, LexemesOf
<1>2. look'.c # "EOF"
  BY <1>1, CharsAssumption, Zenon DEF LexemesOf, AllChars
<1>3. look' # NoText
  BY <1>2 DEF NoText
<1>4. SameLine(look')
  BY <1>1, <1>3, Zenon DEF Follows, NewLine
<1>5. look'.column > look.column \/ look'.column = look.column
  BY <1>4 DEF SameLine
<1>6. look.column \in Columns
  BY DEF IInv, StreamOK, Lexemes, LexemesOf
<1>7. look'.column \in Int /\ look.column \in Int
  BY <1>1, <1>6, ColumnInt
<1> QED BY <1>5, <1>7

(* Unrolling stops at the column.                                          *)
LEMMA UnrollsTo ==
  ASSUME LevelsOK(indents), flow_level \in Nat, look'.column \in Columns
  PROVE  flow_level = 0 => Last(levels).indent <= look'.column
<1> DEFINE col == look'.column
           n == Len(indents) - Popped(indents, col)
<1>1. col \in Int /\ col >= -1
  BY ColumnInt
<1>2. indents \in Seq(Levels) /\ Len(indents) \in Nat
  BY DEF LevelsOK
<1>3. n \in 1 .. Len(indents)
  <2>1. Popped(indents, col) \in 0 .. Len(indents) - 1
    BY <1>1, PoppedIs, Zenon
  <2> QED BY <1>2, <2>1
<1>4. levels = SubSeq(indents, 1, n)
  BY DEF levels, Unroll
<1>5. flow_level = 0 => indents[n].indent <= col
  <2>1. ~(flow_level > 0) => indents[n].indent <= col
    BY <1>1, PoppedIs, Zenon
  <2> QED BY <2>1
<1> HIDE DEF n
<1>6. Last(levels) = indents[n]
  BY <1>2, <1>3, <1>4 DEF Last
<1> QED BY <1>5, <1>6

(* Where nothing is unrolled the context stays.                            *)
LEMMA UnrollsNothing ==
  ASSUME LevelsOK(indents), flow_level \in Nat, look'.column \in Columns,
         queue \in Seq(Tokens), Last(indents).indent <= look'.column
  PROVE  levels = indents /\ tokens = queue
<1> DEFINE col == look'.column
           k == Popped(indents, col)
           L == Len(indents)
<1>1. col \in Int /\ col >= -1
  BY ColumnInt
<1>2. indents \in Seq(Levels) /\ L \in Nat /\ L > 0 /\ indents # << >>
  BY DEF LevelsOK
<1>3. /\ k \in 0 .. L - 1 /\ (flow_level > 0 => k = 0)
      /\ ~(flow_level > 0) => \A i \in L - k + 1 .. L : indents[i].indent > col
  BY <1>1, PoppedIs, Zenon
<1>4. indents[L].indent <= col /\ indents[L].indent \in Int
  BY <1>2, LevelIndents DEF Last
<1>5. k = 0
  <2> HIDE DEF k, L, col
  <2>1. k # 0 => L \in L - k + 1 .. L
    BY <1>2, <1>3
  <2> QED BY <1>1, <1>3, <1>4, <2>1
<1>6. levels = indents
  <2>1. levels = SubSeq(indents, 1, L - k)
    BY DEF levels, Unroll
  <2>2. SubSeq(indents, 1, L) = indents
    BY <1>2, SubSeqFull
  <2>3. L - k = L
    BY <1>2, <1>5
  <2> QED BY <2>1, <2>2, <2>3
<1>7. tokens = queue
  <2>1. BlockEnds(col) = Ends(0)
    BY <1>5 DEF BlockEnds, Ends
  <2>2. Ends(0) = << >>
    BY EndsAppend
  <2>3. tokens = queue \o << >>
    BY <2>1, <2>2 DEF tokens
  <2> QED BY <2>3, ConcatEmptySeq
<1> QED BY <1>6, <1>7

(* The context that every handler begins with.                             *)
LEMMA FetchNests ==
  ASSUME IInv, NestInv, NEW C, Fetch(C)
  PROVE  /\ AllNest(out, keys, tokens, levels, flowing, look'.column)
         /\ flow_level = 0 => Last(levels).indent <= look'.column
         /\ flow_level \in Nat /\ look'.column \in Columns /\ tokens \in Seq(Tokens)
         /\ KeysOK(keys, tokens, flow_level) /\ LevelsOK(levels)
         /\ levels \in Seq(Levels) /\ levels # << >>
         /\ FlowsOK(flowing, flow_level) /\ flowing \in Seq(Brackets) /\ flowing # << >>
<1> DEFINE col == look'.column
<1>1. Fetches /\ look' \in Lexemes
  BY FetchLooks
<1>2. /\ flow_level \in Nat /\ col \in Columns /\ tokens \in Seq(Tokens)
      /\ queue \in Seq(Tokens)
      /\ KeysOK(keys, tokens, flow_level) /\ LevelsOK(levels)
      /\ FlowsOK(flowing, flow_level)
  BY <1>1, FetchContext DEF Body
<1>3. /\ levels \in Seq(Levels) /\ levels # << >> /\ flowing \in Seq(Brackets)
      /\ flowing # << >>
  <2>1. flowing \in Seq(Brackets) /\ Len(flowing) = flow_level + 1
    BY <1>2 DEF FlowsOK
  <2>2. flowing # << >>
    BY <1>2, <2>1
  <2> QED BY <1>2, <2>1, <2>2 DEF LevelsOK
<1>4. LevelsOK(indents) /\ FlowsOK(flows, flow_level) /\ flows \in Seq(Brackets)
  BY <1>1 DEF IInv, BracketsOK, FlowsOK, Fetches
<1>5. flow_level = 0 => Last(levels).indent <= col
  BY <1>2, <1>4, UnrollsTo
<1>6. Nests(out, tokens, levels, flowing)
  <2>1. col \in Int /\ col >= -1
    BY <1>2, ColumnInt
  <2>2. Nests(out, tokens, levels, flows)
    BY <1>2, <1>4, <2>1, UnrollNests DEF NestInv, AllNest, tokens, levels
  <2>3. Flowed(flowing) = Flowed(flows)
    BY <1>4, FlowedAged DEF flowing
  <2> QED BY <2>2, <2>3 DEF Nests
<1>7. KeysNest(out, keys, tokens, levels, flowing, col)
  <2>1. CASE NewLine
    <3>1. keys = Age(simple_keys) /\ simple_keys \in Seq(Keys)
      BY <2>1 DEF keys, IInv, KeysOK
    <3> QED BY <3>1, AgedNoFresh, NoFreshNests
  <2>2. CASE ~NewLine
    <3>1. keys = simple_keys /\ flowing = flows
      BY <2>2 DEF keys, flowing
    <3> SUFFICES ASSUME NEW i \in 1 .. Len(simple_keys), Fresh(simple_keys[i])
                 PROVE  KeyNests(out, simple_keys[i], tokens, levels, flows, col)
      BY <3>1 DEF KeysNest, KeyNests
    <3> DEFINE k == simple_keys[i]
    <3>2. k.column \in Columns
      BY KeyParts DEF IInv, KeysOK
    <3>3. KeyNests(out, k, queue, indents, flows, look.column)
      BY DEF NestInv, AllNest, KeysNest
    <3> HIDE DEF k
    <3>4. /\ Last(indents).indent <= k.column /\ k.column <= look.column
          /\ Splits(out, queue, k.token, indents, flows)
      BY <3>3 DEF KeyNests, k
    <3>5. look.c \notin Spans
      BY DEF NestInv, NoFresh
    <3>6. look.column <= col
      BY <2>2, <3>5, LineGrows
    <3>7. k.column <= col /\ Last(indents).indent <= col
      <4>1. indents # << >> /\ indents \in Seq(Levels)
        BY <1>4 DEF LevelsOK
      <4>2. Last(indents) \in Levels
        BY <4>1 DEF Last
      <4>3. Last(indents).indent \in Int
        BY <4>2, LevelIndents
      <4>4. look.column \in Columns
        BY DEF IInv, StreamOK, Lexemes, LexemesOf
      <4>5. k.column \in Int /\ look.column \in Int /\ col \in Int
        BY <1>2, <3>2, <4>4, ColumnInt
      <4> QED BY <3>4, <3>6, <4>3, <4>5
    <3>8. levels = indents /\ tokens = queue
      BY <1>2, <1>4, <3>7, UnrollsNothing
    <3>9. KeyNests(out, k, tokens, levels, flows, col)
      BY <3>4, <3>7, <3>8 DEF KeyNests
    <3> QED BY <3>9 DEF k
  <2> QED BY <2>1, <2>2
<1> QED BY <1>2, <1>3, <1>5, <1>6, <1>7 DEF AllNest

(* A handler that reports no error has got to its end.                     *)
LEMMA NotFailed == ~stream_error' => ~Failed
BY DEF Failed

(* The end of every handler that succeeds.                                 *)
LEMMA FetchKeeps ==
  ASSUME IInv, NestInv, IInv', Fetches, NEW S, Done(S), out' = out,
         AllNest(out, simple_keys', queue', indents', flows', look'.column),
         look'.c \in Spans => NoFresh(simple_keys')
  PROVE  NestInv'
BY DEF NestInv

-----------------------------------------------------------------------------
(* The handlers.                                                           *)

(* Saving what is pending keeps the brackets.                              *)
LEMMA SavePendingFlowed ==
  ASSUME flowing \in Seq(Brackets), flowing # << >>
  PROVE  Flowed(SavePending) = Flowed(flowing)
BY NoPendingType, FlowedPending DEF SavePending

(* fy_fetch_flow_collection_mark_start()                                   *)
LEMMA FlowStartNests ==
  ASSUME IInv, NestInv, FlowStart, ~stream_error', out' = out PROVE NestInv'
<1> DEFINE t == IF look'.c = "[" THEN "FLOW_SEQUENCE_START" ELSE "FLOW_MAPPING_START"
           f == [flow |-> look'.c, pending |-> NoPending]
<1>1. Fetch({"[", "{"}) /\ Fetches /\ look'.c \in {"[", "{"} /\ IInv'
  BY FetchLooks, FlowStartStep, Zenon DEF FlowStart
<1>2. /\ AllNest(out, keys, tokens, levels, flowing, look'.column)
      /\ flow_level = 0 => Last(levels).indent <= look'.column
      /\ flow_level \in Nat /\ look'.column \in Columns /\ tokens \in Seq(Tokens)
      /\ KeysOK(keys, tokens, flow_level) /\ LevelsOK(levels)
      /\ FlowsOK(flowing, flow_level) /\ flowing \in Seq(Brackets) /\ flowing # << >>
  BY <1>1, FetchNests, Zenon
<1>3. /\ queue' = Append(tokens, t) /\ indents' = levels /\ flows' = Append(SavePending, f)
      /\ simple_keys' = Saved(keys, Key(Len(queue'), FALSE, FALSE)) /\ Done(Anything)
  BY NotFailed, Zenon DEF FlowStart, FlowStartToken
<1>4. t \in FlowStarts /\ t \in Tokens /\ OpenedBy(t) = look'.c
  BY <1>1, NeutralTokens, Zenon DEF FlowStarts, OpenedBy
<1>5. f \in Brackets /\ f.flow = look'.c
  BY <1>1, NoPendingType, Zenon DEF Brackets
<1> HIDE DEF t, f
<1>6. Flowed(flows') = Append(Flowed(flowing), look'.c)
  <2>1. FlowsOK(SavePending, flow_level)
    BY <1>2, SavePendingOK
  <2>2. SavePending \in Seq(Brackets) /\ Len(SavePending) = flow_level + 1
    BY <2>1 DEF FlowsOK
  <2>3. SavePending # << >>
    BY <1>2, <2>2
  <2>4. Flowed(SavePending) = Flowed(flowing)
    BY <1>2, SavePendingFlowed
  <2> QED BY <1>3, <1>5, <2>2, <2>3, <2>4, FlowedAppend
<1>7. Turns(flowing, <<t>>, flows')
  BY <1>2, <1>4, <1>6, TurnsOpen
<1>8. AllNest(out, simple_keys', queue', indents', flows', look'.column)
  <2> DEFINE g == flows'
  <2> HIDE DEF g
  <2>1. Turns(flowing, <<t>>, g)
    BY <1>7 DEF g
  <2>2. AllNest(out, Saved(keys, Key(Len(queue'), FALSE, FALSE)), queue', levels, g,
                look'.column)
    BY <1>2, <1>3, <1>4, <2>1, SaveNests, Zenon
  <2> QED BY <1>3, <2>2, Zenon DEF g
<1>9. look'.c \notin Spans
  BY <1>1, Zenon DEF Spans
<1> QED BY <1>1, <1>3, <1>8, <1>9, FetchKeeps, Zenon

(* fy_fetch_flow_collection_mark_end(): the bracket that closes is the one *)
(* that FlowMatches has found innermost.                                   *)
LEMMA FlowEndNests ==
  ASSUME IInv, NestInv, FlowEnd, ~stream_error', out' = out PROVE NestInv'
<1> DEFINE t == IF look'.c = "]" THEN "FLOW_SEQUENCE_END" ELSE "FLOW_MAPPING_END"
           ks == Removed(keys)
           g == Front(flowing)
           f == Last(flowing)
<1>1. Fetch({"]", "}"}) /\ Fetches /\ look'.c \in {"]", "}"} /\ IInv'
  BY FetchLooks, FlowEndStep, Zenon DEF FlowEnd
<1>2. /\ AllNest(out, keys, tokens, levels, flowing, look'.column)
      /\ flow_level \in Nat /\ tokens \in Seq(Tokens)
      /\ KeysOK(keys, tokens, flow_level) /\ levels \in Seq(Levels) /\ levels # << >>
      /\ FlowsOK(flowing, flow_level) /\ flowing \in Seq(Brackets) /\ flowing # << >>
  BY <1>1, FetchNests, Zenon
<1>3. /\ queue' = Append(tokens, t) /\ indents' = levels /\ flows' = g
      /\ \E S : Done(S)
      /\ simple_keys' = ks \/ simple_keys' = Purged(ks, flow_level - 1)
  BY NotFailed, Zenon DEF FlowEnd, FlowPop
<1>4. flow_level > 0 /\ Last(flows).flow = Closes(look'.c)
  BY Zenon DEF FlowEnd, FlowMatches
<1>5. t \in FlowEnds /\ t \in Tokens /\ Closes(look'.c) \in ClosedBy(t)
  BY <1>1, NeutralTokens, Zenon DEF FlowEnds, ClosedBy, Closes
<1>6. f.flow = Closes(look'.c)
  <2>1. /\ flows \in Seq(Brackets) /\ Len(flows) = flow_level + 1 /\ flows # << >>
        /\ Len(flowing) = flow_level + 1
    BY <1>1, <1>2 DEF IInv, BracketsOK, FlowsOK, Fetches
  <2>2. Flowed(flowing) = Flowed(flows)
    BY <2>1, FlowedAged DEF flowing
  <2>3. flow_level \in 1 .. Len(flows) - 1 /\ flow_level \in 1 .. Len(flowing) - 1
    BY <1>2, <1>4, <2>1
  <2>4. Flowed(flows)[flow_level] = flows[flow_level + 1].flow
    BY <2>1, <2>3, FlowedType
  <2>5. Flowed(flowing)[flow_level] = flowing[flow_level + 1].flow
    BY <1>2, <2>3, FlowedType
  <2>6. Last(flows) = flows[flow_level + 1] /\ Last(flowing) = flowing[flow_level + 1]
    BY <2>1 DEF Last
  <2> QED BY <1>4, <2>2, <2>4, <2>5, <2>6
<1>7. g \in Seq(Brackets) /\ g # << >> /\ f \in Brackets /\ flowing = Append(g, f)
  <2>1. Len(flowing) = flow_level + 1 /\ Len(flowing) \in Nat
    BY <1>2 DEF FlowsOK
  <2>2. g = SubSeq(flowing, 1, Len(flowing) - 1) /\ f = flowing[Len(flowing)]
    BY DEF Front, Last
  <2>3. g \in Seq(Brackets) /\ Len(g) = flow_level
    BY <1>2, <1>4, <2>1, <2>2
  <2>4. g # << >>
    BY <1>4, <2>3
  <2>5. f \in Brackets
    BY <1>2, <1>4, <2>1, <2>2
  <2>6. flowing = Append(g, f)
    BY <1>2, <2>2
  <2> QED BY <2>3, <2>4, <2>5, <2>6
<1> HIDE DEF t, f, g
<1>8. Flowed(flowing) = Append(Flowed(g), Closes(look'.c))
  BY <1>6, <1>7, FlowedAppend
<1>9. Turns(flowing, <<t>>, g)
  BY <1>5, <1>7, <1>8, TurnsClose
<1>10. queue' = tokens \o <<t>> /\ <<t>> \in Seq(Tokens)
  BY <1>2, <1>3, <1>5, AppendIsConcat
<1>11. AllNest(out, keys, queue', levels, g, look'.column)
  BY <1>2, <1>9, <1>10, GrowNests, Zenon
<1>12. Part(simple_keys', keys)
  <2>1. Part(ks, keys) /\ KeysOK(ks, tokens, flow_level)
    BY <1>2, RemovedPart, RemovedOK
  <2>2. flow_level - 1 \in Nat
    BY <1>2, <1>4
  <2> HIDE DEF ks
  <2>3. Part(Purged(ks, flow_level - 1), ks)
    BY <2>1, <2>2, PurgedPart
  <2>4. Part(Purged(ks, flow_level - 1), keys)
    BY <2>1, <2>3, PartOfPart
  <2> QED BY <1>3, <2>1, <2>4
<1>13. AllNest(out, simple_keys', queue', indents', flows', look'.column)
  <2>1. KeysNest(out, simple_keys', queue', levels, g, look'.column)
    BY <1>11, <1>12, PartNests, Zenon DEF AllNest
  <2> QED BY <1>3, <1>11, <2>1 DEF AllNest
<1>14. look'.c \notin Spans
  BY <1>1, Zenon DEF Spans
<1>15. PICK S : Done(S)
  BY <1>3
<1> QED BY <1>1, <1>13, <1>14, <1>15, FetchKeeps, Zenon

(* Outside brackets fy_remove_simple_key() leaves no key.                  *)
LEMMA RemovedNone ==
  ASSUME flow_level = 0, NEW q, NEW ks, KeysOK(ks, q, flow_level)
  PROVE  Removed(ks) = << >>
<1> DEFINE a == Removed(ks)
<1>1. KeysOK(a, q, flow_level - 1)
  BY RemovedOK
<1> HIDE DEF a
<1>2. a \in Seq(Keys) /\ \A i \in 1 .. Len(a) : a[i].flow_level <= flow_level - 1
  BY <1>1 DEF KeysOK, Points
<1>3. ASSUME a # << >> PROVE FALSE
  <2>1. 1 \in 1 .. Len(a)
    BY <1>2, <1>3, EmptySeq
  <2>2. a[1].flow_level \in Nat /\ a[1].flow_level <= flow_level - 1
    BY <1>2, <2>1, KeyParts
  <2> QED BY <2>2
<1> QED BY <1>3 DEF a

(* Handlers that remove the keys of the flow level, queue neutral tokens r *)
(* and may open a block level in front of them.                            *)
LEMMA RemoveNests ==
  ASSUME NEW o, AllNest(o, keys, tokens, levels, flowing, look'.column),
         flow_level \in Nat, tokens \in Seq(Tokens), look'.column \in Columns,
         KeysOK(keys, tokens, flow_level), levels \in Seq(Levels), levels # << >>,
         FlowsOK(flowing, flow_level), NEW gs, Flowed(gs) = Flowed(flowing),
         NEW r \in Seq(Neutral), NEW t \in BlockStarts, NEW b \in BOOLEAN,
         OpenedBy(t) = IF b THEN "map" ELSE "seq"
  PROVE  /\ AllNest(o, Removed(keys), tokens \o r, levels, gs, look'.column)
         /\ Opening(look'.column) =>
              AllNest(o, Removed(keys), tokens \o (<<t>> \o r), Opened(look'.column, b),
                      gs, look'.column)
<1>1. AllNest(o, Removed(keys), tokens \o r, levels, gs, look'.column)
  <2>1. r \in Seq(Tokens)
    BY NeutralTokens
  <2>2. Turns(flowing, r, gs)
    BY TurnsNeutral
  <2>3. AllNest(o, keys, tokens \o r, levels, gs, look'.column)
    BY <2>1, <2>2, GrowNests
  <2>4. Part(Removed(keys), keys)
    BY RemovedPart
  <2>5. KeysNest(o, Removed(keys), tokens \o r, levels, gs, look'.column)
    BY <2>3, <2>4, PartNests, Zenon DEF AllNest
  <2> QED BY <2>3, <2>5 DEF AllNest
<1>2. ASSUME Opening(look'.column)
      PROVE  AllNest(o, Removed(keys), tokens \o (<<t>> \o r), Opened(look'.column, b),
                     gs, look'.column)
  <2> DEFINE l == [indent |-> look'.column, bmap |-> b]
  <2>1. flow_level = 0
    BY <1>2 DEF Opening
  <2>2. Removed(keys) = << >>
    BY <2>1, RemovedNone
  <2>3. Flowed(flowing) = << >>
    BY <2>1, NoBracket
  <2>4. l \in Levels /\ Word(l) = OpenedBy(t)
    BY DEF Levels, Word
  <2>5. Opened(look'.column, b) = Append(levels, l)
    BY <1>2 DEF Opened
  <2> HIDE DEF l
  <2>6. Nests(o, tokens, levels, flowing)
    BY DEF AllNest
  <2>7. Nests(o, tokens \o (<<t>> \o r), Append(levels, l), gs)
    BY <2>3, <2>4, <2>6, OpensNests
  <2>8. NoFresh(<< >>)
    BY DEF NoFresh
  <2> QED BY <2>2, <2>5, <2>7, <2>8, NoFreshNests DEF AllNest
<1> QED BY <1>1, <1>2

(* fy_fetch_flow_collection_entry()                                        *)
LEMMA FlowEntryNests ==
  ASSUME IInv, NestInv, FlowEntry, ~stream_error', out' = out PROVE NestInv'
<1> DEFINE v == IF pending.column >= 0 THEN <<"VALUE">> ELSE << >>
           e == <<"FLOW_ENTRY">>
           r == v \o e
<1>1. Fetch({","}) /\ Fetches /\ look'.c \in {","} /\ IInv'
  BY FetchLooks, FlowEntryStep, Zenon DEF FlowEntry
<1>2. /\ AllNest(out, keys, tokens, levels, flowing, look'.column)
      /\ flow_level \in Nat /\ look'.column \in Columns /\ tokens \in Seq(Tokens)
      /\ KeysOK(keys, tokens, flow_level) /\ levels \in Seq(Levels) /\ levels # << >>
      /\ FlowsOK(flowing, flow_level) /\ flowing \in Seq(Brackets) /\ flowing # << >>
  BY <1>1, FetchNests, Zenon
<1>3. v \in Seq(Neutral) /\ e \in Seq(Neutral)
  BY NeutralTokens
<1>4. v \in Seq(Tokens) /\ e \in Seq(Tokens)
  BY <1>3, NeutralTokens
<1>5. /\ queue' = (tokens \o v) \o e /\ indents' = levels
      /\ flows' = WithPending(flowing, NoPending) /\ simple_keys' = Removed(keys)
      /\ Done(Anything)
  BY NotFailed, Zenon DEF FlowEntry, EndedKey
<1> HIDE DEF v, e
<1>6. r \in Seq(Neutral)
  BY <1>3, ConcatProperties
<1>7. queue' = tokens \o r
  <2>1. (tokens \o v) \o e = tokens \o (v \o e)
    BY <1>2, <1>4, ConcatAssociative
  <2> QED BY <1>5, <2>1 DEF r
<1> HIDE DEF r
<1>8. Flowed(WithPending(flowing, NoPending)) = Flowed(flowing)
  BY <1>2, NoPendingType, FlowedPending
<1>9. "BLOCK_MAPPING_START" \in BlockStarts /\ OpenedBy("BLOCK_MAPPING_START") = "map"
  BY DEF BlockStarts, OpenedBy
<1>10. AllNest(out, Removed(keys), tokens \o r, levels, WithPending(flowing, NoPending),
               look'.column)
  <2> DEFINE t == "BLOCK_MAPPING_START"
             b == TRUE
             g == WithPending(flowing, NoPending)
  <2>1. t \in BlockStarts /\ b \in BOOLEAN /\ OpenedBy(t) = IF b THEN "map" ELSE "seq"
    BY <1>9
  <2>2. Flowed(g) = Flowed(flowing)
    BY <1>8
  <2> HIDE DEF t, b, g
  <2>3. AllNest(out, Removed(keys), tokens \o r, levels, g, look'.column)
    BY <1>2, <1>6, <2>1, <2>2, RemoveNests, Zenon
  <2> QED BY <2>3 DEF g
<1>11. look'.c \notin Spans
  BY <1>1, Zenon DEF Spans
<1> QED BY <1>1, <1>5, <1>7, <1>10, <1>11, FetchKeeps, Zenon

(* fy_fetch_block_entry()                                                  *)
LEMMA BlockEntryNests ==
  ASSUME IInv, NestInv, BlockEntry, out' = out PROVE NestInv'
<1> DEFINE t == "BLOCK_SEQUENCE_START"
           b == <<t>>
           e == <<"BLOCK_ENTRY">>
           o == Opening(look'.column)
<1>1. Fetch({"-"}) /\ Fetches /\ look'.c \in {"-"} /\ IInv'
  BY FetchLooks, BlockEntryStep DEF BlockEntry
<1>2. /\ AllNest(out, keys, tokens, levels, flowing, look'.column)
      /\ flow_level \in Nat /\ look'.column \in Columns /\ tokens \in Seq(Tokens)
      /\ KeysOK(keys, tokens, flow_level) /\ levels \in Seq(Levels) /\ levels # << >>
      /\ FlowsOK(flowing, flow_level) /\ flowing \in Seq(Brackets) /\ flowing # << >>
  BY <1>1, FetchNests
<1>3. /\ queue' = (tokens \o (IF o THEN b ELSE << >>)) \o e
      /\ indents' = Opened(look'.column, FALSE)
      /\ flows' = flowing /\ simple_keys' = Removed(keys) /\ Done(Anything)
  BY Zenon DEF BlockEntry, Start
<1>4. e \in Seq(Neutral) /\ e \in Seq(Tokens) /\ b \in Seq(Tokens)
  BY NeutralTokens DEF BlockStarts
<1>5. t \in BlockStarts /\ OpenedBy(t) = "seq"
  BY DEF BlockStarts, OpenedBy
<1> HIDE DEF e
<1>6. /\ AllNest(out, Removed(keys), tokens \o e, levels, flowing, look'.column)
      /\ o => AllNest(out, Removed(keys), tokens \o (<<t>> \o e), Opened(look'.column, FALSE),
                      flowing, look'.column)
  <2> HIDE DEF t
  <2> QED BY <1>2, <1>4, <1>5, RemoveNests, Zenon
<1>7. AllNest(out, simple_keys', queue', indents', flows', look'.column)
  <2> HIDE DEF t
  <2>1. CASE o
    <3> HIDE DEF b
    <3>1. queue' = tokens \o (b \o e)
      BY <1>2, <1>3, <1>4, <2>1, ConcatAssociative
    <3> QED BY <1>3, <1>6, <2>1, <3>1, Zenon DEF b
  <2>2. CASE ~o
    <3>1. queue' = tokens \o e
      BY <1>2, <1>3, <2>2, ConcatEmptySeq
    <3>2. indents' = levels
      BY <1>3, <2>2 DEF Opened
    <3> QED BY <1>3, <1>6, <3>1, <3>2, Zenon
  <2> QED BY <2>1, <2>2
<1>8. look'.c \notin Spans
  BY <1>1 DEF Spans
<1> QED BY <1>1, <1>3, <1>7, <1>8, FetchKeeps, Zenon

(* fy_fetch_key()                                                          *)
LEMMA ComplexKeyNests ==
  ASSUME IInv, NestInv, ComplexKey, out' = out PROVE NestInv'
<1> DEFINE t == "BLOCK_MAPPING_START"
           b == <<t>>
           e == <<"KEY">>
           o == Opening(look'.column)
           p == [column |-> look'.column, old |-> FALSE]
           g == WithPending(flowing, p)
<1>1. Fetch({"?"}) /\ Fetches /\ look'.c \in {"?"} /\ IInv'
  BY FetchLooks, ComplexKeyStep DEF ComplexKey
<1>2. /\ AllNest(out, keys, tokens, levels, flowing, look'.column)
      /\ flow_level \in Nat /\ look'.column \in Columns /\ tokens \in Seq(Tokens)
      /\ KeysOK(keys, tokens, flow_level) /\ levels \in Seq(Levels) /\ levels # << >>
      /\ FlowsOK(flowing, flow_level) /\ flowing \in Seq(Brackets) /\ flowing # << >>
  BY <1>1, FetchNests
<1>3. /\ queue' = (tokens \o (IF o THEN b ELSE << >>)) \o e
      /\ indents' = Opened(look'.column, TRUE)
      /\ flows' = g /\ simple_keys' = Removed(keys) /\ Done(Anything)
  BY Zenon DEF ComplexKey, Start
<1>4. e \in Seq(Neutral) /\ e \in Seq(Tokens) /\ b \in Seq(Tokens)
  BY NeutralTokens DEF BlockStarts
<1>5. t \in BlockStarts /\ OpenedBy(t) = "map"
  BY DEF BlockStarts, OpenedBy
<1>6. Flowed(g) = Flowed(flowing)
  <2>1. p \in Pendings
    BY <1>2 DEF Pendings
  <2> HIDE DEF p
  <2> QED BY <1>2, <2>1, FlowedPending
<1> HIDE DEF e, g
<1>7. /\ AllNest(out, Removed(keys), tokens \o e, levels, g, look'.column)
      /\ o => AllNest(out, Removed(keys), tokens \o (<<t>> \o e), Opened(look'.column, TRUE),
                      g, look'.column)
  <2> HIDE DEF t
  <2> QED BY <1>2, <1>4, <1>5, <1>6, RemoveNests, Zenon
<1>8. AllNest(out, simple_keys', queue', indents', flows', look'.column)
  <2> HIDE DEF t
  <2>1. CASE o
    <3> HIDE DEF b
    <3>1. queue' = tokens \o (b \o e)
      BY <1>2, <1>3, <1>4, <2>1, ConcatAssociative
    <3> QED BY <1>3, <1>7, <2>1, <3>1, Zenon DEF b
  <2>2. CASE ~o
    <3>1. queue' = tokens \o e
      BY <1>2, <1>3, <2>2, ConcatEmptySeq
    <3>2. indents' = levels
      BY <1>3, <2>2 DEF Opened
    <3> QED BY <1>3, <1>7, <3>1, <3>2, Zenon
  <2> QED BY <2>1, <2>2
<1>9. look'.c \notin Spans
  BY <1>1 DEF Spans
<1> QED BY <1>1, <1>3, <1>8, <1>9, FetchKeeps, Zenon

(* The end of every handler whose token may start a simple key.            *)
LEMMA KeyStartNests ==
  ASSUME IInv, NestInv, IInv', NEW C, Fetch(C), C \cap Spans = {},
         NEW t \in Neutral, QueueKeyStart(t), NEW S, Done(S), out' = out
  PROVE  NestInv'
<1>1. Fetches /\ look'.c \notin Spans
  BY FetchLooks
<1>2. /\ AllNest(out, keys, tokens, levels, flowing, look'.column)
      /\ flow_level = 0 => Last(levels).indent <= look'.column
      /\ flow_level \in Nat /\ look'.column \in Columns /\ tokens \in Seq(Tokens)
      /\ KeysOK(keys, tokens, flow_level) /\ LevelsOK(levels)
      /\ FlowsOK(flowing, flow_level) /\ flowing \in Seq(Brackets) /\ flowing # << >>
  BY FetchNests
<1>3. /\ queue' = Append(tokens, t) /\ indents' = levels /\ flows' = SavePending
      /\ simple_keys' = Saved(keys, Key(Len(queue'), FALSE, FALSE))
  BY DEF QueueKeyStart
<1>4. t \in Tokens /\ <<t>> \in Seq(Neutral)
  BY NeutralTokens
<1>5. Turns(flowing, <<t>>, SavePending)
  BY <1>2, <1>4, SavePendingFlowed, TurnsNeutral, Zenon
<1>6. AllNest(out, Saved(keys, Key(Len(queue'), FALSE, FALSE)), queue', levels, SavePending,
              look'.column)
  BY <1>2, <1>3, <1>4, <1>5, SaveNests, Zenon
<1> QED BY <1>1, <1>3, <1>6, FetchKeeps, Zenon

(* fy_fetch_anchor_or_alias() and fy_fetch_tag()                           *)
LEMMA PropertyNests ==
  ASSUME IInv, NestInv, AnchorOrAlias \/ Tag, out' = out PROVE NestInv'
<1>1. IInv'
  BY PropertyStep
<1>2. "ALIAS" \in Neutral /\ "ANCHOR" \in Neutral /\ "TAG_DEF" \in Neutral
  BY NeutralTokens
<1>3. {"*"} \cap Spans = {} /\ {"&"} \cap Spans = {} /\ {"!"} \cap Spans = {}
  BY DEF Spans
<1>4. CASE Fetch({"*"}) /\ QueueKeyStart("ALIAS") /\ Done(Anything)
  BY <1>1, <1>2, <1>3, <1>4, KeyStartNests
<1>5. CASE Fetch({"&"}) /\ QueueKeyStart("ANCHOR") /\ Done(NoDash)
  BY <1>1, <1>2, <1>3, <1>5, KeyStartNests
<1>6. CASE Fetch({"!"}) /\ QueueKeyStart("TAG_DEF") /\ Done(NoDash)
  BY <1>1, <1>2, <1>3, <1>6, KeyStartNests
<1> QED BY <1>4, <1>5, <1>6 DEF AnchorOrAlias, Tag

(* fy_fetch_block_scalar()                                                 *)
LEMMA BlockScalarNests ==
  ASSUME IInv, NestInv, BlockScalar, out' = out PROVE NestInv'
<1> DEFINE e == <<"SCALAR">>
           g == AgeFlows(flowing)
<1>1. Fetch({"|"}) /\ Fetches /\ look'.c \in {"|"} /\ IInv'
  BY FetchLooks, BlockScalarStep DEF BlockScalar
<1>2. /\ AllNest(out, keys, tokens, levels, flowing, look'.column)
      /\ flow_level \in Nat /\ tokens \in Seq(Tokens)
      /\ KeysOK(keys, tokens, flow_level) /\ levels \in Seq(Levels) /\ levels # << >>
      /\ flowing \in Seq(Brackets)
  BY <1>1, FetchNests
<1>3. /\ queue' = Append(tokens, "SCALAR") /\ indents' = levels /\ flows' = g
      /\ simple_keys' = Age(Removed(keys)) /\ Done(Anything)
  BY DEF BlockScalar
<1>4. e \in Seq(Neutral) /\ e \in Seq(Tokens) /\ "SCALAR" \in Tokens
  BY NeutralTokens
<1>5. queue' = tokens \o e
  BY <1>2, <1>3, <1>4, AppendIsConcat
<1> HIDE DEF e, g
<1>6. Turns(flowing, e, g)
  BY <1>2, <1>4, FlowedAged, TurnsNeutral DEF g
<1>7. AllNest(out, keys, queue', levels, g, look'.column)
  BY <1>2, <1>4, <1>5, <1>6, GrowNests
<1>8. NoFresh(simple_keys')
  <2>1. Removed(keys) \in Seq(Keys)
    BY <1>2, RemovedOK, Zenon DEF KeysOK
  <2> QED BY <1>3, <2>1, AgedNoFresh
<1>9. KeysNest(out, simple_keys', queue', levels, g, look'.column)
  BY <1>8, NoFreshNests
<1>10. AllNest(out, simple_keys', queue', indents', flows', look'.column)
  BY <1>3, <1>7, <1>9 DEF AllNest
<1> QED BY <1>1, <1>3, <1>8, <1>10, FetchKeeps

(* A scalar that may be a key: over several lines it is saved as old.      *)
LEMMA ScalarNests ==
  ASSUME IInv, NestInv, NEW C, Fetch(C), NEW t \in Neutral, NEW old \in BOOLEAN,
         NEW endold \in BOOLEAN, NEW ks, ks = (IF old THEN Age(keys) ELSE keys),
         queue' = Append(tokens, t), indents' = levels,
         simple_keys' = Saved(ks, Key(Len(queue'), old, endold)),
         flows' = (IF old THEN AgeFlows(SavePending) ELSE SavePending)
  PROVE  /\ AllNest(out, simple_keys', queue', indents', flows', look'.column)
         /\ old => NoFresh(simple_keys')
<1> DEFINE g == IF old THEN AgeFlows(SavePending) ELSE SavePending
           k == Key(Len(queue'), old, endold)
<1>1. /\ AllNest(out, keys, tokens, levels, flowing, look'.column)
      /\ flow_level = 0 => Last(levels).indent <= look'.column
      /\ flow_level \in Nat /\ look'.column \in Columns /\ tokens \in Seq(Tokens)
      /\ KeysOK(keys, tokens, flow_level) /\ LevelsOK(levels)
      /\ FlowsOK(flowing, flow_level) /\ flowing \in Seq(Brackets) /\ flowing # << >>
  BY FetchNests
<1>2. t \in Tokens /\ <<t>> \in Seq(Neutral)
  BY NeutralTokens
<1>3. Flowed(g) = Flowed(flowing)
  <2>1. SavePending \in Seq(Brackets)
    BY <1>1, SavePendingOK DEF FlowsOK
  <2> QED BY <1>1, <2>1, SavePendingFlowed, FlowedAged
<1> HIDE DEF g
<1>4. Turns(flowing, <<t>>, g)
  BY <1>2, <1>3, TurnsNeutral, Zenon
<1>5. KeysOK(ks, tokens, flow_level)
  BY <1>1, AgeOK
<1>6. old => NoFresh(ks)
  BY <1>1, AgedNoFresh DEF KeysOK
<1>7. AllNest(out, ks, tokens, levels, flowing, look'.column)
  <2>1. CASE old
    BY <1>1, <1>6, <2>1, NoFreshNests DEF AllNest
  <2>2. CASE ~old
    BY <1>1, <2>2
  <2> QED BY <2>1, <2>2
<1>8. AllNest(out, Saved(ks, k), queue', levels, g, look'.column)
  BY <1>1, <1>2, <1>4, <1>5, <1>7, SaveNests
<1>9. k \in Keys /\ k.old = old
  <2>1. Len(queue') \in Nat \ {0}
    BY <1>1, <1>2, AppendProperties
  <2> QED BY <1>1, <2>1, Zenon DEF Key, Keys
<1> HIDE DEF k
<1>10. old => NoFresh(Saved(ks, k))
  BY <1>1, <1>5, <1>6, <1>9, SaveOldNoFresh, Zenon
<1> QED BY <1>8, <1>10 DEF g, k

(* fy_fetch_flow_scalar()                                                  *)
LEMMA FlowScalarNests ==
  ASSUME IInv, NestInv, FlowScalar, ~stream_error', out' = out PROVE NestInv'
<1> DEFINE multi == look'.c = "q+"
           ks    == IF multi THEN Age(keys) ELSE keys
<1>1. Fetch({"q", "q+"}) /\ Fetches /\ look'.c \in {"q", "q+"} /\ IInv'
  BY FetchLooks, FlowScalarStep, Zenon DEF FlowScalar
<1>2. /\ queue' = Append(tokens, "SCALAR_DQ") /\ indents' = levels
      /\ simple_keys' = Saved(ks, Key(Len(queue'), multi, FALSE))
      /\ flows' = (IF multi THEN AgeFlows(SavePending) ELSE SavePending)
      /\ \E S : Done(S)
  BY NotFailed, Zenon DEF FlowScalar
<1>3. "SCALAR_DQ" \in Neutral /\ multi \in BOOLEAN
  BY NeutralTokens
<1>4. look'.c \in Spans => multi
  BY <1>1 DEF Spans
<1> HIDE DEF multi
<1>5. /\ AllNest(out, simple_keys', queue', indents', flows', look'.column)
      /\ multi => NoFresh(simple_keys')
  BY <1>1, <1>2, <1>3, ScalarNests, Zenon
<1>6. PICK S : Done(S)
  BY <1>2
<1> QED BY <1>1, <1>4, <1>5, <1>6, FetchKeeps

(* fy_fetch_plain_scalar()                                                 *)
LEMMA PlainScalarNests ==
  ASSUME IInv, NestInv, PlainScalar, out' = out PROVE NestInv'
<1> DEFINE multi    == look'.c = "a+"
           hasLb(p) == multi \/ p
           ks(p)    == IF hasLb(p) THEN Age(keys) ELSE keys
<1>1. Fetch(Plains) /\ Fetches /\ look'.c \in Plains /\ IInv'
  BY FetchLooks, PlainScalarStep, Zenon DEF PlainScalar
<1>2. PICK p \in BOOLEAN :
        /\ queue' = Append(tokens, "SCALAR")
        /\ simple_keys' = Saved(ks(p), Key(Len(queue'), hasLb(p), p))
        /\ flows' = (IF hasLb(p) THEN AgeFlows(SavePending) ELSE SavePending)
        /\ \E S : Done(S)
  BY Zenon DEF PlainScalar
<1>3. indents' = levels
  BY DEF PlainScalar
<1>4. "SCALAR" \in Neutral /\ hasLb(p) \in BOOLEAN
  BY NeutralTokens
<1>5. look'.c \in Spans => hasLb(p)
  BY <1>1 DEF Spans, Plains
<1> HIDE DEF hasLb
<1>6. /\ AllNest(out, simple_keys', queue', indents', flows', look'.column)
      /\ hasLb(p) => NoFresh(simple_keys')
  BY <1>1, <1>2, <1>3, <1>4, ScalarNests
<1>7. PICK S : Done(S)
  BY <1>2
<1> QED BY <1>1, <1>5, <1>6, <1>7, FetchKeeps

-----------------------------------------------------------------------------
(* Tokens put in front of others.                                          *)

(* fy_fetch_value() inserts at a cut.                                      *)
PutAt(q, at, new, x, y) ==
  q = x \o y /\ Len(x) = at - 1 /\ Inserted(q, at, new) = Put(x, new, y)

(* It finds one wherever a token may be.                                   *)
LEMMA InsertedCut ==
  ASSUME NEW q \in Seq(Tokens), NEW at \in 1 .. Len(q) + 1, NEW new
  PROVE  \E x, y \in Seq(Tokens) : PutAt(q, at, new, x, y)
<1> DEFINE n == Len(q)
           k == at - 1
           x == SubSeq(q, 1, k)
           y == SubSeq(q, at, n)
<1>1. /\ n \in Nat /\ k \in Int /\ k \in 1 - 1 .. n /\ 1 \in 1 .. n + 1 /\ n \in k .. n
      /\ k + 1 = at /\ at \in Int /\ 1 \in Int
  BY LenProperties
<1>2. x \in Seq(Tokens) /\ Len(x) = k
  <2>1. \A i \in 1 .. k : q[i] \in Tokens
    BY <1>1, ElementOfSeq
  <2>2. x \in Seq(Tokens) /\ Len(x) = IF 1 <= k THEN k - 1 + 1 ELSE 0
    BY <1>1, <2>1, SubSeqProperties
  <2> HIDE DEF x, k
  <2> QED BY <1>1, <2>2
<1>3. y \in Seq(Tokens)
  <2>1. \A i \in at .. n : q[i] \in Tokens
    BY <1>1, ElementOfSeq
  <2> QED BY <1>1, <2>1, SubSeqProperties
<1>4. x \o y = q
  <2>1. SubSeq(q, 1, n) = q
    BY SubSeqFull
  <2> HIDE DEF k, n
  <2>2. SubSeq(q, 1, k) \o SubSeq(q, k + 1, n) = SubSeq(q, 1, n)
    BY <1>1, ConcatAdjacentSubSeq, Zenon DEF n
  <2> QED BY <1>1, <2>1, <2>2
<1>5. Inserted(q, at, new) = Put(x, new, y)
  BY DEF Inserted, Put
<1> HIDE DEF x, y
<1> QED BY <1>2, <1>3, <1>4, <1>5, Zenon DEF PutAt

(* Nothing moves when every key lies in front.                             *)
LEMMA MovedNone ==
  ASSUME NEW ks \in Seq(Keys), NEW at \in Nat, NEW n,
         \A i \in 1 .. Len(ks) : ks[i].token <= at - 1
  PROVE  Moved(ks, at, n) = ks
<1>1. DOMAIN ks = 1 .. Len(ks) /\ Len(ks) \in Nat
  BY LenProperties
<1>2. ASSUME NEW i \in 1 .. Len(ks)
      PROVE  [ks[i] EXCEPT !.token = IF @ >= at THEN @ + n ELSE @] = ks[i]
  <2> DEFINE k == ks[i]
  <2>1. k \in Keys /\ k.token <= at - 1
    BY ElementOfSeq
  <2> HIDE DEF k
  <2>2. k.token \in Nat /\ ~(k.token >= at)
    BY <2>1, KeyParts
  <2>3. (IF k.token >= at THEN k.token + n ELSE k.token) = k.token
    BY <2>2
  <2>4. [k EXCEPT !.token = k.token] = k
    BY <2>1 DEF Keys
  <2> QED BY <2>3, <2>4 DEF k
<1>3. Moved(ks, at, n) = [i \in 1 .. Len(ks) |-> ks[i]]
  BY <1>1, <1>2 DEF Moved
<1>4. ks = [i \in 1 .. Len(ks) |-> ks[i]]
  BY <1>1
<1> QED BY <1>3, <1>4

(* The keys that fy_fetch_value() leaves lie in front of the one it uses.  *)
LEMMA UseKeyParts ==
  ASSUME flow_level \in Nat, NEW q \in Seq(Tokens), NEW ks, KeysOK(ks, q, flow_level)
  PROVE  /\ Part(UseKey(ks), ks)
         /\ flow_level = 0 => UseKey(ks) = << >>
         /\ HasKey(ks) => \A i \in 1 .. Len(UseKey(ks)) :
                            /\ UseKey(ks)[i].token \in Nat
                            /\ UseKey(ks)[i].token <= Head(ks).token - 1
         /\ ~HasKey(ks) => \A i \in 1 .. Len(UseKey(ks)) :
                             /\ UseKey(ks)[i].token \in Nat
                             /\ UseKey(ks)[i].token <= Len(q)
<1>1. ks \in Seq(Keys) /\ Len(ks) \in Nat /\ Len(q) \in Nat
  BY LenProperties DEF KeysOK
<1>2. CASE HasKey(ks)
  <2> DEFINE r == Tail(ks)
  <2>1. ks # << >> /\ Head(ks) = ks[1] /\ 1 \in 1 .. Len(ks) /\ UseKey(ks) = r
    BY <1>1, <1>2, EmptySeq DEF HasKey, UseKey
  <2>2. r \in Seq(Keys) /\ Len(r) = Len(ks) - 1 /\ \A i \in 1 .. Len(r) : r[i] = ks[i + 1]
    BY <1>1, <2>1, HeadTailProperties
  <2>3. Part(r, ks)
    BY <2>1, TailPart
  <2> HIDE DEF r
  <2>4. ASSUME NEW i \in 1 .. Len(r)
        PROVE  /\ r[i].token \in Nat /\ r[i].token <= Head(ks).token - 1
               /\ r[i].flow_level \in Nat /\ r[i].flow_level < flow_level
    <3>1. i + 1 \in 1 .. Len(ks) /\ 1 < i + 1
      BY <1>1, <2>2
    <3>2. /\ ks[1].flow_level > ks[i + 1].flow_level
          /\ ks[1].token > ks[i + 1].token
          /\ ks[1].flow_level <= flow_level
      BY <2>1, <3>1 DEF KeysOK, Points, Ordered
    <3>3. ks[1] \in Keys /\ ks[i + 1] \in Keys /\ r[i] = ks[i + 1]
      BY <1>1, <2>1, <2>2, <3>1, ElementOfSeq
    <3>4. /\ ks[1].token \in Nat /\ ks[i + 1].token \in Nat
          /\ ks[1].flow_level \in Nat /\ ks[i + 1].flow_level \in Nat
      BY <3>3, KeyParts
    <3> QED BY <2>1, <3>2, <3>3, <3>4
  <2>5. ASSUME flow_level = 0, r # << >> PROVE FALSE
    <3>1. 1 \in 1 .. Len(r)
      BY <2>2, <2>5, EmptySeq
    <3>2. r[1].flow_level \in Nat /\ r[1].flow_level < 0
      BY <2>4, <2>5, <3>1
    <3> QED BY <3>2
  <2> QED BY <1>2, <2>1, <2>3, <2>4, <2>5, Zenon
<1>3. CASE ~HasKey(ks)
  <2>1. UseKey(ks) = ks
    BY <1>3 DEF UseKey
  <2>2. Part(ks, ks)
    BY DEF Part
  <2>3. ASSUME NEW i \in 1 .. Len(ks) PROVE ks[i].token \in Nat /\ ks[i].token <= Len(q)
    <3>1. ks[i].token \in 1 .. Len(q)
      BY DEF KeysOK, Points
    <3> QED BY <1>1, <3>1
  <2>4. ASSUME flow_level = 0, ks # << >> PROVE FALSE
    <3>1. 1 \in 1 .. Len(ks) /\ Head(ks) = ks[1]
      BY <1>1, <2>4, EmptySeq
    <3>2. ks[1] \in Keys /\ ks[1].flow_level <= 0
      BY <1>1, <2>4, <3>1, ElementOfSeq DEF KeysOK, Points
    <3>3. ks[1].flow_level \in Nat
      BY <3>2, KeyParts
    <3>4. ks[1].flow_level = flow_level
      BY <2>4, <3>2, <3>3
    <3> QED BY <1>3, <2>4, <3>1, <3>4 DEF HasKey
  <2> QED BY <1>3, <2>1, <2>2, <2>3, <2>4
<1> QED BY <1>2, <1>3

(* Outside of brackets the key that fy_fetch_value() uses is on this line. *)
LEMMA PurgedFresh ==
  ASSUME NEW q, NEW fl, NEW ks, KeysOK(ks, q, fl), Purged(ks, 0) # << >>
  PROVE  ~Head(Purged(ks, 0)).old
<1> DEFINE n == StaleLen(ks, 0)
           r == After(ks, n)
<1>1. ks \in Seq(Keys) /\ Len(ks) \in Nat /\ 0 \in Nat
  BY LenProperties DEF KeysOK
<1>2. n \in 0 .. Len(ks) /\ (n < Len(ks) => ~ks[n + 1].old)
  BY <1>1, StaleLenIs
<1>3. Purged(ks, 0) = r
  BY DEF Purged
<1> HIDE DEF n
<1>4. /\ Len(r) = Len(ks) - n /\ \A i \in 1 .. Len(ks) - n : r[i] = ks[n + i]
      /\ KeysOK(r, q, fl)
  BY <1>2, AfterOK
<1>5. r \in Seq(Keys)
  BY <1>4 DEF KeysOK
<1> HIDE DEF r
<1>6. Len(r) \in Nat /\ Len(r) # 0 /\ Head(r) = r[1]
  BY <1>3, <1>5, EmptySeq
<1>7. 1 \in 1 .. Len(ks) - n /\ n < Len(ks)
  BY <1>1, <1>2, <1>4, <1>6
<1> QED BY <1>2, <1>3, <1>4, <1>6, <1>7

(* fy_fetch_value(), where it opens no mapping.                            *)
LEMMA ValuePuts ==
  ASSUME flow_level \in Nat, NEW q \in Seq(Tokens), NEW ks, KeysOK(ks, q, flow_level),
         NEW o, NEW ind, NEW fs, NEW gs, Flowed(gs) = Flowed(fs), NEW col,
         AllNest(o, ks, q, ind, fs, col), NEW new \in Seq(Neutral), NEW n,
         NEW at, at = IF HasKey(ks) THEN Head(ks).token ELSE Len(q) + 1
  PROVE  AllNest(o, Moved(UseKey(ks), at, n), Inserted(q, at, new), ind, gs, col)
<1> DEFINE r == UseKey(ks)
<1>1. /\ KeysOK(r, q, flow_level)
      /\ HasKey(ks) => Head(ks).token \in 1 .. Len(q)
  BY UseKeyOK
<1>2. r \in Seq(Keys) /\ Len(q) \in Nat
  BY <1>1, LenProperties DEF KeysOK
<1>3. at \in 1 .. Len(q) + 1 /\ at \in Nat
  BY <1>1, <1>2
<1>4. /\ Part(r, ks)
      /\ \A i \in 1 .. Len(r) : r[i].token \in Nat /\ r[i].token <= at - 1
  <2>1. CASE HasKey(ks)
    BY <2>1, UseKeyParts
  <2>2. CASE ~HasKey(ks)
    <3>1. at - 1 = Len(q)
      BY <1>2, <2>2
    <3> QED BY <2>2, <3>1, UseKeyParts
  <2> QED BY <2>1, <2>2, Zenon
<1> HIDE DEF r
<1>5. Moved(r, at, n) = r
  BY <1>2, <1>3, <1>4, MovedNone, Zenon
<1>6. PICK x \in Seq(Tokens), y \in Seq(Tokens) : PutAt(q, at, new, x, y)
  BY <1>3, InsertedCut, Zenon
<1>7. q = x \o y /\ Len(x) = at - 1 /\ Inserted(q, at, new) = Put(x, new, y)
  BY <1>6 DEF PutAt
<1>8. AllNest(o, r, x \o y, ind, fs, col)
  BY <1>4, <1>7, PartNests, Zenon DEF AllNest
<1>9. \A i \in 1 .. Len(r) : r[i].token \in Nat /\ r[i].token <= Len(x)
  BY <1>4, <1>7, Zenon
<1>10. AllNest(o, r, Put(x, new, y), ind, gs, col)
  BY <1>8, <1>9, PutNests, Zenon
<1> QED BY <1>5, <1>7, <1>10 DEF r

(* fy_fetch_value(), where it opens one.                                   *)
LEMMA ValueOpens ==
  ASSUME flow_level = 0, NEW q \in Seq(Tokens), NEW ks, KeysOK(ks, q, flow_level),
         ks # << >> => ~Head(ks).old,
         NEW o, NEW ind \in Seq(Levels), ind # << >>, NEW fs, NEW gs,
         Flowed(fs) = << >>, Flowed(gs) = << >>, NEW col,
         AllNest(o, ks, q, ind, fs, col), NEW l \in Levels, Word(l) = "map", NEW n,
         NEW at, at = IF HasKey(ks) THEN Head(ks).token ELSE Len(q) + 1
  PROVE  AllNest(o, Moved(UseKey(ks), at, n),
                 Inserted(q, at, <<"BLOCK_MAPPING_START", "KEY">>), Append(ind, l), gs, col)
<1> DEFINE new == <<"BLOCK_MAPPING_START", "KEY">>
           z == Append(ind, l)
<1>1. HasKey(ks) => Head(ks).token \in 1 .. Len(q)
  BY UseKeyOK, Zenon
<1>2. Len(q) \in Nat /\ flow_level \in Nat
  BY LenProperties
<1>3. at \in 1 .. Len(q) + 1
  BY <1>1, <1>2
<1>4. Moved(UseKey(ks), at, n) = << >>
  <2>1. UseKey(ks) = << >>
    BY <1>2, UseKeyParts
  <2>2. Moved(<< >>, at, n) = << >>
    <3>1. << >> \in Seq(Keys) /\ at \in Nat /\ Len(<< >>) = 0
      BY <1>2, <1>3
    <3>2. \A i \in 1 .. Len(<< >>) : << >>[i].token <= at - 1
      BY <3>1
    <3> QED BY <3>1, <3>2, MovedNone, Zenon
  <2> QED BY <2>1, <2>2
<1>5. Splits(o, q, at, ind, fs)
  <2>1. CASE HasKey(ks)
    <3>1. ks \in Seq(Keys) /\ ks # << >> /\ Head(ks) = ks[1] /\ 1 \in 1 .. Len(ks)
      BY <2>1, EmptySeq DEF HasKey, KeysOK
    <3>2. Fresh(ks[1])
      BY <2>1, <3>1 DEF HasKey, Fresh
    <3>3. KeyNests(o, ks[1], q, ind, fs, col)
      BY <3>1 DEF AllNest, KeysNest
    <3> QED BY <2>1, <3>1, <3>2, <3>3 DEF KeyNests
  <2>2. CASE ~HasKey(ks)
    <3>1. at = Len(q) + 1 /\ Len(q) = at - 1
      BY <1>2, <2>2
    <3>2. << >> \in Seq(Tokens) /\ q = q \o << >>
      BY ConcatEmptySeq
    <3>3. Blocks(ind) \in Seq(Words)
      BY BlocksType
    <3>4. NestedBy(o, q) = Blocks(ind)
      BY <3>3, ConcatEmptySeq DEF AllNest, Nests
    <3>5. ASSUME NEW b \in Seq(Words) PROVE NestedBy(b, << >>) = b \o Flowed(fs)
      BY NestedByNone, ConcatEmptySeq
    <3> QED BY <3>1, <3>2, <3>4, <3>5, Zenon DEF Splits
  <2> QED BY <2>1, <2>2
<1>6. PICK a \in Seq(Tokens) : \E c \in Seq(Tokens) :
        /\ q = a \o c /\ Len(a) = at - 1 /\ NestedBy(o, a) = Blocks(ind)
        /\ \A b \in Seq(Words) : NestedBy(b, c) = b \o Flowed(fs)
  BY <1>5, Zenon DEF Splits
<1>7. PICK c \in Seq(Tokens) :
        /\ q = a \o c /\ Len(a) = at - 1 /\ NestedBy(o, a) = Blocks(ind)
        /\ \A b \in Seq(Words) : NestedBy(b, c) = b \o Flowed(fs)
  BY <1>6, Zenon
<1> HIDE DEF new
<1>8. Inserted(q, at, new) = Put(a, new, c)
  <2>1. PICK x \in Seq(Tokens), y \in Seq(Tokens) : PutAt(q, at, new, x, y)
    BY <1>3, InsertedCut, Zenon
  <2>2. q = x \o y /\ Len(x) = at - 1 /\ Inserted(q, at, new) = Put(x, new, y)
    BY <2>1 DEF PutAt
  <2>3. a \o c = x \o y /\ Len(a) = Len(x)
    BY <1>7, <2>2
  <2>4. a = x /\ c = y
    BY <2>3, SameCut, Zenon
  <2> QED BY <2>2, <2>4
<1>9. Nests(o, Put(a, new, c), z, gs)
  <2>1. SplitsInto(o, a, c, ind, fs)
    BY <1>7, Zenon DEF SplitsInto
  <2> QED BY <2>1, PutOpens, SMTT(30) DEF new
<1>10. KeysNest(o, << >>, Put(a, new, c), z, gs, col)
  <2>1. NoFresh(<< >>)
    BY DEF NoFresh
  <2> QED BY <2>1, NoFreshNests, Zenon
<1> QED BY <1>4, <1>8, <1>9, <1>10 DEF AllNest, new

(* fy_fetch_value()                                                        *)
LEMMA ValueNests ==
  ASSUME IInv, NestInv, Value, out' = out PROVE NestInv'
<1> DEFINE ks        == Purged(keys, flow_level)
           hasKey    == HasKey(ks)
           column    == IF hasKey THEN Head(ks).column ELSE look'.column
           at        == IF hasKey THEN Head(ks).token ELSE Len(tokens) + 1
           isComplex == pending.column >= 0
           final     == isComplex /\ (flow_level > 0 \/ look'.column <= pending.column)
           keyOnly   == IF isComplex THEN ~final ELSE flow_level > 0 \/ Last(levels).bmap
           opening   == <<"BLOCK_MAPPING_START", "KEY">>
           other     == IF keyOnly THEN <<"KEY">> ELSE << >>
           new       == IF Opening(column) THEN opening ELSE other
           rest      == UseKey(ks)
           g         == IF final THEN WithPending(flowing, NoPending) ELSE flowing
           l         == [indent |-> column, bmap |-> TRUE]
<1>1. Fetch({":"}) /\ Fetches /\ look'.c \in {":"} /\ IInv'
  BY FetchLooks, ValueStep, Zenon DEF Value
<1>2. /\ AllNest(out, keys, tokens, levels, flowing, look'.column)
      /\ flow_level \in Nat /\ look'.column \in Columns /\ tokens \in Seq(Tokens)
      /\ KeysOK(keys, tokens, flow_level) /\ levels \in Seq(Levels) /\ levels # << >>
      /\ FlowsOK(flowing, flow_level) /\ flowing \in Seq(Brackets) /\ flowing # << >>
  BY <1>1, FetchNests
<1>3. /\ queue' = Inserted(tokens, at, new) /\ simple_keys' = Moved(rest, at, Len(new))
      /\ indents' = Opened(column, TRUE) /\ flows' = g /\ Done(Anything)
  BY Zenon DEF Value, Inserted, Moved
<1>4. KeysOK(ks, tokens, flow_level) /\ Part(ks, keys)
  BY <1>2, PurgedOK, PurgedPart
<1>5. flow_level = 0 /\ ks # << >> => ~Head(ks).old
  BY <1>2, PurgedFresh
<1>6. AllNest(out, ks, tokens, levels, flowing, look'.column)
  BY <1>2, <1>4, PartNests, Zenon DEF AllNest
<1>7. other \in Seq(Neutral)
  BY NeutralTokens
<1>8. Flowed(g) = Flowed(flowing)
  BY <1>2, NoPendingType, FlowedPending
<1> HIDE DEF ks, final, other, opening
<1>9. column \in Columns
  BY <1>2, <1>4, UseKeyOK, Zenon
<1> HIDE DEF g
<1>10. AllNest(out, simple_keys', queue', indents', flows', look'.column)
  <2>1. CASE ~Opening(column)
    <3>1. new = other /\ indents' = levels
      BY <1>3, <2>1 DEF Opened
    <3> HIDE DEF new, column
    <3>2. AllNest(out, Moved(rest, at, Len(new)), Inserted(tokens, at, other), levels, g,
                  look'.column)
      BY <1>2, <1>4, <1>6, <1>7, <1>8, ValuePuts, Zenon
    <3> QED BY <1>3, <3>1, <3>2, Zenon
  <2>2. CASE Opening(column)
    <3>1. new = opening /\ indents' = Append(levels, l)
      BY <1>3, <2>2 DEF Opened
    <3>2. l \in Levels /\ Word(l) = "map"
      BY <1>9, Zenon DEF Levels, Word
    <3>3. flow_level = 0
      BY <2>2 DEF Opening
    <3> HIDE DEF new, column, l
    <3>4. Flowed(flowing) = << >> /\ Flowed(g) = << >>
      <4>1. Len(flowing) = 1
        BY <1>2, <3>3 DEF FlowsOK
      <4>2. Flowed(flowing) = << >>
        BY <4>1 DEF Flowed
      <4> QED BY <1>8, <4>2
    <3>5. AllNest(out, Moved(rest, at, Len(new)), Inserted(tokens, at, opening),
                  Append(levels, l), g, look'.column)
      BY <1>2, <1>4, <1>5, <1>6, <3>2, <3>3, <3>4, ValueOpens, Zenon DEF opening
    <3> QED BY <1>3, <3>1, <3>5, Zenon
  <2> QED BY <2>1, <2>2
<1>11. look'.c \notin Spans
  BY <1>1 DEF Spans
<1> QED BY <1>1, <1>3, <1>10, <1>11, FetchKeeps, Zenon

-----------------------------------------------------------------------------
(* Leaving the blocks, and the ends of the text.                           *)

(* fy_remove_all_simple_keys(), fy_parse_unroll_indent(-1) and a token.    *)
LEMMA LeaveNests ==
  ASSUME IInv, NestInv, Fetches, look' \in Lexemes, LeaveBlocks, NEW t \in Seq(Neutral),
         queue' = queue \o BlockEnds(-1) \o t
  PROVE  /\ AllNest(out, simple_keys', queue', indents', flows', look'.column)
         /\ NoFresh(simple_keys')
<1> DEFINE q == queue \o BlockEnds(-1)
           u == Unroll(indents, -1)
           col == look'.column
<1>1. /\ LevelsOK(indents) /\ FlowsOK(flows, flow_level) /\ flows \in Seq(Brackets)
      /\ queue \in Seq(Tokens)
  BY DEF IInv, BracketsOK, FlowsOK, QueueOK, Fetches
<1>2. /\ simple_keys' = << >> /\ indents' = u /\ flows' = flowing
  BY DEF LeaveBlocks
<1>3. u \in Seq(Levels) /\ u # << >>
  <2>1. LevelsOK(u)
    BY <1>1, UnrollOK
  <2> HIDE DEF u
  <2> QED BY <2>1 DEF LevelsOK
<1>4. q \in Seq(Tokens)
  <2>1. BlockEnds(-1) \in Seq(Tokens)
    BY <1>1, BlockEndsOK DEF Body
  <2> QED BY <1>1, <2>1, ConcatProperties
<1>5. Nests(out, q, u, flows)
  BY <1>1, UnrollNests DEF NestInv, AllNest
<1> HIDE DEF q, u
<1>6. AllNest(out, << >>, q, u, flows, col)
  BY <1>5, NoKeyNests, Zenon DEF AllNest
<1>7. Flowed(flowing) = Flowed(flows)
  BY <1>1, FlowedAged DEF flowing
<1>8. Turns(flows, t, flowing)
  BY <1>7, TurnsNeutral
<1>9. t \in Seq(Tokens)
  BY NeutralTokens
<1>10. AllNest(out, << >>, q \o t, u, flowing, col)
  BY <1>3, <1>4, <1>6, <1>8, <1>9, GrowNests
<1> QED BY <1>2, <1>10, NoKeyNests DEF q

(* fy_fetch_directive()                                                    *)
LEMMA DirectiveNests ==
  ASSUME IInv, NestInv, Directive, ~stream_error', out' = out PROVE NestInv'
<1>1. Fetches /\ look' \in Lexemes /\ IInv'
  BY FetchLooks, DirectiveStep, Zenon DEF Directive
<1>2. PICK t \in {<<"VERSION_1_2">>, <<"TAG_DIRECTIVE_DEF">>, << >>} :
        queue' = queue \o BlockEnds(-1) \o t
  BY Zenon DEF Directive
<1>3. t \in Seq(Neutral)
  <2>1. "VERSION_1_2" \in Neutral /\ "TAG_DIRECTIVE_DEF" \in Neutral
    BY NeutralTokens
  <2>2. /\ <<"VERSION_1_2">> \in Seq(Neutral) /\ <<"TAG_DIRECTIVE_DEF">> \in Seq(Neutral)
        /\ << >> \in Seq(Neutral)
    BY <2>1
  <2> QED BY <2>2, Zenon
<1>4. LeaveBlocks /\ Done(Anything)
  BY NotFailed, Zenon DEF Directive
<1>5. /\ AllNest(out, simple_keys', queue', indents', flows', look'.column)
      /\ NoFresh(simple_keys')
  BY <1>1, <1>2, <1>3, <1>4, LeaveNests
<1> QED BY <1>1, <1>4, <1>5, FetchKeeps

(* fy_fetch_document_indicator()                                           *)
LEMMA DocumentIndicatorNests ==
  ASSUME IInv, NestInv, DocumentIndicator, ~stream_error', out' = out PROVE NestInv'
<1> DEFINE t == <<IF look'.c = "---" THEN "DOCUMENT_START" ELSE "DOCUMENT_END">>
           S == IF look'.c = "..." THEN LineEnd ELSE Anything
<1>1. Fetches /\ look' \in Lexemes /\ IInv'
  BY FetchLooks, DocumentIndicatorStep, Zenon DEF DocumentIndicator
<1>2. t \in Seq(Neutral)
  BY NeutralTokens
<1>3. queue' = queue \o BlockEnds(-1) \o t /\ LeaveBlocks /\ Done(S)
  BY NotFailed, Zenon DEF DocumentIndicator
<1> HIDE DEF t, S
<1>4. /\ AllNest(out, simple_keys', queue', indents', flows', look'.column)
      /\ NoFresh(simple_keys')
  BY <1>1, <1>2, <1>3, LeaveNests
<1> QED BY <1>1, <1>3, <1>4, FetchKeeps

(* fy_fetch_stream_end()                                                   *)
LEMMA StreamEndNests ==
  ASSUME IInv, NestInv, StreamEnd, out' = out PROVE NestInv'
<1> DEFINE e == "STREAM_END"
<1>1. Fetches /\ look' = NoText /\ look' \in Lexemes /\ LeaveBlocks
  BY NoTextType DEF StreamEnd
<1>2. queue' = queue \o BlockEnds(-1) \o <<e>> /\ <<e>> \in Seq(Neutral)
  BY NeutralTokens DEF StreamEnd
<1> HIDE DEF e
<1>3. /\ AllNest(out, simple_keys', queue', indents', flows', look'.column)
      /\ NoFresh(simple_keys')
  BY <1>1, <1>2, LeaveNests, Zenon
<1> QED BY <1>3 DEF NestInv

(* What fails is a fetch that sets stream_error.                           *)
LEMMA ScanFailsEnd == ScanFails => Fetches /\ Failed
<1>1. \A C : Fetch(C) => Fetches
  BY Zenon DEF Fetch
<1>2. \A q, ks, ind, fs : FailsWith(q, ks, ind, fs) => Failed
  BY Zenon DEF FailsWith
<1>3. \A t, aged : QueuedFails(t, aged) => Failed
  BY <1>2, Zenon DEF QueuedFails
<1>4. FlowStartFails \/ FlowEntryFails \/ BlockEntryFails \/ ComplexKeyFails
        => Fetches /\ Failed
  BY <1>1, <1>2, Zenon DEF FlowStartFails, FlowEntryFails, BlockEntryFails, ComplexKeyFails
<1>5. ValueFails \/ PropertyFails \/ ScalarFails => Fetches /\ Failed
  BY <1>1, <1>2, <1>3, Zenon DEF ValueFails, PropertyFails, ScalarFails
<1>6. FlowEndFails \/ BlockScalarFails \/ LexicalError \/ Refuse => Fetches /\ Failed
  BY <1>1, <1>2, Zenon DEF FlowEndFails, BlockScalarFails, LexicalError, Refuse
<1> QED BY <1>4, <1>5, <1>6 DEF ScanFails

(* The scanner: one step per handler.                                      *)
LEMMA ScanNests == ASSUME IInv, NestInv, Scan, ~stream_error', out' = out PROVE NestInv'
BY FlowStartNests, FlowEndNests, FlowEntryNests, BlockEntryNests, ComplexKeyNests,
   ValueNests, PropertyNests, BlockScalarNests, FlowScalarNests, PlainScalarNests,
   DirectiveNests, DocumentIndicatorNests, StreamEndNests, ScanFailsEnd,
   NotFailed DEF Scan

(* Of the stream itself the handlers only change that the end is reached.  *)
LEMMA ScanStream ==
  ASSUME Scan
  PROVE  /\ Fetches /\ (StreamEnd \/ stream_end_reached' = stream_end_reached)
         /\ UNCHANGED <<json, stream_start_produced, stream_end_produced, current, inputs>>
<1> DEFINE Same == Fetches /\ UNCHANGED streamVars
<1>1. (\A S : Done(S) => UNCHANGED streamVars) /\ (Failed => UNCHANGED streamVars)
  BY Zenon DEF Done, Failed
<1>2. \A C : Fetch(C) => Fetches
  BY Zenon DEF Fetch
<1>3. ASSUME FlowStart PROVE Same
  BY <1>1, <1>2, <1>3, Zenon DEF FlowStart
<1>4. ASSUME FlowEnd PROVE Same
  BY <1>1, <1>2, <1>4, Zenon DEF FlowEnd
<1>5. ASSUME FlowEntry PROVE Same
  BY <1>1, <1>2, <1>5, Zenon DEF FlowEntry
<1>6. ASSUME BlockEntry PROVE Same
  BY <1>1, <1>2, <1>6, Zenon DEF BlockEntry
<1>7. ASSUME ComplexKey PROVE Same
  BY <1>1, <1>2, <1>7, Zenon DEF ComplexKey
<1>8. ASSUME Value PROVE Same
  BY <1>1, <1>2, <1>8, Zenon DEF Value
<1>9. ASSUME AnchorOrAlias PROVE Same
  BY <1>1, <1>2, <1>9, Zenon DEF AnchorOrAlias
<1>10. ASSUME Tag PROVE Same
  BY <1>1, <1>2, <1>10, Zenon DEF Tag
<1>11. ASSUME BlockScalar PROVE Same
  BY <1>1, <1>2, <1>11, Zenon DEF BlockScalar
<1>12. ASSUME FlowScalar PROVE Same
  BY <1>1, <1>2, <1>12, Zenon DEF FlowScalar
<1>13. ASSUME PlainScalar PROVE Same
  BY <1>1, <1>2, <1>13, Zenon DEF PlainScalar
<1>14. ASSUME Directive PROVE Same
  BY <1>1, <1>2, <1>14, Zenon DEF Directive
<1>15. ASSUME DocumentIndicator PROVE Same
  BY <1>1, <1>2, <1>15, Zenon DEF DocumentIndicator
<1>16. ASSUME ScanFails PROVE Same
  BY <1>16, ScanFailsEnd, <1>1
<1>17. CASE StreamEnd
  BY <1>17 DEF StreamEnd
<1>18. Same \/ StreamEnd
  BY <1>3, <1>4, <1>5, <1>6, <1>7, <1>8, <1>9, <1>10, <1>11, <1>12, <1>13, <1>14, <1>15,
     <1>16 DEF Scan
<1> QED BY <1>17, <1>18 DEF streamVars

(* At the end of the text every block level has been left.                 *)
LEMMA EndUnrolls == ASSUME IInv, Scan PROVE Unrolled'
<1>1. CASE StreamEnd
  <2> DEFINE k == Popped(indents, -1)
             L == Len(indents)
  <2>1. /\ LevelsOK(indents) /\ flow_level \in Nat /\ indents' = Unroll(indents, -1)
        /\ flow_level' = flow_level
    BY <1>1 DEF IInv, BracketsOK, StreamEnd, LeaveBlocks
  <2>2. /\ indents \in Seq(Levels) /\ L \in Nat /\ indents[1].indent = -2
        /\ \A i, j \in 1 .. L : i < j => indents[i].indent < indents[j].indent
    BY <2>1 DEF LevelsOK
  <2>3. indents' = SubSeq(indents, 1, L - k)
    BY <2>1 DEF Unroll
  <2>4. k \in 0 .. L - 1 /\ (~(flow_level > 0) => indents[L - k].indent <= -1)
    BY <2>1, PoppedIs
  <2> HIDE DEF k
  <2>5. L - k \in 1 .. L /\ Len(indents') = L - k
    BY <2>2, <2>3, <2>4
  <2>6. ASSUME flow_level = 0, L - k # 1 PROVE FALSE
    <3> DEFINE d == indents[L - k].indent
    <3>1. d \in {-2} \cup Columns
      <4>1. indents[L - k] \in Levels
        BY <2>2, <2>5, ElementOfSeq
      <4> QED BY <4>1 DEF Levels
    <3>2. -2 < d
      BY <2>2, <2>5, <2>6
    <3>3. d <= -1
      BY <2>1, <2>4, <2>6
    <3> HIDE DEF d
    <3>4. d # -2 /\ (d \in Columns => d >= 0)
      BY <3>1, <3>2, ColumnInt
    <3> QED BY <3>1, <3>3, <3>4, ColumnInt
  <2> QED BY <2>1, <2>5, <2>6 DEF Unrolled
<1>2. CASE ~StreamEnd
  <2>1. stream_end_reached' = FALSE
    BY <1>2, ScanStream, Zenon DEF Fetches, IInv, StreamOK
  <2> QED BY <2>1 DEF Unrolled
<1> QED BY <1>1, <1>2

(* The next input: what fy_scan_peek() drops of the queue is nothing.      *)
LEMMA OpenInputNests ==
  ASSUME IInv, NestInv, Drained, OpenInput, out' = out PROVE NestInv'
<1> DEFINE t == "STREAM_START"
<1>1. /\ queue' = (IF stream_end_produced THEN << >> ELSE queue) \o <<t>>
      /\ simple_keys' = simple_keys /\ indents' = indents /\ flows' = flows
      /\ stream_end_produced' = FALSE /\ stream_end_reached' = FALSE
  BY DEF OpenInput
<1>2. stream_end_produced => queue = << >>
  BY DEF Drained
<1>3. <<t>> \in Seq(Neutral) /\ <<t>> \in Seq(Tokens)
  BY NeutralTokens
<1> HIDE DEF t
<1>4. queue' = queue \o <<t>>
  BY <1>1, <1>2, Zenon
<1>5. simple_keys = << >>
  <2>1. stream_end_produced \/ ~stream_start_produced
    BY DEF OpenInput, Restarts
  <2>2. stream_end_produced => simple_keys = << >>
    BY DEF IInv, StreamOK
  <2>3. ~stream_start_produced => simple_keys = << >>
    BY DEF IInv, StreamOK
  <2> QED BY <2>1, <2>2, <2>3
<1>6. AllNest(out, << >>, queue \o <<t>>, indents, flows, look'.column)
  <2>1. queue \in Seq(Tokens) /\ indents \in Seq(Levels) /\ indents # << >>
    BY DEF IInv, QueueOK, LevelsOK
  <2>2. Nests(out, queue, indents, flows)
    BY DEF NestInv, AllNest
  <2>3. AllNest(out, << >>, queue, indents, flows, look'.column)
    BY <2>2, NoKeyNests, Zenon DEF AllNest
  <2>4. Turns(flows, <<t>>, flows)
    BY <1>3, TurnsNeutral, Zenon
  <2> QED BY <1>3, <2>1, <2>3, <2>4, GrowNests, Zenon
<1>7. NoFresh(simple_keys')
  BY <1>1, <1>5, NoKeyNests
<1>8. AllNest(out, simple_keys', queue', indents', flows', look'.column)
  BY <1>1, <1>4, <1>5, <1>6
<1> QED BY <1>7, <1>8 DEF NestInv

(* What a token does to the nesting is done when it is taken.              *)
LEMMA TakenNests ==
  ASSUME IInv, NestInv, queue # << >>, simple_keys = << >>, queue' = Tail(queue),
         out' = Nested(out, Head(queue)), UNCHANGED <<simple_keys, indents, flows, look>>
  PROVE  NestInv'
<1> DEFINE h == Head(queue)
           r == Tail(queue)
<1>1. /\ queue # << >> /\ simple_keys = << >> /\ queue' = r
      /\ out' = Nested(out, h) /\ simple_keys' = simple_keys /\ indents' = indents
      /\ flows' = flows /\ look' = look
  OBVIOUS
<1>2. queue \in Seq(Tokens) /\ out \in Seq(Words)
  BY DEF IInv, QueueOK, NestInv
<1>3. /\ h \in Tokens /\ r \in Seq(Tokens) /\ Len(r) = Len(queue) - 1
      /\ \A i \in 1 .. Len(r) : r[i] = queue[i + 1]
  BY <1>1, <1>2, HeadTailProperties
<1>4. h = queue[1] /\ Len(queue) \in Nat /\ Len(queue) # 0
  BY <1>1, <1>2, EmptySeq
<1>5. out' \in Seq(Words)
  BY <1>1, <1>2, <1>3, NestedType
<1>6. queue = <<h>> \o r
  <2> DEFINE z == <<h>> \o r
  <2>1. <<h>> \in Seq(Tokens) /\ Len(<<h>>) = 1 /\ <<h>>[1] = h
    BY <1>3
  <2> HIDE DEF h, r
  <2>2. /\ z \in Seq(Tokens) /\ Len(z) = 1 + Len(r)
        /\ \A i \in 1 .. 1 + Len(r) : z[i] = IF i <= 1 THEN <<h>>[i] ELSE r[i - 1]
    BY <1>3, <2>1, ConcatProperties
  <2> HIDE DEF z
  <2>3. Len(z) = Len(queue)
    BY <1>3, <1>4, <2>2
  <2>4. ASSUME NEW i \in 1 .. Len(queue) PROVE queue[i] = z[i]
    <3>1. i \in 1 .. 1 + Len(r)
      BY <1>3, <1>4
    <3>2. CASE i = 1
      BY <1>4, <2>1, <2>2, <3>1, <3>2
    <3>3. CASE i # 1
      <4>1. ~(i <= 1) /\ i - 1 \in 1 .. Len(r) /\ (i - 1) + 1 = i
        BY <1>3, <1>4, <3>3
      <4>2. z[i] = r[i - 1] /\ r[i - 1] = queue[i]
        BY <1>3, <2>2, <3>1, <4>1
      <4> QED BY <4>2
    <3> QED BY <3>2, <3>3
  <2>5. queue = z
    BY <1>2, <2>2, <2>3, <2>4, SeqEqual
  <2> QED BY <2>5 DEF z
<1> HIDE DEF r
<1>7. Nests(out', queue', indents', flows')
  <2>1. <<h>> \in Seq(Tokens) /\ NestedBy(out, <<h>>) = out'
    BY <1>1, <1>3, NestedByOne
  <2> HIDE DEF h
  <2>2. NestedBy(out, <<h>> \o r) = NestedBy(NestedBy(out, <<h>>), r)
    BY <1>3, <2>1, NestedByConcat, Zenon
  <2>3. NestedBy(out, queue) = Blocks(indents) \o Flowed(flows)
    BY DEF NestInv, AllNest, Nests
  <2>4. NestedBy(out', r) = Blocks(indents) \o Flowed(flows)
    BY <1>6, <2>1, <2>2, <2>3
  <2> QED BY <1>1, <2>4 DEF Nests
<1>8. AllNest(out', simple_keys', queue', indents', flows', look'.column)
  BY <1>1, <1>7, NoKeyNests, Zenon DEF AllNest
<1>9. NoFresh(simple_keys')
  BY <1>1, NoKeyNests
<1> QED BY <1>5, <1>8, <1>9 DEF NestInv

(* fy_scan()                                                               *)
LEMMA TakeNests == ASSUME IInv, NestInv, Take PROVE NestInv'
BY TakenNests DEF Take, Ready, contextVars

(* The end is the last token of its input.                                 *)
LEMMA StepDrained == IInv /\ Drained /\ [Next]_vars => Drained'
<1> SUFFICES ASSUME IInv, Drained, [Next]_vars PROVE Drained'
  OBVIOUS
<1>1. CASE Take
  <2> DEFINE e == "STREAM_END"
  <2>1. /\ queue # << >> /\ queue' = Tail(queue) /\ Produces(Head(queue))
        /\ ~stream_end_produced /\ e \in Boundary
    BY <1>1 DEF Take, Ready, Drained, Boundary
  <2>2. stream_end_produced' => Head(queue) = e
    BY <2>1, Zenon DEF Produces
  <2> HIDE DEF e
  <2>3. Head(queue) = e => queue = <<e>>
    BY <2>1, BoundaryAtHead, Zenon DEF IInv
  <2>4. Tail(<<e>>) = << >>
    OBVIOUS
  <2> QED BY <2>1, <2>2, <2>3, <2>4 DEF Drained
<1>2. CASE Scan
  BY <1>2, ScanStream, Zenon DEF IInv, StreamOK, Fetches, Drained
<1>3. CASE OpenInput
  BY <1>3 DEF OpenInput, Drained
<1>4. CASE UNCHANGED vars
  BY <1>4 DEF Drained, vars, scanVars, streamVars
<1> QED BY <1>1, <1>2, <1>3, <1>4 DEF Next

-----------------------------------------------------------------------------
(* fy_parse_setup(): nothing is open.                                      *)
LEMMA NothingNests ==
  /\ << >> \in Seq(Words) /\ NoFresh(<< >>)
  /\ \A col : AllNest(<< >>, << >>, << >>, <<NoIndent>>, <<NoFlow>>, col)
<1>1. NestedBy(<< >>, << >>) = << >>
  BY NestedByNone
<1>2. Blocks(<<NoIndent>>) = << >> /\ Flowed(<<NoFlow>>) = << >>
  BY DEF Blocks, Flowed
<1>3. << >> \o << >> = << >>
  BY ConcatEmptySeq, EmptySeq
<1>4. Nests(<< >>, << >>, <<NoIndent>>, <<NoFlow>>)
  BY <1>1, <1>2, <1>3, Zenon DEF Nests
<1>5. << >> \in Seq(Words)
  OBVIOUS
<1> QED BY <1>4, <1>5, NoKeyNests, Zenon DEF AllNest

(* So the scanner starts with it.                                          *)
LEMMA InitNests == ScanInit => NestInv
BY NothingNests, Zenon DEF ScanInit, Init, NestInv

(* What is open when only a boundary is queued: the scanner and whoever    *)
(* takes its tokens agree on it.                                           *)
LEMMA OpenAtBoundary ==
  ASSUME IInv, NestInv, NEW b \in Boundary, queue = <<b>>
  PROVE  out = Blocks(indents) \o Flowed(flows)
<1>1. b \in Tokens /\ b \in Neutral
  <2>1. b \in Tokens
    BY DEF IInv, QueueOK
  <2> QED BY <2>1 DEF Neutral, Boundary, BlockStarts, FlowStarts, FlowEnds, Directives,
                      VersionDirectives, TagDirectives, DocumentMarkers
<1>2. NestedBy(out, <<b>>) = Nested(out, b)
  BY <1>1, NestedByOne
<1>3. Nested(out, b) = out
  BY <1>1, NestedNeutral
<1> QED BY <1>2, <1>3, Zenon DEF NestInv, AllNest, Nests

(* If they agree that nothing is, the scanner has no level open.           *)
LEMMA NothingAtBoundary ==
  ASSUME IInv, ~stream_error, NestInv, NEW b \in Boundary, queue = <<b>>, out = << >>
  PROVE  Len(indents) = 1 /\ Len(flows) = 1 /\ flow_level = 0
<1> DEFINE B == Blocks(indents)
           F == Flowed(flows)
<1>1. << >> = B \o F
  BY OpenAtBoundary
<1>2. /\ indents \in Seq(Levels) /\ indents # << >> /\ flows \in Seq(Brackets)
      /\ Len(flows) = flow_level + 1 /\ flow_level \in Nat
      /\ Len(indents) \in Nat /\ Len(indents) # 0
  BY EmptySeq, LenProperties DEF IInv, LevelsOK, BracketsOK, FlowsOK
<1>3. B \in Seq(Words) /\ Len(B) = Len(indents) - 1
  BY <1>2, BlocksType
<1>4. F \in Seq(Words) /\ Len(F) = Len(flows) - 1
  <2>1. flows # << >>
    BY <1>2
  <2> QED BY <1>2, <2>1, FlowedType
<1> HIDE DEF B, F
<1>5. Len(B \o F) = Len(B) + Len(F) /\ Len(<< >>) = 0
  BY <1>3, <1>4, ConcatProperties
<1>6. Len(B) + Len(F) = 0
  BY <1>1, <1>5, Zenon
<1>7. (Len(indents) - 1) + (Len(flows) - 1) = 0
  BY <1>3, <1>4, <1>6, Zenon
<1> QED BY <1>2, <1>7

(* When the end of the text is queued alone, whatever is still open is a   *)
(* bracket.                                                                *)
LEMMA OpenAtEnd ==
  ASSUME IInv, ~stream_error, NestInv, Unrolled, queue = <<"STREAM_END">>, out # << >>
  PROVE  flow_level > 0 /\ Last(out) \notin {"seq", "map"}
<1> DEFINE F == Flowed(flows)
           e == "STREAM_END"
<1>1. e \in Boundary /\ queue = <<e>> /\ stream_end_reached
  <2>1. e \in Boundary
    BY BodyTokensIn
  <2>2. queue # << >> /\ Head(queue) = e
    OBVIOUS
  <2> QED BY <2>1, <2>2, BoundaryAtHead DEF IInv
<1> HIDE DEF e
<1>2. out = Blocks(indents) \o F
  BY <1>1, OpenAtBoundary
<1>3. /\ indents \in Seq(Levels) /\ indents # << >> /\ flows \in Seq(Brackets)
      /\ Len(flows) = flow_level + 1 /\ flow_level \in Nat
  BY DEF IInv, LevelsOK, BracketsOK, FlowsOK
<1>4. /\ F \in Seq(Words) /\ Len(F) = Len(flows) - 1
      /\ \A i \in 1 .. Len(F) : F[i] = flows[i + 1].flow
  <2>1. flows # << >>
    BY <1>3
  <2> QED BY <1>3, <2>1, FlowedType
<1>5. Blocks(indents) \in Seq(Words) /\ Len(Blocks(indents)) = Len(indents) - 1
  BY <1>3, BlocksType
<1>6. flow_level # 0
  <2> SUFFICES ASSUME flow_level = 0 PROVE FALSE
    OBVIOUS
  <2>1. Len(indents) = 1 /\ Len(F) = 0
    BY <1>1, <1>3, <1>4 DEF Unrolled
  <2> HIDE DEF F
  <2>2. Blocks(indents) = << >> /\ F = << >>
    BY <1>4, <1>5, <2>1, EmptySeq
  <2> QED BY <1>2, <2>2
<1>7. Last(out) = flows[Len(flows)].flow
  <2> DEFINE B == Blocks(indents)
             m == Len(F)
  <2>1. m \in Nat /\ m # 0 /\ m + 1 = Len(flows)
    BY <1>3, <1>4, <1>6
  <2>2. B \in Seq(Words) /\ out = B \o F
    BY <1>2, <1>5
  <2> HIDE DEF B, F
  <2>3. /\ Len(out) = Len(B) + m /\ Len(B) \in Nat
        /\ \A i \in 1 .. Len(B) + m : out[i] = IF i <= Len(B) THEN B[i] ELSE F[i - Len(B)]
    BY <1>4, <2>2, ConcatProperties, LenProperties
  <2> HIDE DEF m
  <2>4. /\ Len(B) + m \in 1 .. Len(B) + m /\ ~(Len(B) + m <= Len(B))
        /\ Len(B) + m - Len(B) = m /\ m \in 1 .. m
    BY <2>1, <2>3
  <2>5. out[Len(out)] = F[m]
    BY <2>3, <2>4
  <2>6. F[m] = flows[m + 1].flow
    BY <1>4, <2>4, Zenon DEF m
  <2> QED BY <2>1, <2>5, <2>6 DEF Last
<1>8. flows[Len(flows)].flow \in {"none", "[", "{"}
  <2>1. flows[Len(flows)] \in Brackets
    BY <1>3
  <2> QED BY <2>1 DEF Brackets
<1>9. flow_level > 0
  BY <1>3, <1>6
<1>10. \A w : w \in {"none", "[", "{"} => w \notin {"seq", "map"}
  OBVIOUS
<1> QED BY <1>7, <1>8, <1>9, <1>10, Zenon

(* fy_reset_document_state() between two documents: of the scanner's       *)
(* context it leaves what it was.                                          *)
LEMMA ResetNests ==
  ASSUME IInv, ~stream_error, NestInv, NEW b \in Boundary, queue = <<b>>, out = << >>,
         out' = << >>, NEW f, flows' = <<f>>, UNCHANGED <<queue, simple_keys, indents, look>>
  PROVE  NestInv'
<1>1. Len(indents) = 1 /\ Len(flows) = 1 /\ simple_keys = << >>
  <2>1. queue # << >> /\ Head(queue) = b
    OBVIOUS
  <2> QED BY <2>1, NothingAtBoundary, BoundaryAtHead DEF IInv
<1>2. Flowed(flows') = Flowed(flows)
  <2>1. Flowed(flows) = << >>
    BY <1>1 DEF Flowed
  <2>2. Flowed(<<f>>) = << >>
    BY DEF Flowed
  <2> QED BY <2>1, <2>2
<1>3. Nests(out', queue', indents', flows')
  BY <1>2 DEF NestInv, AllNest, Nests
<1>4. AllNest(out', simple_keys', queue', indents', flows', look'.column)
  BY <1>1, <1>3, NoKeyNests, Zenon DEF AllNest
<1> QED BY <1>1, <1>4, NothingNests, Zenon DEF NestInv

(* fy_parse_stream_start(): nothing is open, and nothing is queued.        *)
LEMMA BeginNests ==
  ASSUME queue' = << >>, simple_keys' = << >>, out' = << >>,
         indents' = <<NoIndent>>, flows' = <<NoFlow>>
  PROVE  NestInv' /\ Unrolled'
<1>1. NestInv'
  BY NothingNests, Zenon DEF NestInv
<1>2. Len(indents') = 1
  OBVIOUS
<1> QED BY <1>1, <1>2 DEF Unrolled

(* fy_scan_peek() hands out a token that stays queued.                     *)
LEMMA ProduceStep ==
  ASSUME IInv, Ready, Produces(Head(queue)),
         UNCHANGED <<queue, contextVars, json, stream_end_reached, inputs, stream_error,
                     look, ahead>>
  PROVE  IInv' /\ (Head(queue) = "STREAM_END" => queue = <<"STREAM_END">>)
<1>1. Head(queue) = "STREAM_END" => stream_end_reached /\ queue = <<"STREAM_END">>
  BY BoundaryAtHead DEF IInv, Boundary, Ready
<1>2. StreamOK'
  BY <1>1 DEF IInv, StreamOK, Produces, contextVars
<1> QED BY <1>1, <1>2 DEF IInv, BracketsOK, contextVars

(* A step of whoever has been handed the head of the queue: it may remove  *)
(* the token, and put the scanner's indents and brackets back.             *)
LEMMA AsideStep ==
  ASSUME IInv, simple_keys = << >>, simple_keys' = << >>, queue # << >>,
         queue' \in {queue, Tail(queue)}, LevelsOK(indents'), BracketsOK',
         last_was_comma' \in BOOLEAN, stream_error' \in BOOLEAN,
         UNCHANGED <<simple_key_allowed, json, stream_start_produced, stream_end_reached,
                     stream_end_produced, current, inputs, look, ahead>>
  PROVE  IInv'
<1>1. QueueOK(queue', simple_keys', stream_end_reached')
  BY TailQueue DEF IInv
<1>2. KeysOK(simple_keys', queue', flow_level')
  BY NoKeysOK
<1>3. StreamOK'
  BY DEF IInv, StreamOK
<1> QED BY <1>1, <1>2, <1>3 DEF IInv

(* What fy_reset_document_state() and fy_parse_stream_start() put there.   *)
LEMMA FreshLevels ==
  /\ LevelsOK(<<NoIndent>>) /\ FlowsOK(<<NoFlow>>, 0)
  /\ \A fs \in Seq(Brackets) : fs # << >> =>
       FlowsOK(<<[flow |-> "none", pending |-> Last(fs).pending]>>, 0)
<1>1. NoIndent \in Levels /\ NoIndent.indent = -2 /\ NoFlow \in Brackets
  BY NoPendingType DEF NoIndent, Levels, NoFlow, Brackets
<1>2. LevelsOK(<<NoIndent>>) /\ FlowsOK(<<NoFlow>>, 0)
  BY <1>1 DEF LevelsOK, FlowsOK
<1>3. ASSUME NEW fs \in Seq(Brackets), fs # << >>
      PROVE  FlowsOK(<<[flow |-> "none", pending |-> Last(fs).pending]>>, 0)
  <2>1. Last(fs) \in Brackets
    BY <1>3, EmptySeq, ElementOfSeq, LenProperties DEF Last
  <2>2. [flow |-> "none", pending |-> Last(fs).pending] \in Brackets
    BY <2>1 DEF Brackets
  <2> QED BY <2>2 DEF FlowsOK
<1> QED BY <1>2, <1>3

(* Every step keeps it, until one fails.                                   *)
LEMMA StepNests ==
  IInv /\ (~stream_error => NestInv) /\ Drained /\ [Next]_vars
    => (~stream_error => NestInv)'
<1> SUFFICES ASSUME IInv, ~stream_error => NestInv, Drained, [Next]_vars, ~stream_error'
             PROVE  NestInv'
  OBVIOUS
<1>1. CASE Take
  BY <1>1, TakeNests DEF Take
<1>2. CASE Scan /\ UNCHANGED out
  BY <1>2, ScanNests, ScanStream DEF Fetches
<1>3. CASE OpenInput /\ UNCHANGED out
  BY <1>3, OpenInputNests DEF OpenInput
<1>4. CASE UNCHANGED vars
  BY <1>4 DEF NestInv, vars, scanVars, contextVars
<1> QED BY <1>1, <1>2, <1>3, <1>4 DEF Next

(* So it holds in every state of every behaviour that has met no error.    *)
LEMMA NestInvariant == Spec => [](~stream_error => NestInv)
<1>1. ScanInit => Drained
  BY DEF ScanInit, Init, Drained
<1> QED BY <1>1, InitInv, StepInv, InitNests, StepNests, StepDrained, PTL DEF Spec

(* Balanced is part of it.                                                 *)
LEMMA NestBalanced == (~stream_error => NestInv) => Balanced
BY OpenInIs DEF NestInv, AllNest, Nests, Balanced

(* For every text, up to the first error, however deep it nests and        *)
(* however far fy_fetch_value() goes back to open a mapping, the tokens    *)
(* handed out and those queued are properly nested, and what they leave    *)
(* open is what the indent stack and the flow stack say.                   *)
THEOREM ScanBalanced == Spec => []Balanced
BY NestBalanced, NestInvariant, PTL

=============================================================================
