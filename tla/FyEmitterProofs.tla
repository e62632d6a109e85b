-------------------------- MODULE FyEmitterProofs ---------------------------
(***************************************************************************)
(* Theorems about FyEmitter, for every mode, indentation, nesting, number  *)
(* of documents and number of stray events.                                *)
(***************************************************************************)
EXTENDS FyEmitter, NestLists

(***************************************************************************)
(* The stacks.  Every open collection has pushed one context and one state *)
(* to return to.  Below the states of the collections lies the DOCUMENT_END*)
(* of the root, and any that refused roots have left.                      *)
(***************************************************************************)
Pushed  == {"DOCUMENT_END", "SEQUENCE_ITEM", "MAPPING_KEY", "MAPPING_VALUE"}
Inside  == {"SEQUENCE_FIRST_ITEM", "SEQUENCE_ITEM", "MAPPING_FIRST_KEY",
            "MAPPING_KEY", "MAPPING_VALUE"}
Outside == {"NONE", "STREAM_START", "FIRST_DOCUMENT_START", "DOCUMENT_START",
            "DOCUMENT_CONTENT", "DOCUMENT_END", "END"}

Context == [kind : {"none", "seq", "map"}, flow : BOOLEAN, flags : BOOLEAN,
            empty : BOOLEAN, flow_token : BOOLEAN, indent : Int, s_indent : Int]

StacksOK(st, ss, cs) ==
  /\ st \in Inside \cup Outside
  /\ ss \in Seq(Pushed) /\ cs \in Seq(Context)
  /\ Len(cs) <= Len(ss)
  /\ st \in Inside <=> Len(cs) > 0
  /\ \A i \in 1 .. Len(ss) : ss[i] = "DOCUMENT_END" <=> i <= Len(ss) - Len(cs) + 1

Struct ==
  /\ StacksOK(state, state_stack, sc_stack)
  /\ s_sc \in Context /\ s_indent \in Int /\ flow_level \in Int

(* The nesting that the emitter has acted on.                              *)
Idle == {"NONE", "STREAM_START", "END"}

NestOf(st, ss, d) ==
  IF st \in Idle THEN << >>
  ELSE <<"stream">> \o [i \in 1..d |-> Within(ss[Len(ss) - d + i])] \o Waiting(st)

Open == NestOf(state, state_stack, Len(sc_stack))

-----------------------------------------------------------------------------
(* Pushing a state and popping it again changes nothing.                   *)
LEMMA PushPop ==
  ASSUME NEW S, NEW s \in Seq(S), NEW x \in S
  PROVE  /\ Append(s, x) # << >>
         /\ PopState(Append(s, x)) = x /\ Pop(Append(s, x)) = s
<1>1. Append(s, x) \in Seq(S) /\ Len(Append(s, x)) = Len(s) + 1 /\ Append(s, x) # << >>
  BY AppendProperties, Zenon
<1>2. Last(Append(s, x)) = x
  BY DEF Last
<1>3. Front(Append(s, x)) = s
  <2>1. Front(Append(s, x)) \in Seq(S) /\ Len(Front(Append(s, x))) = Len(s)
    BY <1>1 DEF Front
  <2>2. \A i \in 1 .. Len(s) : Front(Append(s, x))[i] = s[i]
    BY <1>1 DEF Front
  <2> QED BY <2>1, <2>2, SameList
<1> QED BY <1>1, <1>2, <1>3 DEF PopState, Pop

(* A list without its last item.                                           *)
LEMMA Popped ==
  ASSUME NEW S, NEW s \in Seq(S), s # << >>
  PROVE  /\ Front(s) \in Seq(S) /\ Len(Front(s)) = Len(s) - 1 /\ Len(s) > 0
         /\ \A i \in 1 .. Len(s) - 1 : Front(s)[i] = s[i]
         /\ Last(s) = s[Len(s)] /\ Last(s) \in S
         /\ PopState(s) = s[Len(s)] /\ Pop(s) = Front(s)
<1>1. Len(s) \in Nat \ {0}
  BY EmptySeq, Zenon
<1>2. \A i \in 1 .. Len(s) : s[i] \in S
  BY ElementOfSeq
<1>3. \A i \in 1 .. Len(s) - 1 : s[i] \in S
  BY <1>1, <1>2
<1>4. /\ Front(s) \in Seq(S)
      /\ Len(Front(s)) = (IF 1 <= Len(s) - 1 THEN Len(s) - 1 - 1 + 1 ELSE 0)
      /\ \A i \in 1 .. Len(s) - 1 - 1 + 1 : Front(s)[i] = s[1 + i - 1]
  BY <1>1, <1>3, SubSeqProperties DEF Front
<1>5. Last(s) = s[Len(s)] /\ Last(s) \in S
  BY <1>1, <1>2 DEF Last
<1>6. PopState(s) = s[Len(s)] /\ Pop(s) = Front(s)
  BY DEF PopState, Pop, Last
<1> DEFINE f == Front(s)
<1>7. f \in Seq(S) /\ Len(f) = Len(s) - 1
  <2> DEFINE k == Len(f)
             m == Len(s)
  <2>1. m \in Nat \ {0} /\ k = (IF 1 <= m - 1 THEN m - 1 - 1 + 1 ELSE 0)
    BY <1>1, <1>4
  <2> HIDE DEF k, m
  <2>2. k = m - 1
    BY <2>1
  <2> QED BY <1>4, <2>2, Zenon DEF k, m
<1>8. \A i \in 1 .. Len(s) - 1 : f[i] = s[i]
  <2> HIDE DEF f
  <2> TAKE i \in 1 .. Len(s) - 1
  <2>1. i \in 1 .. Len(s) - 1 - 1 + 1 /\ 1 + i - 1 = i
    BY <1>1
  <2> QED BY <1>4, <2>1 DEF f
<1>9. Len(s) > 0
  BY <1>1
<1> QED BY <1>5, <1>6, <1>7, <1>8, <1>9, Zenon

(* What is open, item by item.                                             *)
LEMMA NestIs ==
  ASSUME NEW st \in Inside \cup Outside, NEW ss \in Seq(Pushed),
         NEW d \in Nat, d <= Len(ss), st \notin Idle
  PROVE  LET n == NestOf(st, ss, d)
         IN  /\ n \in Seq(Words) /\ Len(n) = 1 + d + Len(Waiting(st)) /\ n[1] = "stream"
             /\ \A i \in 1 .. d : n[1 + i] = Within(ss[Len(ss) - d + i])
             /\ Len(Waiting(st)) = 1 => n[d + 2] = Waiting(st)[1]
<1> DEFINE w == Waiting(st)
           e == [i \in 1 .. d |-> Within(ss[Len(ss) - d + i])]
           a == <<"stream">> \o e
<1>0. \A x \in Words : <<x>> \in Seq(Words) /\ Len(<<x>>) = 1
  OBVIOUS
<1>1. w \in Seq(Words) /\ Len(w) \in 0 .. 1
  <2>1. w = << >> \/ \E x \in Words : w = <<x>>
    BY DEF Waiting, Words
  <2>2. << >> \in Seq(Words) /\ Len(<< >>) = 0 /\ 0 \in 0 .. 1 /\ 1 \in 0 .. 1
    BY EmptySeq
  <2> HIDE DEF w
  <2> QED BY <1>0, <2>1, <2>2, Zenon
<1>2. \A x \in Pushed : Within(x) \in Words
  BY DEF Within, Pushed, Words
<1>3. \A i \in 1 .. d : Within(ss[Len(ss) - d + i]) \in Words
  BY <1>2
<1>4. e \in [1 .. d -> Words]
  BY <1>3, Zenon
<1> HIDE DEF w
<1>6. \A i \in 1 .. d : e[i] = Within(ss[Len(ss) - d + i])
  OBVIOUS
<1> HIDE DEF e
<1>5. e \in Seq(Words) /\ Len(e) = d
  BY <1>4
<1>7. "stream" \in Words
  BY DEF Words
<1>8. <<"stream">> \in Seq(Words) /\ Len(<<"stream">>) = 1 /\ <<"stream">>[1] = "stream"
  BY <1>7
<1>9. /\ a \in Seq(Words) /\ Len(a) = 1 + d /\ a[1] = "stream"
      /\ \A i \in 1 .. d : a[1 + i] = e[i]
  BY <1>5, <1>8
<1> HIDE DEF a
<1>10. /\ a \o w \in Seq(Words) /\ Len(a \o w) = 1 + d + Len(w)
       /\ \A i \in 1 .. 1 + d : (a \o w)[i] = a[i]
       /\ Len(w) = 1 => (a \o w)[d + 2] = w[1]
  <2>1. /\ a \o w \in Seq(Words) /\ Len(a \o w) = Len(a) + Len(w)
        /\ \A i \in 1 .. Len(a) + Len(w) :
             (a \o w)[i] = IF i <= Len(a) THEN a[i] ELSE w[i - Len(a)]
    <3>1. a \in Seq(Words) /\ w \in Seq(Words)
      BY <1>1, <1>9, Zenon
    <3> QED BY <3>1, ConcatProperties
  <2> DEFINE aw == a \o w
  <2> HIDE DEF aw
  <2>2. \A i \in 1 .. 1 + d : aw[i] = a[i]
    BY <1>1, <1>9, <2>1 DEF aw
  <2>3. ASSUME Len(w) = 1 PROVE aw[d + 2] = w[1]
    <3>1. d + 2 \in 1 .. Len(a) + Len(w) /\ ~(d + 2 <= Len(a)) /\ d + 2 - Len(a) = 1
      BY <1>9, <2>3
    <3> QED BY <2>1, <3>1 DEF aw
  <2> QED BY <1>9, <2>1, <2>2, <2>3 DEF aw
<1>11. NestOf(st, ss, d) = a \o w
  BY DEF NestOf, a, e, w
<1> DEFINE n == NestOf(st, ss, d)
<1>12. n \in Seq(Words) /\ Len(n) = 1 + d + Len(w) /\ n[1] = "stream"
  BY <1>9, <1>10, <1>11
<1>13. \A i \in 1 .. d : n[1 + i] = Within(ss[Len(ss) - d + i])
  <2> HIDE DEF n
  <2> TAKE i \in 1 .. d
  <2>1. n[1 + i] = a[1 + i]
    BY <1>10, <1>11 DEF n
  <2> QED BY <1>6, <1>9, <2>1, Zenon
<1>14. Len(w) = 1 => n[d + 2] = w[1]
  BY <1>10, <1>11
<1> HIDE DEF n
<1> QED BY <1>12, <1>13, <1>14 DEF n, w

(* The same when a node or the end of the document is waited for.          *)
Waits(st, ss, d, y) ==
  /\ st \in (Inside \cup Outside) \ Idle
  /\ ss \in Seq(Pushed) /\ d \in Nat /\ d <= Len(ss)
  /\ y \in Words /\ Waiting(st) = <<y>>

Listed(n, ss, d, y) ==
  /\ n \in Seq(Words) /\ Len(n) = d + 2 /\ n # << >>
  /\ n[1] = "stream" /\ n[d + 2] = y
  /\ \A j \in 2 .. d + 1 : n[j] = Within(ss[Len(ss) - d + j - 1])

LEMMA NestWaits ==
  ASSUME NEW st, NEW ss, NEW d, NEW y, Waits(st, ss, d, y)
  PROVE  Listed(NestOf(st, ss, d), ss, d, y)
<1> DEFINE n == NestOf(st, ss, d)
<1>0. /\ st \in Inside \cup Outside /\ st \notin Idle /\ ss \in Seq(Pushed)
      /\ d \in Nat /\ d <= Len(ss) /\ y \in Words /\ Waiting(st) = <<y>>
  BY DEF Waits
<1>1. Len(Waiting(st)) = 1 /\ Waiting(st)[1] = y
  BY <1>0
<1>2. /\ n \in Seq(Words) /\ Len(n) = 1 + d + Len(Waiting(st)) /\ n[1] = "stream"
      /\ \A i \in 1 .. d : n[1 + i] = Within(ss[Len(ss) - d + i])
      /\ Len(Waiting(st)) = 1 => n[d + 2] = Waiting(st)[1]
  BY <1>0, NestIs, Zenon
<1> HIDE DEF n
<1>3. n[d + 2] = y
  BY <1>1, <1>2
<1>4. n # << >> /\ Len(n) = d + 2
  BY <1>0, <1>1, <1>2
<1>5. ASSUME NEW j \in 2 .. d + 1 PROVE n[j] = Within(ss[Len(ss) - d + j - 1])
  <2>1. PICK i \in 1 .. d : j = 1 + i
    <3>1. j - 1 \in 1 .. d /\ j = 1 + (j - 1)
      BY <1>0
    <3> QED BY <3>1
  <2>2. n[j] = Within(ss[Len(ss) - d + i])
    BY <1>2, <2>1
  <2>3. Len(ss) - d + j - 1 = Len(ss) - d + i
    BY <1>0, <2>1, LenProperties
  <2> QED BY <2>2, <2>3
<1> QED BY <1>2, <1>3, <1>4, <1>5 DEF n, Listed

(* A node that opens a collection: the state it returns to goes on the     *)
(* stack, and stands for what waited for the node.                         *)
LEMMA NestPush ==
  ASSUME NEW st, NEW ss, NEW d, NEW x \in Pushed, Waits(st, ss, d, Within(x)),
         NEW to, NEW y, Waits(to, Append(ss, x), d + 1, y)
  PROVE  NestOf(to, Append(ss, x), d + 1) = Append(NestOf(st, ss, d), y)
<1> DEFINE n == NestOf(st, ss, d)
           t == Append(ss, x)
           m == NestOf(to, t, d + 1)
           a == Append(n, y)
<1>0. /\ ss \in Seq(Pushed) /\ d \in Nat /\ d <= Len(ss)
      /\ Within(x) \in Words /\ y \in Words
  BY DEF Waits
<1>1. t \in Seq(Pushed) /\ Len(t) = Len(ss) + 1 /\ Len(t) \in Nat /\ Len(ss) \in Nat
  BY <1>0, AppendProperties, LenProperties
<1>2. (\A i \in 1 .. Len(ss) : t[i] = ss[i]) /\ t[Len(ss) + 1] = x
  BY <1>0, AppendProperties
<1> HIDE DEF t
<1>3. /\ n \in Seq(Words) /\ Len(n) = d + 2 /\ n[1] = "stream" /\ n[d + 2] = Within(x)
      /\ \A j \in 2 .. d + 1 : n[j] = Within(ss[Len(ss) - d + j - 1])
  <2>1. Listed(n, ss, d, Within(x))
    BY NestWaits, Zenon
  <2> QED BY <2>1, Zenon DEF Listed
<1>5. /\ m \in Seq(Words) /\ Len(m) = (d + 1) + 2 /\ m[1] = "stream" /\ m[(d + 1) + 2] = y
      /\ \A j \in 2 .. (d + 1) + 1 : m[j] = Within(t[Len(t) - (d + 1) + j - 1])
  <2>1. Listed(m, t, d + 1, y)
    BY NestWaits, Zenon DEF t
  <2> QED BY <2>1, Zenon DEF Listed
<1> HIDE DEF n, m
<1>6. /\ a \in Seq(Words) /\ Len(a) = d + 3 /\ a[d + 3] = y
      /\ \A i \in 1 .. d + 2 : a[i] = n[i]
  BY <1>0, <1>3, AppendProperties
<1> HIDE DEF a
<1>7. ASSUME NEW i \in 1 .. d + 3 PROVE m[i] = a[i]
  <2>1. CASE i = 1
    BY <1>0, <2>1, <1>3, <1>5, <1>6
  <2>2. CASE i \in 2 .. d + 1
    <3>1. i \in 1 .. d + 2 /\ i \in 2 .. (d + 1) + 1
      BY <1>0, <2>2
    <3>2. Len(t) - (d + 1) + i - 1 = Len(ss) - d + i - 1
      BY <1>0, <1>1
    <3>3. Len(ss) - d + i - 1 \in 1 .. Len(ss)
      BY <1>0, <1>1, <2>2
    <3>4. m[i] = Within(ss[Len(ss) - d + i - 1])
      BY <1>2, <1>5, <3>1, <3>2, <3>3
    <3> QED BY <1>3, <1>6, <2>2, <3>1, <3>4
  <2>3. CASE i = d + 2
    <3>1. i \in 1 .. d + 2 /\ i \in 2 .. (d + 1) + 1
      BY <1>0, <2>3
    <3>2. Len(t) - (d + 1) + i - 1 = Len(ss) + 1
      BY <1>0, <1>1, <2>3
    <3>3. m[i] = Within(x)
      BY <1>2, <1>5, <3>1, <3>2
    <3> QED BY <1>3, <1>6, <2>3, <3>1, <3>3
  <2>4. CASE i = d + 3
    BY <1>0, <2>4, <1>5, <1>6
  <2> QED BY <1>0, <2>1, <2>2, <2>3, <2>4
<1>8. m = a
  <2>1. Len(m) = Len(a) /\ Len(m) = d + 3
    BY <1>0, <1>5, <1>6
  <2> QED BY <1>5, <1>6, <1>7, <2>1, SameList
<1> QED BY <1>8 DEF m, a, n, t

(* A node without items: what waited for it waits for the next one.        *)
LEMMA NestLeaf ==
  ASSUME NEW st, NEW ss, NEW d, NEW w, Waits(st, ss, d, w),
         NEW to, Waits(to, ss, d, After(w))
  PROVE  NestOf(to, ss, d) = Complete(NestOf(st, ss, d))
<1> DEFINE n == NestOf(st, ss, d)
           m == NestOf(to, ss, d)
           c == Complete(n)
<1>0. d \in Nat /\ d + 2 \in Nat /\ d + 2 > 0
  BY DEF Waits
<1>1. /\ n \in Seq(Words) /\ Len(n) = d + 2 /\ n[1] = "stream" /\ n[d + 2] = w
      /\ \A j \in 2 .. d + 1 : n[j] = Within(ss[Len(ss) - d + j - 1])
  <2>1. Listed(n, ss, d, w)
    BY NestWaits, Zenon
  <2> QED BY <2>1, Zenon DEF Listed
<1>2. /\ m \in Seq(Words) /\ Len(m) = d + 2 /\ m[1] = "stream" /\ m[d + 2] = After(w)
      /\ \A j \in 2 .. d + 1 : m[j] = Within(ss[Len(ss) - d + j - 1])
  <2>1. Listed(m, ss, d, After(w))
    BY NestWaits, Zenon
  <2> QED BY <2>1, Zenon DEF Listed
<1> HIDE DEF n, m
<1>3. /\ c \in Seq(Words) /\ Len(c) = d + 2 /\ c[d + 2] = After(w)
      /\ \A i \in 1 .. d + 1 : c[i] = n[i]
  BY <1>0, <1>1, Completes
<1> HIDE DEF c
<1>4. ASSUME NEW i \in 1 .. d + 2 PROVE m[i] = c[i]
  <2>1. CASE i = 1
    BY <1>0, <2>1, <1>1, <1>2, <1>3
  <2>2. CASE i \in 2 .. d + 1
    BY <1>0, <2>2, <1>1, <1>2, <1>3
  <2>3. CASE i = d + 2
    BY <1>0, <2>3, <1>1, <1>2, <1>3
  <2> QED BY <1>0, <2>1, <2>2, <2>3
<1>5. m = c
  <2>1. Len(m) = Len(c) /\ Len(m) = d + 2
    BY <1>2, <1>3
  <2> QED BY <1>2, <1>3, <1>4, <2>1, SameList
<1> QED BY <1>5 DEF m, c, n

(* The end of a collection: the state that comes back stands for what      *)
(* waited for the collection, now complete.                                *)
LEMMA NestEnd ==
  ASSUME NEW st, NEW ss, NEW d \in Nat, NEW w, Waits(st, ss, d + 1, w)
  PROVE  LET n == NestOf(st, ss, d + 1)
         IN  NestOf(PopState(ss), Pop(ss), d) = Complete(SubSeq(n, 1, Len(n) - 1))
<1> DEFINE n == NestOf(st, ss, d + 1)
           o == SubSeq(n, 1, Len(n) - 1)
           c == Complete(o)
           l == PopState(ss)
           f == Pop(ss)
           m == NestOf(l, f, d)
<1>1. /\ ss \in Seq(Pushed) /\ d + 1 <= Len(ss)
      /\ Len(ss) \in Nat /\ d + 1 \in Nat /\ d + 2 \in Nat /\ d + 2 > 0
  BY LenProperties DEF Waits
<1>2. ss # << >>
  BY <1>1, EmptySeq
<1>3. /\ f \in Seq(Pushed) /\ Len(f) = Len(ss) - 1 /\ l = ss[Len(ss)] /\ l \in Pushed
      /\ \A i \in 1 .. Len(ss) - 1 : f[i] = ss[i]
  BY <1>1, <1>2, Popped, Zenon
<1> HIDE DEF l, f
<1>4. /\ l \in (Inside \cup Outside) \ Idle /\ Waiting(l) = <<After(Within(l))>>
      /\ After(Within(l)) \in Words
  BY <1>3 DEF Pushed, Inside, Outside, Idle, Waiting, Within, After, Words
<1>5. d <= Len(f) /\ Len(f) \in Nat
  BY <1>1, <1>3
<1>6. /\ m \in Seq(Words) /\ Len(m) = d + 2 /\ m[1] = "stream" /\ m[d + 2] = After(Within(l))
      /\ \A j \in 2 .. d + 1 : m[j] = Within(f[Len(f) - d + j - 1])
  <2>1. Listed(m, f, d, After(Within(l)))
    <3>1. Waits(l, f, d, After(Within(l)))
      BY <1>3, <1>4, <1>5, Zenon DEF Waits
    <3> QED BY <3>1, NestWaits, Zenon
  <2> QED BY <2>1, Zenon DEF Listed
<1> HIDE DEF m
<1>7. /\ n \in Seq(Words) /\ Len(n) = (d + 1) + 2 /\ n[1] = "stream"
      /\ \A j \in 2 .. (d + 1) + 1 : n[j] = Within(ss[Len(ss) - (d + 1) + j - 1])
  <2>1. Listed(n, ss, d + 1, w)
    BY NestWaits, Zenon
  <2> QED BY <2>1, Zenon DEF Listed
<1> HIDE DEF n
<1>8. Len(n) = (d + 2) + 1
  BY <1>7
<1>9. o \in Seq(Words) /\ Len(o) = d + 2 /\ \A i \in 1 .. d + 2 : o[i] = n[i]
  BY <1>1, <1>7, <1>8, Outers, Zenon
<1> HIDE DEF o
<1>10. /\ c \in Seq(Words) /\ Len(c) = d + 2 /\ c[d + 2] = After(o[d + 2])
       /\ \A i \in 1 .. (d + 2) - 1 : c[i] = o[i]
  BY <1>1, <1>9, Completes, Zenon
<1> HIDE DEF c
<1>11. ASSUME NEW i \in 1 .. d + 2 PROVE m[i] = c[i]
  <2>1. CASE i = 1
    BY <2>1, <1>6, <1>7, <1>9, <1>10
  <2>2. CASE i \in 2 .. d + 1
    <3>1. /\ i \in 1 .. (d + 2) - 1 /\ i \in 1 .. d + 2 /\ i \in 2 .. (d + 1) + 1
          /\ Len(ss) - (d + 1) + i - 1 = Len(f) - d + i - 1
          /\ Len(f) - d + i - 1 \in 1 .. Len(ss) - 1
      BY <1>1, <1>3, <1>5, <2>2
    <3>2. c[i] = Within(ss[Len(f) - d + i - 1])
      BY <1>7, <1>9, <1>10, <3>1, Zenon
    <3> QED BY <1>3, <1>6, <2>2, <3>1, <3>2, Zenon
  <2>3. CASE i = d + 2
    <3>1. d + 2 \in 1 .. d + 2 /\ d + 2 \in 2 .. (d + 1) + 1 /\ Len(ss) - (d + 1) + (d + 2) - 1 = Len(ss)
      BY <1>1
    <3>2. o[d + 2] = Within(l)
      BY <1>3, <1>7, <1>9, <3>1
    <3> QED BY <1>6, <1>10, <2>3, <3>2
  <2> QED BY <2>1, <2>2, <2>3
<1>12. m = c
  <2>1. Len(m) = Len(c) /\ Len(m) = d + 2
    BY <1>6, <1>10
  <2> QED BY <1>6, <1>10, <1>11, <2>1, SameList
<1> QED BY <1>12 DEF m, c, o, n, l, f

(* A document starts and ends.                                             *)
LEMMA Grown ==
  /\ Append(<<"stream">>, "root") = <<"stream", "root">>
  /\ SubSeq(<<"stream", "done">>, 1, 2 - 1) = <<"stream">>
<1> DEFINE a == <<"stream">>
           b == <<"stream", "root">>
           c == <<"stream", "done">>
           p == Append(a, "root")
           q == SubSeq(c, 1, Len(c) - 1)
<1>0. "stream" \in Words /\ "root" \in Words /\ "done" \in Words
  BY DEF Words
<1>1. a \in Seq(Words) /\ Len(a) = 1 /\ a[1] = "stream"
  BY <1>0
<1>2. b \in Seq(Words) /\ Len(b) = 2 /\ b[1] = "stream" /\ b[2] = "root"
  BY <1>0
<1>3. c \in Seq(Words) /\ Len(c) = 1 + 1 /\ c[1] = "stream"
  BY <1>0
<1>7. 2 - 1 = Len(c) - 1
  BY <1>3
<1> HIDE DEF a, b, c
<1>4. p \in Seq(Words) /\ Len(p) = 2 /\ p[1] = "stream" /\ p[2] = "root"
  <2>1. /\ p \in Seq(Words) /\ Len(p) = Len(a) + 1
        /\ (\A i \in 1 .. Len(a) : p[i] = a[i]) /\ p[Len(a) + 1] = "root"
    <3>1. a \in Seq(Words) /\ "root" \in Words
      BY <1>0, <1>1, Zenon
    <3> QED BY <3>1, AppendProperties
  <2> HIDE DEF p
  <2> QED BY <1>1, <2>1
<1>5. q \in Seq(Words) /\ Len(q) = 1 /\ q[1] = "stream"
  BY <1>3, Outers
<1> HIDE DEF p, q
<1>6. p = b /\ q = a
  <2>1. (\A i \in 1 .. 2 : p[i] = b[i]) /\ (\A i \in 1 .. 1 : q[i] = a[i])
    BY <1>1, <1>2, <1>4, <1>5
  <2> QED BY <1>1, <1>2, <1>4, <1>5, <2>1, SameList
<1> QED BY <1>6, <1>7 DEF p, q, a, b, c

(* What is open outside of the root.                                       *)
LEMMA NestOutside ==
  ASSUME NEW ss
  PROVE  /\ \A st \in Idle : NestOf(st, ss, 0) = << >>
         /\ NestOf("FIRST_DOCUMENT_START", ss, 0) = <<"stream">>
         /\ NestOf("DOCUMENT_START", ss, 0) = <<"stream">>
         /\ NestOf("DOCUMENT_CONTENT", ss, 0) = <<"stream", "root">>
         /\ NestOf("DOCUMENT_END", ss, 0) = <<"stream", "done">>
<1>1. [i \in 1 .. 0 |-> Within(ss[Len(ss) - 0 + i])] = << >>
  OBVIOUS
<1>2. \A st \in Outside \ Idle : NestOf(st, ss, 0) = <<"stream">> \o Waiting(st)
  BY <1>1 DEF NestOf
<1>3. /\ \A st \in Idle : NestOf(st, ss, 0) = << >>
  BY DEF NestOf
<1>4. /\ Waiting("FIRST_DOCUMENT_START") = << >> /\ Waiting("DOCUMENT_START") = << >>
      /\ Waiting("DOCUMENT_CONTENT") = <<"root">> /\ Waiting("DOCUMENT_END") = <<"done">>
  BY DEF Waiting
<1>5. /\ <<"stream">> \o << >> = <<"stream">> /\ <<"stream">> \o <<"root">> = <<"stream", "root">>
      /\ <<"stream">> \o <<"done">> = <<"stream", "done">>
  <2>1. "stream" \in Words /\ "root" \in Words /\ "done" \in Words
    BY DEF Words
  <2> QED BY <2>1, Joined, Zenon
<1>6. {"FIRST_DOCUMENT_START", "DOCUMENT_START", "DOCUMENT_CONTENT", "DOCUMENT_END"}
        \subseteq Outside \ Idle
  BY DEF Outside, Idle
<1> QED BY <1>2, <1>3, <1>4, <1>5, <1>6, Zenon

-----------------------------------------------------------------------------
(* A node that opens a collection pushes its state and a context.          *)
LEMMA StacksPush ==
  ASSUME NEW st, NEW ss, NEW cs, StacksOK(st, ss, cs), NEW to \in Inside,
         NEW x \in Pushed, x = "DOCUMENT_END" <=> Len(cs) = 0, NEW c \in Context
  PROVE  StacksOK(to, Append(ss, x), Append(cs, c))
<1> DEFINE t == Append(ss, x)
           u == Append(cs, c)
<1>1. /\ ss \in Seq(Pushed) /\ cs \in Seq(Context) /\ Len(cs) <= Len(ss)
      /\ \A i \in 1 .. Len(ss) : ss[i] = "DOCUMENT_END" <=> i <= Len(ss) - Len(cs) + 1
      /\ Len(ss) \in Nat /\ Len(cs) \in Nat
  BY LenProperties DEF StacksOK
<1>2. /\ t \in Seq(Pushed) /\ Len(t) = Len(ss) + 1 /\ t[Len(ss) + 1] = x
      /\ \A i \in 1 .. Len(ss) : t[i] = ss[i]
  BY <1>1, AppendProperties
<1>3. u \in Seq(Context) /\ Len(u) = Len(cs) + 1
  BY <1>1, AppendProperties
<1> HIDE DEF t, u
<1>4. ASSUME NEW i \in 1 .. Len(t)
      PROVE  t[i] = "DOCUMENT_END" <=> i <= Len(t) - Len(u) + 1
  <2>1. Len(t) - Len(u) + 1 = Len(ss) - Len(cs) + 1
    BY <1>1, <1>2, <1>3
  <2>2. CASE i \in 1 .. Len(ss)
    BY <1>1, <1>2, <2>1, <2>2
  <2>3. CASE i = Len(ss) + 1
    BY <1>1, <1>2, <2>1, <2>3
  <2> QED BY <1>1, <1>2, <2>2, <2>3
<1>5. to \in Inside \cup Outside /\ Len(u) <= Len(t) /\ Len(u) > 0
  BY <1>1, <1>2, <1>3
<1> QED BY <1>2, <1>3, <1>4, <1>5 DEF StacksOK, t, u

(* The end of a collection pops one of each; the state that comes back is  *)
(* that of a collection if one is still open.                              *)
LEMMA StacksPop ==
  ASSUME NEW st, NEW ss, NEW cs, StacksOK(st, ss, cs), st \in Inside
  PROVE  /\ StacksOK(PopState(ss), Pop(ss), Front(cs))
         /\ cs # << >> /\ Last(cs) \in Context
         /\ Len(Front(cs)) \in Nat /\ Len(cs) = Len(Front(cs)) + 1
<1>1. /\ ss \in Seq(Pushed) /\ cs \in Seq(Context) /\ Len(cs) <= Len(ss)
      /\ \A i \in 1 .. Len(ss) : ss[i] = "DOCUMENT_END" <=> i <= Len(ss) - Len(cs) + 1
      /\ Len(ss) \in Nat /\ Len(cs) \in Nat /\ Len(cs) > 0
  BY LenProperties DEF StacksOK
<1>2. ss # << >> /\ cs # << >>
  BY <1>1, EmptySeq
<1> DEFINE l == PopState(ss)
           f == Pop(ss)
           g == Front(cs)
<1>3. /\ f \in Seq(Pushed) /\ Len(f) = Len(ss) - 1 /\ l = ss[Len(ss)] /\ l \in Pushed
      /\ \A i \in 1 .. Len(ss) - 1 : f[i] = ss[i]
  BY <1>1, <1>2, Popped, Zenon
<1>4. g \in Seq(Context) /\ Len(g) = Len(cs) - 1 /\ Last(cs) \in Context
  BY <1>1, <1>2, Popped, Zenon
<1> HIDE DEF l, f, g
<1>5. l = "DOCUMENT_END" <=> Len(g) = 0
  <2>1. Len(ss) \in 1 .. Len(ss)
    BY <1>1
  <2>2. l = "DOCUMENT_END" <=> Len(ss) <= Len(ss) - Len(cs) + 1
    BY <1>1, <1>3, <2>1
  <2>3. ASSUME NEW a \in Nat, NEW b \in Nat, b > 0, NEW k, k = b - 1
        PROVE  a <= a - b + 1 <=> k = 0
    BY <2>3
  <2>4. Len(ss) <= Len(ss) - Len(cs) + 1 <=> Len(g) = 0
    BY <1>1, <1>4, <2>3, Zenon
  <2> QED BY <2>2, <2>4, Zenon
<1>6. l \in Inside \cup Outside /\ (l \in Inside <=> l # "DOCUMENT_END")
  BY <1>3 DEF Pushed, Inside, Outside
<1>7. ASSUME NEW i \in 1 .. Len(f)
      PROVE  f[i] = "DOCUMENT_END" <=> i <= Len(f) - Len(g) + 1
  <2>1. i \in 1 .. Len(ss) /\ i \in 1 .. Len(ss) - 1 /\ Len(f) - Len(g) + 1 = Len(ss) - Len(cs) + 1
    BY <1>1, <1>3, <1>4
  <2> QED BY <1>1, <1>3, <2>1
<1>8. Len(g) <= Len(f) /\ Len(g) \in Nat /\ Len(cs) = Len(g) + 1
  BY <1>1, <1>3, <1>4
<1>9. l \in Inside <=> Len(g) > 0
  BY <1>5, <1>6, <1>8
<1>10. StacksOK(l, f, g)
  BY <1>3, <1>4, <1>6, <1>7, <1>8, <1>9 DEF StacksOK
<1> QED BY <1>2, <1>4, <1>8, <1>10 DEF l, f, g

(* A node without items comes back to the state just pushed.               *)
LEMMA StacksLeaf ==
  ASSUME NEW st, NEW ss, NEW cs, StacksOK(st, ss, cs),
         NEW x \in Pushed, x = "DOCUMENT_END" <=> Len(cs) = 0
  PROVE  StacksOK(x, ss, cs)
<1>1. x \in Inside \cup Outside /\ (x \in Inside <=> x # "DOCUMENT_END")
  BY DEF Pushed, Inside, Outside
<1>2. Len(cs) \in Nat
  BY LenProperties DEF StacksOK
<1> QED BY <1>1, <1>2 DEF StacksOK

(* A prolog leaves a context a context.                                    *)
LEMMA PrologType ==
  ASSUME NEW sc \in Context, flow_level \in Int
  PROVE  Prolog(sc) \in Context
<1>1. IndentWidth \in Int
  BY EmitterAssumption
<1>2. \A flow \in BOOLEAN, i \in Int : IncreaseIndent(flow, i) \in Int
  BY <1>1 DEF IncreaseIndent
<1>3. FlowLayout(sc) \in BOOLEAN /\ sc.flow \in BOOLEAN /\ sc.indent \in Int
  BY Zenon DEF FlowLayout, Context
<1>4. ASSUME NEW flow \in BOOLEAN, NEW flags \in BOOLEAN, NEW indent \in Int
      PROVE  [sc EXCEPT !.flow = flow, !.flags = flags, !.indent = indent] \in Context
  BY Zenon DEF Context
<1> DEFINE flow    == IF JsonMode THEN sc.flow ELSE FlowLayout(sc)
           outer   == IF ~JsonMode /\ flow /\ flow_level = 0
                      THEN IncreaseIndent(FALSE, sc.indent) ELSE sc.indent
           flags   == flow \/ JsonMode
           deepens == ~OneLineMode /\ ~(sc.kind = "map" /\ sc.empty)
<1>5. flow \in BOOLEAN
  BY <1>3
<1>6. flags \in BOOLEAN
  OBVIOUS
<1>7. outer \in Int
  BY <1>2, <1>3, Zenon
<1> DEFINE indent == IF deepens THEN IncreaseIndent(flags, outer) ELSE outer
<1>8. indent \in Int
  <2> HIDE DEF flags, outer, deepens
  <2> QED BY <1>2, <1>6, <1>7
<1>9. Prolog(sc) = [sc EXCEPT !.flow = flow, !.flags = flags, !.indent = indent]
  BY DEF Prolog
<1> HIDE DEF flow, outer, flags, deepens, indent
<1> QED BY <1>4, <1>5, <1>6, <1>8, <1>9, Zenon

(* What an open list waits for.                                            *)
LEMMA WantsIs ==
  ASSUME Struct, state \notin Idle, NEW w \in Words, Waiting(state) = <<w>>
  PROVE  /\ Open \in Seq(Words) /\ Open # << >> /\ Open[Len(Open)] = w
         /\ Len(Open) = Len(sc_stack) + 2
<1>1. /\ state \in (Inside \cup Outside) \ Idle /\ state_stack \in Seq(Pushed)
      /\ Len(sc_stack) \in Nat /\ Len(sc_stack) <= Len(state_stack)
  BY LenProperties DEF Struct, StacksOK
<1>2. Listed(Open, state_stack, Len(sc_stack), w)
  <2>1. Waits(state, state_stack, Len(sc_stack), w)
    BY <1>1, Zenon DEF Waits
  <2> QED BY <2>1, NestWaits, Zenon DEF Open
<1> QED BY <1>2, Zenon DEF Listed

(* A node, written where one is waited for.                                *)
LEMMA NodeStep ==
  ASSUME Struct, NEW x \in Pushed, x = "DOCUMENT_END" <=> Len(sc_stack) = 0,
         state \notin Idle, NEW w \in {"root", "seq", "key", "val"},
         Waiting(state) = <<w>>, w = Within(x),
         NEW e, NEW flags \in BOOLEAN, NEW indent \in Int, NEW rest,
         StreamingNode(e, Append(state_stack, x), flags, indent, rest)
  PROVE  Struct' /\ Follows(e.type, Open, Open')
<1>1. /\ state \in (Inside \cup Outside) \ Idle /\ state_stack \in Seq(Pushed)
      /\ Len(sc_stack) \in Nat /\ Len(sc_stack) <= Len(state_stack)
      /\ StacksOK(state, state_stack, sc_stack) /\ sc_stack \in Seq(Context)
      /\ s_sc \in Context /\ flow_level \in Int
  BY LenProperties DEF Struct, StacksOK
<1>2. w \in Words
  BY DEF Words
<1>3. Open # << >> /\ Open[Len(Open)] = w
  BY <1>2, WantsIs
<1>4. Wants(Open)
  BY <1>3 DEF Wants
<1>5. CASE e.type \in {"SCALAR", "ALIAS"}
  <2>1. LeafNode(Append(state_stack, x)) /\ s_indent' = indent
    BY <1>5 DEF StreamingNode
  <2>2. /\ state' = x /\ state_stack' = state_stack
        /\ s_sc' = s_sc /\ sc_stack' = sc_stack /\ flow_level' = flow_level
    BY <1>1, <2>1, PushPop, Zenon DEF LeafNode
  <2>3. Struct'
    <3>1. StacksOK(x, state_stack, sc_stack)
      BY <1>1, StacksLeaf
    <3> QED BY <1>1, <2>1, <2>2, <3>1, Zenon DEF Struct
  <2>4. /\ x \in (Inside \cup Outside) \ Idle /\ Waiting(x) = <<After(w)>>
        /\ After(w) \in Words
    BY DEF Pushed, Inside, Outside, Idle, Waiting, Within, After, Words
  <2>5. Open' = Complete(Open)
    <3>1. NestOf(x, state_stack, Len(sc_stack))
            = Complete(NestOf(state, state_stack, Len(sc_stack)))
      <4>1. /\ Waits(state, state_stack, Len(sc_stack), w)
            /\ Waits(x, state_stack, Len(sc_stack), After(w))
        BY <1>1, <1>2, <2>4, Zenon DEF Waits
      <4> QED BY <4>1, NestLeaf, SMT
    <3> QED BY <2>2, <3>1 DEF Open
  <2> QED BY <1>4, <1>5, <2>3, <2>5 DEF Follows
<1>6. CASE e.type \in {"SEQUENCE_START", "MAPPING_START"}
  <2> DEFINE seq == e.type = "SEQUENCE_START"
             to  == IF seq THEN "SEQUENCE_FIRST_ITEM" ELSE "MAPPING_FIRST_KEY"
             y   == IF seq THEN "seq" ELSE "key"
             new == [kind |-> IF seq THEN "seq" ELSE "map",
                     flow |-> flags, flags |-> FALSE,
                     empty |-> StreamingEmpty(rest, IF seq THEN "SEQUENCE_END"
                                                           ELSE "MAPPING_END"),
                     flow_token |-> e.mark = "flow",
                     indent |-> indent, s_indent |-> indent]
             sc  == Prolog(new)
  <2>1. CollectionNode(e, Append(state_stack, x), flags, indent, rest)
    BY <1>6 DEF StreamingNode
  <2>2. /\ sc_stack' = Append(sc_stack, s_sc) /\ s_sc' = sc /\ s_indent' = sc.indent
        /\ flow_level' = flow_level + (IF Bracketed(sc) THEN 1 ELSE 0)
        /\ state' = to /\ state_stack' = Append(state_stack, x)
    BY <2>1 DEF CollectionNode
  <2>3. new \in Context
    <3>1. StreamingEmpty(rest, IF seq THEN "SEQUENCE_END" ELSE "MAPPING_END") \in BOOLEAN
      BY DEF StreamingEmpty
    <3>2. (e.mark = "flow") \in BOOLEAN /\ (IF seq THEN "seq" ELSE "map") \in {"none", "seq", "map"}
      OBVIOUS
    <3> QED BY <3>1, <3>2 DEF Context
  <2> HIDE DEF new
  <2>4. sc \in Context
    BY <1>1, <2>3, PrologType
  <2> HIDE DEF sc
  <2>5. /\ to \in Inside /\ to \in (Inside \cup Outside) \ Idle
        /\ Waiting(to) = <<y>> /\ y \in Words
    BY DEF Inside, Outside, Idle, Waiting, Words
  <2>9. \/ e.type = "SEQUENCE_START" /\ y = "seq"
        \/ e.type = "MAPPING_START" /\ y = "key"
    BY <1>6
  <2> HIDE DEF y, to
  <2>6. Struct'
    <3>1. StacksOK(to, Append(state_stack, x), Append(sc_stack, s_sc))
      BY <1>1, <2>5, StacksPush, Zenon
    <3>2. sc.indent \in Int /\ flow_level' \in Int
      BY <1>1, <2>2, <2>4 DEF Context
    <3> QED BY <2>2, <2>4, <3>1, <3>2, Zenon DEF Struct
  <2>7. Len(sc_stack') = Len(sc_stack) + 1
    BY <1>1, <2>2, AppendProperties
  <2>8. Open' = Append(Open, y)
    <3>1. NestOf(to, Append(state_stack, x), Len(sc_stack) + 1)
            = Append(NestOf(state, state_stack, Len(sc_stack)), y)
      <4>1. Waits(state, state_stack, Len(sc_stack), Within(x))
        BY <1>1, <1>2, Zenon DEF Waits
      <4>2. /\ Append(state_stack, x) \in Seq(Pushed) /\ Len(sc_stack) + 1 \in Nat
            /\ Len(sc_stack) + 1 <= Len(Append(state_stack, x))
        BY <1>1, AppendProperties
      <4>3. Waits(to, Append(state_stack, x), Len(sc_stack) + 1, y)
        BY <2>5, <4>2, Zenon DEF Waits
      <4> QED BY <4>1, <4>3, NestPush, SMT
    <3> QED BY <2>2, <2>7, <3>1, Zenon DEF Open
  <2> QED BY <1>4, <2>6, <2>8, <2>9 DEF Follows
<1> QED BY <1>5, <1>6 DEF StreamingNode

(* The end of the collection that is open.                                 *)
LEMMA EndStep ==
  ASSUME Struct, state \in Inside, NEW type, EndCollection,
         \/ type = "SEQUENCE_END" /\ Waiting(state) = <<"seq">>
         \/ type = "MAPPING_END" /\ Waiting(state) = <<"key">>
  PROVE  Struct' /\ Follows(type, Open, Open')
<1>1. PICK w \in Words : /\ Waiting(state) = <<w>>
                         /\ \/ type = "SEQUENCE_END" /\ w = "seq"
                            \/ type = "MAPPING_END" /\ w = "key"
  BY DEF Words
<1>2. /\ state \in (Inside \cup Outside) \ Idle /\ state_stack \in Seq(Pushed)
      /\ Len(sc_stack) \in Nat /\ Len(sc_stack) <= Len(state_stack)
      /\ StacksOK(state, state_stack, sc_stack) /\ flow_level \in Int
  BY LenProperties DEF Struct, StacksOK, Inside, Idle
<1>3. /\ StacksOK(PopState(state_stack), Pop(state_stack), Front(sc_stack))
      /\ Last(sc_stack) \in Context
      /\ Len(Front(sc_stack)) \in Nat /\ Len(sc_stack) = Len(Front(sc_stack)) + 1
  BY <1>2, StacksPop, Zenon
<1>4. /\ s_sc' = Last(sc_stack) /\ sc_stack' = Front(sc_stack)
      /\ state' = PopState(state_stack) /\ state_stack' = Pop(state_stack)
      /\ s_indent' = Last(sc_stack).s_indent
      /\ flow_level' = flow_level - (IF Bracketed(s_sc) THEN 1 ELSE 0)
  BY DEF EndCollection
<1>5. Last(sc_stack).s_indent \in Int /\ flow_level' \in Int
  BY <1>2, <1>3, <1>4 DEF Context
<1>6. Struct'
  BY <1>3, <1>4, <1>5, Zenon DEF Struct
<1>7. Open # << >> /\ Open[Len(Open)] = w
  BY <1>1, <1>2, WantsIs
<1>8. Open' = Complete(SubSeq(Open, 1, Len(Open) - 1))
  <2> DEFINE d == Len(Front(sc_stack))
  <2>1. d + 1 <= Len(state_stack)
    BY <1>2, <1>3
  <2> HIDE DEF d
  <2>2. NestOf(PopState(state_stack), Pop(state_stack), d)
          = Complete(SubSeq(NestOf(state, state_stack, d + 1), 1,
                            Len(NestOf(state, state_stack, d + 1)) - 1))
    <3>1. d \in Nat /\ d + 1 \in Nat
      BY <1>3 DEF d
    <3>2. Waits(state, state_stack, d + 1, w)
      BY <1>1, <1>2, <2>1, <3>1, Zenon DEF Waits
    <3> QED BY <3>1, <3>2, NestEnd, Zenon
  <2> QED BY <1>3, <1>4, <2>2, Zenon DEF Open, d
<1> QED BY <1>1, <1>6, <1>7, <1>8 DEF Follows

(* Every handler keeps the stacks in order and acts on an event that       *)
(* EventStream allows.                                                     *)
LEMMA HandleStep ==
  ASSUME Struct, NEW e, NEW rest, Handle(e, rest)
  PROVE  Struct' /\ Follows(e.type, Open, Open')
<1>1. /\ StacksOK(state, state_stack, sc_stack) /\ sc_stack \in Seq(Context)
      /\ state_stack \in Seq(Pushed) /\ s_sc \in Context /\ s_indent \in Int /\ flow_level \in Int
      /\ s_sc.flags \in BOOLEAN /\ s_sc.indent \in Int
      /\ Len(sc_stack) \in Nat /\ (state \in Inside <=> Len(sc_stack) > 0)
  BY LenProperties DEF Struct, StacksOK, Context
<1>2. state \notin Inside => Len(sc_stack) = 0 /\ sc_stack = << >>
  BY <1>1, EmptySeq
<1>3. StacksOK("FIRST_DOCUMENT_START", << >>, << >>) /\ StacksOK("DOCUMENT_START", << >>, << >>)
  BY DEF StacksOK, Inside, Outside
<1>4. ASSUME state \notin Inside, NEW to \in Outside,
             state' = to, state_stack' = state_stack, sc_stack' = sc_stack,
             s_sc' = s_sc, s_indent' = s_indent, flow_level' = flow_level
      PROVE  Struct'
  <2>1. to \notin Inside /\ to \in Inside \cup Outside
    BY DEF Inside, Outside
  <2> QED BY <1>1, <1>4, <2>1 DEF Struct, StacksOK
<1>5. CASE HandleStreamStart(e)
  <2>1. /\ state = "STREAM_START" /\ e.type = "STREAM_START" /\ state' = "FIRST_DOCUMENT_START"
        /\ state_stack' = << >> /\ sc_stack' = << >> /\ flow_level' = 0 /\ s_indent' = -1
        /\ s_sc' = s_sc
    BY <1>5 DEF HandleStreamStart, Reset
  <2>2. Struct'
    BY <1>1, <1>3, <2>1 DEF Struct
  <2>3. Open = << >> /\ Open' = <<"stream">>
    <3>1. Open = << >>
      BY <2>1 DEF Open, NestOf, Idle
    <3>2. Len(<< >>) = 0
      OBVIOUS
    <3> QED BY <2>1, <3>1, <3>2, NestOutside, Zenon DEF Open
  <2> QED BY <2>1, <2>2, <2>3 DEF Follows
<1>6. CASE HandleDocumentStart(e)
  <2>1. /\ state \in {"FIRST_DOCUMENT_START", "DOCUMENT_START"}
        /\ state_stack' = state_stack /\ sc_stack' = sc_stack
        /\ s_sc' = s_sc /\ s_indent' = s_indent /\ flow_level' = flow_level
        /\ \/ e.type = "STREAM_END" /\ state' = "END"
           \/ e.type = "DOCUMENT_START" /\ state' = "DOCUMENT_CONTENT"
    BY <1>6 DEF HandleDocumentStart
  <2>2. state \notin Inside
    BY <2>1 DEF Inside
  <2>3. Struct'
    BY <1>4, <2>1, <2>2 DEF Outside
  <2>4. Open = <<"stream">>
    BY <1>2, <2>1, <2>2, NestOutside DEF Open
  <2>5. state' = "END" => Open' = << >>
    BY DEF Open, NestOf, Idle
  <2>6. state' = "DOCUMENT_CONTENT" => Open' = <<"stream", "root">>
    BY <1>2, <2>1, <2>2, NestOutside DEF Open
  <2>7. Append(<<"stream">>, "root") = <<"stream", "root">>
    BY Grown
  <2>8. <<"stream">> # << >> /\ <<"stream">>[Len(<<"stream">>)] = "stream"
    OBVIOUS
  <2> QED BY <2>1, <2>3, <2>4, <2>5, <2>6, <2>7, <2>8, Zenon DEF Follows
<1>7. CASE HandleDocumentContent(e, rest)
  <2>1. /\ state = "DOCUMENT_CONTENT"
        /\ StreamingNode(e, Append(state_stack, "DOCUMENT_END"), FALSE, s_indent, rest)
    BY <1>7, Zenon DEF HandleDocumentContent
  <2>2. /\ state \notin Inside /\ state \notin Idle /\ Waiting(state) = <<"root">>
        /\ Within("DOCUMENT_END") = "root" /\ "DOCUMENT_END" \in Pushed
    BY <2>1 DEF Inside, Idle, Waiting, Within, Pushed
  <2> QED BY <1>1, <1>2, <2>1, <2>2, NodeStep, Zenon
<1>8. CASE HandleDocumentEnd(e)
  <2>1. /\ state = "DOCUMENT_END" /\ e.type = "DOCUMENT_END" /\ state' = "DOCUMENT_START"
        /\ state_stack' = << >> /\ sc_stack' = << >> /\ flow_level' = 0 /\ s_indent' = -1
        /\ s_sc' = s_sc
    BY <1>8 DEF HandleDocumentEnd, Reset
  <2>2. Struct'
    BY <1>1, <1>3, <2>1 DEF Struct
  <2>3. state \notin Inside
    BY <2>1 DEF Inside
  <2>4. Open = <<"stream", "done">>
    BY <1>2, <2>1, <2>3, NestOutside DEF Open
  <2>5. Open' = <<"stream">>
    <3>1. Len(<< >>) = 0
      OBVIOUS
    <3> QED BY <2>1, <3>1, NestOutside, Zenon DEF Open
  <2>6. /\ Len(<<"stream", "done">>) = 2 /\ <<"stream", "done">>[2] = "done"
        /\ <<"stream", "done">> # << >>
    OBVIOUS
  <2>7. SubSeq(<<"stream", "done">>, 1, 2 - 1) = <<"stream">>
    BY Grown
  <2> QED BY <2>1, <2>2, <2>4, <2>5, <2>6, <2>7 DEF Follows
<1>9. CASE HandleSequenceItem(e, rest)
  <2>1. /\ state \in Inside /\ state \notin Idle /\ Waiting(state) = <<"seq">>
        /\ Within("SEQUENCE_ITEM") = "seq" /\ "SEQUENCE_ITEM" \in Pushed
    BY <1>9 DEF HandleSequenceItem, Inside, Idle, Waiting, Within, Pushed
  <2>2. CASE e.type = "SEQUENCE_END" /\ EndCollection
    BY <2>1, <2>2, EndStep
  <2>3. CASE StreamingNode(e, Append(state_stack, "SEQUENCE_ITEM"), s_sc.flags, s_sc.indent, rest)
    <3>1. "SEQUENCE_ITEM" = "DOCUMENT_END" <=> Len(sc_stack) = 0
      BY <1>1, <2>1
    <3>2. "seq" \in {"root", "seq", "key", "val"}
      OBVIOUS
    <3> QED BY <1>1, <2>1, <2>3, <3>1, <3>2, NodeStep, Zenon
  <2> QED BY <1>9, <2>2, <2>3 DEF HandleSequenceItem
<1>10. CASE HandleMappingKey(e, rest)
  <2>1. /\ state \in Inside /\ state \notin Idle /\ Waiting(state) = <<"key">>
        /\ Within("MAPPING_VALUE") = "key" /\ "MAPPING_VALUE" \in Pushed
    BY <1>10 DEF HandleMappingKey, Inside, Idle, Waiting, Within, Pushed
  <2>2. CASE e.type = "MAPPING_END" /\ EndCollection
    BY <2>1, <2>2, EndStep
  <2>3. CASE StreamingNode(e, Append(state_stack, "MAPPING_VALUE"), s_sc.flags, s_sc.indent, rest)
    <3>1. "MAPPING_VALUE" = "DOCUMENT_END" <=> Len(sc_stack) = 0
      BY <1>1, <2>1
    <3>2. "key" \in {"root", "seq", "key", "val"}
      OBVIOUS
    <3> QED BY <1>1, <2>1, <2>3, <3>1, <3>2, NodeStep, Zenon
  <2> QED BY <1>10, <2>2, <2>3 DEF HandleMappingKey
<1>11. CASE HandleMappingValue(e, rest)
  <2>1. /\ state \in Inside /\ state \notin Idle /\ Waiting(state) = <<"val">>
        /\ Within("MAPPING_KEY") = "val" /\ "MAPPING_KEY" \in Pushed
    BY <1>11 DEF HandleMappingValue, Inside, Idle, Waiting, Within, Pushed
  <2>3. StreamingNode(e, Append(state_stack, "MAPPING_KEY"), s_sc.flags, s_indent, rest)
    BY <1>11 DEF HandleMappingValue
  <2>4. "MAPPING_KEY" = "DOCUMENT_END" <=> Len(sc_stack) = 0
    BY <1>1, <2>1
  <2>5. "val" \in {"root", "seq", "key", "val"}
    OBVIOUS
  <2> QED BY <1>1, <2>1, <2>3, <2>4, <2>5, NodeStep, Zenon
<1> QED BY <1>5, <1>6, <1>7, <1>8, <1>9, <1>10, <1>11 DEF Handle

-----------------------------------------------------------------------------
(* What the steps of the emitter do to the stacks, and the event they are  *)
(* about: one that EventStream allows, or none.                            *)
LEMMA StepStruct ==
  ASSUME Struct, Next
  PROVE  /\ Struct'
         /\ Follows(event', Open, Open') \/ (event' = "NONE" /\ Open' = Open)
<1>1. ASSUME UNCHANGED <<state_stack, s_indent, s_sc, sc_stack, flow_level>>,
             state' = state \/ (state = "NONE" /\ state' = "STREAM_START")
      PROVE  Struct' /\ Open' = Open
  <2>1. CASE state' = state
    BY <1>1, <2>1 DEF Struct, Open
  <2>2. CASE state = "NONE" /\ state' = "STREAM_START"
    <3>1. StacksOK("STREAM_START", state_stack, sc_stack)
      BY <2>2 DEF Struct, StacksOK, Inside, Outside
    <3> QED BY <1>1, <2>2, <3>1 DEF Struct, Open, NestOf, Idle
  <2> QED BY <1>1, <2>1, <2>2
<1>2. CASE Submit
  BY <1>1, <1>2 DEF Submit
<1>3. CASE Act
  <2> DEFINE e == Head(queued_events)
             rest == Tail(queued_events)
  <2>1. CASE Handle(e, rest) /\ event' = e.type
    <3> HIDE DEF e, rest
    <3> QED BY <2>1, HandleStep
  <2>2. CASE Refused(e) /\ event' = "NONE"
    <3>1. /\ UNCHANGED <<state, s_indent, s_sc, sc_stack, flow_level>>
          /\ state_stack' = IF state = "DOCUMENT_CONTENT"
                            THEN Append(state_stack, "DOCUMENT_END") ELSE state_stack
      BY <2>2 DEF Refused
    <3>2. CASE state # "DOCUMENT_CONTENT"
      BY <1>1, <2>2, <3>1, <3>2
    <3>3. CASE state = "DOCUMENT_CONTENT"
      <4> DEFINE t == Append(state_stack, "DOCUMENT_END")
      <4>1. /\ state_stack \in Seq(Pushed) /\ "DOCUMENT_END" \in Pushed
            /\ state_stack' = t /\ sc_stack' = sc_stack
            /\ Len(sc_stack) = 0 /\ Len(state_stack) \in Nat /\ state \in Outside /\ state \notin Inside
            /\ sc_stack \in Seq(Context)
            /\ \A i \in 1 .. Len(state_stack) : state_stack[i] = "DOCUMENT_END"
        BY <3>1, <3>3, LenProperties DEF Struct, StacksOK, Pushed, Inside, Outside
      <4>2. /\ t \in Seq(Pushed) /\ Len(t) = Len(state_stack) + 1
            /\ t[Len(state_stack) + 1] = "DOCUMENT_END"
            /\ \A i \in 1 .. Len(state_stack) : t[i] = state_stack[i]
        BY <4>1, AppendProperties
      <4> HIDE DEF t
      <4>3. \A i \in 1 .. Len(t) : t[i] = "DOCUMENT_END" /\ i <= Len(t) - Len(sc_stack) + 1
        BY <4>1, <4>2
      <4>4. StacksOK(state, t, sc_stack)
        BY <4>1, <4>2, <4>3 DEF StacksOK
      <4>5. Struct'
        BY <3>1, <4>1, <4>4, Zenon DEF Struct
      <4>6. Open' = Open
        <5>1. Open = <<"stream", "root">>
          BY <3>3, <4>1, NestOutside DEF Open
        <5>2. Open' = <<"stream", "root">>
          BY <3>1, <3>3, <4>1, NestOutside DEF Open
        <5> QED BY <5>1, <5>2, Zenon
      <4> QED BY <2>2, <4>5, <4>6
    <3> QED BY <3>2, <3>3
  <2> QED BY <1>3, <2>1, <2>2, Zenon DEF Act
<1>4. CASE Return
  BY <1>1, <1>4 DEF Return, emitterVars
<1>5. CASE EmitDocument
  BY <1>1, <1>5 DEF EmitDocument
<1> QED BY <1>2, <1>3, <1>4, <1>5 DEF Next

(* fy_emit_setup() starts with empty stacks.                               *)
LEMMA InitStruct == Init => Struct /\ Open = << >> /\ event = "NONE"
<1> SUFFICES ASSUME Init PROVE Struct /\ Open = << >> /\ event = "NONE"
  OBVIOUS
<1>1. StacksOK(state, state_stack, sc_stack)
  BY DEF Init, StacksOK, Inside, Outside
<1>2. NoContext \in Context
  BY DEF NoContext, Context
<1> QED BY <1>1, <1>2 DEF Init, Struct, Open, NestOf, Idle

(* The relation is EventStream's.                                          *)
LEMMA FollowsActed ==
  ASSUME Follows(event', Opened, Opened')
  PROVE  Acted!Next
<1> QED
  BY DEF Follows, Wants, Complete, After, Acted!Next, Acted!StreamStart,
     Acted!DocumentStart, Acted!Leaf, Acted!CollectionStart, Acted!CollectionEnd,
     Acted!DocumentEnd, Acted!StreamEnd, Acted!Open, Acted!Top, Acted!WantsNode,
     Acted!Completed, Acted!Advance, Acted!Outer

(* What is open, read off the stacks as FyEmitter does.                    *)
LEMMA OpenIsOpened == Open = Opened /\ Open' = Opened'
BY DEF Open, Opened, NestOf, Enclosing, Idle

(* The events that fy_emit_event() acts on are those of a well-nested      *)
(* stream, whatever the caller submits: what it refuses leaves the nesting *)
(* as it was, and every handler does to its two stacks what its event does *)
(* to the nesting.                                                         *)
THEOREM EmitterWritesWellNested == Spec => WritesWellNested
<1>1. Init => Struct /\ Acted!Init
  <2>1. Open = Opened
    BY OpenIsOpened
  <2> QED BY <2>1, InitStruct DEF Acted!Init
<1>2. Struct /\ [Next]_vars => Struct' /\ [Acted!Next]_(Acted!vars)
  <2> SUFFICES ASSUME Struct, [Next]_vars
               PROVE  Struct' /\ [Acted!Next]_(Acted!vars)
    OBVIOUS
  <2>0. Open = Opened /\ Open' = Opened'
    BY OpenIsOpened
  <2>1. CASE Next
    <3>1. Struct' /\ (Follows(event', Opened, Opened') \/ (event' = "NONE" /\ Opened' = Opened))
      BY <2>0, <2>1, StepStruct
    <3>2. event' = "NONE" /\ Opened' = Opened => Acted!Next
      BY DEF Acted!Next, Acted!Silent
    <3> QED BY <3>1, <3>2, FollowsActed
  <2>2. CASE UNCHANGED vars
    <3>1. Struct'
      BY <2>2 DEF Struct, vars, emitterVars
    <3>2. Opened' = Opened /\ event' = event
      BY <2>2 DEF Opened, Enclosing, vars, emitterVars
    <3> QED BY <3>1, <3>2 DEF Acted!vars
  <2> QED BY <2>1, <2>2
<1> QED BY <1>1, <1>2, PTL DEF Spec, WritesWellNested, Acted!Spec

-----------------------------------------------------------------------------
(***************************************************************************)
(* Indentation.  The context of the i-th open collection is the next one   *)
(* on the stack, s_sc for the innermost.                                   *)
(***************************************************************************)
ContextOf(cs, sc, i) == IF i = Len(cs) THEN sc ELSE cs[i + 1]

Deeper(in, word, out) == ~Bracketed(in) /\ word # "val" => in.indent > out.indent

IndentsOK(ss, cs, sc) ==
  \A i \in 2 .. Len(cs) : Deeper(ContextOf(cs, sc, i), Within(ss[Len(ss) - Len(cs) + i]),
                                 ContextOf(cs, sc, i - 1))

Indented == IndentsOK(state_stack, sc_stack, s_sc)

(* It is what FyEmitter says of the indentations.                          *)
LEMMA IndentedIs ==
  ASSUME Struct, Indented
  PROVE  IndentsNest
<1>1. sc_stack \in Seq(Context) /\ s_sc \in Context /\ Len(sc_stack) \in Nat
  BY LenProperties DEF Struct, StacksOK
<1>2. CASE sc_stack = << >>
  BY <1>2 DEF IndentsNest, Contexts
<1>3. CASE sc_stack # << >>
  <2> DEFINE t == Tail(sc_stack)
             c == Append(t, s_sc)
             d == Len(sc_stack)
  <2>1. /\ t \in Seq(Context) /\ Len(t) = d - 1
        /\ \A i \in 1 .. Len(t) : t[i] = sc_stack[i + 1]
    BY <1>1, <1>3, HeadTailProperties
  <2> HIDE DEF t
  <2>2. /\ c \in Seq(Context) /\ Len(c) = Len(t) + 1 /\ c[Len(t) + 1] = s_sc
        /\ \A i \in 1 .. Len(t) : c[i] = t[i]
    BY <1>1, <2>1, AppendProperties
  <2>3. Contexts = c
    BY <1>3 DEF Contexts, t
  <2> HIDE DEF c
  <2>4. d \in Nat /\ Len(c) = d
    BY <1>1, <2>1, <2>2
  <2>5. ASSUME NEW i \in 1 .. d PROVE c[i] = ContextOf(sc_stack, s_sc, i)
    <3>1. CASE i = d
      BY <2>1, <2>2, <2>4, <3>1 DEF ContextOf
    <3>2. CASE i # d
      BY <2>1, <2>2, <2>4, <3>2 DEF ContextOf
    <3> QED BY <3>1, <3>2
  <2> SUFFICES ASSUME NEW i \in 2 .. d
               PROVE  ~Bracketed(c[i]) /\ Enclosing[i] # "val" => c[i].indent > c[i - 1].indent
    BY <2>3, <2>4 DEF IndentsNest
  <2>6. i \in 1 .. d /\ i - 1 \in 1 .. d
    BY <2>4
  <2>7. Deeper(c[i], Within(state_stack[Len(state_stack) - d + i]), c[i - 1])
    BY <2>5, <2>6 DEF Indented, IndentsOK
  <2>8. Enclosing[i] = Within(state_stack[Len(state_stack) - d + i])
    BY <2>6 DEF Enclosing
  <2> QED BY <2>7, <2>8 DEF Deeper
<1> QED BY <1>2, <1>3

(* A collection written without brackets is indented below the indentation *)
(* it is given: only a bracketed one stays on the line or keeps it.        *)
LEMMA PrologDeepens ==
  ASSUME NEW sc \in Context, ~Bracketed(Prolog(sc))
  PROVE  Prolog(sc).indent > sc.indent
<1> DEFINE flow    == IF JsonMode THEN sc.flow ELSE FlowLayout(sc)
           outer   == IF ~JsonMode /\ flow /\ flow_level = 0
                      THEN IncreaseIndent(FALSE, sc.indent) ELSE sc.indent
           flags   == flow \/ JsonMode
           deepens == ~OneLineMode /\ ~(sc.kind = "map" /\ sc.empty)
           indent  == IF deepens THEN IncreaseIndent(flags, outer) ELSE outer
<1>1. Prolog(sc) = [sc EXCEPT !.flow = flow, !.flags = flags, !.indent = indent]
  BY DEF Prolog
<1> HIDE DEF flow, flags, indent
<1>2. Prolog(sc).flow = flow /\ Prolog(sc).indent = indent
  BY <1>1 DEF Context
<1>3. ~flow /\ ~JsonMode
  BY <1>2 DEF Bracketed
<1>4. ~FlowLayout(sc)
  BY <1>3 DEF flow
<1>5. ~sc.empty /\ ~OneLineMode
  BY <1>3, <1>4 DEF FlowLayout, OneLineMode, FlowMode, JsonMode, BlockMode
<1>6. deepens
  BY <1>5
<1>7. ~flags /\ outer = sc.indent
  BY <1>3 DEF flags
<1>8. indent = IncreaseIndent(flags, sc.indent)
  BY <1>6, <1>7, Zenon DEF indent
<1>9. sc.indent \in Int /\ IndentWidth \in Int /\ IndentWidth > 0
  BY EmitterAssumption DEF Context
<1>10. IncreaseIndent(flags, sc.indent) > sc.indent
  BY <1>7, <1>9 DEF IncreaseIndent
<1> QED BY <1>2, <1>8, <1>10

(* A node that opens a collection adds the last context.                   *)
LEMMA IndentsPush ==
  ASSUME NEW ss \in Seq(Pushed), NEW cs \in Seq(Context), Len(cs) <= Len(ss), NEW sc \in Context,
         IndentsOK(ss, cs, sc), NEW x \in Pushed, NEW new \in Context,
         Len(cs) > 0 => Deeper(new, Within(x), sc)
  PROVE  IndentsOK(Append(ss, x), Append(cs, sc), new)
<1> DEFINE t == Append(ss, x)
           u == Append(cs, sc)
           d == Len(cs)
<1>1. /\ t \in Seq(Pushed) /\ Len(t) = Len(ss) + 1 /\ t[Len(ss) + 1] = x
      /\ (\A i \in 1 .. Len(ss) : t[i] = ss[i]) /\ Len(ss) \in Nat
  BY AppendProperties, LenProperties
<1>2. /\ u \in Seq(Context) /\ Len(u) = d + 1 /\ u[d + 1] = sc
      /\ (\A i \in 1 .. d : u[i] = cs[i]) /\ d \in Nat
  BY AppendProperties, LenProperties
<1> HIDE DEF t, u
<1>3. ASSUME NEW i \in 1 .. d PROVE ContextOf(u, new, i) = ContextOf(cs, sc, i)
  <2>1. i # Len(u)
    BY <1>2
  <2>2. CASE i = d
    BY <1>2, <2>1, <2>2 DEF ContextOf
  <2>3. CASE i # d
    <3>1. i + 1 \in 1 .. d
      BY <1>2, <2>3
    <3> QED BY <1>2, <2>1, <2>3, <3>1 DEF ContextOf
  <2> QED BY <2>2, <2>3
<1>4. ContextOf(u, new, d + 1) = new
  BY <1>2 DEF ContextOf
<1> SUFFICES ASSUME NEW i \in 2 .. d + 1
             PROVE  Deeper(ContextOf(u, new, i), Within(t[Len(t) - Len(u) + i]),
                           ContextOf(u, new, i - 1))
  BY <1>2, Zenon DEF IndentsOK, t, u
<1>5. Len(t) - Len(u) + i = Len(ss) - d + i
  BY <1>1, <1>2
<1>6. CASE i \in 2 .. d
  <2>1. i \in 1 .. d /\ i - 1 \in 1 .. d /\ Len(ss) - d + i \in 1 .. Len(ss)
    BY <1>1, <1>2, <1>6
  <2>2. Deeper(ContextOf(cs, sc, i), Within(ss[Len(ss) - d + i]), ContextOf(cs, sc, i - 1))
    BY <1>6 DEF IndentsOK
  <2> QED BY <1>1, <1>3, <1>5, <2>1, <2>2, Zenon
<1>7. CASE i = d + 1
  <2>1. i - 1 = d /\ d \in 1 .. d /\ d > 0 /\ Len(ss) - d + i = Len(ss) + 1
    BY <1>1, <1>2, <1>7
  <2>2. ContextOf(u, new, i - 1) = sc
    BY <1>3, <2>1 DEF ContextOf
  <2> QED BY <1>1, <1>4, <1>5, <1>7, <2>1, <2>2, Zenon
<1> QED BY <1>2, <1>6, <1>7

(* The end of a collection takes it away.                                  *)
LEMMA IndentsPop ==
  ASSUME NEW ss \in Seq(Pushed), NEW cs \in Seq(Context), Len(cs) <= Len(ss), cs # << >>,
         NEW sc, IndentsOK(ss, cs, sc)
  PROVE  IndentsOK(Pop(ss), Front(cs), Last(cs))
<1> DEFINE f == Pop(ss)
           g == Front(cs)
           d == Len(cs)
<1>1. d \in Nat /\ d > 0 /\ Len(ss) \in Nat /\ ss # << >>
  BY EmptySeq, LenProperties
<1>2. Len(f) = Len(ss) - 1 /\ \A i \in 1 .. Len(ss) - 1 : f[i] = ss[i]
  BY <1>1, Popped, Zenon
<1>3. Len(g) = d - 1 /\ (\A i \in 1 .. d - 1 : g[i] = cs[i]) /\ Last(cs) = cs[d]
  BY <1>1, Popped, Zenon
<1> HIDE DEF f, g
<1>4. ASSUME NEW i \in 1 .. d - 1 PROVE ContextOf(g, Last(cs), i) = ContextOf(cs, sc, i)
  <2>1. i # d
    BY <1>1
  <2>2. CASE i = d - 1
    <3>1. i + 1 = d
      BY <1>1, <2>2
    <3> QED BY <1>3, <2>1, <2>2, <3>1 DEF ContextOf
  <2>3. CASE i # d - 1
    <3>1. i + 1 \in 1 .. d - 1
      BY <1>1, <2>3
    <3> QED BY <1>3, <2>1, <2>3, <3>1 DEF ContextOf
  <2> QED BY <2>2, <2>3
<1> SUFFICES ASSUME NEW i \in 2 .. d - 1
             PROVE  Deeper(ContextOf(g, Last(cs), i), Within(f[Len(f) - Len(g) + i]),
                           ContextOf(g, Last(cs), i - 1))
  BY <1>3 DEF IndentsOK, f, g
<1>5. /\ i \in 2 .. d /\ i \in 1 .. d - 1 /\ i - 1 \in 1 .. d - 1
      /\ Len(f) - Len(g) + i = Len(ss) - d + i /\ Len(ss) - d + i \in 1 .. Len(ss) - 1
  BY <1>1, <1>2, <1>3
<1>6. Deeper(ContextOf(cs, sc, i), Within(ss[Len(ss) - d + i]), ContextOf(cs, sc, i - 1))
  BY <1>5 DEF IndentsOK
<1> QED BY <1>2, <1>4, <1>5, <1>6

(* A node in its place keeps the indentations, if an item or a key is      *)
(* given the indentation of its collection.                                *)
LEMMA NodeIndents ==
  ASSUME Struct, Indented, mode' = mode, NEW x \in Pushed,
         NEW e, NEW flags \in BOOLEAN, NEW indent \in Int, NEW rest,
         StreamingNode(e, Append(state_stack, x), flags, indent, rest),
         Len(sc_stack) > 0 /\ x # "MAPPING_KEY" => indent = s_sc.indent
  PROVE  IndentsOK(state_stack', sc_stack', s_sc')
<1>1. /\ state_stack \in Seq(Pushed) /\ Len(sc_stack) <= Len(state_stack)
      /\ sc_stack \in Seq(Context) /\ s_sc \in Context /\ flow_level \in Int
      /\ IndentsOK(state_stack, sc_stack, s_sc)
  BY DEF Struct, StacksOK, Indented
<1>2. CASE e.type \in {"SCALAR", "ALIAS"}
  <2>1. LeafNode(Append(state_stack, x))
    BY <1>2 DEF StreamingNode
  <2>2. state_stack' = state_stack /\ s_sc' = s_sc /\ sc_stack' = sc_stack
    BY <1>1, <2>1, PushPop, Zenon DEF LeafNode
  <2> QED BY <1>1, <2>2
<1>3. CASE e.type \in {"SEQUENCE_START", "MAPPING_START"}
  <2> DEFINE seq == e.type = "SEQUENCE_START"
             new == [kind |-> IF seq THEN "seq" ELSE "map",
                     flow |-> flags, flags |-> FALSE,
                     empty |-> StreamingEmpty(rest, IF seq THEN "SEQUENCE_END"
                                                           ELSE "MAPPING_END"),
                     flow_token |-> e.mark = "flow",
                     indent |-> indent, s_indent |-> indent]
             sc  == Prolog(new)
  <2>1. CollectionNode(e, Append(state_stack, x), flags, indent, rest)
    BY <1>3 DEF StreamingNode
  <2>2. /\ sc_stack' = Append(sc_stack, s_sc) /\ s_sc' = sc
        /\ state_stack' = Append(state_stack, x)
    BY <2>1, Zenon DEF CollectionNode
  <2>3. new \in Context /\ new.indent = indent
    <3>1. StreamingEmpty(rest, IF seq THEN "SEQUENCE_END" ELSE "MAPPING_END") \in BOOLEAN
      BY DEF StreamingEmpty
    <3>2. (e.mark = "flow") \in BOOLEAN /\ (IF seq THEN "seq" ELSE "map") \in {"none", "seq", "map"}
      OBVIOUS
    <3> QED BY <3>1, <3>2 DEF Context
  <2> HIDE DEF new
  <2>4. sc \in Context
    BY <1>1, <2>3, PrologType
  <2>5. ~Bracketed(sc) => sc.indent > indent
    BY <2>3, PrologDeepens
  <2> HIDE DEF sc
  <2>6. x = "MAPPING_KEY" => Within(x) = "val"
    BY DEF Within
  <2>7. Len(sc_stack) > 0 => Deeper(sc, Within(x), s_sc)
    BY <2>5, <2>6 DEF Deeper
  <2> QED BY <1>1, <2>2, <2>4, <2>7, IndentsPush, Zenon
<1> QED BY <1>2, <1>3 DEF StreamingNode

(* Every step keeps them.                                                  *)
LEMMA StepIndents ==
  ASSUME Struct, Indented, Next
  PROVE  Indented'
<1>1. mode' = mode
  BY DEF Next, Submit, Act, Return, EmitDocument
<1> SUFFICES IndentsOK(state_stack', sc_stack', s_sc')
  BY <1>1 DEF Indented, IndentsOK, Deeper, Bracketed, JsonMode, ContextOf
<1>2. /\ state_stack \in Seq(Pushed) /\ Len(sc_stack) <= Len(state_stack)
      /\ sc_stack \in Seq(Context) /\ s_sc \in Context
      /\ IndentsOK(state_stack, sc_stack, s_sc)
      /\ s_sc.flags \in BOOLEAN /\ s_sc.indent \in Int /\ s_indent \in Int
      /\ Len(sc_stack) \in Nat /\ (state \in Inside <=> Len(sc_stack) > 0)
  BY LenProperties DEF Struct, StacksOK, Indented, Context
<1>3. ASSUME sc_stack' = << >> PROVE IndentsOK(state_stack', sc_stack', s_sc')
  BY <1>3 DEF IndentsOK
<1>4. state \notin Inside => sc_stack = << >>
  BY <1>2, EmptySeq
<1>5. ASSUME UNCHANGED <<state_stack, sc_stack, s_sc>>
      PROVE  IndentsOK(state_stack', sc_stack', s_sc')
  BY <1>2, <1>5
<1>6. CASE Submit
  BY <1>5, <1>6 DEF Submit
<1>7. CASE Return
  BY <1>5, <1>7 DEF Return, emitterVars
<1>8. CASE EmitDocument
  BY <1>5, <1>8 DEF EmitDocument
<1>9. ASSUME NEW e, Refused(e) PROVE IndentsOK(state_stack', sc_stack', s_sc')
  <2>1. CASE state = "DOCUMENT_CONTENT"
    <3>1. sc_stack' = << >>
      BY <1>4, <1>9, <2>1 DEF Refused, Inside
    <3> QED BY <1>3, <3>1
  <2>2. CASE state # "DOCUMENT_CONTENT"
    BY <1>5, <1>9, <2>2 DEF Refused
  <2> QED BY <2>1, <2>2
<1>10. ASSUME EndCollection, state \in Inside PROVE IndentsOK(state_stack', sc_stack', s_sc')
  <2>1. sc_stack # << >>
    BY <1>2, <1>10, EmptySeq
  <2>2. state_stack' = Pop(state_stack) /\ sc_stack' = Front(sc_stack) /\ s_sc' = Last(sc_stack)
    BY <1>10 DEF EndCollection
  <2> QED BY <1>2, <2>1, <2>2, IndentsPop, Zenon
<1>11. ASSUME NEW e, NEW rest, Handle(e, rest)
       PROVE  IndentsOK(state_stack', sc_stack', s_sc')
  <2>1. CASE HandleStreamStart(e) \/ HandleDocumentEnd(e)
    BY <1>3, <2>1 DEF HandleStreamStart, HandleDocumentEnd, Reset
  <2>2. CASE HandleDocumentStart(e)
    BY <1>5, <2>2 DEF HandleDocumentStart
  <2>3. CASE HandleDocumentContent(e, rest)
    <3>1. /\ StreamingNode(e, Append(state_stack, "DOCUMENT_END"), FALSE, s_indent, rest)
          /\ state = "DOCUMENT_CONTENT"
      BY <2>3, Zenon DEF HandleDocumentContent
    <3>2. state \notin Inside /\ "DOCUMENT_END" \in Pushed
      BY <3>1 DEF Inside, Pushed
    <3>3. ~(Len(sc_stack) > 0) /\ FALSE \in BOOLEAN
      BY <1>2, <3>2, Zenon
    <3> QED BY <1>1, <1>2, <3>1, <3>2, <3>3, NodeIndents, Zenon
  <2>4. CASE HandleSequenceItem(e, rest)
    <3>1. CASE EndCollection
      BY <1>10, <2>4, <3>1 DEF HandleSequenceItem, Inside
    <3>2. CASE StreamingNode(e, Append(state_stack, "SEQUENCE_ITEM"), s_sc.flags, s_sc.indent, rest)
      <4>1. "SEQUENCE_ITEM" \in Pushed
        BY DEF Pushed
      <4> QED BY <1>1, <1>2, <3>2, <4>1, NodeIndents
    <3> QED BY <2>4, <3>1, <3>2 DEF HandleSequenceItem
  <2>5. CASE HandleMappingKey(e, rest)
    <3>1. CASE EndCollection
      BY <1>10, <2>5, <3>1 DEF HandleMappingKey, Inside
    <3>2. CASE StreamingNode(e, Append(state_stack, "MAPPING_VALUE"), s_sc.flags, s_sc.indent, rest)
      <4>1. "MAPPING_VALUE" \in Pushed
        BY DEF Pushed
      <4> QED BY <1>1, <1>2, <3>2, <4>1, NodeIndents
    <3> QED BY <2>5, <3>1, <3>2 DEF HandleMappingKey
  <2>6. CASE HandleMappingValue(e, rest)
    <3>1. /\ StreamingNode(e, Append(state_stack, "MAPPING_KEY"), s_sc.flags, s_indent, rest)
          /\ "MAPPING_KEY" \in Pushed
      BY <2>6 DEF HandleMappingValue, Pushed
    <3> QED BY <1>1, <1>2, <3>1, NodeIndents
  <2> QED BY <1>11, <2>1, <2>2, <2>3, <2>4, <2>5, <2>6 DEF Handle
<1>12. CASE Act
  BY <1>9, <1>11, <1>12, Zenon DEF Act
<1> QED BY <1>6, <1>7, <1>8, <1>12 DEF Next

(* An item of a sequence and a key of a mapping that are block collections *)
(* are indented more than the collection they are in, in every mode, for   *)
(* every width of indentation and to any depth: only a value starts from   *)
(* whatever indentation the key before it has left.                        *)
THEOREM EmitterIndentsNest == Spec => []IndentsNest
<1>1. Init => Struct /\ Indented
  BY InitStruct DEF Init, Indented, IndentsOK
<1>2. Struct /\ Indented /\ [Next]_vars => Struct' /\ Indented'
  <2>1. Struct /\ Indented /\ Next => Struct' /\ Indented'
    BY StepStruct, StepIndents
  <2>2. Struct /\ Indented /\ UNCHANGED vars => Struct' /\ Indented'
    BY DEF Struct, Indented, IndentsOK, Deeper, Bracketed, JsonMode, ContextOf, vars, emitterVars
  <2> QED BY <2>1, <2>2
<1>3. Struct /\ Indented => IndentsNest
  BY IndentedIs
<1> QED BY <1>1, <1>2, <1>3, PTL DEF Spec

=============================================================================
