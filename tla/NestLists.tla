----------------------------- MODULE NestLists ------------------------------
(***************************************************************************)
(* What is open in a stream of events, as a list: one step of EventStream  *)
(* as a relation between two lists, so that it can be used of lists that   *)
(* are no variable, and facts about such lists.  The induction that the    *)
(* facts about flattened lists need is over a set of numbers.              *)
(***************************************************************************)
EXTENDS Integers, Lists, SequenceTheorems, WellFoundedInduction, TLAPS

Words == {"stream", "root", "done", "seq", "key", "val"}

(* One step of EventStream, as a relation between values.                  *)
After(w)    == CASE w = "root" -> "done"
                 [] w = "key"  -> "val"
                 [] w = "val"  -> "key"
                 [] OTHER      -> w
Complete(s) == [s EXCEPT ![Len(s)] = After(@)]
Wants(n) == n # << >> /\ n[Len(n)] \in {"root", "seq", "key", "val"}

Follows(type, n, m) ==
  \/ type = "STREAM_START" /\ n = << >> /\ m = <<"stream">>
  \/ type = "DOCUMENT_START" /\ n # << >> /\ n[Len(n)] = "stream" /\ m = Append(n, "root")
  \/ type \in {"SCALAR", "ALIAS"} /\ Wants(n) /\ m = Complete(n)
  \/ type = "SEQUENCE_START" /\ Wants(n) /\ m = Append(n, "seq")
  \/ type = "MAPPING_START" /\ Wants(n) /\ m = Append(n, "key")
  \/ /\ n # << >>
     /\ \/ type = "SEQUENCE_END" /\ n[Len(n)] = "seq"
        \/ type = "MAPPING_END" /\ n[Len(n)] = "key"
     /\ m = Complete(SubSeq(n, 1, Len(n) - 1))
  \/ /\ type = "DOCUMENT_END" /\ n # << >> /\ n[Len(n)] = "done"
     /\ m = SubSeq(n, 1, Len(n) - 1)
  \/ type = "STREAM_END" /\ n = <<"stream">> /\ m = << >>

-----------------------------------------------------------------------------
(* Two lists are the same when their items are.                            *)
LEMMA SameList ==
  ASSUME NEW S, NEW a \in Seq(S), NEW b \in Seq(S), Len(a) = Len(b),
         \A i \in 1 .. Len(a) : a[i] = b[i]
  PROVE  a = b
BY SeqEqual

(* The last item of a list is completed, the others stay.                  *)
LEMMA Completes ==
  ASSUME NEW n \in Seq(Words), NEW k \in Nat, k > 0, Len(n) = k
  PROVE  /\ Complete(n) \in Seq(Words) /\ Len(Complete(n)) = k
         /\ Complete(n)[k] = After(n[k])
         /\ \A i \in 1 .. k - 1 : Complete(n)[i] = n[i]
<1>1. k \in 1 .. Len(n) /\ n[k] \in Words
  OBVIOUS
<1>2. After(n[k]) \in Words
  BY <1>1 DEF After, Words
<1>3. Complete(n) = [n EXCEPT ![k] = After(n[k])]
  BY DEF Complete
<1>4. /\ Complete(n) \in Seq(Words) /\ Len(Complete(n)) = Len(n)
      /\ \A i \in 1 .. Len(n) : Complete(n)[i] = IF i = k THEN After(n[k]) ELSE n[i]
  BY <1>1, <1>2, <1>3, ExceptSeq
<1> HIDE DEF Complete
<1> QED BY <1>1, <1>4

(* A list of words without its last one.                                   *)
LEMMA Outers ==
  ASSUME NEW n \in Seq(Words), NEW k \in Nat, k > 0, Len(n) = k + 1
  PROVE  LET o == SubSeq(n, 1, Len(n) - 1)
         IN  o \in Seq(Words) /\ Len(o) = k /\ \A i \in 1 .. k : o[i] = n[i]
<1> DEFINE o == SubSeq(n, 1, k)
<1>1. Len(n) - 1 = k /\ 1 \in Int /\ k \in Int /\ 1 <= k /\ k - 1 + 1 = k
  OBVIOUS
<1>2. \A i \in 1 .. k : n[i] \in Words
  BY ElementOfSeq
<1>3. /\ o \in Seq(Words) /\ Len(o) = (IF 1 <= k THEN k - 1 + 1 ELSE 0)
      /\ \A i \in 1 .. k - 1 + 1 : o[i] = n[1 + i - 1]
  BY <1>1, <1>2, SubSeqProperties
<1> HIDE DEF o
<1>4. Len(o) = k
  BY <1>1, <1>3
<1>5. ASSUME NEW i \in 1 .. k PROVE o[i] = n[i]
  <2>1. i \in 1 .. k - 1 + 1 /\ 1 + i - 1 = i
    OBVIOUS
  <2> QED BY <1>3, <2>1
<1> QED BY <1>1, <1>3, <1>4, <1>5 DEF o

(* The innermost of what is open.                                          *)
LEMMA Tip ==
  ASSUME NEW b \in Seq(Words), NEW w \in Words
  PROVE  LET n == Append(b, w)
         IN  /\ n \in Seq(Words) /\ n # << >> /\ n[Len(n)] = w
             /\ Complete(n) = Append(b, After(w))
             /\ SubSeq(n, 1, Len(n) - 1) = b
<1> DEFINE n == Append(b, w)
           k == Len(b)
           m == Append(b, After(w))
           o == SubSeq(n, 1, Len(n) - 1)
<1>1. After(w) \in Words
  BY DEF After, Words
<1>2. /\ k \in Nat /\ n \in Seq(Words) /\ Len(n) = k + 1 /\ n[k + 1] = w /\ n # << >>
      /\ \A i \in 1 .. k : n[i] = b[i]
  BY AppendProperties, LenProperties
<1>3. /\ m \in Seq(Words) /\ Len(m) = k + 1 /\ m[k + 1] = After(w)
      /\ \A i \in 1 .. k : m[i] = b[i]
  BY <1>1, AppendProperties
<1> HIDE DEF n, m, k
<1>4. k + 1 \in Nat /\ k + 1 > 0 /\ (k + 1) - 1 = k
  BY <1>2
<1>5. /\ Complete(n) \in Seq(Words) /\ Len(Complete(n)) = k + 1
      /\ Complete(n)[k + 1] = After(w)
      /\ \A i \in 1 .. k : Complete(n)[i] = n[i]
  BY <1>2, <1>4, Completes
<1>6. Complete(n) = m
  <2>1. ASSUME NEW i \in 1 .. k + 1 PROVE Complete(n)[i] = m[i]
    <3>1. i \in 1 .. k \/ i = k + 1
      BY <1>2
    <3> QED BY <1>2, <1>3, <1>5, <3>1, Zenon
  <2> HIDE DEF Complete
  <2> QED BY <1>3, <1>5, <2>1, SameList
<1>7. o = b
  <2>1. CASE k = 0
    <3>1. b = << >>
      BY <2>1, EmptySeq DEF k
    <3>2. SubSeq(n, 1, 0) = << >>
      BY SubSeqEmpty
    <3> QED BY <1>2, <2>1, <3>1, <3>2
  <2>2. CASE k # 0
    <3>1. k > 0
      BY <1>2, <2>2
    <3>2. o \in Seq(Words) /\ Len(o) = k /\ \A i \in 1 .. k : o[i] = n[i]
      BY <1>2, <3>1, Outers
    <3> HIDE DEF o
    <3>3. \A i \in 1 .. k : o[i] = b[i]
      BY <1>2, <3>2
    <3> QED BY <3>2, <3>3, SameList DEF k
  <2> QED BY <2>1, <2>2
<1> QED BY <1>2, <1>6, <1>7 DEF n, m

(* Joining lists of one item.                                              *)
LEMMA Joined ==
  ASSUME NEW S, NEW x \in S, NEW y \in S
  PROVE  <<x>> \o << >> = <<x>> /\ <<x>> \o <<y>> = <<x, y>>
<1> DEFINE a == <<x>>
           b == <<y>>
           e == << >>
           p == <<x, y>>
<1>1. a \in Seq(S) /\ Len(a) = 1 /\ a[1] = x
  OBVIOUS
<1>2. b \in Seq(S) /\ Len(b) = 1 /\ b[1] = y
  OBVIOUS
<1>3. e \in Seq(S) /\ Len(e) = 0
  OBVIOUS
<1>4. p \in Seq(S) /\ Len(p) = 2 /\ p[1] = x /\ p[2] = y
  OBVIOUS
<1> HIDE DEF a, b, e, p
<1> DEFINE ab == a \o b
           ae == a \o e
<1>5. /\ ab \in Seq(S) /\ Len(ab) = Len(a) + Len(b)
      /\ \A i \in 1 .. Len(a) + Len(b) : ab[i] = IF i <= Len(a) THEN a[i] ELSE b[i - Len(a)]
  BY <1>1, <1>2, ConcatProperties
<1>6. /\ ae \in Seq(S) /\ Len(ae) = Len(a) + Len(e)
      /\ \A i \in 1 .. Len(a) + Len(e) : ae[i] = IF i <= Len(a) THEN a[i] ELSE e[i - Len(a)]
  BY <1>1, <1>3, ConcatProperties
<1> HIDE DEF ab, ae
<1>7. Len(ab) = 2 /\ ab[1] = x /\ ab[2] = y
  <2>1. ab[1] = a[1]
    BY <1>1, <1>2, <1>5
  <2>2. ab[2] = b[1]
    BY <1>1, <1>2, <1>5
  <2> QED BY <1>1, <1>2, <1>5, <2>1, <2>2
<1>8. \A i \in 1 .. 2 : ab[i] = p[i]
  BY <1>4, <1>7
<1>9. ab = p
  BY <1>4, <1>5, <1>7, <1>8, SameList, Zenon
<1>10. Len(ae) = 1 /\ ae[1] = x
  BY <1>1, <1>3, <1>6
<1>11. \A i \in 1 .. 1 : ae[i] = a[i]
  BY <1>1, <1>10
<1>12. ae = a
  BY <1>1, <1>6, <1>10, <1>11, SameList
<1> QED BY <1>9, <1>12 DEF ab, ae, a, b, e, p

(* Joining a list of two.                                                  *)
LEMMA Two ==
  ASSUME NEW S, NEW b \in Seq(S), NEW x \in S, NEW y \in S
  PROVE  b \o <<x, y>> = Append(Append(b, x), y)
<1> DEFINE p == <<x>>
           q == <<y>>
<1>1. p \in Seq(S) /\ q \in Seq(S) /\ Append(b, x) \in Seq(S)
  BY AppendProperties
<1>2. p \o q = <<x, y>>
  BY Joined
<1>3. Append(b, x) = b \o p /\ Append(Append(b, x), y) = Append(b, x) \o q
  BY <1>1, AppendIsConcat, Zenon
<1> HIDE DEF p, q
<1>4. (b \o p) \o q = b \o (p \o q)
  BY <1>1, ConcatAssociative
<1> QED BY <1>2, <1>3, <1>4

-----------------------------------------------------------------------------
(* Every set of natural numbers has a least one.                           *)
LEMMA LeastNatural ==
  ASSUME NEW T, T \subseteq Nat, T # {}
  PROVE  \E x \in T : \A y \in T : x <= y
<1>1. PICK x \in T : \A y \in T : ~(<<y, x>> \in OpToRel(<, Nat))
  BY WFMin, NatLessThanWellFounded, Zenon
<1>2. \A y \in Nat, z \in Nat : <<y, z>> \in OpToRel(<, Nat) <=> y < z
  BY Zenon DEF OpToRel
<1>3. \A y \in T : ~(y < x)
  BY <1>1, <1>2, Zenon
<1>4. \A y \in T : x <= y
  BY <1>3
<1> QED BY <1>4

(* A set with 0 and the successor of each of its numbers has them all.     *)
LEMMA SetInduction ==
  ASSUME NEW S, 0 \in S, \A n \in Nat : n \in S => n + 1 \in S
  PROVE  \A n \in Nat : n \in S
<1> SUFFICES ASSUME NEW k \in Nat, k \notin S PROVE FALSE
  OBVIOUS
<1> DEFINE T == Nat \ S
<1>1. T \subseteq Nat /\ T # {}
  OBVIOUS
<1>2. PICK x \in T : \A y \in T : x <= y
  BY <1>1, LeastNatural, Zenon
<1>3. x \in Nat /\ x # 0 /\ x \notin S
  OBVIOUS
<1>4. x - 1 \in Nat /\ x - 1 < x /\ (x - 1) + 1 = x
  BY <1>3
<1>5. x - 1 \in S
  BY <1>2, <1>4
<1> QED BY <1>3, <1>4, <1>5

-----------------------------------------------------------------------------
(* f holds the joins of the first 1, 2 ... n items of s: what FlattenSeq   *)
(* goes through.                                                           *)
Joins(f, s, n) == f = [i \in 1 .. n |-> IF i = 1 THEN s[i] ELSE f[i - 1] \o s[i]]

(* Its values.                                                             *)
LEMMA JoinsItem ==
  ASSUME NEW f, NEW s, NEW n \in Nat, Joins(f, s, n)
  PROVE  \A i \in 1 .. n : f[i] = IF i = 1 THEN s[i] ELSE f[i - 1] \o s[i]
<1> DEFINE g == [i \in 1 .. n |-> IF i = 1 THEN s[i] ELSE f[i - 1] \o s[i]]
<1>1. f = g
  BY Zenon DEF Joins
<1>2. \A i \in 1 .. n : g[i] = IF i = 1 THEN s[i] ELSE f[i - 1] \o s[i]
  OBVIOUS
<1> HIDE DEF g
<1> QED BY <1>1, <1>2

(* There is such a function.                                               *)
LEMMA JoinsExist ==
  ASSUME NEW s, NEW n \in Nat
  PROVE  \E f : Joins(f, s, n)
<1> DEFINE S == {k \in Nat : \E f : Joins(f, s, k)}
<1>1. 0 \in S
  <2>1. Joins([i \in {} |-> s[i]], s, 0)
    BY DEF Joins
  <2> QED BY <2>1
<1>2. ASSUME NEW k \in Nat, k \in S PROVE k + 1 \in S
  <2>1. PICK f : Joins(f, s, k)
    BY <1>2
  <2> DEFINE g == [i \in 1 .. k + 1 |-> IF i = 1 THEN s[i] ELSE f[i - 1] \o s[i]]
  <2>2. ASSUME NEW i \in 1 .. k PROVE g[i] = f[i]
    <3>1. f[i] = IF i = 1 THEN s[i] ELSE f[i - 1] \o s[i]
      BY <2>1, JoinsItem
    <3>2. g[i] = IF i = 1 THEN s[i] ELSE f[i - 1] \o s[i]
      OBVIOUS
    <3> QED BY <3>1, <3>2, Zenon
  <2>3. ASSUME NEW i \in 1 .. k + 1, i # 1 PROVE g[i - 1] = f[i - 1]
    <3>1. i - 1 \in 1 .. k
      BY <2>3
    <3> HIDE DEF g
    <3> QED BY <2>2, <3>1
  <2>4. Joins(g, s, k + 1)
    <3>1. g = [i \in 1 .. k + 1 |-> IF i = 1 THEN s[i] ELSE g[i - 1] \o s[i]]
      BY <2>3, Zenon
    <3> QED BY <3>1, Zenon DEF Joins
  <2> QED BY <2>4
<1> HIDE DEF S
<1>3. n \in S
  BY <1>1, <1>2, SetInduction
<1> QED BY <1>3 DEF S

(* Two lists begin with the same n items.                                  *)
Agree(s, t, n) == \A i \in 1 .. n : s[i] = t[i]

(* Two of them agree where the lists do.                                   *)
LEMMA JoinsAgree ==
  ASSUME NEW s, NEW t, NEW n \in Nat, Agree(s, t, n),
         NEW f, NEW g, Joins(f, s, n), Joins(g, t, n + 1)
  PROVE  Agree(f, g, n)
<1> DEFINE S == {k \in Nat : k \in 1 .. n => f[k] = g[k]}
<1>1. 0 \in S
  OBVIOUS
<1>2. ASSUME NEW k \in Nat, k \in S PROVE k + 1 \in S
  <2> SUFFICES ASSUME k + 1 \in 1 .. n PROVE f[k + 1] = g[k + 1]
    OBVIOUS
  <2>1. k + 1 \in 1 .. n + 1 /\ (k + 1) - 1 = k /\ n + 1 \in Nat /\ s[k + 1] = t[k + 1]
    BY DEF Agree
  <2>2. f[k + 1] = IF k + 1 = 1 THEN s[k + 1] ELSE f[k] \o s[k + 1]
    BY <2>1, JoinsItem
  <2>3. g[k + 1] = IF k + 1 = 1 THEN t[k + 1] ELSE g[k] \o t[k + 1]
    BY <2>1, JoinsItem
  <2>4. k + 1 # 1 => k \in 1 .. n
    OBVIOUS
  <2> QED BY <1>2, <2>1, <2>2, <2>3, <2>4
<1> HIDE DEF S
<1>3. \A k \in Nat : k \in S
  BY <1>1, <1>2, SetInduction
<1> QED BY <1>3 DEF S, Agree

(* What FlattenSeq yields is the last of them.                             *)
LEMMA FlattenIs ==
  ASSUME NEW s, NEW n \in Nat, n # 0, Len(s) = n
  PROVE  \E f : Joins(f, s, n) /\ FlattenSeq(s) = f[n]
<1> DEFINE f == CHOOSE h : Joins(h, s, n)
<1>1. \E h : Joins(h, s, n)
  BY JoinsExist
<1>2. Joins(f, s, n)
  BY <1>1, Zenon
<1>3. FlattenSeq(s) = f[n]
  BY DEF FlattenSeq, Joins
<1> HIDE DEF f
<1> QED BY <1>2, <1>3

(* Flattening a list with an item more joins that item to the rest.        *)
LEMMA FlattenAppend ==
  ASSUME NEW W, NEW s \in Seq(Seq(W)), NEW x \in Seq(W)
  PROVE  FlattenSeq(Append(s, x)) = FlattenSeq(s) \o x
<1> DEFINE t == Append(s, x)
           n == Len(s)
<1>1. /\ n \in Nat /\ n + 1 \in Nat /\ n + 1 # 0 /\ Len(t) = n + 1 /\ t[n + 1] = x
      /\ Agree(s, t, n)
  BY AppendProperties, LenProperties DEF Agree
<1> HIDE DEF t
<1>2. PICK g : Joins(g, t, n + 1) /\ FlattenSeq(t) = g[n + 1]
  BY <1>1, FlattenIs, Zenon
<1>3. g[n + 1] = IF n + 1 = 1 THEN x ELSE g[n + 1 - 1] \o x
  <2> DEFINE m == n + 1
  <2>1. m \in 1 .. m /\ m \in Nat /\ Joins(g, t, m)
    BY <1>1, <1>2
  <2> HIDE DEF m
  <2>2. \A i \in 1 .. m : g[i] = IF i = 1 THEN t[i] ELSE g[i - 1] \o t[i]
    BY <2>1, JoinsItem
  <2>3. g[m] = IF m = 1 THEN t[m] ELSE g[m - 1] \o t[m]
    BY <2>1, <2>2, Zenon
  <2> QED BY <1>1, <2>3 DEF m
<1>4. CASE n = 0
  <2>1. s = << >>
    BY <1>4, EmptySeq
  <2>2. FlattenSeq(s) = << >>
    BY <1>4, <2>1 DEF FlattenSeq
  <2>3. g[n + 1] = x
    BY <1>3, <1>4
  <2>4. << >> \o x = x
    BY ConcatEmptySeq
  <2> QED BY <1>2, <2>2, <2>3, <2>4 DEF t
<1>5. CASE n # 0
  <2>1. PICK f : Joins(f, s, n) /\ FlattenSeq(s) = f[n]
    BY <1>1, <1>5, FlattenIs, Zenon
  <2>2. n \in 1 .. n /\ n + 1 # 1 /\ n + 1 - 1 = n
    BY <1>1, <1>5
  <2> HIDE DEF n
  <2>3. Agree(f, g, n)
    BY <1>1, <1>2, <2>1, JoinsAgree, Zenon
  <2>4. f[n] = g[n]
    BY <2>2, <2>3, Zenon DEF Agree
  <2>5. g[n + 1] = g[n] \o x
    BY <1>3, <2>2, Zenon
  <2> QED BY <1>2, <2>1, <2>4, <2>5 DEF t
<1> QED BY <1>4, <1>5

(* A flattened list is a list.                                             *)
LEMMA FlattenType ==
  ASSUME NEW W, NEW s \in Seq(Seq(W))
  PROVE  FlattenSeq(s) \in Seq(W)
<1> DEFINE S == {k \in Nat : \A r \in Seq(Seq(W)) : Len(r) = k => FlattenSeq(r) \in Seq(W)}
<1>1. 0 \in S
  <2>1. ASSUME NEW r \in Seq(Seq(W)), Len(r) = 0 PROVE FlattenSeq(r) \in Seq(W)
    BY <2>1, EmptySeq DEF FlattenSeq
  <2> QED BY <2>1
<1>2. ASSUME NEW k \in Nat, k \in S PROVE k + 1 \in S
  <2> SUFFICES ASSUME NEW r \in Seq(Seq(W)), Len(r) = k + 1 PROVE FlattenSeq(r) \in Seq(W)
    OBVIOUS
  <2> DEFINE o == SubSeq(r, 1, Len(r) - 1)
             x == r[Len(r)]
  <2>1. r # << >>
    BY EmptySeq
  <2>2. o \in Seq(Seq(W)) /\ Len(o) = k /\ x \in Seq(W) /\ r = Append(o, x)
    BY <2>1, AppendProperties DEF o
  <2> HIDE DEF o, x
  <2>3. FlattenSeq(o) \in Seq(W)
    BY <1>2, <2>2
  <2>4. FlattenSeq(r) = FlattenSeq(o) \o x
    BY <2>2, FlattenAppend
  <2> QED BY <2>2, <2>3, <2>4, ConcatProperties
<1> HIDE DEF S
<1>3. Len(s) \in S
  BY <1>1, <1>2, SetInduction, LenProperties, Zenon
<1> QED BY <1>3 DEF S

(* The lists that the elements of a list stand for, one behind the other.  *)
ListMap(F, S, W) == F \in [S -> Seq(W)]
Mapped(F, ss) == FlattenSeq([i \in DOMAIN ss |-> F[ss[i]]])

(* They are a list, and an element more adds its own at the end.           *)
LEMMA FlattenMapped ==
  ASSUME NEW S, NEW W, NEW F, ListMap(F, S, W), NEW ss \in Seq(S), NEW x \in S
  PROVE  Mapped(F, ss) \in Seq(W) /\ Mapped(F, Append(ss, x)) = Mapped(F, ss) \o F[x]
<1> DEFINE p == [i \in DOMAIN ss |-> F[ss[i]]]
           t == Append(ss, x)
           r == [i \in DOMAIN t |-> F[t[i]]]
<1>0. F \in [S -> Seq(W)]
  BY DEF ListMap
<1>1. F[x] \in Seq(W)
  BY <1>0
<1>2. /\ Len(ss) \in Nat /\ DOMAIN ss = 1 .. Len(ss)
      /\ \A i \in 1 .. Len(ss) : ss[i] \in S
  BY LenProperties, ElementOfSeq
<1>3. /\ t \in Seq(S) /\ Len(t) = Len(ss) + 1 /\ t[Len(ss) + 1] = x
      /\ \A i \in 1 .. Len(ss) : t[i] = ss[i]
  BY AppendProperties
<1> HIDE DEF t
<1>4. DOMAIN t = 1 .. Len(ss) + 1
  BY <1>3, LenProperties
<1>5. p \in Seq(Seq(W)) /\ Len(p) = Len(ss) /\ \A i \in 1 .. Len(ss) : p[i] = F[ss[i]]
  <2>1. p \in [1 .. Len(ss) -> Seq(W)]
    BY <1>0, <1>2
  <2>2. p \in Seq(Seq(W))
    BY <1>2, <2>1, SeqDef
  <2>3. Len(p) = Len(ss)
    BY <1>2, <2>1, <2>2, LenProperties
  <2> QED BY <1>2, <2>2, <2>3
<1>6. r \in Seq(Seq(W)) /\ Len(r) = Len(ss) + 1
      /\ \A i \in 1 .. Len(ss) + 1 : r[i] = F[t[i]]
  <2>1. \A i \in 1 .. Len(ss) + 1 : t[i] \in S
    BY <1>3, ElementOfSeq
  <2>2. r \in [1 .. Len(ss) + 1 -> Seq(W)]
    BY <1>0, <1>4, <2>1
  <2>3. Len(ss) + 1 \in Nat
    BY <1>2
  <2>4. r \in Seq(Seq(W))
    BY <2>2, <2>3, SeqDef
  <2>5. Len(r) = Len(ss) + 1
    BY <2>2, <2>3, <2>4, LenProperties
  <2> QED BY <1>4, <2>4, <2>5
<1> HIDE DEF p, r
<1>7. r = Append(p, F[x])
  <2> DEFINE y == F[x]
             a == Append(p, y)
  <2>0. y \in Seq(W)
    BY <1>1
  <2> HIDE DEF y
  <2>1. /\ a \in Seq(Seq(W)) /\ Len(a) = Len(ss) + 1 /\ a[Len(ss) + 1] = y
        /\ \A i \in 1 .. Len(ss) : a[i] = p[i]
    BY <1>5, <2>0, AppendProperties
  <2> HIDE DEF a
  <2>2. ASSUME NEW i \in 1 .. Len(ss) + 1 PROVE r[i] = a[i]
    <3>1. CASE i \in 1 .. Len(ss)
      <4>1. t[i] = ss[i] /\ a[i] = p[i] /\ p[i] = F[ss[i]]
        BY <1>3, <1>5, <2>1, <3>1
      <4>2. r[i] = F[t[i]]
        BY <1>6
      <4> QED BY <4>1, <4>2, Zenon
    <3>2. CASE i = Len(ss) + 1
      BY <1>3, <1>6, <2>1, <3>2 DEF y
    <3> QED BY <1>2, <3>1, <3>2
  <2>3. r = a
    BY <1>6, <2>1, <2>2, SameList
  <2> QED BY <2>3 DEF a, y
<1>8. FlattenSeq(r) = FlattenSeq(p) \o F[x]
  BY <1>1, <1>5, <1>7, FlattenAppend
<1>9. FlattenSeq(p) \in Seq(W)
  BY <1>5, FlattenType
<1> QED BY <1>8, <1>9, Zenon DEF p, r, t, Mapped

=============================================================================
