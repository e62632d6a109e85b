---------------------------- MODULE FyScanProofs ----------------------------
(***************************************************************************)
(* Theorems about the scanner, for every text, every column, every flow    *)
(* depth and every length of the token queue.  First what the scanner's    *)
(* lists are (the token queue, the simple keys that point into it, the     *)
(* indent stack and the flow stack), and that the operations of FyScanner  *)
(* on each of them keep it so; then the handlers, which put the lists      *)
(* together.  The last part prepares FyScanNest: what NestedBy makes of    *)
(* tokens queued behind others, put in front of others, and taken away one *)
(* after the other, and when a block mapping can still be opened in the    *)
(* middle of a list.                                                       *)
(***************************************************************************)
EXTENDS FyScan, WellFoundedInduction, SequenceTheorems, TLAPS

(* Every non-empty set of naturals has a least element.                    *)
LEMMA LeastNatural ==
  ASSUME NEW T \in SUBSET Nat, T # {}
  PROVE  \E x \in T : \A y \in T : x <= y
<1>1. PICK x \in T : \A y \in T : ~(<<y, x>> \in OpToRel(<, Nat))
  BY NatLessThanWellFounded, WFMin, Zenon
<1>2. \A y \in T : ~(y < x)
  BY <1>1, Zenon DEF OpToRel
<1>3. \A y \in T : x <= y
  BY <1>2
<1> QED BY <1>3

(* A function on 1 .. n is a sequence of length n.                         *)
LEMMA SeqOfFunction ==
  ASSUME NEW n \in Nat, NEW S, NEW f \in [1 .. n -> S]
  PROVE  f \in Seq(S) /\ Len(f) = n
<1>1. f \in Seq(S)
  BY SeqDef
<1>2. 1 .. Len(f) = 1 .. n /\ Len(f) \in Nat
  BY <1>1, LenProperties
<1> QED BY <1>1, <1>2

-----------------------------------------------------------------------------
(***************************************************************************)
(* The lists of the scanner.                                               *)
(***************************************************************************)

(* The tokens that end what the scanner may run ahead in: it queues one    *)
(* with no simple key left, and then waits for it to be taken.             *)
Boundary == Directives \cup DocumentMarkers \cup {"STREAM_START", "STREAM_END"}
Body == Tokens \ Boundary

(* What holds of each of the lists.  The tokens: only the last one is a    *)
(* boundary, no simple key is then left, and a STREAM_END is queued only   *)
(* once the end of the text has been reached.                              *)
QueueOK(q, ks, ended) ==
  /\ q \in Seq(Tokens)
  /\ \A i \in 1 .. Len(q) : q[i] \in Boundary =>
       i = Len(q) /\ ks = << >> /\ (q[i] = "STREAM_END" => ended)

(* The simple keys, for the tokens they point at and the flow level.       *)
Points(ks, q, fl) ==
  \A i \in 1 .. Len(ks) : /\ ks[i].token \in 1 .. Len(q)
                          /\ q[ks[i].token] \in KeyStarts
                          /\ ks[i].flow_level <= fl

Ordered(ks) ==
  \A i, j \in 1 .. Len(ks) : i < j => /\ ks[i].flow_level > ks[j].flow_level
                                      /\ ks[i].token > ks[j].token

KeysOK(ks, q, fl) == ks \in Seq(Keys) /\ Points(ks, q, fl) /\ Ordered(ks)

(* The indents: the level of the document, which nothing closes, lies at   *)
(* the bottom.                                                             *)
LevelsOK(ind) ==
  /\ ind \in Seq(Levels) /\ ind # << >> /\ ind[1].indent = -2
  /\ \A i, j \in 1 .. Len(ind) : i < j => ind[i].indent < ind[j].indent

(* The brackets: one entry per flow level, and one for no bracket.         *)
FlowsOK(fs, fl) == fs \in Seq(Brackets) /\ fl \in Nat /\ Len(fs) = fl + 1

-----------------------------------------------------------------------------
(* Facts about numbers and positions.                                      *)

(* Columns are natural numbers.                                            *)
LEMMA ColumnsNat == Columns \subseteq Nat
BY ScanBounds DEF Columns

(* Indents are integers: the level of the document is below zero.          *)
LEMMA LevelIndents == \A l \in Levels : l.indent \in Int
<1>1. \A l \in Levels : l.indent \in {-2} \cup Columns
  BY DEF Levels
<1>2. -2 \in Int /\ Columns \subseteq Int
  BY ColumnsNat
<1> QED BY <1>1, <1>2, Zenon

(* Among the positions 1 .. n there is a longest prefix inside D.          *)
LEMMA LongestPrefix ==
  ASSUME NEW n \in Nat, NEW D
  PROVE  \E m \in 0 .. n : /\ \A i \in 1 .. m : i \in D
                           /\ m < n => m + 1 \notin D
<1> DEFINE T == {m \in 0 .. n : m < n => m + 1 \notin D}
<1>1. T \in SUBSET Nat /\ n \in T
  OBVIOUS
<1>2. PICK m \in T : \A k \in T : m <= k
  BY <1>1, LeastNatural, Zenon
<1>3. m \in 0 .. n /\ (m < n => m + 1 \notin D)
  OBVIOUS
<1>4. ASSUME NEW i \in 1 .. m, i \notin D PROVE FALSE
  <2>1. i - 1 \in 0 .. n /\ (i - 1) + 1 = i
    BY <1>3
  <2>2. i - 1 \in T
    BY <2>1, <1>4
  <2> HIDE DEF T
  <2>3. m <= i - 1
    BY <2>2, <1>2
  <2> QED BY <2>3, <1>3
<1> QED BY <1>3, <1>4

(* What purging and removing drop from the head of the keys, and what they *)
(* leave there.                                                            *)
LEMMA StaleLenIs ==
  ASSUME NEW ks \in Seq(Keys), NEW fl \in Nat
  PROVE  /\ StaleLen(ks, fl) \in 0 .. Len(ks)
         /\ StaleLen(ks, fl) < Len(ks) =>
              IF fl = 0 THEN ~ks[StaleLen(ks, fl) + 1].old
                        ELSE ks[StaleLen(ks, fl) + 1].flow_level <= fl
<1> DEFINE Drop(k) == IF fl = 0 THEN k.old ELSE fl < k.flow_level
           D == {i \in 1 .. Len(ks) : Drop(ks[i])}
           P(n) == /\ \A i \in 1 .. n : Drop(ks[i])
                   /\ n < Len(ks) => ~Drop(ks[n + 1])
<1>1. Len(ks) \in Nat
  OBVIOUS
<1>2. PICK n \in 0 .. Len(ks) : /\ \A i \in 1 .. n : i \in D
                                /\ n < Len(ks) => n + 1 \notin D
  BY <1>1, LongestPrefix, Zenon
<1>3. \E m \in 0 .. Len(ks) : P(m)
  <2> HIDE DEF Drop
  <2>1. n < Len(ks) => n + 1 \in 1 .. Len(ks)
    BY <1>1
  <2> QED BY <1>2, <2>1
<1>4. StaleLen(ks, fl) = CHOOSE m \in 0 .. Len(ks) : P(m)
  BY DEF StaleLen, PrefixLen
<1> HIDE DEF P
<1>5. StaleLen(ks, fl) \in 0 .. Len(ks) /\ P(StaleLen(ks, fl))
  BY <1>3, <1>4
<1>6. StaleLen(ks, fl) < Len(ks) => ks[StaleLen(ks, fl) + 1] \in Keys
  BY <1>1, <1>5
<1> QED BY <1>5, <1>6 DEF P, Keys

(* What fy_remove_simple_key() drops: a prefix of the list, and the key    *)
(* behind it belongs to an outer flow level.                               *)
LEMMA RemoveLenIs ==
  ASSUME NEW ks \in Seq(Keys), flow_level \in Nat
  PROVE  /\ RemoveLen(ks) \in 0 .. Len(ks)
         /\ RemoveLen(ks) < Len(ks) => ks[RemoveLen(ks) + 1].flow_level < flow_level
<1> DEFINE D == {i \in 1 .. Len(ks) : ks[i].flow_level >= flow_level}
           P(n) == /\ \A i \in 1 .. n : ks[i].flow_level >= flow_level
                   /\ n < Len(ks) => ~(ks[n + 1].flow_level >= flow_level)
<1>1. Len(ks) \in Nat
  OBVIOUS
<1>2. PICK n \in 0 .. Len(ks) : /\ \A i \in 1 .. n : i \in D
                                /\ n < Len(ks) => n + 1 \notin D
  BY <1>1, LongestPrefix, Zenon
<1>3. \E m \in 0 .. Len(ks) : P(m)
  <2>1. n < Len(ks) => n + 1 \in 1 .. Len(ks)
    BY <1>1
  <2> QED BY <1>2, <2>1
<1>4. RemoveLen(ks) = CHOOSE m \in 0 .. Len(ks) : P(m)
  BY DEF RemoveLen, PrefixLen
<1> HIDE DEF P
<1>5. RemoveLen(ks) \in 0 .. Len(ks) /\ P(RemoveLen(ks))
  BY <1>3, <1>4
<1>6. RemoveLen(ks) < Len(ks) => ks[RemoveLen(ks) + 1] \in Keys
  BY <1>1, <1>5
<1> QED BY <1>5, <1>6 DEF P, Keys

(* A purge that fails has met a required key, and leaves it at the head.   *)
LEMMA StuckIs ==
  ASSUME NEW ks \in Seq(Keys)
  PROVE  \E n \in 0 .. Len(ks) : /\ Stuck(ks) = After(ks, n)
                                 /\ \A i \in 1 .. n : ~ks[i].required
                                 /\ n < Len(ks) => ks[n + 1].required
<1> DEFINE D == {i \in 1 .. Len(ks) : ~ks[i].required}
           P(n) == /\ \A i \in 1 .. n : ~ks[i].required
                   /\ n < Len(ks) => ~~ks[n + 1].required
           m == CHOOSE n \in 0 .. Len(ks) : P(n)
<1>1. Len(ks) \in Nat
  OBVIOUS
<1>2. PICK n \in 0 .. Len(ks) : /\ \A i \in 1 .. n : i \in D
                                /\ n < Len(ks) => n + 1 \notin D
  BY <1>1, LongestPrefix, Zenon
<1>3. \E k \in 0 .. Len(ks) : P(k)
  <2>1. n < Len(ks) => n + 1 \in 1 .. Len(ks)
    BY <1>1
  <2> QED BY <1>2, <2>1
<1>4. Stuck(ks) = After(ks, m)
  BY DEF Stuck, PrefixLen
<1> HIDE DEF P
<1>5. m \in 0 .. Len(ks) /\ P(m)
  BY <1>3
<1> HIDE DEF m
<1> QED BY <1>4, <1>5 DEF P

(* Unrolling closes the levels deeper than the column, and never that of   *)
(* the document.                                                           *)
LEMMA PoppedIs ==
  ASSUME NEW ind, LevelsOK(ind), NEW column \in Int, column >= -1
  PROVE  /\ Popped(ind, column) \in 0 .. Len(ind) - 1
         /\ flow_level > 0 => Popped(ind, column) = 0
         /\ ~(flow_level > 0) =>
              /\ \A i \in Len(ind) - Popped(ind, column) + 1 .. Len(ind) :
                   ind[i].indent > column
              /\ ind[Len(ind) - Popped(ind, column)].indent <= column
<1> DEFINE L == Len(ind)
           D == {i \in 1 .. L : ind[L - i + 1].indent > column}
           P(n) == /\ \A i \in L - n + 1 .. L : ind[i].indent > column
                   /\ n < L => ind[L - n].indent <= column
<1>1. ind \in Seq(Levels) /\ L \in Nat /\ L > 0 /\ ind[1].indent = -2
  BY DEF LevelsOK
<1>2. PICK n \in 0 .. L : /\ \A i \in 1 .. n : i \in D
                          /\ n < L => n + 1 \notin D
  BY <1>1, LongestPrefix, Zenon
<1>3. \A i \in 1 .. L : ind[i].indent \in Int
  BY <1>1, LevelIndents
<1>4. P(n)
  <2>1. ASSUME NEW i \in L - n + 1 .. L PROVE ind[i].indent > column
    <3>1. L - i + 1 \in 1 .. n /\ L - (L - i + 1) + 1 = i
      BY <1>1
    <3> QED BY <3>1, <1>2
  <2>2. ASSUME n < L PROVE ind[L - n].indent <= column
    <3>1. n + 1 \in 1 .. L /\ L - (n + 1) + 1 = L - n /\ L - n \in 1 .. L
      BY <1>1, <2>2
    <3> QED BY <3>1, <1>2, <1>3, <2>2
  <2> QED BY <2>1, <2>2
<1>5. \E m \in 0 .. L : P(m)
  BY <1>4
<1>6. CASE flow_level > 0
  BY <1>6, <1>1 DEF Popped
<1>7. CASE ~(flow_level > 0)
  <2> DEFINE k == Popped(ind, column)
  <2>1. k = CHOOSE m \in 0 .. L : P(m)
    BY <1>7 DEF Popped
  <2> HIDE DEF P, k
  <2>2. k \in 0 .. L /\ P(k)
    BY <2>1, <1>5
  <2>3. k # L
    BY <2>2, <1>1 DEF P
  <2>4. k \in 0 .. L - 1 /\ k < L
    BY <2>2, <2>3, <1>1
  <2>5. /\ \A i \in L - k + 1 .. L : ind[i].indent > column
        /\ ind[L - k].indent <= column
    BY <2>2, <2>4 DEF P
  <2> QED BY <2>4, <2>5, <1>7 DEF k
<1> QED BY <1>6, <1>7

-----------------------------------------------------------------------------
(* The keys.                                                               *)

(* The fields of a simple key.                                             *)
LEMMA KeyParts ==
  ASSUME NEW k \in Keys
  PROVE  /\ k.token \in Nat \ {0} /\ k.column \in Columns /\ k.flow_level \in Nat
         /\ k.required \in BOOLEAN /\ k.old \in BOOLEAN /\ k.endold \in BOOLEAN
BY DEF Keys

(* Dropping keys from the head keeps the others in order.                  *)
LEMMA AfterOK ==
  ASSUME NEW q, NEW fl, NEW ks, KeysOK(ks, q, fl), NEW n \in 0 .. Len(ks)
  PROVE  /\ KeysOK(After(ks, n), q, fl) /\ Len(After(ks, n)) = Len(ks) - n
         /\ \A i \in 1 .. Len(ks) - n : After(ks, n)[i] = ks[n + i]
<1> DEFINE a == After(ks, n)
<1>1. ks \in Seq(Keys) /\ Len(ks) \in Nat
  BY DEF KeysOK
<1>2. /\ a \in Seq(Keys) /\ Len(a) = Len(ks) - n
      /\ \A i \in 1 .. Len(ks) - n : a[i] = ks[n + i]
  BY <1>1 DEF After
<1>3. \A i \in 1 .. Len(a) : n + i \in 1 .. Len(ks) /\ a[i] = ks[n + i]
  BY <1>1, <1>2
<1> HIDE DEF a
<1>4. Points(a, q, fl)
  BY <1>3 DEF KeysOK, Points
<1>5. Ordered(a)
  <2> SUFFICES ASSUME NEW i \in 1 .. Len(a), NEW j \in 1 .. Len(a), i < j
               PROVE  a[i].flow_level > a[j].flow_level /\ a[i].token > a[j].token
    BY DEF Ordered
  <2>1. n + i < n + j /\ n + i \in 1 .. Len(ks) /\ n + j \in 1 .. Len(ks)
    BY <1>1, <1>3
  <2> QED BY <1>3, <2>1, Zenon DEF KeysOK, Ordered
<1>6. KeysOK(a, q, fl)
  BY <1>2, <1>4, <1>5 DEF KeysOK
<1> QED BY <1>2, <1>6 DEF a

(* Passing a line break only marks the keys as old.                        *)
LEMMA AgeOK ==
  ASSUME NEW q, NEW fl, NEW ks, KeysOK(ks, q, fl)
  PROVE  KeysOK(Age(ks), q, fl)
<1> DEFINE a == Age(ks)
<1>1. ks \in Seq(Keys) /\ Len(ks) \in Nat /\ DOMAIN ks = 1 .. Len(ks)
  BY DEF KeysOK
<1>2. \A i \in 1 .. Len(ks) : ks[i] \in Keys
  BY <1>1
<1>3. \A i \in 1 .. Len(ks) : /\ a[i] \in Keys /\ a[i].token = ks[i].token
                              /\ a[i].flow_level = ks[i].flow_level
  BY <1>1, <1>2, Zenon DEF Age, Keys
<1>4. a \in [1 .. Len(ks) -> Keys]
  BY <1>1, <1>3, Zenon DEF Age
<1>5. a \in Seq(Keys) /\ Len(a) = Len(ks)
  BY <1>1, <1>4, SeqOfFunction
<1> HIDE DEF a
<1>6. Points(a, q, fl) /\ Ordered(a)
  BY <1>3, <1>5 DEF KeysOK, Points, Ordered
<1> QED BY <1>5, <1>6 DEF KeysOK, a

(* Tokens queued behind those the keys point at do not matter.             *)
LEMMA GrownOK ==
  ASSUME NEW q \in Seq(Tokens), NEW r \in Seq(Tokens), NEW fl, NEW ks,
         KeysOK(ks, q, fl)
  PROVE  KeysOK(ks, q \o r, fl)
<1>1. /\ Len(q) \in Nat /\ Len(r) \in Nat /\ Len(q \o r) = Len(q) + Len(r)
      /\ \A i \in 1 .. Len(q) : (q \o r)[i] = q[i]
  OBVIOUS
<1>2. Points(ks, q \o r, fl)
  <2> SUFFICES ASSUME NEW i \in 1 .. Len(ks)
               PROVE  /\ ks[i].token \in 1 .. Len(q \o r)
                      /\ (q \o r)[ks[i].token] \in KeyStarts /\ ks[i].flow_level <= fl
    BY DEF Points
  <2>1. /\ ks[i].token \in 1 .. Len(q) /\ q[ks[i].token] \in KeyStarts
        /\ ks[i].flow_level <= fl
    BY DEF KeysOK, Points
  <2> QED BY <1>1, <2>1
<1> QED BY <1>2 DEF KeysOK

(* fy_purge_stale_simple_keys() keeps the list in order.                   *)
LEMMA PurgedOK ==
  ASSUME NEW q, NEW fl, NEW ks, NEW at \in Nat, KeysOK(ks, q, fl)
  PROVE  KeysOK(Purged(ks, at), q, fl)
<1>1. StaleLen(ks, at) \in 0 .. Len(ks)
  BY StaleLenIs DEF KeysOK
<1> QED BY <1>1, AfterOK DEF Purged

(* So does the part of it that ends at a required key.                     *)
LEMMA StuckOK ==
  ASSUME NEW q, NEW fl, NEW ks, KeysOK(ks, q, fl)
  PROVE  KeysOK(Stuck(ks), q, fl)
<1>1. PICK n \in 0 .. Len(ks) : Stuck(ks) = After(ks, n)
  BY StuckIs DEF KeysOK
<1> QED BY <1>1, AfterOK

(* The required key that stops fy_remove_simple_key() is deleted as well.  *)
LEMMA RemoveStuckOK ==
  ASSUME flow_level \in Nat, NEW q, NEW fl, NEW ks, KeysOK(ks, q, fl), RemoveFails(ks)
  PROVE  KeysOK(RemoveStuck(ks), q, fl)
<1>1. ks \in Seq(Keys) /\ Len(ks) \in Nat
  BY DEF KeysOK
<1>2. PICK n \in 0 .. Len(ks) : Stuck(ks) = After(ks, n) /\ \A i \in 1 .. n : ~ks[i].required
  BY <1>1, StuckIs, Zenon
<1>3. n < Len(ks)
  <2>1. PICK i \in 1 .. RemoveLen(ks) : ks[i].required
    BY Zenon DEF RemoveFails, RequiredIn
  <2>2. RemoveLen(ks) \in 0 .. Len(ks)
    BY <1>1, RemoveLenIs
  <2>3. i \notin 1 .. n
    BY <1>2, <2>1
  <2> QED BY <1>1, <2>2, <2>3
<1>4. Tail(After(ks, n)) = After(ks, n + 1)
  BY <1>1, <1>3 DEF After
<1>5. n + 1 \in 0 .. Len(ks)
  BY <1>1, <1>3
<1>6. KeysOK(After(ks, n + 1), q, fl)
  BY <1>5, AfterOK
<1> QED BY <1>2, <1>4, <1>6 DEF RemoveStuck

(* What removing leaves belongs to outer flow levels.                      *)
LEMMA RemovedOK ==
  ASSUME flow_level \in Nat, NEW q, NEW ks, KeysOK(ks, q, flow_level)
  PROVE  /\ KeysOK(Removed(ks), q, flow_level)
         /\ KeysOK(Removed(ks), q, flow_level - 1)
<1> DEFINE n == RemoveLen(ks)
           a == Removed(ks)
<1>1. ks \in Seq(Keys) /\ Len(ks) \in Nat
  BY DEF KeysOK
<1>2. n \in 0 .. Len(ks) /\ (n < Len(ks) => ks[n + 1].flow_level < flow_level)
  BY <1>1, RemoveLenIs
<1>3. /\ KeysOK(a, q, flow_level) /\ Len(a) = Len(ks) - n
      /\ \A i \in 1 .. Len(ks) - n : a[i] = ks[n + i]
  <2>1. a = After(ks, n)
    BY DEF Removed
  <2> HIDE DEF a, n
  <2>2. n \in 0 .. Len(ks)
    BY <1>2
  <2>3. /\ KeysOK(After(ks, n), q, flow_level) /\ Len(After(ks, n)) = Len(ks) - n
        /\ \A i \in 1 .. Len(ks) - n : After(ks, n)[i] = ks[n + i]
    BY <2>2, AfterOK
  <2> QED BY <2>1, <2>3
<1> HIDE DEF a, n
<1>4. a \in Seq(Keys) /\ \A i \in 1 .. Len(a) : a[i] \in Keys /\ a[i].flow_level \in Nat
  BY <1>3, KeyParts DEF KeysOK
<1>5. ASSUME NEW i \in 1 .. Len(a) PROVE a[i].flow_level <= flow_level - 1
  <2>1. a[1].flow_level < flow_level /\ 1 \in 1 .. Len(a)
    BY <1>1, <1>2, <1>3
  <2>2. i = 1 \/ a[1].flow_level > a[i].flow_level
    BY <1>3, <2>1 DEF KeysOK, Ordered
  <2> QED BY <1>4, <2>1, <2>2
<1>6. Points(a, q, flow_level - 1)
  BY <1>3, <1>5 DEF KeysOK, Points
<1> QED BY <1>3, <1>4, <1>6 DEF KeysOK, a

(* A new key in front of keys of outer flow levels, for the token queued   *)
(* last.                                                                   *)
LEMMA ConsOK ==
  ASSUME NEW q \in Seq(Tokens), NEW t \in KeyStarts, NEW fl \in Nat, NEW r,
         KeysOK(r, q, fl), \A i \in 1 .. Len(r) : r[i].flow_level < fl,
         NEW k \in Keys, k.token = Len(q) + 1, k.flow_level = fl
  PROVE  KeysOK(<<k>> \o r, Append(q, t), fl)
<1> DEFINE c == <<k>> \o r
           z == Append(q, t)
<1>1. r \in Seq(Keys) /\ Len(r) \in Nat /\ Len(q) \in Nat
  BY DEF KeysOK
<1>2. /\ c \in Seq(Keys) /\ Len(c) = Len(r) + 1 /\ c[1] = k
      /\ \A i \in 2 .. Len(r) + 1 : c[i] = r[i - 1]
  BY <1>1
<1>3. /\ Len(z) = Len(q) + 1 /\ z[Len(q) + 1] = t
      /\ \A i \in 1 .. Len(q) : z[i] = q[i]
  BY <1>1
<1> HIDE DEF c, z
<1>4. \A i \in 1 .. Len(r) : /\ r[i].token \in 1 .. Len(q) /\ q[r[i].token] \in KeyStarts
                             /\ r[i].flow_level \in Nat
  BY <1>1, KeyParts DEF KeysOK, Points
<1>5. Points(c, z, fl)
  <2> SUFFICES ASSUME NEW i \in 1 .. Len(c)
               PROVE  /\ c[i].token \in 1 .. Len(z) /\ z[c[i].token] \in KeyStarts
                      /\ c[i].flow_level <= fl
    BY DEF Points
  <2>1. CASE i = 1
    BY <1>1, <1>2, <1>3, <2>1
  <2>2. CASE i # 1
    <3>1. i - 1 \in 1 .. Len(r) /\ c[i] = r[i - 1]
      BY <1>1, <1>2, <2>2
    <3> QED BY <1>1, <1>3, <1>4, <3>1
  <2> QED BY <2>1, <2>2
<1>6. Ordered(c)
  <2> SUFFICES ASSUME NEW i \in 1 .. Len(c), NEW j \in 1 .. Len(c), i < j
               PROVE  c[i].flow_level > c[j].flow_level /\ c[i].token > c[j].token
    BY DEF Ordered
  <2>1. j - 1 \in 1 .. Len(r) /\ c[j] = r[j - 1]
    BY <1>1, <1>2
  <2>2. CASE i = 1
    BY <1>1, <1>2, <1>4, <2>1, <2>2
  <2>3. CASE i # 1
    <3>1. i - 1 \in 1 .. Len(r) /\ c[i] = r[i - 1] /\ i - 1 < j - 1
      BY <1>1, <1>2, <2>3
    <3> QED BY <2>1, <3>1 DEF KeysOK, Ordered
  <2> QED BY <2>2, <2>3
<1> QED BY <1>2, <1>5, <1>6 DEF KeysOK, c, z

(* A key never starts at the end of the stream.                            *)
LEMMA KeyStartTokens == KeyStarts \subseteq Body
BY DEF KeyStarts, Body, Boundary, Tokens, BodyTokens, Scalars, FlowStarts, Tags,
       Directives, VersionDirectives, TagDirectives, DocumentMarkers

(* fy_save_simple_key(): the key for the token just queued replaces the    *)
(* one of its flow level.                                                  *)
LEMMA SavedOK ==
  ASSUME flow_level \in Nat, NEW q \in Seq(Tokens), NEW t \in KeyStarts,
         NEW ks, KeysOK(ks, q, flow_level),
         NEW k \in Keys, k.token = Len(q) + 1, k.flow_level = flow_level
  PROVE  KeysOK(Saved(ks, k), Append(q, t), flow_level)
<1> DEFINE p == Purged(ks, flow_level)
           fl == flow_level
<1>1. KeysOK(p, q, fl)
  BY PurgedOK
<1> HIDE DEF p
<1>2. p \in Seq(Keys) /\ Len(p) \in Nat /\ \A i \in 1 .. Len(p) : p[i].flow_level \in Nat
  BY <1>1, KeyParts DEF KeysOK
<1>3. CASE ~allowed
  <2>1. Append(q, t) = q \o <<t>> /\ <<t>> \in Seq(Tokens)
    BY KeyStartTokens DEF Body
  <2>2. KeysOK(p, q \o <<t>>, fl)
    BY <1>1, <2>1, GrownOK, Zenon
  <2>3. Saved(ks, k) = p
    BY <1>3 DEF Saved, p
  <2> QED BY <2>1, <2>2, <2>3
<1>4. CASE allowed /\ Reuses(p)
  <2>1. p # << >> /\ Head(p) = p[1] /\ p[1].flow_level >= fl /\ Len(p) > 0
    BY <1>2, <1>4 DEF Reuses
  <2>2. Tail(p) = After(p, 1) /\ 1 \in 0 .. Len(p)
    BY <1>2, <2>1, TailIsSubSeq DEF After
  <2>3. /\ KeysOK(Tail(p), q, fl) /\ Len(Tail(p)) = Len(p) - 1
        /\ \A i \in 1 .. Len(p) - 1 : Tail(p)[i] = p[1 + i]
    <3>1. /\ KeysOK(After(p, 1), q, fl) /\ Len(After(p, 1)) = Len(p) - 1
          /\ \A i \in 1 .. Len(p) - 1 : After(p, 1)[i] = p[1 + i]
      BY <1>1, <2>2, AfterOK
    <3> QED BY <2>2, <3>1, Zenon
  <2>4. ASSUME NEW i \in 1 .. Len(Tail(p)) PROVE Tail(p)[i].flow_level < fl
    <3>1. 1 + i \in 1 .. Len(p) /\ 1 \in 1 .. Len(p) /\ 1 < 1 + i
      BY <1>2, <2>1, <2>3
    <3>2. p[1].flow_level > p[1 + i].flow_level /\ p[1].flow_level <= fl
      BY <1>1, <3>1 DEF KeysOK, Ordered, Points
    <3>3. p[1].flow_level \in Nat /\ p[1 + i].flow_level \in Nat
      BY <1>2, <3>1
    <3> QED BY <2>3, <3>1, <3>2, <3>3
  <2>5. KeysOK(<<k>> \o Tail(p), Append(q, t), fl)
    BY <2>3, <2>4, ConsOK, Zenon
  <2>6. Saved(ks, k) = <<k>> \o Tail(p)
    BY <1>4 DEF Saved, p
  <2> QED BY <2>5, <2>6
<1>5. CASE allowed /\ ~Reuses(p)
  <2>1. ASSUME NEW i \in 1 .. Len(p) PROVE p[i].flow_level < fl
    <3>1. p # << >> /\ Head(p) = p[1] /\ 1 \in 1 .. Len(p)
      BY <1>2
    <3>2. p[1].flow_level < fl
      BY <1>2, <1>5, <3>1 DEF Reuses
    <3>3. i = 1 \/ p[1].flow_level > p[i].flow_level
      BY <1>1, <3>1 DEF KeysOK, Ordered
    <3> QED BY <1>2, <3>1, <3>2, <3>3
  <2>2. KeysOK(<<k>> \o p, Append(q, t), fl)
    BY <1>1, <2>1, ConsOK, Zenon
  <2>3. Saved(ks, k) = <<k>> \o p
    BY <1>5 DEF Saved, p
  <2> QED BY <2>2, <2>3
<1> QED BY <1>3, <1>4, <1>5

(* fy_fetch_value() puts tokens in front of the token at position `at':    *)
(* the keys that point there or behind move with their tokens.             *)
Inserted(q, at, new) == SubSeq(q, 1, at - 1) \o new \o SubSeq(q, at, Len(q)) \o <<"VALUE">>
Moved(ks, at, n)     == [i \in DOMAIN ks |->
                           [ks[i] EXCEPT !.token = IF @ >= at THEN @ + n ELSE @]]

(* Tokens put in front of a key that is already queued leave the others in *)
(* their order.                                                            *)
LEMMA InsertedIs ==
  ASSUME NEW S, NEW q \in Seq(S), NEW new \in Seq(S), "VALUE" \in S,
         NEW at \in 1 .. Len(q) + 1
  PROVE  /\ Inserted(q, at, new) \in Seq(S)
         /\ Len(Inserted(q, at, new)) = Len(q) + Len(new) + 1
         /\ \A i \in 1 .. at - 1 : Inserted(q, at, new)[i] = q[i]
         /\ \A i \in at .. Len(q) : Inserted(q, at, new)[i + Len(new)] = q[i]
<1> DEFINE a == SubSeq(q, 1, at - 1)
           b == SubSeq(q, at, Len(q))
           ab == a \o new
           abc == ab \o b
           z == abc \o <<"VALUE">>
<1>1. Len(q) \in Nat /\ Len(new) \in Nat
  OBVIOUS
<1>2. a \in Seq(S) /\ Len(a) = at - 1 /\ \A i \in 1 .. at - 1 : a[i] = q[i]
  BY <1>1
<1>3. /\ b \in Seq(S) /\ Len(b) = Len(q) - at + 1
      /\ \A i \in 1 .. Len(q) - at + 1 : b[i] = q[at + i - 1]
  BY <1>1
<1> HIDE DEF a, b
<1>4. /\ ab \in Seq(S) /\ Len(ab) = at - 1 + Len(new)
      /\ \A i \in 1 .. at - 1 : ab[i] = q[i]
  BY <1>1, <1>2
<1> HIDE DEF ab
<1>5. /\ abc \in Seq(S) /\ Len(abc) = Len(q) + Len(new)
      /\ \A i \in 1 .. at - 1 : abc[i] = q[i]
      /\ \A i \in at .. Len(q) : abc[i + Len(new)] = q[i]
  <2>1. abc \in Seq(S) /\ Len(abc) = Len(q) + Len(new)
    <3>1. abc \in Seq(S) /\ Len(abc) = Len(ab) + Len(b)
      BY <1>3, <1>4, ConcatProperties, Zenon
    <3> HIDE DEF abc
    <3> QED BY <1>1, <1>3, <1>4, <3>1
  <2>2. \A i \in 1 .. Len(ab) + Len(b) :
           abc[i] = IF i <= Len(ab) THEN ab[i] ELSE b[i - Len(ab)]
    BY <1>3, <1>4, ConcatProperties
  <2>3. \A i \in 1 .. at - 1 : abc[i] = q[i]
    BY <1>1, <1>3, <1>4, <2>2
  <2>4. ASSUME NEW i \in at .. Len(q) PROVE abc[i + Len(new)] = q[i]
    <3>1. /\ i + Len(new) \in 1 .. Len(ab) + Len(b) /\ ~(i + Len(new) <= Len(ab))
          /\ i + Len(new) - Len(ab) = i - at + 1
          /\ i - at + 1 \in 1 .. Len(q) - at + 1 /\ at + (i - at + 1) - 1 = i
      BY <1>1, <1>3, <1>4
    <3>2. abc[i + Len(new)] = b[i - at + 1]
      BY <2>2, <3>1
    <3> QED BY <1>3, <3>1, <3>2
  <2> QED BY <2>1, <2>3, <2>4, Zenon
<1> HIDE DEF abc
<1>6. /\ z \in Seq(S) /\ Len(z) = Len(abc) + 1
      /\ \A i \in 1 .. Len(abc) : z[i] = abc[i]
  BY <1>5
<1>7. z = Inserted(q, at, new)
  BY DEF Inserted, z, abc, ab, a, b
<1> HIDE DEF z
<1>8. \A i \in at .. Len(q) : i + Len(new) \in 1 .. Len(abc)
  BY <1>1, <1>5
<1>9. \A i \in 1 .. at - 1 : i \in 1 .. Len(abc)
  BY <1>1, <1>5
<1> QED BY <1>5, <1>6, <1>7, <1>8, <1>9

(* ... and the keys behind the insertion still point at their tokens.      *)
LEMMA MovedOK ==
  ASSUME NEW q \in Seq(Tokens), NEW new \in Seq(Tokens), NEW at \in 1 .. Len(q) + 1,
         NEW fl, NEW ks, KeysOK(ks, q, fl)
  PROVE  KeysOK(Moved(ks, at, Len(new)), Inserted(q, at, new), fl)
<1> DEFINE m == Moved(ks, at, Len(new))
           z == Inserted(q, at, new)
           n == Len(new)
<1>1. /\ ks \in Seq(Keys) /\ Len(ks) \in Nat /\ DOMAIN ks = 1 .. Len(ks)
      /\ Len(q) \in Nat /\ n \in Nat
  BY DEF KeysOK
<1>2. /\ Len(z) = Len(q) + n + 1
      /\ \A i \in 1 .. at - 1 : z[i] = q[i]
      /\ \A i \in at .. Len(q) : z[i + n] = q[i]
  <2>1. "VALUE" \in Tokens
    BY DEF Tokens, BodyTokens
  <2> QED BY <2>1, InsertedIs
<1>3. \A i \in 1 .. Len(ks) : /\ ks[i] \in Keys /\ ks[i].token \in 1 .. Len(q)
                              /\ q[ks[i].token] \in KeyStarts
  BY <1>1 DEF KeysOK, Points
<1>4. \A i \in 1 .. Len(ks) :
        /\ m[i] \in Keys /\ m[i].flow_level = ks[i].flow_level
        /\ m[i].token = IF ks[i].token >= at THEN ks[i].token + n ELSE ks[i].token
  <2> SUFFICES ASSUME NEW i \in 1 .. Len(ks)
               PROVE  /\ m[i] \in Keys /\ m[i].flow_level = ks[i].flow_level
                      /\ m[i].token = IF ks[i].token >= at THEN ks[i].token + n
                                                           ELSE ks[i].token
    OBVIOUS
  <2> DEFINE t == IF ks[i].token >= at THEN ks[i].token + n ELSE ks[i].token
  <2>1. m[i] = [ks[i] EXCEPT !.token = t]
    BY <1>1 DEF Moved
  <2>2. t \in Nat \ {0} /\ ks[i] \in Keys
    BY <1>1, <1>3
  <2> HIDE DEF t, m
  <2>3. m[i] \in Keys /\ m[i].flow_level = ks[i].flow_level /\ m[i].token = t
    BY <2>1, <2>2, Zenon DEF Keys
  <2> QED BY <2>3 DEF t
<1>5. m \in [1 .. Len(ks) -> Keys]
  BY <1>1, <1>4, Zenon DEF Moved
<1>6. m \in Seq(Keys) /\ Len(m) = Len(ks)
  BY <1>1, <1>5, SeqOfFunction, Zenon
<1> HIDE DEF m, z, n
<1>7. Points(m, z, fl)
  <2> SUFFICES ASSUME NEW i \in 1 .. Len(ks)
               PROVE  /\ m[i].token \in 1 .. Len(z) /\ z[m[i].token] \in KeyStarts
                      /\ m[i].flow_level <= fl
    BY <1>6 DEF Points
  <2>1. m[i].flow_level <= fl
    BY <1>4, Zenon DEF KeysOK, Points
  <2>2. CASE ks[i].token >= at
    <3>1. m[i].token = ks[i].token + n /\ ks[i].token \in at .. Len(q)
      BY <1>1, <1>3, <1>4, <2>2
    <3>2. z[m[i].token] = q[ks[i].token]
      BY <1>2, <3>1
    <3> QED BY <1>1, <1>2, <1>3, <2>1, <3>1, <3>2
  <2>3. CASE ~(ks[i].token >= at)
    <3>1. m[i].token = ks[i].token /\ ks[i].token \in 1 .. at - 1
      BY <1>1, <1>3, <1>4, <2>3
    <3>2. z[m[i].token] = q[ks[i].token]
      BY <1>2, <3>1
    <3> QED BY <1>1, <1>2, <1>3, <2>1, <3>1, <3>2
  <2> QED BY <2>2, <2>3
<1>8. Ordered(m)
  <2> SUFFICES ASSUME NEW i \in 1 .. Len(ks), NEW j \in 1 .. Len(ks), i < j
               PROVE  m[i].flow_level > m[j].flow_level /\ m[i].token > m[j].token
    BY <1>6 DEF Ordered
  <2>1. ks[i].flow_level > ks[j].flow_level /\ ks[i].token > ks[j].token
    BY DEF KeysOK, Ordered
  <2>2. ks[i].token \in Nat /\ ks[j].token \in Nat
    BY <1>3
  <2> QED BY <1>1, <1>4, <2>1, <2>2
<1> QED BY <1>6, <1>7, <1>8 DEF KeysOK, m, z, n

-----------------------------------------------------------------------------
(* The indents.                                                            *)

(* fy_parse_unroll_indent() keeps the indents increasing.                  *)
LEMMA UnrollOK ==
  ASSUME NEW ind, LevelsOK(ind), NEW column \in Int, column >= -1
  PROVE  LevelsOK(Unroll(ind, column))
<1> DEFINE n == Len(ind) - Popped(ind, column)
           u == SubSeq(ind, 1, n)
<1>1. ind \in Seq(Levels) /\ Len(ind) \in Nat
  BY DEF LevelsOK
<1>2. n \in 1 .. Len(ind)
  <2>1. Popped(ind, column) \in 0 .. Len(ind) - 1
    BY PoppedIs
  <2> QED BY <1>1, <2>1
<1>3. u = Unroll(ind, column)
  BY DEF Unroll
<1> HIDE DEF n
<1>4. u \in Seq(Levels) /\ Len(u) = n /\ \A i \in 1 .. n : u[i] = ind[i]
  BY <1>1, <1>2
<1> HIDE DEF u
<1>5. u # << >> /\ u[1].indent = -2
  BY <1>2, <1>4 DEF LevelsOK
<1>6. \A i, j \in 1 .. Len(u) : i < j => u[i].indent < u[j].indent
  BY <1>1, <1>2, <1>4 DEF LevelsOK
<1> QED BY <1>3, <1>4, <1>5, <1>6 DEF LevelsOK

(* A level is pushed only where it is deeper than the innermost one.       *)
LEMMA OpenedOK ==
  ASSUME LevelsOK(levels), NEW column \in Columns, NEW b \in BOOLEAN
  PROVE  LevelsOK(Opened(column, b))
<1> DEFINE u == levels
           r == [indent |-> column, bmap |-> b]
           z == Append(u, r)
<1>1. CASE ~Opening(column)
  BY <1>1 DEF Opened
<1>2. CASE Opening(column)
  <2>1. Opened(column, b) = z
    BY <1>2 DEF Opened
  <2>2. Last(u).indent < column
    BY <1>2 DEF Opening, Indent
  <2>3. column \in Int
    BY ColumnsNat
  <2>4. r \in Levels
    BY DEF Levels
  <2> HIDE DEF u
  <2>5. u \in Seq(Levels) /\ Len(u) \in Nat /\ u # << >> /\ Len(u) > 0
    BY DEF LevelsOK, u
  <2>6. u[Len(u)].indent < column
    BY <2>2, <2>5 DEF Last
  <2>7. r.indent = column
    OBVIOUS
  <2> HIDE DEF r
  <2>8. /\ z \in Seq(Levels) /\ Len(z) = Len(u) + 1 /\ z # << >> /\ z[Len(u) + 1] = r
        /\ \A i \in 1 .. Len(u) : z[i] = u[i]
    BY <2>4, <2>5, AppendProperties
  <2> HIDE DEF z
  <2>9. z[1].indent = -2
    BY <2>5, <2>8 DEF LevelsOK, u
  <2>10. ASSUME NEW i \in 1 .. Len(z), NEW j \in 1 .. Len(z), i < j
         PROVE  z[i].indent < z[j].indent
    <3>1. i \in 1 .. Len(u) /\ z[i] = u[i]
      BY <2>5, <2>8, <2>10
    <3>2. CASE j \in 1 .. Len(u)
      BY <2>8, <2>10, <3>1, <3>2 DEF LevelsOK, u
    <3>3. CASE j = Len(u) + 1
      <4>1. i = Len(u) \/ u[i].indent < u[Len(u)].indent
        BY <2>5, <3>1 DEF LevelsOK, u
      <4>2. u[i].indent \in Int /\ u[Len(u)].indent \in Int
        BY <2>5, <3>1, LevelIndents
      <4> QED BY <2>3, <2>6, <2>7, <2>8, <3>1, <3>3, <4>1, <4>2
    <3> QED BY <2>5, <2>8, <3>2, <3>3
  <2> QED BY <2>1, <2>8, <2>9, <2>10 DEF LevelsOK
<1> QED BY <1>1, <1>2

(* The BLOCK_ENDs that unrolling queues.                                   *)
LEMMA BlockEndsOK ==
  ASSUME LevelsOK(indents), NEW column \in Int, column >= -1
  PROVE  BlockEnds(column) \in Seq(Body)
<1> DEFINE n == Popped(indents, column)
<1>1. n \in Nat
  BY PoppedIs DEF LevelsOK
<1>2. "BLOCK_END" \in Body
  BY DEF Body, Boundary, Tokens, BodyTokens, Directives, VersionDirectives,
         TagDirectives, DocumentMarkers
<1>3. BlockEnds(column) \in [1 .. n -> Body]
  BY <1>2 DEF BlockEnds
<1> HIDE DEF n
<1> QED BY <1>1, <1>3, SeqOfFunction

-----------------------------------------------------------------------------
(* The brackets.                                                           *)

(* A step to the next token keeps one entry per flow level.                *)
LEMMA AgeFlowsOK ==
  ASSUME NEW fs, NEW fl, FlowsOK(fs, fl)
  PROVE  FlowsOK(AgeFlows(fs), fl)
<1> DEFINE a == AgeFlows(fs)
<1>1. fs \in Seq(Brackets) /\ Len(fs) \in Nat /\ DOMAIN fs = 1 .. Len(fs)
  BY DEF FlowsOK
<1>2. ASSUME NEW i \in 1 .. Len(fs) PROVE a[i] \in Brackets
  <2> DEFINE f == fs[i]
             b == f.pending.column >= 0
             p == [f.pending EXCEPT !.old = b]
  <2>1. f \in Brackets
    BY <1>1
  <2>2. p \in Pendings
    <3>1. f.pending \in Pendings
      BY <2>1, Zenon DEF Brackets
    <3>2. b \in BOOLEAN
      OBVIOUS
    <3> HIDE DEF b, f
    <3> QED BY <3>1, <3>2 DEF Pendings
  <2>3. a[i] = [f EXCEPT !.pending = p]
    BY <1>1 DEF AgeFlows
  <2> HIDE DEF p, f, a
  <2> QED BY <2>1, <2>2, <2>3, Zenon DEF Brackets
<1>3. a \in [1 .. Len(fs) -> Brackets]
  BY <1>1, <1>2 DEF AgeFlows
<1>4. a \in Seq(Brackets) /\ Len(a) = Len(fs)
  BY <1>1, <1>3, SeqOfFunction
<1> QED BY <1>4 DEF FlowsOK

(* So does a change of what the innermost flow level waits for.            *)
LEMMA WithPendingOK ==
  ASSUME NEW fs, NEW fl, FlowsOK(fs, fl), NEW p \in Pendings
  PROVE  FlowsOK(WithPending(fs, p), fl)
<1> DEFINE n == Len(fs)
           e == [fs[n] EXCEPT !.pending = p]
<1>1. fs \in Seq(Brackets) /\ n \in 1 .. Len(fs)
  BY DEF FlowsOK
<1>2. e \in Brackets
  <2>1. fs[n] \in Brackets
    BY <1>1
  <2> QED BY <2>1, Zenon DEF Brackets
<1>3. WithPending(fs, p) = [fs EXCEPT ![n] = e]
  BY <1>1 DEF WithPending
<1> HIDE DEF n, e
<1>4. [fs EXCEPT ![n] = e] \in Seq(Brackets) /\ Len([fs EXCEPT ![n] = e]) = Len(fs)
  BY <1>1, <1>2, ExceptSeq
<1> QED BY <1>3, <1>4 DEF FlowsOK

-----------------------------------------------------------------------------
(* The stream and the lists together.                                      *)

(* The stream: once the end is reached no key is left to wait for a ':',   *)
(* and none is there before the start has been handed out.                 *)
StreamOK ==
  /\ simple_key_allowed \in BOOLEAN /\ last_was_comma \in BOOLEAN
  /\ json \in BOOLEAN /\ stream_start_produced \in BOOLEAN
  /\ stream_end_reached \in BOOLEAN /\ stream_end_produced \in BOOLEAN
  /\ current \in BOOLEAN /\ stream_error \in BOOLEAN /\ inputs \in Nat
  /\ look \in Lexemes /\ ahead \subseteq Anything
  /\ stream_end_reached => simple_keys = << >> /\ stream_start_produced
  /\ stream_end_produced => stream_end_reached
  /\ ~stream_start_produced => simple_keys = << >>

(* A mismatched bracket leaves its level and not its entry.                *)
BracketsOK ==
  /\ flows \in Seq(Brackets) /\ flows # << >> /\ flow_level \in Nat
  /\ ~stream_error => FlowsOK(flows, flow_level)

IInv == /\ QueueOK(queue, simple_keys, stream_end_reached)
        /\ KeysOK(simple_keys, queue, flow_level)
        /\ LevelsOK(indents) /\ BracketsOK /\ StreamOK

-----------------------------------------------------------------------------
(* A fetch.                                                                *)

(* A queue without boundaries, and one that ends with a boundary.          *)
LEMMA BodyQueue ==
  ASSUME NEW q \in Seq(Body), NEW ks, NEW ended
  PROVE  QueueOK(q, ks, ended)
BY ElementOfSeq DEF QueueOK, Body

(* The queue that a boundary ends.                                         *)
LEMMA BoundaryQueue ==
  ASSUME NEW x \in Seq(Body), NEW b \in Boundary, b \in Tokens, NEW ended,
         b = "STREAM_END" => ended
  PROVE  QueueOK(x \o <<b>>, << >>, ended)
<1> DEFINE q == x \o <<b>>
<1>1. /\ q \in Seq(Tokens) /\ Len(q) = Len(x) + 1 /\ Len(x) \in Nat
      /\ \A i \in 1 .. Len(x) + 1 : q[i] = IF i <= Len(x) THEN x[i] ELSE b
  BY DEF Body
<1>2. \A i \in 1 .. Len(x) : x[i] \in Body
  BY ElementOfSeq
<1> HIDE DEF q
<1>3. ASSUME NEW i \in 1 .. Len(q), q[i] \in Boundary PROVE i = Len(q) /\ q[i] = b
  BY <1>1, <1>2, <1>3 DEF Body
<1>4. QueueOK(q, << >>, ended)
  BY <1>1, <1>3 DEF QueueOK
<1> QED BY <1>4 DEF q

(* Nothing is fetched while a boundary waits in the queue.                 *)
LEMMA FetchesBody == ASSUME IInv, Fetches PROVE queue \in Seq(Body)
<1>1. queue = << >> \/ simple_keys # << >>
  BY DEF IInv, StreamOK, Fetches, Ready
<1>2. queue \in Seq(Tokens) /\ \A i \in 1 .. Len(queue) : queue[i] \in Tokens
  BY ElementOfSeq DEF IInv, QueueOK
<1>3. \A i \in 1 .. Len(queue) : queue[i] \in Body
  BY <1>1, <1>2 DEF IInv, QueueOK, Body
<1> QED BY <1>2, <1>3, SeqDef

(* What a fetch has read is a lexeme.                                      *)
LEMMA FetchLooks ==
  ASSUME NEW C, Fetch(C)
  PROVE  Fetches /\ look' \in Lexemes /\ look'.c \in C /\ look'.column \in Columns
BY DEF Fetch, LexemesOf, Lexemes

(* fy_scan_to_next_token() and the unrolling that every fetch begins with  *)
(* keep what holds of the lists.                                           *)
LEMMA FetchContext ==
  ASSUME IInv, Fetches, look' \in Lexemes
  PROVE  /\ flow_level \in Nat /\ look'.column \in Columns /\ queue \in Seq(Body)
         /\ KeysOK(keys, tokens, flow_level) /\ tokens \in Seq(Body)
         /\ LevelsOK(levels) /\ FlowsOK(flowing, flow_level)
<1>1. look'.column \in Columns /\ look'.column \in Int /\ look'.column >= -1
  <2>1. look'.column \in Columns
    BY DEF Lexemes, LexemesOf
  <2>2. look'.column \in Nat
    BY <2>1, ColumnsNat, Zenon
  <2> QED BY <2>1, <2>2
<1>2. flow_level \in Nat /\ FlowsOK(flows, flow_level) /\ LevelsOK(indents)
  BY DEF IInv, BracketsOK, Fetches
<1>3. queue \in Seq(Body)
  BY FetchesBody
<1>4. KeysOK(keys, queue, flow_level)
  BY AgeOK DEF IInv, keys
<1>5. FlowsOK(flowing, flow_level)
  BY <1>2, AgeFlowsOK DEF flowing
<1>6. LevelsOK(levels)
  BY <1>1, <1>2, UnrollOK DEF levels
<1>7. BlockEnds(look'.column) \in Seq(Body)
  BY <1>1, <1>2, BlockEndsOK
<1>8. tokens \in Seq(Body)
  BY <1>3, <1>7 DEF tokens
<1>9. KeysOK(keys, tokens, flow_level)
  <2>1. queue \in Seq(Tokens) /\ BlockEnds(look'.column) \in Seq(Tokens)
    BY <1>3, <1>7 DEF Body
  <2> QED BY <1>4, <2>1, GrownOK DEF tokens
<1> QED BY <1>1, <1>2, <1>3, <1>5, <1>6, <1>8, <1>9

(* Nothing pending is a value of its type.                                 *)
LEMMA NoPendingType == NoPending \in Pendings
BY DEF NoPending, Pendings

(* Saving what is pending keeps one entry per flow level.                  *)
LEMMA SavePendingOK ==
  ASSUME FlowsOK(flowing, flow_level)
  PROVE  FlowsOK(SavePending, flow_level)
BY NoPendingType, WithPendingOK DEF SavePending

(* There is an entry below the first open bracket.                         *)
LEMMA FlowsNotEmpty ==
  ASSUME NEW fs, NEW fl, FlowsOK(fs, fl)
  PROVE  fs \in Seq(Brackets) /\ fs # << >> /\ fl \in Nat
BY DEF FlowsOK

(* A fetch keeps the invariant if it keeps it of the lists.                *)
LEMMA FetchEnds ==
  ASSUME IInv, Fetches, look' \in Lexemes, NEW S \in SUBSET Anything, Done(S) \/ Failed,
         QueueOK(queue', simple_keys', FALSE), KeysOK(simple_keys', queue', flow_level'),
         LevelsOK(indents'), FlowsOK(flows', flow_level'),
         simple_key_allowed' \in BOOLEAN
  PROVE  IInv'
<1>1. stream_end_reached' = FALSE
  BY Zenon DEF IInv, StreamOK, Fetches, Done, Failed, streamVars
<1>2. StreamOK'
  <2>1. CASE Done(S)
    BY <2>1, Zenon DEF IInv, StreamOK, Fetches, Done, streamVars
  <2>2. CASE Failed
    BY <2>2, Zenon DEF IInv, StreamOK, Fetches, Failed, streamVars
  <2> QED BY <2>1, <2>2
<1>3. BracketsOK'
  BY FlowsNotEmpty DEF BracketsOK
<1> QED BY <1>1, <1>2, <1>3 DEF IInv

(* The same for a handler that queues no boundary.                         *)
LEMMA FetchStep ==
  ASSUME IInv, Fetches, look' \in Lexemes, NEW S \in SUBSET Anything, Done(S) \/ Failed,
         queue' \in Seq(Body), KeysOK(simple_keys', queue', flow_level'),
         LevelsOK(indents'), FlowsOK(flows', flow_level'),
         simple_key_allowed' \in BOOLEAN
  PROVE  IInv'
BY BodyQueue, FetchEnds

(* So does one that fails, also when it has left a flow level.             *)
LEMMA FailStep ==
  ASSUME IInv, Fetches, look' \in Lexemes, Failed,
         queue' \in Seq(Body), KeysOK(simple_keys', queue', flow_level'),
         LevelsOK(indents'), flows' \in Seq(Brackets), flows' # << >>, flow_level' \in Nat,
         simple_key_allowed' \in BOOLEAN
  PROVE  IInv'
<1>1. stream_end_reached' = FALSE /\ stream_error' = TRUE
  BY Zenon DEF IInv, StreamOK, Fetches, Failed, streamVars
<1>2. StreamOK'
  BY Zenon DEF IInv, StreamOK, Fetches, Failed, streamVars
<1>3. BracketsOK'
  BY <1>1 DEF BracketsOK
<1>4. QueueOK(queue', simple_keys', stream_end_reached')
  BY BodyQueue
<1> QED BY <1>2, <1>3, <1>4 DEF IInv

(* What a fetch leaves that fails.                                         *)
LEMMA FailsWithStep ==
  ASSUME IInv, Fetches, look' \in Lexemes, NEW q, NEW ks, NEW ind, NEW fs,
         FailsWith(q, ks, ind, fs), q \in Seq(Body), KeysOK(ks, q, flow_level),
         LevelsOK(ind), FlowsOK(fs, flow_level)
  PROVE  IInv'
<1>1. allowed \in BOOLEAN
  BY DEF IInv, StreamOK, allowed
<1>2. /\ queue' = q /\ simple_keys' = ks /\ indents' = ind /\ flows' = fs
      /\ simple_key_allowed' = allowed /\ flow_level' = flow_level /\ Failed
  BY DEF FailsWith
<1> QED BY <1>1, <1>2, FlowsNotEmpty, FailStep, Zenon

(* The tokens that the handlers queue, and those a key can start at.       *)
LEMMA BodyTokensIn ==
  /\ {"FLOW_SEQUENCE_START", "FLOW_MAPPING_START", "FLOW_SEQUENCE_END",
      "FLOW_MAPPING_END", "VALUE", "FLOW_ENTRY", "BLOCK_SEQUENCE_START",
      "BLOCK_ENTRY", "BLOCK_MAPPING_START", "KEY", "ALIAS", "ANCHOR", "TAG_DEF",
      "SCALAR", "SCALAR_DQ"} \subseteq Body
  /\ {"VERSION_1_2", "TAG_DIRECTIVE_DEF", "DOCUMENT_START", "DOCUMENT_END",
      "STREAM_START", "STREAM_END"} \subseteq Boundary \cap Tokens
  /\ {"FLOW_SEQUENCE_START", "FLOW_MAPPING_START", "ALIAS", "ANCHOR", "TAG_DEF",
      "SCALAR", "SCALAR_DQ"} \subseteq KeyStarts
<1>1. {"FLOW_SEQUENCE_START", "FLOW_MAPPING_START", "ALIAS", "ANCHOR", "TAG_DEF",
      "SCALAR", "SCALAR_DQ"} \subseteq KeyStarts
  BY DEF KeyStarts, Scalars, FlowStarts
<1> QED BY <1>1 DEF Boundary, Body, Tokens, BodyTokens, Directives, VersionDirectives,
        TagDirectives, Tags, Scalars, FlowStarts, FlowEnds, BlockStarts, DocumentMarkers

(* The token just queued, which may begin a key.                           *)
LEMMA SaveStep ==
  ASSUME flow_level \in Nat, look'.column \in Columns, tokens \in Seq(Body),
         NEW ks, KeysOK(ks, tokens, flow_level), NEW t \in KeyStarts,
         NEW old \in BOOLEAN, NEW endold \in BOOLEAN, queue' = Append(tokens, t)
  PROVE  /\ queue' \in Seq(Body)
         /\ KeysOK(Saved(ks, Key(Len(queue'), old, endold)), queue', flow_level)
<1> DEFINE k == Key(Len(queue'), old, endold)
<1>1. t \in Body
  BY KeyStartTokens
<1>2. queue' \in Seq(Body) /\ Len(queue') = Len(tokens) + 1 /\ Len(tokens) \in Nat
  BY <1>1
<1>3. tokens \in Seq(Tokens)
  BY DEF Body
<1>4. k \in Keys /\ k.token = Len(tokens) + 1 /\ k.flow_level = flow_level
  BY <1>2 DEF Key, Keys
<1> HIDE DEF k
<1>5. KeysOK(Saved(ks, k), Append(tokens, t), flow_level)
  BY <1>3, <1>4, SavedOK
<1> QED BY <1>2, <1>5 DEF k

-----------------------------------------------------------------------------
(* The handlers.                                                           *)

(* fy_fetch_flow_collection_mark_start()                                   *)
LEMMA FlowStartStep == ASSUME IInv, FlowStart PROVE IInv'
<1> DEFINE t == FlowStartToken
           f == [flow |-> look'.c, pending |-> NoPending]
<1>1. Fetches /\ look' \in Lexemes /\ look'.c \in {"[", "{"}
  BY FetchLooks, Zenon DEF FlowStart
<1>2. /\ flow_level \in Nat /\ look'.column \in Columns /\ tokens \in Seq(Body)
      /\ KeysOK(keys, tokens, flow_level) /\ LevelsOK(levels) /\ FlowsOK(flowing, flow_level)
  BY <1>1, FetchContext, Zenon
<1>3. t \in KeyStarts /\ queue' = Append(tokens, t)
  BY BodyTokensIn, Zenon DEF FlowStart, FlowStartToken
<1>4. /\ queue' \in Seq(Body)
      /\ KeysOK(simple_keys', queue', flow_level)
  <2> HIDE DEF t
  <2>1. simple_keys' = Saved(keys, Key(Len(queue'), FALSE, FALSE))
    BY Zenon DEF FlowStart
  <2> QED BY <1>2, <1>3, <2>1, SaveStep, Zenon
<1>5. flow_level' = flow_level + 1
  BY Zenon DEF FlowStart
<1>6. KeysOK(simple_keys', queue', flow_level')
  <2>1. \A i \in 1 .. Len(simple_keys') : simple_keys'[i].flow_level \in Nat
    BY <1>4, KeyParts DEF KeysOK
  <2> QED BY <1>2, <1>4, <1>5, <2>1 DEF KeysOK, Points
<1>7. FlowsOK(flows', flow_level')
  <2>1. FlowsOK(SavePending, flow_level)
    BY <1>2, SavePendingOK
  <2>2. f \in Brackets
    BY <1>1, NoPendingType, Zenon DEF Brackets
  <2>3. flows' = Append(SavePending, f)
    BY Zenon DEF FlowStart
  <2> HIDE DEF f
  <2> QED BY <1>5, <2>1, <2>2, <2>3, AppendProperties DEF FlowsOK
<1>8. LevelsOK(indents') /\ simple_key_allowed' \in BOOLEAN /\ (Done(Anything) \/ Failed)
  BY <1>2, Zenon DEF FlowStart
<1> QED BY <1>1, <1>4, <1>6, <1>7, <1>8, FetchStep, Zenon

(* Popping the innermost bracket, of which there is one.                   *)
LEMMA FrontOK ==
  ASSUME NEW fs, NEW fl, FlowsOK(fs, fl), fl > 0
  PROVE  FlowsOK(Front(fs), fl - 1)
<1>1. fs \in Seq(Brackets) /\ fl \in Nat /\ Len(fs) = fl + 1
  BY DEF FlowsOK
<1>2. Front(fs) \in Seq(Brackets) /\ Len(Front(fs)) = fl
  BY <1>1 DEF Front
<1> QED BY <1>1, <1>2 DEF FlowsOK

(* fy_fetch_flow_collection_mark_end()                                     *)
LEMMA FlowEndStep == ASSUME IInv, FlowEnd PROVE IInv'
<1> DEFINE t == IF look'.c = "]" THEN "FLOW_SEQUENCE_END" ELSE "FLOW_MAPPING_END"
           ks == Removed(keys)
<1>1. Fetches /\ look' \in Lexemes
  BY FetchLooks, Zenon DEF FlowEnd
<1>2. /\ flow_level \in Nat /\ look'.column \in Columns /\ tokens \in Seq(Body)
      /\ KeysOK(keys, tokens, flow_level) /\ LevelsOK(levels) /\ FlowsOK(flowing, flow_level)
  BY <1>1, FetchContext
<1>3. flow_level > 0 /\ flow_level' = flow_level - 1 /\ flow_level - 1 \in Nat
  <2>1. flow_level > 0 /\ flow_level' = flow_level - 1
    BY Zenon DEF FlowEnd, FlowMatches
  <2> QED BY <1>2, <2>1
<1>4. FlowsOK(flows', flow_level')
  BY <1>2, <1>3, FrontOK, Zenon DEF FlowEnd, FlowPop
<1>5. t \in Body /\ queue' = tokens \o <<t>>
  <2>1. t \in Body
    BY BodyTokensIn
  <2>2. queue' = Append(tokens, t)
    BY Zenon DEF FlowEnd
  <2> HIDE DEF t
  <2> QED BY <1>2, <2>1, <2>2, AppendIsConcat
<1> HIDE DEF t
<1>6. queue' \in Seq(Body)
  BY <1>2, <1>5
<1>7. KeysOK(ks, queue', flow_level - 1)
  <2>1. KeysOK(ks, tokens, flow_level - 1)
    BY <1>2, RemovedOK
  <2>2. tokens \in Seq(Tokens) /\ <<t>> \in Seq(Tokens)
    BY <1>2, <1>5 DEF Body
  <2> HIDE DEF ks
  <2>3. KeysOK(ks, tokens \o <<t>>, flow_level - 1)
    BY <2>1, <2>2, GrownOK, Zenon
  <2> QED BY <1>5, <2>3
<1>8. KeysOK(Purged(ks, flow_level - 1), queue', flow_level - 1)
  BY <1>3, <1>7, PurgedOK
<1>9. /\ simple_keys' \in {ks, Purged(ks, flow_level - 1), Stuck(ks)}
      /\ Done(Anything \ Colon) \/ Done(Colon) \/ Failed
  BY Zenon DEF FlowEnd
<1>13. KeysOK(Stuck(ks), queue', flow_level - 1)
  BY <1>7, StuckOK
<1> HIDE DEF ks
<1>10. KeysOK(simple_keys', queue', flow_level')
  BY <1>3, <1>7, <1>8, <1>9, <1>13
<1>11. LevelsOK(indents') /\ simple_key_allowed' \in BOOLEAN
  BY <1>2, Zenon DEF FlowEnd
<1>12. Anything \ Colon \in SUBSET Anything /\ Colon \in SUBSET Anything
  BY DEF Colon, Anything, Gaps
<1> QED BY <1>1, <1>4, <1>6, <1>9, <1>10, <1>11, <1>12, FetchStep

(* Handlers that remove the keys of the flow level and queue the tokens r. *)
LEMMA RemoveStep ==
  ASSUME flow_level \in Nat, tokens \in Seq(Body), KeysOK(keys, tokens, flow_level),
         NEW r \in Seq(Body), queue' = tokens \o r
  PROVE  queue' \in Seq(Body) /\ KeysOK(Removed(keys), queue', flow_level)
<1>1. KeysOK(Removed(keys), tokens, flow_level)
  BY RemovedOK
<1>2. tokens \in Seq(Tokens) /\ r \in Seq(Tokens)
  BY DEF Body
<1>3. KeysOK(Removed(keys), tokens \o r, flow_level)
  BY <1>1, <1>2, GrownOK
<1> QED BY <1>3

(* fy_fetch_flow_collection_entry()                                        *)
LEMMA FlowEntryStep == ASSUME IInv, FlowEntry PROVE IInv'
<1> DEFINE v == EndedKey
           r == v \o <<"FLOW_ENTRY">>
<1>1. Fetches /\ look' \in Lexemes
  BY FetchLooks, Zenon DEF FlowEntry
<1>2. /\ flow_level \in Nat /\ tokens \in Seq(Body)
      /\ KeysOK(keys, tokens, flow_level) /\ LevelsOK(levels) /\ FlowsOK(flowing, flow_level)
  BY <1>1, FetchContext
<1>3. r \in Seq(Body) /\ queue' = tokens \o r
  <2>1. v \in Seq(Body) /\ <<"FLOW_ENTRY">> \in Seq(Body)
    BY BodyTokensIn DEF EndedKey
  <2>2. queue' = (tokens \o v) \o <<"FLOW_ENTRY">>
    BY Zenon DEF FlowEntry
  <2> HIDE DEF v
  <2> QED BY <1>2, <2>1, <2>2, ConcatAssociative, ConcatProperties
<1> HIDE DEF r
<1>4. /\ flow_level' = flow_level /\ simple_keys' = Removed(keys) /\ indents' = levels
      /\ flows' = WithPending(flowing, NoPending) /\ simple_key_allowed' = TRUE
      /\ Done(Anything) \/ Failed
  BY Zenon DEF FlowEntry
<1>5. queue' \in Seq(Body) /\ KeysOK(simple_keys', queue', flow_level')
  BY <1>2, <1>3, <1>4, RemoveStep, Zenon
<1>6. FlowsOK(flows', flow_level')
  BY <1>2, <1>4, NoPendingType, WithPendingOK
<1> QED BY <1>1, <1>2, <1>4, <1>5, <1>6, FetchStep

(* fy_fetch_block_entry()                                                  *)
LEMMA BlockEntryStep == ASSUME IInv, BlockEntry PROVE IInv'
<1> DEFINE v == Start("BLOCK_SEQUENCE_START")
           r == v \o <<"BLOCK_ENTRY">>
<1>1. Fetches /\ look' \in Lexemes
  BY FetchLooks DEF BlockEntry
<1>2. /\ flow_level \in Nat /\ look'.column \in Columns /\ tokens \in Seq(Body)
      /\ KeysOK(keys, tokens, flow_level) /\ LevelsOK(levels) /\ FlowsOK(flowing, flow_level)
  BY <1>1, FetchContext
<1>3. r \in Seq(Body) /\ queue' = tokens \o r
  <2>1. v \in Seq(Body) /\ <<"BLOCK_ENTRY">> \in Seq(Body)
    BY BodyTokensIn DEF Start
  <2>2. queue' = (tokens \o v) \o <<"BLOCK_ENTRY">>
    BY DEF BlockEntry
  <2> HIDE DEF v
  <2> QED BY <1>2, <2>1, <2>2, ConcatAssociative, ConcatProperties
<1> HIDE DEF r
<1>4. /\ flow_level' = flow_level /\ simple_keys' = Removed(keys)
      /\ indents' = Opened(look'.column, FALSE)
      /\ flows' = flowing /\ simple_key_allowed' = TRUE /\ Done(Anything)
  BY DEF BlockEntry
<1>5. queue' \in Seq(Body) /\ KeysOK(simple_keys', queue', flow_level')
  BY <1>2, <1>3, <1>4, RemoveStep, Zenon
<1>6. LevelsOK(indents')
  BY <1>2, <1>4, OpenedOK, Zenon
<1> QED BY <1>1, <1>2, <1>4, <1>5, <1>6, FetchStep, Zenon

(* fy_fetch_key()                                                          *)
LEMMA ComplexKeyStep == ASSUME IInv, ComplexKey PROVE IInv'
<1> DEFINE v == Start("BLOCK_MAPPING_START")
           r == v \o <<"KEY">>
           p == [column |-> look'.column, old |-> FALSE]
<1>1. Fetches /\ look' \in Lexemes
  BY FetchLooks DEF ComplexKey
<1>2. /\ flow_level \in Nat /\ look'.column \in Columns /\ tokens \in Seq(Body)
      /\ KeysOK(keys, tokens, flow_level) /\ LevelsOK(levels) /\ FlowsOK(flowing, flow_level)
  BY <1>1, FetchContext
<1>3. r \in Seq(Body) /\ queue' = tokens \o r
  <2>1. v \in Seq(Body) /\ <<"KEY">> \in Seq(Body)
    BY BodyTokensIn DEF Start
  <2>2. queue' = (tokens \o v) \o <<"KEY">>
    BY DEF ComplexKey
  <2> HIDE DEF v
  <2> QED BY <1>2, <2>1, <2>2, ConcatAssociative, ConcatProperties
<1> HIDE DEF r
<1>4. /\ flow_level' = flow_level /\ simple_keys' = Removed(keys)
      /\ indents' = Opened(look'.column, TRUE) /\ flows' = WithPending(flowing, p)
      /\ simple_key_allowed' = (flow_level = 0) /\ Done(Anything)
  BY DEF ComplexKey
<1>5. queue' \in Seq(Body) /\ KeysOK(simple_keys', queue', flow_level')
  BY <1>2, <1>3, <1>4, RemoveStep, Zenon
<1>6. LevelsOK(indents') /\ simple_key_allowed' \in BOOLEAN
  BY <1>2, <1>4, OpenedOK, Zenon
<1>7. FlowsOK(flows', flow_level')
  <2>1. p \in Pendings
    BY <1>2 DEF Pendings
  <2> HIDE DEF p
  <2> QED BY <1>2, <1>4, <2>1, WithPendingOK
<1> QED BY <1>1, <1>4, <1>5, <1>6, <1>7, FetchStep, Zenon

(* The key that fy_fetch_value() takes from the head of the keys.          *)
LEMMA UseKeyOK ==
  ASSUME NEW q, NEW fl, NEW ks, KeysOK(ks, q, fl)
  PROVE  /\ KeysOK(UseKey(ks), q, fl)
         /\ HasKey(ks) => Head(ks).column \in Columns /\ Head(ks).token \in 1 .. Len(q)
<1>1. ks \in Seq(Keys) /\ Len(ks) \in Nat
  BY DEF KeysOK
<1>2. CASE HasKey(ks)
  <2>1. ks # << >> /\ Head(ks) = ks[1] /\ 1 \in 1 .. Len(ks) /\ 1 \in 0 .. Len(ks)
    BY <1>1, <1>2 DEF HasKey
  <2>2. UseKey(ks) = After(ks, 1)
    BY <1>1, <1>2, <2>1, TailIsSubSeq DEF UseKey, After
  <2>3. KeysOK(After(ks, 1), q, fl)
    BY <2>1, AfterOK
  <2>4. ks[1] \in Keys /\ ks[1].token \in 1 .. Len(q)
    BY <1>1, <2>1 DEF KeysOK, Points
  <2> QED BY <2>1, <2>2, <2>3, <2>4, KeyParts
<1>3. CASE ~HasKey(ks)
  BY <1>3 DEF UseKey
<1> QED BY <1>2, <1>3

(* fy_fetch_value(): the only handler that puts tokens into the middle of  *)
(* the queue.                                                              *)
LEMMA ValueStep == ASSUME IInv, Value PROVE IInv'
<1> DEFINE ks        == Purged(keys, flow_level)
           hasKey    == HasKey(ks)
           column    == IF hasKey THEN Head(ks).column ELSE look'.column
           at        == IF hasKey THEN Head(ks).token ELSE Len(tokens) + 1
           isComplex == pending.column >= 0
           final     == isComplex /\ (flow_level > 0 \/ look'.column <= pending.column)
           keyOnly   == IF isComplex THEN ~final ELSE flow_level > 0 \/ Last(levels).bmap
           new       == IF Opening(column) THEN <<"BLOCK_MAPPING_START", "KEY">>
                        ELSE IF keyOnly THEN <<"KEY">> ELSE << >>
           rest      == UseKey(ks)
<1>1. Fetches /\ look' \in Lexemes
  BY FetchLooks, Zenon DEF Value
<1>2. /\ flow_level \in Nat /\ look'.column \in Columns /\ tokens \in Seq(Body)
      /\ KeysOK(keys, tokens, flow_level) /\ LevelsOK(levels) /\ FlowsOK(flowing, flow_level)
  BY <1>1, FetchContext
<1>3. KeysOK(ks, tokens, flow_level)
  BY <1>2, PurgedOK
<1>4. /\ queue' = Inserted(tokens, at, new) /\ simple_keys' = Moved(rest, at, Len(new))
      /\ indents' = Opened(column, TRUE) /\ simple_key_allowed' = (~hasKey /\ flow_level = 0)
      /\ flows' = IF final THEN WithPending(flowing, NoPending) ELSE flowing
      /\ flow_level' = flow_level /\ Done(Anything)
  BY Zenon DEF Value, Inserted, Moved
<1>5. new \in Seq(Body)
  BY BodyTokensIn
<1> HIDE DEF ks, final, new
<1>6. KeysOK(rest, tokens, flow_level) /\ column \in Columns /\ at \in 1 .. Len(tokens) + 1
  <2>1. /\ KeysOK(rest, tokens, flow_level)
        /\ hasKey => Head(ks).column \in Columns /\ Head(ks).token \in 1 .. Len(tokens)
    BY <1>3, UseKeyOK
  <2>2. Len(tokens) \in Nat
    BY <1>2
  <2> QED BY <1>2, <2>1, <2>2
<1> HIDE DEF rest, column, at, hasKey
<1>7. queue' \in Seq(Body)
  <2>1. "VALUE" \in Body
    BY BodyTokensIn
  <2> QED BY <1>2, <1>4, <1>5, <1>6, <2>1, InsertedIs
<1>8. KeysOK(simple_keys', queue', flow_level')
  <2>1. tokens \in Seq(Tokens) /\ new \in Seq(Tokens)
    BY <1>2, <1>5 DEF Body
  <2>2. KeysOK(Moved(rest, at, Len(new)), Inserted(tokens, at, new), flow_level)
    BY <1>6, <2>1, MovedOK
  <2> QED BY <1>4, <2>2
<1>9. LevelsOK(indents')
  BY <1>2, <1>4, <1>6, OpenedOK, Zenon
<1>10. FlowsOK(flows', flow_level')
  BY <1>2, <1>4, NoPendingType, WithPendingOK
<1>11. simple_key_allowed' \in BOOLEAN
  BY <1>4
<1> QED BY <1>1, <1>4, <1>7, <1>8, <1>9, <1>10, <1>11, FetchStep, Zenon

(* The end of every handler whose token may start a simple key.            *)
LEMMA KeyStartStep ==
  ASSUME IInv, Fetches, look' \in Lexemes, NEW t \in KeyStarts, QueueKeyStart(t),
         NEW S \in SUBSET Anything, Done(S)
  PROVE  IInv'
<1>1. /\ flow_level \in Nat /\ look'.column \in Columns /\ tokens \in Seq(Body)
      /\ KeysOK(keys, tokens, flow_level) /\ LevelsOK(levels) /\ FlowsOK(flowing, flow_level)
  BY FetchContext
<1>2. /\ queue' = Append(tokens, t) /\ flow_level' = flow_level
      /\ simple_keys' = Saved(keys, Key(Len(queue'), FALSE, FALSE))
      /\ flows' = SavePending /\ simple_key_allowed' = FALSE /\ indents' = levels
  BY DEF QueueKeyStart
<1>3. queue' \in Seq(Body) /\ KeysOK(simple_keys', queue', flow_level')
  BY <1>1, <1>2, SaveStep, Zenon
<1>4. FlowsOK(flows', flow_level')
  BY <1>1, <1>2, SavePendingOK
<1>5. LevelsOK(indents') /\ simple_key_allowed' \in BOOLEAN
  BY <1>1, <1>2, Zenon
<1> QED BY <1>3, <1>4, <1>5, FetchStep

(* fy_fetch_anchor_or_alias() and fy_fetch_tag()                           *)
LEMMA PropertyStep == ASSUME IInv, AnchorOrAlias \/ Tag PROVE IInv'
<1>1. Anything \in SUBSET Anything /\ NoDash \in SUBSET Anything
  BY DEF NoDash
<1>2. "ALIAS" \in KeyStarts /\ "ANCHOR" \in KeyStarts /\ "TAG_DEF" \in KeyStarts
  BY BodyTokensIn
<1>3. CASE Fetch({"*"}) /\ QueueKeyStart("ALIAS") /\ Done(Anything)
  BY <1>1, <1>2, <1>3, FetchLooks, KeyStartStep
<1>4. CASE Fetch({"&"}) /\ QueueKeyStart("ANCHOR") /\ Done(NoDash)
  BY <1>1, <1>2, <1>4, FetchLooks, KeyStartStep
<1>5. CASE Fetch({"!"}) /\ QueueKeyStart("TAG_DEF") /\ Done(NoDash)
  BY <1>1, <1>2, <1>5, FetchLooks, KeyStartStep
<1> QED BY <1>3, <1>4, <1>5 DEF AnchorOrAlias, Tag

(* fy_fetch_block_scalar()                                                 *)
LEMMA BlockScalarStep == ASSUME IInv, BlockScalar PROVE IInv'
<1>1. Fetches /\ look' \in Lexemes
  BY FetchLooks DEF BlockScalar
<1>2. /\ flow_level \in Nat /\ tokens \in Seq(Body)
      /\ KeysOK(keys, tokens, flow_level) /\ LevelsOK(levels) /\ FlowsOK(flowing, flow_level)
  BY <1>1, FetchContext
<1>3. /\ queue' = Append(tokens, "SCALAR") /\ simple_keys' = Age(Removed(keys))
      /\ simple_key_allowed' = TRUE /\ indents' = levels /\ flows' = AgeFlows(flowing)
      /\ flow_level' = flow_level /\ Done(Anything)
  BY DEF BlockScalar
<1>4. <<"SCALAR">> \in Seq(Body) /\ queue' = tokens \o <<"SCALAR">>
  <2>1. "SCALAR" \in Body
    BY BodyTokensIn
  <2> QED BY <1>2, <1>3, <2>1, AppendIsConcat
<1>5. queue' \in Seq(Body) /\ KeysOK(Removed(keys), queue', flow_level)
  BY <1>2, <1>4, RemoveStep, Zenon
<1>6. KeysOK(simple_keys', queue', flow_level')
  BY <1>3, <1>5, AgeOK
<1>7. FlowsOK(flows', flow_level')
  BY <1>2, <1>3, AgeFlowsOK
<1> QED BY <1>1, <1>2, <1>3, <1>5, <1>6, <1>7, FetchStep

(* fy_fetch_flow_scalar()                                                  *)
LEMMA FlowScalarStep == ASSUME IInv, FlowScalar PROVE IInv'
<1> DEFINE multi == look'.c = "q+"
           ks    == IF multi THEN Age(keys) ELSE keys
           S     == CASE flow_level > 0 -> Anything
                      [] flow_level = 0 /\ multi /\ pending.column < 0 -> LineEnd
                      [] OTHER -> LineEnd \cup Colon
<1>1. Fetches /\ look' \in Lexemes
  BY FetchLooks DEF FlowScalar
<1>2. /\ flow_level \in Nat /\ look'.column \in Columns /\ tokens \in Seq(Body)
      /\ KeysOK(keys, tokens, flow_level) /\ LevelsOK(levels) /\ FlowsOK(flowing, flow_level)
  BY <1>1, FetchContext
<1>3. /\ queue' = Append(tokens, "SCALAR_DQ")
      /\ simple_keys' = Saved(ks, Key(Len(queue'), multi, FALSE))
      /\ flows' = IF multi THEN AgeFlows(SavePending) ELSE SavePending
      /\ flow_level' = flow_level /\ indents' = levels /\ simple_key_allowed' = FALSE
      /\ Done(S) \/ Failed
  BY DEF FlowScalar
<1>4. multi \in BOOLEAN /\ "SCALAR_DQ" \in KeyStarts
  BY BodyTokensIn
<1>5. S \in SUBSET Anything
  BY <1>2 DEF LineEnd, Colon, Anything, Gaps
<1>6. KeysOK(ks, tokens, flow_level)
  BY <1>2, AgeOK
<1> HIDE DEF S, multi, ks
<1>7. queue' \in Seq(Body) /\ KeysOK(simple_keys', queue', flow_level')
  BY <1>2, <1>3, <1>4, <1>6, SaveStep, Zenon
<1>8. FlowsOK(flows', flow_level')
  BY <1>2, <1>3, SavePendingOK, AgeFlowsOK
<1> QED BY <1>1, <1>2, <1>3, <1>5, <1>7, <1>8, FetchStep, Zenon

(* fy_fetch_plain_scalar()                                                 *)
LEMMA PlainScalarStep == ASSUME IInv, PlainScalar PROVE IInv'
<1> DEFINE multi    == look'.c = "a+"
           noKey    == multi /\ flow_level = 0 /\ pending.column < 0
           hasLb(p) == multi \/ p
           ks(p)    == IF hasLb(p) THEN Age(keys) ELSE keys
           S(p)     == (IF p THEN LineBreak ELSE Anything \ LineBreak)
                       \ (IF noKey THEN {<<"none", ":">>, <<"line", ":">>} ELSE {})
<1>1. Fetches /\ look' \in Lexemes
  BY FetchLooks DEF PlainScalar
<1>2. /\ flow_level \in Nat /\ look'.column \in Columns /\ tokens \in Seq(Body)
      /\ KeysOK(keys, tokens, flow_level) /\ LevelsOK(levels) /\ FlowsOK(flowing, flow_level)
  BY <1>1, FetchContext
<1>3. PICK p \in BOOLEAN :
        /\ queue' = Append(tokens, "SCALAR")
        /\ simple_keys' = Saved(ks(p), Key(Len(queue'), hasLb(p), p))
        /\ flows' = IF hasLb(p) THEN AgeFlows(SavePending) ELSE SavePending
        /\ simple_key_allowed' = hasLb(p) /\ Done(S(p))
  BY Zenon DEF PlainScalar
<1>4. flow_level' = flow_level /\ indents' = levels
  BY DEF PlainScalar
<1>5. hasLb(p) \in BOOLEAN /\ "SCALAR" \in KeyStarts
  BY BodyTokensIn
<1>6. S(p) \in SUBSET Anything
  BY DEF LineBreak
<1>7. KeysOK(ks(p), tokens, flow_level)
  BY <1>2, AgeOK
<1> HIDE DEF S, hasLb, ks
<1>8. queue' \in Seq(Body) /\ KeysOK(simple_keys', queue', flow_level')
  BY <1>2, <1>3, <1>4, <1>5, <1>7, SaveStep
<1>9. FlowsOK(flows', flow_level')
  BY <1>2, <1>3, <1>4, SavePendingOK, AgeFlowsOK
<1>10. simple_key_allowed' \in BOOLEAN
  BY <1>3, <1>5
<1> QED BY <1>1, <1>2, <1>3, <1>4, <1>6, <1>8, <1>9, <1>10, FetchStep

(* Without keys nothing points into the queue.                             *)
LEMMA NoKeysOK == ASSUME NEW q, NEW fl PROVE KeysOK(<< >>, q, fl)
BY DEF KeysOK, Points, Ordered

(* Directives and document indicators close every block.                   *)
LEMMA LeaveStep ==
  ASSUME IInv, Fetches, look' \in Lexemes, LeaveBlocks
  PROVE  /\ queue \o BlockEnds(-1) \in Seq(Body) /\ simple_keys' = << >>
         /\ LevelsOK(indents') /\ FlowsOK(flows', flow_level')
<1>1. queue \in Seq(Body) /\ FlowsOK(flowing, flow_level)
  BY FetchContext
<1>2. LevelsOK(indents) /\ LevelsOK(Unroll(indents, -1))
  BY UnrollOK DEF IInv
<1>3. BlockEnds(-1) \in Seq(Body)
  BY <1>2, BlockEndsOK
<1>4. queue \o BlockEnds(-1) \in Seq(Body)
  BY <1>1, <1>3, ConcatProperties
<1> QED BY <1>1, <1>2, <1>4 DEF LeaveBlocks

(* fy_fetch_directive()                                                    *)
LEMMA DirectiveStep == ASSUME IInv, Directive PROVE IInv'
<1>1. Fetches /\ look' \in Lexemes
  BY FetchLooks DEF Directive
<1>2. PICK t \in {<<"VERSION_1_2">>, <<"TAG_DIRECTIVE_DEF">>, << >>} :
        queue' = queue \o BlockEnds(-1) \o t
  BY Zenon DEF Directive
<1>3. LeaveBlocks /\ simple_key_allowed' = TRUE /\ (Done(Anything) \/ Failed)
  BY DEF Directive
<1>4. /\ queue \o BlockEnds(-1) \in Seq(Body) /\ simple_keys' = << >>
      /\ LevelsOK(indents') /\ FlowsOK(flows', flow_level')
  BY <1>1, <1>3, LeaveStep
<1>5. QueueOK(queue', simple_keys', FALSE)
  <2> DEFINE v == "VERSION_1_2"
             d == "TAG_DIRECTIVE_DEF"
  <2>1. {v, d} \subseteq Boundary \cap Tokens /\ v # "STREAM_END" /\ d # "STREAM_END"
    BY BodyTokensIn
  <2>2. t = << >> \/ t = <<v>> \/ t = <<d>>
    OBVIOUS
  <2> HIDE DEF v, d
  <2>3. CASE t = << >>
    <3>1. queue' = queue \o BlockEnds(-1)
      BY <1>2, <1>4, <2>3, ConcatEmptySeq
    <3> QED BY <1>4, <3>1, BodyQueue
  <2>4. CASE t = <<v>>
    BY <1>2, <1>4, <2>1, <2>4, BoundaryQueue
  <2>5. CASE t = <<d>>
    BY <1>2, <1>4, <2>1, <2>5, BoundaryQueue
  <2> QED BY <2>2, <2>3, <2>4, <2>5
<1> QED BY <1>1, <1>3, <1>4, <1>5, NoKeysOK, FetchEnds

(* fy_fetch_document_indicator()                                           *)
LEMMA DocumentIndicatorStep == ASSUME IInv, DocumentIndicator PROVE IInv'
<1> DEFINE t == IF look'.c = "---" THEN "DOCUMENT_START" ELSE "DOCUMENT_END"
           S == IF look'.c = "..." THEN LineEnd ELSE Anything
<1>1. Fetches /\ look' \in Lexemes
  BY FetchLooks DEF DocumentIndicator
<1>2. t \in Boundary /\ t \in Tokens /\ t # "STREAM_END"
  BY BodyTokensIn
<1>3. /\ queue' = queue \o BlockEnds(-1) \o <<t>>
      /\ LeaveBlocks /\ simple_key_allowed' = FALSE /\ (Done(S) \/ Failed)
  BY DEF DocumentIndicator
<1>4. S \in SUBSET Anything
  BY DEF LineEnd
<1> HIDE DEF t, S
<1>5. /\ queue \o BlockEnds(-1) \in Seq(Body) /\ simple_keys' = << >>
      /\ LevelsOK(indents') /\ FlowsOK(flows', flow_level')
  BY <1>1, <1>3, LeaveStep
<1>6. QueueOK(queue', simple_keys', FALSE)
  BY <1>2, <1>3, <1>5, BoundaryQueue
<1> QED BY <1>1, <1>3, <1>4, <1>5, <1>6, NoKeysOK, FetchEnds, Zenon

(* The end of the text is a lexeme.                                        *)
LEMMA NoTextType == NoText \in Lexemes
BY ScanBounds DEF NoText, Lexemes, LexemesOf, Gaps, Columns

(* fy_fetch_stream_end()                                                   *)
LEMMA StreamEndStep == ASSUME IInv, StreamEnd PROVE IInv'
<1>1. Fetches /\ look' = NoText /\ look' \in Lexemes /\ LeaveBlocks
  BY NoTextType DEF StreamEnd
<1>2. /\ queue' = queue \o BlockEnds(-1) \o <<"STREAM_END">>
      /\ "STREAM_END" \in Boundary /\ "STREAM_END" \in Tokens
  BY BodyTokensIn DEF StreamEnd
<1>3. /\ queue \o BlockEnds(-1) \in Seq(Body) /\ simple_keys' = << >>
      /\ LevelsOK(indents') /\ FlowsOK(flows', flow_level')
  BY <1>1, LeaveStep
<1>4. stream_end_reached' = TRUE
  BY DEF StreamEnd
<1>5. QueueOK(queue', simple_keys', stream_end_reached')
  BY <1>2, <1>3, <1>4, BoundaryQueue
<1>6. KeysOK(simple_keys', queue', flow_level')
  BY <1>3, NoKeysOK
<1>7. StreamOK'
  BY <1>1, <1>3, <1>4 DEF IInv, StreamOK, StreamEnd, Fetches
<1>8. BracketsOK'
  BY <1>3, FlowsNotEmpty DEF BracketsOK
<1> QED BY <1>3, <1>5, <1>6, <1>7, <1>8 DEF IInv

-----------------------------------------------------------------------------
(* The error returns of fy_fetch_tokens() and of its handlers: what they   *)
(* leave behind is still in order.                                         *)

(* The text between two tokens is malformed.                               *)
LEMMA LexicalErrorStep == ASSUME IInv, LexicalError PROVE IInv'
<1>1. Fetches /\ Failed /\ UNCHANGED <<queue, indents, flow_level, look>>
  BY DEF LexicalError
<1>2. /\ queue \in Seq(Body) /\ KeysOK(simple_keys, queue, flow_level) /\ LevelsOK(indents)
      /\ FlowsOK(flows, flow_level) /\ look \in Lexemes /\ simple_key_allowed \in BOOLEAN
  BY <1>1, FetchesBody DEF IInv, BracketsOK, StreamOK, Fetches
<1>3. KeysOK(Age(simple_keys), queue, flow_level) /\ FlowsOK(AgeFlows(flows), flow_level)
  BY <1>2, AgeOK, AgeFlowsOK
<1>4. /\ simple_keys' \in {simple_keys, Age(simple_keys)} /\ flows' \in {flows, AgeFlows(flows)}
      /\ simple_key_allowed' \in BOOLEAN
  BY <1>2, Zenon DEF LexicalError
<1>5. KeysOK(simple_keys', queue', flow_level') /\ FlowsOK(flows', flow_level')
  BY <1>1, <1>2, <1>3, <1>4
<1> QED BY <1>1, <1>2, <1>4, <1>5, FlowsNotEmpty, FailStep, Zenon

(* A handler that refuses its lexeme at once.                              *)
LEMMA RefuseStep == ASSUME IInv, Refuse PROVE IInv'
<1>1. Fetches /\ look' \in Lexemes /\ FailsWith(tokens, keys, levels, flowing)
  BY FetchLooks, Zenon DEF Refuse
<1> QED BY <1>1, FetchContext, FailsWithStep, Zenon

(* What fy_save_simple_key() leaves behind a token it cannot save a key    *)
(* for.                                                                    *)
LEMMA SaveStuckOK ==
  ASSUME flow_level \in Nat, FlowsOK(flowing, flow_level), NEW ks, NEW q,
         KeysOK(ks, q, flow_level)
  PROVE  KeysOK(SaveStuck(ks), q, flow_level) /\ FlowsOK(PendStuck(ks), flow_level)
BY StuckOK, PurgedOK, SavePendingOK DEF SaveStuck, PendStuck

(* A body token queued behind those that are there.                        *)
LEMMA QueuedOK ==
  ASSUME NEW ks, NEW fl, tokens \in Seq(Body), KeysOK(ks, tokens, fl), NEW r \in Seq(Body)
  PROVE  tokens \o r \in Seq(Body) /\ KeysOK(ks, tokens \o r, fl)
<1>1. tokens \in Seq(Tokens) /\ r \in Seq(Tokens)
  BY DEF Body
<1> QED BY <1>1, GrownOK, ConcatProperties

(* One token more behind those the keys point at.                          *)
LEMMA AppendedOK ==
  ASSUME NEW ks, NEW fl, tokens \in Seq(Body), KeysOK(ks, tokens, fl), NEW t \in Body
  PROVE  Append(tokens, t) \in Seq(Body) /\ KeysOK(ks, Append(tokens, t), fl)
<1>1. <<t>> \in Seq(Body) /\ Append(tokens, t) = tokens \o <<t>>
  BY AppendIsConcat
<1> QED BY <1>1, QueuedOK, Zenon

(* A '[' or '{' that cannot be saved as a key has been queued.             *)
LEMMA FlowStartFailsStep == ASSUME IInv, FlowStartFails PROVE IInv'
<1>1. /\ Fetches /\ look' \in Lexemes
      /\ FailsWith(Append(tokens, FlowStartToken), SaveStuck(keys), levels, PendStuck(keys))
  BY FetchLooks, Zenon DEF FlowStartFails
<1>2. /\ flow_level \in Nat /\ tokens \in Seq(Body)
      /\ KeysOK(keys, tokens, flow_level) /\ LevelsOK(levels) /\ FlowsOK(flowing, flow_level)
  BY <1>1, FetchContext
<1>3. FlowStartToken \in Body
  BY BodyTokensIn DEF FlowStartToken
<1>4. KeysOK(SaveStuck(keys), tokens, flow_level) /\ FlowsOK(PendStuck(keys), flow_level)
  BY <1>2, SaveStuckOK
<1>5. /\ Append(tokens, FlowStartToken) \in Seq(Body)
      /\ KeysOK(SaveStuck(keys), Append(tokens, FlowStartToken), flow_level)
  BY <1>2, <1>3, <1>4, AppendedOK
<1> QED BY <1>1, <1>2, <1>4, <1>5, FailsWithStep

(* The bracket that closes nothing, or not what is open.                   *)
LEMMA FlowEndFailsStep == ASSUME IInv, FlowEndFails PROVE IInv'
<1>1. /\ Fetches /\ look' \in Lexemes /\ Failed /\ queue' = tokens /\ indents' = levels
      /\ flows' = flowing /\ simple_key_allowed' = allowed
  BY FetchLooks, Zenon DEF FlowEndFails
<1>2. /\ flow_level \in Nat /\ tokens \in Seq(Body)
      /\ KeysOK(keys, tokens, flow_level) /\ LevelsOK(levels) /\ FlowsOK(flowing, flow_level)
  BY <1>1, FetchContext
<1>3. allowed \in BOOLEAN
  BY DEF IInv, StreamOK, allowed
<1>4. KeysOK(simple_keys', queue', flow_level') /\ flow_level' \in Nat
  <2>1. CASE RemoveFails(keys)
    <3>1. simple_keys' = RemoveStuck(keys) /\ flow_level' = flow_level
      BY <2>1, Zenon DEF FlowEndFails
    <3> QED BY <1>1, <1>2, <2>1, <3>1, RemoveStuckOK
  <2>2. CASE ~RemoveFails(keys)
    <3>1. /\ simple_keys' = Removed(keys)
          /\ flow_level' = IF flow_level > 0 THEN flow_level - 1 ELSE 0
      BY <2>2, Zenon DEF FlowEndFails
    <3>2. KeysOK(Removed(keys), tokens, flow_level) /\ KeysOK(Removed(keys), tokens, flow_level - 1)
      BY <1>2, RemovedOK
    <3>3. CASE flow_level > 0
      BY <1>1, <1>2, <3>1, <3>2, <3>3
    <3>4. CASE ~(flow_level > 0)
      <4>1. flow_level' = flow_level
        BY <1>2, <3>1, <3>4
      <4> QED BY <1>1, <1>2, <3>1, <3>2, <4>1, Zenon
    <3> QED BY <3>3, <3>4
  <2> QED BY <2>1, <2>2
<1> QED BY <1>1, <1>2, <1>3, <1>4, FlowsNotEmpty, FailStep, Zenon

(* A ',' behind a required key: what ends '? a' has been queued.           *)
LEMMA FlowEntryFailsStep == ASSUME IInv, FlowEntryFails PROVE IInv'
<1>1. /\ Fetches /\ look' \in Lexemes /\ RemoveFails(keys)
      /\ FailsWith(tokens \o EndedKey, RemoveStuck(keys), levels, WithPending(flowing, NoPending))
  BY FetchLooks, Zenon DEF FlowEntryFails
<1>2. /\ flow_level \in Nat /\ tokens \in Seq(Body)
      /\ KeysOK(keys, tokens, flow_level) /\ LevelsOK(levels) /\ FlowsOK(flowing, flow_level)
  BY <1>1, FetchContext
<1>3. EndedKey \in Seq(Body)
  BY BodyTokensIn DEF EndedKey
<1>4. KeysOK(RemoveStuck(keys), tokens, flow_level)
  BY <1>1, <1>2, RemoveStuckOK
<1>5. FlowsOK(WithPending(flowing, NoPending), flow_level)
  BY <1>2, NoPendingType, WithPendingOK
<1>6. /\ tokens \o EndedKey \in Seq(Body)
      /\ KeysOK(RemoveStuck(keys), tokens \o EndedKey, flow_level)
  BY <1>2, <1>3, <1>4, QueuedOK
<1> QED BY <1>1, <1>2, <1>5, <1>6, FailsWithStep

(* A '-' behind a required key: the sequence has been opened.              *)
LEMMA BlockEntryFailsStep == ASSUME IInv, BlockEntryFails PROVE IInv'
<1> DEFINE r == Start("BLOCK_SEQUENCE_START")
<1>1. /\ Fetches /\ look' \in Lexemes
      /\ FailsWith(tokens \o r, keys, Opened(look'.column, FALSE), flowing)
  BY FetchLooks, Zenon DEF BlockEntryFails
<1>2. /\ flow_level \in Nat /\ look'.column \in Columns /\ tokens \in Seq(Body)
      /\ KeysOK(keys, tokens, flow_level) /\ LevelsOK(levels) /\ FlowsOK(flowing, flow_level)
  BY <1>1, FetchContext
<1>3. r \in Seq(Body)
  BY BodyTokensIn DEF Start
<1>4. LevelsOK(Opened(look'.column, FALSE))
  BY <1>2, OpenedOK, Zenon
<1> HIDE DEF r
<1>5. tokens \o r \in Seq(Body) /\ KeysOK(keys, tokens \o r, flow_level)
  BY <1>2, <1>3, QueuedOK
<1> QED BY <1>1, <1>2, <1>4, <1>5, FailsWithStep

(* A '?' behind a required key: the mapping has been opened.               *)
LEMMA ComplexKeyFailsStep == ASSUME IInv, ComplexKeyFails PROVE IInv'
<1> DEFINE r == Start("BLOCK_MAPPING_START")
<1>1. /\ Fetches /\ look' \in Lexemes /\ RemoveFails(keys)
      /\ FailsWith(tokens \o r, RemoveStuck(keys), Opened(look'.column, TRUE), flowing)
  BY FetchLooks, Zenon DEF ComplexKeyFails
<1>2. /\ flow_level \in Nat /\ look'.column \in Columns /\ tokens \in Seq(Body)
      /\ KeysOK(keys, tokens, flow_level) /\ LevelsOK(levels) /\ FlowsOK(flowing, flow_level)
  BY <1>1, FetchContext
<1>3. r \in Seq(Body)
  BY BodyTokensIn DEF Start
<1>4. LevelsOK(Opened(look'.column, TRUE))
  BY <1>2, OpenedOK, Zenon
<1>5. KeysOK(RemoveStuck(keys), tokens, flow_level)
  BY <1>1, <1>2, RemoveStuckOK
<1> HIDE DEF r
<1>6. tokens \o r \in Seq(Body) /\ KeysOK(RemoveStuck(keys), tokens \o r, flow_level)
  BY <1>2, <1>3, <1>5, QueuedOK
<1> QED BY <1>1, <1>2, <1>4, <1>6, FailsWithStep

(* A block scalar that is malformed, or behind a required key.             *)
LEMMA BlockScalarFailsStep == ASSUME IInv, BlockScalarFails PROVE IInv'
<1>1. /\ Fetches /\ look' \in Lexemes /\ Failed /\ queue' = tokens /\ indents' = levels
      /\ flows' = flowing /\ flow_level' = flow_level
  BY FetchLooks, Zenon DEF BlockScalarFails
<1>2. /\ flow_level \in Nat /\ tokens \in Seq(Body)
      /\ KeysOK(keys, tokens, flow_level) /\ LevelsOK(levels) /\ FlowsOK(flowing, flow_level)
  BY <1>1, FetchContext
<1>3. allowed \in BOOLEAN
  BY DEF IInv, StreamOK, allowed
<1>4. KeysOK(simple_keys', queue', flow_level') /\ simple_key_allowed' \in BOOLEAN
  <2>1. CASE RemoveFails(keys)
    <3>1. simple_keys' = RemoveStuck(keys) /\ simple_key_allowed' = allowed
      BY <2>1, Zenon DEF BlockScalarFails
    <3> QED BY <1>1, <1>2, <1>3, <2>1, <3>1, RemoveStuckOK
  <2>2. CASE ~RemoveFails(keys)
    <3>1. simple_keys' = Removed(keys) /\ simple_key_allowed' = TRUE
      BY <2>2, Zenon DEF BlockScalarFails
    <3> QED BY <1>1, <1>2, <3>1, RemovedOK
  <2> QED BY <2>1, <2>2
<1> QED BY <1>1, <1>2, <1>4, FlowsNotEmpty, FailStep, Zenon

(* The ':' behind a stale required key, or out of place.                   *)
LEMMA ValueFailsStep == ASSUME IInv, ValueFails PROVE IInv'
<1> DEFINE ks == Purged(keys, flow_level)
<1>1. /\ Fetches /\ look' \in Lexemes
      /\ \/ FailsWith(tokens, Stuck(keys), levels, flowing)
         \/ FailsWith(tokens, UseKey(ks), levels, flowing)
  BY FetchLooks, Zenon DEF ValueFails
<1>2. /\ flow_level \in Nat /\ tokens \in Seq(Body)
      /\ KeysOK(keys, tokens, flow_level) /\ LevelsOK(levels) /\ FlowsOK(flowing, flow_level)
  BY <1>1, FetchContext
<1>3. KeysOK(Stuck(keys), tokens, flow_level) /\ KeysOK(ks, tokens, flow_level)
  BY <1>2, StuckOK, PurgedOK
<1> HIDE DEF ks
<1>4. KeysOK(UseKey(ks), tokens, flow_level)
  BY <1>3, UseKeyOK
<1>5. CASE FailsWith(tokens, Stuck(keys), levels, flowing)
  BY <1>1, <1>2, <1>3, <1>5, FailsWithStep
<1>6. CASE FailsWith(tokens, UseKey(ks), levels, flowing)
  BY <1>1, <1>2, <1>4, <1>6, FailsWithStep
<1> QED BY <1>1, <1>5, <1>6

(* The tokens that may start a simple key, queued and not saved.           *)
LEMMA QueuedFailsStep ==
  ASSUME IInv, Fetches, look' \in Lexemes, NEW t \in Body, NEW aged \in BOOLEAN,
         QueuedFails(t, aged)
  PROVE  IInv'
<1> DEFINE ks      == IF aged THEN Age(keys) ELSE keys
           Aged(f) == IF aged THEN AgeFlows(f) ELSE f
<1>1. /\ flow_level \in Nat /\ tokens \in Seq(Body)
      /\ KeysOK(keys, tokens, flow_level) /\ LevelsOK(levels) /\ FlowsOK(flowing, flow_level)
  BY FetchContext
<1>2. \/ FailsWith(Append(tokens, t), ks, levels, Aged(flowing))
      \/ FailsWith(Append(tokens, t), SaveStuck(ks), levels, Aged(PendStuck(ks)))
  BY Zenon DEF QueuedFails
<1>3. KeysOK(ks, tokens, flow_level)
  BY <1>1, AgeOK
<1> HIDE DEF ks
<1>4. KeysOK(SaveStuck(ks), tokens, flow_level) /\ FlowsOK(PendStuck(ks), flow_level)
  BY <1>1, <1>3, SaveStuckOK
<1>5. FlowsOK(Aged(flowing), flow_level) /\ FlowsOK(Aged(PendStuck(ks)), flow_level)
  BY <1>1, <1>4, AgeFlowsOK
<1> HIDE DEF Aged
<1>6. /\ Append(tokens, t) \in Seq(Body) /\ KeysOK(ks, Append(tokens, t), flow_level)
      /\ KeysOK(SaveStuck(ks), Append(tokens, t), flow_level)
  BY <1>1, <1>3, <1>4, AppendedOK
<1>7. CASE FailsWith(Append(tokens, t), ks, levels, Aged(flowing))
  BY <1>1, <1>5, <1>6, <1>7, FailsWithStep
<1>8. CASE FailsWith(Append(tokens, t), SaveStuck(ks), levels, Aged(PendStuck(ks)))
  BY <1>1, <1>5, <1>6, <1>8, FailsWithStep
<1> QED BY <1>2, <1>7, <1>8

(* An alias, an anchor or a tag.                                           *)
LEMMA PropertyFailsStep == ASSUME IInv, PropertyFails PROVE IInv'
<1> DEFINE t == CASE look'.c = "*" -> "ALIAS" [] look'.c = "&" -> "ANCHOR"
                  [] look'.c = "!" -> "TAG_DEF"
<1>1. /\ Fetches /\ look' \in Lexemes /\ look'.c \in {"*", "&", "!"}
      /\ QueuedFails(t, FALSE)
  BY FetchLooks, Zenon DEF PropertyFails
<1>2. t \in Body
  BY <1>1, BodyTokensIn
<1> HIDE DEF t
<1> QED BY <1>1, <1>2, QueuedFailsStep

(* A quoted or a plain scalar.                                             *)
LEMMA ScalarFailsStep == ASSUME IInv, ScalarFails PROVE IInv'
<1>1. /\ Fetches /\ look' \in Lexemes
      /\ QueuedFails(ScalarToken, FALSE) \/ QueuedFails(ScalarToken, TRUE)
  BY FetchLooks, Zenon DEF ScalarFails
<1>2. ScalarToken \in Body
  BY BodyTokensIn DEF ScalarToken
<1> QED BY <1>1, <1>2, QueuedFailsStep

(* Every fetch that fails keeps the invariant.                             *)
LEMMA ScanFailsStep == ASSUME IInv, ScanFails PROVE IInv'
BY FlowStartFailsStep, FlowEndFailsStep, FlowEntryFailsStep, BlockEntryFailsStep,
   ComplexKeyFailsStep, ValueFailsStep, PropertyFailsStep, BlockScalarFailsStep,
   ScalarFailsStep, LexicalErrorStep, RefuseStep DEF ScanFails

(* The scanner: one step per handler.                                      *)
LEMMA ScanStep == ASSUME IInv, Scan PROVE IInv'
BY FlowStartStep, FlowEndStep, FlowEntryStep, BlockEntryStep, ComplexKeyStep,
   ValueStep, PropertyStep, BlockScalarStep, FlowScalarStep, PlainScalarStep,
   DirectiveStep, DocumentIndicatorStep, StreamEndStep, ScanFailsStep
   DEF Scan

(* An input is opened either before its text has been started, or when the *)
(* one before has ended: the queue is empty or dropped, and no key left.   *)
LEMMA OpenInputStep == ASSUME IInv, OpenInput PROVE IInv'
<1> DEFINE q == IF stream_end_produced THEN << >> ELSE queue
<1>1. /\ queue' = q \o <<"STREAM_START">>
      /\ UNCHANGED <<simple_keys, indents, flow_level, flows, last_was_comma, stream_error>>
      /\ simple_key_allowed' = TRUE /\ stream_start_produced' = FALSE
      /\ stream_end_produced' = FALSE /\ stream_end_reached' = FALSE
  BY DEF OpenInput
<1>2. simple_keys = << >> /\ simple_keys' = << >>
  BY <1>1 DEF IInv, StreamOK, OpenInput, Restarts
<1>3. q \in Seq(Body)
  <2>1. q = << >>
    BY <1>2 DEF OpenInput, Restarts, Ready
  <2>2. << >> \in Seq(Body)
    OBVIOUS
  <2> HIDE DEF q
  <2> QED BY <2>1, <2>2, Zenon
<1>4. "STREAM_START" \in Boundary /\ "STREAM_START" \in Tokens
  BY BodyTokensIn
<1> HIDE DEF q
<1>5. QueueOK(queue', simple_keys', stream_end_reached')
  BY <1>1, <1>2, <1>3, <1>4, BoundaryQueue
<1>6. KeysOK(simple_keys', queue', flow_level')
  BY <1>2, NoKeysOK
<1>7. StreamOK'
  <2>1. LineBreak \cup {<<"none", "EOF">>} \subseteq Anything
    BY DEF LineBreak, Anything, Gaps
  <2>2. look' \in Lexemes /\ ahead' \subseteq Anything
    BY NoTextType, <2>1 DEF IInv, StreamOK, OpenInput
  <2>3. current' \in BOOLEAN /\ inputs' \in Nat /\ json' \in BOOLEAN
    <3>1. current \in BOOLEAN /\ inputs \in Nat /\ json \in BOOLEAN
      BY DEF IInv, StreamOK
    <3>2. CASE current
      BY <3>1, <3>2 DEF OpenInput
    <3>3. CASE ~current
      <4>1. inputs > 0 /\ inputs' = inputs - 1 /\ current' = TRUE /\ json' \in BOOLEAN
        BY <3>3 DEF OpenInput
      <4> QED BY <3>1, <4>1
    <3> QED BY <3>2, <3>3
  <2> QED BY <1>1, <1>2, <2>2, <2>3, Zenon DEF IInv, StreamOK
<1> QED BY <1>1, <1>5, <1>6, <1>7 DEF IInv, BracketsOK

(* A queue from which the first token is taken, and one that begins with a *)
(* boundary.                                                               *)
LEMMA TailQueue ==
  ASSUME NEW q, NEW ks, NEW ended, QueueOK(q, ks, ended), q # << >>
  PROVE  QueueOK(Tail(q), ks, ended)
<1> DEFINE r == Tail(q)
<1>1. q \in Seq(Tokens)
  BY DEF QueueOK
<1>2. /\ r \in Seq(Tokens) /\ Len(r) = Len(q) - 1 /\ Len(q) \in Nat
      /\ \A i \in 1 .. Len(r) : r[i] = q[i + 1]
  BY <1>1, HeadTailProperties, LenProperties
<1> HIDE DEF r
<1>3. ASSUME NEW i \in 1 .. Len(r)
      PROVE  i + 1 \in 1 .. Len(q) /\ (i + 1 = Len(q) => i = Len(r))
  BY <1>2
<1>4. QueueOK(r, ks, ended)
  BY <1>2, <1>3 DEF QueueOK
<1> QED BY <1>4 DEF r

(* A boundary at the head of the queue is alone in it.                     *)
LEMMA BoundaryAtHead ==
  ASSUME NEW q, NEW ks, NEW ended, QueueOK(q, ks, ended), q # << >>, Head(q) \in Boundary
  PROVE  /\ Len(q) = 1 /\ q = <<Head(q)>> /\ ks = << >>
         /\ Head(q) = "STREAM_END" => ended
<1>1. q \in Seq(Tokens) /\ Len(q) \in Nat /\ Len(q) # 0 /\ Head(q) = q[1]
  BY EmptySeq, LenProperties DEF QueueOK
<1>2. Len(q) = 1 /\ ks = << >> /\ (Head(q) = "STREAM_END" => ended)
  <2>1. 1 \in 1 .. Len(q) /\ q[1] \in Boundary
    BY <1>1
  <2>2. \A i \in 1 .. Len(q) : q[i] \in Boundary =>
          i = Len(q) /\ ks = << >> /\ (q[i] = "STREAM_END" => ended)
    BY DEF QueueOK
  <2> QED BY <1>1, <2>1, <2>2, Zenon
<1>3. q = <<Head(q)>>
  BY <1>1, <1>2
<1> QED BY <1>2, <1>3

(* A token is handed out only when no key points into the queue.           *)
LEMMA TakeStep == ASSUME IInv, Take PROVE IInv'
<1>1. /\ queue # << >> /\ simple_keys = << >> /\ queue' = Tail(queue)
      /\ Produces(Head(queue))
      /\ UNCHANGED <<contextVars, json, stream_end_reached, inputs, stream_error, look, ahead>>
  BY DEF Take, Ready
<1>2. QueueOK(queue', simple_keys', stream_end_reached')
  BY <1>1, TailQueue DEF IInv, contextVars
<1>3. KeysOK(simple_keys', queue', flow_level')
  BY <1>1, NoKeysOK DEF contextVars
<1>4. Head(queue) = "STREAM_END" => stream_end_reached
  BY <1>1, BoundaryAtHead DEF IInv, Boundary
<1>5. StreamOK'
  BY <1>1, <1>4 DEF IInv, StreamOK, Produces, contextVars
<1> QED BY <1>1, <1>2, <1>3, <1>5 DEF IInv, BracketsOK, contextVars

-----------------------------------------------------------------------------
(* fy_parse_setup() establishes the invariant.                             *)
LEMMA SetupInv == Init /\ inputs \in Nat => IInv
<1> SUFFICES ASSUME Init, inputs \in Nat PROVE IInv
  OBVIOUS
<1> USE DEF Init
<1>1. QueueOK(queue, simple_keys, stream_end_reached)
  BY DEF QueueOK
<1>2. KeysOK(simple_keys, queue, flow_level)
  BY NoKeysOK
<1>3. LevelsOK(indents)
  <2>1. NoIndent \in Levels /\ NoIndent.indent = -2
    BY DEF NoIndent, Levels
  <2> QED BY <2>1 DEF LevelsOK
<1>4. BracketsOK
  <2>1. NoFlow \in Brackets
    BY NoPendingType DEF NoFlow, Brackets
  <2> QED BY <2>1 DEF FlowsOK, BracketsOK
<1>5. StreamOK
  <2>1. look \in Lexemes
    BY NoTextType
  <2> QED BY <2>1, Zenon DEF StreamOK
<1> QED BY <1>1, <1>2, <1>3, <1>4, <1>5 DEF IInv

(* fy_parse_setup()                                                        *)
LEMMA InitInv == ScanInit => IInv
BY SetupInv DEF ScanInit

(* Every step keeps it.                                                    *)
LEMMA StepInv == IInv /\ [Next]_vars => IInv'
<1> SUFFICES ASSUME IInv, [Next]_vars PROVE IInv'
  OBVIOUS
<1>1. CASE Take
  BY <1>1, TakeStep
<1>2. CASE Scan
  BY <1>2, ScanStep
<1>3. CASE OpenInput
  BY <1>3, OpenInputStep
<1>4. CASE UNCHANGED vars
  BY <1>4 DEF IInv, BracketsOK, StreamOK, vars, scanVars, contextVars, streamVars
<1> QED BY <1>1, <1>2, <1>3, <1>4 DEF Next

(* It implies the properties that scan_text checks.                        *)
LEMMA InvImplies == IInv => TypeOK /\ KeysAnchored /\ IndentsIncrease
<1> SUFFICES ASSUME IInv PROVE TypeOK /\ KeysAnchored /\ IndentsIncrease
  OBVIOUS
<1>1. /\ queue \in Seq(Tokens) /\ simple_keys \in Seq(Keys) /\ indents \in Seq(Levels)
      /\ flows \in Seq(Brackets) /\ flows # << >> /\ flow_level \in Nat
  BY DEF IInv, QueueOK, KeysOK, LevelsOK, BracketsOK
<1>2. TypeOK
  BY <1>1 DEF TypeOK, IInv, LevelsOK, StreamOK
<1>3. KeysAnchored
  <2>1. DOMAIN simple_keys = 1 .. Len(simple_keys) /\ DOMAIN queue = 1 .. Len(queue)
    BY <1>1, LenProperties
  <2>2. Points(simple_keys, queue, flow_level) /\ Ordered(simple_keys)
    BY DEF IInv, KeysOK
  <2> QED BY <2>1, <2>2, Zenon DEF KeysAnchored, Points, Ordered
<1>4. IndentsIncrease
  BY <1>1 DEF IndentsIncrease, IInv, LevelsOK
<1> QED BY <1>2, <1>3, <1>4

(* So it holds in every state of every behaviour.                          *)
LEMMA Invariant == Spec => []IInv
BY InitInv, StepInv, PTL DEF Spec

(* For every text, and in every state an error leaves behind, the          *)
(* scanner's variables keep their types: the flow level is never negative, *)
(* and neither the indent stack nor the flow stack is ever emptied,        *)
(* whatever the text closes, and however deep it nests.                    *)
THEOREM ScanTypeCorrect == Spec => []TypeOK
BY Invariant, InvImplies, PTL

(* For every text, and however many tokens fy_fetch_value() puts in front  *)
(* of others, every simple key points at a queued token that can begin a   *)
(* key, with at most one key per flow level, inner keys first.             *)
THEOREM ScanKeysAnchored == Spec => []KeysAnchored
BY Invariant, InvImplies, PTL

(* For every text the indent stack grows strictly towards its top, also    *)
(* when fy_push_indent() opens a level at the column of an old key.        *)
THEOREM ScanIndentsIncrease == Spec => []IndentsIncrease
BY Invariant, InvImplies, PTL

-----------------------------------------------------------------------------
(***************************************************************************)
(* What NestedBy makes of lists of tokens.                                 *)
(***************************************************************************)

Words   == {"seq", "map", "[", "{", "none", "bad"}
Neutral == Tokens \ (BlockStarts \cup FlowStarts \cup FlowEnds \cup {"BLOCK_END"})

(* The tokens that neither open nor close anything.                        *)
LEMMA NeutralTokens ==
  /\ {"VALUE", "FLOW_ENTRY", "BLOCK_ENTRY", "KEY", "ALIAS", "ANCHOR", "TAG_DEF",
      "SCALAR", "SCALAR_DQ", "VERSION_1_2", "TAG_DIRECTIVE_DEF", "DOCUMENT_START",
      "DOCUMENT_END", "STREAM_START", "STREAM_END"} \subseteq Neutral
  /\ Neutral \subseteq Tokens
  /\ BlockStarts \subseteq Tokens /\ FlowStarts \subseteq Tokens /\ FlowEnds \subseteq Tokens
BY DEF Neutral, Tokens, BodyTokens, Directives, VersionDirectives, TagDirectives, Tags,
       Scalars, FlowStarts, FlowEnds, BlockStarts, DocumentMarkers

-----------------------------------------------------------------------------
(* Numbers and lists, and induction over sets of them.                     *)

(* A set with 0 and the successor of each of its numbers has them all.     *)
LEMMA SetInduction ==
  ASSUME NEW S, 0 \in S, \A n \in Nat : n \in S => n + 1 \in S
  PROVE  \A n \in Nat : n \in S
<1> SUFFICES ASSUME NEW k \in Nat, k \notin S PROVE FALSE
  OBVIOUS
<1> DEFINE T == Nat \ S
<1>1. T \in SUBSET Nat /\ T # {}
  OBVIOUS
<1>2. PICK x \in T : \A y \in T : x <= y
  BY <1>1, LeastNatural, Zenon
<1>3. x \in Nat /\ x # 0 /\ x \notin S
  OBVIOUS
<1>4. x - 1 \in Nat /\ x - 1 < x /\ (x - 1) + 1 = x
  BY <1>3
<1>5. x - 1 \in S
  BY <1>2, <1>4
<1> QED BY <1>3, <1>4, <1>5

(* A set with the empty list, and with every list that has an item more    *)
(* than one of it, has all lists.                                          *)
LEMMA ListInduction ==
  ASSUME NEW S, NEW P, << >> \in P,
         \A s \in Seq(S), x \in S : s \in P => Append(s, x) \in P
  PROVE  \A s \in Seq(S) : s \in P
<1> DEFINE N == {n \in Nat : \A s \in Seq(S) : Len(s) = n => s \in P}
<1>1. 0 \in N
  <2>1. ASSUME NEW s \in Seq(S), Len(s) = 0 PROVE s \in P
    <3>1. s = << >>
      BY <2>1, EmptySeq
    <3> QED BY <3>1
  <2> QED BY <2>1
<1>2. ASSUME NEW n \in Nat, n \in N PROVE n + 1 \in N
  <2>1. ASSUME NEW s \in Seq(S), Len(s) = n + 1 PROVE s \in P
    <3>1. s # << >>
      BY <2>1, EmptySeq
    <3>2. PICK r \in Seq(S) : \E x \in S : s = Append(r, x)
      BY <3>1, SequenceEmptyOrAppend
    <3>3. PICK x \in S : s = Append(r, x)
      BY <3>2
    <3>4. Len(s) = Len(r) + 1 /\ Len(r) \in Nat
      BY <3>3, AppendProperties, LenProperties
    <3>5. Len(r) = n
      BY <2>1, <3>4
    <3>6. r \in P
      BY <1>2, <3>5
    <3> QED BY <3>3, <3>6
  <2> QED BY <2>1
<1> HIDE DEF N
<1>3. \A n \in Nat : n \in N
  BY <1>1, <1>2, SetInduction
<1>4. ASSUME NEW s \in Seq(S) PROVE s \in P
  <2>1. Len(s) \in N
    BY <1>3, LenProperties
  <2> QED BY <2>1 DEF N
<1> QED BY <1>4

-----------------------------------------------------------------------------
(* One token.                                                              *)

(* The last item of a list and the others.                                 *)
LEMMA AppendParts ==
  ASSUME NEW S, NEW s \in Seq(S), NEW x \in S
  PROVE  /\ Append(s, x) # << >> /\ Last(Append(s, x)) = x
         /\ Front(Append(s, x)) = s
<1> DEFINE z == Append(s, x)
           n == Len(s)
<1>1. /\ n \in Nat /\ z \in Seq(S) /\ Len(z) = n + 1 /\ z[n + 1] = x /\ z # << >>
      /\ \A i \in 1 .. n : z[i] = s[i]
  BY AppendProperties, LenProperties
<1>2. Front(z) = SubSeq(z, 1, n)
  <2> HIDE DEF z, n
  <2> QED BY <1>1 DEF Front
<1>3. Last(z) = x
  <2> HIDE DEF z, n
  <2> QED BY <1>1 DEF Last
<1>4. SubSeq(z, 1, n) = s
  <2> DEFINE f == SubSeq(z, 1, n)
  <2>1. \A i \in 1 .. n : z[i] \in S
    <3> HIDE DEF z, n
    <3>1. \A i \in 1 .. n : i \in 1 .. Len(z)
      BY <1>1
    <3> QED BY <1>1, <3>1, ElementOfSeq
  <2>2. /\ f \in Seq(S) /\ Len(f) = (IF 1 <= n THEN n - 1 + 1 ELSE 0)
        /\ \A i \in 1 .. n - 1 + 1 : f[i] = z[1 + i - 1]
    BY <1>1, <2>1, SubSeqProperties
  <2> HIDE DEF f, z
  <2>3. Len(f) = Len(s)
    BY <1>1, <2>2
  <2>4. ASSUME NEW i \in 1 .. Len(f) PROVE f[i] = s[i]
    <3>1. i \in 1 .. n - 1 + 1 /\ 1 + i - 1 = i /\ i \in 1 .. n
      BY <1>1, <2>3
    <3> QED BY <1>1, <2>2, <3>1
  <2>5. f = s
    BY <2>2, <2>3, <2>4, SeqEqual
  <2> QED BY <2>5 DEF f, z
<1> QED BY <1>1, <1>2, <1>3, <1>4

(* What opens, what closes and what does neither.                          *)
LEMMA NestedOpens ==
  ASSUME NEW s, NEW t \in BlockStarts \cup FlowStarts
  PROVE  Nested(s, t) = Append(s, OpenedBy(t)) /\ OpenedBy(t) \in Words
<1>1. Nested(s, t) = Append(s, OpenedBy(t))
  <2>1. t \notin FlowEnds \cup {"BLOCK_END"}
    BY DEF BlockStarts, FlowStarts, FlowEnds
  <2> QED BY <2>1 DEF Nested
<1>2. OpenedBy(t) \in Words
  <2>1. OpenedBy(t) \in {"seq", "map", "[", "{"}
    BY Zenon DEF OpenedBy, BlockStarts, FlowStarts
  <2> QED BY <2>1, Zenon DEF Words
<1> QED BY <1>1, <1>2

(* A closing token takes back what it matches.                             *)
LEMMA NestedCloses ==
  ASSUME NEW s \in Seq(Words), NEW t \in FlowEnds \cup {"BLOCK_END"},
         NEW w \in ClosedBy(t)
  PROVE  Nested(Append(s, w), t) = s
<1>1. w \in Words
  BY Zenon DEF ClosedBy, Words, FlowEnds
<1>2. /\ Append(s, w) # << >> /\ Last(Append(s, w)) = w
      /\ Front(Append(s, w)) = s
  BY <1>1, AppendParts
<1>3. t \notin BlockStarts \cup FlowStarts
  BY DEF BlockStarts, FlowStarts, FlowEnds
<1> QED BY <1>2, <1>3, Zenon DEF Nested

(* The other tokens change nothing.                                        *)
LEMMA NestedNeutral ==
  ASSUME NEW s, NEW t \in Neutral
  PROVE  Nested(s, t) = s
BY DEF Nested, Neutral

(* A token leaves a list of words.                                         *)
LEMMA NestedType ==
  ASSUME NEW s \in Seq(Words), NEW t \in Tokens
  PROVE  Nested(s, t) \in Seq(Words)
<1>1. CASE t \in BlockStarts \cup FlowStarts
  BY <1>1, NestedOpens, AppendProperties
<1>2. CASE t \in FlowEnds \cup {"BLOCK_END"}
  <2>1. t \notin BlockStarts \cup FlowStarts
    BY <1>2 DEF BlockStarts, FlowStarts, FlowEnds
  <2>2. "bad" \in Words
    BY Zenon DEF Words
  <2>3. Nested(s, t) = IF s # << >> /\ Last(s) \in ClosedBy(t) THEN Front(s)
                                                               ELSE Append(s, "bad")
    BY <1>2, <2>1, Zenon DEF Nested
  <2>4. Append(s, "bad") \in Seq(Words)
    BY <2>2, AppendProperties
  <2>5. s # << >> => Front(s) \in Seq(Words)
    BY DEF Front
  <2> QED BY <2>3, <2>4, <2>5, Zenon
<1>3. CASE t \in Neutral
  BY <1>3, NestedNeutral
<1> QED BY <1>1, <1>2, <1>3 DEF Neutral

-----------------------------------------------------------------------------
(* Lists of tokens.                                                        *)

(* f holds what the first 0, 1 ... n tokens of ts make of s: what NestedBy *)
(* goes through.                                                           *)
Runs(f, s, ts, n) == f = [i \in 0 .. n |-> IF i = 0 THEN s ELSE Nested(f[i - 1], ts[i])]

(* Its values.                                                             *)
LEMMA RunsItem ==
  ASSUME NEW f, NEW s, NEW ts, NEW n \in Nat, Runs(f, s, ts, n)
  PROVE  \A i \in 0 .. n : f[i] = IF i = 0 THEN s ELSE Nested(f[i - 1], ts[i])
<1> DEFINE g == [i \in 0 .. n |-> IF i = 0 THEN s ELSE Nested(f[i - 1], ts[i])]
<1>1. f = g
  BY DEF Runs
<1>2. \A i \in 0 .. n : g[i] = IF i = 0 THEN s ELSE Nested(f[i - 1], ts[i])
  OBVIOUS
<1> HIDE DEF g
<1> QED BY <1>1, <1>2

(* There is such a function.                                               *)
LEMMA RunsExist ==
  ASSUME NEW s, NEW ts, NEW n \in Nat
  PROVE  \E f : Runs(f, s, ts, n)
<1> DEFINE S == {k \in Nat : \E f : Runs(f, s, ts, k)}
<1>1. 0 \in S
  <2> DEFINE f == [i \in 0 .. 0 |-> s]
  <2>1. f = [i \in 0 .. 0 |-> IF i = 0 THEN s ELSE Nested(f[i - 1], ts[i])]
    OBVIOUS
  <2>2. Runs(f, s, ts, 0)
    BY <2>1 DEF Runs
  <2> QED BY <2>2
<1>2. ASSUME NEW k \in Nat, k \in S PROVE k + 1 \in S
  <2>1. PICK f : Runs(f, s, ts, k)
    BY <1>2
  <2> DEFINE g == [i \in 0 .. k + 1 |-> IF i = 0 THEN s ELSE Nested(f[i - 1], ts[i])]
  <2>2. ASSUME NEW i \in 0 .. k PROVE g[i] = f[i]
    <3>1. f[i] = IF i = 0 THEN s ELSE Nested(f[i - 1], ts[i])
      BY <2>1, RunsItem
    <3>2. g[i] = IF i = 0 THEN s ELSE Nested(f[i - 1], ts[i])
      OBVIOUS
    <3> QED BY <3>1, <3>2, Zenon
  <2>3. ASSUME NEW i \in 0 .. k + 1, i # 0 PROVE g[i - 1] = f[i - 1]
    <3>1. i - 1 \in 0 .. k
      BY <2>3
    <3> HIDE DEF g
    <3> QED BY <2>2, <3>1
  <2>4. Runs(g, s, ts, k + 1)
    <3>1. g = [i \in 0 .. k + 1 |-> IF i = 0 THEN s ELSE Nested(g[i - 1], ts[i])]
      BY <2>3, Zenon
    <3> QED BY <3>1 DEF Runs
  <2> QED BY <2>4
<1> HIDE DEF S
<1>3. n \in S
  BY <1>1, <1>2, SetInduction
<1> QED BY <1>3 DEF S

(* Two of them agree where the lists do.                                   *)
LEMMA RunsAgree ==
  ASSUME NEW s, NEW ts, NEW us, NEW n \in Nat, NEW m \in Nat, n <= m,
         \A i \in 1 .. n : ts[i] = us[i],
         NEW f, NEW g, Runs(f, s, ts, n), Runs(g, s, us, m)
  PROVE  f[n] = g[n]
<1> DEFINE S == {k \in Nat : k \in 0 .. n => f[k] = g[k]}
<1>1. \A k \in 0 .. n : f[k] = IF k = 0 THEN s ELSE Nested(f[k - 1], ts[k])
  BY RunsItem
<1>2. \A k \in 0 .. m : g[k] = IF k = 0 THEN s ELSE Nested(g[k - 1], us[k])
  BY RunsItem
<1>3. 0 \in S
  BY <1>1, <1>2
<1>4. ASSUME NEW k \in Nat, k \in S PROVE k + 1 \in S
  <2> SUFFICES ASSUME k + 1 \in 0 .. n PROVE f[k + 1] = g[k + 1]
    OBVIOUS
  <2>1. /\ k + 1 \in 0 .. m /\ k + 1 \in 1 .. n /\ (k + 1) - 1 = k /\ k + 1 # 0
        /\ k \in 0 .. n
    OBVIOUS
  <2>2. f[k + 1] = Nested(f[k], ts[k + 1]) /\ g[k + 1] = Nested(g[k], us[k + 1])
    BY <1>1, <1>2, <2>1
  <2> QED BY <1>4, <2>1, <2>2
<1> HIDE DEF S
<1>5. n \in S
  BY <1>3, <1>4, SetInduction
<1> QED BY <1>5 DEF S

(* What NestedBy yields is the last of them.                               *)
LEMMA NestedByIs ==
  ASSUME NEW s, NEW ts, NEW n \in Nat, Len(ts) = n
  PROVE  \E f : Runs(f, s, ts, n) /\ NestedBy(s, ts) = f[n]
<1> DEFINE f == CHOOSE h : Runs(h, s, ts, n)
<1>1. \E h : Runs(h, s, ts, n)
  BY RunsExist
<1>2. Runs(f, s, ts, n)
  BY <1>1, Zenon
<1>3. NestedBy(s, ts) = f[n]
  BY DEF NestedBy, Runs
<1> HIDE DEF f
<1> QED BY <1>2, <1>3

(* No token.                                                               *)
LEMMA NestedByNone == ASSUME NEW s PROVE NestedBy(s, << >>) = s
<1>1. Len(<< >>) = 0
  OBVIOUS
<1>2. PICK f : Runs(f, s, << >>, 0) /\ NestedBy(s, << >>) = f[0]
  BY <1>1, NestedByIs
<1>3. f[0] = s
  BY <1>2, RunsItem
<1> QED BY <1>2, <1>3

(* One token more.                                                         *)
LEMMA NestedByAppend ==
  ASSUME NEW s, NEW ts \in Seq(Tokens), NEW t \in Tokens
  PROVE  NestedBy(s, Append(ts, t)) = Nested(NestedBy(s, ts), t)
<1> DEFINE us == Append(ts, t)
           n == Len(ts)
           m == n + 1
<1>1. /\ n \in Nat /\ m \in Nat /\ n <= m /\ Len(us) = m /\ us[m] = t
      /\ \A i \in 1 .. n : ts[i] = us[i]
  BY AppendProperties, LenProperties
<1>2. m \in 0 .. m /\ m # 0 /\ m - 1 = n
  BY <1>1
<1>0. n \in Nat /\ Len(ts) = n
  BY <1>1
<1> HIDE DEF us, m, n
<1>3. PICK f : Runs(f, s, ts, n) /\ NestedBy(s, ts) = f[n]
  BY <1>0, NestedByIs, Zenon
<1>4. PICK g : Runs(g, s, us, m) /\ NestedBy(s, us) = g[m]
  BY <1>1, NestedByIs, Zenon
<1>5. f[n] = g[n]
  BY <1>1, <1>3, <1>4, RunsAgree, SMTT(30)
<1>6. \A i \in 0 .. m : g[i] = IF i = 0 THEN s ELSE Nested(g[i - 1], us[i])
  BY <1>1, <1>4, RunsItem, SMTT(30)
<1>7. g[m] = Nested(g[n], t)
  BY <1>1, <1>2, <1>6
<1> QED BY <1>3, <1>4, <1>5, <1>7 DEF us

(* One list behind another.                                                *)
LEMMA NestedByConcat ==
  ASSUME NEW s, NEW ts \in Seq(Tokens), NEW us \in Seq(Tokens)
  PROVE  NestedBy(s, ts \o us) = NestedBy(NestedBy(s, ts), us)
<1> DEFINE P == {r \in Seq(Tokens) : NestedBy(s, ts \o r) = NestedBy(NestedBy(s, ts), r)}
<1>1. << >> \in P
  BY NestedByNone, ConcatEmptySeq, EmptySeq
<1>2. ASSUME NEW r \in Seq(Tokens), NEW t \in Tokens, r \in P
      PROVE  Append(r, t) \in P
  <2> DEFINE a == Append(r, t)
             b == ts \o r
             c == <<t>>
  <2>1. a \in Seq(Tokens) /\ b \in Seq(Tokens) /\ c \in Seq(Tokens)
    BY AppendProperties, ConcatProperties
  <2>2. a = r \o c /\ Append(b, t) = b \o c
    BY <2>1, AppendIsConcat
  <2> HIDE DEF c
  <2>3. (ts \o r) \o c = ts \o (r \o c)
    BY <2>1, ConcatAssociative
  <2>4. ts \o a = Append(b, t)
    BY <2>2, <2>3
  <2>5. NestedBy(s, Append(b, t)) = Nested(NestedBy(s, b), t)
    BY <2>1, NestedByAppend, Zenon
  <2>6. NestedBy(NestedBy(s, ts), a) = Nested(NestedBy(NestedBy(s, ts), r), t)
    BY NestedByAppend
  <2>7. NestedBy(s, b) = NestedBy(NestedBy(s, ts), r)
    BY <1>2
  <2> HIDE DEF a, b
  <2>8. NestedBy(s, ts \o a) = NestedBy(NestedBy(s, ts), a)
    BY <2>4, <2>5, <2>6, <2>7
  <2> QED BY <2>1, <2>8 DEF a
<1> HIDE DEF P
<1>3. us \in P
  BY <1>1, <1>2, ListInduction
<1> QED BY <1>3 DEF P

(* A list of one token.                                                    *)
LEMMA NestedByOne ==
  ASSUME NEW s, NEW t \in Tokens
  PROVE  NestedBy(s, <<t>>) = Nested(s, t)
<1>1. << >> \in Seq(Tokens) /\ Append(<< >>, t) = <<t>>
  OBVIOUS
<1>2. NestedBy(s, Append(<< >>, t)) = Nested(NestedBy(s, << >>), t)
  BY <1>1, NestedByAppend, Zenon
<1> QED BY <1>1, <1>2, NestedByNone

(* Tokens leave a list of words.                                           *)
LEMMA NestedByType ==
  ASSUME NEW s \in Seq(Words), NEW ts \in Seq(Tokens)
  PROVE  NestedBy(s, ts) \in Seq(Words)
<1> DEFINE P == {r \in Seq(Tokens) : NestedBy(s, r) \in Seq(Words)}
<1>1. << >> \in P
  BY NestedByNone, EmptySeq
<1>2. ASSUME NEW r \in Seq(Tokens), NEW t \in Tokens, r \in P
      PROVE  Append(r, t) \in P
  BY <1>2, NestedByAppend, NestedType, AppendProperties
<1> HIDE DEF P
<1>3. ts \in P
  BY <1>1, <1>2, ListInduction
<1> QED BY <1>3 DEF P

(* Tokens that neither open nor close anything.                            *)
LEMMA NestedByNeutral ==
  ASSUME NEW s, NEW ts \in Seq(Neutral)
  PROVE  NestedBy(s, ts) = s
<1> DEFINE P == {r \in Seq(Tokens) : NestedBy(s, r) = s}
<1>0. Neutral \subseteq Tokens
  BY DEF Neutral
<1>1. << >> \in P
  BY NestedByNone, EmptySeq
<1>2. ASSUME NEW r \in Seq(Neutral), NEW t \in Neutral, r \in P
      PROVE  Append(r, t) \in P
  <2>1. r \in Seq(Tokens) /\ t \in Tokens /\ NestedBy(s, r) = s
    BY <1>0, <1>2
  <2>2. NestedBy(s, Append(r, t)) = Nested(s, t)
    BY <2>1, NestedByAppend
  <2>3. Nested(s, t) = s
    BY NestedNeutral
  <2> QED BY <2>1, <2>2, <2>3, AppendProperties
<1> HIDE DEF P
<1>3. ts \in P
  BY <1>1, <1>2, ListInduction
<1> QED BY <1>3 DEF P

-----------------------------------------------------------------------------
(* What the stacks say is open, and what closing block levels leaves.      *)

Word(l)     == IF l.bmap THEN "map" ELSE "seq"
Blocks(ind) == [i \in 1 .. Len(ind) - 1 |-> Word(ind[i + 1])]
Flowed(fs)  == [i \in 1 .. Len(fs) - 1 |-> fs[i + 1].flow]

(* OpenIn is the one behind the other.                                     *)
LEMMA OpenInIs ==
  ASSUME NEW ind, NEW fs PROVE OpenIn(ind, fs) = Blocks(ind) \o Flowed(fs)
BY Zenon DEF OpenIn, Blocks, Flowed, Word

(* One word for every block level but the document's.                      *)
LEMMA BlocksType ==
  ASSUME NEW Lev, NEW ind \in Seq(Lev), ind # << >>
  PROVE  /\ Blocks(ind) \in Seq(Words) /\ Len(Blocks(ind)) = Len(ind) - 1
         /\ \A i \in 1 .. Len(ind) - 1 : Blocks(ind)[i] = Word(ind[i + 1])
<1> DEFINE n == Len(ind) - 1
<1>1. n \in Nat
  BY EmptySeq
<1>2. \A i \in 1 .. n : Word(ind[i + 1]) \in Words
  BY DEF Word, Words
<1>3. Blocks(ind) \in [1 .. n -> Words]
  BY <1>2 DEF Blocks
<1>4. Blocks(ind) \in Seq(Words) /\ Len(Blocks(ind)) = n
  BY <1>1, <1>3, SeqOfFunction
<1>5. \A i \in 1 .. n : Blocks(ind)[i] = Word(ind[i + 1])
  BY DEF Blocks
<1> QED BY <1>4, <1>5

(* One more level is one more word.                                        *)
LEMMA BlocksAppend ==
  ASSUME NEW Lev, NEW ind \in Seq(Lev), ind # << >>, NEW l \in Lev
  PROVE  Blocks(Append(ind, l)) = Append(Blocks(ind), Word(l))
<1> DEFINE z == Append(ind, l)
           n == Len(ind)
           b == Blocks(ind)
           c == Blocks(z)
           d == Append(b, Word(l))
<1>1. n \in Nat /\ n > 0
  BY EmptySeq
<1>2. /\ z \in Seq(Lev) /\ z # << >> /\ Len(z) = n + 1 /\ z[n + 1] = l
      /\ \A i \in 1 .. n : z[i] = ind[i]
  BY AppendProperties
<1>3. /\ b \in Seq(Words) /\ Len(b) = n - 1
      /\ \A i \in 1 .. n - 1 : b[i] = Word(ind[i + 1])
  BY BlocksType
<1> HIDE DEF z
<1>4. /\ c \in Seq(Words) /\ Len(c) = Len(z) - 1
      /\ \A i \in 1 .. Len(z) - 1 : c[i] = Word(z[i + 1])
  BY <1>2, BlocksType, Zenon
<1>5. Word(l) \in Words
  BY DEF Word, Words
<1> HIDE DEF b, c
<1>6. /\ d \in Seq(Words) /\ Len(d) = Len(b) + 1 /\ d[Len(b) + 1] = Word(l)
      /\ \A i \in 1 .. Len(b) : d[i] = b[i]
  BY <1>3, <1>5, AppendProperties
<1> HIDE DEF d, n
<1>7. Len(c) = n /\ Len(d) = n
  BY <1>1, <1>2, <1>3, <1>4, <1>6
<1>8. ASSUME NEW i \in 1 .. n PROVE c[i] = d[i]
  <2>1. c[i] = Word(z[i + 1])
    BY <1>1, <1>2, <1>4
  <2>2. CASE i = n
    BY <1>1, <1>2, <1>3, <1>6, <2>1, <2>2
  <2>3. CASE i # n
    <3>1. i \in 1 .. n - 1 /\ i + 1 \in 1 .. n
      BY <1>1, <2>3
    <3>2. d[i] = Word(ind[i + 1])
      BY <1>3, <1>6, <3>1
    <3> QED BY <1>2, <2>1, <3>1, <3>2
  <2> QED BY <2>2, <2>3
<1>9. c = d
  BY <1>4, <1>6, <1>7, <1>8, SeqEqual
<1> QED BY <1>9 DEF b, c, d, z

(* What is pending in a bracket does not matter.                           *)
LEMMA FlowedSame ==
  ASSUME NEW fs, NEW gs, Len(fs) = Len(gs), Len(fs) \in Nat,
         \A i \in 1 .. Len(fs) : fs[i].flow = gs[i].flow
  PROVE  Flowed(fs) = Flowed(gs)
<1>1. \A i \in 1 .. Len(fs) - 1 : i + 1 \in 1 .. Len(fs)
  OBVIOUS
<1>2. \A i \in 1 .. Len(fs) - 1 : fs[i + 1].flow = gs[i + 1].flow
  BY <1>1
<1> QED BY <1>2 DEF Flowed

Ends(n) == [i \in 1 .. n |-> "BLOCK_END"]

(* One BLOCK_END more.                                                     *)
LEMMA EndsAppend ==
  ASSUME NEW n \in Nat
  PROVE  /\ Ends(n) \in Seq(Tokens) /\ Len(Ends(n)) = n
         /\ Ends(n + 1) = Append(Ends(n), "BLOCK_END") /\ Ends(0) = << >>
<1>1. "BLOCK_END" \in Tokens
  BY DEF Tokens, BodyTokens
<1>2. \A k \in Nat : Ends(k) \in [1 .. k -> Tokens]
  BY <1>1 DEF Ends
<1>3. \A k \in Nat : Ends(k) \in Seq(Tokens) /\ Len(Ends(k)) = k
  BY <1>2, SeqOfFunction
<1>4. \A k \in Nat : \A i \in 1 .. k : Ends(k)[i] = "BLOCK_END"
  BY DEF Ends
<1> DEFINE a == Ends(n + 1)
           e == Ends(n)
           b == Append(e, "BLOCK_END")
<1>5. a \in Seq(Tokens) /\ Len(a) = n + 1 /\ \A i \in 1 .. n + 1 : a[i] = "BLOCK_END"
  BY <1>3, <1>4
<1>6. /\ b \in Seq(Tokens) /\ Len(b) = Len(e) + 1 /\ b[Len(e) + 1] = "BLOCK_END"
      /\ \A i \in 1 .. Len(e) : b[i] = e[i]
  BY <1>1, <1>3, AppendProperties
<1>7. Len(b) = n + 1 /\ \A i \in 1 .. n + 1 : b[i] = "BLOCK_END"
  <2>1. Len(e) = n /\ \A i \in 1 .. n : e[i] = "BLOCK_END"
    BY <1>3, <1>4
  <2> HIDE DEF e, b
  <2> QED BY <1>6, <2>1
<1> HIDE DEF a, b
<1>8. a = b
  BY <1>5, <1>6, <1>7, SeqEqual
<1>9. Ends(0) = << >>
  BY <1>3, EmptySeq
<1> QED BY <1>3, <1>8, <1>9 DEF a, b, e

(* As many BLOCK_ENDs as levels that are popped.                           *)
LEMMA EndsNest ==
  ASSUME NEW Lev, NEW ind \in Seq(Lev), ind # << >>, NEW k \in 0 .. Len(ind) - 1
  PROVE  NestedBy(Blocks(ind), Ends(k)) = Blocks(SubSeq(ind, 1, Len(ind) - k))
<1> DEFINE L == Len(ind)
           R(n) == NestedBy(Blocks(ind), Ends(n)) = Blocks(SubSeq(ind, 1, L - n))
           S == {n \in Nat : n \in 0 .. L - 1 => R(n)}
<1>1. L \in Nat /\ L > 0
  BY EmptySeq
<1>2. 0 \in S
  <2>1. SubSeq(ind, 1, L) = ind
    BY SubSeqFull
  <2>2. Ends(0) = << >>
    BY EndsAppend
  <2>3. NestedBy(Blocks(ind), << >>) = Blocks(ind)
    BY NestedByNone
  <2>4. L - 0 = L
    BY <1>1
  <2> HIDE DEF L
  <2>5. R(0)
    BY <2>1, <2>2, <2>3, <2>4, Zenon
  <2> QED BY <2>5
<1>3. ASSUME NEW n \in Nat, n \in S PROVE n + 1 \in S
  <2> SUFFICES ASSUME n + 1 \in 0 .. L - 1 PROVE R(n + 1)
    OBVIOUS
  <2> DEFINE m == L - n
             x == SubSeq(ind, 1, m - 1)
  <2>1. R(n) /\ m \in 1 .. L /\ m - 1 \in 1 .. L /\ 1 \in 1 .. L /\ L - (n + 1) = m - 1
    BY <1>1, <1>3
  <2>2. ind[m] \in Lev
    BY <2>1, ElementOfSeq
  <2> HIDE DEF m
  <2>3. x \in Seq(Lev) /\ Len(x) = m - 1 /\ x # << >>
    BY <2>1
  <2>4. SubSeq(ind, 1, m) = x \o <<ind[m]>>
    BY <2>1, SubSeqRecursiveSecond
  <2>5. Append(x, ind[m]) = x \o <<ind[m]>>
    BY <2>2, <2>3, AppendIsConcat, Zenon
  <2> HIDE DEF x
  <2>6. Blocks(SubSeq(ind, 1, m)) = Append(Blocks(x), Word(ind[m]))
    BY <2>2, <2>3, <2>4, <2>5, BlocksAppend, Zenon
  <2>7. Word(ind[m]) \in ClosedBy("BLOCK_END")
    BY DEF Word, ClosedBy
  <2>8. Blocks(x) \in Seq(Words)
    BY <2>3, BlocksType
  <2>9. Nested(Append(Blocks(x), Word(ind[m])), "BLOCK_END") = Blocks(x)
    <3>1. "BLOCK_END" \in FlowEnds \cup {"BLOCK_END"}
      OBVIOUS
    <3> QED BY <2>7, <2>8, <3>1, NestedCloses
  <2>10. NestedBy(Blocks(ind), Ends(n + 1)) = Nested(NestedBy(Blocks(ind), Ends(n)), "BLOCK_END")
    <3>1. "BLOCK_END" \in Tokens
      BY DEF Tokens, BodyTokens
    <3>2. Ends(n) \in Seq(Tokens) /\ Ends(n + 1) = Append(Ends(n), "BLOCK_END")
      BY EndsAppend, Zenon
    <3> QED BY <3>1, <3>2, NestedByAppend, Zenon
  <2>11. NestedBy(Blocks(ind), Ends(n)) = Blocks(SubSeq(ind, 1, m))
    BY <2>1 DEF m
  <2>12. NestedBy(Blocks(ind), Ends(n + 1)) = Blocks(x)
    BY <2>6, <2>9, <2>10, <2>11, Zenon
  <2> QED BY <2>1, <2>12 DEF x
<1> HIDE DEF S, R
<1>4. k \in S
  <2>1. k \in Nat
    BY <1>1
  <2> QED BY <1>2, <1>3, <2>1, SetInduction
<1> QED BY <1>4 DEF S, R

(* What the tokens q leave open behind o is what the stacks say.           *)
Nests(o, q, ind, fs) == NestedBy(o, q) = Blocks(ind) \o Flowed(fs)

-----------------------------------------------------------------------------
(* The keys that may still open a block mapping: outside brackets and on   *)
(* the line of the scanner.                                                *)
Fresh(k)    == k.flow_level = 0 /\ ~k.old
NoFresh(ks) == \A i \in 1 .. Len(ks) : ~Fresh(ks[i])

(* The queue q splits at its n-th token: what lies in front leaves exactly *)
(* the block levels open, and what lies behind only opens the brackets,    *)
(* whatever was open before.  A mapping can be opened there.               *)
Splits(o, q, n, ind, fs) ==
  \E a, c \in Seq(Tokens) : /\ q = a \o c /\ Len(a) = n - 1
                            /\ NestedBy(o, a) = Blocks(ind)
                            /\ \A b \in Seq(Words) : NestedBy(b, c) = b \o Flowed(fs)

(* A key that may open a mapping stands at no outer level, and the text    *)
(* has not gone back in front of it.                                       *)
KeyNests(o, k, q, ind, fs, col) ==
  Fresh(k) => /\ Last(ind).indent <= k.column /\ k.column <= col
              /\ Splits(o, q, k.token, ind, fs)

KeysNest(o, ks, q, ind, fs, col) ==
  \A i \in 1 .. Len(ks) : KeyNests(o, ks[i], q, ind, fs, col)

AllNest(o, ks, q, ind, fs, col) ==
  Nests(o, q, ind, fs) /\ KeysNest(o, ks, q, ind, fs, col)

(* The keys that are left of ks.                                           *)
Part(r, ks) == \A i \in 1 .. Len(r) : \E j \in 1 .. Len(ks) : r[i] = ks[j]

(* Dropping keys keeps what holds of the others.                           *)
LEMMA PartNests ==
  ASSUME NEW r, NEW ks, Part(r, ks)
  PROVE  /\ NoFresh(ks) => NoFresh(r)
         /\ \A o, q, ind, fs, col :
              KeysNest(o, ks, q, ind, fs, col) => KeysNest(o, r, q, ind, fs, col)
BY Zenon DEF Part, NoFresh, KeysNest

(* A part of a part.                                                       *)
LEMMA PartOfPart ==
  ASSUME NEW r, NEW s, NEW ks, Part(r, s), Part(s, ks)
  PROVE  Part(r, ks)
BY Zenon DEF Part

(* Nothing is said of a list without such keys.                            *)
LEMMA NoFreshNests ==
  ASSUME NEW ks, NoFresh(ks), NEW o, NEW q, NEW ind, NEW fs, NEW col
  PROVE  KeysNest(o, ks, q, ind, fs, col)
BY Zenon DEF NoFresh, KeysNest, KeyNests

(* No key is left to nest.                                                 *)
LEMMA NoKeyNests ==
  /\ NoFresh(<< >>)
  /\ \A o, q, ind, fs, col : KeysNest(o, << >>, q, ind, fs, col)
<1>1. NoFresh(<< >>)
  BY DEF NoFresh
<1> QED BY <1>1, NoFreshNests, Zenon

-----------------------------------------------------------------------------
(* Tokens queued behind the others.                                        *)

(* The tokens r turn the brackets fs into gs, whatever was open before.    *)
Turns(fs, r, gs) ==
  \A b \in Seq(Words) : NestedBy(b \o Flowed(fs), r) = b \o Flowed(gs)

(* They then do so behind any queue.                                       *)
LEMMA GrowNests ==
  ASSUME NEW o, NEW ks, NEW q \in Seq(Tokens), NEW r \in Seq(Tokens), NEW fs, NEW gs,
         NEW Lev, NEW ind \in Seq(Lev), ind # << >>, NEW col,
         AllNest(o, ks, q, ind, fs, col), Turns(fs, r, gs)
  PROVE  AllNest(o, ks, q \o r, ind, gs, col)
<1>1. Nests(o, q \o r, ind, gs)
  <2>1. NestedBy(o, q \o r) = NestedBy(NestedBy(o, q), r)
    BY NestedByConcat
  <2>2. NestedBy(o, q) = Blocks(ind) \o Flowed(fs)
    BY DEF AllNest, Nests
  <2>3. Blocks(ind) \in Seq(Words)
    BY BlocksType
  <2>4. NestedBy(Blocks(ind) \o Flowed(fs), r) = Blocks(ind) \o Flowed(gs)
    BY <2>3 DEF Turns
  <2> QED BY <2>1, <2>2, <2>4 DEF Nests
<1>2. ASSUME NEW n, Splits(o, q, n, ind, fs) PROVE Splits(o, q \o r, n, ind, gs)
  <2>1. PICK a \in Seq(Tokens) : \E c \in Seq(Tokens) :
          /\ q = a \o c /\ Len(a) = n - 1 /\ NestedBy(o, a) = Blocks(ind)
          /\ \A b \in Seq(Words) : NestedBy(b, c) = b \o Flowed(fs)
    BY <1>2, Zenon DEF Splits
  <2>2. PICK c \in Seq(Tokens) :
          /\ q = a \o c /\ Len(a) = n - 1 /\ NestedBy(o, a) = Blocks(ind)
          /\ \A b \in Seq(Words) : NestedBy(b, c) = b \o Flowed(fs)
    BY <2>1, Zenon
  <2> DEFINE d == c \o r
  <2>3. d \in Seq(Tokens)
    BY ConcatProperties
  <2>4. q \o r = a \o d
    BY <2>2, ConcatAssociative
  <2>5. ASSUME NEW b \in Seq(Words) PROVE NestedBy(b, d) = b \o Flowed(gs)
    <3>1. NestedBy(b, d) = NestedBy(NestedBy(b, c), r)
      BY NestedByConcat
    <3>2. NestedBy(b, c) = b \o Flowed(fs)
      BY <2>2
    <3>3. NestedBy(b \o Flowed(fs), r) = b \o Flowed(gs)
      BY DEF Turns
    <3> QED BY <3>1, <3>2, <3>3
  <2> HIDE DEF d
  <2> QED BY <2>2, <2>3, <2>4, <2>5, Zenon DEF Splits
<1>3. KeysNest(o, ks, q \o r, ind, gs, col)
  <2> SUFFICES ASSUME NEW i \in 1 .. Len(ks) PROVE KeyNests(o, ks[i], q \o r, ind, gs, col)
    BY DEF KeysNest
  <2>1. KeyNests(o, ks[i], q, ind, fs, col)
    BY DEF AllNest, KeysNest
  <2> QED BY <1>2, <2>1, Zenon DEF KeyNests
<1> QED BY <1>1, <1>3 DEF AllNest

(* Tokens that open and close nothing.                                     *)
LEMMA TurnsNeutral ==
  ASSUME NEW fs, NEW gs, Flowed(gs) = Flowed(fs), NEW r \in Seq(Neutral)
  PROVE  Turns(fs, r, gs)
BY NestedByNeutral, Zenon DEF Turns

(* A token that opens a block behind the others, and the level it opens.   *)
LEMMA OpensNests ==
  ASSUME NEW o, NEW q \in Seq(Tokens), NEW Lev, NEW ind \in Seq(Lev), ind # << >>,
         NEW fs, NEW gs, Nests(o, q, ind, fs), Flowed(fs) = << >>, Flowed(gs) = << >>,
         NEW t \in BlockStarts, NEW l \in Lev, OpenedBy(t) = Word(l),
         NEW r \in Seq(Neutral)
  PROVE  Nests(o, q \o (<<t>> \o r), Append(ind, l), gs)
<1> DEFINE B == Blocks(ind)
           C == Blocks(Append(ind, l))
<1>1. /\ <<t>> \in Seq(Tokens) /\ t \in Tokens /\ r \in Seq(Tokens)
      /\ <<t>> \o r \in Seq(Tokens)
  <2>1. <<t>> \in Seq(Tokens) /\ t \in Tokens /\ r \in Seq(Tokens)
    BY NeutralTokens
  <2> QED BY <2>1, ConcatProperties
<1>2. B \in Seq(Words)
  BY BlocksType
<1>3. C = Append(B, Word(l))
  BY BlocksAppend
<1>4. C \in Seq(Words)
  <2>1. Append(ind, l) \in Seq(Lev) /\ Append(ind, l) # << >>
    BY AppendProperties
  <2> QED BY <2>1, BlocksType, Zenon
<1>5. NestedBy(o, q) = B
  <2>1. NestedBy(o, q) = B \o << >>
    BY DEF Nests
  <2> QED BY <1>2, <2>1, ConcatEmptySeq
<1> HIDE DEF B, C
<1> DEFINE T == <<t>>
<1>6. NestedBy(o, q \o (<<t>> \o r)) = NestedBy(NestedBy(B, <<t>>), r)
  <2> HIDE DEF T
  <2>1. NestedBy(o, q \o (T \o r)) = NestedBy(NestedBy(o, q), T \o r)
    BY <1>1, NestedByConcat, Zenon DEF T
  <2>2. NestedBy(B, T \o r) = NestedBy(NestedBy(B, T), r)
    BY <1>1, NestedByConcat, Zenon DEF T
  <2> QED BY <1>5, <2>1, <2>2 DEF T
<1>7. NestedBy(B, <<t>>) = C
  BY <1>1, <1>3, NestedByOne, NestedOpens
<1>8. NestedBy(C, r) = C
  BY NestedByNeutral
<1>9. C \o << >> = C
  BY <1>4, ConcatEmptySeq
<1> QED BY <1>6, <1>7, <1>8, <1>9 DEF Nests, C

-----------------------------------------------------------------------------
(* Tokens put in front of others.                                          *)

(* Two ways to cut a list, the first of them further to the front.         *)
Cuts(a, c, x, y)       == a \o c = x \o y /\ Len(a) <= Len(x)
Between(d, a, c, x, y) == x = a \o d /\ c = d \o y

(* What lies between the two cuts.                                         *)
LEMMA Cut ==
  ASSUME NEW a \in Seq(Tokens), NEW c \in Seq(Tokens), NEW x \in Seq(Tokens),
         NEW y \in Seq(Tokens), Cuts(a, c, x, y)
  PROVE  \E d \in Seq(Tokens) : Between(d, a, c, x, y)
<1> DEFINE n == Len(a)
           m == Len(x)
           d == SubSeq(x, n + 1, m)
           z == a \o c
<1>1. /\ n \in Nat /\ m \in Nat /\ n <= m /\ Len(c) \in Nat /\ Len(y) \in Nat
      /\ z = x \o y
  BY LenProperties DEF Cuts
<1>2. /\ d \in Seq(Tokens) /\ Len(d) = m - n
      /\ \A i \in 1 .. m - n : d[i] = x[n + i]
  <2>1. \A i \in n + 1 .. m : x[i] \in Tokens
    BY <1>1, ElementOfSeq
  <2>2. /\ d \in Seq(Tokens) /\ Len(d) = (IF n + 1 <= m THEN m - (n + 1) + 1 ELSE 0)
        /\ \A i \in 1 .. m - (n + 1) + 1 : d[i] = x[n + 1 + i - 1]
    BY <1>1, <2>1, SubSeqProperties
  <2> HIDE DEF d, n, m
  <2>3. Len(d) = m - n /\ m - (n + 1) + 1 = m - n
    BY <1>1, <2>2
  <2>4. \A i \in 1 .. m - n : n + 1 + i - 1 = n + i
    BY <1>1
  <2> QED BY <2>2, <2>3, <2>4, Zenon
<1>3. /\ Len(z) = n + Len(c)
      /\ \A i \in 1 .. n + Len(c) : z[i] = IF i <= n THEN a[i] ELSE c[i - n]
  BY ConcatProperties
<1>4. /\ Len(z) = m + Len(y)
      /\ \A i \in 1 .. m + Len(y) : z[i] = IF i <= m THEN x[i] ELSE y[i - m]
  BY <1>1, ConcatProperties
<1> HIDE DEF d, n, m, z
<1>5. n + Len(c) = m + Len(y)
  BY <1>3, <1>4
<1>6. x = a \o d
  <2> DEFINE w == a \o d
  <2>1. /\ w \in Seq(Tokens) /\ Len(w) = n + Len(d)
        /\ \A i \in 1 .. n + Len(d) : w[i] = IF i <= n THEN a[i] ELSE d[i - n]
    BY <1>2, ConcatProperties, Zenon DEF n
  <2> HIDE DEF w
  <2>2. Len(w) = m
    BY <1>1, <1>2, <2>1
  <2>3. ASSUME NEW i \in 1 .. m PROVE x[i] = w[i]
    <3>1. i \in 1 .. n + Len(d) /\ i \in 1 .. n + Len(c) /\ i \in 1 .. m + Len(y) /\ i <= m
      BY <1>1, <1>2, <1>5
    <3>2. z[i] = x[i] /\ z[i] = IF i <= n THEN a[i] ELSE c[i - n]
      BY <1>3, <1>4, <3>1
    <3>3. CASE i <= n
      BY <2>1, <3>1, <3>2, <3>3
    <3>4. CASE ~(i <= n)
      <4>1. i - n \in 1 .. m - n /\ n + (i - n) = i
        BY <1>1, <3>4
      <4>2. w[i] = d[i - n] /\ d[i - n] = x[i]
        BY <1>2, <2>1, <3>1, <3>4, <4>1
      <4> QED BY <4>2
    <3> QED BY <3>3, <3>4
  <2>4. x = w
    BY <2>1, <2>2, <2>3, SeqEqual DEF m
  <2> QED BY <2>4 DEF w
<1>7. c = d \o y
  <2> DEFINE w == d \o y
  <2>1. /\ w \in Seq(Tokens) /\ Len(w) = Len(d) + Len(y)
        /\ \A i \in 1 .. Len(d) + Len(y) : w[i] = IF i <= Len(d) THEN d[i] ELSE y[i - Len(d)]
    BY <1>2, ConcatProperties
  <2> HIDE DEF w
  <2>2. Len(w) = Len(c)
    BY <1>1, <1>2, <1>5, <2>1
  <2>3. ASSUME NEW i \in 1 .. Len(c) PROVE c[i] = w[i]
    <3>1. /\ n + i \in 1 .. n + Len(c) /\ n + i \in 1 .. m + Len(y) /\ ~(n + i <= n)
          /\ (n + i) - n = i /\ i \in 1 .. Len(d) + Len(y)
      BY <1>1, <1>2, <1>5
    <3>2. z[n + i] = c[i]
      BY <1>3, <3>1
    <3>3. z[n + i] = IF n + i <= m THEN x[n + i] ELSE y[(n + i) - m]
      BY <1>4, <3>1
    <3>4. CASE n + i <= m
      <4>1. i \in 1 .. m - n /\ i <= Len(d)
        BY <1>1, <1>2, <3>4
      <4>2. w[i] = d[i] /\ d[i] = x[n + i]
        BY <1>2, <2>1, <3>1, <4>1
      <4> QED BY <3>2, <3>3, <3>4, <4>2
    <3>5. CASE ~(n + i <= m)
      <4>1. ~(i <= Len(d)) /\ i - Len(d) = (n + i) - m
        BY <1>1, <1>2, <3>5
      <4>2. w[i] = y[(n + i) - m]
        BY <2>1, <3>1, <4>1
      <4> QED BY <3>2, <3>3, <3>5, <4>2
    <3> QED BY <3>4, <3>5
  <2>4. c = w
    BY <2>1, <2>2, <2>3, SeqEqual
  <2> QED BY <2>4 DEF w
<1> QED BY <1>2, <1>6, <1>7, Zenon DEF Between

(* Two cuts at the same place are one.                                     *)
LEMMA SameCut ==
  ASSUME NEW a \in Seq(Tokens), NEW c \in Seq(Tokens), NEW x \in Seq(Tokens),
         NEW y \in Seq(Tokens), a \o c = x \o y, Len(a) = Len(x)
  PROVE  a = x /\ c = y
<1>1. Len(a) \in Nat /\ Len(x) \in Nat
  BY LenProperties
<1>2. Cuts(a, c, x, y)
  BY <1>1 DEF Cuts
<1>3. PICK d \in Seq(Tokens) : Between(d, a, c, x, y)
  BY <1>2, Cut
<1>4. x = a \o d /\ c = d \o y
  BY <1>3 DEF Between
<1>5. Len(x) = Len(a) + Len(d) /\ Len(d) \in Nat
  BY <1>4, ConcatProperties, LenProperties
<1>6. d = << >>
  <2>1. Len(d) = 0
    BY <1>1, <1>5
  <2> QED BY <2>1, EmptySeq
<1>7. a \o << >> = a /\ << >> \o y = y
  BY ConcatEmptySeq
<1> QED BY <1>4, <1>6, <1>7

(* What fy_fetch_value() makes of a queue that it cuts into x and y.       *)
Put(x, new, y) == ((x \o new) \o y) \o <<"VALUE">>

(* Tokens that open and close nothing can be put anywhere.                 *)
LEMMA PutNeutral ==
  ASSUME NEW b, NEW x \in Seq(Tokens), NEW y \in Seq(Tokens), NEW new \in Seq(Neutral)
  PROVE  NestedBy(b, Put(x, new, y)) = NestedBy(b, x \o y)
<1> DEFINE v == <<"VALUE">>
<1>1. v \in Seq(Neutral) /\ v \in Seq(Tokens) /\ new \in Seq(Tokens)
  BY NeutralTokens
<1> HIDE DEF v
<1>2. x \o new \in Seq(Tokens) /\ (x \o new) \o y \in Seq(Tokens)
  BY <1>1, ConcatProperties
<1>3. NestedBy(b, x \o new) = NestedBy(b, x)
  <2>1. NestedBy(b, x \o new) = NestedBy(NestedBy(b, x), new)
    BY <1>1, NestedByConcat
  <2> QED BY <2>1, NestedByNeutral
<1>4. NestedBy(b, (x \o new) \o y) = NestedBy(b, x \o y)
  <2>1. NestedBy(b, (x \o new) \o y) = NestedBy(NestedBy(b, x \o new), y)
    BY <1>2, NestedByConcat, Zenon
  <2>2. NestedBy(b, x \o y) = NestedBy(NestedBy(b, x), y)
    BY NestedByConcat
  <2> QED BY <1>3, <2>1, <2>2
<1>5. NestedBy(b, ((x \o new) \o y) \o v) = NestedBy(NestedBy(b, (x \o new) \o y), v)
  BY <1>1, <1>2, NestedByConcat, Zenon
<1>6. NestedBy(NestedBy(b, (x \o new) \o y), v) = NestedBy(b, (x \o new) \o y)
  BY <1>1, NestedByNeutral
<1> QED BY <1>4, <1>5, <1>6 DEF Put, v

(* The list b is a with x behind it.                                       *)
Behind(b, a, x) == x \in Seq(Tokens) /\ b = a \o x

(* It stays so when both grow.                                             *)
LEMMA BehindGrows ==
  ASSUME NEW a \in Seq(Tokens), NEW x, NEW b, Behind(b, a, x), NEW n \in Seq(Tokens)
  PROVE  Behind(b \o n, a, x \o n)
<1>1. x \in Seq(Tokens) /\ b = a \o x
  BY DEF Behind
<1>2. x \o n \in Seq(Tokens)
  BY <1>1, ConcatProperties
<1>3. (a \o x) \o n = a \o (x \o n)
  BY <1>1, ConcatAssociative
<1> QED BY <1>1, <1>2, <1>3 DEF Behind

(* What comes before stays before.                                         *)
LEMMA PutBehind ==
  ASSUME NEW a \in Seq(Tokens), NEW d \in Seq(Tokens), NEW new \in Seq(Tokens),
         NEW y \in Seq(Tokens)
  PROVE  Put(a \o d, new, y) = a \o Put(d, new, y) /\ Put(d, new, y) \in Seq(Tokens)
<1> DEFINE v == <<"VALUE">>
<1>1. v \in Seq(Tokens)
  BY NeutralTokens
<1> HIDE DEF v
<1>2. Behind(a \o d, a, d)
  BY DEF Behind
<1>3. Behind((a \o d) \o new, a, d \o new)
  BY <1>2, BehindGrows
<1>4. Behind(((a \o d) \o new) \o y, a, (d \o new) \o y)
  BY <1>3, BehindGrows
<1>5. Behind((((a \o d) \o new) \o y) \o v, a, ((d \o new) \o y) \o v)
  BY <1>1, <1>4, BehindGrows
<1>6. Behind(Put(a \o d, new, y), a, Put(d, new, y))
  BY <1>5 DEF Put, v
<1> QED BY <1>6 DEF Behind

(* Keys in front of where they are put do not notice them.                 *)
LEMMA PutNests ==
  ASSUME NEW o, NEW ks, NEW x \in Seq(Tokens), NEW y \in Seq(Tokens),
         NEW new \in Seq(Neutral), NEW ind, NEW fs, NEW gs, Flowed(gs) = Flowed(fs), NEW col,
         AllNest(o, ks, x \o y, ind, fs, col),
         \A i \in 1 .. Len(ks) : ks[i].token \in Nat /\ ks[i].token <= Len(x)
  PROVE  AllNest(o, ks, Put(x, new, y), ind, gs, col)
<1>1. Nests(o, Put(x, new, y), ind, gs)
  BY PutNeutral, Zenon DEF AllNest, Nests
<1>2. ASSUME NEW n \in Nat, n <= Len(x), Splits(o, x \o y, n, ind, fs)
      PROVE  Splits(o, Put(x, new, y), n, ind, gs)
  <2>1. PICK a \in Seq(Tokens) : \E c \in Seq(Tokens) :
          /\ x \o y = a \o c /\ Len(a) = n - 1 /\ NestedBy(o, a) = Blocks(ind)
          /\ \A b \in Seq(Words) : NestedBy(b, c) = b \o Flowed(fs)
    BY <1>2, Zenon DEF Splits
  <2>2. PICK c \in Seq(Tokens) :
          /\ x \o y = a \o c /\ Len(a) = n - 1 /\ NestedBy(o, a) = Blocks(ind)
          /\ \A b \in Seq(Words) : NestedBy(b, c) = b \o Flowed(fs)
    BY <2>1, Zenon
  <2>3. Len(a) <= Len(x)
    <3>1. Len(x) \in Nat
      BY LenProperties
    <3> QED BY <1>2, <2>2, <3>1
  <2>4. PICK d \in Seq(Tokens) : x = a \o d /\ c = d \o y
    <3>1. Cuts(a, c, x, y)
      BY <2>2, <2>3 DEF Cuts
    <3>2. PICK d \in Seq(Tokens) : Between(d, a, c, x, y)
      BY <3>1, Cut
    <3> QED BY <3>2, Zenon DEF Between
  <2> DEFINE p == Put(d, new, y)
  <2>10. Put(x, new, y) = a \o p /\ p \in Seq(Tokens)
    <3>1. new \in Seq(Tokens)
      BY NeutralTokens
    <3> QED BY <2>4, <3>1, PutBehind
  <2>11. ASSUME NEW b \in Seq(Words) PROVE NestedBy(b, p) = b \o Flowed(gs)
    <3>1. NestedBy(b, p) = NestedBy(b, d \o y)
      BY PutNeutral
    <3> QED BY <2>2, <2>4, <3>1, Zenon
  <2> HIDE DEF p
  <2> QED BY <2>2, <2>10, <2>11, Zenon DEF Splits
<1>3. KeysNest(o, ks, Put(x, new, y), ind, gs, col)
  <2> SUFFICES ASSUME NEW i \in 1 .. Len(ks)
               PROVE  KeyNests(o, ks[i], Put(x, new, y), ind, gs, col)
    BY Zenon DEF KeysNest
  <2>1. KeyNests(o, ks[i], x \o y, ind, fs, col)
    BY DEF AllNest, KeysNest
  <2> QED BY <1>2, <2>1, Zenon DEF KeyNests
<1> QED BY <1>1, <1>3, Zenon DEF AllNest

(* The queue splits into x and y.                                          *)
SplitsInto(o, x, y, ind, fs) ==
  /\ NestedBy(o, x) = Blocks(ind)
  /\ \A b \in Seq(Words) : NestedBy(b, y) = b \o Flowed(fs)

(* The start of a mapping, put there.                                      *)
LEMMA PutOpens ==
  ASSUME NEW o, NEW x \in Seq(Tokens), NEW y \in Seq(Tokens),
         NEW Lev, NEW ind \in Seq(Lev), ind # << >>, NEW fs, NEW gs,
         Flowed(fs) = << >>, Flowed(gs) = << >>, SplitsInto(o, x, y, ind, fs),
         NEW l \in Lev, Word(l) = "map"
  PROVE  Nests(o, Put(x, <<"BLOCK_MAPPING_START", "KEY">>, y), Append(ind, l), gs)
<1> DEFINE s == <<"BLOCK_MAPPING_START">>
           k == <<"KEY">>
           v == <<"VALUE">>
           new == <<"BLOCK_MAPPING_START", "KEY">>
           B == Blocks(ind)
           C == Blocks(Append(ind, l))
<1>1. "BLOCK_MAPPING_START" \in BlockStarts /\ OpenedBy("BLOCK_MAPPING_START") = Word(l)
  BY DEF BlockStarts, OpenedBy
<1>2. k \in Seq(Neutral) /\ v \in Seq(Neutral) /\ << >> \in Seq(Tokens)
  BY NeutralTokens
<1>3. s \in Seq(Tokens) /\ k \in Seq(Tokens) /\ v \in Seq(Tokens) /\ new \in Seq(Tokens)
  BY <1>1, NeutralTokens
<1>4. new = s \o k
  OBVIOUS
<1>5. Append(ind, l) \in Seq(Lev) /\ Append(ind, l) # << >>
  BY AppendProperties
<1>6. B \in Seq(Words) /\ C \in Seq(Words)
  BY <1>5, BlocksType, Zenon
<1> HIDE DEF B, C
<1>7. C \o << >> = C
  BY <1>6, ConcatEmptySeq
<1>8. Nests(o, x \o (s \o k), Append(ind, l), gs)
  <2>1. Nests(o, x, ind, fs)
    BY <1>6, ConcatEmptySeq DEF Nests, B, SplitsInto
  <2> HIDE DEF k
  <2> QED BY <1>1, <1>2, <2>1, OpensNests
<1> HIDE DEF s, k, v, new
<1>9. NestedBy(o, x \o new) = C
  BY <1>4, <1>7, <1>8 DEF Nests, C
<1>10. x \o new \in Seq(Tokens) /\ (x \o new) \o y \in Seq(Tokens)
  BY <1>3, ConcatProperties
<1>11. NestedBy(o, (x \o new) \o y) = C
  <2>1. NestedBy(o, (x \o new) \o y) = NestedBy(C, y)
    BY <1>9, <1>10, NestedByConcat, Zenon
  <2>2. NestedBy(C, y) = C \o << >>
    BY <1>6 DEF SplitsInto
  <2> QED BY <1>7, <2>1, <2>2
<1>12. NestedBy(o, ((x \o new) \o y) \o v) = C
  <2>1. NestedBy(o, ((x \o new) \o y) \o v) = NestedBy(C, v)
    BY <1>3, <1>10, <1>11, NestedByConcat, Zenon
  <2> QED BY <1>2, <2>1, NestedByNeutral
<1> QED BY <1>7, <1>12 DEF Nests, Put, v, C, new

=============================================================================
