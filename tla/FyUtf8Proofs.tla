---------------------------- MODULE FyUtf8Proofs ----------------------------
(***************************************************************************)
(* Theorems about fy-utf8.c, for every character and every text: reading   *)
(* is the inverse of writing, and no character can be read from any octets *)
(* but the ones that writing it produces.                                  *)
(***************************************************************************)
EXTENDS FyUtf8, SequenceTheorems, TLAPS

Octet     == 0 .. 255
Follower  == 128 .. 191
Leads(w)  == CASE w = 2 -> 192 .. 223 [] w = 3 -> 224 .. 239 [] w = 4 -> 240 .. 247
Join2(x, y) == x * 64 + y
Join3(x, y, z) == x * 4096 + y * 64 + z
Join4(x, y, z, t) == x * 262144 + y * 4096 + z * 64 + t
Character == {c \in Nat : c < 1114112 /\ ~(55296 <= c /\ c < 57344)}

(* Division by 64, and by its powers.                                      *)
LEMMA Sextets ==
  ASSUME NEW c \in Nat
  PROVE  c \div 64 \in Nat /\ c % 64 \in 0 .. 63 /\ c = 64 * (c \div 64) + (c % 64)
OBVIOUS

(* Dividing by 64 twice.                                                   *)
LEMMA Twice == \A c \in Nat : c \div 4096 = (c \div 64) \div 64
OBVIOUS

(* ... and three times.                                                    *)
LEMMA Thrice == \A c \in Nat : c \div 262144 = (c \div 4096) \div 64
OBVIOUS

(* An octet after the first holds six bits.                                *)
LEMMA Continuation == \A x \in 0 .. 63 : 128 + x \in 128 .. 191 /\ (128 + x) % 64 = x
OBVIOUS

(* The first octet of two holds five bits.                                 *)
LEMMA Lead2 == \A x \in 0 .. 31 : 192 + x \in 192 .. 223 /\ (192 + x) % 32 = x
OBVIOUS

(* The first octet of three holds four.                                    *)
LEMMA Lead3 == \A x \in 0 .. 15 : 224 + x \in 224 .. 239 /\ (224 + x) % 16 = x
OBVIOUS

(* The first octet of four holds three.                                    *)
LEMMA Lead4 == \A x \in 0 .. 7 : 240 + x \in 240 .. 247 /\ (240 + x) % 8 = x
OBVIOUS

(* An octet is its mark and its bits.                                      *)
LEMMA Unlead ==
  /\ \A b \in Follower : b % 64 \in 0 .. 63 /\ b = 128 + (b % 64)
  /\ \A b \in Leads(2) : b % 32 \in Nat /\ b = 192 + (b % 32)
  /\ \A b \in Leads(3) : b % 16 \in Nat /\ b = 224 + (b % 16)
  /\ \A b \in Leads(4) : b % 8 \in Nat /\ b = 240 + (b % 8)
<1>1. \A b \in Follower : b % 64 \in 0 .. 63 /\ b = 128 + (b % 64)
  BY DEF Follower
<1>2. \A b \in Leads(2) : b % 32 \in Nat /\ b = 192 + (b % 32)
  BY DEF Leads
<1>3. \A b \in Leads(3) : b % 16 \in Nat /\ b = 224 + (b % 16)
  BY DEF Leads
<1>4. \A b \in Leads(4) : b % 8 \in Nat /\ b = 240 + (b % 8)
  BY DEF Leads
<1> QED BY <1>1, <1>2, <1>3, <1>4

(* An octet below 128 is a character of its own.                           *)
LEMMA Low == \A o \in Octet : o < 128 => o \in 0 .. 127
BY DEF Octet

(* Octets are natural numbers.                                             *)
LEMMA OctetNat == \A o \in Octet : o \in Nat
BY DEF Octet

(* The ranges of octets that can occur in a text.                          *)
LEMMA Octets ==
  /\ \A o \in Nat : o < 128 => o \in Octet
  /\ \A o : o \in 128 .. 191 \/ o \in 192 .. 223 \/ o \in 224 .. 239 \/ o \in 240 .. 247
              => o \in Octet
BY DEF Octet

(* Six bits put behind others can be taken apart again.                    *)
LEMMA Joined ==
  ASSUME NEW x \in Nat, NEW y \in 0 .. 63
  PROVE  64 * x + y \in Nat /\ (64 * x + y) \div 64 = x /\ (64 * x + y) % 64 = y
OBVIOUS

(* A character, cut into groups of six bits.                               *)
LEMMA Cut2 ==
  ASSUME NEW c \in Nat, 128 <= c, c < 2048
  PROVE  c \div 64 \in 0 .. 31 /\ c % 64 \in 0 .. 63 /\ c = (c \div 64) * 64 + (c % 64)
BY Sextets, SMT

(* ... into three groups                                                   *)
LEMMA Cut3 ==
  ASSUME NEW c \in Nat, 2048 <= c, c < 65536
  PROVE  /\ c \div 4096 \in 0 .. 15 /\ (c \div 64) % 64 \in 0 .. 63 /\ c % 64 \in 0 .. 63
         /\ c = (c \div 4096) * 4096 + ((c \div 64) % 64) * 64 + (c % 64)
<1> DEFINE q == c \div 64
<1>1. q \in Nat /\ c % 64 \in 0 .. 63 /\ c = 64 * q + (c % 64)
  BY Sextets, SMT
<1>2. c \div 4096 = q \div 64
  BY Twice, SMT
<1> HIDE DEF q
<1>3. q \div 64 \in Nat /\ q % 64 \in 0 .. 63 /\ q = 64 * (q \div 64) + (q % 64)
  BY <1>1, Sextets, SMT
<1>4. c % 64 \in Nat /\ q % 64 \in Nat
  BY <1>1, <1>3, SMT
<1> QED BY <1>1, <1>2, <1>3, <1>4, SMT DEF q

(* ... and into four.                                                      *)
LEMMA Cut4 ==
  ASSUME NEW c \in Nat, 65536 <= c, c < 1114112
  PROVE  /\ c \div 262144 \in 0 .. 7 /\ (c \div 4096) % 64 \in 0 .. 63
         /\ (c \div 64) % 64 \in 0 .. 63 /\ c % 64 \in 0 .. 63
         /\ c = (c \div 262144) * 262144 + ((c \div 4096) % 64) * 4096
                + ((c \div 64) % 64) * 64 + (c % 64)
<1> DEFINE q == c \div 64
           p == c \div 4096
<1>1. q \in Nat /\ c % 64 \in 0 .. 63 /\ c = 64 * q + (c % 64)
  BY Sextets, SMT
<1>2. p = q \div 64 /\ c \div 262144 = p \div 64
  BY Twice, Thrice, SMT
<1> HIDE DEF q, p
<1>3. p \in Nat /\ q % 64 \in 0 .. 63 /\ q = 64 * p + (q % 64)
  BY <1>1, <1>2, Sextets, SMT
<1>4. p \div 64 \in Nat /\ p % 64 \in 0 .. 63 /\ p = 64 * (p \div 64) + (p % 64)
  BY <1>3, Sextets, SMT
<1> QED BY <1>1, <1>2, <1>3, <1>4, SMT DEF q, p

(* What fy_utf8_put_unchecked() writes, by the width of the character.     *)
LEMMA PutIs ==
  ASSUME NEW c \in Nat
  PROVE  /\ c < 128 => Width(c) = 1 /\ Put(c) = <<c>>
         /\ 128 <= c /\ c < 2048 =>
              Width(c) = 2 /\ Put(c) = <<192 + c \div 64, 128 + (c % 64)>>
         /\ 2048 <= c /\ c < 65536 =>
              /\ Width(c) = 3
              /\ Put(c) = <<224 + c \div 4096, 128 + ((c \div 64) % 64), 128 + (c % 64)>>
         /\ c >= 65536 =>
              /\ Width(c) = 4
              /\ Put(c) = <<240 + c \div 262144, 128 + ((c \div 4096) % 64),
                            128 + ((c \div 64) % 64), 128 + (c % 64)>>
<1>1. /\ c < 128 => Width(c) = 1
      /\ 128 <= c /\ c < 2048 => Width(c) = 2
      /\ 2048 <= c /\ c < 65536 => Width(c) = 3
      /\ c >= 65536 => Width(c) = 4
  BY SMT DEF Width
<1>2. /\ Width(c) = 1 => Put(c) = <<c>>
      /\ Width(c) = 2 => Put(c) = <<192 + c \div 64, 128 + (c % 64)>>
      /\ Width(c) = 3 =>
           Put(c) = <<224 + c \div 4096, 128 + ((c \div 64) % 64), 128 + (c % 64)>>
      /\ Width(c) = 4 =>
           Put(c) = <<240 + c \div 262144, 128 + ((c \div 4096) % 64),
                      128 + ((c \div 64) % 64), 128 + (c % 64)>>
  BY SMT DEF Put
<1> QED BY <1>1, <1>2, SMT

(* The octet that starts a character gives its width.                      *)
LEMMA First ==
  /\ \A o \in 0 .. 127 : WidthByFirstOctet(o) = 1
  /\ \A w \in 2 .. 4 : \A o \in Leads(w) : WidthByFirstOctet(o) = w
<1>1. \A o \in 0 .. 127 : WidthByFirstOctet(o) = 1
  BY DEF WidthByFirstOctet
<1>2. \A o \in Leads(2) : WidthByFirstOctet(o) = 2
  BY DEF WidthByFirstOctet, Leads
<1>3. \A o \in Leads(3) : WidthByFirstOctet(o) = 3
  BY DEF WidthByFirstOctet, Leads
<1>4. \A o \in Leads(4) : WidthByFirstOctet(o) = 4
  BY DEF WidthByFirstOctet, Leads
<1> QED BY <1>1, <1>2, <1>3, <1>4

(* What fy_utf8_get_generic() reads from the octets of a written character.*)
LEMMA Get1 ==
  ASSUME NEW s \in Seq(Octet), Len(s) >= 1, s[1] < 128
  PROVE  Get(s) = s[1]
<1>1. s[1] \in Octet /\ s # << >>
  BY SMT
<1>2. s[1] \in 0 .. 127
  BY <1>1, Low
<1>3. WidthByFirstOctet(s[1]) = 1
  BY <1>2, First, Zenon
<1> QED BY <1>1, <1>3 DEF Get

(* What is read from as many octets as the first one announces, each of    *)
(* its kind.                                                               *)
LEMMA GetBits ==
  ASSUME NEW s \in Seq(Octet), NEW w \in 2 .. 4, Len(s) >= w,
         s[1] \in Leads(w), \A i \in 2 .. w : s[i] \in Follower,
         WellFormed(Bits(s, w), w)
  PROVE  Get(s) = Bits(s, w)
<1>1. s # << >> /\ ~(w > Len(s)) /\ w # 0 /\ w # 1
  BY SMT
<1>2. WidthByFirstOctet(s[1]) = w
  BY First, Zenon
<1> QED BY <1>1, <1>2 DEF Get, Follower

(* The bits of a character, joined.                                        *)
LEMMA BitsAre ==
  ASSUME NEW s
  PROVE  /\ Bits(s, 2) = Join2(s[1] % 32, s[2] % 64)
         /\ Bits(s, 3) = Join3(s[1] % 16, s[2] % 64, s[3] % 64)
         /\ Bits(s, 4) = Join4(s[1] % 8, s[2] % 64, s[3] % 64, s[4] % 64)
<1>1. Bits(s, 2) = Join2(s[1] % 32, s[2] % 64)
  BY DEF Bits, Join2
<1>2. Bits(s, 3) = Join3(s[1] % 16, s[2] % 64, s[3] % 64)
  BY SMT DEF Bits, Join3
<1>3. Bits(s, 4) = Join4(s[1] % 8, s[2] % 64, s[3] % 64, s[4] % 64)
  BY SMT DEF Bits, Join4
<1> QED BY <1>1, <1>2, <1>3


(* The bits are those of the octets of the character, whatever follows.    *)
LEMMA BitsSame ==
  ASSUME NEW s, NEW p, NEW w \in 2 .. 4, \A i \in 1 .. w : s[i] = p[i]
  PROVE  Bits(s, w) = Bits(p, w)
<1>1. CASE w = 2
  <2>1. s[1] = p[1] /\ s[2] = p[2]
    BY <1>1
  <2> QED BY <1>1, <2>1, BitsAre
<1>2. CASE w = 3
  <2>1. s[1] = p[1] /\ s[2] = p[2] /\ s[3] = p[3]
    BY <1>2
  <2> QED BY <1>2, <2>1, BitsAre
<1>3. CASE w = 4
  <2>1. s[1] = p[1] /\ s[2] = p[2] /\ s[3] = p[3] /\ s[4] = p[4]
    BY <1>3
  <2> QED BY <1>3, <2>1, BitsAre
<1> QED BY <1>1, <1>2, <1>3

(* The octets that fy_utf8_put_unchecked() writes.                         *)
LEMMA Written2 ==
  ASSUME NEW c \in Nat, 128 <= c, c < 2048
  PROVE  \E a \in Leads(2), b \in Follower :
           Width(c) = 2 /\ Put(c) = <<a, b>> /\ Join2(a % 32, b % 64) = c
<1> DEFINE x == c \div 64
           y == c % 64
<1>1. Put(c) = <<192 + x, 128 + y>> /\ Width(c) = 2
  BY PutIs, SMT
<1>2. x \in 0 .. 31 /\ y \in 0 .. 63 /\ c = Join2(x, y)
  BY Cut2, SMT DEF Join2
<1> HIDE DEF x, y
<1>3. 192 + x \in Leads(2) /\ (192 + x) % 32 = x
  BY <1>2, Lead2 DEF Leads
<1>4. 128 + y \in Follower /\ (128 + y) % 64 = y
  BY <1>2, Continuation DEF Follower
<1> QED BY <1>1, <1>2, <1>3, <1>4

(* ... in three octets                                                     *)
LEMMA Written3 ==
  ASSUME NEW c \in Nat, 2048 <= c, c < 65536
  PROVE  \E a \in Leads(3), b \in Follower, d \in Follower :
           /\ Width(c) = 3 /\ Put(c) = <<a, b, d>>
           /\ Join3(a % 16, b % 64, d % 64) = c
<1> DEFINE x == c \div 4096
           y == (c \div 64) % 64
           z == c % 64
<1>1. Put(c) = <<224 + x, 128 + y, 128 + z>> /\ Width(c) = 3
  BY PutIs, SMT
<1>2. x \in 0 .. 15 /\ y \in 0 .. 63 /\ z \in 0 .. 63 /\ c = Join3(x, y, z)
  BY Cut3, SMT DEF Join3
<1> HIDE DEF x, y, z
<1>3. 224 + x \in Leads(3) /\ (224 + x) % 16 = x
  BY <1>2, Lead3, SMT DEF Leads
<1>4. /\ 128 + y \in Follower /\ (128 + y) % 64 = y
      /\ 128 + z \in Follower /\ (128 + z) % 64 = z
  BY <1>2, Continuation, SMT DEF Follower
<1> QED BY <1>1, <1>2, <1>3, <1>4, SMT

(* ... and in four.                                                        *)
LEMMA Written4 ==
  ASSUME NEW c \in Nat, 65536 <= c, c < 1114112
  PROVE  \E a \in Leads(4), b \in Follower, d \in Follower, e \in Follower :
           /\ Width(c) = 4 /\ Put(c) = <<a, b, d, e>>
           /\ Join4(a % 8, b % 64, d % 64, e % 64) = c
<1> DEFINE x == c \div 262144
           y == (c \div 4096) % 64
           z == (c \div 64) % 64
           t == c % 64
<1>1. Put(c) = <<240 + x, 128 + y, 128 + z, 128 + t>> /\ Width(c) = 4
  BY PutIs, SMT
<1>2. x \in 0 .. 7 /\ y \in 0 .. 63 /\ z \in 0 .. 63 /\ t \in 0 .. 63 /\ c = Join4(x, y, z, t)
  BY Cut4, SMT DEF Join4
<1> HIDE DEF x, y, z, t
<1>3. 240 + x \in Leads(4) /\ (240 + x) % 8 = x
  BY <1>2, Lead4, SMT DEF Leads
<1>4. /\ 128 + y \in Follower /\ (128 + y) % 64 = y
      /\ 128 + z \in Follower /\ (128 + z) % 64 = z
      /\ 128 + t \in Follower /\ (128 + t) % 64 = t
  BY <1>2, Continuation, SMT DEF Follower
<1> QED BY <1>1, <1>2, <1>3, <1>4, SMT

(* Every kind of octet is an octet.                                        *)
LEMMA OctetSets ==
  ASSUME NEW w \in 2 .. 4
  PROVE  Leads(w) \subseteq Octet /\ Follower \subseteq Octet
<1>1. Leads(2) \subseteq Octet /\ Leads(3) \subseteq Octet /\ Leads(4) \subseteq Octet
  BY DEF Leads, Octet
<1>2. Follower \subseteq Octet
  BY DEF Follower, Octet
<1> QED BY <1>1, <1>2

(* Up to four octets are a text.                                           *)
LEMMA Tuples ==
  ASSUME NEW a \in Octet, NEW b \in Octet, NEW d \in Octet, NEW e \in Octet
  PROVE  /\ <<a>> \in Seq(Octet) /\ Len(<<a>>) = 1
         /\ <<a, b>> \in Seq(Octet) /\ Len(<<a, b>>) = 2
         /\ <<a, b, d>> \in Seq(Octet) /\ Len(<<a, b, d>>) = 3
         /\ <<a, b, d, e>> \in Seq(Octet) /\ Len(<<a, b, d, e>>) = 4
OBVIOUS

(* The octets p hold the bits of a character c of width w, each octet is   *)
(* of its kind.                                                            *)
Shape(p, w, c) ==
  /\ p \in Seq(Octet) /\ Len(p) = w
  /\ p[1] \in Leads(w)
  /\ \A i \in 2 .. w : p[i] \in Follower
  /\ Bits(p, w) = c

(* Two octets of their kinds hold the bits of a character.                 *)
LEMMA Shape2 ==
  ASSUME NEW a \in Leads(2), NEW b \in Follower
  PROVE  Shape(<<a, b>>, 2, Join2(a % 32, b % 64))
<1> DEFINE p == <<a, b>>
<1>1. a \in Octet /\ b \in Octet
  BY OctetSets
<1>2. p \in Seq(Octet) /\ Len(p) = 2
  BY <1>1, Tuples
<1>3. p[1] = a /\ p[2] = b
  OBVIOUS
<1> HIDE DEF p
<1>4. Bits(p, 2) = Join2(a % 32, b % 64)
  BY <1>3, BitsAre
<1>5. \A i \in 2 .. 2 : p[i] \in Follower
  BY <1>3
<1> QED BY <1>2, <1>3, <1>4, <1>5 DEF Shape, p

(* So do three                                                             *)
LEMMA Shape3 ==
  ASSUME NEW a \in Leads(3), NEW b \in Follower, NEW d \in Follower
  PROVE  Shape(<<a, b, d>>, 3, Join3(a % 16, b % 64, d % 64))
<1> DEFINE p == <<a, b, d>>
<1>1. a \in Octet /\ b \in Octet /\ d \in Octet
  BY OctetSets
<1>2. p \in Seq(Octet) /\ Len(p) = 3
  BY <1>1, Tuples
<1>3. p[1] = a /\ p[2] = b /\ p[3] = d
  OBVIOUS
<1> HIDE DEF p
<1>4. Bits(p, 3) = Join3(a % 16, b % 64, d % 64)
  BY <1>3, BitsAre
<1>5. \A i \in 2 .. 3 : p[i] \in Follower
  BY <1>3
<1> QED BY <1>2, <1>3, <1>4, <1>5 DEF Shape, p

(* and four.                                                               *)
LEMMA Shape4 ==
  ASSUME NEW a \in Leads(4), NEW b \in Follower, NEW d \in Follower, NEW e \in Follower
  PROVE  Shape(<<a, b, d, e>>, 4, Join4(a % 8, b % 64, d % 64, e % 64))
<1> DEFINE p == <<a, b, d, e>>
<1>1. a \in Octet /\ b \in Octet /\ d \in Octet /\ e \in Octet
  BY OctetSets
<1>2. p \in Seq(Octet) /\ Len(p) = 4
  BY <1>1, Tuples
<1>3. p[1] = a /\ p[2] = b /\ p[3] = d /\ p[4] = e
  OBVIOUS
<1> HIDE DEF p
<1>4. Bits(p, 4) = Join4(a % 8, b % 64, d % 64, e % 64)
  BY <1>3, BitsAre
<1>5. \A i \in 2 .. 4 : p[i] \in Follower
  BY <1>3
<1> QED BY <1>2, <1>3, <1>4, <1>5 DEF Shape, p

(* What is written for a character that takes more than one octet.         *)
LEMMA Written ==
  ASSUME NEW c \in Nat, 128 <= c, c < 1114112
  PROVE  Width(c) \in 2 .. 4 /\ Shape(Put(c), Width(c), c)
<1>1. CASE c < 2048
  <2>1. PICK a \in Leads(2), b \in Follower :
           Width(c) = 2 /\ Put(c) = <<a, b>> /\ Join2(a % 32, b % 64) = c
    BY <1>1, Written2, SMT
  <2> QED BY <2>1, Shape2, SMT
<1>2. CASE 2048 <= c /\ c < 65536
  <2>1. PICK a \in Leads(3), b \in Follower, d \in Follower :
           /\ Width(c) = 3 /\ Put(c) = <<a, b, d>>
           /\ Join3(a % 16, b % 64, d % 64) = c
    BY <1>2, Written3, SMT
  <2> QED BY <2>1, Shape3, SMT
<1>3. CASE 65536 <= c
  <2>1. PICK a \in Leads(4), b \in Follower, d \in Follower, e \in Follower :
           /\ Width(c) = 4 /\ Put(c) = <<a, b, d, e>>
           /\ Join4(a % 8, b % 64, d % 64, e % 64) = c
    BY <1>3, Written4, SMT
  <2> QED BY <2>1, Shape4, SMT
<1> QED BY <1>1, <1>2, <1>3, SMT

(* The octets of a character, with any text after them.                    *)
LEMMA Appended ==
  ASSUME NEW p \in Seq(Octet), NEW rest \in Seq(Octet)
  PROVE  /\ p \o rest \in Seq(Octet)
         /\ Len(p \o rest) >= Len(p)
         /\ \A i \in 1 .. Len(p) : (p \o rest)[i] = p[i]
OBVIOUS

(* Reading undoes writing: fy_utf8_get() of the octets that                *)
(* fy_utf8_put_unchecked() wrote for a character, whatever follows them in *)
(* the text, is that character.                                            *)
THEOREM ReadWritten ==
  ASSUME NEW c \in Character, NEW rest \in Seq(Octet)
  PROVE  Get(Put(c) \o rest) = c
<1> DEFINE p == Put(c)
           s == p \o rest
           w == Width(c)
<1>1. CASE c < 128
  <2>1. p = <<c>> /\ c \in Octet
    BY <1>1, PutIs, Octets, SMT DEF Character
  <2>2. p \in Seq(Octet) /\ Len(p) = 1 /\ p[1] = c
    BY <2>1, Tuples
  <2> HIDE DEF p
  <2>3. s \in Seq(Octet) /\ Len(s) >= 1 /\ s[1] = c
    BY <2>2, Appended
  <2> HIDE DEF s
  <2>4. Get(s) = s[1]
    BY <1>1, <2>3, Get1
  <2> QED BY <2>3, <2>4 DEF s, p
<1>2. CASE 128 <= c
  <2>1. w \in 2 .. 4 /\ Shape(p, w, c)
    BY <1>2, Written, SMT DEF Character
  <2>2. WellFormed(c, w)
    BY SMT DEF WellFormed, Character
  <2> HIDE DEF p, w
  <2>3. s \in Seq(Octet) /\ Len(s) >= w /\ \A i \in 1 .. w : s[i] = p[i]
    BY <2>1, Appended DEF Shape
  <2> HIDE DEF s
  <2>4. Bits(s, w) = c
    BY <2>1, <2>3, BitsSame DEF Shape
  <2>5. s[1] \in Leads(w) /\ \A i \in 2 .. w : s[i] \in Follower
    BY <2>1, <2>3 DEF Shape
  <2>6. Get(s) = Bits(s, w)
    BY <2>1, <2>2, <2>3, <2>4, <2>5, GetBits
  <2> QED BY <2>4, <2>6 DEF s, p
<1> QED BY <1>1, <1>2, SMT DEF Character

(* The octets give a character back only if writing it gives the octets.   *)
LEMMA Rewritten2 ==
  ASSUME NEW a \in Leads(2), NEW b \in Follower, Width(Join2(a % 32, b % 64)) = 2
  PROVE  Put(Join2(a % 32, b % 64)) = <<a, b>> /\ Join2(a % 32, b % 64) \in Nat
<1> DEFINE x == a % 32
           y == b % 64
           c == Join2(x, y)
<1>1. x \in Nat /\ a = 192 + x /\ y \in 0 .. 63 /\ b = 128 + y
  BY Unlead
<1> HIDE DEF x, y
<1>2. c = 64 * x + y /\ c \in Nat
  BY <1>1 DEF Join2
<1>3. Width(c) = 2
  BY DEF x, y
<1> HIDE DEF c
<1>4. c \div 64 = x /\ c % 64 = y
  BY <1>1, <1>2, Joined, Zenon
<1>5. Put(c) = <<192 + c \div 64, 128 + (c % 64)>>
  BY <1>3 DEF Put
<1> QED BY <1>1, <1>2, <1>4, <1>5 DEF c, x, y

(* ... in three octets                                                     *)
LEMMA Rewritten3 ==
  ASSUME NEW a \in Leads(3), NEW b \in Follower, NEW d \in Follower,
         Width(Join3(a % 16, b % 64, d % 64)) = 3
  PROVE  /\ Put(Join3(a % 16, b % 64, d % 64)) = <<a, b, d>>
         /\ Join3(a % 16, b % 64, d % 64) \in Nat
<1> DEFINE x == a % 16
           y == b % 64
           z == d % 64
           c == Join3(x, y, z)
<1>1. x \in Nat /\ a = 224 + x /\ y \in 0 .. 63 /\ b = 128 + y /\ z \in 0 .. 63 /\ d = 128 + z
  BY Unlead
<1> HIDE DEF x, y, z
<1> DEFINE q == 64 * x + y
<1>2. q \in Nat /\ q \div 64 = x /\ q % 64 = y
  BY <1>1, Joined, Zenon
<1>3. c = 64 * q + z /\ c \in Nat
  BY <1>1, SMT DEF Join3
<1>4. Width(c) = 3
  BY DEF x, y, z
<1> HIDE DEF c, q
<1>5. c \div 64 = q /\ c % 64 = z
  BY <1>1, <1>2, <1>3, Joined
<1>6. c \div 4096 = x
  BY <1>2, <1>3, <1>5, Twice, SMT
<1>7. Put(c) = <<224 + c \div 4096, 128 + ((c \div 64) % 64), 128 + (c % 64)>>
  BY <1>4, SMT DEF Put
<1>8. Put(c) = <<a, b, d>>
  BY <1>1, <1>2, <1>5, <1>6, <1>7, SMT
<1> QED BY <1>3, <1>8 DEF c, x, y, z

(* ... and in four.                                                        *)
LEMMA Rewritten4 ==
  ASSUME NEW a \in Leads(4), NEW b \in Follower, NEW d \in Follower, NEW e \in Follower,
         Width(Join4(a % 8, b % 64, d % 64, e % 64)) = 4
  PROVE  /\ Put(Join4(a % 8, b % 64, d % 64, e % 64)) = <<a, b, d, e>>
         /\ Join4(a % 8, b % 64, d % 64, e % 64) \in Nat
<1> DEFINE x == a % 8
           y == b % 64
           z == d % 64
           t == e % 64
           c == Join4(x, y, z, t)
<1>1. /\ x \in Nat /\ a = 240 + x /\ y \in 0 .. 63 /\ b = 128 + y
      /\ z \in 0 .. 63 /\ d = 128 + z /\ t \in 0 .. 63 /\ e = 128 + t
  BY Unlead
<1> HIDE DEF x, y, z, t
<1> DEFINE q == 64 * x + y
           r == 64 * q + z
<1>2. q \in Nat /\ q \div 64 = x /\ q % 64 = y
  BY <1>1, Joined, Zenon
<1> HIDE DEF q
<1>3. r \in Nat /\ r \div 64 = q /\ r % 64 = z
  BY <1>1, <1>2, Joined, Zenon
<1>4. c = 64 * r + t /\ c \in Nat
  BY <1>1, SMT DEF Join4, q
<1>5. Width(c) = 4
  BY DEF x, y, z, t
<1> HIDE DEF c, r
<1>6. c \div 64 = r /\ c % 64 = t
  BY <1>1, <1>3, <1>4, Joined, Zenon
<1>7. c \div 4096 = q
  BY <1>3, <1>4, <1>6, Twice, SMT
<1>8. c \div 262144 = x
  BY <1>2, <1>4, <1>7, Thrice, SMT
<1>9. Put(c) = <<240 + c \div 262144, 128 + ((c \div 4096) % 64),
                 128 + ((c \div 64) % 64), 128 + (c % 64)>>
  BY <1>5, SMT DEF Put
<1>10. Put(c) = <<a, b, d, e>>
  BY <1>1, <1>2, <1>3, <1>6, <1>7, <1>8, <1>9, SMT
<1> QED BY <1>4, <1>10 DEF c, x, y, z, t

(* The same for a text of any length, whatever the width of its first      *)
(* character.                                                              *)
LEMMA Rewritten ==
  ASSUME NEW s \in Seq(Octet), NEW w \in 2 .. 4, Len(s) >= w,
         s[1] \in Leads(w), \A i \in 2 .. w : s[i] \in Follower,
         Width(Bits(s, w)) = w
  PROVE  /\ Bits(s, w) \in Nat
         /\ Len(Put(Bits(s, w))) = w
         /\ \A i \in 1 .. w : s[i] = Put(Bits(s, w))[i]
<1>1. CASE w = 2
  <2>1. s[2] \in Follower /\ Bits(s, 2) = Join2(s[1] % 32, s[2] % 64)
    BY <1>1, BitsAre
  <2>2. Put(Bits(s, 2)) = <<s[1], s[2]>> /\ Bits(s, 2) \in Nat
    BY <1>1, <2>1, Rewritten2
  <2> QED BY <1>1, <2>2
<1>2. CASE w = 3
  <2>1. /\ s[2] \in Follower /\ s[3] \in Follower
        /\ Bits(s, 3) = Join3(s[1] % 16, s[2] % 64, s[3] % 64)
    BY <1>2, BitsAre
  <2>2. Put(Bits(s, 3)) = <<s[1], s[2], s[3]>> /\ Bits(s, 3) \in Nat
    BY <1>2, <2>1, Rewritten3
  <2> QED BY <1>2, <2>2
<1>3. CASE w = 4
  <2>1. /\ s[2] \in Follower /\ s[3] \in Follower /\ s[4] \in Follower
        /\ Bits(s, 4) = Join4(s[1] % 8, s[2] % 64, s[3] % 64, s[4] % 64)
    BY <1>3, BitsAre
  <2>2. Put(Bits(s, 4)) = <<s[1], s[2], s[3], s[4]>> /\ Bits(s, 4) \in Nat
    BY <1>3, <2>1, Rewritten4
  <2> QED BY <1>3, <2>2
<1> QED BY <1>1, <1>2, <1>3

(* The first octet announces a width only if it is of the kind of that     *)
(* width.                                                                  *)
LEMMA FirstIs ==
  ASSUME NEW o \in Octet
  PROVE  \/ WidthByFirstOctet(o) = 0
         \/ WidthByFirstOctet(o) = 1 /\ o < 128
         \/ WidthByFirstOctet(o) \in 2 .. 4 /\ o \in Leads(WidthByFirstOctet(o))
<1>1. /\ WidthByFirstOctet(o) \in 0 .. 4
      /\ WidthByFirstOctet(o) = 1 => o < 128
      /\ WidthByFirstOctet(o) = 2 => o \in 192 .. 223
      /\ WidthByFirstOctet(o) = 3 => o \in 224 .. 239
      /\ WidthByFirstOctet(o) = 4 => o \in 240 .. 247
  BY DEF WidthByFirstOctet
<1>2. Leads(2) = 192 .. 223 /\ Leads(3) = 224 .. 239 /\ Leads(4) = 240 .. 247
  BY DEF Leads
<1> QED BY <1>1, <1>2

(* What is well formed is in its shortest form.                            *)
LEMMA FormedWidth == \A c, w : WellFormed(c, w) => Width(c) = w
BY SMT DEF WellFormed

(* Writing undoes reading: whatever octets fy_utf8_get() accepts are the   *)
(* octets that fy_utf8_put_unchecked() writes for the character it         *)
(* returns, and that is a character of Unicode.  So overlong forms,        *)
(* surrogates and numbers past 10FFFF are never accepted.                  *)
THEOREM WrittenRead ==
  ASSUME NEW s \in Seq(Octet), Get(s) >= 0
  PROVE  /\ Get(s) \in Character
         /\ Len(Put(Get(s))) <= Len(s)
         /\ \A i \in 1 .. Len(Put(Get(s))) : s[i] = Put(Get(s))[i]
<1> DEFINE w == WidthByFirstOctet(s[1])
<1>1. s # << >> /\ w # 0
  BY DEF Get, FYUG_EOF, FYUG_INV
<1>2. s[1] \in Octet /\ Len(s) >= 1
  BY <1>1
<1>3. CASE w = 1 /\ s[1] < 128
  <2>1. Get(s) = s[1]
    BY <1>2, <1>3, Get1
  <2>2. s[1] \in Nat
    BY <1>2, OctetNat
  <2>3. Put(s[1]) = <<s[1]>>
    BY <1>3, <2>2, PutIs, SMT
  <2>4. s[1] \in Character
    BY <1>3, <2>2, SMT DEF Character
  <2>5. Len(Put(s[1])) = 1 /\ \A i \in 1 .. 1 : s[i] = Put(s[1])[i]
    BY <2>3
  <2> QED BY <1>2, <2>1, <2>4, <2>5
<1>4. CASE w \in 2 .. 4 /\ s[1] \in Leads(w)
  <2>0. Get(s) # FYUG_INV /\ Get(s) # FYUG_PARTIAL /\ w # 1
    BY <1>4 DEF FYUG_INV, FYUG_PARTIAL
  <2>1. /\ ~(w > Len(s)) /\ (\A i \in 2 .. w : s[i] \in 128 .. 191)
        /\ WellFormed(Bits(s, w), w) /\ Get(s) = Bits(s, w)
    BY <1>1, <2>0, Zenon DEF Get
  <2> HIDE DEF w
  <2>2. Len(s) >= w /\ \A i \in 2 .. w : s[i] \in Follower
    BY <1>4, <2>1 DEF Follower
  <2> DEFINE c == Bits(s, w)
  <2>3. WellFormed(c, w) /\ Width(c) = w
    BY <2>1, FormedWidth
  <2>4. c \in Nat /\ Len(Put(c)) = w /\ \A i \in 1 .. w : s[i] = Put(c)[i]
    BY <1>4, <2>2, <2>3, Rewritten, Zenon
  <2> HIDE DEF c
  <2>5. c \in Character
    BY <2>3, <2>4, SMT DEF Character, WellFormed
  <2> QED BY <2>1, <2>2, <2>4, <2>5 DEF c
<1> QED BY <1>1, <1>2, <1>3, <1>4, FirstIs

=============================================================================
