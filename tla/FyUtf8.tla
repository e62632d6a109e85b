------------------------------- MODULE FyUtf8 -------------------------------
(***************************************************************************)
(* fy-utf8.c and fy-utf8.h: octets and characters.  Texts are sequences of *)
(* octets, characters are numbers, and numbers below zero say why there is *)
(* none.                                                                   *)
(***************************************************************************)
EXTENDS Integers, Sequences, SequencesExt

FYUG_EOF == -1
FYUG_INV == -2
FYUG_PARTIAL == -3

\* fy_utf8_width_by_first_octet()
WidthByFirstOctet(o) ==
  CASE o < 128 -> 1
    [] o \in 192 .. 223 -> 2
    [] o \in 224 .. 239 -> 3
    [] o \in 240 .. 247 -> 4
    [] OTHER -> 0

\* fy_utf8_width()
Width(c) == IF c < 128 THEN 1 ELSE IF c < 2048 THEN 2 ELSE IF c < 65536 THEN 3 ELSE 4

\* fy_utf8_get(): the bits of the octets of a character that has w of them
Bits(s, w) ==
  CASE w = 2 -> (s[1] % 32) * 64 + (s[2] % 64)
    [] w = 3 -> (s[1] % 16) * 4096 + (s[2] % 64) * 64 + (s[3] % 64)
    [] w = 4 -> (s[1] % 8) * 262144 + (s[2] % 64) * 4096 + (s[3] % 64) * 64 + (s[4] % 64)

\* Whether the bits are a character, in the shortest form it has.
WellFormed(value, w) ==
  ~(55296 <= value /\ value < 57344) /\ value < 1114112 /\ Width(value) = w

\* fy_utf8_get(): the character at the start of the octets
Get(s) ==
  IF s = << >> THEN FYUG_EOF
  ELSE LET w == WidthByFirstOctet(s[1]) IN
       IF w = 1 THEN s[1]
       ELSE IF w = 0 THEN FYUG_INV
       ELSE IF w > Len(s) THEN FYUG_PARTIAL
       ELSE IF (\A i \in 2 .. w : s[i] \in 128 .. 191) /\ WellFormed(Bits(s, w), w)
            THEN Bits(s, w) ELSE FYUG_INV

\* fy_utf8_put_unchecked()
Put(c) ==
  CASE Width(c) = 1 -> <<c>>
    [] Width(c) = 2 -> <<192 + c \div 64, 128 + (c % 64)>>
    [] Width(c) = 3 -> <<224 + c \div 4096, 128 + ((c \div 64) % 64), 128 + (c % 64)>>
    [] Width(c) = 4 -> <<240 + c \div 262144, 128 + ((c \div 4096) % 64),
                         128 + ((c \div 64) % 64), 128 + (c % 64)>>
=============================================================================
