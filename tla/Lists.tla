------------------------------- MODULE Lists --------------------------------
(***************************************************************************)
(* The list helpers of the streaming models.  They mean what the operators *)
(* of the same names mean in the community module SequencesExt, which the  *)
(* modules that are only model-checked use.  A proof obligation carries    *)
(* every definition and theorem of the modules it stands in, and           *)
(* SequencesExt brings in those of Bags, FiniteSets and TLC: the modules   *)
(* with proofs are checked several times faster without it.                *)
(***************************************************************************)
EXTENDS Sequences, Integers

(* The last element, and the list without it.                              *)
Last(s) == s[Len(s)]

Front(s) == SubSeq(s, 1, Len(s) - 1)

(* The lists of a list, one behind the other.                              *)
FlattenSeq(ss) ==
  IF Len(ss) = 0 THEN << >>
  ELSE LET upto[i \in 1 .. Len(ss)] ==
             IF i = 1 THEN ss[i] ELSE upto[i - 1] \o ss[i]
       IN  upto[Len(ss)]
=============================================================================
