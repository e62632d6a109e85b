----------------------------- MODULE MCFyReader -----------------------------
(***************************************************************************)
(* FyReader for TLC: texts of up to three characters of one to four         *)
(* octets with both line breaks and one of YAML 1.1, texts that are not    *)
(* UTF-8, and every kind of input.                                         *)
(***************************************************************************)
EXTENDS FyReader

MCCharacters == {10, 13, 45, 97, 233, 8232, 65536}

Chars(t) == FlattenSeq([i \in DOMAIN t |-> Put(t[i])])
Texts == {Chars(t) : t \in {<< >>, <<97, 13, 10>>, <<13, 13, 10>>, <<10, 8232, 13>>,
                           <<65536, 10>>, <<233>>, <<45, 45, 45>>}}
NotUtf8 == {<<195>>, <<97, 226, 128>>, <<192, 138>>}

MCSources ==
  [type : {"memory", "read"}, content : Texts \cup NotUtf8]
  \cup [type : {"stdio", "callback"},
        content : {<< >>, <<97, 226, 128>>} \cup {Chars(t) : t \in {<<97, 13, 10>>, <<65536, 10>>}}]
MCLater == {[type |-> "stdio", content |-> <<97>>]}
MCStrings == {<<45, 45, 45>>}
=============================================================================
