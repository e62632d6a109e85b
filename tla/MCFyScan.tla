------------------------------ MODULE MCFyScan ------------------------------
(***************************************************************************)
(* An instance of FyScan for TLC: block style and brackets in one text,    *)
(* which can also be JSON.  Documents and their markers are in MCFyStream. *)
(***************************************************************************)
EXTENDS FyScan

MixedText == {"[", "{", "]", "}", ",", "-", "?", ":", "a", "a+", "q+", "*",
              "!", "|", "%"}

=============================================================================
