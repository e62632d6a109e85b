----------------------------- MODULE MCFyStream -----------------------------
(***************************************************************************)
(* FyStream for TLC, on two families of texts: the nodes of a document, in *)
(* block style with brackets in between; and documents with their markers  *)
(* and directives over several inputs, in the first two columns.  A reset  *)
(* needs little text.                                                      *)
(***************************************************************************)
EXTENDS FyStream

NodeText  == {"-", "?", ":", "a", "[", "]"}
ResetText == {"[", "]", ":", "a"}
DocText   == {"%", "---", "...", "{", "}", ",", ":", "a"}
Text      == NodeText \cup DocText

VARIABLE family

Within ==
  look = NoText \/ IF family = "nodes"
                   THEN look.c \in NodeText /\ (look.c \in {"[", "]"} => look.column <= 1)
                        /\ (look.c = "?" => look.column = 0)
                   ELSE look.c \in DocText /\ look.column <= 1

mcVars == <<vars, family>>
Same == UNCHANGED family /\ Within'

MCInit == StreamInit /\ family \in {"nodes", "documents"}

MCFairSpec ==
  /\ MCInit /\ [][Next /\ Same]_mcVars
  /\ WF_mcVars(Step /\ Same) /\ SF_mcVars(InPeek /\ StreamEnd /\ Same)

MCResetSpec == MCInit /\ [][(Next \/ Reset) /\ Same]_mcVars

=============================================================================
