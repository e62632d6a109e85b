----------------------------- MODULE MCFyParser -----------------------------
(***************************************************************************)
(* FyParser for TLC, on two families of token streams.  The family nodes   *)
(* offers every token that has to do with nodes and collections, in one    *)
(* input and nested as deep as MaxDepth.  The family documents offers      *)
(* every token that has to do with documents and their directives, over    *)
(* MaxInputs inputs, and only enough of the others to give a document a    *)
(* body.  Together they cover BodyTokens.                                  *)
(***************************************************************************)
EXTENDS FyParser

Nesting ==
  Scalars \cup FlowStarts \cup FlowEnds \cup BlockStarts \cup
  {"BLOCK_END", "BLOCK_ENTRY", "FLOW_ENTRY", "KEY", "VALUE", "ALIAS",
   "ANCHOR", "DOCUMENT_START"}

Documents ==
  Directives \cup Tags \cup DocumentMarkers \cup
  {"SCALAR", "FLOW_SEQUENCE_START", "FLOW_SEQUENCE_END",
   "BLOCK_MAPPING_START", "BLOCK_END", "KEY"}

VARIABLE family

(* The steps of a family: what is fetched next, and how many inputs wait.  *)
Within ==
  LET fetched == IF Len(queue') > Len(queue) THEN {queue'[i] : i \in DOMAIN queue'} ELSE {}
  IN  IF family = "nodes"
      THEN inputs' <= 1 /\ fetched \cap BodyTokens \subseteq Nesting
      ELSE /\ fetched \cap BodyTokens \subseteq Documents
           /\ fetched \cap (FlowStarts \cup BlockStarts) = {} \/ state_stack = << >>

mcVars == <<vars, family>>

MCInit == Init /\ family \in {"nodes", "documents"}
MCNext == Next /\ UNCHANGED family /\ Within

MCFairSpec ==
  /\ MCInit /\ [][MCNext]_mcVars
  /\ WF_mcVars(Parse /\ UNCHANGED family) /\ WF_mcVars(Peek /\ UNCHANGED family /\ Within)
  /\ SF_mcVars(FetchStreamEnd /\ UNCHANGED family)

=============================================================================
