------------------------------ MODULE FyTypes ------------------------------
(***************************************************************************)
(* The vocabulary shared by the modules of the streaming parser: the       *)
(* states of enum fy_parser_state, the token types the scanner queues and  *)
(* the event types the parser delivers.  Names drop the FYPS_, FYTT_ and   *)
(* FYET_ prefixes.                                                         *)
(*                                                                         *)
(* A token is its type.  Four types are split where the code looks inside  *)
(* the token: a scalar by being double quoted (the JSON key rule), a       *)
(* version directive by its number, and a tag directive or a tag by the    *)
(* handle it names ("!!" is a default handle, "!h!" is not).               *)
(***************************************************************************)
EXTENDS Sequences

(* FYPS_*: the states of the parser, and those it may put on the stack.    *)
SeqEntryStates == {"BLOCK_SEQUENCE_FIRST_ENTRY", "BLOCK_SEQUENCE_ENTRY",
                   "INDENTLESS_SEQUENCE_ENTRY"}

NodeStates == {"DOCUMENT_CONTENT", "BLOCK_NODE"}

PushedStates ==
  SeqEntryStates \cup
  {"DOCUMENT_END", "BLOCK_MAPPING_KEY", "BLOCK_MAPPING_VALUE",
   "FLOW_SEQUENCE_ENTRY", "FLOW_SEQUENCE_ENTRY_MAPPING_VALUE",
   "FLOW_SEQUENCE_ENTRY_MAPPING_END", "FLOW_MAPPING_KEY",
   "FLOW_MAPPING_VALUE", "FLOW_MAPPING_EMPTY_VALUE"}

ParserStates ==
  PushedStates \cup NodeStates \cup
  {"NONE", "STREAM_START", "IMPLICIT_DOCUMENT_START", "DOCUMENT_START",
   "BLOCK_MAPPING_FIRST_KEY", "FLOW_SEQUENCE_FIRST_ENTRY",
   "FLOW_SEQUENCE_ENTRY_MAPPING_KEY", "FLOW_MAPPING_FIRST_KEY",
   "SINGLE_DOCUMENT_END", "END"}

(* FYTT_*: the token types.                                                *)
VersionDirectives == {"VERSION_1_1", "VERSION_1_2", "VERSION_BAD"}
TagDirectives     == {"TAG_DIRECTIVE_DEF", "TAG_DIRECTIVE_H"}
Directives        == VersionDirectives \cup TagDirectives
Tags              == {"TAG_DEF", "TAG_H"}
Scalars           == {"SCALAR", "SCALAR_DQ"}
FlowStarts        == {"FLOW_SEQUENCE_START", "FLOW_MAPPING_START"}
FlowEnds          == {"FLOW_SEQUENCE_END", "FLOW_MAPPING_END"}
BlockStarts       == {"BLOCK_SEQUENCE_START", "BLOCK_MAPPING_START"}
DocumentMarkers   == {"DOCUMENT_START", "DOCUMENT_END"}

BodyTokens ==
  Directives \cup Tags \cup Scalars \cup FlowStarts \cup FlowEnds \cup
  BlockStarts \cup DocumentMarkers \cup
  {"BLOCK_END", "BLOCK_ENTRY", "FLOW_ENTRY", "KEY", "VALUE", "ALIAS", "ANCHOR"}

Tokens == BodyTokens \cup {"STREAM_START", "STREAM_END"}

(* The handle a tag directive binds or a tag uses.                         *)
DefaultHandles == {"!!"}
Handles        == DefaultHandles \cup {"!h!"}
HandleOf(tok)  == IF tok \in {"TAG_DIRECTIVE_H", "TAG_H"} THEN "!h!" ELSE "!!"

(* FYET_*: "NONE" stands for a step that hands no event to the caller.     *)
NodeEvents == {"SCALAR", "ALIAS", "SEQUENCE_START", "MAPPING_START"}
Events ==
  NodeEvents \cup
  {"NONE", "STREAM_START", "STREAM_END", "DOCUMENT_START", "DOCUMENT_END",
   "SEQUENCE_END", "MAPPING_END"}

=============================================================================
