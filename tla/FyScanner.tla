----------------------------- MODULE FyScanner -----------------------------
(***************************************************************************)
(* The scanner of libfyaml: fy_fetch_tokens(), which turns text into the   *)
(* queue of tokens that fy_scan_peek() hands out.                          *)
(*                                                                         *)
(* The text is a stream of lexemes.  A lexeme is named after the character *)
(* fy_fetch_tokens() dispatches on; it carries the column it starts at and *)
(* what separates it from the one before.  A fetch takes the next lexeme,  *)
(* which a step therefore finds in look'; `ahead' is what the handler      *)
(* before has already seen of it.  Malformed text (a bad escape, a tab, a  *)
(* comment without a space) may turn up wherever a handler checks for it.  *)
(*                                                                         *)
(* Lines are only ever compared with the current one, so a mark keeps its  *)
(* column and whether the line has changed since (`old').  A pointer to a  *)
(* queued token is its position in the queue.                              *)
(*                                                                         *)
(* Who consumes the tokens is left open: module FyScan adds fy_scan(), and *)
(* module FyStream the parser.  A fetch that fails sets stream_error and   *)
(* leaves behind what its handler had done until then.                     *)
(***************************************************************************)
EXTENDS FyTypes, Integers, Lists

CONSTANTS Chars,       \* the lexemes the text is made of
          MaxColumn,   \* bound on columns
          MaxFlow,     \* bound on flow nesting
          MaxQueue,    \* bound: the text ends when this many tokens wait
          Sloppy       \* FYPCF_SLOPPY_FLOW_INDENTATION

AllChars == {"[", "{", "]", "}", ",", "-", "?", ":", "*", "&", "!", "|",
             "q", "q+", "a", "a+", "%", "---", "..."}

ASSUME CharsAssumption == Chars \subseteq AllChars
ASSUME ScanBounds == /\ MaxColumn \in Nat /\ MaxFlow \in Nat /\ MaxQueue \in Nat
                     /\ Sloppy \in BOOLEAN

VARIABLES
  queue,               \* fyp->queued_tokens
  simple_keys,         \* fyp->simple_keys, head first
  simple_key_allowed,
  indents,             \* fyp->indent_stack under (indent, generated_block_map)
  flow_level,
  flows,               \* fyp->flow_stack under (flow, pending_complex_key)
  last_was_comma,
  json,                \* fyp_json_mode()
  stream_start_produced, stream_end_reached, stream_end_produced,
  stream_error,
  current,             \* the reader has an input open
  inputs,              \* length of fyp->queued_inputs
  look,                \* the lexeme fetched last
  ahead                \* what is already known of the next one

contextVars == <<simple_keys, simple_key_allowed, indents, flow_level, flows,
                 last_was_comma>>
streamVars  == <<json, stream_start_produced, stream_end_reached,
                 stream_end_produced, current, inputs>>
scanVars    == <<queue, contextVars, streamVars, stream_error, look, ahead>>

-----------------------------------------------------------------------------
(* Text.  gap: nothing but blanks, a line break, or a comment and a line   *)
(* break.  A plain or quoted scalar that spans lines is "a+" or "q+".      *)
Columns == 0 .. MaxColumn
Gaps    == {"none", "line", "comment"}
LexemesOf(C) == [c : C, gap : Gaps, column : Columns]
Lexemes == LexemesOf(Chars \cup {"EOF"})
NoText  == [c |-> "EOF", gap |-> "none", column |-> 0]
Plains  == {"a", "a+"}
Spans   == {"a+", "q+"}
Markers == {"%", "---", "..."}
FlowIndicators == {"[", "{", "]", "}", ","}

(* What can follow on the line of the previous lexeme.  Inside brackets,   *)
(* and for the ':' of a key, only the order of columns matters.            *)
SameLine(l) ==
  /\ l.c \notin Markers /\ look.c \notin {"|", "%"}
  /\ look.c \in Plains => l.c \in {":"} \cup (IF flow_level > 0 THEN FlowIndicators ELSE {})
  /\ IF look.c \in Spans
     THEN l.column > Last(indents).indent /\ l.column > 0
     ELSE \/ l.column > look.column
          \/ /\ l.column = look.column
             /\ flow_level > 0 \/ (l.c = ":" /\ simple_keys # << >>)

(* What can follow on a later line: a plain scalar goes on until something *)
(* ends it.                                                                *)
LaterLine(l) ==
  /\ l.c \in Markers => l.column = 0
  /\ l.gap = "comment" => look.c \in Plains
  /\ look.c \in Plains /\ l.gap = "line" =>
       \/ l.c \in {":", "---", "..."}
       \/ IF flow_level > 0 THEN l.c \in FlowIndicators
                            ELSE l.column <= Last(indents).indent

(* Handlers look ahead for a ':' or a '-', or for the end of the line.     *)
(* `ahead' is the set of what may still come, as (gap, character) pairs.   *)
Class(c)   == IF c \in {":", "-", "EOF"} THEN c ELSE "other"
Anything   == Gaps \X {":", "-", "EOF", "other"}
Colon      == {<<"none", ":">>}
Dash       == {<<"none", "-">>}
LineEnd    == {p \in Anything : p[1] # "none" \/ p[2] = "EOF"}
LineBreak  == {p \in Anything : p[1] = "line"}

Follows(l) ==
  /\ <<l.gap, Class(l.c)>> \in ahead
  /\ \/ l = NoText
     \/ /\ l.c # "EOF" /\ Len(queue) < MaxQueue
        /\ l.c = "|" => flow_level = 0
        /\ l.c \in {"[", "{"} => flow_level < MaxFlow
        /\ IF l.gap = "none" THEN SameLine(l) ELSE LaterLine(l)

-----------------------------------------------------------------------------
(* Context.                                                                *)
NoPending == [column |-> -1, old |-> FALSE]

NoFlow    == [flow |-> "none", pending |-> NoPending]
NoIndent  == [indent |-> -2, bmap |-> FALSE]

Init ==
  /\ queue = << >> /\ simple_keys = << >> /\ simple_key_allowed = FALSE
  /\ indents = <<NoIndent>>
  /\ flow_level = 0 /\ flows = <<NoFlow>>
  /\ last_was_comma = FALSE /\ json = FALSE
  /\ stream_start_produced = FALSE /\ stream_end_reached = FALSE
  /\ stream_end_produced = FALSE /\ stream_error = FALSE
  /\ current = FALSE /\ look = NoText /\ ahead = Anything

NewLine == look'.gap # "none"
Age(ks) == [i \in DOMAIN ks |-> [ks[i] EXCEPT !.old = TRUE, !.endold = TRUE]]
AgeFlows(fs) == [i \in DOMAIN fs |-> [fs[i] EXCEPT !.pending.old = fs[i].pending.column >= 0]]

(* fy_scan_to_next_token(): the context once `look' has been reached.      *)
keys    == IF NewLine THEN Age(simple_keys) ELSE simple_keys
flowing == IF NewLine THEN AgeFlows(flows) ELSE flows
allowed == simple_key_allowed \/ (NewLine /\ flow_level = 0)

(* fy_parse_unroll_indent(): levels deeper than the column are closed.     *)
Popped(ind, column) ==
  IF flow_level > 0 THEN 0
  ELSE CHOOSE n \in 0 .. Len(ind) :
         /\ \A i \in Len(ind) - n + 1 .. Len(ind) : ind[i].indent > column
         /\ n < Len(ind) => ind[Len(ind) - n].indent <= column
Unroll(ind, column) == SubSeq(ind, 1, Len(ind) - Popped(ind, column))
BlockEnds(column)   == [i \in 1 .. Popped(indents, column) |-> "BLOCK_END"]

levels == Unroll(indents, look'.column)
tokens == queue \o BlockEnds(look'.column)
Indent == Last(levels).indent

pending == Last(flowing).pending
WithPending(fs, p) == [fs EXCEPT ![Len(fs)].pending = p]

(* fy_flow_indent_check()                                                  *)
FlowIndentOK == flow_level = 0 \/ look'.column > Indent \/ Sloppy

-----------------------------------------------------------------------------
(* Simple keys.                                                            *)

(* The longest prefix of ks whose members satisfy Drop.                    *)
PrefixLen(ks, Drop(_)) ==
  CHOOSE n \in 0 .. Len(ks) : /\ \A i \in 1 .. n : Drop(ks[i])
                              /\ n < Len(ks) => ~Drop(ks[n + 1])
After(ks, n)        == SubSeq(ks, n + 1, Len(ks))
RequiredIn(ks, n)   == \E i \in 1 .. n : ks[i].required

(* fy_purge_stale_simple_keys() at flow level fl.                          *)
StaleLen(ks, fl) ==
  PrefixLen(ks, LAMBDA k : IF fl = 0 THEN k.old ELSE fl < k.flow_level)
PurgeFails(ks, fl) == RequiredIn(ks, StaleLen(ks, fl))
Purged(ks, fl)     == After(ks, StaleLen(ks, fl))

(* What is left when the purge meets a required key: it, and all behind it.*)
Stuck(ks) == After(ks, PrefixLen(ks, LAMBDA k : ~k.required))

(* fy_remove_simple_key()                                                  *)
RemoveLen(ks)   == PrefixLen(ks, LAMBDA k : k.flow_level >= flow_level)
RemoveFails(ks) == RequiredIn(ks, RemoveLen(ks))
Removed(ks)     == After(ks, RemoveLen(ks))

(* A required key is deleted before it is refused.                         *)
RemoveStuck(ks) == Tail(Stuck(ks))

(* fy_get_simple_key_mark() and fy_save_simple_key_mark(): the token just  *)
(* queued at position n, which began at `look', may turn out to be a key.  *)
Key(n, old, endold) ==
  [token |-> n, column |-> look'.column, flow_level |-> flow_level,
   required |-> flow_level = 0 /\ look'.column = Indent, old |-> old, endold |-> endold]

Reuses_Never(ks) ==   \* mutant: a new key is added to the one it replaces
  FALSE

Reuses(ks) == ks # << >> /\ Head(ks).flow_level >= flow_level

SaveFails(ks) ==
  \/ PurgeFails(ks, flow_level)
  \/ /\ allowed /\ Reuses(Purged(ks, flow_level))
     /\ Head(Purged(ks, flow_level)).required

Saved(ks, k) ==
  LET p == Purged(ks, flow_level) IN
  IF allowed THEN <<k>> \o (IF Reuses(p) THEN Tail(p) ELSE p) ELSE p

(* A complex key ends where a simple key starts further left on a new line.*)
SavePending ==
  IF /\ allowed /\ flow_level = 0 /\ pending.column >= 0
     /\ pending.old /\ look'.column <= pending.column
  THEN WithPending(flowing, NoPending) ELSE flowing

(* The keys and the flow context when fy_save_simple_key() fails.          *)
SaveStuck(ks)  == IF PurgeFails(ks, flow_level) THEN Stuck(ks) ELSE Purged(ks, flow_level)
PendStuck(ks)  == IF PurgeFails(ks, flow_level) THEN flowing ELSE SavePending

-----------------------------------------------------------------------------
(* The parts of a fetch.                                                   *)

(* fy_scan_peek() can hand out the head of the queue.                      *)
Ready == queue # << >> /\ simple_keys = << >>

(* fy_fetch_tokens() is called inside fy_scan_peek() and dispatches on the *)
(* character of the next lexeme.                                           *)
Fetches == /\ ~Ready /\ ~stream_error /\ ~stream_end_produced
           /\ stream_start_produced /\ ~stream_end_reached
Fetch(C) == Fetches /\ look' \in {l \in LexemesOf(C \cap Chars) : Follows(l)}

(* The fetch has succeeded, and has seen S of the lexeme that follows.     *)
Done(S) ==
  /\ ahead' = S /\ last_was_comma' = (look'.c = ",")
  /\ UNCHANGED <<streamVars, stream_error>>

(* The fetch fails: it reports an error, which sets stream_error.          *)
Failed == stream_error' = TRUE /\ UNCHANGED <<streamVars, last_was_comma, ahead>>

(* It fails with q queued and the keys ks, before it changes the rest.     *)
FailsWith(q, ks, ind, fs) ==
  /\ queue' = q /\ simple_keys' = ks /\ indents' = ind /\ flows' = fs
  /\ simple_key_allowed' = allowed /\ UNCHANGED flow_level
  /\ Failed

LeaveBlocks_KeepsKeys ==      \* mutant: no fy_remove_all_simple_keys()
  /\ simple_keys' = keys /\ indents' = Unroll(indents, -1)
  /\ flows' = flowing /\ UNCHANGED flow_level

(* fy_remove_all_simple_keys(), fy_parse_unroll_indent(-1)                 *)
LeaveBlocks == /\ simple_keys' = << >> /\ indents' = Unroll(indents, -1)
               /\ flows' = flowing /\ UNCHANGED flow_level

-----------------------------------------------------------------------------
(* The handlers.  X is the handler where it gets to its end, XFails where  *)
(* it gives up before.  Refuse, below, is all that any handler refuses     *)
(* before it changes anything.                                             *)

(* fy_fetch_flow_collection_mark_start()                                   *)
FlowStartToken == IF look'.c = "[" THEN "FLOW_SEQUENCE_START" ELSE "FLOW_MAPPING_START"

FlowStart ==
  /\ Fetch({"[", "{"}) /\ FlowIndentOK /\ ~SaveFails(keys)
  /\ queue' = Append(tokens, FlowStartToken)
  /\ simple_keys' = Saved(keys, Key(Len(queue'), FALSE, FALSE))
  /\ flow_level' = flow_level + 1
  /\ flows' = Append(SavePending, [flow |-> look'.c, pending |-> NoPending])
  /\ simple_key_allowed' = TRUE /\ indents' = levels
  /\ Done(Anything) \/ Failed

FlowStartFails ==
  /\ Fetch({"[", "{"}) /\ FlowIndentOK /\ SaveFails(keys)
  /\ FailsWith(Append(tokens, FlowStartToken), SaveStuck(keys), levels, PendStuck(keys))

(* fy_fetch_flow_collection_mark_end(): a ':' that follows makes the       *)
(* collection a key, which must not have begun on an earlier line.         *)
Closes(c) == IF c = "]" THEN "[" ELSE "{"

(* Whether the bracket of the lexeme matches the innermost open one, and   *)
(* the flow context behind it.                                             *)
FlowMatches_AnyBracket ==   \* mutant: no check of the innermost bracket
  TRUE

FlowMatches == flow_level > 0 /\ Last(flows).flow = Closes(look'.c)

FlowPop_KeepsStack ==       \* mutant: fy_parse_flow_pop() is not called
  flowing

FlowPop == Front(flowing)

FlowEnd ==
  /\ Fetch({"]", "}"}) /\ FlowIndentOK /\ ~RemoveFails(keys)
  /\ ~(json /\ last_was_comma)
  /\ FlowMatches
  /\ queue' = Append(tokens, IF look'.c = "]" THEN "FLOW_SEQUENCE_END"
                                             ELSE "FLOW_MAPPING_END")
  /\ flow_level' = flow_level - 1 /\ flows' = FlowPop
  /\ simple_key_allowed' = FALSE /\ indents' = levels
  /\ LET ks == Removed(keys)
         ps == Purged(ks, flow_level - 1) IN
     \/ simple_keys' = ks /\ (Done(Anything \ Colon) \/ Failed)
     \/ IF PurgeFails(ks, flow_level - 1)
        THEN simple_keys' = Stuck(ks) /\ Failed
        ELSE simple_keys' = ps /\ IF ks = << >> \/ ps # << >> THEN Done(Colon) ELSE Failed

(* The level is left before the bracket is compared with the open one.     *)
FlowEndFails ==
  /\ Fetch({"]", "}"}) /\ FlowIndentOK /\ ~(json /\ last_was_comma)
  /\ IF RemoveFails(keys)
     THEN simple_keys' = RemoveStuck(keys) /\ UNCHANGED flow_level
     ELSE /\ ~FlowMatches /\ simple_keys' = Removed(keys)
          /\ flow_level' = IF flow_level > 0 THEN flow_level - 1 ELSE 0
  /\ queue' = tokens /\ indents' = levels /\ flows' = flowing
  /\ simple_key_allowed' = allowed
  /\ Failed

(* fy_fetch_flow_collection_entry(): '? a,' becomes '? a: ,'.              *)
EndedKey == IF pending.column >= 0 THEN <<"VALUE">> ELSE << >>

FlowEntry ==
  /\ Fetch({","}) /\ FlowIndentOK /\ ~RemoveFails(keys)
  /\ queue' = tokens \o EndedKey \o <<"FLOW_ENTRY">>
  /\ flows' = WithPending(flowing, NoPending)
  /\ simple_keys' = Removed(keys) /\ simple_key_allowed' = TRUE
  /\ indents' = levels /\ UNCHANGED flow_level
  /\ Done(Anything) \/ Failed

FlowEntryFails ==
  /\ Fetch({","}) /\ FlowIndentOK /\ RemoveFails(keys)
  /\ FailsWith(tokens \o EndedKey, RemoveStuck(keys), levels, WithPending(flowing, NoPending))

(* The new block level a '-', '?' or ':' at the column opens, if any.      *)
Opening_SameColumn(column) ==   \* mutant: <= for < in fy_push_indent()
  flow_level = 0 /\ Indent <= column

Opening(column) == flow_level = 0 /\ Indent < column
Opened(column, bmap) ==
  IF Opening(column) THEN Append(levels, [indent |-> column, bmap |-> bmap]) ELSE levels

Start(t) == IF Opening(look'.column) THEN <<t>> ELSE << >>

EntryIndentOK == flow_level = 0 \/ look'.column + 2 > Indent \/ Sloppy
KeyPlaceOK    == flow_level > 0 \/ allowed

(* fy_fetch_block_entry(): the level is open when a required key, which is *)
(* still in its place, stops it.                                           *)
BlockEntry ==
  /\ Fetch({"-"}) /\ ~json /\ EntryIndentOK /\ KeyPlaceOK
  /\ ~RemoveFails(keys)
  /\ queue' = tokens \o Start("BLOCK_SEQUENCE_START") \o <<"BLOCK_ENTRY">>
  /\ indents' = Opened(look'.column, FALSE)
  /\ simple_keys' = Removed(keys) /\ simple_key_allowed' = TRUE
  /\ flows' = flowing /\ UNCHANGED flow_level
  /\ Done(Anything)

BlockEntryFails ==
  /\ Fetch({"-"}) /\ ~json /\ EntryIndentOK /\ KeyPlaceOK /\ RemoveFails(keys)
  /\ FailsWith(tokens \o Start("BLOCK_SEQUENCE_START"), keys,
            Opened(look'.column, FALSE), flowing)

(* fy_fetch_key()                                                          *)
ComplexKey ==
  /\ Fetch({"?"}) /\ ~json /\ FlowIndentOK /\ KeyPlaceOK
  /\ ~RemoveFails(keys)
  /\ queue' = tokens \o Start("BLOCK_MAPPING_START") \o <<"KEY">>
  /\ indents' = Opened(look'.column, TRUE)
  /\ flows' = WithPending(flowing, [column |-> look'.column, old |-> FALSE])
  /\ simple_keys' = Removed(keys) /\ simple_key_allowed' = (flow_level = 0)
  /\ UNCHANGED flow_level
  /\ Done(Anything)

ComplexKeyFails ==
  /\ Fetch({"?"}) /\ ~json /\ FlowIndentOK /\ KeyPlaceOK /\ RemoveFails(keys)
  /\ FailsWith(tokens \o Start("BLOCK_MAPPING_START"), RemoveStuck(keys),
            Opened(look'.column, TRUE), flowing)

(* fy_fetch_value(): the ':' turns the pending simple key, if there is one *)
(* at this flow level, into a key, by queueing KEY (and the start of the   *)
(* mapping) in front of the key's first token.                             *)
HasKey(ks) == ks # << >> /\ Head(ks).flow_level = flow_level

UseKey(ks) == IF HasKey(ks) THEN Tail(ks) ELSE ks

(* The ':' of a key that ended on an earlier line, out of a flow mapping.  *)
Misplaced(ks) ==
  /\ HasKey(ks) /\ Head(ks).endold /\ pending.column < 0
  /\ flow_level = 0 \/ Last(flows).flow # "{"

JsonValueOK == json => Last(flows).flow = "{"

Value ==
  /\ Fetch({":"}) /\ FlowIndentOK /\ JsonValueOK /\ ~PurgeFails(keys, flow_level)
  /\ ~Misplaced(Purged(keys, flow_level))
  /\ LET ks        == Purged(keys, flow_level)
         hasKey    == HasKey(ks)
         column    == IF hasKey THEN Head(ks).column ELSE look'.column
         at        == IF hasKey THEN Head(ks).token ELSE Len(tokens) + 1
         isComplex == pending.column >= 0
         final     == isComplex /\ (flow_level > 0 \/ look'.column <= pending.column)
         keyOnly   == IF isComplex THEN ~final ELSE flow_level > 0 \/ Last(levels).bmap
         new       == IF Opening(column) THEN <<"BLOCK_MAPPING_START", "KEY">>
                      ELSE IF keyOnly THEN <<"KEY">> ELSE << >>
         rest      == UseKey(ks)
     IN  /\ queue' = SubSeq(tokens, 1, at - 1) \o new
                     \o SubSeq(tokens, at, Len(tokens)) \o <<"VALUE">>
         /\ simple_keys' = [i \in DOMAIN rest |->
              [rest[i] EXCEPT !.token = IF @ >= at THEN @ + Len(new) ELSE @]]
         /\ indents' = Opened(column, TRUE)
         /\ simple_key_allowed' = (~hasKey /\ flow_level = 0)
         /\ flows' = IF final THEN WithPending(flowing, NoPending) ELSE flowing
  /\ UNCHANGED flow_level
  /\ Done(Anything)

(* The key is off the list when its ':' turns out to be misplaced.         *)
ValueFails ==
  /\ Fetch({":"}) /\ FlowIndentOK /\ JsonValueOK
  /\ LET ks == Purged(keys, flow_level) IN
     \/ PurgeFails(keys, flow_level) /\ FailsWith(tokens, Stuck(keys), levels, flowing)
     \/ /\ ~PurgeFails(keys, flow_level) /\ Misplaced(ks)
        /\ FailsWith(tokens, UseKey(ks), levels, flowing)

(* A token that is queued as it is, and may begin a simple key.            *)
QueueKeyStart(t) ==
  /\ ~json /\ FlowIndentOK /\ ~SaveFails(keys)
  /\ queue' = Append(tokens, t)
  /\ simple_keys' = Saved(keys, Key(Len(queue'), FALSE, FALSE))
  /\ flows' = SavePending /\ simple_key_allowed' = FALSE
  /\ indents' = levels /\ UNCHANGED flow_level

(* It is queued when what follows on the line is refused, or when it       *)
(* cannot be saved; aged: the text has gone on to another line.            *)
TailRefused ==
  /\ flow_level = 0
  /\ look'.c \in {"&", "!", "q", "q+"} \/ (look'.c = "a+" /\ pending.column < 0)

QueuedFails(t, aged) ==
  LET ks      == IF aged THEN Age(keys) ELSE keys
      Aged(f) == IF aged THEN AgeFlows(f) ELSE f
  IN  \/ TailRefused /\ FailsWith(Append(tokens, t), ks, levels, Aged(flowing))
      \/ /\ SaveFails(ks)
         /\ FailsWith(Append(tokens, t), SaveStuck(ks), levels, Aged(PendStuck(ks)))

(* No '-' may follow a property on its line.                               *)
NoDash == IF flow_level = 0 THEN Anything \ Dash ELSE Anything

(* fy_fetch_anchor_or_alias()                                              *)
AnchorOrAlias ==
  \/ Fetch({"*"}) /\ QueueKeyStart("ALIAS") /\ Done(Anything)
  \/ Fetch({"&"}) /\ QueueKeyStart("ANCHOR") /\ Done(NoDash)

(* fy_fetch_tag(), for a tag whose handle is defined.                      *)
Tag == Fetch({"!"}) /\ QueueKeyStart("TAG_DEF") /\ Done(NoDash)

PropertyFails ==
  /\ Fetch({"*", "&", "!"}) /\ ~json /\ FlowIndentOK
  /\ QueuedFails(CASE look'.c = "*" -> "ALIAS" [] look'.c = "&" -> "ANCHOR"
                   [] look'.c = "!" -> "TAG_DEF", FALSE)

(* fy_fetch_block_scalar()                                                 *)
BlockScalar ==
  /\ Fetch({"|"}) /\ ~json /\ ~RemoveFails(keys)
  /\ queue' = Append(tokens, "SCALAR")
  /\ simple_keys' = Age(Removed(keys)) /\ simple_key_allowed' = TRUE
  /\ indents' = levels /\ flows' = AgeFlows(flowing) /\ UNCHANGED flow_level
  /\ Done(Anything)

BlockScalarFails ==
  /\ Fetch({"|"}) /\ ~json
  /\ IF RemoveFails(keys)
     THEN simple_keys' = RemoveStuck(keys) /\ simple_key_allowed' = allowed
     ELSE simple_keys' = Removed(keys) /\ simple_key_allowed' = TRUE
  /\ queue' = tokens /\ indents' = levels /\ flows' = flowing /\ UNCHANGED flow_level
  /\ Failed

ScalarToken == IF look'.c \in Plains THEN "SCALAR" ELSE "SCALAR_DQ"

(* fy_fetch_flow_scalar(): outside brackets only the ':' of a key may      *)
(* follow, and only a scalar on one line can be a simple key.              *)
FlowScalar ==
  /\ Fetch({"q", "q+"}) /\ FlowIndentOK
  /\ LET multi == look'.c = "q+"
         ks    == IF multi THEN Age(keys) ELSE keys
     IN  /\ ~(json /\ multi) /\ ~SaveFails(ks)
         /\ queue' = Append(tokens, "SCALAR_DQ")
         /\ simple_keys' = Saved(ks, Key(Len(queue'), multi, FALSE))
         /\ flows' = IF multi THEN AgeFlows(SavePending) ELSE SavePending
         /\ \/ Done(CASE flow_level > 0 -> Anything
                      [] flow_level = 0 /\ multi /\ pending.column < 0 -> LineEnd
                      [] OTHER -> LineEnd \cup Colon)
            \/ Failed
  /\ simple_key_allowed' = FALSE /\ indents' = levels /\ UNCHANGED flow_level

(* fy_fetch_plain_scalar(): the reader has also passed the line breaks     *)
(* behind the scalar (`passed'), so the key it saves may already be stale. *)
PlainScalar ==
  /\ Fetch(Plains) /\ FlowIndentOK
  /\ \E passed \in BOOLEAN :
     LET multi == look'.c = "a+"
         hasLb == multi \/ passed
         ks    == IF hasLb THEN Age(keys) ELSE keys
         noKey == multi /\ flow_level = 0 /\ pending.column < 0
     IN  /\ ~(json /\ multi) /\ ~SaveFails(ks)
         /\ queue' = Append(tokens, "SCALAR")
         /\ simple_keys' = Saved(ks, Key(Len(queue'), hasLb, passed))
         /\ flows' = IF hasLb THEN AgeFlows(SavePending) ELSE SavePending
         /\ simple_key_allowed' = hasLb
         /\ Done((IF passed THEN LineBreak ELSE Anything \ LineBreak)
                 \ (IF noKey THEN {<<"none", ":">>, <<"line", ":">>} ELSE {}))
  /\ indents' = levels /\ UNCHANGED flow_level

ScalarFails ==
  /\ Fetch({"q", "q+", "a", "a+"}) /\ FlowIndentOK /\ ~(json /\ look'.c \in Spans)
  /\ \/ look'.c \notin Spans /\ QueuedFails(ScalarToken, FALSE)
     \/ look'.c # "q" /\ QueuedFails(ScalarToken, TRUE)

-----------------------------------------------------------------------------
(* Directives, document indicators and the ends of the text.               *)

(* fy_fetch_directive(): a directive that is not supported is skipped.     *)
Directive ==
  /\ Fetch({"%"}) /\ ~json
  /\ \E t \in {<<"VERSION_1_2">>, <<"TAG_DIRECTIVE_DEF">>, << >>} :
       queue' = queue \o BlockEnds(-1) \o t
  /\ LeaveBlocks /\ simple_key_allowed' = TRUE
  /\ Done(Anything) \/ Failed

(* fy_fetch_document_indicator()                                           *)
DocumentIndicator ==
  /\ Fetch({"---", "..."}) /\ ~json
  /\ queue' = queue \o BlockEnds(-1)
              \o <<IF look'.c = "---" THEN "DOCUMENT_START" ELSE "DOCUMENT_END">>
  /\ LeaveBlocks /\ simple_key_allowed' = FALSE
  /\ \/ Done(IF look'.c = "..." THEN LineEnd ELSE Anything)
     \/ look'.c = "..." /\ Failed

StreamEnd_NoBlockEnds ==   \* mutant: open blocks are not closed
  /\ Fetches /\ Follows(NoText) /\ look' = NoText
  /\ queue' = queue \o <<"STREAM_END">>
  /\ LeaveBlocks /\ simple_key_allowed' = TRUE
  /\ stream_end_reached' = TRUE
  /\ UNCHANGED <<last_was_comma, json, stream_start_produced,
                 stream_end_produced, current, inputs, stream_error, ahead>>

(* The end of the text, and fy_fetch_stream_end().                         *)
StreamEnd ==
  /\ Fetches /\ Follows(NoText) /\ look' = NoText
  /\ queue' = queue \o BlockEnds(-1) \o <<"STREAM_END">>
  /\ LeaveBlocks /\ simple_key_allowed' = TRUE
  /\ stream_end_reached' = TRUE
  /\ UNCHANGED <<last_was_comma, json, stream_start_produced,
                 stream_end_produced, current, inputs, stream_error, ahead>>

(* fy_scan_to_next_token() meets malformed text: before, or behind a line  *)
(* break.                                                                  *)
LexicalError ==
  /\ Fetches /\ Failed
  /\ \/ UNCHANGED <<simple_keys, simple_key_allowed, flows>>
     \/ /\ simple_keys' = Age(simple_keys) /\ flows' = AgeFlows(flows)
        /\ simple_key_allowed' = (simple_key_allowed \/ flow_level = 0)
  /\ UNCHANGED <<queue, indents, flow_level, look>>

(* What a handler, or fy_fetch_tokens() on its behalf, refuses at once: a  *)
(* wrong indent, a place where no key may start, what JSON does not have,  *)
(* or malformed text inside a lexeme.                                      *)
Refuse ==
  /\ Fetch(Chars)
  /\ \/ look'.c \notin {"-"} \cup Markers /\ ~FlowIndentOK
     \/ look'.c = "-" /\ ~EntryIndentOK
     \/ look'.c \in {"-", "?"} /\ ~KeyPlaceOK
     \/ look'.c \in {"*", "&", "!"} \cup Spans \cup {"q", "a"}
     \/ json /\ look'.c \in {"-", "?", "|"} \cup Markers
     \/ json /\ look'.c \in {"]", "}"} /\ last_was_comma
     \/ look'.c = ":" /\ ~JsonValueOK
  /\ FailsWith(tokens, keys, levels, flowing)

(* Inside fy_scan_peek(): the next input is opened when no text has been   *)
(* started, or when the STREAM_END of the last one has been consumed.      *)
(* Whatever is still queued then is dropped.                               *)
Restarts == stream_end_produced /\ ~(queue # << >> /\ Head(queue) = "STREAM_END")

OpenInput ==
  /\ ~stream_error /\ (current \/ inputs > 0)
  /\ Restarts \/ (~stream_end_produced /\ ~stream_start_produced /\ ~Ready)
  /\ queue' = (IF stream_end_produced THEN << >> ELSE queue) \o <<"STREAM_START">>
  /\ IF current
     THEN UNCHANGED <<inputs, json, look, ahead, current>>
     ELSE /\ current' = TRUE /\ inputs' = inputs - 1 /\ json' \in BOOLEAN
          /\ look' = NoText /\ ahead' = LineBreak \cup {<<"none", "EOF">>}
  /\ simple_key_allowed' = TRUE
  /\ stream_start_produced' = FALSE /\ stream_end_produced' = FALSE
  /\ stream_end_reached' = FALSE
  /\ UNCHANGED <<simple_keys, indents, flow_level, flows, last_was_comma, stream_error>>

(* What fy_scan_peek() records about the token t it hands out.             *)
Produces(t) ==
  /\ stream_start_produced' = (stream_start_produced \/ t = "STREAM_START")
  /\ stream_end_produced' = (stream_end_produced \/ t = "STREAM_END")
  /\ current' = (current /\ t # "STREAM_END")

ScanFails == \/ FlowStartFails \/ FlowEndFails \/ FlowEntryFails \/ BlockEntryFails
             \/ ComplexKeyFails \/ ValueFails \/ PropertyFails \/ BlockScalarFails
             \/ ScalarFails \/ LexicalError \/ Refuse

Scan == \/ FlowStart \/ FlowEnd \/ FlowEntry \/ BlockEntry \/ ComplexKey
        \/ Value \/ AnchorOrAlias \/ Tag \/ BlockScalar \/ FlowScalar \/ PlainScalar
        \/ Directive \/ DocumentIndicator \/ StreamEnd \/ ScanFails

=============================================================================
