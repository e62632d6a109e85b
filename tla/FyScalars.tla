----------------------------- MODULE FyScalars ------------------------------
(***************************************************************************)
(* The life of a scalar: it is scanned from a text, or created from its     *)
(* value by fy_node_create_scalar or a scalar event, it is emitted in some  *)
(* mode in some place of a document, and what was written is scanned again  *)
(* (FyScalar scans, FyAtom makes the value, FyScalarEmit writes).           *)
(***************************************************************************)
EXTENDS FyScalarEmit

CONSTANTS Texts,        \* what is scanned: a set of <<place, text>>
          Values        \* the values new scalars are created with

VARIABLES phase,        \* "start", "refused", "held", "written" or "read"
          source,       \* the text that was scanned, or the value given
          token,        \* the scalar, with the length of its storage hint
          place,        \* where it was scanned or written
          mode,         \* how it was written
          text,         \* what was written
          back          \* the scalar that is found in it

vars == <<phase, source, token, place, mode, text, back>>

(* A place is what the emitter has written before it, what follows it, and  *)
(* the place the scanner finds.  "entry" is in a flow sequence, "packed" in *)
(* one that is written in one line.                                         *)
Place(column, whitespace, indentation, indent, flow, simple, end, inner) ==
    [column |-> column, whitespace |-> whitespace, indentation |-> indentation,
     indent |-> indent, flow |-> flow, simple |-> simple, json_key |-> simple /\ flow,
     root |-> indent < 0, end |-> end,
     read |-> [col |-> IF whitespace THEN column ELSE column + 1, indent |-> inner,
               flow |-> flow, first |-> FALSE]]

Places ==
    [root     |-> Place(0, TRUE,  TRUE,  -1, FALSE, FALSE, << >>,  -1),
     value    |-> Place(2, FALSE, FALSE,  0, FALSE, FALSE, <<"k", ":">>, 0),
     item     |-> Place(1, FALSE, TRUE,   0, FALSE, FALSE, <<"-">>, 0),
     entry    |-> Place(2, TRUE,  TRUE,   2, TRUE,  FALSE, <<"]">>, -1),
     packed   |-> Place(1, TRUE,  FALSE,  2, TRUE,  FALSE, <<"]">>, -1),
     key      |-> Place(0, TRUE,  TRUE,   0, FALSE, TRUE,  <<":", " ", "v">>, -1),
     json_key |-> Place(2, TRUE,  TRUE,   2, TRUE,  TRUE,  <<":", " ", "v">>, -1)]

PlacesOf(m) ==
    CASE m = "original" -> {"root", "value", "item", "entry", "key"}
      [] m = "dejson" -> {"root", "value", "item", "key"}
      [] m = "flow" -> {"root", "entry"}
      [] m = "flow_oneline" -> {"root", "packed"}
      [] m = "json" -> {"root", "entry", "json_key"}

Modes == {"original", "dejson", "flow", "flow_oneline", "json"}

(* A text in its place, and what follows it there. *)
InPlace(T, p) == T \o (IF p.simple \/ p.flow THEN p.end ELSE << >>)

(* Finish the line of the scalar and write what comes next. *)
Finished(e, p, m) ==
    IF p.simple \/ IsOneline(m) THEN Put(e, p.end)
    ELSE IF p.root THEN (IF e.column # 0 THEN Put(e, <<"\n">>) ELSE e)
    ELSE Put(WriteIndent(e, 0), p.end)

NoToken == [style |-> "none", from |-> "none"]

(* The scalar the scanner finds at the start of a text. *)
Scanned(T, x) ==
    LET Token(r) == IF r.ok THEN [style |-> r.atom.style, atom |-> r.atom, length |-> r.length,
                                  from |-> "text"]
                    ELSE NoToken
    IN  Token(FetchTokens(T, x))

(* A scalar is a plain or a double quoted one when it is created as a node, *)
(* and has the style that is asked for when it is created for an event.     *)
CreateScalarInternal(V) ==
    LET Token(atom) == [style |-> IF atom.style = "plain" THEN "plain" ELSE "double",
                        atom |-> atom, from |-> "value"]
    IN  Token(FromData(V, FALSE))

CreateScalarEvent(V, style) == [style |-> style, atom |-> FromData(V, FALSE), from |-> "value"]

CanBeSimpleKey(t) ==
    LET NoBreak(V) == \A i \in 1..Len(V) : ~IsLb(V[i])
    IN  ~IsBlock(t.atom) /\ NoBreak(FormatText(t.atom))

----------------------------------------------------------------------------
Init ==
    /\ phase = "start" /\ source = << >> /\ token = NoToken /\ back = NoToken
    /\ place = "root" /\ mode = "original" /\ text = << >>

Hold(from, t) ==
    /\ phase = "start"
    /\ source' = from /\ token' = t
    /\ phase' = IF t.style = "none" THEN "refused" ELSE "held"
    /\ UNCHANGED <<mode, text, back>>

Scan(k, T) ==
    /\ Hold(T, Scanned(InPlace(T, Places[k]), Places[k].read))
    /\ place' = k

CreateNode(V) == Hold(V, CreateScalarInternal(V)) /\ UNCHANGED place

CreateEvent(V, style) == Hold(V, CreateScalarEvent(V, style)) /\ UNCHANGED place

Emit(m, k) ==
    /\ phase = "held"
    /\ Places[k].simple => CanBeSimpleKey(token)
    /\ text' = Finished(EmitScalar(token, m, Places[k]), Places[k], m).out
    /\ mode' = m /\ place' = k
    /\ phase' = "written"
    /\ UNCHANGED <<source, token, back>>

(* Scan what was written, past the space before it. *)
ReadBack ==
    /\ phase = "written"
    /\ back' = Scanned(IF Places[place].whitespace THEN text ELSE Tail(text), Places[place].read)
    /\ phase' = "read"
    /\ UNCHANGED <<source, token, place, mode, text>>

Next ==
    \/ \E s \in Texts : Scan(s[1], s[2])
    \/ \E V \in Values : CreateNode(V)
    \/ \E V \in Values : \E style \in {"single", "double", "literal", "folded"} : CreateEvent(V, style)
    \/ \E m \in Modes : \E k \in PlacesOf(m) : Emit(m, k)
    \/ ReadBack

Spec == Init /\ [][Next]_vars

----------------------------------------------------------------------------
(* What is known to go wrong. *)

Beside(V, P(_), Q(_)) == \E i \in 1..(Len(V) - 1) : P(V[i]) /\ Q(V[i + 1])
Occurs(d, w) == \E i \in 1..(Len(d) - Len(w) + 1) : SubSeq(d, i, i + Len(w) - 1) = w
Quote(c) == c = "'"
Colon(c) == c = ":"
HasBreak(V) == \E i \in 1..Len(V) : IsLb(V[i])
Solid(V) == \E i \in 1..Len(V) : ~IsBlank(V[i])
Indented(V) == \E i \in 1..Len(V) : IsWs(V[i]) /\ (i = 1 \/ IsLb(V[i - 1]))
BreaksThenBlank(S) == Occurs(S, <<"\n", "\n", " ">>) \/ Occurs(S, <<"\n", "\n", "\t">>)
Trimmed(V) == V # << >> => ~IsBlank(V[1]) /\ ~IsBlank(V[Len(V)])

(* Scalars that are not read as S, which YAML says they are: quotes side by *)
(* side in single quotes are three when they are two, and a line of quotes  *)
(* only counts as empty; in double quotes an escaped blank at the end of a  *)
(* line is dropped, and a third backslash is not seen to escape the break;  *)
(* blanks are no text of a block scalar; a folded scalar loses a break of   *)
(* the empty lines before an indented line.                                 *)
Misread(S, d, style) ==
    CASE style = "single" -> Beside(S, Quote, Quote) \/ Occurs(d, <<"'", "\n", "'">>)
      [] style = "double" -> Occurs(d, <<"\\", " ">>) \/ Occurs(d, <<"\\", "\\", "\\", "\n">>)
      [] style = "literal" -> ~Solid(d)
      [] style = "folded" -> ~Solid(d) \/ BreaksThenBlank(S)
      [] OTHER -> FALSE

(* Scalars whose storage hint is not the length of their text: quotes side  *)
(* by side in single quotes (2 is noted for the three that are read), a     *)
(* break after three backslashes, empty lines after an escaped break, empty *)
(* lines before an indented line of a folded scalar, and blanks only.       *)
WrongHint(S, d, style) ==
    CASE style = "single" -> Beside(S, Quote, Quote)
      [] style = "double" -> \/ Occurs(d, <<"\\", "\\", "\\", "\n">>)
                             \/ Occurs(d, <<"\\", "\n">>) /\ Beside(d, IsLb, IsBlank)
      [] style = "literal" -> ~Solid(d)
      [] style = "folded" -> ~Solid(d) \/ BreaksThenBlank(S)
      [] OTHER -> FALSE

(* What is written of the text V in a style can be read again. *)
Readable(V, style, allow_breaks, simple) ==
    CASE style = "double" -> allow_breaks => ~Beside(V, IsWs, IsWs)
      [] style = "single" ->
            /\ ~Beside(V, Quote, Quote)
            /\ IF allow_breaks THEN ~Beside(V, IsWs, IsBlank) /\ ~Beside(V, IsLb, IsWs)
               ELSE ~HasBreak(V)
      [] style = "plain" ->
            /\ CanBePlain(V) /\ Trimmed(V) /\ ~Beside(V, Colon, Colon)
            /\ ~Beside(V, IsWs, IsLb) /\ ~Beside(V, IsLb, IsWs)
            /\ HasBreak(V) => allow_breaks
      [] style = "literal" -> Solid(V) /\ ~simple
      [] style = "folded" ->
            Solid(V) /\ ~simple /\ (Indented(V) => ~IsLb(V[1]) /\ ~Beside(V, IsLb, IsLb))

----------------------------------------------------------------------------
YAML == INSTANCE YamlText

(* What the scalar is meant to say. *)
Says ==
    LET d == token.atom.data
    IN  IF token.from = "value" THEN source ELSE
        CASE token.style = "plain"  -> YAML!FoldFlow(YAML!Raw(d))
          [] token.style = "single" -> YAML!FoldFlow(YAML!SingleUnits(d))
          [] token.style = "double" -> YAML!FoldFlow(YAML!DoubleUnits(d))
          [] OTHER -> YAML!BlockText(d, token.style = "folded", YAML!ChompOf(source), YAML!IndentOf(source))

(* The lines of a scanned scalar are folded, unescaped and chomped as YAML  *)
(* says (fy_atom_iter_format over the piece of input the scanner marked).   *)
ScansRight ==
    LET Right(S) == Misread(S, token.atom.data, token.style) \/ FormatText(token.atom) = S
    IN  phase = "held" /\ token.from = "text" => Right(Says)

(* What the scanner notes about a scalar is true of the text that is made   *)
(* of it: the storage hint is its length (what ATOM_SIZE_CHECK would warn   *)
(* of), but for WrongHint; input that may be written as it is, is its text; *)
(* and unless it is a block scalar of blanks, it is of size 0 when its text *)
(* is, and the line breaks a block scalar is said to end in are there, as   *)
(* its chomping indicator is chosen by them.                                *)
HintsRight ==
    LET Right(a, V, S) ==
            /\ token.length = Len(V) \/ WrongHint(S, a.data, a.style)
            /\ a.direct_output => a.data = V
            /\ (a.size0 <=> V = << >>) \/ (IsBlock(a) /\ ~Solid(a.data))
            /\ IsBlock(a) /\ Solid(a.data) =>
                /\ a.ends_with_lb <=> V # << >> /\ IsLb(V[Len(V)])
                /\ a.trailing_lb <=> Len(V) > 1 /\ IsLb(V[Len(V)]) /\ IsLb(V[Len(V) - 1])
    IN  phase = "held" /\ token.from = "text" => Right(token.atom, FormatText(token.atom), Says)

(* A scalar that was scanned or created, emitted in any mode and place, is  *)
(* scanned again as the same text, wherever the emitter folded the lines,   *)
(* when the text is one that the style the emitter chose can hold: Readable *)
(* leaves out blanks side by side where lines may be folded, quotes side by *)
(* side, blocks of blanks and blocks in simple keys, and what a plain or a  *)
(* folded scalar changes at the ends of its lines.                          *)
RoundTrip ==
    LET Kept(V) == back.style # "none" /\ FormatText(back.atom) = V
        Styled(V, p) == ScalarStyle(token, V, mode, p, IncreaseIndent(p))
        Same(V, p) ==
            \/ Kept(IF token.from = "value" THEN source ELSE V)
            \/ token.from = "value" /\ V # source /\ ~Trimmed(source)
            \/ ~Readable(V, Styled(V, p), ~p.simple /\ ~IsJson(mode) /\ ~IsOneline(mode), p.simple)
    IN  phase = "read" => Same(FormatText(token.atom), Places[place])
=============================================================================
