---------------------------- MODULE FyScalarEmit ----------------------------
(***************************************************************************)
(* How the emitter writes a scalar (src/lib/fy-emit.c): the style it picks, *)
(* and the text it writes in that style, folded at the width of a line.     *)
(*                                                                          *)
(* A token is a record of an atom and the style it was scanned or created   *)
(* with.  A place p to write in has the indentation "indent" of the         *)
(* collection around it (-1 for the root) and the flags flow, simple (a     *)
(* simple key), json_key and root.                                          *)
(*                                                                          *)
(* The emitter is a record of what was written ("out"), the column and the  *)
(* flags whitespace and indentation, and of its accumulator: "acc" waits to *)
(* be written, "start" is the column it was started in and "col" the column *)
(* it has reached.  spaces, breaks and leading are the locals of the write  *)
(* loops, and "done" is set where one is left early.                        *)
(***************************************************************************)
EXTENDS FyScalar

CONSTANTS Width,        \* the width of a line
          Step          \* the indentation step

IsJson(mode) == mode = "json"
IsOneline(mode) == mode = "flow_oneline"
IsFlowMode(mode) == mode \in {"flow", "flow_oneline"}
IsPretty(mode) == mode = "dejson"

----------------------------------------------------------------------------
(* What is known of the text. *)

Indicators == FlowIndicators \cup {"-", "?", ":", "#", "&", "*", "!", "|", ">", "'", "\"", "%", "@"}
Unprintable == {"\t", "BEL"}
IsPrint(c) == c \notin Unprintable
IsPrintq(c) == IsPrint(c) /\ ~IsLb(c)

StartsMarked(V) == Len(V) >= 3 /\ SubSeq(V, 1, 3) \in {<<"-", "-", "-">>, <<".", ".", ".">>}

(* FYTTAF_CAN_BE_PLAIN: blanks at the end are not looked at. *)
CanBePlain(V) ==
    /\ V # << >>
    /\ V[1] \notin Indicators /\ ~IsBlank(V[1])
    /\ \A i \in 1..Len(V) :
        /\ IsPrint(V[i])
        /\ ~(V[i] = ":" /\ IsBlankz(At(V, i + 1)))
        /\ ~(IsBlank(V[i]) /\ At(V, i + 1) = "#")

(* A number of JSON: -?(0|[1-9][0-9]+)(.[0-9]+)?([eE][+-]?[0-9]+)? *)
IsNumber(V) ==
    LET n == Len(V)
        Digit(i, j) == \A k \in i..j : V[k] \in {"0", "1", "2", "3", "4", "5", "6", "7", "8", "9"}
        Decimal(i, j) == i <= j /\ Digit(i, j) /\ (V[i] = "0" => i = j)
        Fraction(i, j) == i > j \/ (i < j /\ V[i] = "." /\ Digit(i + 1, j))
        Exponent(i, j) ==
            \/ i > j
            \/ /\ V[i] \in {"e", "E"}
               /\ LET s == IF At(V, i + 1) \in {"+", "-"} THEN i + 2 ELSE i + 1
                  IN  s <= j /\ Digit(s, j)
        first == IF At(V, 1) = "-" THEN 2 ELSE 1
    IN  \E d \in 1..n : \E f \in d..n :
            Decimal(first, d) /\ Fraction(d + 1, f) /\ Exponent(f + 1, n)

JsonWords == {<<"t", "r", "u", "e">>, <<"f", "a", "l", "s", "e">>, <<"n", "u", "l", "l">>}
IsJsonPlain(t, V) == t.atom.size0 \/ V \in JsonWords \/ IsNumber(V)

(* The flags fy_analyze_scalar_content finds for the text of a new scalar. *)
FlowPlain(V) ==
    /\ At(V, 1) \notin {"&", "*"} /\ ~StartsMarked(V)
    /\ \A i \in 1..Len(V) :
        /\ IsPrintq(V[i])
        /\ ~(V[i] = " " /\ At(V, i + 1) = "#")
        /\ ~(V[i] = ":" /\ IsBlankz(At(V, i + 1)))
        /\ V[i] \notin FlowIndicators
        /\ ~(V[i] = ":" /\ At(V, i + 1) \in FlowIndicators)

(* The atom of a scalar that is created from its text. *)
FromData(V, simple) ==
    [style |-> IF simple \/ FlowPlain(V) THEN "plain" ELSE "manual",
     data |-> V, increment |-> 0, chomp |-> "strip", single_line |-> TRUE,
     direct_output |-> (simple \/ FlowPlain(V)) /\ \E i \in 1..Len(V) : ~IsJsonUnescaped(V[i]),
     empty |-> \A i \in 1..Len(V) : IsBlank(V[i]), size0 |-> FALSE,
     has_lb |-> \E i \in 1..Len(V) : IsLb(V[i]), has_ws |-> \E i \in 1..Len(V) : IsWs(V[i]),
     starts_with_ws |-> IsWs(At(V, 1)), starts_with_lb |-> IsLb(At(V, 1)),
     ends_with_lb |-> V # << >> /\ IsLb(V[Len(V)]),
     trailing_lb |-> Len(V) > 1 /\ IsLb(V[Len(V)]) /\ IsLb(V[Len(V) - 1])]

----------------------------------------------------------------------------
(* The output. *)

Put(e, s) ==
    [e EXCEPT !.out = @ \o s,
              !.column = FoldLeft(LAMBDA col, c : IF IsLb(c) THEN 0 ELSE col + 1, @, s)]

Flags(e, whitespace, indentation) ==
    [e EXCEPT !.whitespace = whitespace, !.indentation = indentation]

WriteWs(e) == IF e.whitespace THEN e ELSE [Put(e, <<" ">>) EXCEPT !.whitespace = TRUE]

WriteIndent(e, n) ==
    LET Pad(f) == Flags(Put(f, [i \in 1..(n - f.column) |-> " "]), TRUE, TRUE)
    IN  Pad(IF \/ ~e.indentation \/ e.column > n
               \/ e.column = n /\ ~e.whitespace
            THEN Put(e, <<"\n">>) ELSE e)

(* An indicator, a space before it where there is none. *)
WriteIndicator(e, c) == Flags(Put(WriteWs(e), <<c>>), FALSE, FALSE)

AccStart(e) == [e EXCEPT !.start = e.column, !.col = e.column, !.acc = << >>]

AccPut(e, s) ==
    [e EXCEPT !.acc = @ \o [i \in 1..Len(s) |-> IF IsLb(s[i]) THEN "\n" ELSE s[i]],
              !.col = FoldLeft(LAMBDA col, c : IF IsLb(c) THEN 0
                                               ELSE IF c = "\t" THEN col + (8 - (col % 8))
                                               ELSE col + 1, @, s)]

AccOutput(e) == [Put(e, e.acc) EXCEPT !.acc = << >>, !.col = e.start]

(* Output the run, and go on in a new line. *)
NewLine(e, n) == WriteIndent([e EXCEPT !.indentation = FALSE], n)

----------------------------------------------------------------------------
(* The write loops: one character of the text V at a time. *)

Loop(Char(_, _), e, V) == AccOutput(FoldLeftDomain(Char, AccStart(e), V))

(* A line break of a plain or single quoted text: one more line than breaks. *)
WriteBreak(e, indent, allow_breaks) ==
    IF ~allow_breaks THEN [e EXCEPT !.done = TRUE]
    ELSE [NewLine(IF e.breaks THEN e ELSE WriteIndent(AccOutput(e), indent), indent)
            EXCEPT !.breaks = TRUE]

PlainChar(e, V, i, indent, allow_breaks) ==
    IF e.done THEN e
    ELSE IF IsWs(V[i])
    THEN [(IF allow_breaks /\ ~e.spaces /\ e.col > Width /\ ~IsWs(At(V, i + 1))
           THEN NewLine(AccOutput(e), indent) ELSE AccPut(e, <<V[i]>>)) EXCEPT !.spaces = TRUE]
    ELSE IF IsLb(V[i]) THEN WriteBreak(e, indent, allow_breaks)
    ELSE [AccPut(IF e.breaks THEN WriteIndent(e, indent) ELSE e, <<V[i]>>)
            EXCEPT !.indentation = FALSE, !.spaces = FALSE, !.breaks = FALSE]

WritePlain(e, t, V, mode, indent, allow_breaks) ==
    Flags(IF IsJson(mode) /\ t.atom.size0 THEN Put(e, <<"n", "u", "l", "l">>)
          ELSE IF t.atom.direct_output /\ t.atom.style = "plain" THEN Put(e, t.atom.data)
          ELSE Loop(LAMBDA f, i : PlainChar(f, V, i, indent, allow_breaks), e, V),
          FALSE, FALSE)

(* How a character is written in double quotes: \u is followed by the       *)
(* character its digits are the code of.                                    *)
Escaped(c, mode) ==
    CASE c = "\n" -> <<"\\", "n">>
      [] c = "\r" -> <<"\\", "r">>
      [] c = "\t" -> <<"\\", "t">>
      [] c \in {"\"", "\\"} -> <<"\\", c>>
      [] c = "BEL" -> IF IsJson(mode) THEN <<"\\", "u", c>> ELSE <<"\\", "a">>
      [] OTHER -> <<c>>

QuotedChar(e, V, i, q, mode, indent, allow_breaks) ==
    IF e.done THEN e
    ELSE IF V[i] = " " \/ (q = "'" /\ IsWs(V[i]))
    THEN [(IF allow_breaks /\ ~e.spaces /\ e.col > Width /\ (q = "\"" \/ IsWs(At(V, i + 1)))
           THEN LET Gap(f) == IF q = "\"" /\ IsWs(At(V, i + 1)) THEN Put(f, <<"\\">>) ELSE f
                IN  NewLine(Gap(AccOutput(e)), indent)
           ELSE AccPut(e, <<V[i]>>)) EXCEPT !.spaces = TRUE, !.breaks = FALSE]
    ELSE IF q = "'" /\ IsLb(V[i]) THEN WriteBreak(e, indent, allow_breaks)
    ELSE [AccPut(IF e.breaks THEN WriteIndent(AccOutput(e), indent) ELSE e,
                 IF q = "\"" THEN Escaped(V[i], mode)
                 ELSE IF V[i] = "'" THEN <<"'", "'">> ELSE <<V[i]>>)
            EXCEPT !.indentation = FALSE, !.spaces = FALSE, !.breaks = FALSE]

WriteQuoted(e, t, V, q, mode, indent, allow_breaks) ==
    LET Body(f) ==
            IF t.atom.direct_output /\ t.atom.style = (IF q = "'" THEN "single" ELSE "double")
            THEN Put(f, t.atom.data)
            ELSE Loop(LAMBDA g, i : QuotedChar(g, V, i, q, mode, indent, allow_breaks), f, V)
    IN  Flags(Put(Body(WriteIndicator(e, q)), <<q>>), FALSE, FALSE)

(* The indentation of a block scalar is the step of the emitter, whatever   *)
(* the text is indented by.                                                 *)
StepDigit == CHOOSE c \in DOMAIN Digits : Digits[c] = Step

BlockHints_NoKeep(atom) ==   \* mutant: several breaks at the end are not kept
    (IF atom.starts_with_ws \/ atom.starts_with_lb THEN <<StepDigit>> ELSE << >>)
    \o (IF ~atom.ends_with_lb THEN <<"-">> ELSE << >>)

BlockHints(atom) ==
    (IF atom.starts_with_ws \/ atom.starts_with_lb THEN <<StepDigit>> ELSE << >>)
    \o (IF ~atom.ends_with_lb THEN <<"-">> ELSE IF atom.trailing_lb THEN <<"+">> ELSE << >>)

BlockStart(e, c, atom) == Flags(Put(WriteIndicator(e, c), BlockHints(atom) \o <<"\n">>), TRUE, TRUE)

LiteralChar(e, V, i, indent) ==
    LET Char(f) == IF IsLb(V[i]) THEN [AccOutput(f) EXCEPT !.indentation = FALSE, !.breaks = TRUE]
                   ELSE AccPut(f, <<V[i]>>)
    IN  Char(IF e.breaks THEN [WriteIndent(e, indent) EXCEPT !.breaks = FALSE] ELSE e)

WriteLiteral(e, t, V, indent) ==
    [Loop(LAMBDA f, i : LiteralChar(f, V, i, indent),
          [BlockStart(e, "|", t.atom) EXCEPT !.breaks = TRUE], V)
        EXCEPT !.indentation = FALSE]

RECURSIVE NewLines(_, _, _)
NewLines(e, n, indent) == IF n <= 0 THEN e ELSE NewLines(NewLine(e, indent), n - 1, indent)

(* A run of breaks is written at its first one: as many lines as breaks     *)
(* before text, one less before a blank and two less at the end.            *)
FoldedBreaks(e, V, i, indent) ==
    LET j == Min({k \in i..(Len(V) + 1) : ~IsLb(At(V, k))})
        limit == IF j > Len(V) THEN 2 ELSE IF IsWs(V[j]) THEN 1 ELSE 0
        Run(f) == IF i < Len(V) /\ ~e.leading THEN WriteIndent(f, indent) ELSE f
    IN  [NewLines(IF e.acc # << >> THEN Run(AccOutput(e)) ELSE e, j - i - limit, indent)
            EXCEPT !.breaks = TRUE]

FoldedChar(e, V, i, indent) ==
    IF IsLb(V[i])
    THEN IF i > 1 /\ IsLb(V[i - 1]) THEN e ELSE FoldedBreaks(e, V, i, indent)
    ELSE IF e.breaks
    THEN [AccPut(WriteIndent(e, indent), <<V[i]>>) EXCEPT !.leading = IsWs(V[i]), !.breaks = FALSE]
    ELSE IF V[i] = " " /\ At(V, i + 1) # " " /\ e.col > Width
    THEN NewLine(AccOutput(e), indent)
    ELSE AccPut(e, <<V[i]>>)

WriteFolded(e, t, V, indent) ==
    Loop(LAMBDA f, i : FoldedChar(f, V, i, indent),
         [BlockStart(e, ">", t.atom) EXCEPT !.breaks = TRUE, !.leading = TRUE], V)

----------------------------------------------------------------------------
(* The style a scalar is written in, and the writing. *)

FlowStyle(V) ==
    IF \E i \in 1..Len(V) : IsLb(V[i]) THEN "double"
    ELSE IF \A i \in 1..Len(V) : IsPrint(V[i]) THEN "single"
    ELSE "plain"

(* A style that does not fit the mode or the place is changed. *)
ChosenStyle(t, V, mode, flow, json_plain) ==
    IF flow /\ t.style \in {"literal", "folded", "any"} THEN FlowStyle(V)
    ELSE IF /\ ~flow /\ IsPretty(mode) /\ t.style \in {"any", "double", "single"}
            /\ CanBePlain(V) /\ (t.style # "double" \/ ~json_plain)
    THEN "plain" ELSE t.style

ScalarStyle(t, V, mode, p, indent) ==
    LET Style(style) ==
            IF style = "any" THEN (IF CanBePlain(V) THEN "plain" ELSE "double")
            ELSE IF style = "plain" /\ indent = 0 /\ StartsMarked(V) THEN "double" ELSE style
        Choice(json_plain) ==
            IF IsJson(mode)
            THEN IF t.style = "plain" /\ ~p.json_key /\ json_plain THEN "plain" ELSE "double"
            ELSE Style(ChosenStyle(t, V, mode, IsFlowMode(mode) \/ p.flow, json_plain))
    IN  Choice((IsJson(mode) \/ IsPretty(mode)) /\ IsJsonPlain(t, V))

IncreaseIndent(p) == IF p.indent < 0 THEN (IF p.flow THEN Step ELSE 0) ELSE p.indent + Step

Written(e, t, V, style, mode, p, indent) ==
    LET allow_breaks == ~p.simple /\ ~IsJson(mode) /\ ~IsOneline(mode)
        block_indent == IF p.root THEN indent + Step ELSE indent
    IN  CASE style = "plain"   -> WritePlain(e, t, V, mode, indent, allow_breaks)
          [] style = "double"  -> WriteQuoted(e, t, V, "\"", mode, indent, allow_breaks)
          [] style = "single"  -> WriteQuoted(e, t, V, "'", mode, indent, allow_breaks)
          [] style = "literal" -> WriteLiteral(e, t, V, block_indent)
          [] style = "folded"  -> WriteFolded(e, t, V, block_indent)

EmitScalar(t, mode, p) ==
    LET e == [out |-> << >>, column |-> p.column, whitespace |-> p.whitespace,
              indentation |-> p.indentation, acc |-> << >>, start |-> 0, col |-> 0,
              spaces |-> FALSE, breaks |-> FALSE, leading |-> FALSE, done |-> FALSE]
        Write(V, indent) ==
            Written(WriteWs(e), t, V, ScalarStyle(t, V, mode, p, indent), mode, p, indent)
    IN  Write(FormatText(t.atom), IncreaseIndent(p))
=============================================================================
