------------------------------ MODULE FyScalar ------------------------------
(***************************************************************************)
(* How the scanner takes a scalar off the input (src/lib/fy-parse.c): where *)
(* it ends, what makes it an error, and the length of its text, which is    *)
(* counted while it is scanned and later trusted as the size of the buffer  *)
(* the text is formatted into.                                              *)
(*                                                                          *)
(* A place x is the context a scalar is scanned in: the column "col" it     *)
(* starts in, the indentation "indent" of the block it is part of (-1 at    *)
(* the top), whether it is in a flow collection ("flow"), and whether it is *)
(* the first content after an explicit document start ("first").  Texts are *)
(* in YAML mode, and the tab size of the reader is the default 0: a tab is  *)
(* one column wide.                                                         *)
(***************************************************************************)
EXTENDS FyAtom

(* The end of the input, and anything else that no character is, is "". *)
At(T, i) == IF i <= Len(T) THEN T[i] ELSE ""
IsBlankz(c) == c = "" \/ IsBlank(c)

After(T, i) == IF IsLb(T[i]) THEN AfterBreak(T, i) ELSE i + 1

Bol(T, i) == {j \in 1..(i - 1) : IsLb(T[j])}
Column(T, x, i) == IF Bol(T, i) = {} THEN x.col + i - 1 ELSE i - 1 - Max(Bol(T, i))

(* The first position from i on that is not blank. *)
SkipBlanks(T, i) == Min({j \in i..(Len(T) + 1) : ~IsBlank(At(T, j))})

(* The breaks among the blanks of i..j-1. *)
BreaksIn(T, i, j) ==
    Cardinality({k \in i..(j - 1) : IsLb(T[k]) /\ ~(T[k] = "\n" /\ k > i /\ T[k - 1] = "\r")})

IsMarker(T, x, i) ==
    /\ Column(T, x, i) = 0 /\ i + 2 <= Len(T)
    /\ SubSeq(T, i, i + 2) \in {<<"-", "-", "-">>, <<".", ".", ".">>}
    /\ IsBlankz(At(T, i + 3))

FoldedLength_EveryBreak(T, i, j) ==   \* mutant: the first break of several counts too
    LET Folded(k) == IF k = 0 THEN j - i ELSE k IN Folded(BreaksIn(T, i, j))

(* What blanks between two words count for in a folded text. *)
FoldedLength(T, i, j) ==
    LET Folded(k) == IF k = 0 THEN j - i ELSE IF k = 1 THEN 1 ELSE k - 1
    IN  Folded(BreaksIn(T, i, j))

Failed == [ok |-> FALSE]

----------------------------------------------------------------------------
(* Plain scalars. *)

FlowIndicators == {",", "[", "]", "{", "}"}

IsJsonUnescaped(c) == c \notin {"\"", "\\", "\t", "\n", "\r", "BEL"}

(* ':' ends a plain scalar before a blank, but not in "::" at a line's end. *)
PlainStop(T, x, i, lastc) ==
    \/ T[i] = ":" /\ IsBlankz(At(T, i + 1)) /\ (lastc # ":" \/ IsWs(At(T, i + 1)))
    \/ x.flow /\ T[i] = ":" /\ At(T, i + 1) \in FlowIndicators
    \/ x.flow /\ T[i] \in FlowIndicators

(* A tab that indents a continuation line of a block. *)
TabIndents(T, x, i, j, has_lb) ==
    \E k \in i..(j - 1) :
        /\ T[k] = "\t" /\ x.indent >= 0 /\ Column(T, x, k + 1) < x.indent + 1
        /\ has_lb \/ BreaksIn(T, i, k) > 0

(* Blanks of i..j-1 end the scalar where its block does, at a comment and  *)
(* at a document marker.                                                    *)
PlainEnds(T, x, j) ==
    \/ ~x.flow /\ x.indent >= 0 /\ Column(T, x, j) < x.indent + 1
    \/ IsMarker(T, x, j) \/ At(T, j) = "#"

PlainBlanks(st, T, i, j) ==
    [st EXCEPT !.json_esc = TRUE,
               !.has_lb = @ \/ BreaksIn(T, i, j) > 0,
               !.has_ws = @ \/ \E k \in i..(j - 1) : IsWs(T[k])]

RECURSIVE PlainFrom(_, _, _, _)
PlainFrom(T, x, i, st) ==
    LET Skip(j) ==
            IF TabIndents(T, x, i, j, st.has_lb) THEN Failed
            ELSE IF PlainEnds(T, x, j) THEN [PlainBlanks(st, T, i, j) EXCEPT !.pos = j]
            ELSE PlainFrom(T, x, j, [PlainBlanks(st, T, i, j) EXCEPT !.gap = i])
    IN  IF i > Len(T) THEN [st EXCEPT !.pos = i]
        ELSE IF IsBlank(T[i]) THEN Skip(SkipBlanks(T, i))
        ELSE IF PlainStop(T, x, i, st.lastc) THEN [st EXCEPT !.pos = i]
        ELSE PlainFrom(T, x, i + 1,
                [st EXCEPT !.length = @ + 1 + (IF st.gap > 0 THEN FoldedLength(T, st.gap, i) ELSE 0),
                           !.gap = 0, !.lastc = T[i], !.end = i + 1,
                           !.json_esc = @ \/ ~IsJsonUnescaped(T[i])])

(* A scalar of several lines is no key of a block mapping. *)
MultilineKey(T, x, i) == ~x.flow /\ At(T, Min({k \in i..(Len(T) + 1) : ~IsWs(At(T, k))})) = ":"

PlainStart(T, x) ==
    /\ T[1] \notin FlowIndicators \cup {"#", "&", "*", "!", "|", ">", "'", "\"", "%", "@"}
    /\ ~(T[1] = "-" /\ IsWs(At(T, 2)))
    /\ x.flow \/ ~(T[1] \in {"?", ":"} /\ IsWs(At(T, 2)))

PlainAtom(T, st, single_line) ==
    [style |-> "plain", data |-> SubSeq(T, 1, st.end - 1), increment |-> 0,
     chomp |-> "strip", empty |-> FALSE, single_line |-> single_line,
     direct_output |-> single_line /\ ~st.json_esc /\ st.end - 1 = st.length,
     has_lb |-> st.has_lb, has_ws |-> st.has_ws, size0 |-> st.length = 0,
     starts_with_ws |-> FALSE, starts_with_lb |-> FALSE,
     ends_with_lb |-> FALSE, trailing_lb |-> FALSE]

FetchPlainScalar(T, x) ==
    LET Token(st, single_line) ==
            IF ~single_line /\ MultilineKey(T, x, st.pos) THEN Failed
            ELSE [ok |-> TRUE, length |-> st.length, atom |-> PlainAtom(T, st, single_line)]
        Scalar(st) == IF st.ok THEN Token(st, Bol(T, st.end) = {}) ELSE Failed
    IN  IF ~PlainStart(T, x) THEN Failed
        ELSE Scalar(PlainFrom(T, x, 1,
                [ok |-> TRUE, length |-> 0, gap |-> 0, lastc |-> "", end |-> 1, pos |-> 1,
                 json_esc |-> FALSE, has_lb |-> FALSE, has_ws |-> FALSE]))

----------------------------------------------------------------------------
(* Quoted scalars. *)

(* The first character of a line that is not blank, from where the text of  *)
(* the scalar starts on.                                                    *)
StartsLine(T, i) == \A k \in Max(Bol(T, i) \cup {1})..(i - 1) : k = 1 \/ IsBlank(T[k])

(* The blanks from gap to i; those after an escaped line break are none. *)
GapLength(T, st, i) ==
    IF st.gap = 0 \/ (st.esc_lb /\ BreaksIn(T, st.gap, i) = 0) THEN 0
    ELSE FoldedLength(T, st.gap, i)

QuotedBlanks(st, T, i, j) ==
    [st EXCEPT !.gap = i, !.run = 0,
               !.json_esc = @ \/ \E k \in i..(j - 1) : T[k] # " ",
               !.has_lb = @ \/ BreaksIn(T, i, j) > 0,
               !.has_ws = @ \/ \E k \in i..(j - 1) : IsWs(T[k])]

(* The gap before position i is counted. *)
GapDone(st, T, i) ==
    [st EXCEPT !.gap = 0, !.esc_lb = FALSE, !.length = @ + GapLength(T, st, i),
               !.empty = @ /\ T[i] = T[1]]

(* An escaped line break; n is where the next line starts.  A quote there   *)
(* ends the scalar.                                                         *)
EscapedBreak(st, T, n) ==
    [st EXCEPT !.esc_lb = TRUE, !.has_esc = TRUE, !.run = 0,
               !.end = IF At(T, n) = T[1] THEN n ELSE @]

EscapedChar(st, v) ==
    [st EXCEPT !.length = @ + 1, !.has_esc = TRUE, !.run = IF v = "\n" THEN @ + 1 ELSE @]

QuotedText(st, c) ==
    [st EXCEPT !.length = @ + 1, !.run = 0, !.json_esc = @ \/ ~IsJsonUnescaped(c)]

(* The end of the input or a document marker in a scalar, and a line of it  *)
(* that is not indented, are errors.                                        *)
QuotedFails(T, x, i) ==
    \/ i > Len(T)
    \/ (i = 2 \/ IsBlank(T[i - 1])) /\ IsMarker(T, x, i)
    \/ ~IsBlank(T[i]) /\ StartsLine(T, i) /\ x.indent >= 0 /\ Column(T, x, i) <= x.indent

RECURSIVE QuotedFrom(_, _, _, _)
QuotedFrom(T, x, i, st) ==
    LET Blanks(j) == QuotedFrom(T, x, j, QuotedBlanks(st, T, i, j))
        Break(n, esc) == IF esc.end = n THEN esc ELSE QuotedFrom(T, x, n, esc)
        Char(c, done) ==
            IF <<T[1], c, At(T, i + 1)>> = <<"'", "'", "'">>
            THEN QuotedFrom(T, x, i + 2, QuotedText(done, c))
            ELSE IF c = T[1] THEN [done EXCEPT !.end = i]
            ELSE IF T[1] = "'" \/ c # "\\" THEN QuotedFrom(T, x, i + 1, QuotedText(done, c))
            ELSE IF IsLb(At(T, i + 1))
            THEN Break(After(T, i + 1), EscapedBreak(done, T, After(T, i + 1)))
            ELSE IF i = Len(T) \/ ~IsEscape(T, i + 1) THEN Failed
            ELSE QuotedFrom(T, x, i + EscapeLength(T[i + 1]), EscapedChar(done, EscapeValue(T, i + 1)))
    IN  IF QuotedFails(T, x, i) THEN Failed
        ELSE IF IsBlank(T[i]) THEN Blanks(SkipBlanks(T, i))
        ELSE Char(T[i], GapDone(st, T, i))

(* What may follow a quoted scalar in a block: blanks, and then a ':', a    *)
(* comment or the end of the line.                                          *)
QuotedFollow(T, x, i) ==
    LET Follow(j) == At(T, j) \in {"", ":", "\n", "\r"} \/ (At(T, j) = "#" /\ j > i)
    IN  x.flow \/ Follow(Min({k \in i..(Len(T) + 1) : ~IsWs(At(T, k))}))

QuotedAtom(T, st, single_line) ==
    [style |-> IF T[1] = "'" THEN "single" ELSE "double",
     data |-> SubSeq(T, 2, st.end - 1), increment |-> 0,
     chomp |-> "strip", empty |-> st.empty, single_line |-> single_line,
     direct_output |-> single_line /\ ~st.has_esc /\ ~st.json_esc /\ st.end - 2 = st.length,
     has_lb |-> st.has_lb, has_ws |-> st.has_ws, size0 |-> st.length = 0,
     starts_with_ws |-> IsWs(T[2]), starts_with_lb |-> IsLb(T[2]),
     ends_with_lb |-> st.run > 0, trailing_lb |-> st.run > 1]

FetchFlowScalar(T, x) ==
    LET Token(st, single_line) ==
            IF ~single_line /\ MultilineKey(T, x, st.end + 1) THEN Failed
            ELSE [ok |-> TRUE, length |-> st.length, atom |-> QuotedAtom(T, st, single_line)]
        Scalar(st) ==
            IF st.ok THEN IF QuotedFollow(T, x, st.end + 1) THEN Token(st, Bol(T, st.end) = {}) ELSE Failed
            ELSE Failed
    IN  Scalar(QuotedFrom(T, x, 2,
            [ok |-> TRUE, length |-> 0, gap |-> 0, esc_lb |-> FALSE, run |-> 0, end |-> 0,
             empty |-> TRUE, has_esc |-> FALSE, json_esc |-> FALSE, has_lb |-> FALSE, has_ws |-> FALSE]))

----------------------------------------------------------------------------
(* Block scalars. *)

(* Skip the indentation and the empty lines from i on.  Without an indent   *)
(* the widest indentation met is taken, and it is looked for anew after     *)
(* every line of a scalar that is not indented at all.                      *)
RECURSIVE ScanBlockScalarIndent(_, _, _, _, _)
ScanBlockScalarIndent(T, x, i, indent, st) ==
    LET Reached(j, widest) ==
            IF IsLb(At(T, j))
            THEN ScanBlockScalarIndent(T, x, After(T, j), indent, [breaks |-> st.breaks + 1, widest |-> widest])
            ELSE [next |-> j, breaks |-> st.breaks,
                  indent |-> IF indent > 0 THEN indent
                             ELSE Max({widest, x.indent, IF x.first THEN 0 ELSE 1})]
        Spaces(j) == Reached(j, Max({st.widest, Column(T, x, j)}))
    IN  Spaces(Min({k \in i..(Len(T) + 1) :
                    At(T, k) # " " \/ (indent > 0 /\ Column(T, x, k) >= indent)}))

BlockIndent(T, x, i, indent) ==
    ScanBlockScalarIndent(T, x, i, indent, [breaks |-> 0, widest |-> 0])

(* The breaks that come before a line: those of the line before, if it had  *)
(* text or blanks past the indentation, and the empty lines between.        *)
LiteralPrefix(st) == (IF st.pending_nl THEN 1 ELSE 0) + st.trailing

FoldedPrefix(st, indented, empty_line) ==
    IF st.trailing > 0 THEN st.trailing + (IF st.prev_indented \/ indented THEN 1 ELSE 0)
    ELSE IF /\ st.pending_nl
            /\ \/ st.prev_indented \/ indented \/ (st.prev_empty /\ ~st.first)
               \/ ~st.prev_empty /\ ~empty_line
    THEN 1 ELSE 0

(* A line from i to eol is read; "solid" is where it has no spaces. *)
BlockLine(T, x, i, eol, solid, indented, st) ==
    [st EXCEPT
        !.length = @ + (eol - i) + (IF st.literal THEN LiteralPrefix(st)
                                    ELSE FoldedPrefix(st, indented, solid = {})),
        !.pending_nl = ~st.literal \/ solid # {} \/ indented,
        !.amount = IF @ = -1 /\ solid # {} THEN Column(T, x, Min(solid)) ELSE @,
        !.empty = @ /\ solid = {}, !.prev_empty = solid = {}, !.prev_indented = indented,
        !.has_ws = @ \/ Cardinality(solid) < eol - i,
        !.starts_with_ws = IF st.first THEN indented ELSE @,
        !.first = FALSE]

(* The scalar ends with its input, in the middle of a line. *)
BlockEof(st, eol) ==
    [st EXCEPT !.end = eol, !.chomp = "strip", !.has_lb = FALSE,
               !.breaks = 0, !.trailing = 0, !.lb_length = 0]

BlockBreaks(st, sp) ==
    [st EXCEPT !.has_lb = TRUE, !.indent = sp.indent, !.breaks = sp.breaks,
               !.trailing = sp.breaks, !.lb_length = 1]

RECURSIVE BlockLines(_, _, _, _)
BlockLines(T, x, i, st) ==
    LET Break(read, sp) == BlockLines(T, x, sp.next, BlockBreaks(read, sp))
        Line(eol) == BlockLine(T, x, i, eol, {k \in i..(eol - 1) : T[k] # " "}, IsWs(T[i]), st)
        UpTo(eol) == IF eol > Len(T) THEN BlockEof(Line(eol), eol)
                     ELSE Break(Line(eol), BlockIndent(T, x, After(T, eol), st.indent))
    IN  IF i > Len(T) \/ Column(T, x, i) < st.indent THEN [st EXCEPT !.end = i]
        ELSE IF IsMarker(T, x, i) THEN [st EXCEPT !.end = i, !.marker = TRUE]
        ELSE UpTo(Min({k \in i..Len(T) : IsLb(T[k])} \cup {Len(T) + 1}))

(* The indicators after | or >: an indentation and a chomping, in any order. *)
(* A comment needs a space before it unless both are there.  At the end of   *)
(* the text there is no scalar: skipping what is not there, fy_advance()     *)
(* runs into an assertion of fy_reader_advance_octets().                     *)
Digits == [c \in {ToString(d) : d \in 1..9} |-> CHOOSE d \in 1..9 : ToString(d) = c]
Chomping == [c \in {"+", "-"} |-> IF c = "+" THEN "keep" ELSE "strip"]

BlockHeader(T) ==
    LET Read(n, used, j, eol) ==
            [ok |-> (j = eol \/ (At(T, j) = "#" /\ (j > n \/ n = 4))) /\ eol <= Len(T),
             start |-> IF eol <= Len(T) THEN After(T, eol) ELSE eol,
             increment |-> IF used \cap DOMAIN Digits = {} THEN 0
                           ELSE Digits[CHOOSE c \in used \cap DOMAIN Digits : TRUE],
             chomp |-> IF used \cap DOMAIN Chomping = {} THEN "clip"
                       ELSE Chomping[CHOOSE c \in used \cap DOMAIN Chomping : TRUE]]
        Until(n) ==
            Read(n, {T[k] : k \in 2..(n - 1)}, Min({k \in n..(Len(T) + 1) : ~IsWs(At(T, k))}),
                 Min({k \in n..Len(T) : IsLb(T[k])} \cup {Len(T) + 1}))
        Both(a, b) == a \in DOMAIN Chomping /\ b \in DOMAIN Digits
        Indicator(a, b) == IF Both(a, b) \/ Both(b, a) THEN 4
                           ELSE IF a \in DOMAIN Chomping \cup DOMAIN Digits THEN 3 ELSE 2
    IN  Until(Indicator(At(T, 2), At(T, 3)))

BlockChomped(st) ==
    (IF st.empty THEN 0 ELSE st.length)
    + CASE st.chomp = "clip" -> (IF st.pending_nl THEN 1 ELSE 0)
        [] st.chomp = "keep" -> (IF st.pending_nl THEN st.lb_length ELSE 0) + st.breaks
        [] OTHER -> 0

(* "increment" is the indentation that is given, or 0; it adds to that of   *)
(* the block around.                                                        *)
BlockAtom(T, x, start, st, length, trailing) ==
    [style |-> IF st.literal THEN "literal" ELSE "folded",
     data |-> SubSeq(T, start, st.end - 1),
     increment |-> IF st.amount >= 0 THEN st.amount ELSE Max({x.indent, 0}),
     chomp |-> st.chomp, empty |-> st.empty,
     single_line |-> Bol(T, st.end) = Bol(T, start),
     direct_output |-> FALSE,
     has_lb |-> st.has_lb, has_ws |-> st.has_ws, size0 |-> length = 0,
     starts_with_ws |-> st.starts_with_ws, starts_with_lb |-> FALSE,
     ends_with_lb |-> st.chomp # "strip" /\ (st.pending_nl \/ trailing > 0),
     trailing_lb |-> st.chomp = "keep" /\ trailing > 0]

(* A scalar of empty lines only may not be followed by something that is    *)
(* indented enough to be its text.                                          *)
FetchBlockScalar(T, x) ==
    LET Token(h, st, length) ==
            IF st.empty /\ Column(T, x, st.end) > x.indent /\ (At(T, st.end) = "#" \/ ~st.marker)
            THEN Failed
            ELSE [ok |-> TRUE, length |-> length,
                  atom |-> BlockAtom(T, x, h.start, st, length, IF st.empty THEN st.breaks ELSE st.trailing)]
        Lines(h, st) == Token(h, st, BlockChomped(st))
        Start(h, increment, sp) ==
            Lines(h, BlockLines(T, x, sp.next,
                [literal |-> T[1] = "|", length |-> sp.breaks, indent |-> sp.indent,
                 breaks |-> sp.breaks, trailing |-> 0, pending_nl |-> FALSE, lb_length |-> 1,
                 first |-> TRUE, prev_empty |-> TRUE, prev_indented |-> FALSE,
                 amount |-> IF increment > 0 THEN increment ELSE -1,
                 chomp |-> h.chomp, empty |-> TRUE, marker |-> FALSE, end |-> 0,
                 has_lb |-> FALSE, has_ws |-> FALSE, starts_with_ws |-> FALSE]))
        Indent(h, increment) == Start(h, increment, BlockIndent(T, x, h.start, increment))
        Header(h) ==
            IF ~h.ok THEN Failed
            ELSE Indent(h, IF h.increment > 0 THEN Max({x.indent, 0}) + h.increment ELSE 0)
    IN  Header(BlockHeader(T))

----------------------------------------------------------------------------
(* The scalar at the start of T, when the scanner takes it for one. *)
FetchTokens(T, x) ==
    IF \/ T = << >> \/ IsBlankz(At(T, 1)) \/ IsMarker(T, x, 1)
       \/ T[1] \in {"[", "]", "{", "}", ",", "*", "&", "!", "#"}
       \/ x.col = 0 /\ T[1] = "%"
       \/ T[1] \in {"-", "?", ":"} /\ IsBlankz(At(T, 2))
    THEN Failed
    ELSE IF ~x.flow /\ T[1] \in {"|", ">"} THEN FetchBlockScalar(T, x)
    ELSE IF T[1] \in {"'", "\""} THEN FetchFlowScalar(T, x)
    ELSE FetchPlainScalar(T, x)
=============================================================================
