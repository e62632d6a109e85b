------------------------------- MODULE FyAtom -------------------------------
(***************************************************************************)
(* Atoms (src/lib/fy-atom.c): the piece of the input a scalar token stands  *)
(* on and the way its text is made out of it.  The text is never stored: a  *)
(* line iterator cuts the piece into lines and folds, unescapes and chomps  *)
(* them while they are read.                                                *)
(*                                                                          *)
(* A text is a sequence of one-character strings, every one an octet wide.  *)
(* Only the line breaks of YAML 1.2 are there (lb_mode fylb_cr_nl), and the *)
(* column of a line of an atom has tab stops of 8.                          *)
(*                                                                          *)
(* An atom is a record of                                                   *)
(*   style         "plain", "single", "double", "literal", "folded", or     *)
(*                 "manual" for a text that is given and not scanned        *)
(*   data          the piece of input                                       *)
(*   increment     the indentation of a block scalar                        *)
(*   chomp         "strip", "clip" or "keep"                                *)
(*   direct_output, has_lb, has_ws, empty     what the scanner found        *)
(*   single_line   whether it starts and ends on the same line              *)
(***************************************************************************)
EXTENDS Integers, Sequences, FiniteSets, FiniteSetsExt, SequencesExt

IsLb(c) == c \in {"\n", "\r"}
IsWs(c) == c \in {" ", "\t"}
IsBlank(c) == IsLb(c) \/ IsWs(c)

IsBlock(atom) == atom.style \in {"literal", "folded"}

(* Where the line after a break at i starts: \r\n is one break. *)
AfterBreak(d, i) ==
    IF d[i] = "\r" /\ i < Len(d) /\ d[i + 1] = "\n" THEN i + 2 ELSE i + 1

(* The column of position i of a line that starts at s. *)
AtomColumn(d, s, i) ==
    FoldLeft(LAMBDA col, c : IF c = "\t" THEN col + (8 - (col % 8)) ELSE col + 1,
             0, SubSeq(d, s, i - 1))

(* The line from s to its break at "end", and what follows it: "solid" is   *)
(* where it is not white, "past" where it is past the indentation, and      *)
(* "blank" the blanks from its end on, up to the end of the piece if "last". *)
LineOf(atom, d, s, end, solid, past, blank, last) ==
    LET Bol(i) == Max({end} \cup {j + 1 : j \in {j \in blank : j < i /\ IsLb(d[j])}})
        Text(nws_start, nws_end, chomp_start) ==
            [start       |-> s,
             end         |-> end,
             next        |-> IF end > Len(d) THEN end ELSE AfterBreak(d, end),
             nws_start   |-> nws_start,
             nws_end     |-> nws_end,
             chomp_start |-> chomp_start,
             indented    |-> chomp_start < end /\ IsWs(d[chomp_start]),
             empty       |-> solid = {},
             final       |-> end > Len(d),
             last        |-> last,
             end_ws      |-> end > s /\ IsWs(d[end - 1]),
             trailing_breaks    |-> Cardinality({i \in blank : IsLb(d[i])}),
             trailing_breaks_ws |-> \E i \in blank : AtomColumn(d, Bol(i), i) > atom.increment,
             ends_with_backslash |->
                /\ atom.style = "double" /\ solid # {} /\ d[nws_end - 1] = "\\"
                /\ nws_end - nws_start > 1 => d[nws_end - 2] # "\\"]
    IN  Text(IF solid = {} THEN end ELSE Min(solid), IF solid = {} THEN s ELSE Max(solid) + 1,
             IF past = {} THEN end ELSE Min(past))

LineAnalyze(atom, s) ==
    LET UpTo(d, end, stop) ==
            LineOf(atom, d, s, end, {i \in s..(end - 1) : ~IsWs(d[i])},
                   {i \in s..(end - 1) : AtomColumn(d, s, i) >= atom.increment},
                   end..(stop - 1), stop > Len(d))
        To(d, end) == UpTo(d, end, Min({i \in end..Len(d) : ~IsBlank(d[i])} \cup {Len(d) + 1}))
        Find(d) == To(d, Min({i \in s..Len(d) : IsLb(d[i])} \cup {Len(d) + 1}))
    IN  Find(atom.data)

(* The part of a line that is text. *)
LineEnd(atom, li) == IF IsBlock(atom) THEN li.end ELSE li.nws_end

LineStart(atom, li, first) ==
    LET Within(s, e) ==
            IF \/ s > e
               \/ atom.style # "plain" /\ li.empty /\ first /\ li.last /\ ~atom.single_line
            THEN e ELSE s
    IN  Within(IF IsBlock(atom) THEN li.chomp_start
               ELSE IF atom.style # "plain" /\ first THEN li.start ELSE li.nws_start,
               IF IsBlock(atom) \/ (atom.style # "plain" /\ li.last) THEN li.end ELSE li.nws_end)

NeedNl_FoldsBefore(atom, li, nli, more, first) ==   \* mutant: a line is folded into an indented one
    CASE atom.style = "plain"  -> li.empty
      [] atom.style \in {"single", "double"} ->
            ~li.ends_with_backslash /\ ~first /\ (li.empty \/ (more /\ atom.empty))
      [] atom.style = "literal" -> TRUE
      [] atom.style = "folded" -> li.empty \/ li.indented

(* What a line li that is not the last one is followed by, when the next    *)
(* one is nli: a break, a space or nothing.                                 *)
NeedNl(atom, li, nli, more, first) ==
    CASE atom.style = "plain"  -> li.empty
      [] atom.style \in {"single", "double"} ->
            ~li.ends_with_backslash /\ ~first /\ (li.empty \/ (more /\ atom.empty))
      [] atom.style = "literal" -> TRUE
      [] atom.style = "folded" ->
            li.empty \/ li.indented \/ li.trailing_breaks_ws \/ (more /\ nli.indented)

NeedSep(atom, li, nli) ==
    CASE atom.style \in {"single", "double"} -> ~li.ends_with_backslash /\ (~nli.empty \/ nli.final)
      [] atom.style = "folded" -> ~nli.indented /\ ~nli.empty
      [] OTHER -> ~nli.empty

LineSeparator(atom, li, first) ==
    LET Before(nli, more) ==
            IF NeedNl(atom, li, nli, more, first) THEN <<"\n">>
            ELSE IF more /\ NeedSep(atom, li, nli) THEN <<" ">> ELSE << >>
    IN  Before(LineAnalyze(atom, li.next), li.next <= Len(atom.data))

(* The characters the escape sequences of a double quoted scalar stand for: *)
(* "BEL" is any control character, and \u is followed by the character its  *)
(* digits are the code of.                                                  *)
EscapeChars == [c \in {"n", "t", "\t", " ", "\"", "/", "\\", "r", "a"} |->
    CASE c = "n" -> "\n" [] c = "t" -> "\t" [] c = "r" -> "\r" [] c = "a" -> "BEL"
      [] OTHER -> c]

EscapeLength(c) == IF c = "u" THEN 3 ELSE 2

IsEscape(d, i) == d[i] \in DOMAIN EscapeChars \/ (d[i] = "u" /\ i < Len(d))

EscapeValue(d, i) == IF d[i] = "u" THEN d[i + 1] ELSE EscapeChars[d[i]]

(* The text of a double quoted line in i..e-1; what follows a backslash was *)
(* checked by the scanner, and a lone backslash at the end is dropped.      *)
RECURSIVE Unescaped(_, _, _)
Unescaped(d, i, e) ==
    IF i >= e \/ (d[i] = "\\" /\ e - i < 2) THEN << >>
    ELSE IF d[i] # "\\" THEN <<d[i]>> \o Unescaped(d, i + 1, e)
    ELSE IF ~IsEscape(d, i + 1) THEN << >>
    ELSE <<EscapeValue(d, i + 1)>> \o Unescaped(d, i + EscapeLength(d[i + 1]), e)

(* The text of a single quoted line: a quote is text when another follows. *)
RECURSIVE Unquoted(_, _, _)
Unquoted(d, i, e) ==
    IF i >= e THEN << >>
    ELSE (IF d[i] # "'" \/ (i + 1 < e /\ d[i + 1] = "'") THEN <<d[i]>> ELSE << >>)
         \o Unquoted(d, i + 1, e)

LineText(atom, li, first) ==
    LET s == LineStart(atom, li, first)
        e == LineEnd(atom, li)
    IN  CASE atom.style = "single" -> Unquoted(atom.data, s, e)
          [] atom.style = "double" -> Unescaped(atom.data, s, e)
          [] OTHER -> SubSeq(atom.data, s, e - 1)

Breaks(k) == [i \in 1..k |-> "\n"]

(* What is left of a block scalar after its last line with text: "pending"  *)
(* breaks wait for text that keeps them.                                    *)
RECURSIVE ChompTail(_, _, _)
ChompTail(atom, s, pending) ==
    LET Of(li, rest, lb) ==
            LET kept == IF rest THEN SubSeq(atom.data, li.chomp_start, li.end - 1) ELSE << >>
            IN  IF atom.chomp = "keep" THEN kept \o Breaks(lb) \o ChompTail(atom, li.next, 0)
                ELSE (IF rest THEN Breaks(pending) \o kept ELSE << >>)
                     \o ChompTail(atom, li.next, (IF rest THEN 0 ELSE pending)
                                                 + (IF atom.empty THEN 0 ELSE lb))
        Line(li) == Of(li, ~atom.empty /\ li.chomp_start < li.end, IF li.final THEN 0 ELSE 1)
    IN  IF s <= Len(atom.data) THEN Line(LineAnalyze(atom, s))
        ELSE IF atom.chomp = "clip" /\ pending > 0 THEN <<"\n">> ELSE << >>

(* How the text ends on its last line. *)
LastLine(atom, li) ==
    IF IsBlock(atom) /\ atom.chomp = "keep"
    THEN Breaks(IF li.final THEN 0 ELSE 1) \o ChompTail(atom, li.next, 0)
    ELSE IF IsBlock(atom) THEN ChompTail(atom, li.next, IF li.empty THEN 0 ELSE 1)
    ELSE IF li.trailing_breaks = 0
    THEN IF li.end_ws /\ atom.style # "plain" THEN SubSeq(atom.data, li.nws_end, li.end - 1) ELSE << >>
    ELSE IF li.trailing_breaks > 1 THEN Breaks(li.trailing_breaks - 1)
    ELSE IF li.ends_with_backslash THEN << >> ELSE <<" ">>

RECURSIVE FormatLines(_, _)
FormatLines(atom, s) ==
    LET Line(li, first) ==
            LineText(atom, li, first)
            \o (IF li.last THEN LastLine(atom, li)
                ELSE LineSeparator(atom, li, first) \o FormatLines(atom, li.next))
    IN  IF s > Len(atom.data) THEN << >> ELSE Line(LineAnalyze(atom, s), s = 1)

(* The text of an atom; an atom that can be shown as it is, is. *)
FormatText(atom) ==
    IF atom.style = "manual" \/ (atom.direct_output /\ ~atom.has_lb /\ ~atom.has_ws)
    THEN atom.data
    ELSE FormatLines(atom, 1)
=============================================================================
