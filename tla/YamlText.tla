------------------------------ MODULE YamlText ------------------------------
(***************************************************************************)
(* What a scalar says, by the rules of YAML 1.2: the lines of a flow scalar *)
(* are folded, those of a block scalar are cut at their indentation, folded *)
(* or not, and chomped.  It does not look at the code; the scanner and the  *)
(* line iterator of the library are compared with it.                       *)
(*                                                                          *)
(* A line is a sequence of units [c, e]: a character, and whether an escape *)
(* made it, so that it is neither a blank nor a break.                      *)
(***************************************************************************)
EXTENDS Integers, Sequences, SequencesExt, FiniteSetsExt

Unit(c, e) == [c |-> c, e |-> e]
Raw(s) == [i \in 1..Len(s) |-> Unit(s[i], FALSE)]
Chars(u) == [i \in 1..Len(u) |-> u[i].c]

UnitBlank(u) == ~u.e /\ u.c \in {" ", "\t"}
UnitBreak(u) == ~u.e /\ u.c \in {"\n", "\r"}

(* The units of a quoted text.  A unit that is no character marks the end   *)
(* of a line whose break is escaped.                                        *)
RECURSIVE SingleUnits(_)
SingleUnits(s) ==
    IF s = << >> THEN << >>
    ELSE <<Unit(s[1], FALSE)>>
         \o SingleUnits(SubSeq(s, IF s[1] = "'" THEN 3 ELSE 2, Len(s)))

Meaning == [n |-> "\n", t |-> "\t", r |-> "\r", a |-> "BEL"]

RECURSIVE DoubleUnits(_)
DoubleUnits(s) ==
    IF s = << >> THEN << >>
    ELSE IF s[1] # "\\" THEN <<Unit(s[1], FALSE)>> \o DoubleUnits(Tail(s))
    ELSE IF s[2] = "\n" THEN <<Unit("", TRUE), Unit("\n", FALSE)>> \o DoubleUnits(SubSeq(s, 3, Len(s)))
    ELSE <<Unit(IF s[2] \in DOMAIN Meaning THEN Meaning[s[2]] ELSE s[2], TRUE)>>
         \o DoubleUnits(SubSeq(s, 3, Len(s)))

----------------------------------------------------------------------------
(* Lines. *)

RECURSIVE LinesOf(_)
LinesOf(u) ==
    LET breaks == {i \in 1..Len(u) : UnitBreak(u[i])}
        b == Min(breaks)
        next == IF u[b].c = "\r" /\ b < Len(u) /\ u[b + 1] = Unit("\n", FALSE) THEN b + 2 ELSE b + 1
    IN  IF breaks = {} THEN <<u>>
        ELSE <<SubSeq(u, 1, b - 1)>> \o LinesOf(SubSeq(u, next, Len(u)))

Cut(u, left, right) ==
    LET solid == {i \in 1..Len(u) : ~UnitBlank(u[i])}
        first == IF ~left THEN 1 ELSE IF solid = {} THEN Len(u) + 1 ELSE Min(solid)
        last == IF ~right THEN Len(u) ELSE IF solid = {} THEN 0 ELSE Max(solid)
    IN  SubSeq(u, first, last)

Repeat(c, n) == [i \in 1..n |-> c]

(* The lines of a flow scalar as one text: a break is a space, and one that *)
(* is followed by empty lines is as many breaks as there are empty lines.   *)
FoldFlow(u) ==
    LET lines == LinesOf(u)
        n == Len(lines)
        line == [i \in 1..n |-> Cut(lines[i], i > 1, i < n)]
        joins(i) == line[i] # << >> /\ Last(line[i]) = Unit("", TRUE)
        text(i) == SelectSeq(Chars(line[i]), LAMBDA c : c # "")
        Add(st, i) ==
            IF i > 1 /\ i < n /\ line[i] = << >> THEN [st EXCEPT !.empty = @ + 1]
            ELSE [text |-> st.text
                           \o (IF i = 1 THEN << >>
                               ELSE IF st.empty > 0 THEN Repeat("\n", st.empty)
                               ELSE IF st.joins THEN << >> ELSE <<" ">>)
                           \o text(i),
                  joins |-> joins(i), empty |-> 0]
    IN  FoldLeftDomain(Add, [text |-> << >>, joins |-> FALSE, empty |-> 0], line).text

----------------------------------------------------------------------------
(* Block scalars.  The indicators are in the first line of their text; an   *)
(* indentation of 0 is none.                                                *)

HeaderOf(T) == {T[i] : i \in 2..(Min({k \in 1..Len(T) : T[k] = "\n"}) - 1)}

ChompOf(T) == IF "+" \in HeaderOf(T) THEN "keep" ELSE IF "-" \in HeaderOf(T) THEN "strip" ELSE "clip"

IndentOf(T) == IF "1" \in HeaderOf(T) THEN 1 ELSE IF "2" \in HeaderOf(T) THEN 2
               ELSE IF "9" \in HeaderOf(T) THEN 9 ELSE 0

Spaces(s) == Max({k \in 0..Len(s) : \A i \in 1..k : s[i] = " "})

BlockText(s, folded, chomp, given) ==
    LET all == [i \in 1..Len(LinesOf(Raw(s))) |-> Chars(LinesOf(Raw(s))[i])]
        ended == s # << >> /\ Last(all) = << >>
        rows == IF ended THEN Front(all) ELSE all
        solid == {i \in 1..Len(rows) : Spaces(rows[i]) < Len(rows[i])}
        indent == IF given > 0 THEN given
                  ELSE IF solid = {} THEN Max({0} \cup {Len(rows[i]) : i \in 1..Len(rows)})
                  ELSE Spaces(rows[Min(solid)])
        line == [i \in 1..Len(rows) |-> SubSeq(rows[i], indent + 1, Len(rows[i]))]
        full == {i \in 1..Len(rows) : line[i] # << >>}
        last == Max({0} \cup full)
        spaced(i) == line[i][1] \in {" ", "\t"}
        before(i) == {j \in full : j < i}
        gap(i) ==
            IF before(i) = {} THEN Repeat("\n", i - 1)
            ELSE LET j == Max(before(i))
                     k == i - j - 1
                 IN  IF ~folded \/ spaced(i) \/ spaced(j) THEN Repeat("\n", k + 1)
                     ELSE IF k = 0 THEN <<" ">> ELSE Repeat("\n", k)
        body == FoldLeftDomain(LAMBDA t, i : IF i \in full THEN t \o gap(i) \o line[i] ELSE t,
                               << >>, line)
        tail == CASE chomp = "strip" -> 0
                  [] chomp = "clip" -> IF last > 0 /\ (last < Len(rows) \/ ended) THEN 1 ELSE 0
                  [] chomp = "keep" -> (IF ended THEN Len(rows) ELSE Len(rows) - 1)
                                       - (IF last = 0 THEN 0 ELSE last - 1)
    IN  body \o Repeat("\n", tail)
=============================================================================
