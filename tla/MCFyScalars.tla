---------------------------- MODULE MCFyScalars -----------------------------
(* Small texts of every style for FyScalars. *)
EXTENDS FyScalars

Words(S, n) == {FlattenSeq(w) : w \in UNION {[1..k -> S] : k \in 0..n}}

PlainTexts == {<<"a">> \o w : w \in Words({<<"a">>, <<" ">>, <<"\n">>, <<":">>, <<"#">>}, 3)}

SingleTexts == {<<"'">> \o w \o <<"'">> : w \in Words({<<"a">>, <<" ">>, <<"\n">>, <<"'", "'">>, <<"\t">>}, 3)}

DoubleTexts == {<<"\"">> \o w \o <<"\"">> :
    w \in Words({<<"a">>, <<" ">>, <<"\n">>, <<"\\", "n">>, <<"\\", "\n">>, <<"\\", "\\">>}, 3)}

BlockTexts == {<<c>> \o h \o <<"\n">> \o w : c \in {"|", ">"}, h \in {<< >>, <<"-">>, <<"+">>, <<"2">>, <<" ", "#">>},
    w \in Words({<<"\n">>, <<" ", " ", "a", "\n">>, <<" ", " ", " ", "a", "\n">>, <<" ", " ", " ", "\n">>}, 3)}

(* Other headers: one with both indicators and a comment right behind them, *)
(* and headers that are refused.                                            *)
HeaderTexts == {<<"|">> \o h \o <<"\n">> \o w :
    h \in {<<"2", "+">>, <<"-", "2", "#">>, <<"9">>, <<"2", "#">>, <<"0">>, <<"a">>},
    w \in {<< >>, <<" ", " ", "a", "\n">>, <<" ", " ", " ", "a", "\n", "\n">>}}

MCTexts == {"root", "value"} \X (SingleTexts \cup DoubleTexts \cup BlockTexts \cup HeaderTexts \cup PlainTexts)
           \cup ({"entry", "key"} \X PlainTexts)

(* A scalar that is created is not empty: in JSON that is a null pointer. *)
MCValues == UNION {[1..k -> {"a", " ", "\n", ":", "#", "'", "\"", "\t", "0"}] : k \in 1..2}
            \cup [1..3 -> {"a", " ", "\n", ":", "'"}]
            \cup {<<"-", "-", "-">>, <<".", ".", ".", "a">>, <<"t", "r", "u", "e">>, <<"-", "1", ".", "0">>}
=============================================================================
