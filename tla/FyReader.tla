------------------------------ MODULE FyReader ------------------------------
(***************************************************************************)
(* fy-input.c and fy-input.h: the reader behind the scanner.  It looks at  *)
(* the octets of one input after the other through a window: a pointer     *)
(* into the input's memory, the octets left behind it and the character    *)
(* there.  The memory is the whole text, or a buffer that is filled and    *)
(* moved when a call looks further than it reaches.  Tokens outlive that:  *)
(* they keep marks and a reference to the input, and the scanner goes on.  *)
(*                                                                         *)
(* One call is one step.  What a call may find depends on how much each    *)
(* read delivers, so calls are sets of outcomes.  Tabs count one column    *)
(* (tabsize is 0), and the callback of an input does not fail.             *)
(***************************************************************************)
EXTENDS FyUtf8, FiniteSetsExt

CONSTANTS Sources,     \* the inputs a caller may give first: [type, content]
          Later,       \* and those it gives after that
          Characters,  \* the characters there are, for the reference
          Strings,     \* what fy_reader_strncmp() is asked for
          Page,        \* the size buffers grow by
          MaxAhead,    \* bound on how many characters a peek skips
          MaxTokens,   \* bound on the tokens alive at once
          MaxInputs    \* bound on the inputs opened

ASSUME ReaderBounds ==
  Page \in Nat \ {0} /\ MaxAhead \in Nat /\ MaxTokens \in Nat /\ MaxInputs \in Nat

VARIABLES inputs,      \* every struct fy_input so far
          cur,         \* fyr->current_input: its place in inputs, or 0
          rd,          \* the window and the position of the reader
          mode,        \* fyr->mode
          tokens,      \* the tokens somebody has a reference to
          ret,         \* what the last call returned
          strayed      \* the window was used that was one of an earlier buffer
                       \* or input: what the calls return then is not followed

vars == <<inputs, cur, rd, mode, tokens, ret, strayed>>

-----------------------------------------------------------------------------
(* Inputs.                                                                 *)

Buffered(in) == in.type \in {"stdio", "read", "callback"}

\* fy_input_alloc(), fy_input_create(), and what opening resets
Created(source) ==
  [type |-> source.type, content |-> source.content, live |-> TRUE, state |-> "queued",
   allocated |-> 0, read |-> 0, eof |-> FALSE, err |-> FALSE, generation |-> 0, refs |-> 1]

\* fy_input_ref(), fy_input_unref() with fy_input_free() and fy_input_close()
Freed == [Created([type |-> "memory", content |-> << >>]) EXCEPT !.live = FALSE, !.refs = 0]
Ref(in) == [in EXCEPT !.refs = @ + 1]
Unref(in) == IF in.refs = 1 THEN Freed ELSE [in EXCEPT !.refs = @ - 1]

\* how far the memory reaches, and fy_input_size()
Extent(in) == IF Buffered(in) THEN in.allocated ELSE Len(in.content)
InputSize(in) == IF Buffered(in) THEN in.read ELSE Len(in.content)

\* the outcomes of filling a buffer up to `need' octets: a read may deliver less
\* than there is room for, fread() when it fails behind what it delivers
Filled(in, need) ==
  LET full == Min({in.allocated, Len(in.content)})
  IN  IF full >= need THEN {[in EXCEPT !.read = n] : n \in {m \in need .. full : m > in.read}}
      ELSE {[in EXCEPT !.read = full, !.eof = TRUE]}

\* the ones that end with an error, after any number of octets
Broken(in, need) ==
  LET full == Min({in.allocated, Len(in.content)})
  IN  IF in.type = "callback" THEN {}
      ELSE {[in EXCEPT !.read = n, !.eof = TRUE, !.err = TRUE] :
              n \in {m \in in.read .. full : m < need}}

\* room for `need' octets, in whole pages: the buffer moves
Grown(in, pos, pull) ==
  LET missing == pull - (in.read - pos)
      size == in.allocated + missing + Page - 1
  IN  IF pos + pull <= in.allocated THEN in
      ELSE [in EXCEPT !.allocated = size - (size % Page), !.generation = @ + 1]

\* fy_reader_input_try_pull(): the input, and the octets left, 0 for none
TryPull(in, pos, pull) ==
  LET left == InputSize(in) - pos
      grown == Grown(in, pos, pull)
  IN  IF left < 0 THEN {}      \* the assertions
      ELSE IF ~Buffered(in) \/ left >= pull \/ in.eof THEN {[in |-> in, left |-> left]}
      ELSE {[in |-> i, left |-> i.read - pos] : i \in Filled(grown, pos + pull)}
           \cup {[in |-> i, left |-> 0] : i \in Broken(grown, pos + pull)}

-----------------------------------------------------------------------------
(* The window.  A state of the calls is the input and the reader; ptr says *)
(* which input's which buffer it points into.                              *)

Ptr(in, id) == <<id, in.generation>>
NoPtr == <<0, 0>>
Fresh(s) == s.rd.ptr = Ptr(s.in, s.id)

\* the octets behind the pointer: any, when the buffer is not there any more
Octets(s) ==
  LET there == SubSeq(s.in.content, s.rd.pos + 1, Min({s.rd.pos + s.rd.left, Len(s.in.content)}))
  IN  IF Fresh(s) THEN {there} ELSE {[i \in 1 .. s.rd.left |-> 0], [i \in 1 .. s.rd.left |->
                                       IF i \in DOMAIN there THEN there[i] ELSE 97]}

\* the window after a change of pointer and position
Windows(s) ==
  {[s EXCEPT !.rd.c = c, !.strayed = @ \/ (~Fresh(s) /\ s.rd.left > 0)]
   : c \in {Get(o) : o \in Octets(s)}}

\* fy_reader_ptr(), fy_reader_ptr_slow_path()
ReaderPtr(s) ==
  IF s.rd.ptr # NoPtr THEN {s}
  ELSE Windows([s EXCEPT !.rd.ptr = Ptr(s.in, s.id), !.rd.left = InputSize(s.in) - s.rd.pos])

\* fy_reader_ensure_lookahead(): the window stays as it was when there is less
EnsureLookahead(s, size) ==
  LET Pulled(t) ==
        UNION {IF o.left >= size
               THEN {[s |-> u, p |-> TRUE] : u \in
                       Windows([t EXCEPT !.in = o.in, !.rd.ptr = Ptr(o.in, t.id), !.rd.left = o.left])}
               ELSE {[s |-> [t EXCEPT !.in = o.in], p |-> FALSE]}
               : o \in TryPull(t.in, t.rd.pos, size)}
  IN  UNION {IF t.rd.left >= size THEN {[s |-> t, p |-> TRUE]} ELSE Pulled(t) : t \in ReaderPtr(s)}

Used(s) == [s EXCEPT !.strayed = @ \/ ~Fresh(s)]

PeekAtOffset_FirstOctet(s, offset) ==   \* mutant: the rest of a character is not pulled in
  IF offset = 0 /\ s.rd.c >= 0 THEN {[s |-> s, c |-> s.rd.c]}
  ELSE UNION {IF ~e.p THEN {[s |-> e.s, c |-> FYUG_EOF]}
              ELSE {[s |-> Used(e.s), c |-> Get(SubSeq(o, offset + 1, Len(o)))] : o \in Octets(e.s)}
              : e \in EnsureLookahead(s, offset + 1)}

\* fy_reader_peek_at_offset()
PeekAtOffset(s, offset) ==
  LET Decoded(t) == {[s |-> Used(t), c |-> Get(SubSeq(o, offset + 1, Len(o)))] : o \in Octets(t)}
      Whole(t, w) ==
        IF w = 0 THEN {[s |-> Used(t), c |-> FYUG_INV]}
        ELSE IF offset + w <= t.rd.left THEN Decoded(t)
        ELSE UNION {IF e.p THEN Decoded(e.s) ELSE {[s |-> Used(e.s), c |-> FYUG_PARTIAL]}
                    : e \in EnsureLookahead(t, offset + w)}
  IN  IF offset = 0 /\ s.rd.c >= 0 THEN {[s |-> s, c |-> s.rd.c]}
      ELSE UNION {IF ~e.p THEN {[s |-> e.s, c |-> FYUG_EOF]}
                  ELSE UNION {Whole(e.s, WidthByFirstOctet(o[offset + 1])) : o \in Octets(e.s)}
                  : e \in EnsureLookahead(s, offset + 1)}

\* fy_reader_peek_at(): one character after the other
RECURSIVE PeekAt(_, _, _)
PeekAt(s, offset, n) ==
  IF n = 0 THEN PeekAtOffset(s, offset)
  ELSE UNION {IF a.c < 0 THEN {a} ELSE PeekAt(a.s, offset + Width(a.c), n - 1)
              : a \in PeekAtOffset(s, offset)}

\* fy_reader_advance_octets()
AdvanceOctets(s, n) == Windows([s EXCEPT !.rd.pos = @ + n, !.rd.left = @ - n])

\* fy_is_lb_m()
IsLb(m, c) == c \in {10, 13} \/ (m = "yaml_1_1" /\ c \in {133, 8232, 8233})

NextLine(s) == [s EXCEPT !.rd.line = @ + 1, !.rd.column = 0]
NextColumn(s) == [s EXCEPT !.rd.column = @ + 1]

Advance_WindowOnly(s, c) ==   \* mutant: the line feed is looked for in the window only
  UNION {IF c = 13 /\ t.rd.c = 10 THEN {NextLine(u) : u \in AdvanceOctets(t, 1)}
         ELSE {IF IsLb(s.mode, c) THEN NextLine(t) ELSE NextColumn(t)}
         : t \in AdvanceOctets(s, Width(c))}

\* fy_reader_advance(): a carriage return takes the line feed behind it along
Advance(s, c) ==
  LET After(t) ==
        IF c # 13 THEN {IF IsLb(s.mode, c) THEN NextLine(t) ELSE NextColumn(t)}
        ELSE UNION {IF a.c = 10 THEN {NextLine(u) : u \in AdvanceOctets(a.s, 1)} ELSE {NextLine(a.s)}
                    : a \in PeekAtOffset(t, 0)}
  IN  UNION {After(t) : t \in AdvanceOctets(s, Width(c))}

\* fy_reader_get()
ReaderGet(s) ==
  UNION {IF a.c < 0 THEN {a} ELSE {[s |-> t, c |-> a.c] : t \in Advance(a.s, a.c)}
         : a \in PeekAtOffset(s, 0)}

\* fy_reader_advance_by()
RECURSIVE AdvanceBy(_, _)
AdvanceBy(s, n) ==
  IF n = 0 THEN {s}
  ELSE UNION {IF a.c < 0 THEN {a.s} ELSE AdvanceBy(a.s, n - 1) : a \in ReaderGet(s)}

\* fy_reader_strncmp()
Strncmp(s, str) ==
  UNION {IF ~e.p THEN {[s |-> e.s, c |-> -1]}
         ELSE {[s |-> Used(e.s), c |-> IF SubSeq(o, 1, Len(str)) = str THEN 0 ELSE 1] : o \in Octets(e.s)}
         : e \in EnsureLookahead(s, Len(str))}

-----------------------------------------------------------------------------
NoReader == [pos |-> 0, ptr |-> NoPtr, left |-> 0, c |-> -1, line |-> 0, column |-> 0]
NoAnswer == [call |-> "none", from |-> 0, n |-> 0, c |-> 0]

Init ==
  /\ inputs = << >> /\ cur = 0 /\ rd = NoReader /\ mode = "yaml"
  /\ tokens = << >> /\ ret = NoAnswer /\ strayed = FALSE

Window == [in |-> inputs[cur], id |-> cur, rd |-> rd, mode |-> mode, strayed |-> strayed]
Open == cur # 0 /\ inputs[cur].state = "in progress" /\ ~strayed

Given == IF inputs = << >> THEN Sources ELSE Later

\* a call of the reader
Becomes(s) == rd' = s.rd /\ strayed' = s.strayed /\ UNCHANGED <<cur, mode>>
Answer(call, n, c) == ret' = [call |-> call, from |-> rd.pos, n |-> n, c |-> c]

\* fy_parse_input_append(), fy_parse_get_next_input(), fy_reader_input_open():
\* the position of the reader is not touched
OpenInput ==
  /\ cur = 0 /\ Len(inputs) < MaxInputs
  /\ \E source \in Given : \E m \in {"yaml", "yaml_1_1"} :
       LET in == Created(source)
       IN  /\ inputs' = Append(inputs, Unref(Ref([in EXCEPT !.state = "in progress",
                                                 !.allocated = IF Buffered(in) THEN Page ELSE 0])))
           /\ mode' = m
  /\ cur' = Len(inputs) + 1 /\ ret' = NoAnswer
  /\ strayed' = (strayed \/ rd # NoReader) /\ UNCHANGED <<rd, tokens>>

\* a file that cannot be opened stays the current input
OpenFails ==
  /\ cur = 0 /\ Len(inputs) < MaxInputs
  /\ \E source \in Given :
       source.type = "stdio" /\ inputs' = Append(inputs, Unref(Ref(Created(source))))
  /\ cur' = Len(inputs) + 1 /\ ret' = NoAnswer
  /\ UNCHANGED <<rd, mode, tokens, strayed>>

Peek ==
  /\ Open
  /\ \E n \in 0 .. MaxAhead : \E a \in PeekAt(Window, 0, n) :
       Becomes(a.s) /\ inputs' = [inputs EXCEPT ![cur] = a.s.in] /\ Answer("peek", n, a.c)
  /\ UNCHANGED tokens

GetCharacter ==
  /\ Open
  /\ \E a \in ReaderGet(Window) :
       Becomes(a.s) /\ inputs' = [inputs EXCEPT ![cur] = a.s.in] /\ Answer("get", 0, a.c)
  /\ UNCHANGED tokens

Compare ==
  /\ Open
  /\ \E str \in Strings : \E a \in Strncmp(Window, str) :
       Becomes(a.s) /\ inputs' = [inputs EXCEPT ![cur] = a.s.in] /\ Answer("compare", str, a.c)
  /\ UNCHANGED tokens

FillAtom_NoRef ==   \* mutant: the token has no reference of its own
  /\ Open /\ Len(tokens) < MaxTokens
  /\ \E n \in 0 .. MaxAhead : \E s \in AdvanceBy(Window, n) :
       /\ Becomes(s) /\ inputs' = [inputs EXCEPT ![cur] = s.in] /\ Answer("fill", n, 0)
       /\ tokens' = Append(tokens, [input |-> cur, start |-> rd.pos, end |-> s.rd.pos,
                                    generation |-> inputs[cur].generation, text |-> NoPtr])

\* fy_reader_fill_atom() and fy_token_vcreate()
FillAtom ==
  /\ Open /\ Len(tokens) < MaxTokens
  /\ \E n \in 0 .. MaxAhead : \E s \in AdvanceBy(Window, n) :
       /\ Becomes(s) /\ inputs' = [inputs EXCEPT ![cur] = Ref(s.in)] /\ Answer("fill", n, 0)
       /\ tokens' = Append(tokens, [input |-> cur, start |-> rd.pos, end |-> s.rd.pos,
                                    generation |-> inputs[cur].generation, text |-> NoPtr])

\* fy_token_get_text() of a token whose text is not made but pointed to
NeedsRebuild(t) == t.generation # inputs[t.input].generation
GetText ==
  /\ \E i \in DOMAIN tokens :
       LET t == tokens[i]
       IN  /\ tokens' = IF t.text # NoPtr /\ ~NeedsRebuild(t) THEN tokens
                        ELSE [tokens EXCEPT ![i].text = Ptr(inputs[t.input], t.input)]
           /\ Answer("text", i, 0)
  /\ UNCHANGED <<inputs, cur, rd, mode, strayed>>

\* fy_token_unref(), fy_token_free()
FreeToken ==
  /\ \E i \in DOMAIN tokens :
       /\ tokens' = RemoveAt(tokens, i)
       /\ inputs' = [inputs EXCEPT ![tokens[i].input] = Unref(@)]
  /\ ret' = NoAnswer /\ UNCHANGED <<cur, rd, mode, strayed>>

\* at the end of the text: fy_reader_stream_end() and fy_reader_input_done(),
\* which leaves the window where it is
InputDone ==
  /\ Open /\ ret.call \in {"peek", "get"} /\ ret.n = 0 /\ ret.c < 0
  /\ LET in == inputs[cur]
         done == IF Buffered(in) THEN [in EXCEPT !.allocated = rd.pos, !.generation = @ + 1] ELSE in
     IN  inputs' = [inputs EXCEPT ![cur] = Unref([done EXCEPT !.state = "parsed"])]
  /\ rd' = IF rd.column = 0 THEN rd ELSE [rd EXCEPT !.column = 0, !.line = @ + 1]
  /\ cur' = 0 /\ ret' = NoAnswer /\ UNCHANGED <<mode, tokens, strayed>>

\* fy_reader_reset()
Reset ==
  /\ inputs' = IF cur = 0 THEN inputs ELSE [inputs EXCEPT ![cur] = Unref(@)]
  /\ cur' = 0 /\ rd' = NoReader /\ mode' = "yaml" /\ ret' = NoAnswer
  /\ UNCHANGED <<tokens, strayed>>

Next ==
  \/ OpenInput \/ OpenFails \/ Peek \/ GetCharacter \/ Compare \/ FillAtom
  \/ GetText \/ FreeToken \/ InputDone \/ Reset

Spec == Init /\ [][Next]_vars

-----------------------------------------------------------------------------
(* Properties.  The reference reads the whole text.                        *)

\* the characters that are the octets at an offset: one, or none
At(content, offset) ==
  {c \in Characters : IsPrefix(Put(c), SubSeq(content, offset + 1, Len(content)))}

\* where the n-th character after an offset is, or the octets that are none
RECURSIVE Skip(_, _, _)
Skip(content, offset, n) ==
  IF n = 0 \/ At(content, offset) = {} THEN offset
  ELSE Skip(content, offset + Len(Put(CHOOSE c \in At(content, offset) : TRUE)), n - 1)

\* However the octets arrive, wherever the buffer ends and whatever was looked
\* at before, as long as no window of an earlier buffer was used (strayed):
\* fy_reader_peek_at() and fy_reader_get() return the character
\* that is there in the whole text, also one that lies across two reads, and
\* fy_reader_strncmp() compares with the whole text.  A read that failed is
\* taken for the end of the text.
ReadsRight ==
  Open /\ ~inputs[cur].err =>
    LET content == inputs[cur].content
        offset == Skip(content, ret.from, ret.n)
    IN  CASE ret.call \in {"peek", "get"} ->
               IF At(content, offset) # {} THEN ret.c \in At(content, offset)
               ELSE IF offset = Len(content) THEN ret.c = FYUG_EOF
               ELSE ret.c \in {FYUG_INV, FYUG_PARTIAL}
          [] ret.call = "compare" ->
               (ret.c = 0) <=> IsPrefix(ret.n, SubSeq(content, ret.from + 1, Len(content)))
          [] OTHER -> TRUE

\* the line and the column of a position, from those of an earlier one
RECURSIVE Mark(_, _, _, _, _)
Mark(content, from, to, line, column) ==
  IF from >= to THEN <<line, column>>
  ELSE LET c == CHOOSE d \in At(content, from) : TRUE
           next == from + Len(Put(c)) + (IF c = 13 /\ 10 \in At(content, from + 1) THEN 1 ELSE 0)
       IN  IF IsLb(mode, c) THEN Mark(content, next, to, line + 1, 0)
                            ELSE Mark(content, next, to, line, column + 1)

\* fy_reader_advance(): the marks the scanner decides indentation by are those
\* of the text, with a carriage return and its line feed one line break also
\* when they arrive one by one, again until a stale window is used.
MarksRight ==
  Open =>
    <<rd.line, rd.column>> = Mark(inputs[cur].content, 0, rd.pos, 0, 0)

\* Tokens outlive the window: while a token exists its input is not freed,
\* its octets are in the memory of the input although that was moved by
\* reads and cut at the end, and fy_token_get_text() returns a pointer into
\* the memory as it is now.
TextsLive ==
  /\ ~strayed => \A i \in DOMAIN tokens :
       LET t == tokens[i] IN inputs[t.input].live /\ t.end <= Extent(inputs[t.input])
  /\ ret.call = "text" =>
       LET t == tokens[ret.n] IN t.text = Ptr(inputs[t.input], t.input)
=============================================================================
