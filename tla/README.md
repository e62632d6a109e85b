# A specification of libfyaml in TLA+

libfyaml reads and writes YAML 1.2 and JSON. This directory holds TLA+ modules
for the parts of it that are state machines, configurations that model-check
them with TLC, and proofs that TLAPS checks. Paths below are relative to the
repository; `lib/` stands for `src/lib/`.

1. [Inventory](#inventory): the parts of the system and what makes them correct
2. [Modules](#modules): which module models what, and how it corresponds to the code
3. [Runs](#runs): what TLC checks, the bounds, the fairness
4. [Proofs](#proofs): what is proved, and along which argument
5. [Disagreements](#disagreements) between the code and what is said of it
6. [Limits](#limits): what is left out and why
7. [Plan](#plan): what comes next

## Inventory

Text flows through the library in one direction when it is read,

    input -> reader -> scanner -> event parser -> document builder -> document
                                        |
                                        +-> events, for the caller

and back when it is written: events, or the nodes of a document, go through the
emitter to an output callback. Everything between the reader and the events
lives in one `struct fy_parser` and runs in the caller's thread: the event
parser peeks for a token, which runs the scanner until it has one it is sure
of. So the two never run at the same time, but the scanner gets ahead of the
parser by as many tokens as a pending key forces it to, and each changes fields
the other relies on.

| Part | Code | State | Operations | What is hard | What makes it correct |
|---|---|---|---|---|---|
| Scanner | `lib/fy-parse.c` 1000-4350 | token queue, simple keys, indent stack, flow stack, pending complex key, flags | `fy_fetch_tokens()` and a handler per kind of text, `fy_scan_peek()` | tokens are inserted before tokens queued earlier; keys point into the queue; only list heads are looked at | every key points at its token; tokens nest; blocks are closed by the end |
| Event parser | `lib/fy-parse.c` 4350-5500 | state, state stack, document state, kept STREAM_END | `fy_parse_internal()` | 24 states; pushes and pops in different calls; JSON shares the cases of YAML | well-nested events; the stack is never popped empty; streams end |
| Parser as a whole | `lib/fy-parse.c` | all of the above, inputs | `fy_parser_parse()`, `_set_input*()`, `_reset()` | two contexts that are never compared; contexts cleared by the other side; several inputs | the contexts agree; nothing is carried over to another stream; end of stream reaches the caller |
| Emitter | `lib/fy-emit.c` | state, state stack, layout contexts, event queue, indent, flow level | `fy_emit_event()`, `fy_emit_document()` | look-ahead; contexts saved and restored in three places; refused events | accepts what nests; what it lays out reads back as the same events |
| Document builder | `lib/fy-doc.c` 1380-1890 | a half-built tree | `fy_parse_load_document()` | recursion over events, error paths in the middle of a pair | the tree is that of the events; errors free everything once |
| Document editing | `lib/fy-doc.c` 130-240, 700-910, 1890-2370, 3280-3370, 4840-5340 | nodes, pairs, parents, attachment, anchors | append, prepend, insert, remove, copy, set root, free | sequences of calls that are each legal | the nodes form a tree; each is linked once; anchors point into it |
| Aliases and merge keys | `lib/fy-doc.c` 2370-2960, 4340-4480 | node graph, marks | `fy_document_resolve()` | loops of references, marks shared by nested walks | terminates; loops are refused |
| Path expressions | `lib/fy-walk.c` | operator and operand stacks, results | `fy_path_parse_expression()`, `fy_path_exec_execute()` | precedence, implicit operators | the result is that of the grammar |
| Reader | `lib/fy-input.c` | buffer, position | open, pull, advance, close | short reads, end of input at a chunk's end | no character is lost or read twice |
| Document state | `lib/fy-docstate.c` | version, tag directives | create, copy, merge | partial failure of a merge | handles are bound once |
| Accelerator | `lib/fy-accel.c` | hash buckets | insert, lookup, remove, grow | growth at the end of the table of sizes | behaves like a map |
| Tokens, events | `lib/fy-token.c`, `lib/fy-event.c` | reference counts | ref, unref | tokens owned by several holders | freed once, after the last use |
| Atoms | `lib/fy-atom.c` | iterator over scalar text | chunk iteration | folding and chomping at chunk ends | the text YAML prescribes |
| UTF-8 | `lib/fy-utf8.c` | none | encode, decode | boundaries of the widths | inverse of each other |
| Diagnostics, dumps, utilities | `lib/fy-diag.c`, `lib/fy-dump.c`, `lib/fy-utils.c` | messages | - | - | no influence on the above |
| Hash function | `src/xxhash/` | none | - | vendored | any function would do |
| Tools | `src/tool/`, `src/internal/` | none | option handling | - | - |

The hazards of the code, line by line, are in `PROJECT.json`, with the
properties that cover them.

## Modules

| Module | Models |
|---|---|
| `FyTypes` | types of tokens and events, states of the parser |
| `EventStream` | abstract: a well-nested stream of events |
| `FyParser` | the event parser, over an arbitrary stream of tokens |
| `FyScanner` | the scanner, over an arbitrary text of lexemes |
| `TokenNesting` | reference: how tokens open and close collections |
| `FyScan` | `FyScanner` and a caller of `fy_scan()` |
| `FyStream` | `FyScanner` and `FyParser` sharing one `struct fy_parser` |
| `FyEmitter` | the streaming emitter, fed by `EventStream` |
| `FyDocument` | a document tree under the editing calls |
| `FyNodes` | nodes, anchors and accelerated mappings: lookup, comparison, copy, free |
| `FyResolve` | aliases, merge keys and the search for loops |
| `FyPath` | the path of a node, references, and the node at a path |
| `FyLoad` | the document builder, resolution, and what both promise |
| `FyPathExpr` | path expressions: tokens, operator and operand stacks, `evaluate()` |
| `PathTrees` | reference: path expressions as trees, and the nodes they stand for |
| `FyWalk` | a path parser and its executor |
| `FyUtf8` | octets and characters |
| `FyReader` | the reader: buffers, inputs, marks and the tokens that refer to them |
| `FyAtom` | the line iterator: from the input of a scalar to its text |
| `FyScalar` | the scanner inside a scalar, with its storage hint |
| `FyScalarEmit` | the style the emitter picks and the text it writes |
| `YamlText` | reference: the text of a scalar by the rules of YAML 1.2 |
| `FyScalars` | the life of a scalar: scanned or created, emitted, scanned again |
| `Lists` | `Last`, `Front` and `FlattenSeq`, in a form that proofs can use |
| `MCFy...` | the instances TLC checks |
| `NestLists` | lemmas about nestings of events, for the parser and the emitter |
| `FyParserProofs` | theorems about `FyParser` |
| `FyScanProofs`, `FyScanNest` | theorems about `FyScan`, and lemmas about `TokenNesting` |
| `FyStreamProofs` | theorems about `FyStream` |
| `FyEmitterProofs`, `FyEmitterQueue` | theorems about `FyEmitter` |
| `FyUtf8Proofs` | theorems about `FyUtf8` |

### FyParser

Variables are the fields of `struct fy_parser` under their own names. `call`
holds the locals of the running `fy_parse_internal()` and the place where it
waits for a token, since a token that is not there makes the scanner run; an
action is the code between two such places. `event` is the event the step
returns. There is one action for each `case` of `fy_parse_internal()` and of
`fy_parse_node()`; the helpers `SetState`, `Push`, `PopState`, `Consume`,
`Return` stand for the functions they are named after. The actions under
`Peek` are an environment: any token of `Supply` may come next, an input may
fail to open, and scanning may fail. The actions under `API` are the caller's.
A `STREAM_END` at the head of the queue is copied when a call starts, also by a
call that then fails (`Failed`). `InputReset` is `fy_parse_input_reset()` on a
parser that has no input left in its list: it frees the ones it has while they
are still linked, after which the program has no defined behaviour.

`EventStream` is what the parser promises its caller, whatever the tokens are.
`WellNested` is the refinement: `ES == INSTANCE EventStream WITH nest <- Nest`,
where `Nest` reads what is open off the state and the state stack. A state on
the stack stands for a collection whose child is unfinished, the current state
for one whose last child is complete; the single pair of a flow sequence is one
state on the stack and two levels of the stream.

### FyScanner, FyScan

A text is a stream of lexemes, each named after the character that
`fy_fetch_tokens()` dispatches on, with a column and what separates it from the
one before (blanks, a line break, a comment and a line break). A fetch takes
the next lexeme as `look'`; `ahead` is what the handler before has already seen
of it, for instance that a `:` follows a quoted scalar in JSON-like keys. Lines
are only ever compared with the current one, so a mark is a column and a flag
`old`. A pointer to a queued token is its position in the queue, shifted as
tokens are inserted and handed out. There is one action per `fy_fetch_*()`
handler, and each contains what `fy_fetch_tokens()` does before dispatching: the
purge of stale keys and the unrolling of indents.

A handler that fails does so in the middle of its work, and what it has done
until then stays in the parser. So each handler has a second action for its
error paths (`FlowEndFails`, `ValueFails` and so on) with the state it leaves:
the levels that were unrolled or opened, the tokens that were queued, the keys in
front of a required one that were dropped (`Stuck`, `RemoveStuck`, `SaveStuck`),
and the flow level that a mismatched bracket has already counted down. `Refuse`
is what a handler refuses before it changes anything, and `LexicalError` an
error between two lexemes.

`FyScan` adds `fy_scan()`. It was compared with the library in both directions
while it was written. 2989 random behaviours of the model, turned into text,
give the tokens the model predicts (one text could not be rendered; the model
was tightened to exclude it). Of 2532 random texts that the library scans to
the end, 2521 are behaviours of the model; in the other 11 two lexemes of one
line were given the same bounded column, and the text is a behaviour of the
model with more columns.

### FyStream

Extends `FyScanner` and instantiates `FyParser` over the same `queue`,
`flow_level`, `json`, `inputs` and `stream_error`. `Fetching` is the scanner at
work inside a peek; `HandOut` is the end of `fy_scan_peek()`; `Parsing` is a
step of the parser together with what it does to the scanner's context in
`fy_parse_stream_start()` and `fy_reset_document_state()`. `Reset` is
`fy_parser_reset()`.

### FyEmitter

Variables are the fields of `struct fy_emitter`; a context (`s_sc`, `sc_stack`)
keeps of `struct fy_emit_save_ctx` what decides the layout. `Submit` is the
caller queueing an event in `fy_emit_event()`, `Act` one turn of its loop with
the handler of the current state, `Return` its end. The caller's events are
those of `EventStream`, that is, of everything `FyParser` has been shown to
produce, plus up to `MaxStrays` events that do not belong where they are.
`EmitDocument` is `fy_emit_document()`, the other way to drive an emitter: it
shares the document markers and the current document with the first. What is
written is reduced to brackets, indentation and markers.

### FyDocument

The heap of one document: a node is its kind (for a scalar, its text), its
items or pairs, its parent and its mark `attached`. `anchors` is the document's
list of anchors. There is one action per editing call: `fy_node_create_*()`,
`fy_node_copy()`, `fy_node_free()`, `fy_document_set_root()`,
`fy_node_set_anchor()`, the calls on sequences and mappings, `fy_node_insert()`
and `fy_document_insert_at()`. A call contains all it frees, so an action may
take a whole subtree and its anchors away. `Inserted` is the recursion of
`fy_node_insert()` with its early returns; a merge that fails at one key keeps
what it did to the keys before. `aborted` is the failure of its assertion.

The caller is assumed to pass nodes that exist, not to put a node below itself
(the library does not look), to use scalars or nothing as keys, and not to hand
over or free a node that is linked without being marked, of which
`fy_node_insert()` leaves some behind.

### FyNodes, FyResolve, FyPath, FyLoad

`FyLoad` feeds the events between a document's start and its end to the builder
of `lib/fy-doc.c`. The events are put together from `Fragments`, and nest; the
parser may fail at any of them. The recursion of `fy_parse_document_load_node()`
is the stack `frames`, one frame for each collection that is being built, with
the half of a pair that waits for its value. An error (`Fails`) unwinds this
stack one call at a time: `Unwind` is `err_out` of the collection on top, which
frees the key it holds and the part it has built, and `Abandon` the end of the
outermost call. A key that fails to load stops the program: an assertion looks
at it before the result is (`CallFailed`, `lib/fy-doc.c:1632`). `accel` says whether mappings have
accelerators, `into` whether the events become a document of their own or a
free-standing node of a document there is (`fy_node_build_internal()`). When the
document is complete it may be resolved, as the configuration says or as a
separate call.

`FyNodes` is the heap under it, a sequence of nodes in the order they were
created. An accelerator keeps the hash each key had when it was inserted; the
hash is the key's value, so that the question is not collisions but keys that
change afterwards. `FyResolve` is `fy_document_resolve()`: the search for loops,
the copies that replace aliases, the pairs that replace a merge key, and the
parents. `FyPath` has `fy_node_get_path()`, `fy_node_get_short_path()`,
`fy_node_get_reference()` and `fy_node_by_path()` in three of its modes.

The reference is `Meaning` in `FyLoad`: the value YAML gives to a document with
aliases and merge keys, defined over the document as it was loaded and without
any copy.

### FyPathExpr, FyWalk, PathTrees

`FyPathExpr` is the tokenizer and `evaluate()`, the step of the
operator-precedence parser that takes one operator and its operands off the two
stacks. `FyWalk` has the parser's loops as actions, and the executor. A parser
may be used again, with what the first expression left behind. `PathTrees`
defines expressions as trees, how a tree is written with no more parentheses
than it needs, and the nodes it stands for; the run writes trees, has them
parsed and compares what is found in two documents, a small one with all kinds of
nodes and a sequence long enough for indices of two digits.

### FyReader, FyUtf8

One action per call of the reader (opening an input, which may fail, peek, get,
comparison, end of an input, reset) and of its tokens (`fy_reader_fill_atom*()`,
`fy_token_get_text()`, release). The memory of an input has a generation that
changes when `realloc()` moves it, and the window `rd` remembers the one it
points into; using it after a move sets `strayed`, and the properties speak of
the time before. A read may deliver any portion: a short one that still has what
was asked for (`Filled`), or less, with which the call fails (`Broken`). So a
call is a set of outcomes. `FyUtf8` has `fy_utf8_get()`,
`fy_utf8_put_unchecked()` and the widths, over octets and numbers.

### FyAtom, FyScalar, FyScalarEmit, FyScalars

These have characters, since their question is what text a scalar has. `FyScalar`
scans plain, quoted and block scalars at a place of the document and counts the
storage hint; `FyAtom` is `fy_atom_iter_*()`, which makes the text of an atom
each time it is asked for; `FyScalarEmit` picks the style and writes with the
accumulator and the width of a line. `FyScalars` runs a scalar through all
three. `YamlText` says what the text should be. The places where the library is
known to differ from it are the operators `Misread`, `WrongHint` and `Readable`,
each the narrowest description of one of the differences listed
[below](#disagreements); outside them the properties hold.

## Runs

All runs check deadlock unless stopping is legitimate: a caller may stop
submitting events or editing, or the text may end.

| Run | Shows | Bounds | States |
|---|---|---|---|
| `parser_tokens` | `TypeOK`, `StackDiscipline`, `JsonNoEmptyNodes`, `WellNested`, `StreamEnds` for every order of node and collection tokens, and for every order of directives and markers with errors, resets and single-document mode | stack three deep, two inputs | 590K |
| `scan_text` | `TypeOK`, `KeysAnchored`, `IndentsIncrease`, `Balanced` for block text and brackets, YAML and JSON | two columns, two flow levels, three waiting tokens | 920K |
| `stream_text` | `StacksAgree`, `FlowDepth`, `AheadWithinDocument`, `StreamEndDelivered`, `StreamEnds` with scanner and parser together | three columns, one flow level, one input | 233K |
| `emitter_events` | `Accepts`, `Lookahead`, `IndentsNest`, `DocumentsSeparated`, `WritesWellNested` | four levels including stream and document, two documents, one stray event, four modes | 783K |
| `document_edit` | `Tree`, `AttachedIsLinked`, `ParentsRight`, `KeysUnique`, `AnchorsLive` for every sequence of editing calls | five places for nodes, at most three scalars and two collections, two free-standing trees, anchors in heaps of two nodes | 62K up to symmetry |
| `load_resolve` | `NothingLeft`, `WholeTree`, `LookupsAgree`, `ResolveRight`, `ResolvedStays`, `PathsLeadBack`, `FollowAgrees` | three items, each a scalar, an alias or a small mapping, sequence, merge or key; one node built into the document; a depth limit of four | 249K |
| `walk_paths` | `OperandsKept`, `ParsesRight`, `Finishes` | trees of up to three operators and short texts over ten characters, numbers of one and two digits, two documents, two parses with one parser | 68K |
| `reader_calls` | `ReadsRight`, `MarksRight`, `TextsLive` | pages of two octets, one character of look-ahead, one token, two inputs | 1196K |
| `scalar_text` | `ScansRight`, `HintsRight`, `RoundTrip` | texts of up to four characters in each style, values of up to three, lines three wide, and headers of block scalars | 72K |
| `parser_indentless`, `stream_reset`, `document_insert` | a disagreement each, see below | small | - |

Why the bounds are enough to be interesting. The state of the parser depends on
the innermost collection and on what the stack returns to, so three levels show
every pair of a collection and its parent, and a grandparent to return to. The
scanner compares columns with the top of the indent stack only; two columns give
a column below, at and above the innermost block, and three a stack with two
levels. Three waiting tokens allow a key, an inner key in brackets, and a token
inserted before them. The text is not bounded in length: it ends when `MaxQueue`
tokens wait, and goes on otherwise. Two inputs show what the first leaves to the
second. The look-ahead of the emitter is at most three events, and two documents
are the fewest that can be separated wrongly. Five places for nodes are the
fewest in which a mapping is merged into another one key by key: the two
mappings, a value of each, and the copy that replaces one of them; with three
scalars the merge can also stop at its second key. The places are
interchangeable, so the run uses symmetry. Three items allow an anchor, what
refers to it, and something between or behind them; the fragments have aliases
in values, in keys and in merge keys, and a nesting past the depth limit. Three
operators show each precedence against each other on both sides. A page of two
octets is shorter than a character of three or four, so characters lie across
two or three reads. In lines three wide every second blank is a place to fold.

Fairness. Everything runs in the caller's thread, so a call that has been made
goes on (`WF` of the steps of a call, in `FyParser`, `FyStream` and `FyWalk`),
and the caller goes on asking for events. A text is finite: if the end of the
input can be reached again and again, it is (`SF` of the end of the stream).
Nothing is assumed of the caller's other operations. Under this, `StreamEnds`
says that every opened input leads to an end of stream or an error, and
`Finishes` that every path expression is accepted or refused.

Every property has a mutant: a variant of one mapped definition, in the module
next to it and marked as such, under which TLC finds the property violated.

## Proofs

The theorems hold for every value of the constants: any supply of tokens or
characters, any depth, width and number of inputs, documents and stray events.
They rest on the assumptions the modules state for their constants and on
nothing else.

| Theorem | States | Module |
|---|---|---|
| `TypeCorrect`, `StackSafe` | `[]TypeOK`, `[]StackDiscipline` of the event parser: every state popped is one it handles, and no pop finds the stack empty | `FyParserProofs` |
| `ParserWellNested` | `WellNested`: the event parser implements `EventStream` | `FyParserProofs` |
| `ScanTypeCorrect` | `[]TypeOK` of the scanner, also in what a failed fetch leaves behind: the flow level is never negative, and neither the indent stack nor the flow stack is emptied | `FyScanProofs` |
| `ScanKeysAnchored`, `ScanIndentsIncrease` | `[]KeysAnchored`, `[]IndentsIncrease` of the scanner | `FyScanProofs` |
| `ScanBalanced` | `[]Balanced`: until an error, the scanner's tokens nest as its indent and flow stacks say | `FyScanNest` |
| `StreamStacksAgree` | `[]StacksAgree`: in a stream without an error, what the parser has open, carried on by the queued tokens, is what the scanner has open | `FyStreamProofs` |
| `StreamFlowDepth` | `[]FlowDepth`: until an error, `flow_level` is the depth of the flow stack, over any number of documents and inputs | `FyStreamProofs` |
| `StreamAheadWithinDocument`, `StreamEndIsDelivered` | `[]AheadWithinDocument`, `StreamEndDelivered`: the scanner fetches only within a document, and nobody swallows the end of the stream | `FyStreamProofs` |
| `EmitterWritesWellNested`, `EmitterIndentsNest` | `WritesWellNested`: what the emitter acts on implements `EventStream`, whatever the caller submits; `[]IndentsNest` | `FyEmitterProofs` |
| `EmitterAccepts`, `EmitterLookahead`, `EmitterDocumentsSeparated` | `[]Accepts`, `[]Lookahead`, `[]DocumentsSeparated` of the emitter | `FyEmitterQueue` |
| `ReadWritten`, `WrittenRead` | decoding and encoding of UTF-8 are inverse to each other | `FyUtf8Proofs` |

### The event parser

`IInv == Typed /\ StackDiscipline`, where `Typed` is `TypeOK` without the bound
on the queue, which is a matter of the environment and shown separately (`Short`):
so that the invariant can be used for `FyStream`, where the scanner queues more.
Neither part is inductive alone: popping
preserves the type of `state` only because the stack is not empty, and the shape
of the stack is preserved only because `state` is one of the states the actions
handle and because a call that waits inside a case is still in that case's state
(`CallDiscipline`). `Typed` is split into the control state, the document state
and the part shared with the scanner (`TypeParts`), since most actions touch
only one of them. Above that there is one lemma for each shape a step can have
(pop and return, set a state, wait for another token, enter a node, fail),
resting on `PopDiscipline` and `PushDiscipline`; then one step per action cites
the lemma of its shape.

`ParserWellNested` adds `PointOK`: where a call waits tells the state whose case
it runs, more exactly than `CallDiscipline`. What is open in the stream is read
off the stack of states, where each contributes one word (two for the single
pair of a flow sequence), and off the current state. `Base` is what the stack
contributes, and `BasePush` says that pushing a state adds its words: the one
place where the concatenation over the whole stack is opened up. A step then
has one of a few shapes: it enters the node that is due, leaves it out, ends the
collection, begins one, or only waits. For each shape a lemma (`EnterShows`,
`SkipShows`, `EndShows`, `BeginShows`, `LeafShows`, `StayShows`, `FailShows`)
shows that the nesting before and after are related as the event says, whatever
lies below; the actions are cases of these.

The last part of `FyParserProofs` is about `TokenNesting` instead of
`EventStream`: `Opened` is what the states have open, counted in the collections
that tokens open and close, and `Takes` says that a step removes no token, or one
that does to `Opened` what it does to a nesting of tokens, or dies. This needs
`EndOK`, that `STREAM_END` comes only when nothing is open or inside a bracket.
`ParseTakes` has it for all handlers, and `Refuses` that a document which begins
while a bracket is open is refused.

### The scanner

`IInv` says of each list what the others need. `KeysAnchored` is not inductive:
a key at the end of the text would point at a token that is handed out, so the
invariant adds that no key is left once the end of the text was reached, and
that `STREAM_END` is queued only then and only at the end. `IndentsIncrease`
needs the bottom level, -2, which nothing unrolls, and `TypeOK` needs that, until
an error, there is one entry in the flow stack for every flow level
(`BracketsOK`), so that leaving a flow collection never pops the last one. A
mismatched bracket ends this: the level is counted down before the bracket is
compared. The parts that hold in the states errors leave behind too, the keys and
the indents among them, are proved for the failing fetches as for the others. The first half of `FyScanProofs` has what
the scanner does to its lists without a text around: a token put in front of
others moves the keys behind it and no other (`KeysOK`), unrolling keeps the
order of the indents, and purging drops keys from the head only. The second half
has a lemma for each handler, and one for each way a handler fails.

`ScanBalanced` is not inductive either, because of `fy_fetch_value()`: when it
meets the `:` of a simple key it opens a block mapping in front of the token the
key points at, in the middle of the queue, while the level it pushes lies above
all block levels that are open now. That the two agree depends on what has been
queued since the key was saved. So `NestInv` says of every key that may still
open a mapping (`Fresh`: saved outside brackets, on the line of the scanner) that
the queue splits at its token (`Splits`): what lies in front leaves exactly the
block levels open, and what lies behind opens exactly the brackets, whatever was
open before it. A block level that opened or closed behind such a key would break
this; it does not, because a handler that opens one has removed the key, and one
is closed only on another line, where the key is `old`, or at a column in front
of the key, which on the same line the text cannot go back to (`KeyNests` has
the columns for it). A lexeme that spans lines leaves no such key (`Spans`).
`NestInv` holds until an error, and `Unrolled` says that at the end of the text
no block is open unless a bracket is. In `FyScan` what was taken is the variable
`out`, cleared at the ends of a stream; nothing is queued once `STREAM_END` has
been taken (`Drained`), so a new input starts with nothing open.

The last part of `FyScanProofs` has what `NestedBy` makes of lists: that it
composes over concatenation, that tokens in between which open nothing do nothing
(`Neutral`), that `n` ends close the `n` innermost block levels (`EndsNest`), and
what tokens put into the middle of a list do (`PutNests`, `PutOpens`).
`FyScanNest` begins with what the scanner's operations do to what the lists say
is open, and then has a lemma for each handler.

### Scanner and parser

`FyStreamProofs` uses both sides as they are. `SN` is `FyScanNest` with `out`
replaced by `ParserOpen`, what the states of the parser have open, and `PP` is
`FyParserProofs` over the scanner's queue. The invariant is
`SInv == SN!IInv /\ PP!IInv /\ PP!PointOK /\ Phase(Agrees)`, with
`Agrees == SN!NestInv /\ SN!Unrolled`. A stream has two phases. `Inside` one, the
two agree, `STREAM_START` has been produced, and `STREAM_END` is alone in the
queue once it has. `Outside`, the queue is empty or holds only `STREAM_START`, no
bracket is open and no key waits. That is why clearing only one of the flow level
and the flow stack at the start of a stream does no harm.

The one place inside a stream where the two disagree is a document that begins
while a bracket of the one before is open: `fy_reset_document_state()` clears the
scanner's brackets. Such a document is `Doomed`: the scanner has nothing to wait
for and does not run before the parser has seen the token that it refuses.

The first part has, for each kind of step, how the phase before leads to the one
after, given what the two sides do in it (`Moves`, `Takes`, `Begins`, `Stops`,
`Leaves`, `Refuses`). The bridges are next: what `FyScanNest` proves of each fetch
is applied with `ParserOpen` unchanged, and what `FyParserProofs` proves of a
token taken becomes a step of `out`. The theorems are then read off `SInv`.

### The emitter

`Struct` relates the two stacks: every open collection has pushed one context
and one state, below them lies the `DOCUMENT_END` of the root, and below that
whatever refused roots have left, which are never removed. From this alone it
follows that what is acted on nests (`EmitterWritesWellNested`), also when
events were refused. `Indented` adds to it which context was saved for which
collection, and gives `EmitterIndentsNest`.

The queue needs more. `Queued` is a chain of nestings from what the emitter has
acted on, through every queued event, to what the caller has open; when no stray
event was submitted, each queued event takes one to the next. A state that
refuses the head of the queue would contradict the first link of the chain,
which is `EmitterAccepts`. `Drained` says that a call returns only when the
events left wait for more of them, and bounds the look-ahead
(`EmitterLookahead`). `Ordered` says where markers can be in the queue and
`Separated` what was written last in each state, whoever wrote it: events, or
`fy_emit_document()`. `EmitterDocumentsSeparated` has the hypothesis `Marking`,
that the configuration leaves markers to write: with `START_MARK_OFF`, or with
`START_MARK_AUTO` and `END_MARK_OFF`, streamed documents do run together.

`NestLists` has what both refinements need: `Follows`, the step of `EventStream`
as a relation between two nestings; induction, which the prover does not offer
for formulas but which follows for sets of numbers from the least-number
principle (`LeastNatural`, `SetInduction`); and with it the facts about
`FlattenSeq`.

### UTF-8

`ReadWritten`: what was written for a character, whatever follows it, is read as
that character. `WrittenRead`: octets that are read as a character are the ones
that would be written for it, so overlong forms, surrogates and numbers past
10FFFF are refused. There is a case for each width, and the arithmetic is done
on numbers below 64 with the multiplications by powers of 64 taken apart.

### Only model-checked

- Liveness (`StreamEnds`, `Finishes`): outside the prover's reach.
- `JsonNoEmptyNodes`: the invariant it needs counts the flow collections on the
  stack of states.
- `FyDocument`, `FyNodes`, `FyResolve`, `FyPath`, `FyLoad`, `FyPathExpr`,
  `FyWalk`, `FyReader` and the modules of scalars are written with recursive
  operators (subtrees, copies, expressions, iteration over a text), of which
  nothing can be proved for every input.

## Disagreements

Three runs end in a violation; each was reproduced with the library.

- `parser_indentless` (`lib/fy-parse.c:5040`): an empty entry of an indentless
  sequence is an error, because the test of the entry is overridden.
- `stream_reset` (`lib/fy-parse.c:5780`): `fy_parser_reset()` in the middle of a
  stream leaves tokens and keys behind, so the next stream is refused.
- `document_insert` (`lib/fy-doc.c:2215`): the copy by which `fy_node_insert()`
  replaces an item or a value has no parent and is not marked as attached, so a
  second insert at the same path fails the assertion at `lib/fy-doc.c:2160`.

The models follow the code in what comes next, too. The properties are stated
around these differences, where they are met, by named conditions.

Layout and streams:

- The value of a key that is a collection is laid out at the indent of the
  context around the mapping (`lib/fy-emit.c:2831`), and a collection whose first
  item is a collection is taken for empty and written with brackets, also in
  block mode (`lib/fy-emit.c:2384`).
- The marks of a document are those of its document state, and an event made by
  the caller always has an explicit end (`lib/fy-event.c:264`); the parser sets
  the end only when it returns DOCUMENT_END (`lib/fy-parse.c:4936-4947`).
- `fy_emit_document()` that fails early leaves the document it was given as the
  current one (`lib/fy-emit.c:2026`); an emitter refuses a second stream
  (`lib/fy-emit.c:2944`).
- After a read that grew the buffer the window of the reader may point into the
  old memory (`lib/fy-input.c:871-894`, `strayed`).

Documents (`Regular`, `NoKeyAlias`, `MergesOnce` in `FyLoad`):

- An alias in front of its anchor is copied before it is resolved, and stays. A
  key with an alias in it keeps the hash of the alias in an accelerated mapping.
  An anchor inside a merge key goes when the key does. Merge keys of merged
  mappings are not followed by paths.
- Keys with a slash or quotes have paths that lead elsewhere, and a JSON pointer
  stops after the index of a sequence.
- A key that fails to load stops the program (`lib/fy-doc.c:1632`), and
  `fy_document_load_node()` forgets the node it built when the text goes on
  behind it.
- The search for loops ends at depth 16. It marks the nodes of a walk with
  `FYNWF_REF_MARKER`, a number passed where a set of bits is meant, and so
  uses three of the caller's marks; aliases here are names, and callers have no
  marks, so the model does not tell. A resolution that fails may leave
  parents that were freed.
- A number of two digits in a path expression is put together with a bitwise or
  (`lib/fy-walk.c:392`): 12 is read as 10. `ParsesRight` asks for the meaning of
  an expression only if all its numbers are `Additive`, those for which the or is
  a sum.
- A path parser that has parsed an expression refuses the next one, since it is
  not completely reset (`lib/fy-walk.c:285-322`), although
  `include/libfyaml.h:4814` says of `fy_path_parser_reset()` "Completely reset a
  path parser, including after an error". `ParsesRight` allows a second parse to
  be refused, and asks that it is right when it is not.

Texts of scalars (`Misread`, `WrongHint`, `Readable` in `FyScalars`):

- Read: `''''''` is the text `'''`; a CRLF before a closing quote is a line feed
  and not a blank; an escaped backslash in front of an escaped line break, and
  an escaped break in front of empty lines or behind a blank, fold wrongly; in
  folded scalars a break between a text and a more indented line is lost after an
  empty line; block scalars of only blanks lose them.
- Noted: the storage hint is wrong for quotes side by side in single quotes (2
  for the three of `''''''`), for a break behind three backslashes and for an
  escaped break before empty lines in double quotes, for empty lines before an
  indented line of a folded scalar, and for blocks of blanks; a single-quoted scalar of only quotes and blanks is
  flagged as empty; block scalars at column 0 of a bare document are refused. A block
  scalar whose header ends the text with its two indicators runs into an
  assertion of the reader, so `BlockHeader` gives no scalar there.
- Written: outer blanks of created scalars are lost, as are two adjacent blanks
  at the width of a line in quoted styles and what follows a break in the
  one-line modes; folded style loses breaks next to indented lines; plain style
  is chosen for some texts that do not read back (a double colon before a blank,
  text made block by a tab). Double-quoted output always reads back, and so do
  scanned literals.

## Limits

- The inside of tags and comments; `Refuse` and `LexicalError` stand for their
  refusals.
- `parse_flow_only`, `bare_document_only`, tabs outside scalars, and the scanner's
  lookup of tag handles (only that it happens in the right document,
  `AheadWithinDocument`).
- Allocation failures, the free lists of recycled objects, and reference counts,
  but for those of inputs (`FyReader`).
- In the scanner of scalars: JSON input, surrogate pairs, breaks of YAML 1.1.
- In the emitter: tags, comments, and `"? "` before a complex key.
- In documents: `fy_node_pair_set_key()` and `fy_node_pair_set_value()`, removal
  of an anchor, sorting, metadata, aliases with paths, and calls that involve
  two documents. `FyDocument` has no accelerators and no collections as keys;
  `FyLoad` has both.
- The buckets of accelerators: they decide where an entry is looked for, not
  which is found.
- The parts marked `not_modelled` in `PROJECT.json`.

## Plan

1. `JsonNoEmptyNodes` for every depth.
2. The tree invariants of `FyDocument`, with its recursive operators replaced by
   sets and relations.
3. The document state, the buckets of the accelerator, the reference counts of
   tokens, and the setters of pairs.
