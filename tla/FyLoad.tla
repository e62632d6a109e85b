------------------------------- MODULE FyLoad -------------------------------
(***************************************************************************)
(* The document builder of fy-doc.c: fy_parse_load_document() makes a      *)
(* document of the events between DOCUMENT_START and DOCUMENT_END, and     *)
(* fy_node_build_internal() makes a free-standing node of them in a        *)
(* document there is.  The events nest (EventStream), and the parser may   *)
(* fail at any of them.  The recursion of fy_parse_document_load_node() is *)
(* the stack `frames`: one frame for every collection that is being built. *)
(*                                                                         *)
(* A loaded document is resolved (FyResolve) when it is configured so, or  *)
(* when the caller asks.                                                   *)
(***************************************************************************)
EXTENDS FyPath

CONSTANTS Fragments,      \* sequences of events: the nodes documents are made of
          Names,          \* the names of anchors
          RootNames,      \* those that may be on a document that is a sequence
          MaxItems,       \* bound on the items of a document that is a sequence
          MaxBuilt,       \* and of a node that is built into a document
          DepthLimit      \* fy_depth_limit()

ASSUME LoadAssumption ==
  RootNames \subseteq Names /\ MaxItems \in Nat /\ MaxBuilt \in Nat /\ DepthLimit \in Nat \ {0} /\ WalkDepth \in Nat \ {0}

VARIABLES heap,       \* the nodes
          root,       \* fyd->root, or the node that was built
          anchors,    \* fyd->anchors
          frames,     \* the collections being built, outermost first
          accel,      \* fy_document_is_accelerated()
          into,       \* building a node in a document that has a root of its own
          status,     \* where the call is
          pending,    \* the events of the current fragment that are still to come
          source      \* the document as it was before it was resolved

vars == <<heap, root, anchors, frames, accel, into, status, pending, source>>

\* a frame: the collection, and the key a mapping is waiting for the value of
Frame(n) == [node |-> n, key |-> NoNode]
Awaits(f) == heap[f.node].kind = "map" /\ f.key = NoNode

NoSource == [heap |-> << >>, anchors |-> << >>]

\* a document that nodes are built into: its root has an anchor
Existing == <<[Node("scalar", "x", 0, FALSE) EXCEPT !.attached = TRUE]>>

Init ==
  /\ accel \in BOOLEAN /\ into \in BOOLEAN
  /\ heap = IF into THEN Existing ELSE << >>
  /\ anchors = IF into /\ Names # {}
               THEN Registered(<< >>, 1, CHOOSE x \in Names : TRUE, 0, accel) ELSE << >>
  /\ root = NoNode
  /\ frames = << >>
  /\ status = "loading"
  /\ pending = << >>
  /\ source = NoSource

-----------------------------------------------------------------------------
(* A node is complete: it becomes the root, an item, a key or a value.     *)

Top == Last(frames)
Keyed == frames # << >> /\ Awaits(Top)

\* a mapping with a key that is already there
Duplicate(h, n) == Keyed /\ LookupPair(h, Top.node, n) # 0

\* an error: the frames in fs are still to take back what they built
Fails(h, as, fs) ==
  /\ heap' = h /\ anchors' = as /\ frames' = fs
  /\ status' = "failing" /\ UNCHANGED <<root, source>>

\* fy_parse_document_load_mapping() asserts that it was given a key before it
\* looks at the result: a key that failed to load stops the program
CallFailed(fs) == IF fs # << >> /\ Awaits(Last(fs)) THEN "aborted" ELSE "failing"

\* n goes where it belongs
Place(h, n, fs) ==
  LET f == Last(fs)
      up == Front(fs)
  IN  IF fs = << >>
      THEN heap' = h /\ root' = n /\ frames' = fs
      ELSE IF h[f.node].kind = "seq"
      THEN /\ heap' = [h EXCEPT ![f.node].items = Append(@, n), ![n].attached = TRUE]
           /\ frames' = fs /\ UNCHANGED root
      ELSE IF f.key = NoNode
      THEN heap' = h /\ frames' = Append(up, [f EXCEPT !.key = n]) /\ UNCHANGED root
      ELSE LET g == [h EXCEPT ![f.node].pairs = Append(@, [key |-> f.key, value |-> n]),
                              ![f.key].attached = TRUE, ![n].attached = TRUE]
           IN  /\ heap' = AccelInsert(g, f.node, f.key)
               /\ frames' = Append(up, Frame(f.node)) /\ UNCHANGED root

Constant == UNCHANGED <<accel, into>>

\* what the parser may deliver: an event and the rest of its fragment.  A
\* document is one fragment, or a sequence of some
Event(kind, text, anchor) == [kind |-> kind, text |-> text, anchor |-> anchor]
End == Event("end", "", "")

Delivered ==
  IF pending # << >> THEN {pending}
  ELSE IF frames = << >>
  THEN Fragments \cup {<<Event("seq", "", name)>> : name \in RootNames \cup {""}}
  ELSE {<<End>>} \cup
       (IF Len(heap[frames[1].node].items) < IF into THEN MaxBuilt ELSE MaxItems
        THEN Fragments ELSE {})

Open == status = "loading" /\ (frames # << >> \/ root = NoNode)
Room == Len(frames) < DepthLimit
At == Len(heap) + 1

\* the next event is one of these kinds
Gets(kinds, evs) == Head(evs).kind \in kinds /\ pending' = Tail(evs)

\* the anchors with that of an event
Anchored(e) ==
  IF e.anchor = "" THEN anchors ELSE Registered(anchors, At, e.anchor, At, accel)

\* fy_parse_document_load_node(), of a scalar, alias or start of a collection
Loaded(h, as, n) ==
  IF Duplicate(h, n) THEN Fails(h, as, Append(Front(frames), [Top EXCEPT !.key = n]))
  ELSE /\ Place(h, n, frames) /\ anchors' = as
       /\ UNCHANGED <<status, source>>

\* fy_parse_document_load_scalar()
LoadScalar(evs) ==
  LET e == Head(evs)
  IN  /\ Room /\ Gets({"scalar", "alias"}, evs)
      /\ Loaded(Append(heap, Node(e.kind, e.text, At, accel)), Anchored(e), At)
      /\ Constant

\* fy_parse_document_load_sequence(), _mapping(), up to the loop over its items
LoadCollection(evs) ==
  LET e == Head(evs)
  IN  /\ Room /\ Gets({"seq", "map"}, evs)
      /\ heap' = Append(heap, Node(e.kind, "", At, accel))
      /\ anchors' = Anchored(e)
      /\ frames' = Append(frames, Frame(At))
      /\ UNCHANGED <<root, status, source>> /\ Constant

\* SEQUENCE_END or MAPPING_END: the collection is a node of the one around it
LoadEnd(evs) ==
  LET up == Front(frames)
      n == Top.node
  IN  /\ Gets({"end"}, evs)
      /\ IF up # << >> /\ Awaits(Last(up)) /\ LookupPair(heap, Last(up).node, n) # 0
         THEN Fails(heap, anchors, Append(Front(up), [Last(up) EXCEPT !.key = n]))
         ELSE /\ Place(heap, n, up)
              /\ UNCHANGED <<anchors, status, source>>
      /\ Constant

\* "depth limit exceeded": the node is refused where it would start, and the
\* collection it is for sees its load fail
TooDeep(evs) ==
  /\ ~Room /\ Head(evs).kind # "end" /\ pending' = << >>
  /\ status' = CallFailed(frames)
  /\ UNCHANGED <<heap, root, anchors, frames, source>> /\ Constant

\* the parser fails: the collection that asks for the event notices itself
StreamError ==
  /\ Open /\ pending' = << >>
  /\ Fails(heap, anchors, frames) /\ Constant

\* DOCUMENT_END: fy_parse_document_load_end(); the parents are set
LoadDocument ==
  /\ status = "loading" /\ frames = << >> /\ root # NoNode
  /\ heap' = ResolveParents(heap, root, NoNode)
  /\ status' = "loaded"
  /\ UNCHANGED <<root, anchors, frames, pending, source>> /\ Constant

\* an error where DOCUMENT_END should be: the document is destroyed, but
\* fy_document_load_node() forgets the node it built, with its anchors
NoDocumentEnd ==
  /\ status = "loading" /\ frames = << >> /\ root # NoNode
  /\ IF into THEN /\ root' = NoNode /\ status' = "forgotten"
                  /\ UNCHANGED <<heap, anchors, frames, source>>
     ELSE Fails(heap, anchors, << >>)
  /\ UNCHANGED pending /\ Constant

\* fy_node_build_internal(): the tag directives of the node's text cannot be
\* merged into those of the document
TagConflict ==
  /\ status = "loaded" /\ into
  /\ Fails(heap, anchors, << >>) /\ UNCHANGED pending /\ Constant

Unwind_KeepsKey ==   \* mutant: the key without a value is not freed
  /\ status = "failing" /\ frames # << >>
  /\ heap' = Freed(heap, Top.node)
  /\ anchors' = AnchorsOf(anchors, heap')
  /\ frames' = Front(frames) /\ status' = CallFailed(Front(frames))
  /\ UNCHANGED <<root, pending, source>> /\ Constant

\* err_out_rc of the loaders: one call frees the key it has no value for and the
\* collection, both with what is below them and the anchors there, and fails
Unwind ==
  /\ status = "failing" /\ frames # << >>
  /\ heap' = Freed(Freed(heap, Top.key), Top.node)
  /\ anchors' = AnchorsOf(anchors, heap')
  /\ frames' = Front(frames) /\ status' = CallFailed(Front(frames))
  /\ UNCHANGED <<root, pending, source>> /\ Constant

\* the outermost call: fy_parse_document_destroy() frees the root and every
\* anchor, fy_node_build_internal() the node with the anchors in it
Abandon ==
  /\ status = "failing" /\ frames = << >>
  /\ heap' = Freed(heap, root) /\ root' = NoNode
  /\ anchors' = IF into THEN AnchorsOf(anchors, heap') ELSE << >>
  /\ status' = "failed"
  /\ UNCHANGED <<frames, pending, source>> /\ Constant

\* fy_document_resolve(), by the caller or with FYPCF_RESOLVE_DOCUMENT
Resolve ==
  LET s == Resolved(heap, anchors, root, accel)
  IN  /\ status = "loaded" /\ ~into
      /\ heap' = s.heap /\ anchors' = s.anchors
      /\ status' = IF s.failed THEN "unresolved" ELSE "resolved"
      /\ source' = [heap |-> heap, anchors |-> anchors]
      /\ UNCHANGED <<root, frames, pending>> /\ Constant

LoadNode ==
  Open /\ \E evs \in Delivered :
    LoadScalar(evs) \/ LoadCollection(evs) \/ LoadEnd(evs) \/ TooDeep(evs)

LoadFailure == StreamError \/ NoDocumentEnd \/ TagConflict \/ Unwind \/ Abandon

Done == status \notin {"loading", "failing", "loaded"} /\ UNCHANGED vars

Next == LoadNode \/ LoadFailure \/ LoadDocument \/ Resolve \/ Done

Spec == Init /\ [][Next]_vars

-----------------------------------------------------------------------------
(* Properties.                                                             *)

Nodes == 0 .. Len(heap)

Old == IF into THEN {1} ELSE {}

\* Every node of an unfinished document has one owner that will free it: a
\* collection under construction, the key that waits for its value, or the root,
\* so no err_out_rc frees a node twice.  A call that has failed has freed all it
\* built, and the document a node was built into has the anchors it had, whatever
\* the events were and however deep the error occurred.
NothingLeft ==
  /\ status \in {"loading", "failing"} =>
       LET owners == FlattenSeq([i \in DOMAIN frames |-> <<frames[i].node, frames[i].key>>])
                       \o <<root>>
       IN  \A n \in Live(heap) \ Old :
             Cardinality({i \in DOMAIN owners : n \in Subtree(heap, owners[i])}) = 1
  /\ status = "failed" =>
       /\ Live(heap) = Old
       /\ {a.node : a \in ToSet(anchors)} = IF Names = {} THEN {} ELSE Old

\* What was loaded or resolved is one tree: no node is in two places or lost,
\* the parents of items and values are the collections they are in, and the
\* parent of a key is NULL (fy_resolve_parent_node() after the copies were made).
WholeTree ==
  status \in {"loaded", "resolved"} =>
    /\ Live(heap) = Subtree(heap, root) \cup Old
    /\ \A n \in Live(heap) \ Old :
         Cardinality({m \in Live(heap) : n \in Held(heap, m)})
           + Cardinality({m \in Live(heap) : n \in Children(heap, m) \ Held(heap, m)})
         = IF n = root THEN 0 ELSE 1
    /\ \A m \in Live(heap) : \A n \in Children(heap, m) :
         heap[n].parent = IF n \in Held(heap, m) THEN m ELSE NoNode
    /\ heap[root].parent = NoNode

-----------------------------------------------------------------------------
(* What a document means: {} when it has no meaning, {v} for the value v.  *)

\* the anchor an alias refers to by the rules of YAML: the nearest one before it
Referent(s, n) ==
  LET before == SelectSeq(s.anchors, LAMBDA a : a.name = s.heap[n].text /\ a.at < s.heap[n].at)
  IN  IF before = << >> THEN NoNode ELSE Last(before).node

RECURSIVE Meaning(_, _, _)
Meaning(s, n, within) ==
  LET h == s.heap
      Of(m) == Meaning(s, m, within)
      The(m) == CHOOSE v \in Of(m) : TRUE
      alias == LET t == Referent(s, n)
               IN  IF t = NoNode \/ t \in within THEN {} ELSE Meaning(s, t, within \cup {t})
      seq == IF \E m \in ToSet(h[n].items) : Of(m) = {} THEN {}
             ELSE {<<"S", [i \in DOMAIN h[n].items |-> The(h[n].items[i])]>>}
      merges == {p \in ToSet(h[n].pairs) : IsMergePair(h, p)}
      own == ToSet(h[n].pairs) \ merges
      sources == IF merges = {} THEN << >>
                 ELSE LET v == (CHOOSE p \in merges : TRUE).value
                      IN  IF h[v].kind = "seq" THEN h[v].items ELSE <<v>>
      Keep(ps, m) == ps \cup {q \in The(m)[3] : \A p \in ps : p[1] # q[1]}
      map == LET all == FoldLeft(Keep, {<<The(p.key), The(p.value)>> : p \in own}, sources)
             IN  IF \/ \E p \in own : Of(p.key) = {} \/ Of(p.value) = {}
                    \/ \E p, q \in own : p # q /\ The(p.key) = The(q.key)
                    \/ \E m \in ToSet(sources) :
                         ~IsAlias(h, m) \/ Of(m) = {} \/ The(m)[1] # "M"
                 THEN {} ELSE {<<"M", Cardinality(all), all>>}
  IN  CASE h[n].kind = "scalar" -> {Value(h, n)}
        [] h[n].kind = "alias"  -> alias
        [] h[n].kind = "seq"    -> seq
        [] h[n].kind = "map"    -> map

\* Three kinds of documents are left out of the next properties.  An alias in
\* front of its anchor is copied before it is resolved itself; a key with an
\* alias in it keeps the hash of the alias, and is not yet known to a merge key
\* in front of it; and an anchor in a merge key goes when the key does.
NoForward(s) ==
  \A n \in DOMAIN s.heap : s.heap[n].kind = "alias" /\ AnchorNamed(s.anchors, s.heap[n].text) # 0
                            => Referent(s, n) # NoNode
Pairs(h) == UNION {ToSet(h[n].pairs) : n \in DOMAIN h}
PlainKeys(s) ==
  \A p \in Pairs(s.heap) : \A n \in Subtree(s.heap, p.key) : s.heap[n].kind # "alias"
NoKeyAlias(s) ==
  accel \/ (\E p \in Pairs(s.heap) : IsMergePair(s.heap, p)) => PlainKeys(s)
NoMergeAnchor(s) ==
  \A p \in Pairs(s.heap) : IsMergePair(s.heap, p) =>
    \A a \in ToSet(s.anchors) : a.node \notin Below(s.heap, {p.key, p.value})
Regular(s) == NoForward(s) /\ NoKeyAlias(s) /\ NoMergeAnchor(s)

\* An accelerated mapping finds the pairs that a search from the first to the
\* last would find (FYPCF_DISABLE_ACCELERATORS only "saves memory").
LookupsAgree ==
  status \in {"loading", "loaded", "resolved"} /\ NoKeyAlias(source) =>
    \A m \in Live(heap) : heap[m].accel =>
      \A k \in Live(heap) : AccelPair(heap, m, k) = ScanPair(heap, m, k)

\* Resolution succeeds exactly when the document has a meaning, and the
\* resolved document is that value: an alias stands for the nearest anchor
\* before it, the pairs of a mapping win over those it merges, and the pairs of
\* a mapping that is merged first over those of the next.
ResolveRight ==
  status \in {"resolved", "unresolved"} /\ Regular(source) =>
    Meaning(source, root, {}) = IF status = "resolved" THEN {Value(heap, root)} ELSE {}

\* A resolved document has nothing to resolve: fy_document_resolve() may be
\* called again, and changes nothing.
ResolvedStays ==
  status = "resolved" /\ Regular(source) =>
    LET s == Resolved(heap, anchors, root, accel)
    IN  ~s.failed /\ s.heap = heap /\ s.anchors = anchors

-----------------------------------------------------------------------------
(* Paths.                                                                  *)

\* the nodes that have a path: not those in keys
RECURSIVE Addressed(_, _)
Addressed(h, S) ==
  LET T == S \cup UNION {Held(h, n) : n \in S}
  IN  IF T = S THEN S ELSE Addressed(h, T)

Ready == status \in {"loaded", "resolved"} /\ ~into /\ NoKeyAlias(source)

OneEach(as) == \A i, j \in DOMAIN as : as[i].name = as[j].name => i = j

\* The path of a node leads back to it, and so do its references when no two
\* anchors share a name: from its own anchor, from the nearest one above it, and
\* from that of any other node, below it or not.
PathsLeadBack ==
  Ready => \A n \in Addressed(heap, {root}) :
    LET Leads(ref, mode) == ByPath(heap, anchors, root, ref, FALSE, mode, accel) = n
    IN  /\ Leads(Reference("", GetPath(heap, n)), "none")
        /\ OneEach(anchors) =>
             /\ Leads(GetShortPath(heap, anchors, n), "follow")
             /\ \A base \in Addressed(heap, {root}) \cup {NoNode}, near \in BOOLEAN :
                  Leads(GetReference(heap, anchors, base, n, near), "follow")

\* a merge key names no mapping that has a merge key itself
MergesOnce(s) ==
  LET merging == {n \in DOMAIN s.heap : \E p \in ToSet(s.heap[n].pairs) : IsMergePair(s.heap, p)}
  IN  \A n \in DOMAIN s.heap : s.heap[n].kind = "alias" => Referent(s, n) \notin merging

\* To walk a document with FYNWF_FOLLOW is to walk it resolved: every path of the
\* resolved document leads, in the document as it was loaded, through aliases
\* and merge keys to a node that means the same, which is no alias when the
\* path ends in a slash (aliases in keys are not followed).
FollowAgrees ==
  status = "resolved" /\ Regular(source) /\ PlainKeys(source) /\ MergesOnce(source) =>
    \A n \in Addressed(heap, {root}) : \A slash \in BOOLEAN :
      LET m == ByPath(source.heap, source.anchors, root, Reference("", GetPath(heap, n)),
                      slash, "follow", accel)
      IN  /\ m # NoNode /\ Meaning(source, m, {}) = {Value(heap, n)}
          /\ slash /\ n # root => ~IsAlias(source.heap, m)

=============================================================================
