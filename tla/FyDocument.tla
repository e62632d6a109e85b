----------------------------- MODULE FyDocument -----------------------------
(***************************************************************************)
(* A document tree under edit by the fy_node_* and fy_document_* calls of  *)
(* fy-doc.c.  The heap holds the nodes of one document: the ones below its *)
(* root, and the free-standing ones the caller has created, copied or      *)
(* removed.  An action is a call that succeeds, or that fails after it has *)
(* changed something; a call refused before that changes nothing and is a  *)
(* stuttering step.                                                        *)
(*                                                                         *)
(* The document has no accelerators.  The caller passes nodes that exist,  *)
(* never puts a node below itself, uses scalars or NULL as keys, looks a   *)
(* key up for removal with that key or a free-standing one, and does not   *)
(* hand over or free a node that is linked although it is not marked as    *)
(* attached: fy_node_insert() leaves such nodes behind.                    *)
(***************************************************************************)
EXTENDS Naturals, Sequences, FiniteSets, SequencesExt

CONSTANTS Nodes,      \* the places for nodes: bounds those that exist at a time
          NULL,
          MaxScalars, MaxCollections,   \* bounds on the two kinds of nodes
          MaxNamed,   \* bound on the nodes there are while there are anchors
          MaxHeld,    \* bound on the free-standing trees the caller holds
          Texts,      \* the texts of scalars; "" is the empty scalar
          Names       \* the names of anchors

ASSUME DocumentAssumption ==
  /\ IsFiniteSet(Nodes) /\ NULL \notin Nodes
  /\ MaxScalars \in Nat /\ MaxCollections \in Nat
  /\ MaxNamed \in Nat /\ MaxHeld \in Nat
  /\ Texts \cap {"free", "seq", "map"} = {}

VARIABLES heap,       \* the nodes
          root,       \* fyd->root
          anchors,    \* fyd->anchors: the named nodes
          aborted     \* an assert() has failed

vars == <<heap, root, anchors, aborted>>

\* struct fy_node, where the kind of a scalar is its text; fy_node_alloc()
Fresh(kind) == [kind |-> kind, items |-> << >>, pairs |-> << >>,
                parent |-> NULL, attached |-> FALSE]

Free(h) == {n \in Nodes : h[n].kind = "free"}
Live(h) == Nodes \ Free(h)

-----------------------------------------------------------------------------
(* What is linked to what.                                                 *)

Keys(h, n) == {p.key : p \in ToSet(h[n].pairs)} \ {NULL}
Values(h, n) == {p.value : p \in ToSet(h[n].pairs)} \ {NULL}
Held(h, n) == ToSet(h[n].items) \cup Values(h, n)
Children(h, n) == Held(h, n) \cup Keys(h, n)

\* the node and everything below it
Subtree(h, n) ==
  LET Below[S \in SUBSET Nodes] ==
        LET T == S \cup UNION {Children(h, m) : m \in S}
        IN  IF T = S THEN S ELSE Below[T]
  IN  Below[{n} \ {NULL}]

Linked(h, r) == ({r} \ {NULL}) \cup UNION {Children(h, n) : n \in Nodes}

\* the collection n is an item or a value of
Holder(h, n) ==
  LET c == {m \in Nodes : n \in Held(h, m)}
  IN  IF c = {} THEN NULL ELSE CHOOSE m \in c : TRUE

\* the nodes a path leads to: items and values below the root
InDocument(h, r) ==
  LET S == Subtree(h, r)
  IN  ({r} \cup UNION {Held(h, m) : m \in S}) \ {NULL}

\* what the caller may hand over, or free: anything but a node linked unmarked
Handed(n) == n \in Live(heap) /\ (heap[n].attached \/ n \notin Linked(heap, root))

\* the caller puts n nowhere below itself
Apart(c, n) == c \notin Subtree(heap, n)

-----------------------------------------------------------------------------
(* The steps the calls are made of.                                        *)

\* fy_node_detach_and_free(): the node goes with all that is below it
Freed(h, n) ==
  LET S == Subtree(h, n)
  IN  [m \in Nodes |-> IF m \in S THEN Fresh("free") ELSE h[m]]

\* mutant: the anchors of the children stay in the list
AnchorsOf_Kept(h) == anchors

\* fy_node_free() takes the anchors on what it frees out of the list
AnchorsOf(h) == {a \in anchors : a.node \in Live(h)}

Attach(h, n, parent) ==
  IF n = NULL THEN h ELSE [h EXCEPT ![n].parent = parent, ![n].attached = TRUE]

\* mutant: the parent survives
Detach_KeepsParent(h, n) ==
  IF n = NULL THEN h ELSE [h EXCEPT ![n].attached = FALSE]

\* mutant: the mark survives
Detach_StaysAttached(h, n) ==
  IF n = NULL THEN h ELSE [h EXCEPT ![n].parent = NULL]

Detach(h, n) ==
  IF n = NULL THEN h ELSE [h EXCEPT ![n].parent = NULL, ![n].attached = FALSE]

\* fy_node_copy(): the free places the copies of a subtree go to
CopyPlaces(h, n) ==
  CHOOSE f \in [Subtree(h, n) -> Free(h)] : IsInjective(f)

\* the copy of n
CopyOf(h, n) == IF n = NULL THEN NULL ELSE CopyPlaces(h, n)[n]

\* fy_node_copy(): all below the copy is attached, the copy itself is not, and
\* in the document of the original it gets no anchor
Copied(h, n) ==
  LET f == CopyPlaces(h, n)
      Copy(m) == IF m = NULL THEN NULL ELSE f[m]
      CopyPair(p) == [key |-> Copy(p.key), value |-> Copy(p.value)]
      Node(m) ==
        [kind |-> h[m].kind,
         items |-> [i \in DOMAIN h[m].items |-> Copy(h[m].items[i])],
         pairs |-> [i \in DOMAIN h[m].pairs |-> CopyPair(h[m].pairs[i])],
         parent |-> IF m = n THEN NULL ELSE Copy(Holder(h, m)),
         attached |-> m # n]
  IN  [c \in Nodes |-> IF c \in Range(f) THEN Node(CHOOSE m \in DOMAIN f : f[m] = c)
                                         ELSE h[c]]

\* fy_node_compare() on keys: NULL is an empty scalar
SameKey(h, k, l) ==
  LET Text(n) == IF n = NULL THEN "" ELSE h[n].kind
  IN  Text(k) = Text(l)

\* mutant: the empty scalar is not taken for a missing key
LookupPair_NullApart(h, map, k) ==
  SelectInSeq(h[map].pairs,
              LAMBDA p : SameKey(h, p.key, k) /\ (p.key = NULL <=> k = NULL))

\* fy_node_mapping_lookup_pair(): the place of the first pair with that key, or 0
LookupPair(h, map, k) ==
  SelectInSeq(h[map].pairs, LAMBDA p : SameKey(h, p.key, k))

-----------------------------------------------------------------------------
Init ==
  /\ heap = [n \in Nodes |-> Fresh("free")]
  /\ root = NULL
  /\ anchors = {}
  /\ aborted = FALSE

\* fy_node_create_scalar(), _sequence(), _mapping()
Create(kind) ==
  /\ Free(heap) # {}
  /\ heap' = [heap EXCEPT ![CHOOSE n \in Free(heap) : TRUE] = Fresh(kind)]
  /\ UNCHANGED <<root, anchors, aborted>>

\* fy_node_copy() within the document
NodeCopy(n) ==
  /\ Cardinality(Subtree(heap, n)) <= Cardinality(Free(heap))
  /\ heap' = Copied(heap, n)
  /\ UNCHANGED <<root, anchors, aborted>>

\* fy_node_free(): an attached node is refused
NodeFree(n) ==
  /\ ~heap[n].attached /\ Handed(n)
  /\ heap' = Freed(heap, n)
  /\ anchors' = AnchorsOf(heap')
  /\ UNCHANGED <<root, aborted>>

\* fy_document_set_root()
SetRoot(n) ==
  /\ ~heap[n].attached /\ Handed(n)
  /\ heap' = Attach(Freed(heap, root), n, NULL)
  /\ root' = n
  /\ anchors' = AnchorsOf(heap')
  /\ UNCHANGED aborted

\* fy_node_set_anchor(): a node has one anchor at most
SetAnchor(n, name) ==
  /\ \A a \in anchors : a.node # n
  /\ anchors' = anchors \cup {[name |-> name, node |-> n]}
  /\ UNCHANGED <<heap, root, aborted>>

\* fy_node_sequence_insert_prepare() and the linking, as the item at place i
InsertItem(seq, n, i) ==
  /\ n # NULL
  /\ ~heap[n].attached /\ Handed(n) /\ Apart(seq, n)
  /\ heap' = Attach([heap EXCEPT ![seq].items = InsertAt(@, i, n)], n, seq)
  /\ UNCHANGED <<root, anchors, aborted>>

SequenceAppend(seq, n) == InsertItem(seq, n, Len(heap[seq].items) + 1)

SequencePrepend(seq, n) == InsertItem(seq, n, 1)

SequenceInsertBefore(seq, mark, n) ==
  \E i \in DOMAIN heap[seq].items : heap[seq].items[i] = mark /\ InsertItem(seq, n, i)

SequenceInsertAfter(seq, mark, n) ==
  \E i \in DOMAIN heap[seq].items : heap[seq].items[i] = mark /\ InsertItem(seq, n, i + 1)

\* fy_node_sequence_remove()
SequenceRemove(seq, n) ==
  /\ n \in ToSet(heap[seq].items)
  /\ heap' = Detach([heap EXCEPT ![seq].items = Remove(@, n)], n)
  /\ UNCHANGED <<root, anchors, aborted>>

\* what the caller passes as a key, or as a value, of map
Offered(map, n) == n # NULL => ~heap[n].attached /\ Handed(n) /\ Apart(map, n)
IsKey(n) == n # NULL => heap[n].kind \in Texts

\* fy_node_mapping_pair_insert_prepare() and the linking, as the pair at place i
InsertPair(map, k, v, i) ==
  /\ IsKey(k) /\ (k = v => k = NULL)
  /\ Offered(map, k) /\ Offered(map, v)
  /\ LookupPair(heap, map, k) = 0
  /\ heap' = Attach(Attach(
               [heap EXCEPT ![map].pairs = InsertAt(@, i, [key |-> k, value |-> v])],
               k, NULL), v, map)
  /\ UNCHANGED <<root, anchors, aborted>>

MappingAppend(map, k, v) == InsertPair(map, k, v, Len(heap[map].pairs) + 1)

MappingPrepend(map, k, v) == InsertPair(map, k, v, 1)

\* fy_node_mapping_remove(): the caller gets the pair's key and value back
MappingRemove(map, i) ==
  /\ heap' = Detach(Detach([heap EXCEPT ![map].pairs = RemoveAt(@, i)],
                           heap[map].pairs[i].key), heap[map].pairs[i].value)
  /\ UNCHANGED <<root, anchors, aborted>>

\* fy_node_mapping_remove_by_key(): the pair's key is freed, and the key the
\* caller looked it up with, which must not be linked anywhere else
MappingRemoveByKey(map, k) ==
  LET i == LookupPair(heap, map, k)
      p == heap[map].pairs[i]
  IN  /\ i # 0
      /\ k \notin {p.key, NULL} => ~heap[k].attached /\ Handed(k)
      /\ heap' = Freed(Freed(Detach([heap EXCEPT ![map].pairs = RemoveAt(@, i)],
                                    p.value), k), p.key)
      /\ anchors' = AnchorsOf(heap')
      /\ UNCHANGED <<root, aborted>>

-----------------------------------------------------------------------------
(* fy_node_insert(): a copy of `from` replaces `to`, or is merged into it  *)
(* when both are collections of one kind.  A merge calls itself for the    *)
(* keys both mappings have, and one that fails keeps what it has done.     *)

Done(h, r) == [heap |-> h, root |-> r, rc |-> "ok"]

\* mutant: the node that is replaced stays in the list
Replaced_KeepsLink(h, r, to, from) ==
  LET g == Freed(Copied(h, from), to)
  IN  Done(g, IF h[to].parent = NULL THEN CopyOf(h, from) ELSE r)

\* the copy that takes the place of `to` is neither marked nor given a parent
Replaced(h, r, to, from) ==
  LET c == CopyOf(h, from)
      g == Freed(Copied(h, from), to)
      p == h[to].parent
  IN  IF p = NULL THEN Done(g, c)
      ELSE Done([g EXCEPT ![p].items = [i \in DOMAIN h[p].items |->
                            IF h[p].items[i] = to THEN c ELSE h[p].items[i]],
                          ![p].pairs = [i \in DOMAIN h[p].pairs |->
                            IF h[p].pairs[i].value = to
                            THEN [h[p].pairs[i] EXCEPT !.value = c]
                            ELSE h[p].pairs[i]]], r)

\* a copy of one item at the end of the sequence
CopyItem(h, to, n) ==
  LET c == CopyOf(h, n)
  IN  [Copied(h, n) EXCEPT ![to].items = Append(@, c), ![c].attached = TRUE]

\* a copy of one pair at the end of the mapping: the value's after the key's
AddPair(h, to, k, v) ==
  [m \in Nodes |->
     IF m = to THEN [h[m] EXCEPT !.pairs = Append(@, [key |-> k, value |-> v])]
     ELSE IF m \in {k, v} THEN [h[m] EXCEPT !.attached = TRUE] ELSE h[m]]
CopyPairTo(h, to, p) ==
  LET CopyValue(g) == AddPair(Copied(g, p.value), to, CopyOf(h, p.key), CopyOf(g, p.value))
  IN  CopyValue(Copied(h, p.key))

\* "adjust parents", of all the items or values
AdjustParents(h, to) ==
  [m \in Nodes |-> IF m \in Held(h, to) THEN [h[m] EXCEPT !.parent = to] ELSE h[m]]

\* fy_node_insert(); without a source it deletes the root
RECURSIVE Inserted(_, _, _, _)
Inserted(h, r, to, from) ==
  LET Failed(rc) == [heap |-> h, root |-> r, rc |-> rc]
      Merge(s, p) ==
        LET i == LookupPair(s.heap, to, p.key)
        IN  IF s.rc # "ok" THEN s
            ELSE IF i = 0 THEN Done(CopyPairTo(s.heap, to, p), s.root)
            ELSE Inserted(s.heap, s.root, s.heap[to].pairs[i].value, p.value)
      Adjusted(s) ==
        IF s.rc = "ok" THEN Done(AdjustParents(s.heap, to), s.root) ELSE s
  IN  CASE to = NULL -> Failed("error")
        [] to # NULL /\ h[to].parent # NULL /\ from = NULL -> Failed("error")
        [] to # NULL /\ h[to].parent = NULL /\ to # r -> Failed("abort")
        [] to # NULL /\ to = r /\ from = NULL -> Done(Freed(h, r), NULL)
        [] OTHER ->
             IF h[from].kind # h[to].kind \/ h[from].kind \in Texts
             THEN Replaced(h, r, to, from)
             ELSE IF h[to].kind = "seq"
             THEN Adjusted(Done(FoldLeft(LAMBDA g, n : CopyItem(g, to, n),
                                         h, h[from].items), r))
             ELSE Adjusted(FoldLeft(Merge, Done(h, r), h[from].pairs))

\* a source that is no part of the target, with room for the copies: a merge
\* copies what is below the source only
InsertFrom(to, from) ==
  from # NULL =>
    /\ to \notin Subtree(heap, from) /\ from \notin Subtree(heap, to)
    /\ LET merge == heap[from].kind = heap[to].kind /\ heap[from].kind \notin Texts
       IN  Cardinality(Subtree(heap, from) \ {n \in {from} : merge})
             <= Cardinality(Free(heap))

Outcome(s) ==
  /\ heap' = s.heap /\ root' = s.root
  /\ anchors' = AnchorsOf(s.heap)
  /\ aborted' = (s.rc = "abort")

NodeInsert(to, from) ==
  InsertFrom(to, from) /\ Outcome(Inserted(heap, root, to, from))

\* fy_document_insert_at(): the source is freed afterwards unless it is
\* attached, even when the path leads nowhere
SourceFreed(s, from) ==
  IF s.rc = "abort" \/ s.heap[from].attached THEN s ELSE [s EXCEPT !.heap = Freed(@, from)]

DocumentInsertAt(to, from) ==
  /\ to # NULL => InsertFrom(to, from)
  /\ Handed(from)
  /\ Outcome(SourceFreed(IF to = NULL THEN Done(heap, root)
                         ELSE Inserted(heap, root, to, from), from))

-----------------------------------------------------------------------------
Of(kind) == {n \in Nodes : heap[n].kind = kind}

Call ==
  \/ \E kind \in Texts \cup {"seq", "map"} : Create(kind)
  \/ \E n \in Live(heap) :
       \/ NodeCopy(n)
       \/ NodeFree(n)
       \/ SetRoot(n)
       \/ \E name \in Names : SetAnchor(n, name)
       \/ \E to \in InDocument(heap, root) \cup {NULL} : DocumentInsertAt(to, n)
  \/ \E to \in InDocument(heap, root), from \in Live(heap) \cup {NULL} : NodeInsert(to, from)
  \/ \E seq \in Of("seq"), n \in Live(heap) \cup {NULL} :
       \/ SequenceAppend(seq, n)
       \/ SequencePrepend(seq, n)
       \/ SequenceRemove(seq, n)
       \/ \E mark \in ToSet(heap[seq].items) : \/ SequenceInsertBefore(seq, mark, n)
                                               \/ SequenceInsertAfter(seq, mark, n)
  \/ \E map \in Of("map") :
       \/ \E i \in DOMAIN heap[map].pairs : MappingRemove(map, i)
       \/ \E k \in Live(heap) \cup {NULL} :
            \/ MappingRemoveByKey(map, k)
            \/ \E v \in Live(heap) \cup {NULL} : \/ MappingAppend(map, k, v)
                                                 \/ MappingPrepend(map, k, v)

\* what the caller keeps at a time
WithinBounds ==
  /\ Cardinality(Live(heap) \ Linked(heap, root)) <= MaxHeld
  /\ Cardinality({n \in Nodes : heap[n].kind \in Texts}) <= MaxScalars
  /\ Cardinality(Of("seq") \cup Of("map")) <= MaxCollections
  /\ anchors # {} => Cardinality(Live(heap)) <= MaxNamed

\* nothing happens after an assert() has failed
Next ==
  /\ ~aborted
  /\ Call
  /\ WithinBounds'

Spec == Init /\ [][Next]_vars

-----------------------------------------------------------------------------
(* Properties                                                              *)

\* The links form trees: a node is linked at one place at most, as an item, a
\* key, a value or the root; what is linked exists; and no node is below
\* itself.  fy_node_free() visits a subtree on the strength of this alone.
Tree ==
  LET LinksOf(n) == heap[n].items \o [i \in DOMAIN heap[n].pairs |-> heap[n].pairs[i].key]
                                  \o [i \in DOMAIN heap[n].pairs |-> heap[n].pairs[i].value]
      Links == <<root>> \o FoldSet(LAMBDA n, l : l \o LinksOf(n), << >>, Nodes)
  IN  /\ ToSet(Links) \ {NULL} \subseteq Live(heap)
      /\ \A i, j \in DOMAIN Links : Links[i] = Links[j] => i = j \/ Links[i] = NULL
      /\ \A n \in Live(heap) : \A m \in Children(heap, n) : n \notin Subtree(heap, m)

\* A node marked as attached is linked somewhere.  A mark that outlived the
\* link would make the node unusable: every call refuses it, even
\* fy_node_free().
AttachedIsLinked ==
  \A n \in Live(heap) : heap[n].attached => n \in Linked(heap, root)

\* A node with a parent is an item or a value of it, whatever was removed,
\* replaced or merged in between: fy_node_mark_synthetic() and the paths follow
\* the parents upwards, and fy_node_insert() looks a value up in its parent.
ParentsRight ==
  \A n \in Live(heap) :
    heap[n].parent # NULL => n \in Held(heap, heap[n].parent)

\* No mapping ever has two pairs with the same key: the check of the append and
\* prepend calls and the merge of fy_node_insert() agree on what the same is,
\* a missing key being an empty scalar to both.
KeysUnique ==
  \A n \in Nodes : \A i, j \in DOMAIN heap[n].pairs :
    SameKey(heap, heap[n].pairs[i].key, heap[n].pairs[j].key) => i = j

\* The anchors name nodes that exist, one anchor each: what a call frees deep
\* below a root, a key or a replaced node leaves no anchor behind.
AnchorsLive ==
  \A a \in anchors : a.node \in Live(heap) /\ \A b \in anchors : a.node = b.node => a = b

\* "verify no funkiness on root": a node of the document that a path leads to
\* has a parent or is the root, so fy_node_insert() can always replace it.
NoFunkinessOnRoot == ~aborted
=============================================================================
