------------------------------- MODULE FyNodes -------------------------------
(***************************************************************************)
(* The nodes of a document as the loader of fy-doc.c builds them, with its *)
(* anchors and its accelerators: what is looked up, compared, copied and   *)
(* freed.  A heap is a sequence of nodes in the order of their creation; a *)
(* node that has been freed stays in it as "freed".                        *)
(*                                                                         *)
(* An accelerator keeps with every key the hash it had when it was         *)
(* inserted.  The hash is modelled as the key's value, so that two keys    *)
(* have one hash exactly when they are equal: fy_accel_hash_eq() and the   *)
(* eq() of the table are both tested, and collisions change nothing.       *)
(***************************************************************************)
EXTENDS Naturals, Sequences, FiniteSets, SequencesExt

NoNode == 0

\* struct fy_node: `at` is the position of its token; a mapping that was
\* allocated as one in an accelerated document has an accelerator, `xl`
Node(kind, text, at, accel) ==
  [kind |-> kind, text |-> text, at |-> at, items |-> << >>, pairs |-> << >>,
   accel |-> accel /\ kind = "map", xl |-> << >>, parent |-> NoNode, attached |-> FALSE]

FreedNode == Node("freed", "", 0, FALSE)

Live(h) == {n \in DOMAIN h : h[n].kind # "freed"}

IsAlias(h, n) == n # NoNode /\ h[n].kind = "alias"

\* the items of a sequence and the values of a mapping; its keys as well
Held(h, n) == ToSet(h[n].items) \cup {p.value : p \in ToSet(h[n].pairs)}
Children(h, n) == Held(h, n) \cup {p.key : p \in ToSet(h[n].pairs)}

\* the nodes in S and all below them
RECURSIVE Below(_, _)
Below(h, S) ==
  LET T == S \cup UNION {Children(h, n) : n \in S}
  IN  IF T = S THEN S ELSE Below(h, T)

Subtree(h, n) == Below(h, {n} \ {NoNode})

-----------------------------------------------------------------------------
(* Values: what fy_node_hash_internal() digests and fy_node_compare()      *)
(* compares.  The pairs of a mapping are sorted first, so that their order *)
(* does not count.                                                         *)

RECURSIVE Value(_, _)
Value(h, n) ==
  CASE h[n].kind = "scalar" -> <<"s", h[n].text>>
    [] h[n].kind = "alias"  -> <<"A", h[n].text>>
    [] h[n].kind = "seq"    -> <<"S", [i \in DOMAIN h[n].items |-> Value(h, h[n].items[i])]>>
    [] h[n].kind = "map"    ->
         <<"M", Len(h[n].pairs),
           {<<Value(h, p.key), Value(h, p.value)>> : p \in ToSet(h[n].pairs)}>>

\* fy_node_compare()
SameNode(h, m, n) == Value(h, m) = Value(h, n)

\* without an accelerator: the place of the first pair with that key, or 0
ScanPair(h, map, k) ==
  SelectInSeq(h[map].pairs, LAMBDA p : SameNode(h, p.key, k))

\* fy_accel_entry_lookup(): the place of the first entry that was inserted with
\* the hash of k, and whose key is equal to k now
EntryOf(h, map, k) ==
  SelectInSeq(h[map].xl, LAMBDA e : e.hash = Value(h, k) /\ SameNode(h, e.key, k))

\* with an accelerator: the pair the entry stands for
AccelPair(h, map, k) ==
  LET i == EntryOf(h, map, k)
  IN  IF i = 0 THEN 0
      ELSE SelectInSeq(h[map].pairs, LAMBDA p : p.key = h[map].xl[i].key)

\* fy_node_mapping_lookup_pair()
LookupPair(h, map, k) ==
  IF h[map].accel THEN AccelPair(h, map, k) ELSE ScanPair(h, map, k)

\* fy_accel_insert(): refused when there is an entry
AccelInsert(h, map, k) ==
  IF ~h[map].accel \/ EntryOf(h, map, k) # 0 THEN h
  ELSE [h EXCEPT ![map].xl = Append(@, [hash |-> Value(h, k), key |-> k])]

\* fy_accel_remove()
AccelRemove(h, map, k) ==
  LET i == IF h[map].accel THEN EntryOf(h, map, k) ELSE 0
  IN  IF i = 0 THEN h ELSE [h EXCEPT ![map].xl = RemoveAt(@, i)]

-----------------------------------------------------------------------------
(* Anchors: struct fy_anchor, in the order of registration.  `multiple` is *)
(* set on two anchors that share a name.                                   *)

AnchorNamed(as, name) == SelectInSeq(as, LAMBDA a : a.name = name)

\* fy_document_register_anchor(); the flag is kept in accelerated documents only
Registered(as, n, name, at, accel) ==
  LET i == AnchorNamed(as, name)
      twice == accel /\ i # 0
      a == [name |-> name, node |-> n, at |-> at, multiple |-> twice]
  IN  Append(IF twice THEN [as EXCEPT ![i].multiple = TRUE] ELSE as, a)

\* the anchors of that name, oldest first
Namesakes(as, name) == SelectSeq(as, LAMBDA a : a.name = name)

\* fy_document_lookup_anchor_by_token(): of several the last one in front of
\* the token that asks, and the last of all when there is none
AnchorByToken(as, name, at, accel) ==
  LET all == Namesakes(as, name)
      before == SelectSeq(all, LAMBDA a : a.at < at)
  IN  IF all = << >> THEN NoNode
      ELSE IF (accel /\ ~all[1].multiple) \/ Len(all) = 1 THEN all[1].node
      ELSE IF before # << >> THEN Last(before).node
      ELSE Last(all).node

\* fy_document_lookup_anchor(): the most recent one
AnchorByName(as, name, accel) ==
  LET all == Namesakes(as, name)
  IN  IF all = << >> THEN NoNode
      ELSE IF accel /\ ~all[1].multiple THEN all[1].node
      ELSE Last(all).node

-----------------------------------------------------------------------------
(* Freeing and copying.                                                    *)

\* fy_node_detach_and_free(): the node goes with all that is below it, and
\* takes the anchors on what is freed with it
Freed(h, n) ==
  LET S == Subtree(h, n)
  IN  [m \in DOMAIN h |-> IF m \in S THEN FreedNode ELSE h[m]]

AnchorsOf(as, h) == SelectSeq(as, LAMBDA a : a.node \in Live(h))

\* a new pair at place i of a mapping
WithPair(h, map, i, k, v) ==
  AccelInsert([h EXCEPT ![map].pairs = InsertAt(@, i, [key |-> k, value |-> v])], map, k)

LastAttached(h, map) ==
  LET p == Last(h[map].pairs)
  IN  [h EXCEPT ![p.key].attached = TRUE, ![p.value].attached = TRUE]

\* fy_node_copy(): copies n behind the end of the heap, each node in front of
\* what is below it; all below the copy is attached.  In the document of the
\* original the copy of an anchored node gets no anchor.
RECURSIVE Copied(_, _, _, _)
RECURSIVE CopiedPair(_, _, _, _, _, _)
Copied(h, n, parent, accel) ==
  LET c == Len(h) + 1
      Item(g, m) ==
        [Copied(g, m, c, accel) EXCEPT ![Len(g) + 1].attached = TRUE,
                                       ![c].items = Append(@, Len(g) + 1)]
      Pair(g, p) == LastAttached(CopiedPair(g, p, c, c, Len(g[c].pairs) + 1, accel), c)
      bare == [Node(h[n].kind, h[n].text, h[n].at, accel) EXCEPT !.parent = parent]
  IN  FoldLeft(Pair, FoldLeft(Item, Append(h, bare), h[n].items), h[n].pairs)

\* a copy of the pair q, as the pair at place i of a mapping
CopiedPair(h, q, parent, map, i, accel) ==
  LET Value_(g) == WithPair(Copied(g, q.value, parent, accel), map, i, Len(h) + 1, Len(g) + 1)
  IN  Value_(Copied(h, q.key, NoNode, accel))
=============================================================================
