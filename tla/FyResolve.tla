------------------------------ MODULE FyResolve ------------------------------
(***************************************************************************)
(* fy_document_resolve(): every alias is replaced by a copy of the node it *)
(* names, and every merge key by the pairs of the mappings it names.  The  *)
(* references are searched for loops first.  A resolution in progress is a *)
(* record of the heap, the anchors and whether an error was met; after an  *)
(* error the search goes on, except in a mapping with a duplicate key.     *)
(*                                                                         *)
(* Aliases name an anchor; aliases with a path below it are left out.      *)
(***************************************************************************)
EXTENDS FyNodes

CONSTANT WalkDepth      \* FY_NODE_PATH_WALK_DEPTH_DEFAULT

MergeKey == "<<"

\* fy_node_follow_alias(), without a path
FollowAlias(h, as, n, accel) == AnchorByToken(as, h[n].text, h[n].at, accel)

-----------------------------------------------------------------------------
(* fy_check_ref_loop().  A walk has the nodes visited for good, the nodes  *)
(* marked since the outermost alias, and the answer.                       *)

\* fy_node_walk_mark(): out of slots or already marked is a loop.  The context is
\* given the number FYNWF_REF_MARKER, 26, for its bits, so its mark is that of the
\* user's markers 1, 3 and 4; no node here has those, and an alias that is a name
\* is followed without setting them, so that `marked` is this walk's alone
Marked(w, n) ==
  IF Cardinality(w.marked) >= WalkDepth \/ n \in w.marked
  THEN [w EXCEPT !.loop = TRUE]
  ELSE [w EXCEPT !.marked = @ \cup {n}]

RECURSIVE RefLoop(_, _, _, _, _, _)
RefLoop(h, as, accel, n, following, w) ==
  LET m == IF following THEN Marked(w, n) ELSE w
      Descend(v, c) ==
        IF v.loop THEN v ELSE RefLoop(h, as, accel, c, following, v)
      \* the outermost alias starts a set of marks and clears it
      Alias ==
        LET v == RefLoop(h, as, accel, FollowAlias(h, as, n, accel), TRUE,
                         IF following THEN m ELSE Marked(m, n))
        IN  IF following THEN v ELSE [v EXCEPT !.marked = {}]
      Pairs == FlattenSeq([i \in DOMAIN h[n].pairs |->
                             <<h[n].pairs[i].key, h[n].pairs[i].value>>])
      r == CASE h[n].kind = "alias" -> Alias
             [] h[n].kind = "seq"   -> FoldLeft(Descend, m, h[n].items)
             [] h[n].kind = "map"   -> FoldLeft(Descend, m, Pairs)
             [] OTHER               -> m
  IN  IF n = NoNode THEN w
      ELSE IF n \in w.visited \/ w.loop THEN w
      ELSE IF m.loop THEN m
      ELSE [r EXCEPT !.visited = @ \cup {n}]

HasRefLoop(h, as, accel, root) ==
  RefLoop(h, as, accel, root, FALSE, [visited |-> {}, marked |-> {}, loop |-> FALSE]).loop

-----------------------------------------------------------------------------
(* Aliases.                                                                *)

\* fy_node_copy_to_scalar(): the alias takes over what is below a copy, whose
\* own node is freed; the parents below still lead to it
CopiedTo(h, n, from, accel) ==
  LET c == Len(h) + 1
      TakeOver(g) ==
        [g EXCEPT ![n] = [@ EXCEPT !.kind = g[c].kind, !.text = g[c].text,
                                   !.at = g[c].at, !.items = g[c].items,
                                   !.pairs = g[c].pairs],
                  ![c] = FreedNode]
  IN  TakeOver(Copied(h, from, NoNode, accel))

\* fy_resolve_alias()
ResolveAlias(s, n, accel) ==
  LET t == FollowAlias(s.heap, s.anchors, n, accel)
  IN  IF t = NoNode THEN [s EXCEPT !.failed = TRUE]
      ELSE [s EXCEPT !.heap = CopiedTo(@, n, t, accel)]

-----------------------------------------------------------------------------
(* Merge keys.                                                             *)

\* fy_node_pair_is_merge_key()
IsMergePair(h, p) == h[p.key].kind = "scalar" /\ h[p.key].text = MergeKey

\* fy_alias_get_merge_mapping(): the mapping an alias names
MergeMapping(s, n, accel) ==
  LET t == IF IsAlias(s.heap, n) THEN FollowAlias(s.heap, s.anchors, n, accel) ELSE NoNode
  IN  IF t = NoNode THEN NoNode
      ELSE IF s.heap[t].kind = "map" THEN t ELSE NoNode

MergeAliases_LastFirst(h, p) ==   \* mutant: the last mapping wins
  IF h[p.value].kind = "seq" THEN Reverse(h[p.value].items) ELSE <<p.value>>

\* the aliases of a merge key: the value, or its items
MergeAliases(h, p) ==
  IF h[p.value].kind = "seq" THEN h[p.value].items ELSE <<p.value>>

\* fy_node_pair_is_valid_merge_key()
ValidMergePair(s, p, accel) ==
  \A n \in ToSet(MergeAliases(s.heap, p)) : MergeMapping(s, n, accel) # NoNode

Populate_NotIndexed(s, n, p, source, accel) ==   \* mutant: no entry for the new pair
  LET Add(h, q) ==
        IF LookupPair(h, n, q.key) # 0 THEN h
        ELSE LET i == SelectInSeq(h[n].pairs, LAMBDA r : r = p)
             IN  [CopiedPair(h, q, NoNode, n, i + 1, accel) EXCEPT ![n].xl = h[n].xl]
  IN  [s EXCEPT !.heap = FoldLeft(Add, @, s.heap[source].pairs)]

\* fy_resolve_merge_key_populate(): copies of the pairs whose keys the mapping
\* does not have, each right behind the merge key
Populate(s, n, p, source, accel) ==
  LET Add(h, q) ==
        IF LookupPair(h, n, q.key) # 0 THEN h
        ELSE LET i == SelectInSeq(h[n].pairs, LAMBDA r : r = p)
             IN  CopiedPair(h, q, NoNode, n, i + 1, accel)
  IN  [s EXCEPT !.heap = FoldLeft(Add, @, s.heap[source].pairs)]

\* the removal of the pair that has been merged
MergeKeyRemoved(s, n, p) ==
  LET Free(h) == [s EXCEPT !.heap = h, !.anchors = AnchorsOf(@, h)]
      g == AccelRemove([s.heap EXCEPT ![n].pairs = Remove(@, p)], n, p.key)
  IN  Free(Freed(Freed(g, p.key), p.value))

\* fy_resolve_merge_key()
ResolveMergeKey(s, n, p, accel) ==
  LET Merge(t, a) == Populate(t, n, p, MergeMapping(t, a, accel), accel)
  IN  IF ValidMergePair(s, p, accel)
      THEN MergeKeyRemoved(FoldLeft(Merge, s, MergeAliases(s.heap, p)), n, p)
      ELSE [s EXCEPT !.failed = TRUE]

-----------------------------------------------------------------------------
RECURSIVE ResolveNode_LastFirst(_, _, _)
ResolveNode_LastFirst(s, n, accel) ==   \* mutant: the last item first
  LET Item(t, m) == ResolveNode_LastFirst(t, m, accel)
      \* the key of p has been resolved
      Value_(t, p, k) ==
        IF ~k.failed /\ (\E q \in ToSet(k.heap[n].pairs) : q # p /\ SameNode(k.heap, q.key, p.key))
        THEN [k EXCEPT !.failed = TRUE, !.stop = TRUE]
        ELSE ResolveNode_LastFirst([k EXCEPT !.failed = @ \/ t.failed], p.value, accel)
      Pair(t, p) ==
        IF t.stop THEN t
        ELSE IF IsMergePair(t.heap, p) THEN ResolveMergeKey(t, n, p, accel)
        ELSE Value_(t, p, ResolveNode_LastFirst([t EXCEPT !.failed = FALSE], p.key, accel))
  IN  CASE s.heap[n].kind = "alias" -> ResolveAlias(s, n, accel)
        [] s.heap[n].kind = "seq"   -> FoldLeft(Item, s, Reverse(s.heap[n].items))
        [] s.heap[n].kind = "map"   ->
             [FoldLeft(Pair, s, s.heap[n].pairs) EXCEPT !.stop = FALSE]
        [] OTHER                    -> s

\* fy_resolve_anchor_node(): `stop` is set while a mapping is left early
RECURSIVE ResolveNode(_, _, _)
ResolveNode(s, n, accel) ==
  LET Item(t, m) == ResolveNode(t, m, accel)
      \* the key of p has been resolved
      Value_(t, p, k) ==
        IF ~k.failed /\ (\E q \in ToSet(k.heap[n].pairs) : q # p /\ SameNode(k.heap, q.key, p.key))
        THEN [k EXCEPT !.failed = TRUE, !.stop = TRUE]
        ELSE ResolveNode([k EXCEPT !.failed = @ \/ t.failed], p.value, accel)
      Pair(t, p) ==
        IF t.stop THEN t
        ELSE IF IsMergePair(t.heap, p) THEN ResolveMergeKey(t, n, p, accel)
        ELSE Value_(t, p, ResolveNode([t EXCEPT !.failed = FALSE], p.key, accel))
  IN  CASE s.heap[n].kind = "alias" -> ResolveAlias(s, n, accel)
        [] s.heap[n].kind = "seq"   -> FoldLeft(Item, s, s.heap[n].items)
        [] s.heap[n].kind = "map"   ->
             [FoldLeft(Pair, s, s.heap[n].pairs) EXCEPT !.stop = FALSE]
        [] OTHER                    -> s

\* fy_resolve_parent_node(): the parent of a key is NULL
RECURSIVE ResolveParents(_, _, _)
ResolveParents(h, n, parent) ==
  LET Item(g, m) == ResolveParents(g, m, n)
      Pair(g, p) == ResolveParents(ResolveParents(g, p.key, NoNode), p.value, n)
  IN  FoldLeft(Pair, FoldLeft(Item, [h EXCEPT ![n].parent = parent], h[n].items), h[n].pairs)

Reparented(s, root) ==
  IF s.failed THEN s ELSE [s EXCEPT !.heap = ResolveParents(@, root, NoNode)]

Resolved_OldParents(h, as, root, accel) ==   \* mutant: the parents are not set again
  LET s == [heap |-> h, anchors |-> as, failed |-> FALSE, stop |-> FALSE]
  IN  IF HasRefLoop(h, as, accel, root) THEN [s EXCEPT !.failed = TRUE]
      ELSE ResolveNode(s, root, accel)

\* fy_document_resolve(); the parents are set again on success only
Resolved(h, as, root, accel) ==
  LET s == [heap |-> h, anchors |-> as, failed |-> FALSE, stop |-> FALSE]
  IN  IF HasRefLoop(h, as, accel, root) THEN [s EXCEPT !.failed = TRUE]
      ELSE Reparented(ResolveNode(s, root, accel), root)
=============================================================================
