------------------------------- MODULE FyPath -------------------------------
(***************************************************************************)
(* Paths and references of fy-doc.c: the path of a node, and the node at a *)
(* path.  A path is a sequence of components; a component is the value a   *)
(* key has, or the number of an item written as a text.  The keys are      *)
(* plain: a key whose text has a slash or must be quoted has a path that   *)
(* leads somewhere else.  A reference starts at an anchor, or, without     *)
(* one, at the root.                                                       *)
(*                                                                         *)
(* The modes of a walk: "none" follows no alias, "follow" is FYNWF_FOLLOW, *)
(* and "json" is FYNWF_PTR_JSON.                                           *)
(***************************************************************************)
EXTENDS FyResolve, TLC

Text(s) == <<"s", s>>
Reference(anchor, path) == [anchor |-> anchor, path |-> path]

-----------------------------------------------------------------------------
(* From a node to its path.                                                *)

\* fy_document_lookup_anchor_by_node(): the place of the anchor, or 0
AnchorAt(as, n) == SelectInSeq(as, LAMBDA a : a.node = n)

\* fy_node_get_nearest_anchor()
RECURSIVE NearestAnchor(_, _, _)
NearestAnchor(h, as, n) ==
  IF AnchorAt(as, n) # 0 \/ h[n].parent = NoNode THEN AnchorAt(as, n)
  ELSE NearestAnchor(h, as, h[n].parent)

\* fy_node_get_parent_address()
ParentAddress(h, n) ==
  LET p == h[n].parent
      i == SelectInSeq(h[p].items, LAMBDA m : m = n)
      j == SelectInSeq(h[p].pairs, LAMBDA q : q.value = n)
  IN  IF h[p].kind = "seq" THEN Text(ToString(i - 1)) ELSE Value(h, h[p].pairs[j].key)

\* fy_node_get_path()
RECURSIVE GetPath(_, _)
GetPath(h, n) ==
  IF h[n].parent = NoNode THEN << >>
  ELSE Append(GetPath(h, h[n].parent), ParentAddress(h, n))

\* fy_node_get_path_relative_to(): n is below base, at any depth
RECURSIVE IsBelow(_, _, _)
IsBelow(h, base, n) ==
  h[n].parent # NoNode /\ (h[n].parent = base \/ IsBelow(h, base, h[n].parent))

RelativePath_SkipsOne(h, base, n) ==   \* mutant: without its first component
  SubSeq(GetPath(h, n), Len(GetPath(h, base)) + 2, Len(GetPath(h, n)))

RelativePath(h, base, n) == SubSeq(GetPath(h, n), Len(GetPath(h, base)) + 1, Len(GetPath(h, n)))

\* the reference through the anchor at place i, by way of the root if there is
\* none, or if n is not below it
ThroughAnchor(h, as, i, n) ==
  IF i = 0 THEN Reference("", GetPath(h, n))
  ELSE IF as[i].node = n THEN Reference(as[i].name, << >>)
  ELSE IF IsBelow(h, as[i].node, n)
  THEN Reference(as[i].name, RelativePath(h, as[i].node, n))
  ELSE Reference("", GetPath(h, n))

\* fy_node_get_reference_internal()
GetReference(h, as, base, n, near) ==
  LET own == IF base = NoNode THEN AnchorAt(as, n) ELSE AnchorAt(as, base)
  IN  ThroughAnchor(h, as, IF own = 0 /\ near THEN NearestAnchor(h, as, n) ELSE own, n)

\* fy_node_get_short_path()
GetShortPath(h, as, n) == ThroughAnchor(h, as, NearestAnchor(h, as, n), n)

-----------------------------------------------------------------------------
(* From a path to a node.                                                  *)

\* fy_node_follow_aliases(): one step, or all the way; the anchor of an alias
\* is never on an alias
FollowAliases(h, as, n, mode, accel) ==
  IF IsAlias(h, n) /\ mode = "follow" THEN FollowAlias(h, as, n, accel) ELSE n

\* fy_node_sequence_get_by_index(): numbers below zero count from the end
ItemByIndex(h, n, i) ==
  LET size == Len(h[n].items)
  IN  IF i \in -size .. size - 1
      THEN h[n].items[IF i < 0 THEN size + i + 1 ELSE i + 1] ELSE NoNode

\* the item a component is the number of
ItemAt(h, n, component) ==
  LET size == Len(h[n].items)
      at == {i \in -size .. size - 1 : Text(ToString(i)) = component}
  IN  IF at = {} THEN NoNode ELSE ItemByIndex(h, n, CHOOSE i \in at : TRUE)

\* fy_node_mapping_lookup_pair_by_simple_key() for a text, and _by_key() for
\* what a component is when it is read as YAML
ValueAt(h, n, component) ==
  LET e == SelectInSeq(h[n].xl, LAMBDA x : x.hash = component /\ Value(h, x.key) = component)
      i == IF ~h[n].accel
           THEN SelectInSeq(h[n].pairs, LAMBDA p : Value(h, p.key) = component)
           ELSE IF e = 0 THEN 0
           ELSE SelectInSeq(h[n].pairs, LAMBDA p : p.key = h[n].xl[e].key)
  IN  IF i = 0 THEN NoNode ELSE h[n].pairs[i].value

MergedAt_FirstOnly(h, as, n, component, accel) ==   \* mutant: no list of mappings
  LET m == ValueAt(h, n, Text(MergeKey))
      t == IF IsAlias(h, m) THEN FollowAliases(h, as, m, "follow", accel) ELSE NoNode
  IN  IF t = NoNode THEN NoNode
      ELSE IF h[t].kind # "map" THEN NoNode ELSE ValueAt(h, t, component)

\* "last ditch attempt, is there a merge key?": in the mappings it names, but
\* not in those that they merge
MergedAt(h, as, n, component, accel) ==
  LET m == ValueAt(h, n, Text(MergeKey))
      aliases == IF m = NoNode THEN << >>
                 ELSE SelectSeq(IF h[m].kind = "seq" THEN h[m].items ELSE <<m>>,
                                LAMBDA a : IsAlias(h, a))
      Found(a) ==
        LET t == FollowAliases(h, as, a, "follow", accel)
        IN  IF t = NoNode THEN NoNode
            ELSE IF h[t].kind # "map" THEN NoNode ELSE ValueAt(h, t, component)
      i == SelectInSeq(aliases, LAMBDA a : Found(a) # NoNode)
  IN  IF i = 0 THEN NoNode ELSE Found(aliases[i])

\* the value of a mapping under a component
KeyedAt(h, as, n, component, mode, accel) ==
  LET v == ValueAt(h, n, component)
  IN  IF v = NoNode /\ mode = "follow" THEN MergedAt(h, as, n, component, accel) ELSE v

\* fy_node_by_path_internal().  `slash` tells that the path ends in one: then
\* an alias at its end is followed as well.  In a JSON pointer the slash behind
\* the number of an item is skipped, and missed by the next component
RECURSIVE ByPathInternal(_, _, _, _, _, _, _)
ByPathInternal(h, as, n, path, slash, mode, accel) ==
  LET Follow(m) == IF slash THEN FollowAliases(h, as, m, mode, accel) ELSE m
      Rest(m) == ByPathInternal(h, as, Follow(m), Tail(path), slash, mode, accel)
      m == FollowAliases(h, as, n, mode, accel)
  IN  IF n = NoNode \/ path = << >> THEN n
      ELSE IF m = NoNode THEN NoNode
      ELSE IF h[m].kind = "seq"
      THEN IF mode = "json" /\ Len(path) > 1 THEN NoNode ELSE Rest(ItemAt(h, m, Head(path)))
      ELSE IF h[m].kind = "map"
      THEN Rest(KeyedAt(h, as, m, Head(path), mode, accel))
      ELSE NoNode

\* fy_node_by_path(): a reference starts at its anchor, else at n
ByPath(h, as, n, ref, slash, mode, accel) ==
  ByPathInternal(h, as, IF ref.anchor = "" THEN n ELSE AnchorByName(as, ref.anchor, accel),
                 ref.path, slash, mode, accel)
=============================================================================
