------------------------------ MODULE KrNtree ------------------------------
(***************************************************************************)
(* krutils/kr_ntree.c: n-ary trees.  A node is linked to its parent, to    *)
(* its first child and to its two neighbours among its siblings; every     *)
(* operation rewrites some of these links by hand.  The variable t is the  *)
(* memory of all the trees, kids what the operations mean: the children of *)
(* each node, in order.                                                    *)
(***************************************************************************)
EXTENDS Integers, FiniteSets, FiniteSetsExt, SequencesExt

CONSTANTS Node,      \* addresses, a set of positive numbers
          Data,      \* what kr_ntree_new may be given
          CopyFunc   \* the copy function of kr_ntree_copy_deep

NULL == 0

VARIABLES t,         \* [parent, prev, next, children, data, live]
          kids       \* history: the children of every node, in order

treeVars == <<t, kids>>

---------------------------------------------------------------------------
(* Reading the links *)

RECURSIVE Follow(_, _)
Follow(s, n) == IF n = NULL THEN <<>> ELSE <<n>> \o Follow(s, s.next[n])

ChildSeq(s, n) == Follow(s, s.children[n])

IsRoot(s, n) == s.parent[n] = NULL /\ s.prev[n] = NULL /\ s.next[n] = NULL

IsLeaf(s, n) == s.children[n] = NULL

RECURSIVE Ancestors(_, _)
Ancestors(s, n) == IF s.parent[n] = NULL THEN <<>>
                   ELSE <<s.parent[n]>> \o Ancestors(s, s.parent[n])

GetRoot(s, n) == IF s.parent[n] = NULL THEN n ELSE Last(Ancestors(s, n))

IsAncestor(s, n, descendant) == n \in ToSet(Ancestors(s, descendant))

Depth(s, n) == Len(Ancestors(s, n)) + 1

RECURSIVE MaxHeight(_, _)
MaxHeight(s, n) == Max({0} \cup {MaxHeight(s, c) : c \in ToSet(ChildSeq(s, n))}) + 1

LastChild(s, n) == IF IsLeaf(s, n) THEN NULL ELSE Last(ChildSeq(s, n))

\* Position 0 is the first child; past the last one there is none.
NthChild(s, n, i) == IF i < Len(ChildSeq(s, n)) THEN ChildSeq(s, n)[i + 1] ELSE NULL

NChildren(s, n) == Len(ChildSeq(s, n))

ChildIndex(s, n, d) ==
    LET hits == {i \in DOMAIN ChildSeq(s, n) : s.data[ChildSeq(s, n)[i]] = d}
    IN  IF hits = {} THEN -1 ELSE Min(hits) - 1

FirstSibling(s, n) == IF s.parent[n] # NULL THEN s.children[s.parent[n]] ELSE n

LastSibling(s, n) == Last(Follow(s, n))

---------------------------------------------------------------------------
(* Rewriting the links *)

\* Mutant of UnlinkNode: the next sibling keeps its prev.
UnlinkNodeHalf(s, n) ==
    LET p == s.prev[n]
        x == s.next[n]
    IN  [s EXCEPT
           !.parent[n] = NULL,
           !.next = [m \in Node |-> IF m = n THEN NULL ELSE IF m = p THEN x ELSE @[m]],
           !.prev[n] = NULL,
           !.children = [m \in Node |-> IF m = s.parent[n] /\ p = NULL THEN x ELSE @[m]]]

\* kr_ntree_unlink: the neighbours, or the parent of a first child, are
\* joined, and the node becomes a root.
UnlinkNode(s, n) ==
    LET p == s.prev[n]
        x == s.next[n]
    IN  [s EXCEPT
           !.parent[n] = NULL,
           !.next = [m \in Node |-> IF m = n THEN NULL ELSE IF m = p THEN x ELSE @[m]],
           !.prev = [m \in Node |-> IF m = n THEN NULL ELSE IF m = x THEN p ELSE @[m]],
           !.children = [m \in Node |-> IF m = s.parent[n] /\ p = NULL THEN x ELSE @[m]]]

\* What kr_ntree_insert_before and _after check before they link anything.
MayLink(s, par, sib, n) == IsRoot(s, n) /\ (sib # NULL => s.parent[sib] = par)

\* kr_ntree_insert_before; no sibling means behind the last child.
InsertBefore(s, par, sib, n) ==
    LET p == IF sib = NULL THEN LastChild(s, par) ELSE s.prev[sib]
    IN  IF ~MayLink(s, par, sib, n) THEN s
        ELSE [s EXCEPT
                !.parent[n] = par,
                !.prev = [m \in Node |-> IF m = n THEN p ELSE IF m = sib THEN n ELSE @[m]],
                !.next = [m \in Node |-> IF m = n THEN sib ELSE IF m = p THEN n ELSE @[m]],
                !.children[par] = IF p = NULL THEN n ELSE @]

\* kr_ntree_insert_after; no sibling means before the first child.
InsertAfter(s, par, sib, n) ==
    LET x == IF sib = NULL THEN s.children[par] ELSE s.next[sib]
    IN  IF ~MayLink(s, par, sib, n) THEN s
        ELSE [s EXCEPT
                !.parent[n] = par,
                !.prev = [m \in Node |-> IF m = n THEN sib ELSE IF m = x THEN n ELSE @[m]],
                !.next = [m \in Node |-> IF m = n THEN x ELSE IF m = sib THEN n ELSE @[m]],
                !.children[par] = IF sib = NULL THEN n ELSE @]

Prepend(s, par, n) == InsertBefore(s, par, s.children[par], n)

InsertNode(s, par, pos, n) ==
    CASE pos > 0 -> InsertBefore(s, par, NthChild(s, par, pos), n)
      [] pos = 0 -> Prepend(s, par, n)
      [] OTHER   -> InsertBefore(s, par, NULL, n)

\* kr_ntree_reverse_children: the two neighbours of every child change places.
ReverseChildren(s, par) ==
    LET cs == ToSet(ChildSeq(s, par))
    IN  [s EXCEPT !.prev = [m \in Node |-> IF m \in cs THEN s.next[m] ELSE @[m]],
                  !.next = [m \in Node |-> IF m \in cs THEN s.prev[m] ELSE @[m]],
                  !.children[par] = LastChild(s, par)]

NewNode(s, n, d) == [s EXCEPT !.data[n] = d, !.live = @ \cup {n},
                              !.parent[n] = NULL, !.prev[n] = NULL,
                              !.next[n] = NULL, !.children[n] = NULL]

\* kr_ntrees_free; nobody reads freed memory, so its content is forgotten.
FreeNodes(s, gone) ==
    LET Wipe(f) == [m \in Node |-> IF m \in gone THEN NULL ELSE f[m]]
    IN  [parent |-> Wipe(s.parent), prev |-> Wipe(s.prev), next |-> Wipe(s.next),
         children |-> Wipe(s.children), data |-> Wipe(s.data), live |-> s.live \ gone]

Fresh(s) == Min(Node \ s.live)

\* kr_ntree_copy and, with a copy function, kr_ntree_copy_deep: the children
\* are copied from the last to the first, each one prepended to the copy.
RECURSIVE CopyTree(_, _, _)
CopyTree(s, n, f) ==
    LET new == Fresh(s)
    IN  FoldLeft(LAMBDA acc, c : Prepend(CopyTree(acc, c, f), new, Fresh(acc)),
                 NewNode(s, new, f[s.data[n]]), Reverse(ChildSeq(s, n)))

---------------------------------------------------------------------------
(* Traversals: the nodes for which func is called, in order *)

Unlimited == -1

\* Mutant of Dec: the depth is not counted down.
DecNot(d) == d

\* kr_uint depth; depth--
Dec(d) == IF d = Unlimited THEN d ELSE IF d = 0 THEN 2 ^ 30 ELSE d - 1

Self(s, n, flags) == IF (IF IsLeaf(s, n) THEN "leaf" ELSE "inner") \in flags THEN <<n>> ELSE <<>>

RECURSIVE PreOrder(_, _, _, _)
PreOrder(s, n, flags, depth) ==
    IF IsLeaf(s, n) \/ Dec(depth) = 0 THEN Self(s, n, flags)
    ELSE Self(s, n, flags) \o
         FlattenSeq([i \in 1 .. NChildren(s, n) |->
                       PreOrder(s, ChildSeq(s, n)[i], flags, Dec(depth))])

RECURSIVE PostOrder(_, _, _, _)
PostOrder(s, n, flags, depth) ==
    IF IsLeaf(s, n) \/ Dec(depth) = 0 THEN Self(s, n, flags)
    ELSE FlattenSeq([i \in 1 .. NChildren(s, n) |->
                       PostOrder(s, ChildSeq(s, n)[i], flags, Dec(depth))])
         \o Self(s, n, flags)

RECURSIVE InOrder(_, _, _, _)
InOrder(s, n, flags, depth) ==
    LET sub == [i \in 1 .. NChildren(s, n) |->
                  InOrder(s, ChildSeq(s, n)[i], flags, Dec(depth))]
    IN  IF IsLeaf(s, n) \/ Dec(depth) = 0 THEN Self(s, n, flags)
        ELSE sub[1] \o Self(s, n, flags) \o FlattenSeq(Tail(sub))

\* The nodes level steps below n, whatever the flags.
RECURSIVE Level(_, _, _)
Level(s, n, level) ==
    IF level = 0 THEN <<n>>
    ELSE FlattenSeq([i \in 1 .. NChildren(s, n) |-> Level(s, ChildSeq(s, n)[i], level - 1)])

\* One level after the other until depth of them are done, or one that has
\* no inner node.
RECURSIVE LevelOrder(_, _, _, _, _)
LevelOrder(s, n, flags, depth, level) ==
    LET here == Level(s, n, level)
    IN  IF level = depth THEN <<>>
        ELSE FlattenSeq([i \in DOMAIN here |-> Self(s, here[i], flags)]) \o
             IF \A i \in DOMAIN here : IsLeaf(s, here[i]) THEN <<>>
             ELSE LevelOrder(s, n, flags, depth, level + 1)

Traverse(s, n, order, flags, depth) ==
    CASE order = "pre"   -> PreOrder(s, n, flags, depth)
      [] order = "post"  -> PostOrder(s, n, flags, depth)
      [] order = "in"    -> InOrder(s, n, flags, depth)
      [] order = "level" -> LevelOrder(s, n, flags, depth, 0)

\* kr_ntree_find stops the traversal at the first node with the data.
FindNode(s, n, order, flags, d) ==
    LET hits == SelectSeq(Traverse(s, n, order, flags, Unlimited), LAMBDA m : s.data[m] = d)
    IN  IF hits = <<>> THEN NULL ELSE hits[1]

\* kr_ntree_children_foreach; kr_ntree_find_child stops at the data.
ChildrenForeach(s, n, flags) ==
    FlattenSeq([i \in 1 .. NChildren(s, n) |-> Self(s, ChildSeq(s, n)[i], flags)])

RECURSIVE NNodes(_, _, _)
NNodes(s, n, flags) ==
    Len(Self(s, n, flags)) +
    FoldLeft(LAMBDA acc, c : acc + NNodes(s, c, flags), 0, ChildSeq(s, n))

---------------------------------------------------------------------------
(* Operations *)

TreeInit ==
    /\ t = [f \in {"parent", "prev", "next", "children", "data"} |-> [n \in Node |-> NULL]]
           @@ [live |-> {}]
    /\ kids = [n \in Node |-> <<>>]

New(d) ==
    /\ t.live # Node
    /\ t' = NewNode(t, Fresh(t), d)
    /\ kids' = [kids EXCEPT ![Fresh(t)] = <<>>]

\* The children lists without n.
Without(n) == [m \in Node |-> SelectSeq(kids[m], LAMBDA c : c # n)]

Unlink(n) ==
    /\ t' = UnlinkNode(t, n)
    /\ kids' = Without(n)

\* kr_ntree_destroy: the node is unlinked, it and all below it are freed.
Destroy(n) ==
    LET gone == {m \in t.live : m = n \/ IsAncestor(t, n, m)}
    IN  /\ t' = FreeNodes(UnlinkNode(t, n), gone)
        /\ kids' = [m \in Node |-> IF m \in gone THEN <<>> ELSE Without(n)[m]]

\* The callers never put a tree below one of its own nodes.
MayAdopt(par, n) == n # par /\ ~IsAncestor(t, n, par) /\ IsRoot(t, n)

\* Position pos among the children of par, or the end when there are fewer.
Adopt(par, pos, n) ==
    [kids EXCEPT ![par] = InsertAt(@, IF pos < 0 \/ pos > Len(@) THEN Len(@) + 1 ELSE pos + 1, n)]

Insert(par, pos, n) ==
    /\ MayAdopt(par, n)
    /\ t' = InsertNode(t, par, pos, n)
    /\ kids' = Adopt(par, pos, n)

\* The sibling is a child of par: kr_ntree_insert_before and _after.
InsertNextTo(par, i, n) ==
    /\ MayAdopt(par, n) /\ i \in DOMAIN kids[par]
    /\ \/ t' = InsertBefore(t, par, kids[par][i], n) /\ kids' = Adopt(par, i - 1, n)
       \/ t' = InsertAfter(t, par, kids[par][i], n) /\ kids' = Adopt(par, i, n)

InsertFirst(par, n) ==
    /\ MayAdopt(par, n)
    /\ t' = InsertAfter(t, par, NULL, n)
    /\ kids' = Adopt(par, 0, n)

ReverseKids(par) ==
    /\ t' = ReverseChildren(t, par)
    /\ kids' = [kids EXCEPT ![par] = Reverse(@)]

Copy(n, f) ==
    /\ NNodes(t, n, {"leaf", "inner"}) <= Cardinality(Node \ t.live)
    /\ t' = CopyTree(t, n, f)
    /\ kids' = [m \in Node |-> IF m \in t'.live \ t.live THEN ChildSeq(t', m) ELSE kids[m]]

TreeNext ==
    \/ \E d \in Data : New(d)
    \/ \E n \in t.live :
         \/ Unlink(n)
         \/ Destroy(n)
         \/ ReverseKids(n)
         \/ Copy(n, [d \in Data |-> d])
         \/ Copy(n, CopyFunc)
         \/ \E par \in t.live :
              \/ \E pos \in -1 .. Cardinality(Node) : Insert(par, pos, n)
              \/ \E i \in 1 .. Cardinality(Node) : InsertNextTo(par, i, n)
              \/ InsertFirst(par, n)

TreeSpec == TreeInit /\ [][TreeNext]_treeVars

---------------------------------------------------------------------------
(* Properties *)

ParentOf(n) == {m \in t.live : n \in ToSet(kids[m])}

\* The links of every node say the same thing, and what the operations
\* mean: the walk along next gives the children in order, prev is its
\* inverse, the parent is the one whose list holds the node, no link leads
\* to freed memory.
LinksExact ==
    \A n \in t.live :
        /\ ChildSeq(t, n) = kids[n]
        /\ \A i \in DOMAIN kids[n] :
             /\ kids[n][i] \in t.live
             /\ t.parent[kids[n][i]] = n
             /\ t.prev[kids[n][i]] = IF i = 1 THEN NULL ELSE kids[n][i - 1]
        /\ ParentOf(n) = {} => IsRoot(t, n)

\* The path from r down to n: the positions taken (of all nodes below r).
RECURSIVE PathsBelow(_)
PathsBelow(r) ==
    {[node |-> r, path |-> <<>>]} \cup
    UNION {{[node |-> q.node, path |-> <<i>> \o q.path] : q \in PathsBelow(kids[r][i])} :
             i \in DOMAIN kids[r]}

\* p comes before q in a traversal, by the positions alone.
Before(order, p, q) ==
    LET diff == {i \in 1 .. Min({Len(p), Len(q)}) : p[i] # q[i]}
        left == p[Min(diff)] < q[Min(diff)]
    IN  IF order = "level" /\ Len(p) # Len(q) THEN Len(p) < Len(q)
        ELSE IF diff # {} THEN left
        ELSE CASE order = "pre"  -> Len(p) < Len(q)
               [] order = "post" -> Len(p) > Len(q)
               [] order = "in"   -> IF Len(p) < Len(q) THEN q[Len(p) + 1] > 1
                                    ELSE p[Len(q) + 1] = 1

\* A traversal calls the function once for every node of the tree that is
\* not too deep and of a kind that was asked for, in the order that was
\* asked for; counting, searching, height and depth agree with it.
TraversalExact ==
    \A r \in t.live : \A flags \in SUBSET {"leaf", "inner"} :
      LET below == PathsBelow(r)
          Kind(n) == IF kids[n] = <<>> THEN "leaf" ELSE "inner"
          PathOf(n) == (CHOOSE q \in below : q.node = n).path
      IN  /\ \A order \in {"pre", "post", "in", "level"} : \A depth \in {Unlimited, 1, 2, 3} :
               LET v == Traverse(t, r, order, flags, depth)
                   due == {q \in below : /\ Kind(q.node) \in flags
                                         /\ depth # Unlimited => Len(q.path) < depth}
               IN  /\ ToSet(v) = {q.node : q \in due}
                   /\ \A i, j \in DOMAIN v :
                        i < j => v[i] # v[j] /\ Before(order, PathOf(v[i]), PathOf(v[j]))
          /\ NNodes(t, r, flags) = Cardinality({q \in below : Kind(q.node) \in flags})
          /\ MaxHeight(t, r) = Max({Len(q.path) : q \in below}) + 1
          /\ \A d \in Data : FindNode(t, r, "level", flags, d) # NULL <=>
               \E q \in below : Kind(q.node) \in flags /\ t.data[q.node] = d
          /\ \A q \in below : /\ q.node # r => IsAncestor(t, r, q.node)
                              /\ GetRoot(t, q.node) = GetRoot(t, r)
                              /\ Depth(t, q.node) = Depth(t, r) + Len(q.path)
                              /\ q.node # r => /\ FirstSibling(t, q.node) = kids[t.parent[q.node]][1]
                                               /\ LastSibling(t, q.node) = LastChild(t, t.parent[q.node])
          /\ \A d \in Data : LET i == ChildIndex(t, r, d)
                             IN  IF i = -1 THEN d \notin {t.data[c] : c \in ToSet(kids[r])}
                                 ELSE t.data[NthChild(t, r, i)] = d
          /\ ChildrenForeach(t, r, flags) = SelectSeq(kids[r], LAMBDA c : Kind(c) \in flags)
=============================================================================
