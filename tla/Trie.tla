-------------------------------- MODULE Trie --------------------------------
(***************************************************************************)
(* The trie of routes (registry/container/trie.go).  A node is named by    *)
(* the segments that lead to it; the root, <<>>, is always there.  A trie  *)
(* is the set of its other nodes and the pools some of them hold.          *)
(***************************************************************************)
EXTENDS EndpointPool

EmptyTrie == [nodes |-> {}, pool |-> EmptyMap]

UpTo(path, i) == SubSeq(path, 1, i)

\* The nodes on the way to path, path included.
Way(path) == {UpTo(path, i) : i \in 1 .. Len(path)}

ChildNodes(t, node) ==
    {n \in t.nodes : Len(n) = Len(node) + 1 /\ UpTo(n, Len(node)) = node}

isLeaf(t, node) == ChildNodes(t, node) = {}

\* Find returns a pool.
Finds(t, path) == Way(path) \subseteq t.nodes /\ path \in DOMAIN t.pool

Insert(t, path, pool) ==
    [nodes |-> t.nodes \cup Way(path), pool |-> Put(t.pool, path, pool)]

Without(t, nodes) ==
    [nodes |-> t.nodes \ nodes,
     pool |-> Only(t.pool, DOMAIN t.pool \ nodes)]

\* node and everything below it.
Subtree(t, node) ==
    {n \in t.nodes : Len(n) >= Len(node) /\ UpTo(n, Len(node)) = node}

\* The last node on the way to path that has a pool or several children is
\* kept; if path is a leaf, the branch that hangs from it towards path is cut.
deleteEmptyNodes(t, path) ==
    LET keeps(i) == \/ UpTo(path, i) \in DOMAIN t.pool
                    \/ Cardinality(ChildNodes(t, UpTo(path, i))) > 1
        kept == Max({0} \cup {i \in 1 .. Len(path) : keeps(i)})
    IN  IF isLeaf(t, path) THEN Without(t, Subtree(t, UpTo(path, kept + 1))) ELSE t

Delete(t, path) ==
    deleteEmptyNodes([t EXCEPT !.pool = Drop(@, path)], path)

\* Variant of Snip that stops at the node itself.
SnipOnce(t, path) ==
    LET s == IF IsEmpty(t.pool[path]) THEN [t EXCEPT !.pool = Drop(@, path)] ELSE t
    IN  IF path \notin DOMAIN s.pool /\ isLeaf(s, path) THEN Without(s, {path}) ELSE s

\* Snip drops an empty pool, and cuts the node and then its ancestors as long as
\* they are leaves without a pool.
Snip(t, path) ==
    LET s == IF IsEmpty(t.pool[path]) THEN [t EXCEPT !.pool = Drop(@, path)] ELSE t
        stays(i) == \/ UpTo(path, i) \in DOMAIN s.pool
                    \/ ChildNodes(s, UpTo(path, i)) \ Way(path) # {}
                    \/ i = Len(path) /\ ~isLeaf(s, path)
        top == Max({0} \cup {i \in 1 .. Len(path) : stays(i)})
    IN  Without(s, {UpTo(path, i) : i \in top + 1 .. Len(path)})

\* The orders in which EachNodeWithPool may visit the nodes that have a pool: each
\* after its parents, and all that is below a node before anything else, but the
\* children of a node in any order, as a Go map is iterated.
EachNodeWithPool(t) ==
    {walk \in Orders(DOMAIN t.pool) :
        /\ \A i, j \in DOMAIN walk : i < j => walk[j] \notin Way(walk[i])
        /\ \A i, j, k \in DOMAIN walk :
              i < j /\ j < k => Way(walk[i]) \cap Way(walk[k]) \subseteq Way(walk[j])}
=============================================================================
