------------------------------- MODULE KDTree -------------------------------
(***************************************************************************)
(* src/utils/kd_tree.h: KDTree keeps points in a binary tree whose levels  *)
(* compare one coordinate after the other.  Nodes that Clear takes out of  *)
(* the tree go to a free list, linked by their left pointers, and Insert   *)
(* uses them again; Free gives the free list back to the allocator.        *)
(*                                                                         *)
(* DeleteNode is left out: no program can call it (FindMin calls MinNode   *)
(* with three of its four arguments, line 191).                            *)
(***************************************************************************)
EXTENDS Integers, Sequences, FiniteSets

CONSTANTS
    Points,     \* tuples of coordinates
    K,          \* the number of coordinates compared
    MaxNodes    \* how many nodes the allocator has

ASSUME KDTreeAssumption ==
    /\ K \in Nat \ {0} /\ MaxNodes \in Nat /\ Points # {}
    /\ \A p \in Points : DOMAIN p = 1 .. K /\ \A i \in 1 .. K : p[i] \in Int

Nodes == 1 .. MaxNodes
Nil == 0

VARIABLES
    node,                   \* what the memory of each node holds
    allocated,              \* the nodes the allocator has given out
    rootNode, freeNode, treeSize, freeSize,
    ref                     \* history: the points inserted since Clear, at the pointers returned

treeVars == <<node, allocated, rootNode, freeNode, treeSize, freeSize, ref>>

Blank == [value |-> CHOOSE p \in Points : TRUE, left |-> Nil, right |-> Nil]

(* The tree of tests/kd_tree.cpp is a global: its members start at zero.   *)
TreeInit ==
    /\ node = [n \in Nodes |-> Blank] /\ allocated = {}
    /\ rootNode = Nil /\ freeNode = Nil
    /\ treeSize = 0 /\ freeSize = 0
    /\ ref = <<>>

(* Where the point belongs below a node, by the coordinate of its depth.   *)
SideOf(p, n, depth) ==
    LET d == (depth % K) + 1 IN IF p[d] < node[n].value[d] THEN "left" ELSE "right"

Child(n, side) == IF side = "left" THEN node[n].left ELSE node[n].right

(* The node at each depth on the way down to where a point would be        *)
(* inserted.                                                               *)
WayOf(p) ==
    LET way[k \in 0 .. MaxNodes] ==
            IF k = 0
            THEN rootNode
            ELSE IF way[k - 1] = Nil THEN Nil ELSE Child(way[k - 1], SideOf(p, way[k - 1], k - 1))
    IN  way

(* Find compares on the way and stops at the first equal point.            *)
FindPoint(p) ==
    LET equal == {k \in 0 .. MaxNodes : WayOf(p)[k] # Nil /\ node[WayOf(p)[k]].value = p}
    IN  IF equal = {} THEN Nil ELSE WayOf(p)[CHOOSE k \in equal : \A j \in equal : k <= j]

(* The depth at which Insert comes out of the tree.                        *)
DepthOf(p) ==
    CHOOSE k \in 0 .. MaxNodes : WayOf(p)[k] = Nil /\ \A j \in 0 .. k - 1 : WayOf(p)[j] # Nil

(* Mutant of NewNode: always a new one.                                    *)
NewNodeFresh == CHOOSE n \in Nodes \ allocated : \A m \in Nodes \ allocated : n <= m

(* Allocate takes the head of the free list before it asks the allocator.  *)
NewNode ==
    IF freeNode # Nil
    THEN freeNode
    ELSE CHOOSE n \in Nodes \ allocated : \A m \in Nodes \ allocated : n <= m

(* A node that gets the new one as its child on one side.                  *)
WithChild(m, side, n) ==
    IF side = "left" THEN [node[m] EXCEPT !.left = n] ELSE [node[m] EXCEPT !.right = n]

Insert(p) ==
    LET n == NewNode
        depth == DepthOf(p)
        parent == IF depth = 0 THEN Nil ELSE WayOf(p)[depth - 1]
    IN  /\ freeNode # Nil \/ allocated # Nodes
        /\ freeNode' = IF freeNode # Nil THEN node[n].left ELSE Nil
        /\ freeSize' = IF freeNode # Nil THEN freeSize - 1 ELSE freeSize
        /\ allocated' = allocated \union {n}
        /\ node' = [m \in Nodes |->
                        CASE m = n -> [value |-> p, left |-> Nil, right |-> Nil]
                          [] m = parent -> WithChild(m, SideOf(p, m, depth - 1), n)
                          [] OTHER -> node[m]]
        /\ rootNode' = IF rootNode = Nil THEN n ELSE rootNode
        /\ treeSize' = treeSize + 1
        /\ ref' = Append(ref, [at |-> n, point |-> p])

(* WalkDelete visits the children of a node before the node.               *)
WalkDelete ==
    LET walk[k \in 0 .. MaxNodes] ==
            [n \in Nodes \union {Nil} |->
                IF k = 0 \/ n = Nil
                THEN <<>>
                ELSE walk[k - 1][node[n].left] \o walk[k - 1][node[n].right] \o <<n>>]
    IN  walk[MaxNodes][rootNode]

(* Each node visited is put in front of the free list.                     *)
Clear ==
    LET gone == WalkDelete
        next(i) == IF i = 1 THEN freeNode ELSE gone[i - 1]
    IN  /\ node' = [n \in Nodes |->
                        IF \E i \in DOMAIN gone : gone[i] = n
                        THEN [node[n] EXCEPT !.left = next(CHOOSE i \in DOMAIN gone : gone[i] = n)]
                        ELSE node[n]]
        /\ freeNode' = IF gone = <<>> THEN freeNode ELSE gone[Len(gone)]
        /\ freeSize' = freeSize + Len(gone)
        /\ rootNode' = Nil /\ treeSize' = 0
        /\ ref' = <<>>
        /\ UNCHANGED allocated

(* The free list: the left pointers from freeNode on.                      *)
FreeChain ==
    LET chain[k \in 0 .. MaxNodes] ==
            IF k = 0
            THEN freeNode
            ELSE IF chain[k - 1] = Nil THEN Nil ELSE node[chain[k - 1]].left
    IN  chain

Listed == {FreeChain[k] : k \in 0 .. MaxNodes} \ {Nil}

(* Free gives up the free list and leaves the tree.                        *)
FreeNodes ==
    /\ node' = [n \in Nodes |-> IF n \in Listed THEN Blank ELSE node[n]]
    /\ allocated' = allocated \ Listed
    /\ freeSize' = freeSize - Cardinality(Listed)
    /\ freeNode' = Nil
    /\ UNCHANGED <<rootNode, treeSize, ref>>

TreeNext ==
    \/ \E p \in Points : Insert(p)
    \/ Clear
    \/ FreeNodes

TreeSpec == TreeInit /\ [][TreeNext]_treeVars

-----------------------------------------------------------------------------

TreeTypeOK ==
    /\ node \in [Nodes -> [value : Points, left : Nodes \union {Nil}, right : Nodes \union {Nil}]]
    /\ allocated \subseteq Nodes
    /\ {rootNode, freeNode} \subseteq Nodes \union {Nil}
    /\ treeSize \in 0 .. MaxNodes /\ freeSize \in 0 .. MaxNodes

(* Find finds a point exactly when it was inserted since the last Clear,   *)
(* with equal coordinates and equal points in any order of insertion, and  *)
(* the node it returns is one that Insert returned for that point.  What   *)
(* every Insert returned still holds its point, also after nodes were      *)
(* cleared, freed and used again.                                          *)
FindsWhatWasInserted ==
    /\ \A p \in Points :
          IF \E i \in DOMAIN ref : ref[i].point = p
          THEN \E i \in DOMAIN ref : ref[i] = [at |-> FindPoint(p), point |-> p]
          ELSE FindPoint(p) = Nil
    /\ \A i \in DOMAIN ref : node[ref[i].at].value = ref[i].point

(* Every node the allocator gave out is once in the tree or once in the    *)
(* free list, as the two sizes say: the asserts in Clear and Free hold,    *)
(* and no node is lost or handed out while it is in the tree.              *)
NodesAccounted ==
    LET tree == WalkDelete
    IN  /\ Len(tree) = treeSize
        /\ \A k \in 0 .. MaxNodes : FreeChain[k] # Nil <=> k < freeSize
        /\ treeSize + freeSize = Cardinality(allocated)
        /\ {tree[i] : i \in DOMAIN tree} \union Listed = allocated

(* What kd_tree.h promises of points and what it promises of memory.       *)
TreeSound == FindsWhatWasInserted /\ NodesAccounted
=============================================================================
