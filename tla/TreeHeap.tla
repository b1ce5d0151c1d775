------------------------------- MODULE TreeHeap -------------------------------
(***************************************************************************)
(* TreeHeap of libcix/heap.rs: a pool of nodes linked into a binary tree   *)
(* whose nodes are not less than their children, with handles that stay    *)
(* good while nodes move, and the iterator over it in descending order.    *)
(* A heap is a record of the struct's fields; values are integers, of      *)
(* which the code uses the order alone.                                    *)
(***************************************************************************)
EXTENDS Integers, Sequences, FiniteSets, SequencesExt

CONSTANTS Capacity, \* nodes in the pool
          Values,   \* the values inserted
          Nothing   \* no value

ASSUME HeapAssumption == /\ Capacity \in Nat \ {0}
                         /\ Values \subseteq Int /\ Values # {}
                         /\ Nothing \notin Values

Nil == -1
Slots == 0 .. Capacity - 1
Pointers == Slots \cup {Nil}
Leaf == [parent |-> Nil, left |-> Nil, right |-> Nil, size |-> 1] \* HeapNodeMd::default

Empty == [root  |-> Nil,
          md    |-> [i \in Slots |-> Leaf],
          value |-> [i \in Slots |-> CHOOSE v \in Values : TRUE],
          free  |-> [i \in 1 .. Capacity |-> Capacity - i]]

------------------------------------------------------------------------------
\* The tree operations, on the nodes' links md and their values.

SizeOf(md, i) == IF i = Nil THEN 0 ELSE md[i].size
SetParent(md, i, p) == IF i = Nil THEN md ELSE [md EXCEPT ![i].parent = p]
UpdateSize(md, i) ==
    [md EXCEPT ![i].size = 1 + SizeOf(md, md[i].left) + SizeOf(md, md[i].right)]

\* decrement_size: nodes from i up to the root, each loses one from its size.
\* The loop's state after n rounds; there are no more than there are nodes.
Decrementing(md, i) ==
    LET loop[n \in 0 .. Capacity] ==
            IF n = 0 THEN [md |-> md, i |-> i]
            ELSE LET last == loop[n - 1]
                 IN  IF last.i = Nil THEN last
                     ELSE [md |-> [last.md EXCEPT ![last.i].size = @ - 1],
                           i  |-> last.md[last.i].parent]
    IN  loop
DecrementSize(md, i) == Decrementing(md, i)[Capacity].md

\* The recursive operations are functions of the depth of the trees they are
\* given; no tree is deeper than it has nodes.

\* Joins two sibling subtrees into one; the greater root comes on top, the
\* right one between equals.  Join does so with below for the trees under it.
Join(md, value, below, left, right) ==
    IF left = Nil THEN [md |-> md, top |-> right]
    ELSE IF right = Nil THEN [md |-> md, top |-> left]
    ELSE LET go_left == value[left] > value[right]
             top     == IF go_left THEN left ELSE right
             other   == IF go_left THEN right ELSE left
             pulled  == below[md[top].left][md[top].right]
             linked  == IF go_left
                        THEN [pulled.md EXCEPT ![top].left = pulled.top,
                                               ![top].right = other]
                        ELSE [pulled.md EXCEPT ![top].right = pulled.top,
                                               ![top].left = other]
         IN  [md |-> SetParent(UpdateSize(linked, top), other, top), top |-> top]

Joins(md, value) ==
    LET join[depth \in 0 .. Capacity] ==
            IF depth = 0 THEN [left \in Pointers |-> [right \in Pointers |-> [md |-> md, top |-> Nil]]]
            ELSE [left \in Pointers |-> [right \in Pointers |->
                     Join(md, value, join[depth - 1], left, right)]]
    IN  join
PullUp(md, value, left, right) == Joins(md, value)[Capacity][left][right]

\* Inserts node new in the subtree of head: the greater of the two becomes the
\* subtree's root, the other goes down into a free place or the smaller child.
\* (The code sets the new root's size first; nothing further down reads it.)
Place(md, value, below, head, new) ==
    LET swap    == value[head] < value[new]
        parent  == IF swap THEN new ELSE head
        descend == IF swap THEN head ELSE new
        old     == md[head]
        leaf    == [Leaf EXCEPT !.parent = parent]
    IN  IF old.left = Nil
        THEN [md  |-> [SetParent(md, old.right, parent)
                          EXCEPT ![parent].right = old.right,
                                 ![parent].left = descend,
                                 ![parent].size = old.size + 1,
                                 ![descend] = leaf],
              top |-> parent]
        ELSE IF old.right = Nil
        THEN [md  |-> [SetParent(md, old.left, parent)
                          EXCEPT ![parent].left = old.left,
                                 ![parent].right = descend,
                                 ![parent].size = old.size + 1,
                                 ![descend] = leaf],
              top |-> parent]
        ELSE LET go_left == md[old.left].size <= md[old.right].size
                 down    == below[IF go_left THEN old.left ELSE old.right][descend]
                 left    == IF go_left THEN down.top ELSE old.left
                 right   == IF go_left THEN old.right ELSE down.top
                 linked  == SetParent(SetParent(down.md, left, parent), right, parent)
             IN  [md  |-> [linked EXCEPT ![parent].left = left,
                                         ![parent].right = right,
                                         ![parent].size = old.size + 1,
                                         ![parent].parent = old.parent],
                  top |-> parent]

Places(md, value) ==
    LET place[depth \in 0 .. Capacity] ==
            IF depth = 0 THEN [head \in Slots |-> [new \in Slots |-> [md |-> md, top |-> new]]]
            ELSE [head \in Slots |-> [new \in Slots |->
                     Place(md, value, place[depth - 1], head, new)]]
    IN  place
InsertNode(md, value, head, new) == Places(md, value)[Capacity][head][new]

\* insert_impl: the node joins the tree, or becomes it.
InsertImpl(h, i) ==
    IF h.root = Nil THEN [h EXCEPT !.root = i]
    ELSE LET r == InsertNode(h.md, h.value, h.root, i)
         IN  [h EXCEPT !.root = r.top, !.md = r.md]

\* Fault: the sizes of the nodes above are left as they are.
RemoveImplUncounted(h, i) ==
    LET node   == h.md[i]
        joined == PullUp(h.md, h.value, node.left, node.right)
        md     == SetParent(joined.md, joined.top, node.parent)
    IN  IF node.parent = Nil
        THEN [h EXCEPT !.root = joined.top, !.md = md]
        ELSE [h EXCEPT !.md = IF md[node.parent].left = i
                              THEN [md EXCEPT ![node.parent].left = joined.top]
                              ELSE [md EXCEPT ![node.parent].right = joined.top]]

\* remove_impl: the node's children are joined in its place.
RemoveImpl(h, i) ==
    LET node   == h.md[i]
        joined == PullUp(h.md, h.value, node.left, node.right)
        md     == SetParent(joined.md, joined.top, node.parent)
    IN  IF node.parent = Nil
        THEN [h EXCEPT !.root = joined.top, !.md = md]
        ELSE LET linked == IF md[node.parent].left = i
                           THEN [md EXCEPT ![node.parent].left = joined.top]
                           ELSE [md EXCEPT ![node.parent].right = joined.top]
             IN  [h EXCEPT !.md = DecrementSize(linked, node.parent)]

\* The assert_eq! in remove_impl.
RemoveAsserts(h, i) ==
    h.md[i].parent # Nil => i \in {h.md[h.md[i].parent].left, h.md[h.md[i].parent].right}

------------------------------------------------------------------------------
\* The public operations, as functions of the heap

HeapInsert(h, v) ==
    LET i == Last(h.free)
    IN  InsertImpl([h EXCEPT !.free = Front(h.free),
                             !.md[i] = Leaf,
                             !.value[i] = v], i)

\* Faults: the slot is not given back; the node keeps its place when its value
\* changes, or keeps the links it had there.
HeapRemoveLeaky(h, i) == RemoveImpl(h, i)
HeapUpdateInPlace(h, i, v) == [h EXCEPT !.value[i] = v]
HeapUpdateStale(h, i, v) ==
    LET changed == [h EXCEPT !.value[i] = v]
    IN  InsertImpl(RemoveImpl(changed, i), i)

HeapRemove(h, i) == [RemoveImpl(h, i) EXCEPT !.free = Append(h.free, i)]

HeapUpdate(h, i, v) ==
    LET changed == [h EXCEPT !.value[i] = v]
        out     == RemoveImpl(changed, i)
    IN  InsertImpl([out EXCEPT !.md[i] = Leaf], i)

\* pop: the root goes, but its slot is not given back and the new root keeps
\* the parent it had.
HeapPop(h) ==
    LET head   == h.md[h.root]
        joined == PullUp(h.md, h.value, head.left, head.right)
    IN  [h EXCEPT !.root = joined.top, !.md = joined.md]

(***************************************************************************)
(* HeapIterator: a second heap, of the same capacity, of the nodes that    *)
(* may come next.  Its values are ranked as those of the nodes; node maps  *)
(* its slots to the nodes they hold a copy of, order is what it yielded.   *)
(***************************************************************************)
\* Fault: the candidates are ranked the other way round.
AddCandidateReversed(h, it, i) ==
    IF i = Nil \/ it.heap.free = <<>> THEN it
    ELSE [it EXCEPT !.heap = HeapInsert(it.heap, -h.value[i]),
                    !.node[Last(it.heap.free)] = i]

AddCandidate(h, it, i) ==
    IF i = Nil \/ it.heap.free = <<>> THEN it    \* insert's "heap full" is ignored
    ELSE [it EXCEPT !.heap = HeapInsert(it.heap, h.value[i]),
                    !.node[Last(it.heap.free)] = i]

\* One call of next: the greatest candidate is yielded, its children are new ones.
Iterate(h, it) ==
    IF it.heap.root = Nil THEN it
    ELSE LET n      == it.node[it.heap.root]
             popped == [it EXCEPT !.heap = HeapPop(it.heap)]
             added  == AddCandidate(h, AddCandidate(h, popped, h.md[n].left), h.md[n].right)
         IN  [added EXCEPT !.order = Append(it.order, n)]

\* The iterator after n calls; one more call than nodes finds it empty.
Iterations(h) ==
    LET new == [heap |-> Empty, node |-> [i \in Slots |-> Nil], order |-> <<>>]
        iterator[n \in 0 .. Capacity + 1] ==
            IF n = 0 THEN AddCandidate(h, new, h.root)
            ELSE Iterate(h, iterator[n - 1])
    IN  iterator

\* The nodes in the order HeapIterator yields their values.
HeapIterator(h) == Iterations(h)[Capacity + 1].order

------------------------------------------------------------------------------
\* A heap and a client that keeps the handles it was given.

VARIABLES
    heap,   \* the TreeHeap
    live    \* the handles given out, with the value last put under each

vars == <<heap, live>>

Handles == {i \in Slots : live[i] # Nothing}

Init == /\ heap = Empty
        /\ live = [i \in Slots |-> Nothing]

InsertValue(v) ==
    /\ heap.free # <<>>
    /\ heap' = HeapInsert(heap, v)
    /\ live' = [live EXCEPT ![Last(heap.free)] = v]

RemoveHandle(i) ==
    /\ i \in Handles /\ RemoveAsserts(heap, i)
    /\ heap' = HeapRemove(heap, i)
    /\ live' = [live EXCEPT ![i] = Nothing]

UpdateHandle(i, v) ==
    /\ i \in Handles /\ RemoveAsserts(heap, i)
    /\ heap' = HeapUpdate(heap, i, v)
    /\ live' = [live EXCEPT ![i] = v]

HandleStep == \/ \E v \in Values : InsertValue(v)
              \/ \E i \in Slots : RemoveHandle(i)
              \/ \E i \in Slots, v \in Values : UpdateHandle(i, v)

\* The operations book.rs uses on a side's heap.
Spec == Init /\ [][HandleStep]_vars

------------------------------------------------------------------------------
\* Correctness

\* The nodes below and including i, each with its multiplicity, down to a depth
\* no tree of Capacity nodes exceeds.
Subtrees(md) ==
    LET subtree[depth \in 0 .. Capacity + 1] ==
            IF depth = 0 THEN [i \in Pointers |-> <<>>]
            ELSE [i \in Pointers |->
                     IF i = Nil THEN <<>>
                     ELSE <<i>> \o subtree[depth - 1][md[i].left]
                                \o subtree[depth - 1][md[i].right]]
    IN  subtree

Tree == Subtrees(heap.md)[Capacity + 1][heap.root]
Nodes == ToSet(Tree)

TypeOK ==
    /\ heap.root \in Pointers
    /\ heap.md \in [Slots -> [parent : Pointers, left : Pointers, right : Pointers,
                              size : 0 .. Capacity]]
    /\ heap.value \in [Slots -> Values]
    /\ heap.free \in Seq(Slots)
    /\ live \in [Slots -> Values \cup {Nothing}]

\* What TreeHeap::validate asserts: it is a tree, no child is greater than its
\* node, children know their parent and nodes the size of their subtree.
Valid ==
    /\ Cardinality(Nodes) = Len(Tree)
    /\ \A i \in Nodes :
          LET md == heap.md[i]
              children == {md.left, md.right} \ {Nil}
          IN  /\ \A c \in children : /\ heap.value[c] <= heap.value[i]
                                     /\ heap.md[c].parent = i
              /\ md.size = 1 + SizeOf(heap.md, md.left) + SizeOf(heap.md, md.right)

\* No node is lost and none comes back: the tree holds exactly the nodes whose
\* handles are out, with the values put there, the free list the others once
\* each, and every handle can be removed without an assertion failing.
NothingLost ==
    /\ Nodes = Handles
    /\ \A i \in Handles : heap.value[i] = live[i] /\ RemoveAsserts(heap, i)
    /\ ToSet(heap.free) = Slots \ Handles
    /\ Len(heap.free) = Cardinality(Slots \ Handles)
    /\ heap.root # Nil => heap.md[heap.root].parent = Nil

\* The iterator yields every node once, greatest values first, and its own heap
\* of candidates never runs full although it only pops.
IteratorSorted ==
    LET order == HeapIterator(heap)
    IN  /\ Len(order) = Cardinality(Handles) /\ ToSet(order) = Handles
        /\ \A m, n \in DOMAIN order :
              m < n => heap.value[order[m]] >= heap.value[order[n]]

\* The heap is a priority queue: its root is a greatest of the values put
\* there, after every operation (NothingLost: those are the values in the tree).
Queue == INSTANCE PriorityQueue WITH
            Handles <- Slots,
            kept <- live,
            top <- IF heap.root = Nil THEN Nothing ELSE heap.root

ImplementsQueue == Queue!Spec

\* The links and values of free nodes are overwritten before they are read:
\* states that differ in nothing else are one state to TLC.
View == <<heap.root, heap.free, live,
          [i \in Nodes |-> <<heap.md[i], heap.value[i]>>]>>
==============================================================================
