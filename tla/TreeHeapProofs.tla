---------------------------- MODULE TreeHeapProofs ----------------------------
(***************************************************************************)
(* Theorems about TreeHeap: that its links stay a heap-ordered tree of the *)
(* nodes whose handles are out, and that it implements PriorityQueue.      *)
(*                                                                         *)
(* The operations are taken apart into steps on a forest: a set of nodes   *)
(* with the links between them and the nodes that are roots.  Taking a     *)
(* node out of a forest (Fell) makes its children roots, putting one above *)
(* roots (Plant) makes it a root; what is said of a forest is local to a   *)
(* node and its children, and that it has no cycles follows from the sizes.*)
(***************************************************************************)
EXTENDS TreeHeap, SequenceTheorems, FiniteSetTheorems, TLAPS

\* A set of numbers that contains 0 and with each number the next.
LEMMA AllNumbers ==
    ASSUME NEW S, 0 \in S, \A n \in Nat : n \in S => n + 1 \in S
    PROVE  \A n \in Nat : n \in S
<1> DEFINE T == {n \in Nat : n \notin S}
           R == OpToRel(<, Nat)
<1> SUFFICES ASSUME T # {} PROVE FALSE
  OBVIOUS
<1>1. IsWellFoundedOn(R, Nat)
  BY NatLessThanWellFounded
<1>2. PICK x \in T : \A y \in T : ~(<<y, x>> \in R)
  <2> HIDE DEF T, R
  <2>1. T \subseteq Nat
    BY DEF T
  <2> QED BY <1>1, <2>1, WFMin
<1>3. x - 1 \in Nat /\ (x - 1) + 1 = x
  OBVIOUS
<1>4. x - 1 \notin S
  BY <1>3
<1>5. <<x - 1, x>> \in R
  BY <1>3 DEF OpToRel
<1> QED BY <1>2, <1>3, <1>4, <1>5

------------------------------------------------------------------------------
(***************************************************************************)
(* Forests                                                                 *)
(***************************************************************************)

Links == [Slots -> [parent : Pointers, left : Pointers, right : Pointers,
                    size : 0 .. Capacity]]
Children(md, n) == {md[n].left, md[n].right} \ {Nil}

\* The nodes N are linked, in the order of their values, below the roots R.  A
\* node may also point to something that is no node of the forest.
Linked(md, value, N, R) ==
    /\ md \in Links /\ value \in [Slots -> Int]
    /\ R \subseteq N /\ N \subseteq Slots
    /\ \A n \in N : md[n].left = md[n].right => md[n].left = Nil
    /\ \A n \in N : \A c \in Children(md, n) \cap N :
          c \notin R /\ md[c].parent = n /\ value[c] <= value[n]
    /\ \A n \in N \ R : md[n].parent \in N /\ n \in Children(md, md[n].parent)

\* Every node has the size of its subtree; that of node over is one too large.
Sized(md, N, over) ==
    \A n \in N : md[n].size = (IF n = over THEN 2 ELSE 1)
                                + SizeOf(md, md[n].left) + SizeOf(md, md[n].right)

Forest(md, value, N, R) == Linked(md, value, N, R) /\ Sized(md, N, Nil)

LEMMA SlotsAndNil ==
    /\ Capacity \in Nat /\ Capacity > 0
    /\ Nil \notin Slots /\ Pointers = Slots \cup {Nil} /\ Slots \subseteq Nat
BY HeapAssumption DEF Nil, Slots, Pointers

LEMMA LinkTypes ==
    ASSUME NEW md \in Links, NEW n \in Slots
    PROVE  /\ md[n] \in [parent : Pointers, left : Pointers, right : Pointers,
                         size : 0 .. Capacity]
           /\ md[n].parent \in Pointers /\ md[n].left \in Pointers
           /\ md[n].right \in Pointers /\ md[n].size \in 0 .. Capacity
           /\ md[n].size \in Nat /\ md[n].size <= Capacity
           /\ Children(md, n) \subseteq Slots
<1>1. /\ md[n] \in [parent : Pointers, left : Pointers, right : Pointers,
                    size : 0 .. Capacity]
  BY DEF Links
<1>2. /\ md[n].parent \in Pointers /\ md[n].left \in Pointers
      /\ md[n].right \in Pointers /\ md[n].size \in 0 .. Capacity
  BY <1>1
<1> QED BY <1>1, <1>2, SlotsAndNil DEF Children

LEMMA SizeTypes ==
    ASSUME NEW md \in Links, NEW p \in Pointers
    PROVE  SizeOf(md, p) \in Nat /\ SizeOf(md, p) <= Capacity
BY LinkTypes, SlotsAndNil DEF SizeOf

\* A node is larger than what it points to.
LEMMA Larger ==
    ASSUME NEW md, NEW N, NEW over, md \in Links, N \subseteq Slots, Sized(md, N, over),
           NEW n \in N
    PROVE  /\ md[n].size \in Nat /\ md[n].size >= 1
           /\ SizeOf(md, md[n].left) \in Nat /\ SizeOf(md, md[n].right) \in Nat
           /\ SizeOf(md, md[n].left) + SizeOf(md, md[n].right) < md[n].size
           /\ \A c \in Children(md, n) : md[c].size < md[n].size
<1>1. /\ n \in Slots /\ md[n].left \in Pointers /\ md[n].right \in Pointers
      /\ md[n].size \in Nat
  BY LinkTypes
<1>2. /\ SizeOf(md, md[n].left) \in Nat /\ SizeOf(md, md[n].right) \in Nat
  BY <1>1, SizeTypes
<1>3. md[n].size = (IF n = over THEN 2 ELSE 1)
                      + SizeOf(md, md[n].left) + SizeOf(md, md[n].right)
  BY DEF Sized
<1>4. /\ md[n].size >= 1
      /\ SizeOf(md, md[n].left) + SizeOf(md, md[n].right) < md[n].size
  BY <1>1, <1>2, <1>3
<1>5. ASSUME NEW c \in Children(md, n) PROVE md[c].size < md[n].size
  <2>1. c # Nil /\ (c = md[n].left \/ c = md[n].right)
    BY DEF Children
  <2>2. md[c].size = SizeOf(md, c)
    BY <2>1 DEF SizeOf
  <2> QED BY <1>1, <1>2, <1>4, <2>1, <2>2
<1> QED BY <1>1, <1>2, <1>4, <1>5

\* What holds of the roots and passes from a node to its children holds of all.
LEMMA Downward ==
    ASSUME NEW md, NEW value, NEW N, NEW R, NEW S, Linked(md, value, N, R),
           NEW over, Sized(md, N, over),
           R \subseteq S, \A n \in N : n \in S => Children(md, n) \cap N \subseteq S
    PROVE  N \subseteq S
<1> DEFINE T == {k \in Nat : \A n \in N : md[n].size >= Capacity - k => n \in S}
<1>1. /\ md \in Links /\ N \subseteq Slots
      /\ \A n \in N : md[n].size \in Nat /\ md[n].size <= Capacity
  BY LinkTypes DEF Linked
<1>2. Capacity \in Nat
  BY SlotsAndNil
<1>3. ASSUME NEW n \in N, \A m \in N : md[m].size > md[n].size => m \in S
      PROVE  n \in S
  <2>1. CASE n \in R
    BY <2>1
  <2>2. CASE n \notin R
    <3>1. md[n].parent \in N /\ n \in Children(md, md[n].parent)
      BY <2>2 DEF Linked
    <3>2. md[n].size < md[md[n].parent].size
      BY <1>1, <3>1, Larger
    <3>3. md[n].size \in Nat /\ md[md[n].parent].size \in Nat
      BY <1>1, <3>1
    <3>4. md[n].parent \in S
      BY <1>3, <3>1, <3>2, <3>3
    <3> QED BY <3>1, <3>4
  <2> QED BY <2>1, <2>2
<1>4. 0 \in T
  <2> SUFFICES ASSUME NEW n \in N, md[n].size >= Capacity - 0 PROVE n \in S
    OBVIOUS
  <2>1. \A m \in N : ~(md[m].size > md[n].size)
    BY <1>1, <1>2
  <2> QED BY <1>3, <2>1
<1>5. ASSUME NEW k \in Nat, k \in T PROVE k + 1 \in T
  <2> SUFFICES ASSUME NEW n \in N, md[n].size >= Capacity - (k + 1) PROVE n \in S
    OBVIOUS
  <2>1. \A m \in N : md[m].size > md[n].size => md[m].size >= Capacity - k
    BY <1>1, <1>2
  <2>2. \A m \in N : md[m].size > md[n].size => m \in S
    BY <1>5, <2>1
  <2> QED BY <1>3, <2>2
<1>6. Capacity \in T
  <2> HIDE DEF T
  <2> QED BY <1>2, <1>4, <1>5, AllNumbers
<1>7. \A n \in N : md[n].size >= Capacity - Capacity
  BY <1>1, <1>2
<1> QED BY <1>6, <1>7

\* A node that is taken out leaves its children behind as roots.
LEMMA Fell ==
    ASSUME NEW md, NEW value, NEW N, NEW R, Forest(md, value, N, R), NEW i \in N
    PROVE  Forest(md, value, N \ {i}, (R \ {i}) \cup (Children(md, i) \cap N))
<1> DEFINE M == N \ {i}
           Q == (R \ {i}) \cup (Children(md, i) \cap N)
<1>1. /\ md \in Links /\ value \in [Slots -> Int]
      /\ R \subseteq N /\ N \subseteq Slots /\ Sized(md, N, Nil)
  BY DEF Forest, Linked
<1>2. i \notin Children(md, i)
  <2>1. \A c \in Children(md, i) : md[c].size < md[i].size
    BY <1>1, Larger
  <2>2. md[i].size \in Nat
    BY <1>1, Larger
  <2> QED BY <2>1, <2>2
<1>3. Q \subseteq M /\ M \subseteq Slots
  BY <1>1, <1>2
<1>4. ASSUME NEW n \in M, NEW c \in Children(md, n) \cap M
      PROVE  c \notin Q /\ md[c].parent = n /\ value[c] <= value[n]
  <2>1. c \notin R /\ md[c].parent = n /\ value[c] <= value[n]
    BY DEF Forest, Linked
  <2>2. c \in Children(md, i) => md[c].parent = i
    BY DEF Forest, Linked
  <2> QED BY <2>1, <2>2
<1>5. ASSUME NEW n \in M \ Q
      PROVE  md[n].parent \in M /\ n \in Children(md, md[n].parent)
  <2>1. md[n].parent \in N /\ n \in Children(md, md[n].parent)
    BY DEF Forest, Linked
  <2>2. md[n].parent # i
    BY <2>1
  <2> QED BY <2>1, <2>2
<1>6. \A n \in M : md[n].left = md[n].right => md[n].left = Nil
  BY DEF Forest, Linked
<1>7. Sized(md, M, Nil)
  BY <1>1 DEF Sized
<1> HIDE DEF M, Q
<1>8. Linked(md, value, M, Q)
  BY <1>1, <1>3, <1>4, <1>5, <1>6 DEF Linked
<1> QED BY <1>7, <1>8 DEF Forest, M, Q

\* The forest is what its nodes and their values are, but for the parents of
\* its roots.
SameIn(md, value, md2, value2, N, R) ==
    /\ md2 \in Links /\ value2 \in [Slots -> Int]
    /\ \A n \in N : /\ md2[n].left = md[n].left /\ md2[n].right = md[n].right
                    /\ md2[n].size = md[n].size
                    /\ n \notin R => md2[n].parent = md[n].parent
                    /\ value2[n] = value[n]
                    /\ \A c \in Children(md, n) : md2[c].size = md[c].size

LEMMA SameForest ==
    ASSUME NEW md, NEW value, NEW md2, NEW value2, NEW N, NEW R,
           Forest(md, value, N, R), SameIn(md, value, md2, value2, N, R)
    PROVE  Forest(md2, value2, N, R)
<1>1. /\ R \subseteq N /\ N \subseteq Slots
  BY DEF Forest, Linked
<1>2. \A n \in N : Children(md2, n) = Children(md, n)
  BY DEF SameIn, Children
<1>3. ASSUME NEW n \in N
      PROVE  /\ SizeOf(md2, md2[n].left) = SizeOf(md, md[n].left)
             /\ SizeOf(md2, md2[n].right) = SizeOf(md, md[n].right)
  BY DEF SameIn, Children, SizeOf
<1>4. Sized(md2, N, Nil)
  BY <1>3 DEF Forest, Sized, SameIn
<1>5. \A n \in N : \A c \in Children(md2, n) \cap N :
          c \notin R /\ md2[c].parent = n /\ value2[c] <= value2[n]
  BY <1>2 DEF Forest, Linked, SameIn
<1>6. \A n \in N \ R : md2[n].parent \in N /\ n \in Children(md2, md2[n].parent)
  BY <1>2 DEF Forest, Linked, SameIn
<1>7. \A n \in N : md2[n].left = md2[n].right => md2[n].left = Nil
  BY DEF Forest, Linked, SameIn
<1>8. md2 \in Links /\ value2 \in [Slots -> Int]
  BY DEF SameIn
<1> QED BY <1>1, <1>4, <1>5, <1>6, <1>7, <1>8 DEF Forest, Linked

\* A node i that nothing points to is put above the roots K.
Above(md, md2, value, N, K, i) ==
    /\ md2 \in Links /\ i \in Slots \ N
    /\ Children(md2, i) = K
    /\ md2[i].left = md2[i].right => md2[i].left = Nil
    /\ md2[i].size = 1 + SizeOf(md, md2[i].left) + SizeOf(md, md2[i].right)
    /\ \A n \in Slots \ {i} : /\ md2[n].left = md[n].left /\ md2[n].right = md[n].right
                              /\ md2[n].size = md[n].size
                              /\ md2[n].parent = IF n \in K THEN i ELSE md[n].parent
    /\ \A k \in K : value[k] <= value[i]
    /\ \A n \in N : i \notin Children(md, n)

LEMMA Plant ==
    ASSUME NEW md, NEW md2, NEW value, NEW N, NEW R, NEW K, NEW i,
           Forest(md, value, N, R), K \subseteq R, Above(md, md2, value, N, K, i)
    PROVE  Forest(md2, value, N \cup {i}, (R \ K) \cup {i})
<1> DEFINE M == N \cup {i}
           Q == (R \ K) \cup {i}
<1>1. /\ md \in Links /\ md2 \in Links /\ value \in [Slots -> Int]
      /\ R \subseteq N /\ N \subseteq Slots /\ i \in Slots /\ i \notin N /\ K \subseteq N
  BY DEF Forest, Linked, Above
<1>2. Q \subseteq M /\ M \subseteq Slots /\ i \notin K
  BY <1>1
<1>3. \A n \in N : Children(md2, n) = Children(md, n)
  BY <1>1 DEF Above, Children
<1>4. ASSUME NEW n \in M, NEW c \in Children(md2, n) \cap M
      PROVE  c \notin Q /\ md2[c].parent = n /\ value[c] <= value[n]
  <2>1. CASE n = i
    <3>1. c \in K
      BY <2>1 DEF Above
    <3>2. md2[c].parent = i /\ value[c] <= value[i]
      BY <1>1, <1>2, <3>1 DEF Above
    <3> QED BY <1>2, <2>1, <3>1, <3>2
  <2>2. CASE n # i
    <3>1. n \in N /\ c \in Children(md, n)
      BY <1>3, <2>2
    <3>2. c # i /\ c \in N
      BY <3>1 DEF Above
    <3>3. c \notin R /\ md[c].parent = n /\ value[c] <= value[n]
      BY <3>1, <3>2 DEF Forest, Linked
    <3>4. md2[c].parent = md[c].parent
      BY <1>1, <3>2, <3>3 DEF Above
    <3> QED BY <3>2, <3>3, <3>4
  <2> QED BY <2>1, <2>2
<1>5. ASSUME NEW n \in M \ Q
      PROVE  md2[n].parent \in M /\ n \in Children(md2, md2[n].parent)
  <2>1. CASE n \in K
    <3>1. md2[n].parent = i
      BY <1>1, <1>2, <2>1 DEF Above
    <3> QED BY <2>1, <3>1 DEF Above
  <2>2. CASE n \notin K
    <3>1. n \in N \ R
      BY <2>2
    <3>2. md[n].parent \in N /\ n \in Children(md, md[n].parent)
      BY <3>1 DEF Forest, Linked
    <3>3. md2[n].parent = md[n].parent
      BY <1>1, <2>2, <3>1 DEF Above
    <3> QED BY <1>3, <3>2, <3>3
  <2> QED BY <2>1, <2>2
<1>6. \A n \in M : md2[n].left = md2[n].right => md2[n].left = Nil
  BY <1>1 DEF Forest, Linked, Above
<1>7. Sized(md2, M, Nil)
  <2> SUFFICES ASSUME NEW n \in M
               PROVE  md2[n].size = 1 + SizeOf(md2, md2[n].left) + SizeOf(md2, md2[n].right)
    BY <1>1, SlotsAndNil DEF Sized
  <2>1. \A p \in Pointers : p # i => SizeOf(md2, p) = SizeOf(md, p)
    BY SlotsAndNil DEF Above, SizeOf
  <2>2. CASE n = i
    <3>1. i \notin Children(md2, i)
      BY <1>2 DEF Above
    <3>2. md2[i].left # i /\ md2[i].right # i
      BY <1>1, <3>1, SlotsAndNil DEF Children
    <3>3. md2[i].left \in Pointers /\ md2[i].right \in Pointers
      BY <1>1, LinkTypes
    <3> QED BY <2>1, <2>2, <3>2, <3>3 DEF Above
  <2>3. CASE n # i
    <3>1. n \in N /\ i \notin Children(md, n)
      BY <2>3 DEF Above
    <3>2. md[n].left # i /\ md[n].right # i
      BY <1>1, <3>1, SlotsAndNil DEF Children
    <3>3. md[n].left \in Pointers /\ md[n].right \in Pointers
      BY <1>1, <3>1, LinkTypes
    <3>4. /\ md2[n].left = md[n].left /\ md2[n].right = md[n].right
          /\ md2[n].size = md[n].size
      BY <1>1, <2>3, <3>1 DEF Above
    <3>5. md[n].size = 1 + SizeOf(md, md[n].left) + SizeOf(md, md[n].right)
      BY <1>1, <3>1, SlotsAndNil DEF Forest, Sized
    <3> QED BY <2>1, <3>2, <3>3, <3>4, <3>5
  <2> QED BY <2>2, <2>3
<1> HIDE DEF M, Q
<1>8. Linked(md2, value, M, Q)
  BY <1>1, <1>2, <1>4, <1>5, <1>6 DEF Linked
<1> QED BY <1>7, <1>8 DEF Forest, M, Q
------------------------------------------------------------------------------
(***************************************************************************)
(* The recursive functions are their defining equations.                   *)
(***************************************************************************)

\* PullUp, by the depth of the trees.
JoinStep(md, value, f, d) ==
    IF d = 0 THEN [left \in Pointers |-> [right \in Pointers |-> [md |-> md, top |-> Nil]]]
    ELSE [left \in Pointers |-> [right \in Pointers |->
             Join(md, value, f[d - 1], left, right)]]

LEMMA JoinsExists ==
    ASSUME NEW md, NEW value
    PROVE  \E f : f = [d \in 0 .. Capacity |-> JoinStep(md, value, f, d)]
<1> DEFINE F(f, k) == f = [d \in 0 .. k |-> JoinStep(md, value, f, d)]
           S == {k \in Nat : \E f : F(f, k)}
<1>1. \A f, g, d : d = 0 \/ f[d - 1] = g[d - 1]
                      => JoinStep(md, value, f, d) = JoinStep(md, value, g, d)
  BY DEF JoinStep
<1>2. 0 \in S
  <2> DEFINE f == [d \in 0 .. 0 |-> JoinStep(md, value, <<>>, d)]
  <2>1. F(f, 0)
    <3>1. \A d \in 0 .. 0 : JoinStep(md, value, <<>>, d) = JoinStep(md, value, f, d)
      <4> HIDE DEF f
      <4> QED BY <1>1
    <3> QED BY <3>1
  <2> QED BY <2>1
<1>3. ASSUME NEW k \in Nat, k \in S PROVE k + 1 \in S
  <2>1. PICK f : F(f, k)
    BY <1>3
  <2> DEFINE g == [d \in 0 .. k + 1 |-> IF d = k + 1 THEN JoinStep(md, value, f, d) ELSE f[d]]
  <2>2. \A d \in 0 .. k : g[d] = f[d]
    OBVIOUS
  <2>3. ASSUME NEW d \in 0 .. k + 1 PROVE g[d] = JoinStep(md, value, g, d)
    <3>1. d = 0 \/ f[d - 1] = g[d - 1]
      <4> HIDE DEF g
      <4> QED BY <2>2
    <3>2. JoinStep(md, value, f, d) = JoinStep(md, value, g, d)
      <4> HIDE DEF g
      <4> QED BY <1>1, <3>1
    <3>3. d # k + 1 => f[d] = JoinStep(md, value, f, d)
      <4>1. d # k + 1 => d \in 0 .. k
        OBVIOUS
      <4> QED BY <2>1, <4>1
    <3>4. g[d] = IF d = k + 1 THEN JoinStep(md, value, f, d) ELSE f[d]
      OBVIOUS
    <3> HIDE DEF g
    <3> QED BY <3>2, <3>3, <3>4
  <2>4. F(g, k + 1)
    <3>1. g = [d \in 0 .. k + 1 |-> g[d]]
      OBVIOUS
    <3> HIDE DEF g
    <3> QED BY <2>3, <3>1
  <2>5. \E f1 : F(f1, k + 1)
    <3> HIDE DEF g, F
    <3> QED BY <2>4
  <2> QED BY <2>5
<1>4. Capacity \in S
  <2>1. Capacity \in Nat
    BY SlotsAndNil
  <2> HIDE DEF S
  <2> QED BY <1>2, <1>3, <2>1, AllNumbers
<1> QED BY <1>4

LEMMA JoinsStep ==
    ASSUME NEW md, NEW value, NEW d \in 0 .. Capacity
    PROVE  Joins(md, value)[d] = JoinStep(md, value, Joins(md, value), d)
<1> DEFINE F(f) == f = [c \in 0 .. Capacity |-> JoinStep(md, value, f, c)]
<1>1. Joins(md, value) = CHOOSE f : F(f)
  BY DEF Joins, JoinStep
<1>2. \E f : F(f)
  BY JoinsExists
<1>3. F(CHOOSE f : F(f))
  <2> HIDE DEF F
  <2> QED BY <1>2
<1> HIDE DEF F
<1>4. F(Joins(md, value))
  BY <1>1, <1>3
<1> QED BY <1>4 DEF F

\* InsertNode, by the depth of the tree.
PlaceStep(md, value, f, d) ==
    IF d = 0 THEN [head \in Slots |-> [new \in Slots |-> [md |-> md, top |-> new]]]
    ELSE [head \in Slots |-> [new \in Slots |->
             Place(md, value, f[d - 1], head, new)]]

LEMMA PlacesExists ==
    ASSUME NEW md, NEW value
    PROVE  \E f : f = [d \in 0 .. Capacity |-> PlaceStep(md, value, f, d)]
<1> DEFINE F(f, k) == f = [d \in 0 .. k |-> PlaceStep(md, value, f, d)]
           S == {k \in Nat : \E f : F(f, k)}
<1>1. \A f, g, d : d = 0 \/ f[d - 1] = g[d - 1]
                      => PlaceStep(md, value, f, d) = PlaceStep(md, value, g, d)
  BY DEF PlaceStep
<1>2. 0 \in S
  <2> DEFINE f == [d \in 0 .. 0 |-> PlaceStep(md, value, <<>>, d)]
  <2>1. F(f, 0)
    <3>1. \A d \in 0 .. 0 : PlaceStep(md, value, <<>>, d) = PlaceStep(md, value, f, d)
      <4> HIDE DEF f
      <4> QED BY <1>1
    <3> QED BY <3>1
  <2> QED BY <2>1
<1>3. ASSUME NEW k \in Nat, k \in S PROVE k + 1 \in S
  <2>1. PICK f : F(f, k)
    BY <1>3
  <2> DEFINE g == [d \in 0 .. k + 1 |-> IF d = k + 1 THEN PlaceStep(md, value, f, d) ELSE f[d]]
  <2>2. \A d \in 0 .. k : g[d] = f[d]
    OBVIOUS
  <2>3. ASSUME NEW d \in 0 .. k + 1 PROVE g[d] = PlaceStep(md, value, g, d)
    <3>1. d = 0 \/ f[d - 1] = g[d - 1]
      <4> HIDE DEF g
      <4> QED BY <2>2
    <3>2. PlaceStep(md, value, f, d) = PlaceStep(md, value, g, d)
      <4> HIDE DEF g
      <4> QED BY <1>1, <3>1
    <3>3. d # k + 1 => f[d] = PlaceStep(md, value, f, d)
      <4>1. d # k + 1 => d \in 0 .. k
        OBVIOUS
      <4> QED BY <2>1, <4>1
    <3>4. g[d] = IF d = k + 1 THEN PlaceStep(md, value, f, d) ELSE f[d]
      OBVIOUS
    <3> HIDE DEF g
    <3> QED BY <3>2, <3>3, <3>4
  <2>4. F(g, k + 1)
    <3>1. g = [d \in 0 .. k + 1 |-> g[d]]
      OBVIOUS
    <3> HIDE DEF g
    <3> QED BY <2>3, <3>1
  <2>5. \E f1 : F(f1, k + 1)
    <3> HIDE DEF g, F
    <3> QED BY <2>4
  <2> QED BY <2>5
<1>4. Capacity \in S
  <2>1. Capacity \in Nat
    BY SlotsAndNil
  <2> HIDE DEF S
  <2> QED BY <1>2, <1>3, <2>1, AllNumbers
<1> QED BY <1>4

LEMMA PlacesStep ==
    ASSUME NEW md, NEW value, NEW d \in 0 .. Capacity
    PROVE  Places(md, value)[d] = PlaceStep(md, value, Places(md, value), d)
<1> DEFINE F(f) == f = [c \in 0 .. Capacity |-> PlaceStep(md, value, f, c)]
<1>1. Places(md, value) = CHOOSE f : F(f)
  BY DEF Places, PlaceStep
<1>2. \E f : F(f)
  BY PlacesExists
<1>3. F(CHOOSE f : F(f))
  <2> HIDE DEF F
  <2> QED BY <1>2
<1> HIDE DEF F
<1>4. F(Places(md, value))
  BY <1>1, <1>3
<1> QED BY <1>4 DEF F

\* DecrementSize, by its rounds.
DecrementStep(md, i, f, d) ==
    IF d = 0 THEN [md |-> md, i |-> i]
    ELSE LET last == f[d - 1]
         IN  IF last.i = Nil THEN last
             ELSE [md |-> [last.md EXCEPT ![last.i].size = @ - 1],
                   i  |-> last.md[last.i].parent]

LEMMA DecrementingExists ==
    ASSUME NEW md, NEW i
    PROVE  \E f : f = [d \in 0 .. Capacity |-> DecrementStep(md, i, f, d)]
<1> DEFINE F(f, k) == f = [d \in 0 .. k |-> DecrementStep(md, i, f, d)]
           S == {k \in Nat : \E f : F(f, k)}
<1>1. \A f, g, d : d = 0 \/ f[d - 1] = g[d - 1]
                      => DecrementStep(md, i, f, d) = DecrementStep(md, i, g, d)
  BY DEF DecrementStep
<1>2. 0 \in S
  <2> DEFINE f == [d \in 0 .. 0 |-> DecrementStep(md, i, <<>>, d)]
  <2>1. F(f, 0)
    <3>1. \A d \in 0 .. 0 : DecrementStep(md, i, <<>>, d) = DecrementStep(md, i, f, d)
      <4> HIDE DEF f
      <4> QED BY <1>1
    <3> QED BY <3>1
  <2> QED BY <2>1
<1>3. ASSUME NEW k \in Nat, k \in S PROVE k + 1 \in S
  <2>1. PICK f : F(f, k)
    BY <1>3
  <2> DEFINE g == [d \in 0 .. k + 1 |-> IF d = k + 1 THEN DecrementStep(md, i, f, d) ELSE f[d]]
  <2>2. \A d \in 0 .. k : g[d] = f[d]
    OBVIOUS
  <2>3. ASSUME NEW d \in 0 .. k + 1 PROVE g[d] = DecrementStep(md, i, g, d)
    <3>1. d = 0 \/ f[d - 1] = g[d - 1]
      <4> HIDE DEF g
      <4> QED BY <2>2
    <3>2. DecrementStep(md, i, f, d) = DecrementStep(md, i, g, d)
      <4> HIDE DEF g
      <4> QED BY <1>1, <3>1
    <3>3. d # k + 1 => f[d] = DecrementStep(md, i, f, d)
      <4>1. d # k + 1 => d \in 0 .. k
        OBVIOUS
      <4> QED BY <2>1, <4>1
    <3>4. g[d] = IF d = k + 1 THEN DecrementStep(md, i, f, d) ELSE f[d]
      OBVIOUS
    <3> HIDE DEF g
    <3> QED BY <3>2, <3>3, <3>4
  <2>4. F(g, k + 1)
    <3>1. g = [d \in 0 .. k + 1 |-> g[d]]
      OBVIOUS
    <3> HIDE DEF g
    <3> QED BY <2>3, <3>1
  <2>5. \E f1 : F(f1, k + 1)
    <3> HIDE DEF g, F
    <3> QED BY <2>4
  <2> QED BY <2>5
<1>4. Capacity \in S
  <2>1. Capacity \in Nat
    BY SlotsAndNil
  <2> HIDE DEF S
  <2> QED BY <1>2, <1>3, <2>1, AllNumbers
<1> QED BY <1>4

LEMMA DecrementingStep ==
    ASSUME NEW md, NEW i, NEW d \in 0 .. Capacity
    PROVE  Decrementing(md, i)[d] = DecrementStep(md, i, Decrementing(md, i), d)
<1> DEFINE F(f) == f = [c \in 0 .. Capacity |-> DecrementStep(md, i, f, c)]
<1>1. Decrementing(md, i) = CHOOSE f : F(f)
  BY DEF Decrementing, DecrementStep
<1>2. \E f : F(f)
  BY DecrementingExists
<1>3. F(CHOOSE f : F(f))
  <2> HIDE DEF F
  <2> QED BY <1>2
<1> HIDE DEF F
<1>4. F(Decrementing(md, i))
  BY <1>1, <1>3
<1> QED BY <1>4 DEF F

\* The nodes of a subtree, by its depth.
SubtreeStep(md, f, d) ==
    IF d = 0 THEN [i \in Pointers |-> <<>>]
    ELSE [i \in Pointers |->
             IF i = Nil THEN <<>>
             ELSE <<i>> \o f[d - 1][md[i].left] \o f[d - 1][md[i].right]]

LEMMA SubtreesExists ==
    ASSUME NEW md
    PROVE  \E f : f = [d \in 0 .. Capacity + 1 |-> SubtreeStep(md, f, d)]
<1> DEFINE F(f, k) == f = [d \in 0 .. k |-> SubtreeStep(md, f, d)]
           S == {k \in Nat : \E f : F(f, k)}
<1>1. \A f, g, d : d = 0 \/ f[d - 1] = g[d - 1]
                      => SubtreeStep(md, f, d) = SubtreeStep(md, g, d)
  BY DEF SubtreeStep
<1>2. 0 \in S
  <2> DEFINE f == [d \in 0 .. 0 |-> SubtreeStep(md, <<>>, d)]
  <2>1. F(f, 0)
    <3>1. \A d \in 0 .. 0 : SubtreeStep(md, <<>>, d) = SubtreeStep(md, f, d)
      <4> HIDE DEF f
      <4> QED BY <1>1
    <3> QED BY <3>1
  <2> QED BY <2>1
<1>3. ASSUME NEW k \in Nat, k \in S PROVE k + 1 \in S
  <2>1. PICK f : F(f, k)
    BY <1>3
  <2> DEFINE g == [d \in 0 .. k + 1 |-> IF d = k + 1 THEN SubtreeStep(md, f, d) ELSE f[d]]
  <2>2. \A d \in 0 .. k : g[d] = f[d]
    OBVIOUS
  <2>3. ASSUME NEW d \in 0 .. k + 1 PROVE g[d] = SubtreeStep(md, g, d)
    <3>1. d = 0 \/ f[d - 1] = g[d - 1]
      <4> HIDE DEF g
      <4> QED BY <2>2
    <3>2. SubtreeStep(md, f, d) = SubtreeStep(md, g, d)
      <4> HIDE DEF g
      <4> QED BY <1>1, <3>1
    <3>3. d # k + 1 => f[d] = SubtreeStep(md, f, d)
      <4>1. d # k + 1 => d \in 0 .. k
        OBVIOUS
      <4> QED BY <2>1, <4>1
    <3>4. g[d] = IF d = k + 1 THEN SubtreeStep(md, f, d) ELSE f[d]
      OBVIOUS
    <3> HIDE DEF g
    <3> QED BY <3>2, <3>3, <3>4
  <2>4. F(g, k + 1)
    <3>1. g = [d \in 0 .. k + 1 |-> g[d]]
      OBVIOUS
    <3> HIDE DEF g
    <3> QED BY <2>3, <3>1
  <2>5. \E f1 : F(f1, k + 1)
    <3> HIDE DEF g, F
    <3> QED BY <2>4
  <2> QED BY <2>5
<1>4. Capacity + 1 \in S
  <2>1. Capacity + 1 \in Nat
    BY SlotsAndNil
  <2> HIDE DEF S
  <2> QED BY <1>2, <1>3, <2>1, AllNumbers
<1> QED BY <1>4

LEMMA SubtreesStep ==
    ASSUME NEW md, NEW d \in 0 .. Capacity + 1
    PROVE  Subtrees(md)[d] = SubtreeStep(md, Subtrees(md), d)
<1> DEFINE F(f) == f = [c \in 0 .. Capacity + 1 |-> SubtreeStep(md, f, c)]
<1>1. Subtrees(md) = CHOOSE f : F(f)
  BY DEF Subtrees, SubtreeStep
<1>2. \E f : F(f)
  BY SubtreesExists
<1>3. F(CHOOSE f : F(f))
  <2> HIDE DEF F
  <2> QED BY <1>2
<1> HIDE DEF F
<1>4. F(Subtrees(md))
  BY <1>1, <1>3
<1> QED BY <1>4 DEF F
------------------------------------------------------------------------------
(***************************************************************************)
(* Joining two trees: PullUp                                               *)
(***************************************************************************)

\* The links that Join makes at the node that comes up.
LinkUp(md, go_left, top, below, other) ==
    LET linked == IF go_left THEN [md EXCEPT ![top].left = below, ![top].right = other]
                  ELSE [md EXCEPT ![top].right = below, ![top].left = other]
    IN  SetParent(UpdateSize(linked, top), other, top)

LinkedUp(md, new, top, below, other) ==
    /\ new \in Links
    /\ Children(new, top) = {below, other} \ {Nil}
    /\ new[top].left = new[top].right => below = other
    /\ new[top].size = 1 + SizeOf(md, new[top].left) + SizeOf(md, new[top].right)
    /\ new[top].size = 1 + SizeOf(md, below) + SizeOf(md, other)
    /\ new[top].parent = md[top].parent
    /\ \A n \in Slots \ {top} :
          /\ new[n].left = md[n].left /\ new[n].right = md[n].right
          /\ new[n].size = md[n].size
          /\ new[n].parent = IF n = other THEN top ELSE md[n].parent
          /\ n # other => new[n] = md[n]

LEMMA LinkUpFields ==
    ASSUME NEW md \in Links, NEW go_left, NEW top \in Slots, NEW below \in Pointers,
           NEW other \in Slots, other # top, below # top,
           SizeOf(md, below) + SizeOf(md, other) < Capacity
    PROVE  LinkedUp(md, LinkUp(md, go_left, top, below, other), top, below, other)
<1> DEFINE linked == IF go_left THEN [md EXCEPT ![top].left = below, ![top].right = other]
                     ELSE [md EXCEPT ![top].right = below, ![top].left = other]
           sized == UpdateSize(linked, top)
           new == LinkUp(md, go_left, top, below, other)
<1>1. /\ other \in Pointers /\ other # Nil /\ top # Nil /\ top \in Pointers
  BY SlotsAndNil
<1>2. /\ DOMAIN linked = Slots
      /\ linked[top] = [parent |-> md[top].parent, size |-> md[top].size,
                        left |-> IF go_left THEN below ELSE other,
                        right |-> IF go_left THEN other ELSE below]
      /\ \A n \in Slots \ {top} : linked[n] = md[n]
  <2>1. md[top] = [parent |-> md[top].parent, left |-> md[top].left,
                   right |-> md[top].right, size |-> md[top].size]
    BY LinkTypes
  <2>2. DOMAIN md = Slots
    BY DEF Links
  <2>3. CASE go_left
    <3>1. linked = [md EXCEPT ![top].left = below, ![top].right = other]
      BY <2>3
    <3> HIDE DEF linked
    <3>2. linked[top] = [md[top] EXCEPT !.left = below, !.right = other]
      BY <2>2, <3>1
    <3>3. DOMAIN linked = Slots /\ \A n \in Slots \ {top} : linked[n] = md[n]
      BY <2>2, <3>1
    <3> QED BY <2>1, <2>3, <3>2, <3>3
  <2>4. CASE ~go_left
    <3>1. linked = [md EXCEPT ![top].right = below, ![top].left = other]
      BY <2>4
    <3> HIDE DEF linked
    <3>2. linked[top] = [md[top] EXCEPT !.right = below, !.left = other]
      BY <2>2, <3>1
    <3>3. DOMAIN linked = Slots /\ \A n \in Slots \ {top} : linked[n] = md[n]
      BY <2>2, <3>1
    <3> QED BY <2>1, <2>4, <3>2, <3>3
  <2> QED BY <2>3, <2>4
<1>3. \A q \in Pointers : q # top => SizeOf(linked, q) = SizeOf(md, q)
  <2> HIDE DEF linked
  <2> QED BY <1>2, SlotsAndNil DEF SizeOf
<1>4. /\ SizeOf(md, below) \in Nat /\ SizeOf(md, other) \in Nat
  BY <1>1, SizeTypes
<1>5. 1 + SizeOf(linked, linked[top].left) + SizeOf(linked, linked[top].right)
        = 1 + SizeOf(md, below) + SizeOf(md, other)
  <2>1. CASE go_left
    <3>1. linked[top].left = below /\ linked[top].right = other
      BY <1>2, <2>1
    <3> HIDE DEF linked
    <3> QED BY <1>1, <1>3, <3>1
  <2>2. CASE ~go_left
    <3>1. linked[top].left = other /\ linked[top].right = below
      BY <1>2, <2>2
    <3> HIDE DEF linked
    <3> QED BY <1>1, <1>3, <1>4, <3>1
  <2> QED BY <2>1, <2>2
<1>6. /\ DOMAIN sized = Slots
      /\ sized[top] = [parent |-> md[top].parent,
                       size |-> 1 + SizeOf(md, below) + SizeOf(md, other),
                       left |-> IF go_left THEN below ELSE other,
                       right |-> IF go_left THEN other ELSE below]
      /\ \A n \in Slots \ {top} : sized[n] = md[n]
  <2> HIDE DEF linked
  <2> QED BY <1>2, <1>5 DEF UpdateSize
<1>7. new = [sized EXCEPT ![other].parent = top]
  <2>1. new = SetParent(sized, other, top)
    BY DEF LinkUp
  <2> HIDE DEF sized, new
  <2> QED BY <1>1, <2>1 DEF SetParent
<1> HIDE DEF linked, sized, new
<1>8. /\ DOMAIN new = Slots
      /\ new[top] = sized[top]
      /\ new[other] = [md[other] EXCEPT !.parent = top]
      /\ \A n \in Slots \ {top, other} : new[n] = md[n]
  BY <1>6, <1>7
<1>9. new[other] = [parent |-> top, left |-> md[other].left, right |-> md[other].right,
                    size |-> md[other].size]
  BY <1>8, LinkTypes
<1>10. /\ new[top].parent = md[top].parent
       /\ new[top].size = 1 + SizeOf(md, below) + SizeOf(md, other)
       /\ new[top].left = IF go_left THEN below ELSE other
       /\ new[top].right = IF go_left THEN other ELSE below
  BY <1>6, <1>8
<1>11. new \in Links
  <2>1. ASSUME NEW n \in Slots
        PROVE  new[n] \in [parent : Pointers, left : Pointers, right : Pointers,
                           size : 0 .. Capacity]
    <3>1. CASE n = top
      <4>1. 1 + SizeOf(md, below) + SizeOf(md, other) \in 0 .. Capacity
        BY <1>4, SlotsAndNil
      <4>2. md[top].parent \in Pointers
        BY LinkTypes
      <4> QED BY <1>1, <1>6, <1>8, <3>1, <4>1, <4>2
    <3>2. CASE n = other
      BY <1>1, <1>9, <3>2, LinkTypes
    <3>3. CASE n # top /\ n # other
      BY <1>8, <3>3, LinkTypes
    <3> QED BY <3>1, <3>2, <3>3
  <2>2. new = [n \in Slots |-> new[n]]
    BY <1>7, <1>6
  <2> QED BY <2>1, <2>2 DEF Links
<1>12. Children(new, top) = {below, other} \ {Nil}
  BY <1>10 DEF Children
<1>13. new[top].size = 1 + SizeOf(md, new[top].left) + SizeOf(md, new[top].right)
  BY <1>4, <1>10
<1>14. \A n \in Slots \ {top} :
          /\ new[n].left = md[n].left /\ new[n].right = md[n].right
          /\ new[n].size = md[n].size
          /\ new[n].parent = IF n = other THEN top ELSE md[n].parent
          /\ n # other => new[n] = md[n]
  BY <1>8, <1>9
<1> QED BY <1>10, <1>11, <1>12, <1>13, <1>14 DEF new, LinkedUp

\* l and r are roots of the forest, or Nil, and their trees are whole: only nodes
\* too large to be in them may point out of the forest.
Joinable(md, value, N, R, l, r) ==
    /\ Forest(md, value, N, R)
    /\ l \in Pointers /\ r \in Pointers /\ {l, r} \ {Nil} \subseteq R
    /\ l = r => l = Nil
    /\ SizeOf(md, l) + SizeOf(md, r) <= Capacity
    /\ \A n \in N : md[n].size <= SizeOf(md, l) + SizeOf(md, r) => Children(md, n) \subseteq N

\* What PullUp returns: one root instead of the two, with all the nodes of both
\* below it; the nodes that are not in their trees are as they were.
Joined(md, value, N, R, l, r, j) ==
    /\ Forest(j.md, value, N, (R \ {l, r}) \cup ({j.top} \ {Nil}))
    /\ j.top \in {l, r} /\ (j.top = Nil => l = Nil /\ r = Nil)
    /\ SizeOf(j.md, j.top) = SizeOf(md, l) + SizeOf(md, r)
    /\ j.top # Nil => j.md[j.top].parent = md[j.top].parent
    /\ \A n \in Slots : (\/ n \notin N \/ n \in R \ {l, r}
                         \/ md[n].size > SizeOf(md, l) + SizeOf(md, r))
                           => j.md[n] = md[n]
    /\ \A n \in N : Children(md, n) \subseteq N => Children(j.md, n) \subseteq N

LEMMA JoinedNone ==
    ASSUME NEW md, NEW value, NEW N, NEW R, NEW l, NEW r, Joinable(md, value, N, R, l, r),
           l = Nil \/ r = Nil
    PROVE  Joined(md, value, N, R, l, r, [md |-> md, top |-> IF l = Nil THEN r ELSE l])
<1> DEFINE top == IF l = Nil THEN r ELSE l
<1>1. /\ md \in Links /\ N \subseteq Slots /\ R \subseteq N
      /\ l \in Pointers /\ r \in Pointers /\ {l, r} \ {Nil} \subseteq R
      /\ Forest(md, value, N, R)
  BY DEF Joinable, Forest, Linked
<1>2. (R \ {l, r}) \cup ({top} \ {Nil}) = R
  BY <1>1, SlotsAndNil
<1>3. /\ SizeOf(md, l) \in Nat /\ SizeOf(md, r) \in Nat /\ SizeOf(md, Nil) = 0
  BY <1>1, SizeTypes DEF SizeOf
<1>4. SizeOf(md, top) = SizeOf(md, l) + SizeOf(md, r)
  BY <1>3
<1>5. top \in {l, r} /\ (top = Nil => l = Nil /\ r = Nil)
  OBVIOUS
<1> HIDE DEF top
<1>6. Joined(md, value, N, R, l, r, [md |-> md, top |-> top])
  BY <1>1, <1>2, <1>4, <1>5 DEF Joined
<1> QED BY <1>6 DEF top

\* The roots' order does not matter.
LEMMA JoinedSwap ==
    ASSUME NEW md, NEW value, NEW N, NEW R, NEW l, NEW r, md \in Links,
           l \in Pointers, r \in Pointers
    PROVE  /\ Joinable(md, value, N, R, l, r) => Joinable(md, value, N, R, r, l)
           /\ \A j : Joined(md, value, N, R, r, l, j) => Joined(md, value, N, R, l, r, j)
<1>1. /\ SizeOf(md, l) \in Nat /\ SizeOf(md, r) \in Nat
      /\ SizeOf(md, l) + SizeOf(md, r) = SizeOf(md, r) + SizeOf(md, l)
  BY SizeTypes
<1>2. {l, r} = {r, l}
  OBVIOUS
<1>3. Joinable(md, value, N, R, l, r) => Joinable(md, value, N, R, r, l)
  BY <1>1, <1>2 DEF Joinable
<1>4. \A j : Joined(md, value, N, R, r, l, j) => Joined(md, value, N, R, l, r, j)
  BY <1>1, <1>2 DEF Joined
<1> QED BY <1>3, <1>4

\* The children of a root that comes up can be joined in their turn.
LEMMA JoinBelow ==
    ASSUME NEW md, NEW value, NEW N, NEW R, NEW top, NEW other,
           Joinable(md, value, N, R, top, other), top # Nil, other # Nil
    PROVE  /\ Children(md, top) \subseteq N
           /\ Joinable(md, value, N \ {top}, (R \ {top}) \cup Children(md, top),
                       md[top].left, md[top].right)
           /\ SizeOf(md, md[top].left) + SizeOf(md, md[top].right) + 1 = SizeOf(md, top)
           /\ SizeOf(md, top) \in Nat /\ SizeOf(md, other) \in Nat
           /\ SizeOf(md, other) >= 1
           /\ SizeOf(md, md[top].left) \in Nat /\ SizeOf(md, md[top].right) \in Nat
<1> DEFINE l == md[top].left
           r == md[top].right
           M == N \ {top}
           Q == (R \ {top}) \cup Children(md, top)
<1>1. /\ Forest(md, value, N, R) /\ md \in Links /\ Sized(md, N, Nil)
      /\ R \subseteq N /\ N \subseteq Slots /\ top \in R /\ other \in R
      /\ SizeOf(md, top) + SizeOf(md, other) <= Capacity
  BY DEF Joinable, Forest, Linked
<1>2. /\ l \in Pointers /\ r \in Pointers
      /\ SizeOf(md, l) \in Nat /\ SizeOf(md, r) \in Nat
      /\ SizeOf(md, top) = md[top].size /\ SizeOf(md, other) = md[other].size
      /\ md[top].size \in Nat /\ md[other].size \in Nat /\ md[other].size >= 1
  BY <1>1, Larger, LinkTypes DEF SizeOf
<1>3. md[top].size = 1 + SizeOf(md, l) + SizeOf(md, r)
  BY <1>1, SlotsAndNil DEF Sized
<1>4. Children(md, top) \subseteq N
  <2>1. md[top].size <= SizeOf(md, top) + SizeOf(md, other)
    BY <1>2
  <2> QED BY <1>1, <2>1 DEF Joinable
<1>5. Children(md, top) \cap N = Children(md, top)
  BY <1>4
<1>6. Forest(md, value, M, Q)
  BY <1>1, <1>5, Fell
<1>7. {l, r} \ {Nil} \subseteq Q
  BY DEF Children
<1>8. l = r => l = Nil
  BY <1>1 DEF Forest, Linked
<1>9. ASSUME NEW n \in M, md[n].size <= SizeOf(md, l) + SizeOf(md, r)
      PROVE  Children(md, n) \subseteq M
  <2>1. n \in N /\ md[n].size \in Nat
    BY <1>1, LinkTypes
  <2>2. md[n].size <= SizeOf(md, top) + SizeOf(md, other)
    BY <1>2, <1>3, <1>9, <2>1
  <2>3. Children(md, n) \subseteq N
    BY <2>1, <2>2 DEF Joinable
  <2>4. top \notin Children(md, n)
    BY <1>1, <2>1 DEF Forest, Linked
  <2> QED BY <2>3, <2>4
<1>10. SizeOf(md, l) + SizeOf(md, r) <= Capacity
  BY <1>1, <1>2, <1>3, SlotsAndNil
<1>11. SizeOf(md, l) + SizeOf(md, r) + 1 = SizeOf(md, top)
  BY <1>2, <1>3
<1> HIDE DEF l, r, M, Q
<1>12. Joinable(md, value, M, Q, l, r)
  BY <1>2, <1>6, <1>7, <1>8, <1>9, <1>10 DEF Joinable
<1> QED BY <1>2, <1>4, <1>11, <1>12 DEF l, r, M, Q

\* One root comes up above the other and what has been joined below it.
LEMMA JoinOne ==
    ASSUME NEW md, NEW value, NEW N, NEW R, NEW top, NEW other, NEW pulled, NEW go_left,
           Joinable(md, value, N, R, top, other), top # Nil, other # Nil,
           value[other] <= value[top],
           Joined(md, value, N \ {top}, (R \ {top}) \cup Children(md, top),
                  md[top].left, md[top].right, pulled)
    PROVE  Joined(md, value, N, R, top, other,
                  [md |-> LinkUp(pulled.md, go_left, top, pulled.top, other), top |-> top])
<1> DEFINE l == md[top].left
           r == md[top].right
           M == N \ {top}
           Q == (R \ {top}) \cup Children(md, top)
           p == pulled.top
           md1 == pulled.md
           Q1 == (Q \ {l, r}) \cup ({p} \ {Nil})
           new == LinkUp(md1, go_left, top, p, other)
           K == {p, other} \ {Nil}
           sum == SizeOf(md, top) + SizeOf(md, other)
           under == SizeOf(md, l) + SizeOf(md, r)
<1>1. /\ Forest(md, value, N, R) /\ md \in Links
      /\ R \subseteq N /\ N \subseteq Slots /\ top \in R /\ other \in R /\ top # other
      /\ sum <= Capacity
  BY DEF Joinable, Forest, Linked
<1>2. /\ Children(md, top) \subseteq N /\ Joinable(md, value, M, Q, l, r)
      /\ under + 1 = SizeOf(md, top) /\ under \in Nat
      /\ SizeOf(md, top) \in Nat /\ SizeOf(md, other) \in Nat /\ SizeOf(md, other) >= 1
  <2>1. /\ Children(md, top) \subseteq N /\ Joinable(md, value, M, Q, l, r)
        /\ SizeOf(md, l) + SizeOf(md, r) + 1 = SizeOf(md, top)
        /\ SizeOf(md, l) \in Nat /\ SizeOf(md, r) \in Nat
        /\ SizeOf(md, top) \in Nat /\ SizeOf(md, other) \in Nat
        /\ SizeOf(md, other) >= 1
    BY JoinBelow
  <2> HIDE DEF l, r, M, Q
  <2> QED BY <2>1
<1>3. /\ Forest(md1, value, M, Q1) /\ p \in {l, r} /\ (p = Nil => l = Nil /\ r = Nil)
      /\ SizeOf(md1, p) = under
      /\ p # Nil => md1[p].parent = md[p].parent
      /\ \A n \in Slots : n \notin M \/ n \in Q \ {l, r} \/ md[n].size > under
                             => md1[n] = md[n]
      /\ \A n \in M : Children(md, n) \subseteq M => Children(md1, n) \subseteq M
  BY DEF Joined
<1>4. /\ l \in Pointers /\ r \in Pointers /\ p \in Pointers /\ md1 \in Links
  BY <1>1, <1>3, LinkTypes DEF Forest, Linked
<1>5. \A c \in Children(md, top) : c \notin R /\ c # top /\ value[c] <= value[top]
                                      /\ md[c].parent = top
  BY <1>1, <1>2 DEF Forest, Linked
<1>6. Q \ {l, r} = R \ {top}
  <2>1. Children(md, top) \subseteq {l, r} /\ {l, r} \ {Nil} = Children(md, top)
    BY DEF Children
  <2>2. Nil \notin R
    BY <1>1, SlotsAndNil
  <2>3. \A n \in R : n \notin {l, r}
    BY <1>5, <2>1, <2>2
  <2> QED BY <2>1, <2>3
<1>7. p # Nil => p \in Children(md, top) /\ p \in M /\ p # other /\ md1[p].parent = top
  <2>1. p # Nil => p \in Children(md, top)
    BY <1>3 DEF Children
  <2> QED BY <1>1, <1>2, <1>3, <1>5, <2>1
<1>8. /\ md1[other] = md[other] /\ md1[top] = md[top]
      /\ SizeOf(md1, other) = SizeOf(md, other)
  <2>1. other \in Q \ {l, r} /\ other \in Slots /\ top \in Slots /\ top \notin M
    BY <1>1, <1>6
  <2> HIDE DEF Q, M, l, r, under, md1
  <2> QED BY <1>3, <2>1 DEF SizeOf
<1>9. SizeOf(md1, p) + SizeOf(md1, other) < Capacity
  BY <1>1, <1>2, <1>3, <1>8, SlotsAndNil
<1>10. /\ p # top /\ top \in Slots /\ other \in Slots
  BY <1>1, <1>7, SlotsAndNil
<1> HIDE DEF l, r, M, Q, p, md1, under
<1>11. /\ new \in Links
       /\ Children(new, top) = K
       /\ new[top].left = new[top].right => p = other
       /\ new[top].size = 1 + SizeOf(md1, new[top].left) + SizeOf(md1, new[top].right)
       /\ new[top].size = 1 + SizeOf(md1, p) + SizeOf(md1, other)
       /\ new[top].parent = md1[top].parent
       /\ \A n \in Slots \ {top} :
             /\ new[n].left = md1[n].left /\ new[n].right = md1[n].right
             /\ new[n].size = md1[n].size
             /\ new[n].parent = IF n = other THEN top ELSE md1[n].parent
             /\ n # other => new[n] = md1[n]
  <2>1. LinkedUp(md1, new, top, p, other)
    BY <1>1, <1>4, <1>9, <1>10, LinkUpFields
  <2> HIDE DEF new
  <2> QED BY <2>1 DEF LinkedUp
<1> HIDE DEF new
<1>12. ASSUME NEW n \in M PROVE top \notin Children(md1, n) /\ top \notin Children(md, n)
  <2>1. n \in N /\ n \in Slots /\ top \notin M
    BY <1>1 DEF M
  <2>2. top \notin Children(md, n)
    BY <1>1, <2>1 DEF Forest, Linked
  <2>3. CASE md[n].size > under
    BY <1>3, <2>1, <2>2, <2>3 DEF Children
  <2>4. CASE ~(md[n].size > under)
    <3>1. md[n].size \in Nat
      BY <1>1, <2>1, LinkTypes
    <3>2. md[n].size <= SizeOf(md, l) + SizeOf(md, r)
      BY <1>2, <2>4, <3>1 DEF under
    <3>3. Children(md, n) \subseteq M
      BY <1>2, <3>2 DEF Joinable
    <3> QED BY <1>3, <2>1, <2>2, <3>3
  <2> QED BY <2>3, <2>4
<1>13. K \subseteq Q1 /\ Q1 \ K = R \ {top, other}
  BY <1>1, <1>3, <1>5, <1>6, <1>7
<1>14. \A k \in K : value[k] <= value[top]
  BY <1>5, <1>7
<1>15. \A n \in Slots \ {top} : new[n].parent = IF n \in K THEN top ELSE md1[n].parent
  BY <1>7, <1>11
<1>16. Above(md1, new, value, M, K, top)
  <2>1. new[top].left = new[top].right => new[top].left = Nil
    BY <1>1, <1>7, <1>10, <1>11, SlotsAndNil
  <2>2. top \in Slots \ M
    BY <1>10 DEF M
  <2> QED BY <1>11, <1>12, <1>14, <1>15, <2>1, <2>2 DEF Above
<1>17. Forest(new, value, N, (R \ {top, other}) \cup ({top} \ {Nil}))
  <2>1. Forest(new, value, M \cup {top}, (Q1 \ K) \cup {top})
    BY <1>3, <1>13, <1>16, Plant
  <2>2. M \cup {top} = N /\ {top} \ {Nil} = {top}
    BY <1>1 DEF M
  <2> QED BY <1>13, <2>1, <2>2
<1>18. SizeOf(new, top) = sum
  <2>1. SizeOf(new, top) = new[top].size
    BY DEF SizeOf
  <2> QED BY <1>2, <1>3, <1>8, <1>11, <2>1
<1>19. ASSUME NEW n \in Slots, n \notin N \/ n \in R \ {top, other} \/ md[n].size > sum
       PROVE  new[n] = md[n]
  <2>1. md[n].size \in Nat /\ md[top].size = SizeOf(md, top)
        /\ md[other].size = SizeOf(md, other)
    BY <1>1, LinkTypes DEF SizeOf
  <2>2. n # top /\ n # other
    BY <1>1, <1>2, <1>19, <2>1
  <2>3. n \notin M \/ n \in Q \ {l, r} \/ md[n].size > under
    <3>1. n \notin N => n \notin M
      BY DEF M
    <3>2. md[n].size > sum => md[n].size > under
      BY <1>2, <2>1
    <3> QED BY <1>6, <1>19, <3>1, <3>2
  <2>4. md1[n] = md[n]
    BY <1>3, <2>3
  <2> QED BY <1>11, <2>2, <2>4
<1>20. ASSUME NEW n \in N, Children(md, n) \subseteq N
       PROVE  Children(new, n) \subseteq N
  <2>1. CASE n = top
    BY <1>1, <1>7, <1>11, <2>1 DEF M
  <2>2. CASE n # top
    <3>1. n \in M
      BY <2>2 DEF M
    <3>2. Children(md, n) \subseteq M
      BY <1>12, <1>20, <3>1 DEF M
    <3>3. Children(md1, n) \subseteq M
      BY <1>3, <3>1, <3>2
    <3>4. Children(new, n) = Children(md1, n)
      BY <1>1, <1>11, <2>2 DEF Children
    <3> QED BY <3>3, <3>4 DEF M
  <2> QED BY <2>1, <2>2
<1>21. new[top].parent = md[top].parent
  BY <1>8, <1>11
<1>22. Joined(md, value, N, R, top, other, [md |-> new, top |-> top])
  BY <1>17, <1>18, <1>19, <1>20, <1>21 DEF Joined
<1> QED BY <1>22 DEF new, p, md1

\* The two roots of a joint, by which of them comes up.
LEMMA JoinTwo ==
    ASSUME NEW md, NEW value, NEW N, NEW R, NEW l, NEW r, NEW below,
           Joinable(md, value, N, R, l, r), l # Nil, r # Nil,
           \A top \in {l, r} :
              Joined(md, value, N \ {top}, (R \ {top}) \cup Children(md, top),
                     md[top].left, md[top].right, below[md[top].left][md[top].right])
    PROVE  Joined(md, value, N, R, l, r, Join(md, value, below, l, r))
<1> DEFINE Pulled(top) == below[md[top].left][md[top].right]
<1>1. /\ md \in Links /\ value \in [Slots -> Int] /\ l \in Slots /\ r \in Slots
      /\ l \in Pointers /\ r \in Pointers
  BY SlotsAndNil DEF Joinable, Forest, Linked
<1>2. value[l] \in Int /\ value[r] \in Int
  BY <1>1
<1>3. CASE value[l] > value[r]
  <2>1. Join(md, value, below, l, r)
          = [md |-> LinkUp(Pulled(l).md, TRUE, l, Pulled(l).top, r), top |-> l]
    BY <1>3 DEF Join, LinkUp
  <2>2. value[r] <= value[l]
    BY <1>2, <1>3
  <2> HIDE DEF Pulled
  <2>3. Joined(md, value, N \ {l}, (R \ {l}) \cup Children(md, l),
               md[l].left, md[l].right, Pulled(l))
    BY DEF Pulled
  <2> QED BY <2>1, <2>2, <2>3, JoinOne
<1>4. CASE ~(value[l] > value[r])
  <2>1. Join(md, value, below, l, r)
          = [md |-> LinkUp(Pulled(r).md, FALSE, r, Pulled(r).top, l), top |-> r]
    BY <1>4 DEF Join, LinkUp
  <2>2. value[l] <= value[r]
    BY <1>2, <1>4
  <2> HIDE DEF Pulled
  <2>3. Joined(md, value, N \ {r}, (R \ {r}) \cup Children(md, r),
               md[r].left, md[r].right, Pulled(r))
    BY DEF Pulled
  <2>4. Joinable(md, value, N, R, r, l)
    BY <1>1, JoinedSwap
  <2>5. Joined(md, value, N, R, r, l,
               [md |-> LinkUp(Pulled(r).md, FALSE, r, Pulled(r).top, l), top |-> r])
    BY <2>2, <2>3, <2>4, JoinOne
  <2> QED BY <1>1, <2>1, <2>5, JoinedSwap
<1> QED BY <1>3, <1>4

LEMMA JoinsDeep ==
    ASSUME NEW md, NEW value
    PROVE  \A d \in 0 .. Capacity : \A N, R, l, r :
              (/\ Joinable(md, value, N, R, l, r)
               /\ SizeOf(md, l) + SizeOf(md, r) <= d)
                 => Joined(md, value, N, R, l, r, Joins(md, value)[d][l][r])
<1> DEFINE P(d, N, R, l, r) == (/\ Joinable(md, value, N, R, l, r)
                                /\ SizeOf(md, l) + SizeOf(md, r) <= d)
                                  => Joined(md, value, N, R, l, r, Joins(md, value)[d][l][r])
           S == {d \in Nat : d <= Capacity => \A N, R, l, r : P(d, N, R, l, r)}
<1>1. \A d \in 0 .. Capacity : Joins(md, value)[d] = JoinStep(md, value, Joins(md, value), d)
  BY JoinsStep
<1>2. ASSUME NEW N, NEW R, NEW l, NEW r, Joinable(md, value, N, R, l, r)
      PROVE  /\ l \in Pointers /\ r \in Pointers
             /\ SizeOf(md, l) \in Nat /\ SizeOf(md, r) \in Nat
             /\ l # Nil => SizeOf(md, l) >= 1
             /\ r # Nil => SizeOf(md, r) >= 1
  <2>1. /\ l \in Pointers /\ r \in Pointers /\ md \in Links /\ N \subseteq Slots
        /\ Sized(md, N, Nil) /\ {l, r} \ {Nil} \subseteq N
    BY <1>2 DEF Joinable, Forest, Linked
  <2>2. SizeOf(md, l) \in Nat /\ SizeOf(md, r) \in Nat
    BY <2>1, SizeTypes
  <2>3. ASSUME NEW q \in N PROVE md[q].size >= 1
    BY <2>1, Larger
  <2> QED BY <2>1, <2>2, <2>3 DEF SizeOf
<1>3. 0 \in S
  <2> SUFFICES ASSUME NEW N, NEW R, NEW l, NEW r, Joinable(md, value, N, R, l, r),
                      SizeOf(md, l) + SizeOf(md, r) <= 0
               PROVE  Joined(md, value, N, R, l, r, Joins(md, value)[0][l][r])
    OBVIOUS
  <2>1. l = Nil /\ r = Nil
    BY <1>2
  <2>2. Joins(md, value)[0] = JoinStep(md, value, Joins(md, value), 0)
    BY <1>1, SlotsAndNil
  <2>3. Joins(md, value)[0][l][r] = [md |-> md, top |-> Nil]
    BY <1>2, <2>2 DEF JoinStep
  <2> QED BY <2>1, <2>3, JoinedNone
<1>4. ASSUME NEW d \in Nat, d \in S PROVE d + 1 \in S
  <2> SUFFICES ASSUME d + 1 <= Capacity, NEW N, NEW R, NEW l, NEW r,
                      Joinable(md, value, N, R, l, r),
                      SizeOf(md, l) + SizeOf(md, r) <= d + 1
               PROVE  Joined(md, value, N, R, l, r, Joins(md, value)[d + 1][l][r])
    OBVIOUS
  <2> DEFINE below == Joins(md, value)[d]
  <2>1. Joins(md, value)[d + 1] = JoinStep(md, value, Joins(md, value), d + 1)
    BY <1>1, SlotsAndNil
  <2>2. Joins(md, value)[d + 1][l][r] = Join(md, value, below, l, r)
    <3>1. d + 1 # 0 /\ (d + 1) - 1 = d
      OBVIOUS
    <3> QED BY <1>2, <2>1, <3>1 DEF JoinStep
  <2>3. CASE l = Nil \/ r = Nil
    <3>1. Join(md, value, below, l, r) = [md |-> md, top |-> IF l = Nil THEN r ELSE l]
      BY <2>3 DEF Join
    <3> QED BY <2>2, <2>3, <3>1, JoinedNone
  <2>4. CASE l # Nil /\ r # Nil
    <3>1. \A M, Q, a, b : (/\ Joinable(md, value, M, Q, a, b)
                           /\ SizeOf(md, a) + SizeOf(md, b) <= d)
                             => Joined(md, value, M, Q, a, b, below[a][b])
      BY <1>4, SlotsAndNil
    <3> HIDE DEF below
    <3>2. ASSUME NEW top \in {l, r}
          PROVE  Joined(md, value, N \ {top}, (R \ {top}) \cup Children(md, top),
                        md[top].left, md[top].right, below[md[top].left][md[top].right])
      <4> DEFINE other == IF top = l THEN r ELSE l
      <4>1. Joinable(md, value, N, R, top, other) /\ other # Nil /\ top # Nil
        <5>1. md \in Links
          BY DEF Joinable, Forest, Linked
        <5>2. l # r
          BY <2>4 DEF Joinable
        <5> QED BY <1>2, <2>4, <5>1, <5>2, JoinedSwap
      <4>2. SizeOf(md, top) + SizeOf(md, other) <= d + 1
        BY <1>2
      <4> HIDE DEF other
      <4>3. /\ Joinable(md, value, N \ {top}, (R \ {top}) \cup Children(md, top),
                        md[top].left, md[top].right)
            /\ SizeOf(md, md[top].left) + SizeOf(md, md[top].right) + 1 = SizeOf(md, top)
            /\ SizeOf(md, top) \in Nat /\ SizeOf(md, other) \in Nat
            /\ SizeOf(md, other) >= 1
            /\ SizeOf(md, md[top].left) \in Nat /\ SizeOf(md, md[top].right) \in Nat
        BY <4>1, JoinBelow
      <4>4. SizeOf(md, md[top].left) + SizeOf(md, md[top].right) <= d
        BY <4>2, <4>3
      <4> QED BY <3>1, <4>3, <4>4
    <3>3. Joined(md, value, N, R, l, r, Join(md, value, below, l, r))
      BY <2>4, <3>2, JoinTwo
    <3> QED BY <2>2, <3>3 DEF below
  <2> QED BY <2>3, <2>4
<1>5. \A d \in Nat : d \in S
  <2> HIDE DEF S
  <2> QED BY <1>3, <1>4, AllNumbers
<1> QED BY <1>5, SlotsAndNil

LEMMA PullUpJoins ==
    ASSUME NEW md, NEW value, NEW N, NEW R, NEW l, NEW r, Joinable(md, value, N, R, l, r)
    PROVE  Joined(md, value, N, R, l, r, PullUp(md, value, l, r))
<1>1. SizeOf(md, l) + SizeOf(md, r) <= Capacity /\ Capacity \in 0 .. Capacity
  BY SlotsAndNil DEF Joinable
<1> QED BY <1>1, JoinsDeep DEF PullUp
------------------------------------------------------------------------------
(***************************************************************************)
(* Inserting a node: InsertNode                                            *)
(***************************************************************************)

\* new is no node of the forest, in which no node points elsewhere.
Placeable(md, value, N, R, head, new) ==
    /\ Forest(md, value, N, R)
    /\ head \in R /\ new \in Slots \ N
    /\ md[head].size < Capacity
    /\ \A n \in N : Children(md, n) \subseteq N

\* What InsertNode returns: one of the two is the root in the place of head, and
\* the tree has grown by one; the other roots are as they were.
Placed(md, value, N, R, head, new, j) ==
    /\ Forest(j.md, value, N \cup {new}, (R \ {head}) \cup {j.top})
    /\ \A n \in N \cup {new} : Children(j.md, n) \subseteq N \cup {new}
    /\ j.top \in {head, new}
    /\ j.md[j.top].size = md[head].size + 1
    /\ j.md[j.top].parent \in {md[head].parent, md[new].parent}
    /\ \A n \in Slots : n \notin N \cup {new} \/ n \in R \ {head} => j.md[n] = md[n]

\* Of the head and the new node the greater stays, the other goes down; without
\* head its children are roots.
Parent(value, head, new) == IF value[head] < value[new] THEN new ELSE head
Descend(value, head, new) == IF value[head] < value[new] THEN head ELSE new
Under(md, R, head) == (R \ {head}) \cup Children(md, head)

Parted(md, value, N, R, head, new, parent, descend) ==
    LET M == N \ {head}
    IN  /\ {parent, descend} = {head, new} /\ parent # descend
        /\ parent \in Slots \ M /\ descend \in Slots \ M
        /\ head \in N /\ head \in Slots /\ new \in Slots
        /\ (M \cup {descend}) \cup {parent} = N \cup {new}
        /\ value[descend] <= value[parent]
        /\ \A c \in Children(md, head) : value[c] <= value[parent] /\ c \in M /\ c \notin R
        /\ Forest(md, value, M, Under(md, R, head))
        /\ \A n \in M : Children(md, n) \subseteq M

LEMMA ParentDescend ==
    ASSUME NEW md, NEW value, NEW N, NEW R, NEW head, NEW new,
           Placeable(md, value, N, R, head, new)
    PROVE  Parted(md, value, N, R, head, new,
                  Parent(value, head, new), Descend(value, head, new))
<1> DEFINE parent == Parent(value, head, new)
           descend == Descend(value, head, new)
           M == N \ {head}
<1>1. /\ Forest(md, value, N, R) /\ md \in Links /\ value \in [Slots -> Int]
      /\ R \subseteq N /\ N \subseteq Slots /\ head \in R /\ new \in Slots /\ new \notin N
  BY DEF Placeable, Forest, Linked
<1>2. value[head] \in Int /\ value[new] \in Int /\ \A n \in N : value[n] \in Int
  BY <1>1
<1>3. /\ {parent, descend} = {head, new} /\ parent # descend
      /\ value[descend] <= value[parent] /\ value[head] <= value[parent]
  BY <1>1, <1>2 DEF Parent, Descend
<1>4. value[parent] \in Int
  BY <1>2, <1>3
<1>5. \A c \in Children(md, head) : c \in N /\ c \notin R /\ value[c] <= value[head]
  BY <1>1 DEF Placeable, Forest, Linked
<1>6. \A c \in Children(md, head) : value[c] <= value[parent] /\ c \in M /\ c \notin R
  BY <1>1, <1>2, <1>3, <1>4, <1>5
<1>7. Children(md, head) \cap N = Children(md, head)
  BY <1>5
<1>8. Forest(md, value, M, Under(md, R, head))
  BY <1>1, <1>7, Fell DEF Under
<1>9. ASSUME NEW n \in M PROVE Children(md, n) \subseteq M
  <2>1. Children(md, n) \subseteq N
    BY DEF Placeable
  <2>2. head \notin Children(md, n)
    BY <1>1 DEF Forest, Linked
  <2> QED BY <2>1, <2>2
<1> HIDE DEF parent, descend
<1>10. /\ parent \in Slots \ M /\ descend \in Slots \ M
       /\ (M \cup {descend}) \cup {parent} = N \cup {new}
  BY <1>1, <1>3
<1>11. Parted(md, value, N, R, head, new, parent, descend)
  BY <1>1, <1>3, <1>6, <1>8, <1>9, <1>10 DEF Parted
<1> QED BY <1>11 DEF parent, descend

\* The node that stays is linked to its new children.
Settled(md, new, parent, left, right) ==
    /\ new \in Links
    /\ new[parent].left = left /\ new[parent].right = right /\ left # right
    /\ \A n \in Slots \ {parent} :
          /\ new[n].left = md[n].left /\ new[n].right = md[n].right
          /\ new[n].size = md[n].size
          /\ new[n].parent = IF n \in {left, right} THEN parent ELSE md[n].parent
          /\ n \notin {left, right} => new[n] = md[n]

\* What the node that goes down has become part of.
Descended(md, value, N, R, head, new, md1, left, right) ==
    LET parent == Parent(value, head, new)
        descend == Descend(value, head, new)
        M == (N \ {head}) \cup {descend}
        K == {left, right} \ {Nil}
    IN  /\ Forest(md1, value, M, (R \ {head}) \cup K)
        /\ \A n \in M : Children(md1, n) \subseteq M
        /\ \A n \in Slots : n \notin N \cup {new} \/ n \in R \ {head} => md1[n] = md[n]
        /\ \A k \in K : k \notin R \ {head} /\ value[k] <= value[parent]
        /\ md[head].size + 1 = 1 + SizeOf(md1, left) + SizeOf(md1, right)

LEMMA PlaceAbove ==
    ASSUME NEW md, NEW value, NEW N, NEW R, NEW head, NEW new, NEW md1, NEW md2,
           NEW left, NEW right,
           Placeable(md, value, N, R, head, new),
           Descended(md, value, N, R, head, new, md1, left, right),
           Settled(md1, md2, Parent(value, head, new), left, right),
           md2[Parent(value, head, new)].size = md[head].size + 1,
           md2[Parent(value, head, new)].parent \in {md[head].parent, md[new].parent}
    PROVE  Placed(md, value, N, R, head, new, [md |-> md2, top |-> Parent(value, head, new)])
<1> DEFINE parent == Parent(value, head, new)
           descend == Descend(value, head, new)
           M == (N \ {head}) \cup {descend}
           K == {left, right} \ {Nil}
           Q == (R \ {head}) \cup K
<1>1. /\ {parent, descend} = {head, new} /\ parent # descend
      /\ parent \in Slots \ M /\ head \in N /\ M \cup {parent} = N \cup {new}
  <2>1. /\ {parent, descend} = {head, new} /\ parent # descend
        /\ parent \in Slots \ (N \ {head}) /\ head \in N
        /\ M \cup {parent} = N \cup {new}
    <3>1. Parted(md, value, N, R, head, new, parent, descend)
      BY ParentDescend
    <3> HIDE DEF parent, descend
    <3> QED BY <3>1 DEF Parted
  <2> HIDE DEF parent, descend
  <2> QED BY <2>1
<1>2. /\ Forest(md1, value, M, Q)
      /\ \A n \in M : Children(md1, n) \subseteq M
      /\ \A n \in Slots : n \notin N \cup {new} \/ n \in R \ {head} => md1[n] = md[n]
      /\ \A k \in K : k \notin R \ {head} /\ value[k] <= value[parent]
      /\ md[head].size + 1 = 1 + SizeOf(md1, left) + SizeOf(md1, right)
  BY DEF Descended
<1>3. /\ Settled(md1, md2, parent, left, right)
      /\ md2[parent].size = md[head].size + 1
      /\ md2[parent].parent \in {md[head].parent, md[new].parent}
  OBVIOUS
<1>4. R \subseteq N /\ N \subseteq Slots /\ M \subseteq Slots /\ Q \subseteq M /\ new \notin N
  BY <1>2 DEF Placeable, Forest, Linked
<1> HIDE DEF parent, descend, M
<1>5. \A n \in Slots \ {parent} :
         md2[n].parent = IF n \in K THEN parent ELSE md1[n].parent
  BY <1>3, SlotsAndNil DEF Settled
<1>6. Children(md2, parent) = K
  BY <1>3 DEF Settled, Children
<1>7. Above(md1, md2, value, M, K, parent)
  <2>1. \A n \in M : parent \notin Children(md1, n)
    BY <1>1, <1>2
  <2>2. \A k \in K : value[k] <= value[parent]
    BY <1>2
  <2> HIDE DEF K
  <2> QED BY <1>1, <1>2, <1>3, <1>5, <1>6, <2>1, <2>2 DEF Above, Settled
<1>8. Forest(md2, value, M \cup {parent}, (Q \ K) \cup {parent})
  BY <1>2, <1>7, Plant
<1>9. Q \ K = R \ {head}
  BY <1>2
<1>10. Forest(md2, value, N \cup {new}, (R \ {head}) \cup {parent})
  BY <1>1, <1>8, <1>9
<1>11. ASSUME NEW n \in N \cup {new} PROVE Children(md2, n) \subseteq N \cup {new}
  <2>1. CASE n = parent
    BY <1>1, <1>4, <1>6, <2>1
  <2>2. CASE n # parent
    <3>1. n \in M /\ n \in Slots
      BY <1>1, <1>4, <2>2
    <3>2. Children(md2, n) = Children(md1, n)
      BY <1>3, <2>2, <3>1 DEF Settled, Children
    <3> QED BY <1>1, <1>2, <3>1, <3>2
  <2> QED BY <2>1, <2>2
<1>12. ASSUME NEW n \in Slots, n \notin N \cup {new} \/ n \in R \ {head}
       PROVE  md2[n] = md[n]
  <2>1. n # parent
    BY <1>1, <1>4, <1>12
  <2>2. n \notin K
    BY <1>1, <1>2, <1>4, <1>12
  <2>3. n \notin {left, right}
    BY <2>2, SlotsAndNil
  <2>4. md2[n] = md1[n]
    BY <1>3, <2>1, <2>3 DEF Settled
  <2> QED BY <1>2, <1>12, <2>4
<1>13. parent \in {head, new}
  BY <1>1
<1>14. Placed(md, value, N, R, head, new, [md |-> md2, top |-> parent])
  BY <1>3, <1>10, <1>11, <1>12, <1>13 DEF Placed
<1> QED BY <1>14 DEF parent

LEMMA SetParentFields ==
    ASSUME NEW md \in Links, NEW p \in Pointers, NEW q \in Pointers
    PROVE  /\ SetParent(md, p, q) \in Links
           /\ \A n \in Slots : n # p => SetParent(md, p, q)[n] = md[n]
           /\ p # Nil => SetParent(md, p, q)[p] = [parent |-> q, left |-> md[p].left,
                                                   right |-> md[p].right,
                                                   size |-> md[p].size]
<1> DEFINE new == SetParent(md, p, q)
<1>1. CASE p = Nil
  <2>1. new = md
    BY <1>1 DEF SetParent
  <2> HIDE DEF new
  <2>2. /\ new \in Links /\ \A n \in Slots : n # p => new[n] = md[n]
    BY <2>1
  <2> QED BY <1>1, <2>2 DEF new
<1>2. CASE p # Nil
  <2>1. new = [md EXCEPT ![p].parent = q] /\ p \in Slots
    BY <1>2, SlotsAndNil DEF SetParent
  <2>2. DOMAIN md = Slots
    BY DEF Links
  <2> HIDE DEF new
  <2>3. /\ DOMAIN new = Slots /\ new = [n \in Slots |-> new[n]]
        /\ new[p] = [md[p] EXCEPT !.parent = q]
        /\ \A n \in Slots \ {p} : new[n] = md[n]
    BY <2>1, <2>2
  <2>4. new[p] = [parent |-> q, left |-> md[p].left, right |-> md[p].right,
                  size |-> md[p].size]
    <3>1. md[p] = [parent |-> md[p].parent, left |-> md[p].left,
                   right |-> md[p].right, size |-> md[p].size]
      BY <2>1, LinkTypes
    <3> QED BY <2>3, <3>1
  <2>5. ASSUME NEW n \in Slots
        PROVE  new[n] \in [parent : Pointers, left : Pointers, right : Pointers,
                           size : 0 .. Capacity]
    <3>1. CASE n = p
      BY <2>1, <2>4, <3>1, LinkTypes
    <3>2. CASE n # p
      BY <2>3, <3>2, LinkTypes
    <3> QED BY <3>1, <3>2
  <2>6. new \in Links
    BY <2>3, <2>5 DEF Links
  <2>7. \A n \in Slots : n # p => new[n] = md[n]
    BY <2>3
  <2> QED BY <2>4, <2>6, <2>7 DEF new
<1> QED BY <1>1, <1>2

\* The four links of a node are set, and those of the others left alone.
SetAt(md, new, i, parent, left, right, size) ==
    /\ DOMAIN new = Slots /\ new = [n \in Slots |-> new[n]]
    /\ new[i] = [parent |-> parent, left |-> left, right |-> right, size |-> size]
    /\ \A n \in Slots \ {i} : new[n] = md[n]

LEMMA SetAtLinks ==
    ASSUME NEW md \in Links, NEW new, NEW i \in Slots, NEW parent \in Pointers,
           NEW left \in Pointers, NEW right \in Pointers, NEW size \in 0 .. Capacity,
           SetAt(md, new, i, parent, left, right, size)
    PROVE  new \in Links
<1>1. ASSUME NEW n \in Slots
      PROVE  new[n] \in [parent : Pointers, left : Pointers, right : Pointers,
                         size : 0 .. Capacity]
  BY LinkTypes DEF SetAt
<1>2. new = [n \in Slots |-> new[n]]
  BY DEF SetAt
<1> QED BY <1>1, <1>2 DEF Links

\* The node that goes down is a leaf beside the only child that head had.
HangLeft(md, parent, descend, other, size) ==
    [SetParent(md, other, parent) EXCEPT ![parent].right = other,
                                         ![parent].left = descend,
                                         ![parent].size = size + 1,
                                         ![descend] = [Leaf EXCEPT !.parent = parent]]
HangRight(md, parent, descend, other, size) ==
    [SetParent(md, other, parent) EXCEPT ![parent].left = other,
                                         ![parent].right = descend,
                                         ![parent].size = size + 1,
                                         ![descend] = [Leaf EXCEPT !.parent = parent]]

Hung(md, new, parent, descend, left, right, size) ==
    LET md1 == [md EXCEPT ![descend] = [Leaf EXCEPT !.parent = parent]]
    IN  /\ md1 \in Links /\ Settled(md1, new, parent, left, right)
        /\ new[parent].size = size + 1 /\ new[parent].parent = md[parent].parent

LEMMA HangFields ==
    ASSUME NEW md \in Links, NEW parent \in Slots, NEW descend \in Slots,
           parent # descend, NEW other \in Pointers, other # parent, other # descend,
           NEW size \in Nat, size < Capacity
    PROVE  /\ Hung(md, HangLeft(md, parent, descend, other, size), parent, descend,
                   descend, other, size)
           /\ Hung(md, HangRight(md, parent, descend, other, size), parent, descend,
                   other, descend, size)
<1> DEFINE leaf == [Leaf EXCEPT !.parent = parent]
           md1 == [md EXCEPT ![descend] = leaf]
           base == SetParent(md, other, parent)
<1>1. /\ parent \in Pointers /\ descend \in Pointers /\ Nil \in Pointers
      /\ size + 1 \in 0 .. Capacity /\ 1 \in 0 .. Capacity
  BY SlotsAndNil
<1>2. leaf = [parent |-> parent, left |-> Nil, right |-> Nil, size |-> 1]
  BY DEF Leaf
<1> HIDE DEF leaf
<1>3. SetAt(md, md1, descend, parent, Nil, Nil, 1)
  BY <1>2 DEF SetAt, Links
<1>4. md1 \in Links
  <2> HIDE DEF md1
  <2> QED BY <1>1, <1>3, SetAtLinks
<1>5. /\ base \in Links
      /\ \A n \in Slots : n # other => base[n] = md[n]
      /\ other # Nil => base[other] = [parent |-> parent, left |-> md[other].left,
                                       right |-> md[other].right, size |-> md[other].size]
  BY <1>1, SetParentFields
<1> HIDE DEF base, md1
<1>6. ASSUME NEW new, NEW left \in Pointers, NEW right \in Pointers,
             {left, right} = {descend, other}, left # right,
             DOMAIN new = Slots, new = [n \in Slots |-> new[n]],
             new[parent] = [parent |-> md[parent].parent, left |-> left, right |-> right,
                            size |-> size + 1],
             new[descend] = leaf, \A n \in Slots \ {parent, descend} : new[n] = base[n]
      PROVE  Hung(md, new, parent, descend, left, right, size)
  <2>1. ASSUME NEW n \in Slots
        PROVE  new[n] \in [parent : Pointers, left : Pointers, right : Pointers,
                           size : 0 .. Capacity]
    <3>1. CASE n = parent
      <4>1. md[parent].parent \in Pointers
        BY LinkTypes
      <4> QED BY <1>1, <1>6, <3>1, <4>1
    <3>2. CASE n = descend
      BY <1>1, <1>2, <1>6, <3>2
    <3>3. CASE n # parent /\ n # descend
      BY <1>5, <1>6, <3>3, LinkTypes
    <3> QED BY <3>1, <3>2, <3>3
  <2>2. new \in Links
    BY <1>6, <2>1 DEF Links
  <2>3. ASSUME NEW n \in Slots \ {parent}
        PROVE  /\ new[n].left = md1[n].left /\ new[n].right = md1[n].right
               /\ new[n].size = md1[n].size
               /\ new[n].parent = IF n \in {left, right} THEN parent ELSE md1[n].parent
               /\ n \notin {left, right} => new[n] = md1[n]
    <3>1. CASE n = descend
      <4>1. new[n] = md1[n] /\ new[n].parent = parent
        BY <1>2, <1>3, <1>6, <3>1 DEF SetAt
      <4> QED BY <1>6, <3>1, <4>1
    <3>2. CASE n # descend
      <4>1. new[n] = base[n] /\ md1[n] = md[n]
        BY <1>3, <1>6, <3>2 DEF SetAt
      <4>2. n \in {left, right} <=> n = other
        BY <1>6, <3>2
      <4>3. CASE n = other
        <5>1. n # Nil
          BY SlotsAndNil
        <5> QED BY <1>5, <4>1, <4>2, <4>3, <5>1
      <4>4. CASE n # other
        BY <1>5, <4>1, <4>2, <4>4
      <4> QED BY <4>3, <4>4
    <3> QED BY <3>1, <3>2
  <2>4. Settled(md1, new, parent, left, right)
    BY <1>6, <2>2, <2>3 DEF Settled
  <2>5. new[parent].size = size + 1 /\ new[parent].parent = md[parent].parent
    BY <1>6
  <2> QED BY <1>4, <2>4, <2>5 DEF Hung, md1, leaf
<1>7. /\ DOMAIN base = Slots
      /\ base[parent] = [parent |-> md[parent].parent, left |-> md[parent].left,
                         right |-> md[parent].right, size |-> md[parent].size]
  <2>1. DOMAIN base = Slots /\ base[parent] = md[parent]
    BY <1>5 DEF Links
  <2> QED BY <2>1, LinkTypes
<1>8. Hung(md, HangLeft(md, parent, descend, other, size), parent, descend,
           descend, other, size)
  <2> DEFINE new == HangLeft(md, parent, descend, other, size)
  <2>1. new = [base EXCEPT ![parent].right = other, ![parent].left = descend,
                           ![parent].size = size + 1, ![descend] = leaf]
    BY DEF HangLeft, base, leaf
  <2> HIDE DEF new
  <2>2. /\ DOMAIN new = Slots /\ new = [n \in Slots |-> new[n]]
        /\ new[parent] = [base[parent] EXCEPT !.right = other, !.left = descend,
                                              !.size = size + 1]
        /\ new[descend] = leaf /\ \A n \in Slots \ {parent, descend} : new[n] = base[n]
    BY <1>7, <2>1
  <2> DEFINE up == md[parent].parent
             l == md[parent].left
             r == md[parent].right
             s == md[parent].size
  <2>3. base[parent] = [parent |-> up, left |-> l, right |-> r, size |-> s]
    BY <1>7
  <2>4. new[parent] = [base[parent] EXCEPT !.right = other, !.left = descend,
                                            !.size = size + 1]
    BY <2>2
  <2> HIDE DEF up, l, r, s
  <2>5. new[parent] = [[parent |-> up, left |-> l, right |-> r, size |-> s]
                          EXCEPT !.right = other, !.left = descend, !.size = size + 1]
    BY <2>3, <2>4
  <2>6. new[parent] = [parent |-> up, left |-> descend, right |-> other, size |-> size + 1]
    BY <2>5
  <2> USE DEF up
  <2>7. Hung(md, new, parent, descend, descend, other, size)
    BY <1>1, <1>6, <2>2, <2>6
  <2> QED BY <2>7 DEF new
<1>9. Hung(md, HangRight(md, parent, descend, other, size), parent, descend,
           other, descend, size)
  <2> DEFINE new == HangRight(md, parent, descend, other, size)
  <2>1. new = [base EXCEPT ![parent].left = other, ![parent].right = descend,
                           ![parent].size = size + 1, ![descend] = leaf]
    BY DEF HangRight, base, leaf
  <2> HIDE DEF new
  <2>2. /\ DOMAIN new = Slots /\ new = [n \in Slots |-> new[n]]
        /\ new[parent] = [base[parent] EXCEPT !.left = other, !.right = descend,
                                              !.size = size + 1]
        /\ new[descend] = leaf /\ \A n \in Slots \ {parent, descend} : new[n] = base[n]
    BY <1>7, <2>1
  <2> DEFINE up == md[parent].parent
             l == md[parent].left
             r == md[parent].right
             s == md[parent].size
  <2>3. base[parent] = [parent |-> up, left |-> l, right |-> r, size |-> s]
    BY <1>7
  <2>4. new[parent] = [base[parent] EXCEPT !.left = other, !.right = descend,
                                            !.size = size + 1]
    BY <2>2
  <2> HIDE DEF up, l, r, s
  <2>5. new[parent] = [[parent |-> up, left |-> l, right |-> r, size |-> s]
                          EXCEPT !.left = other, !.right = descend, !.size = size + 1]
    BY <2>3, <2>4
  <2>6. new[parent] = [parent |-> up, left |-> other, right |-> descend, size |-> size + 1]
    BY <2>5
  <2> USE DEF up
  <2>7. {other, descend} = {descend, other}
    OBVIOUS
  <2>8. Hung(md, new, parent, descend, other, descend, size)
    BY <1>1, <1>6, <2>2, <2>6, <2>7
  <2> QED BY <2>8 DEF new
<1> QED BY <1>8, <1>9

\* The node that goes down has been inserted below: both subtrees are linked.
Settle(md, parent, left, right, size, up) ==
    [SetParent(SetParent(md, left, parent), right, parent)
        EXCEPT ![parent].left = left, ![parent].right = right,
               ![parent].size = size + 1, ![parent].parent = up]

LEMMA SettleFields ==
    ASSUME NEW md \in Links, NEW parent \in Slots, NEW left \in Slots, NEW right \in Slots,
           left # right, left # parent, right # parent,
           NEW size \in Nat, size < Capacity, NEW up \in Pointers
    PROVE  LET new == Settle(md, parent, left, right, size, up)
           IN  /\ Settled(md, new, parent, left, right)
               /\ new[parent].size = size + 1 /\ new[parent].parent = up
<1> DEFINE one == SetParent(md, left, parent)
           two == SetParent(one, right, parent)
           new == Settle(md, parent, left, right, size, up)
<1>1. /\ parent \in Pointers /\ left \in Pointers /\ right \in Pointers
      /\ size + 1 \in 0 .. Capacity
  BY SlotsAndNil
<1>2. /\ one \in Links
      /\ \A n \in Slots : n # left => one[n] = md[n]
      /\ one[left] = [parent |-> parent, left |-> md[left].left,
                      right |-> md[left].right, size |-> md[left].size]
  BY <1>1, SetParentFields, SlotsAndNil
<1>3. /\ two \in Links
      /\ \A n \in Slots : n # right => two[n] = one[n]
      /\ two[right] = [parent |-> parent, left |-> one[right].left,
                       right |-> one[right].right, size |-> one[right].size]
  <2> HIDE DEF one
  <2> QED BY <1>1, <1>2, SetParentFields, SlotsAndNil
<1>4. new = [two EXCEPT ![parent].left = left, ![parent].right = right,
                        ![parent].size = size + 1, ![parent].parent = up]
  BY DEF Settle
<1> HIDE DEF one, two, new
<1>5. /\ \A n \in Slots : n \notin {left, right} => two[n] = md[n]
      /\ \A n \in {left, right} :
            /\ two[n].parent = parent /\ two[n].left = md[n].left
            /\ two[n].right = md[n].right /\ two[n].size = md[n].size
  BY <1>2, <1>3
<1>6. /\ DOMAIN two = Slots
      /\ two[parent] = [parent |-> md[parent].parent, left |-> md[parent].left,
                        right |-> md[parent].right, size |-> md[parent].size]
  <2>1. DOMAIN two = Slots /\ two[parent] = md[parent]
    BY <1>3, <1>5 DEF Links
  <2> QED BY <2>1, LinkTypes
<1>7. /\ DOMAIN new = Slots /\ new = [n \in Slots |-> new[n]]
      /\ new[parent] = [two[parent] EXCEPT !.left = left, !.right = right,
                                           !.size = size + 1, !.parent = up]
      /\ \A n \in Slots \ {parent} : new[n] = two[n]
  BY <1>4, <1>6
<1>8. new[parent] = [parent |-> up, left |-> left, right |-> right, size |-> size + 1]
  BY <1>6, <1>7
<1>9. SetAt(two, new, parent, up, left, right, size + 1)
  BY <1>7, <1>8 DEF SetAt
<1>10. new \in Links
  BY <1>1, <1>3, <1>9, SetAtLinks
<1>11. ASSUME NEW n \in Slots \ {parent}
       PROVE  /\ new[n].left = md[n].left /\ new[n].right = md[n].right
              /\ new[n].size = md[n].size
              /\ new[n].parent = IF n \in {left, right} THEN parent ELSE md[n].parent
              /\ n \notin {left, right} => new[n] = md[n]
  BY <1>5, <1>7
<1>12. Settled(md, new, parent, left, right)
  BY <1>8, <1>10, <1>11 DEF Settled
<1> QED BY <1>8, <1>12 DEF new

\* Head has a free place: there the other node becomes a leaf.
LEMMA PlaceLeaf ==
    ASSUME NEW md, NEW value, NEW N, NEW R, NEW head, NEW new, NEW below,
           Placeable(md, value, N, R, head, new),
           md[head].left = Nil \/ md[head].right = Nil
    PROVE  Placed(md, value, N, R, head, new, Place(md, value, below, head, new))
<1> DEFINE parent == Parent(value, head, new)
           descend == Descend(value, head, new)
           old == md[head]
           other == IF old.left = Nil THEN old.right ELSE old.left
           M == N \ {head}
           md1 == [md EXCEPT ![descend] = [Leaf EXCEPT !.parent = parent]]
           left == IF old.left = Nil THEN descend ELSE other
           right == IF old.left = Nil THEN other ELSE descend
           hung == IF old.left = Nil THEN HangLeft(md, parent, descend, other, old.size)
                   ELSE HangRight(md, parent, descend, other, old.size)
<1>1. Place(md, value, below, head, new) = [md |-> hung, top |-> parent]
  <2>1. CASE md[head].left = Nil
    BY <2>1 DEF Place, Parent, Descend, HangLeft
  <2>2. CASE md[head].left # Nil
    BY <2>2 DEF Place, Parent, Descend, HangRight
  <2> QED BY <2>1, <2>2
<1>2. Parted(md, value, N, R, head, new, parent, descend)
  BY ParentDescend
<1>3. /\ Forest(md, value, N, R) /\ md \in Links /\ new \notin N /\ R \subseteq N
      /\ N \subseteq Slots /\ head \in N /\ md[head].size < Capacity
  BY DEF Placeable, Forest, Linked
<1>4. /\ md[head].left \in Pointers /\ md[head].right \in Pointers
      /\ md[head].size \in Nat
  BY <1>3, LinkTypes
<1>5. /\ Children(md, head) = {other} \ {Nil} /\ other \in Pointers
      /\ {left, right} = {descend, other}
      /\ (left = descend /\ right = other) \/ (left = other /\ right = descend)
  BY <1>4 DEF Children
<1>6. md[head].size = 1 + SizeOf(md, other)
  <2>1. md[head].size = 1 + SizeOf(md, old.left) + SizeOf(md, old.right)
    BY <1>3, SlotsAndNil DEF Forest, Sized
  <2>2. SizeOf(md, Nil) = 0 /\ SizeOf(md, other) \in Nat
    BY <1>3, <1>5, SizeTypes DEF SizeOf
  <2> QED BY <2>1, <2>2
<1> HIDE DEF parent, descend
<1>7. /\ {parent, descend} = {head, new} /\ parent # descend
      /\ parent \in Slots /\ parent \notin M /\ descend \in Slots /\ descend \notin M
      /\ value[descend] <= value[parent]
      /\ \A c \in Children(md, head) : value[c] <= value[parent] /\ c \in M /\ c \notin R
      /\ Forest(md, value, M, Under(md, R, head))
      /\ \A n \in M : Children(md, n) \subseteq M
  BY <1>2 DEF Parted
<1>8. other # parent /\ other # descend
  BY <1>5, <1>7, SlotsAndNil
<1>9. Hung(md, hung, parent, descend, left, right, md[head].size)
  BY <1>3, <1>4, <1>5, <1>7, <1>8, HangFields
<1>10. /\ md1 \in Links /\ Settled(md1, hung, parent, left, right)
       /\ hung[parent].size = md[head].size + 1
       /\ hung[parent].parent = md[parent].parent
  <2> HIDE DEF hung, left, right
  <2> QED BY <1>9 DEF Hung
<1>11. /\ md1[descend] = [parent |-> parent, left |-> Nil, right |-> Nil, size |-> 1]
       /\ \A n \in Slots \ {descend} : md1[n] = md[n]
  BY <1>3, <1>7 DEF Leaf, Links
<1> HIDE DEF md1, hung, left, right, other, old
<1>12. Children(md1, descend) = {}
  BY <1>11 DEF Children
<1>13. Above(md, md1, value, M, {}, descend)
  <2>1. md1[descend].size = 1 + SizeOf(md, md1[descend].left) + SizeOf(md, md1[descend].right)
    BY <1>11 DEF SizeOf
  <2>2. md1[descend].left = Nil
    BY <1>11
  <2>3. \A n \in M : descend \notin Children(md, n)
    BY <1>7
  <2>4. \A n \in Slots \ {descend} :
           /\ md1[n].left = md[n].left /\ md1[n].right = md[n].right
           /\ md1[n].size = md[n].size
           /\ md1[n].parent = IF n \in {} THEN descend ELSE md[n].parent
    BY <1>11
  <2>5. descend \in Slots \ M
    BY <1>7
  <2> HIDE DEF M
  <2> QED BY <1>10, <1>12, <2>1, <2>2, <2>3, <2>4, <2>5 DEF Above
<1>14. Forest(md1, value, M \cup {descend}, (Under(md, R, head) \ {}) \cup {descend})
  <2> HIDE DEF M
  <2> QED BY <1>7, <1>13, Plant
<1>15. (Under(md, R, head) \ {}) \cup {descend} = (R \ {head}) \cup ({left, right} \ {Nil})
  <2>1. {left, right} \ {Nil} = {descend} \cup Children(md, head)
    BY <1>5, <1>7, SlotsAndNil
  <2> QED BY <2>1 DEF Under
<1>16. Descended(md, value, N, R, head, new, md1, left, right)
  <2>1. ASSUME NEW n \in M \cup {descend} PROVE Children(md1, n) \subseteq M \cup {descend}
    <3>1. CASE n = descend
      BY <1>12, <3>1
    <3>2. CASE n # descend
      <4>1. n \in M /\ n \in Slots
        BY <1>3, <3>2
      <4>2. Children(md1, n) = Children(md, n)
        BY <1>11, <3>2, <4>1 DEF Children
      <4> QED BY <1>7, <4>1, <4>2
    <3> QED BY <3>1, <3>2
  <2>2. ASSUME NEW n \in Slots, n \notin N \cup {new} \/ n \in R \ {head}
        PROVE  md1[n] = md[n]
    <3>1. n # descend
      BY <1>3, <1>7, <2>2
    <3> QED BY <1>11, <3>1
  <2>3. ASSUME NEW k \in {left, right} \ {Nil}
        PROVE  k \notin R \ {head} /\ value[k] <= value[parent]
    <3>1. k = descend \/ k \in Children(md, head)
      BY <1>5
    <3>2. descend \notin R \ {head}
      BY <1>3, <1>7
    <3> QED BY <1>7, <3>1, <3>2
  <2>4. md[head].size + 1 = 1 + SizeOf(md1, left) + SizeOf(md1, right)
    <3>1. SizeOf(md1, descend) = 1
      BY <1>7, <1>11, SlotsAndNil DEF SizeOf
    <3>2. SizeOf(md1, other) = SizeOf(md, other) /\ SizeOf(md, other) \in Nat
      <4>1. other = Nil \/ other \in Slots \ {descend}
        BY <1>5, <1>8, SlotsAndNil
      <4>2. SizeOf(md, other) \in Nat
        BY <1>3, <1>5, SizeTypes
      <4> QED BY <1>11, <4>1, <4>2 DEF SizeOf
    <3> QED BY <1>5, <1>6, <3>1, <3>2
  <2>5. Forest(md1, value, M \cup {descend}, (R \ {head}) \cup ({left, right} \ {Nil}))
    BY <1>14, <1>15
  <2> QED BY <2>1, <2>2, <2>3, <2>4, <2>5 DEF Descended, parent, descend
<1>17. hung[parent].parent \in {md[head].parent, md[new].parent}
  BY <1>7, <1>10
<1>18. Placed(md, value, N, R, head, new, [md |-> hung, top |-> parent])
  BY <1>10, <1>16, <1>17, PlaceAbove DEF parent
<1> QED BY <1>1, <1>18

\* The other node can be inserted below either child of head.
LEMMA PlaceBelow ==
    ASSUME NEW md, NEW value, NEW N, NEW R, NEW head, NEW new,
           Placeable(md, value, N, R, head, new), NEW x \in Children(md, head)
    PROVE  /\ Placeable(md, value, N \ {head}, Under(md, R, head), x,
                        Descend(value, head, new))
           /\ md[x].size < md[head].size
<1>1. Parted(md, value, N, R, head, new, Parent(value, head, new), Descend(value, head, new))
  BY ParentDescend
<1>2. /\ md \in Links /\ N \subseteq Slots /\ Sized(md, N, Nil) /\ md[head].size < Capacity
  BY DEF Placeable, Forest, Linked
<1>3. /\ md[x].size < md[head].size /\ md[x].size \in Nat /\ md[head].size \in Nat
  BY <1>1, <1>2, Larger, LinkTypes DEF Parted
<1>4. md[x].size < Capacity
  BY <1>2, <1>3, SlotsAndNil
<1>5. x \in Under(md, R, head)
  BY DEF Under
<1> QED BY <1>1, <1>3, <1>4, <1>5 DEF Placeable, Parted

\* Head has two children: the other node has been inserted below one of them.
LEMMA PlaceDeep ==
    ASSUME NEW md, NEW value, NEW N, NEW R, NEW head, NEW new, NEW below,
           Placeable(md, value, N, R, head, new),
           md[head].left # Nil, md[head].right # Nil,
           \A x \in Children(md, head) :
              Placed(md, value, N \ {head}, Under(md, R, head), x,
                     Descend(value, head, new), below[x][Descend(value, head, new)])
    PROVE  Placed(md, value, N, R, head, new, Place(md, value, below, head, new))
<1> DEFINE parent == Parent(value, head, new)
           descend == Descend(value, head, new)
           old == md[head]
           M == N \ {head}
           U == Under(md, R, head)
           go_left == md[old.left].size <= md[old.right].size
           x == IF go_left THEN old.left ELSE old.right
           y == IF go_left THEN old.right ELSE old.left
           down == below[x][descend]
           left == IF go_left THEN down.top ELSE old.left
           right == IF go_left THEN old.right ELSE down.top
           settled == Settle(down.md, parent, left, right, old.size, old.parent)
<1>1. Place(md, value, below, head, new) = [md |-> settled, top |-> parent]
  BY DEF Place, Parent, Descend, Settle
<1>2. /\ Parted(md, value, N, R, head, new, parent, descend)
  BY ParentDescend
<1>3. /\ Forest(md, value, N, R) /\ md \in Links /\ new \notin N /\ R \subseteq N
      /\ N \subseteq Slots /\ head \in N /\ md[head].size < Capacity
  BY DEF Placeable, Forest, Linked
<1>4. /\ md[head].left \in Pointers /\ md[head].right \in Pointers
      /\ md[head].parent \in Pointers /\ md[head].size \in Nat
  BY <1>3, LinkTypes
<1>5. /\ Children(md, head) = {x, y} /\ x # y
  <2>1. Children(md, head) = {x, y}
    BY DEF Children
  <2>2. old.left # old.right
    BY <1>3 DEF Forest, Linked
  <2> QED BY <2>1, <2>2
<1>6. md[head].size = 1 + md[x].size + md[y].size
      /\ md[x].size \in Nat /\ md[y].size \in Nat
  <2>1. md[head].size = 1 + SizeOf(md, old.left) + SizeOf(md, old.right)
    BY <1>3, SlotsAndNil DEF Forest, Sized
  <2>2. /\ SizeOf(md, old.left) = md[old.left].size
        /\ SizeOf(md, old.right) = md[old.right].size
    BY DEF SizeOf
  <2>3. SizeOf(md, old.left) \in Nat /\ SizeOf(md, old.right) \in Nat
    BY <1>3, <1>4, SizeTypes
  <2> QED BY <2>1, <2>2, <2>3
<1>7. /\ {parent, descend} = {head, new} /\ parent # descend
      /\ parent \in Slots /\ parent \notin M /\ descend \in Slots /\ descend \notin M
      /\ value[descend] <= value[parent]
      /\ \A c \in Children(md, head) : value[c] <= value[parent] /\ c \in M /\ c \notin R
  <2> HIDE DEF parent, descend
  <2> QED BY <1>2 DEF Parted
<1>8. Placed(md, value, M, U, x, descend, down)
  BY <1>5
<1>9. {left, right} = {down.top, y} /\ ((left = down.top /\ right = y)
                                           \/ (left = y /\ right = down.top))
  OBVIOUS
<1> DEFINE md1 == down.md
           t == down.top
<1> HIDE DEF parent, descend, left, right, down, x, y
<1>10. /\ Forest(md1, value, M \cup {descend}, (U \ {x}) \cup {t})
       /\ \A n \in M \cup {descend} : Children(md1, n) \subseteq M \cup {descend}
       /\ t \in {x, descend} /\ md1[t].size = md[x].size + 1
       /\ \A n \in Slots : n \notin M \cup {descend} \/ n \in U \ {x} => md1[n] = md[n]
  <2> HIDE DEF U, M
  <2> QED BY <1>8 DEF Placed
<1>11. /\ md1 \in Links /\ x \in M /\ y \in M /\ x \in Slots /\ y \in Slots /\ t \in Slots
       /\ x \notin R /\ y \notin R /\ t # y /\ t # parent /\ y # parent
  <2>1. x \in M /\ y \in M /\ x \notin R /\ y \notin R
    BY <1>5, <1>7
  <2>2. md1 \in Links
    BY <1>10 DEF Forest, Linked
  <2> QED BY <1>3, <1>5, <1>7, <1>10, <2>1, <2>2
<1>12. md1[y] = md[y] /\ md1[parent] = md[parent]
  <2>1. y \in U \ {x}
    BY <1>5, <1>11 DEF Under
  <2>2. parent \notin M \cup {descend}
    BY <1>7
  <2> QED BY <1>7, <1>10, <1>11, <2>1, <2>2
<1>13. /\ Settled(md1, settled, parent, left, right)
       /\ settled[parent].size = md[head].size + 1
       /\ settled[parent].parent = md[head].parent
  <2>1. left \in Slots /\ right \in Slots /\ left # right /\ left # parent /\ right # parent
    BY <1>9, <1>11
  <2> HIDE DEF md1, M, U
  <2>2. LET s == Settle(md1, parent, left, right, old.size, old.parent)
        IN  /\ Settled(md1, s, parent, left, right)
            /\ s[parent].size = old.size + 1 /\ s[parent].parent = old.parent
    BY <1>3, <1>4, <1>7, <1>11, <2>1, SettleFields
  <2> QED BY <2>2 DEF md1
<1> HIDE DEF settled, old, md1, t
<1>14. Descended(md, value, N, R, head, new, md1, left, right)
  <2>1. (U \ {x}) \cup {t} = (R \ {head}) \cup ({left, right} \ {Nil})
    <3>1. {left, right} \ {Nil} = {t, y}
      BY <1>9, <1>11, SlotsAndNil DEF t
    <3> QED BY <1>5, <1>11, <3>1 DEF Under
  <2>2. ASSUME NEW n \in Slots, n \notin N \cup {new} \/ n \in R \ {head}
        PROVE  md1[n] = md[n]
    <3>1. n \notin M \cup {descend} \/ n \in U \ {x}
      BY <1>3, <1>7, <1>11, <2>2 DEF Under
    <3> QED BY <1>10, <3>1
  <2>3. ASSUME NEW k \in {left, right} \ {Nil}
        PROVE  k \notin R \ {head} /\ value[k] <= value[parent]
    <3>1. k \in {x, y, descend}
      BY <1>9, <1>10 DEF t
    <3>2. descend \notin R \ {head}
      BY <1>3, <1>7
    <3> QED BY <1>5, <1>7, <1>11, <3>1, <3>2
  <2>4. md[head].size + 1 = 1 + SizeOf(md1, left) + SizeOf(md1, right)
    <3>1. SizeOf(md1, t) = md[x].size + 1 /\ SizeOf(md1, y) = md[y].size
      BY <1>10, <1>11, <1>12, SlotsAndNil DEF SizeOf
    <3> QED BY <1>6, <1>9, <3>1 DEF t
  <2>5. Forest(md1, value, M \cup {descend}, (R \ {head}) \cup ({left, right} \ {Nil}))
    BY <1>10, <2>1
  <2> QED BY <1>10, <2>2, <2>3, <2>4, <2>5 DEF Descended, parent, descend
<1>15. settled[parent].parent \in {md[head].parent, md[new].parent}
  BY <1>13
<1>16. Placed(md, value, N, R, head, new, [md |-> settled, top |-> parent])
  BY <1>13, <1>14, <1>15, PlaceAbove DEF parent
<1> QED BY <1>1, <1>16

LEMMA PlacesDeep ==
    ASSUME NEW md, NEW value
    PROVE  \A d \in 0 .. Capacity : \A N, R, head, new :
              Placeable(md, value, N, R, head, new) /\ md[head].size <= d
                 => Placed(md, value, N, R, head, new, Places(md, value)[d][head][new])
<1> DEFINE P(d, N, R, head, new) ==
              Placeable(md, value, N, R, head, new) /\ md[head].size <= d
                 => Placed(md, value, N, R, head, new, Places(md, value)[d][head][new])
           S == {d \in Nat : d <= Capacity => \A N, R, head, new : P(d, N, R, head, new)}
<1>1. \A d \in 0 .. Capacity : Places(md, value)[d] = PlaceStep(md, value, Places(md, value), d)
  BY PlacesStep
<1>2. ASSUME NEW N, NEW R, NEW head, NEW new, Placeable(md, value, N, R, head, new)
      PROVE  /\ head \in Slots /\ new \in Slots /\ md \in Links /\ Descend(value, head, new) \in Slots
             /\ md[head].size \in Nat /\ md[head].size >= 1
  <2>1. /\ head \in N /\ new \in Slots /\ md \in Links /\ N \subseteq Slots /\ Sized(md, N, Nil)
    BY <1>2 DEF Placeable, Forest, Linked
  <2> QED BY <2>1, Larger DEF Descend
<1>3. 0 \in S
  <2> SUFFICES ASSUME NEW N, NEW R, NEW head, NEW new,
                      Placeable(md, value, N, R, head, new), md[head].size <= 0
               PROVE  FALSE
    OBVIOUS
  <2> QED BY <1>2
<1>4. ASSUME NEW d \in Nat, d \in S PROVE d + 1 \in S
  <2> SUFFICES ASSUME d + 1 <= Capacity, NEW N, NEW R, NEW head, NEW new,
                      Placeable(md, value, N, R, head, new), md[head].size <= d + 1
               PROVE  Placed(md, value, N, R, head, new, Places(md, value)[d + 1][head][new])
    OBVIOUS
  <2> DEFINE below == Places(md, value)[d]
  <2>1. Places(md, value)[d + 1] = PlaceStep(md, value, Places(md, value), d + 1)
    BY <1>1, SlotsAndNil
  <2>2. Places(md, value)[d + 1][head][new] = Place(md, value, below, head, new)
    <3>1. d + 1 # 0 /\ (d + 1) - 1 = d
      OBVIOUS
    <3> QED BY <1>2, <2>1, <3>1 DEF PlaceStep
  <2>3. \A M, Q, a, b : Placeable(md, value, M, Q, a, b) /\ md[a].size <= d
                           => Placed(md, value, M, Q, a, b, below[a][b])
    BY <1>4, SlotsAndNil
  <2> HIDE DEF below
  <2>4. CASE md[head].left = Nil \/ md[head].right = Nil
    BY <2>2, <2>4, PlaceLeaf
  <2>5. CASE md[head].left # Nil /\ md[head].right # Nil
    <3>1. ASSUME NEW x \in Children(md, head)
          PROVE  Placed(md, value, N \ {head}, Under(md, R, head), x,
                        Descend(value, head, new), below[x][Descend(value, head, new)])
      <4>1. /\ Placeable(md, value, N \ {head}, Under(md, R, head), x,
                         Descend(value, head, new))
            /\ md[x].size < md[head].size
        BY PlaceBelow
      <4>2. md[x].size \in Nat
        BY <1>2, <4>1
      <4>3. md[x].size <= d
        BY <1>2, <4>1, <4>2
      <4> QED BY <2>3, <4>1, <4>3
    <3>2. Placed(md, value, N, R, head, new, Place(md, value, below, head, new))
      BY <2>5, <3>1, PlaceDeep
    <3> QED BY <2>2, <3>2
  <2> QED BY <2>4, <2>5
<1>5. \A d \in Nat : d \in S
  <2> HIDE DEF S
  <2> QED BY <1>3, <1>4, AllNumbers
<1> QED BY <1>5, SlotsAndNil

LEMMA InsertNodePlaces ==
    ASSUME NEW md, NEW value, NEW N, NEW R, NEW head, NEW new,
           Placeable(md, value, N, R, head, new)
    PROVE  Placed(md, value, N, R, head, new, InsertNode(md, value, head, new))
<1>1. md[head].size \in Nat /\ md[head].size < Capacity /\ Capacity \in 0 .. Capacity
  BY SlotsAndNil, LinkTypes DEF Placeable, Forest, Linked
<1>2. md[head].size <= Capacity
  BY <1>1
<1> QED BY <1>1, <1>2, PlacesDeep DEF InsertNode
------------------------------------------------------------------------------
(***************************************************************************)
(* Counting a node out: DecrementSize                                      *)
(***************************************************************************)

\* The loop's state: node i is counted one too large, those below it are not
\* any more, those above not yet.
Counting(md, value, N, r, n, st) ==
    /\ Linked(st.md, value, N, {r}) /\ Sized(st.md, N, st.i)
    /\ st.i \in N \cup {Nil}
    /\ IF st.i = Nil THEN st.md[r].size = md[r].size - 1
       ELSE st.md[r].size = md[r].size /\ st.md[st.i].size >= n + 2
    /\ \A k \in Slots : /\ st.md[k].left = md[k].left /\ st.md[k].right = md[k].right
                        /\ st.md[k].parent = md[k].parent
                        /\ k \notin N => st.md[k] = md[k]

LEMMA CountOne ==
    ASSUME NEW md, NEW value, NEW N, NEW r \in N, NEW n \in Nat, NEW st,
           md[r].parent = Nil,
           Counting(md, value, N, r, n, st), st.i # Nil
    PROVE  Counting(md, value, N, r, n + 1,
                    [md |-> [st.md EXCEPT ![st.i].size = @ - 1], i |-> st.md[st.i].parent])
<1> DEFINE m == st.md
           i == st.i
           j == m[i].parent
           new == [m EXCEPT ![i].size = @ - 1]
<1>1. /\ Linked(m, value, N, {r}) /\ Sized(m, N, i) /\ m \in Links /\ i \in N
      /\ N \subseteq Slots /\ m[r].parent = Nil /\ i # Nil
      /\ m[r].size = md[r].size /\ m[i].size >= n + 2
      /\ \A k \in Slots : /\ m[k].left = md[k].left /\ m[k].right = md[k].right
                          /\ m[k].parent = md[k].parent
                          /\ k \notin N => m[k] = md[k]
  BY DEF Counting, Linked
<1> HIDE DEF m, i
<1>2. /\ i \in Slots /\ m[i].size \in Nat /\ m[i].size <= Capacity
      /\ m[i].parent \in Pointers /\ m[i].left \in Pointers /\ m[i].right \in Pointers
  BY <1>1, LinkTypes
<1>3. SetAt(m, new, i, m[i].parent, m[i].left, m[i].right, m[i].size - 1)
  <2>1. m[i] = [parent |-> m[i].parent, left |-> m[i].left, right |-> m[i].right,
                size |-> m[i].size]
    BY <1>1, <1>2, LinkTypes
  <2>2. DOMAIN m = Slots
    BY <1>1 DEF Links
  <2>3. new[i] = [m[i] EXCEPT !.size = m[i].size - 1]
    BY <1>2, <2>2
  <2>4. new[i] = [parent |-> m[i].parent, left |-> m[i].left, right |-> m[i].right,
                  size |-> m[i].size - 1]
    BY <2>1, <2>3
  <2> QED BY <2>2, <2>4 DEF SetAt
<1> HIDE DEF new
<1>4. new \in Links
  <2>1. m[i].size - 1 \in 0 .. Capacity
    BY <1>1, <1>2, SlotsAndNil
  <2> QED BY <1>1, <1>2, <1>3, <2>1, SetAtLinks
<1>5. /\ \A k \in Slots : /\ new[k].left = m[k].left /\ new[k].right = m[k].right
                          /\ new[k].parent = m[k].parent
                          /\ k # i => new[k] = m[k]
      /\ new[i].size = m[i].size - 1
  BY <1>3 DEF SetAt
<1>6. \A k \in N : Children(new, k) = Children(m, k)
  BY <1>1, <1>5 DEF Children
<1>7. Linked(new, value, N, {r})
  <2>1. /\ value \in [Slots -> Int] /\ {r} \subseteq N
    BY <1>1 DEF Linked
  <2>2. \A k \in N : new[k].left = new[k].right => new[k].left = Nil
    BY <1>1, <1>5 DEF Linked
  <2>3. \A k \in N : \A c \in Children(new, k) \cap N :
           c \notin {r} /\ new[c].parent = k /\ value[c] <= value[k]
    BY <1>1, <1>5, <1>6 DEF Linked
  <2>4. \A k \in N \ {r} : new[k].parent \in N /\ k \in Children(new, new[k].parent)
    BY <1>1, <1>5, <1>6 DEF Linked
  <2> QED BY <1>1, <1>4, <2>1, <2>2, <2>3, <2>4 DEF Linked
<1>8. /\ i = r => j = Nil
      /\ i # r => j \in N /\ i \in Children(m, j)
  BY <1>1 DEF Linked
<1>9. \A k \in N : i \in Children(m, k) => k = j /\ k # i
  <2>1. i \notin Children(m, i)
    BY <1>1, <1>2, Larger
  <2> QED BY <1>1, <2>1 DEF Linked
<1>10. j # i
  BY <1>8, <1>9, <1>1, SlotsAndNil
<1>11. Sized(new, N, j)
  <2> SUFFICES ASSUME NEW k \in N
               PROVE  new[k].size = (IF k = j THEN 2 ELSE 1)
                                       + SizeOf(new, new[k].left) + SizeOf(new, new[k].right)
    BY DEF Sized
  <2>1. /\ k \in Slots /\ m[k].left \in Pointers /\ m[k].right \in Pointers
        /\ new[k].left = m[k].left /\ new[k].right = m[k].right
        /\ m[k].size \in Nat
    BY <1>1, <1>5, LinkTypes
  <2>2. /\ SizeOf(m, m[k].left) \in Nat /\ SizeOf(m, m[k].right) \in Nat
    BY <1>1, <2>1, SizeTypes
  <2>3. m[k].size = (IF k = i THEN 2 ELSE 1) + SizeOf(m, m[k].left) + SizeOf(m, m[k].right)
    BY <1>1 DEF Sized
  <2>4. \A q \in Pointers : q # i => SizeOf(new, q) = SizeOf(m, q)
    BY <1>5, SlotsAndNil DEF SizeOf
  <2>5. CASE i \notin Children(m, k)
    <3>1. m[k].left # i /\ m[k].right # i
      BY <1>1, <2>5 DEF Children
    <3>2. /\ SizeOf(new, new[k].left) = SizeOf(m, m[k].left)
          /\ SizeOf(new, new[k].right) = SizeOf(m, m[k].right)
      BY <2>1, <2>4, <3>1
    <3>3. CASE k = i
      BY <1>5, <1>10, <2>2, <2>3, <3>2, <3>3
    <3>4. CASE k # i
      <4>1. k # j
        BY <1>1, <1>8, <2>1, <2>5, SlotsAndNil
      <4> QED BY <1>5, <2>1, <2>2, <2>3, <3>2, <3>4, <4>1
    <3> QED BY <3>3, <3>4
  <2>6. CASE i \in Children(m, k)
    <3>1. k = j /\ k # i
      BY <1>9, <2>6
    <3>2. new[k].size = m[k].size
      BY <1>5, <2>1, <3>1
    <3>3. SizeOf(m, i) = m[i].size /\ SizeOf(new, i) = m[i].size - 1
      BY <1>1, <1>5 DEF SizeOf
    <3>4. m[k].left # m[k].right
      BY <1>1, <2>6 DEF Linked, Children
    <3>5. CASE m[k].left = i
      <4>1. SizeOf(new, new[k].right) = SizeOf(m, m[k].right)
        BY <2>1, <2>4, <3>4, <3>5
      <4> QED BY <1>2, <2>1, <2>2, <2>3, <3>1, <3>2, <3>3, <3>5, <4>1
    <3>6. CASE m[k].right = i
      <4>1. SizeOf(new, new[k].left) = SizeOf(m, m[k].left)
        BY <2>1, <2>4, <3>4, <3>6
      <4> QED BY <1>2, <2>1, <2>2, <2>3, <3>1, <3>2, <3>3, <3>6, <4>1
    <3> QED BY <2>6, <3>5, <3>6 DEF Children
  <2> QED BY <2>5, <2>6
<1>12. IF j = Nil THEN new[r].size = md[r].size - 1
       ELSE new[r].size = md[r].size /\ new[j].size >= (n + 1) + 2
  <2>1. CASE i = r
    BY <1>1, <1>5, <1>8, <2>1
  <2>2. CASE i # r
    <3>1. j \in N /\ i \in Children(m, j) /\ j \in Slots /\ j # Nil /\ r \in Slots
      BY <1>1, <1>8, <2>2, SlotsAndNil
    <3>2. m[i].size < m[j].size /\ m[j].size \in Nat
      BY <1>1, <3>1, Larger
    <3>3. new[j].size = m[j].size /\ new[r].size = m[r].size
      BY <1>5, <1>10, <2>2, <3>1
    <3> QED BY <1>1, <1>2, <3>1, <3>2, <3>3
  <2> QED BY <2>1, <2>2
<1>13. \A k \in Slots : /\ new[k].left = md[k].left /\ new[k].right = md[k].right
                        /\ new[k].parent = md[k].parent
                        /\ k \notin N => new[k] = md[k]
  BY <1>1, <1>5
<1>14. j \in N \cup {Nil}
  BY <1>8
<1> HIDE DEF j
<1>15. Counting(md, value, N, r, n + 1, [md |-> new, i |-> j])
  BY <1>7, <1>11, <1>12, <1>13, <1>14 DEF Counting
<1> QED BY <1>15 DEF new, j, m, i

LEMMA CountedOut ==
    ASSUME NEW md, NEW value, NEW N, NEW r \in N, NEW p \in N, md[r].parent = Nil,
           Linked(md, value, N, {r}), Sized(md, N, p)
    PROVE  LET new == DecrementSize(md, p)
           IN  /\ Forest(new, value, N, {r}) /\ new[r].size = md[r].size - 1
               /\ \A k \in Slots : /\ new[k].left = md[k].left /\ new[k].right = md[k].right
                                   /\ new[k].parent = md[k].parent
                                   /\ k \notin N => new[k] = md[k]
<1> DEFINE loop == Decrementing(md, p)
           Inv(n) == IF loop[n].i = Nil THEN Counting(md, value, N, r, 0, loop[n])
                     ELSE Counting(md, value, N, r, n, loop[n])
           S == {n \in Nat : n <= Capacity => Inv(n)}
<1>1. \A n \in 0 .. Capacity : loop[n] = DecrementStep(md, p, loop, n)
  BY DecrementingStep
<1>2. md \in Links /\ N \subseteq Slots /\ p \in Slots /\ p # Nil
  BY SlotsAndNil DEF Linked
<1> HIDE DEF loop
<1>3. 0 \in S
  <2>1. loop[0] = [md |-> md, i |-> p]
    <3>1. loop[0] = DecrementStep(md, p, loop, 0)
      BY <1>1, SlotsAndNil
    <3>2. DecrementStep(md, p, loop, 0) = [md |-> md, i |-> p]
      BY Zenon DEF DecrementStep
    <3> QED BY <3>1, <3>2
  <2>2. md[p].size >= 0 + 2
    <3>1. md[p].size = 2 + SizeOf(md, md[p].left) + SizeOf(md, md[p].right)
      BY DEF Sized
    <3>2. SizeOf(md, md[p].left) \in Nat /\ SizeOf(md, md[p].right) \in Nat
      BY <1>2, Larger
    <3> QED BY <3>1, <3>2
  <2>3. Counting(md, value, N, r, 0, [md |-> md, i |-> p])
    BY <1>2, <2>2 DEF Counting
  <2> QED BY <1>2, <2>1, <2>3
<1>4. ASSUME NEW n \in Nat, n \in S PROVE n + 1 \in S
  <2> SUFFICES ASSUME n + 1 <= Capacity PROVE Inv(n + 1)
    OBVIOUS
  <2>1. Inv(n)
    BY <1>4, SlotsAndNil
  <2>2. loop[n + 1] = IF loop[n].i = Nil THEN loop[n]
                      ELSE [md |-> [loop[n].md EXCEPT ![loop[n].i].size = @ - 1],
                            i  |-> loop[n].md[loop[n].i].parent]
    <3>1. n + 1 \in 0 .. Capacity /\ n + 1 # 0 /\ (n + 1) - 1 = n
      BY SlotsAndNil
    <3> QED BY <1>1, <3>1 DEF DecrementStep
  <2>3. CASE loop[n].i = Nil
    BY <2>1, <2>2, <2>3
  <2>4. CASE loop[n].i # Nil
    <3>1. Counting(md, value, N, r, n, loop[n])
      BY <2>1, <2>4
    <3>2. Counting(md, value, N, r, n + 1, loop[n + 1])
      BY <2>2, <2>4, <3>1, CountOne
    <3>3. loop[n + 1].i = Nil => Counting(md, value, N, r, 0, loop[n + 1])
      BY <3>2 DEF Counting
    <3> QED BY <3>2, <3>3
  <2> QED BY <2>3, <2>4
<1>5. Inv(Capacity)
  <2>1. \A n \in Nat : n \in S
    <3> HIDE DEF S
    <3> QED BY <1>3, <1>4, AllNumbers
  <2> QED BY <2>1, SlotsAndNil
<1>6. loop[Capacity].i = Nil
  <2> SUFFICES ASSUME loop[Capacity].i # Nil PROVE FALSE
    OBVIOUS
  <2>1. Counting(md, value, N, r, Capacity, loop[Capacity])
    BY <1>5
  <2>2. /\ loop[Capacity].i \in Slots /\ loop[Capacity].md \in Links
        /\ loop[Capacity].md[loop[Capacity].i].size >= Capacity + 2
    BY <1>2, <2>1 DEF Counting, Linked
  <2>3. /\ loop[Capacity].md[loop[Capacity].i].size \in Nat
        /\ loop[Capacity].md[loop[Capacity].i].size <= Capacity
    BY <2>2, LinkTypes
  <2> QED BY <2>2, <2>3, SlotsAndNil
<1>7. Counting(md, value, N, r, 0, loop[Capacity])
  BY <1>5, <1>6
<1>8. DecrementSize(md, p) = loop[Capacity].md
  BY DEF DecrementSize, loop
<1> QED BY <1>6, <1>7, <1>8 DEF Counting, Forest
------------------------------------------------------------------------------
(***************************************************************************)
(* Heaps                                                                   *)
(***************************************************************************)

Heaps == [root : Pointers, md : Links, value : [Slots -> Values], free : Seq(Slots)]

\* The nodes N are one tree below the root.
HeapOf(h, N) ==
    /\ h \in Heaps
    /\ Forest(h.md, h.value, N, {h.root} \ {Nil})
    /\ \A n \in N : Children(h.md, n) \subseteq N
    /\ SizeOf(h.md, h.root) = Cardinality(N)

LEMMA HeapTypes ==
    ASSUME NEW h \in Heaps
    PROVE  /\ h.root \in Pointers /\ h.md \in Links /\ h.value \in [Slots -> Values]
           /\ h.free \in Seq(Slots) /\ h.value \in [Slots -> Int]
BY HeapAssumption DEF Heaps

LEMMA NodeCount ==
    ASSUME NEW N, N \subseteq Slots
    PROVE  /\ IsFiniteSet(N) /\ Cardinality(N) \in Nat /\ Cardinality(N) <= Capacity
           /\ Cardinality(N) = 0 <=> N = {}
           /\ N # Slots => Cardinality(N) < Capacity
<1>1. IsFiniteSet(Slots) /\ Cardinality(Slots) = Capacity
  <2>1. Capacity - 1 \in Int /\ ~(0 > Capacity - 1) /\ (Capacity - 1) - 0 + 1 = Capacity
    BY SlotsAndNil
  <2> QED BY <2>1, FS_Interval DEF Slots
<1>2. /\ IsFiniteSet(N) /\ Cardinality(N) <= Cardinality(Slots)
      /\ Cardinality(Slots) = Cardinality(N) => Slots = N
  BY <1>1, FS_Subset
<1>3. Cardinality(N) \in Nat
  BY <1>2, FS_CardinalityType
<1>4. Cardinality(N) = 0 <=> N = {}
  BY <1>2, FS_EmptySet
<1> QED BY <1>1, <1>2, <1>3, <1>4, SlotsAndNil

LEMMA HeapFacts ==
    ASSUME NEW h, NEW N, HeapOf(h, N)
    PROVE  /\ h \in Heaps /\ h.md \in Links /\ N \subseteq Slots
           /\ h.value \in [Slots -> Int] /\ h.root \in Pointers
           /\ Forest(h.md, h.value, N, {h.root} \ {Nil})
           /\ Linked(h.md, h.value, N, {h.root} \ {Nil}) /\ Sized(h.md, N, Nil)
           /\ h.root = Nil <=> N = {}
           /\ h.root # Nil => h.root \in N /\ h.md[h.root].size = Cardinality(N)
<1>1. /\ h \in Heaps /\ h.md \in Links /\ N \subseteq Slots
      /\ h.value \in [Slots -> Int] /\ h.root \in Pointers
      /\ Forest(h.md, h.value, N, {h.root} \ {Nil})
      /\ Linked(h.md, h.value, N, {h.root} \ {Nil}) /\ Sized(h.md, N, Nil)
  BY HeapTypes DEF HeapOf, Forest, Linked
<1>2. h.root # Nil => h.root \in N /\ h.md[h.root].size = Cardinality(N)
  BY <1>1 DEF HeapOf, Linked, SizeOf
<1>3. h.root = Nil => N = {}
  <2>1. h.root = Nil => Cardinality(N) = 0
    BY DEF HeapOf, SizeOf
  <2> QED BY <1>1, <2>1, NodeCount
<1> QED BY <1>1, <1>2, <1>3

\* insert_impl adds the node, which is a leaf by itself.
Inserted(h, N, i, g) ==
    /\ HeapOf(g, N \cup {i}) /\ g.root # Nil
    /\ g.value = h.value /\ g.free = h.free
    /\ \A n \in Slots \ (N \cup {i}) : g.md[n] = h.md[n]
    /\ g.md[g.root].parent = Nil \/ (h.root # Nil
                                       /\ g.md[g.root].parent = h.md[h.root].parent)

LEMMA InsertImplHeap ==
    ASSUME NEW h, NEW N, HeapOf(h, N), NEW i \in Slots \ N, h.md[i] = Leaf
    PROVE  Inserted(h, N, i, InsertImpl(h, i))
<1>1. /\ h \in Heaps /\ h.md \in Links /\ N \subseteq Slots
      /\ h.value \in [Slots -> Int] /\ h.root \in Pointers
      /\ Forest(h.md, h.value, N, {h.root} \ {Nil})
      /\ h.root = Nil <=> N = {}
      /\ h.root # Nil => h.root \in N /\ h.md[h.root].size = Cardinality(N)
  BY HeapFacts
<1>2. /\ i \in Pointers /\ i # Nil
      /\ h.md[i].parent = Nil /\ h.md[i].left = Nil /\ h.md[i].right = Nil
      /\ h.md[i].size = 1
  BY SlotsAndNil DEF Leaf
<1>3. Cardinality(N \cup {i}) = Cardinality(N) + 1
  BY <1>1, NodeCount, FS_AddElement
<1>4. CASE h.root = Nil
  <2> DEFINE g == [h EXCEPT !.root = i]
  <2>1. InsertImpl(h, i) = g
    BY <1>4 DEF InsertImpl
  <2>2. /\ g \in Heaps /\ g.root = i /\ g.md = h.md /\ g.value = h.value
        /\ g.free = h.free
    BY <1>1, <1>2 DEF Heaps
  <2> HIDE DEF g
  <2>3. Children(h.md, i) = {}
    BY <1>2 DEF Children
  <2>4. Above(h.md, h.md, h.value, {}, {}, i)
    BY <1>1, <1>2, <2>3 DEF Above, SizeOf
  <2>5. Forest(h.md, h.value, {} \cup {i}, ({} \ {}) \cup {i})
    <3>1. Forest(h.md, h.value, {}, {})
      BY <1>1, <1>4
    <3> QED BY <2>4, <3>1, Plant
  <2>6. Cardinality(N) = 0
    BY <1>1, <1>4, NodeCount
  <2>7. SizeOf(g.md, g.root) = Cardinality(N \cup {i})
    BY <1>2, <1>3, <2>2, <2>6 DEF SizeOf
  <2>8. /\ N \cup {i} = {i} /\ {} \cup {i} = {i} /\ ({} \ {}) \cup {i} = {i}
        /\ {g.root} \ {Nil} = {i}
    BY <1>1, <1>2, <1>4, <2>2
  <2>9. HeapOf(g, N \cup {i})
    BY <2>2, <2>3, <2>5, <2>7, <2>8 DEF HeapOf
  <2> QED BY <1>2, <2>1, <2>2, <2>9 DEF Inserted
<1>5. CASE h.root # Nil
  <2> DEFINE r == InsertNode(h.md, h.value, h.root, i)
             g == [h EXCEPT !.root = r.top, !.md = r.md]
  <2>1. InsertImpl(h, i) = g
    BY <1>5 DEF InsertImpl
  <2>2. {h.root} \ {Nil} = {h.root}
    BY <1>5
  <2>3. Cardinality(N) < Capacity
    BY <1>1, NodeCount
  <2>4. Placeable(h.md, h.value, N, {h.root}, h.root, i)
    BY <1>1, <1>5, <2>2, <2>3 DEF Placeable, HeapOf
  <2>5. Placed(h.md, h.value, N, {h.root}, h.root, i, r)
    BY <2>4, InsertNodePlaces
  <2> HIDE DEF r
  <2>6. /\ Forest(r.md, h.value, N \cup {i}, {r.top})
        /\ \A n \in N \cup {i} : Children(r.md, n) \subseteq N \cup {i}
        /\ r.top \in {h.root, i} /\ r.md[r.top].size = h.md[h.root].size + 1
        /\ r.md[r.top].parent \in {h.md[h.root].parent, h.md[i].parent}
        /\ \A n \in Slots : n \notin N \cup {i} => r.md[n] = h.md[n]
    <3>1. ({h.root} \ {h.root}) \cup {r.top} = {r.top}
      OBVIOUS
    <3> QED BY <2>5, <3>1 DEF Placed
  <2>7. r.top # Nil /\ r.top \in Pointers /\ r.md \in Links /\ {r.top} \ {Nil} = {r.top}
    BY <1>1, <1>2, <1>5, <2>6 DEF Forest, Linked
  <2>8. /\ g \in Heaps /\ g.root = r.top /\ g.md = r.md /\ g.value = h.value
        /\ g.free = h.free
    BY <1>1, <2>7 DEF Heaps
  <2> HIDE DEF g
  <2>9. SizeOf(g.md, g.root) = Cardinality(N \cup {i})
    BY <1>1, <1>3, <1>5, <2>6, <2>7, <2>8 DEF SizeOf
  <2>10. HeapOf(g, N \cup {i})
    BY <2>6, <2>7, <2>8, <2>9 DEF HeapOf
  <2> QED BY <1>2, <1>5, <2>1, <2>6, <2>7, <2>8, <2>10 DEF Inserted
<1> QED BY <1>4, <1>5

\* The children of a node that is taken out can be joined, whatever its value.
Cuttable(md, old, value, N, R, i) ==
    /\ Forest(md, old, N, R) /\ \A n \in N : Children(md, n) \subseteq N
    /\ i \in N /\ value \in [Slots -> Int]
    /\ \A n \in Slots \ {i} : value[n] = old[n]

Ready(md, value, N, R, i) ==
    /\ Joinable(md, value, N \ {i}, Under(md, R, i), md[i].left, md[i].right)
    /\ SizeOf(md, md[i].left) + SizeOf(md, md[i].right) + 1 = md[i].size
    /\ \A n \in N : md[n].size > md[i].size
          => md[n].size > SizeOf(md, md[i].left) + SizeOf(md, md[i].right)

LEMMA Cut ==
    ASSUME NEW md, NEW value, NEW old, NEW N, NEW R, NEW i,
           Cuttable(md, old, value, N, R, i)
    PROVE  Ready(md, value, N, R, i)
<1> DEFINE l == md[i].left
           r == md[i].right
           M == N \ {i}
           U == Under(md, R, i)
<1>0. /\ Forest(md, old, N, R) /\ \A n \in N : Children(md, n) \subseteq N
      /\ i \in N /\ value \in [Slots -> Int]
      /\ \A n \in Slots \ {i} : value[n] = old[n]
  BY DEF Cuttable
<1>1. /\ md \in Links /\ N \subseteq Slots /\ Sized(md, N, Nil) /\ i \in Slots
  BY <1>0 DEF Forest, Linked
<1>2. /\ l \in Pointers /\ r \in Pointers /\ md[i].size \in Nat /\ md[i].size <= Capacity
      /\ SizeOf(md, l) \in Nat /\ SizeOf(md, r) \in Nat
  BY <1>1, LinkTypes, SizeTypes
<1>3. md[i].size = 1 + SizeOf(md, l) + SizeOf(md, r)
  BY <1>0, <1>1, SlotsAndNil DEF Sized
<1>4. Forest(md, old, M, U)
  <2>1. Children(md, i) \cap N = Children(md, i)
    BY <1>0
  <2> QED BY <1>0, <2>1, Fell DEF Under
<1>5. Forest(md, value, M, U)
  <2>1. SameIn(md, old, md, value, M, U)
    BY <1>0, <1>1 DEF SameIn
  <2> QED BY <1>4, <2>1, SameForest
<1>6. ASSUME NEW n \in M, md[n].size <= SizeOf(md, l) + SizeOf(md, r)
      PROVE  Children(md, n) \subseteq M
  <2>1. \A c \in Children(md, n) : md[c].size < md[n].size
    BY <1>1, Larger
  <2>2. md[n].size \in Nat
    BY <1>1, LinkTypes
  <2>3. i \notin Children(md, n)
    BY <1>2, <1>3, <1>6, <2>1, <2>2
  <2> QED BY <1>0, <2>3
<1>7. {l, r} \ {Nil} \subseteq U /\ (l = r => l = Nil)
  BY <1>0 DEF Under, Children, Forest, Linked
<1>8. \A n \in N : md[n].size \in Nat
  BY <1>1, LinkTypes
<1> HIDE DEF M, U, l, r
<1>9. SizeOf(md, l) + SizeOf(md, r) <= Capacity
  BY <1>2, <1>3, SlotsAndNil
<1>10. Joinable(md, value, M, U, l, r)
  BY <1>2, <1>5, <1>6, <1>7, <1>9 DEF Joinable
<1>11. \A n \in N : md[n].size > md[i].size => md[n].size > SizeOf(md, l) + SizeOf(md, r)
  BY <1>2, <1>3, <1>8
<1>12. SizeOf(md, l) + SizeOf(md, r) + 1 = md[i].size
  BY <1>2, <1>3
<1> QED BY <1>10, <1>11, <1>12 DEF Ready, M, U, l, r

\* The parent of the node that is taken out gets what has been joined instead.
Relink(md, p, i, top) == IF md[p].left = i THEN [md EXCEPT ![p].left = top]
                         ELSE [md EXCEPT ![p].right = top]

LEMMA RelinkFields ==
    ASSUME NEW md \in Links, NEW p \in Slots, NEW i, NEW top \in Pointers
    PROVE  LET new == Relink(md, p, i, top)
           IN  /\ new \in Links
               /\ \A n \in Slots \ {p} : new[n] = md[n]
               /\ new[p].parent = md[p].parent /\ new[p].size = md[p].size
               /\ IF md[p].left = i THEN new[p].left = top /\ new[p].right = md[p].right
                  ELSE new[p].left = md[p].left /\ new[p].right = top
<1> DEFINE new == Relink(md, p, i, top)
           up == md[p].parent
           l == md[p].left
           r == md[p].right
           s == md[p].size
<1>1. /\ DOMAIN md = Slots
      /\ md[p] = [parent |-> up, left |-> l, right |-> r, size |-> s]
      /\ up \in Pointers /\ l \in Pointers /\ r \in Pointers /\ s \in 0 .. Capacity
  <2>1. DOMAIN md = Slots
    BY DEF Links
  <2> QED BY <2>1, LinkTypes
<1>2. CASE l = i
  <2>1. new = [md EXCEPT ![p].left = top]
    BY <1>2 DEF Relink
  <2> HIDE DEF new
  <2>2. new[p] = [md[p] EXCEPT !.left = top]
    BY <1>1, <2>1
  <2>3. new[p] = [[parent |-> up, left |-> l, right |-> r, size |-> s] EXCEPT !.left = top]
    BY <1>1, <2>2
  <2> HIDE DEF up, l, r, s
  <2>4. new[p] = [parent |-> up, left |-> top, right |-> r, size |-> s]
    BY <2>3
  <2>5. SetAt(md, new, p, up, top, r, s)
    BY <1>1, <2>1, <2>4 DEF SetAt
  <2>6. new \in Links
    BY <1>1, <2>5, SetAtLinks
  <2> QED BY <1>2, <2>5, <2>6 DEF SetAt, new, up, l, r, s
<1>3. CASE l # i
  <2>1. new = [md EXCEPT ![p].right = top]
    BY <1>3 DEF Relink
  <2> HIDE DEF new
  <2>2. new[p] = [md[p] EXCEPT !.right = top]
    BY <1>1, <2>1
  <2>3. new[p] = [[parent |-> up, left |-> l, right |-> r, size |-> s] EXCEPT !.right = top]
    BY <1>1, <2>2
  <2> HIDE DEF up, l, r, s
  <2>4. new[p] = [parent |-> up, left |-> l, right |-> top, size |-> s]
    BY <2>3
  <2>5. SetAt(md, new, p, up, l, top, s)
    BY <1>1, <2>1, <2>4 DEF SetAt
  <2>6. new \in Links
    BY <1>1, <2>5, SetAtLinks
  <2> QED BY <1>3, <2>5, <2>6 DEF SetAt, new, up, l, r, s
<1> QED BY <1>2, <1>3

\* A node below another is taken out: up to the sizes above it is a tree again.
Detach(md, value, i) ==
    LET j == PullUp(md, value, md[i].left, md[i].right)
        p == md[i].parent
    IN  Relink(SetParent(j.md, j.top, p), p, i, j.top)

CutOff(md, value, N, root, i, new) ==
    LET p == md[i].parent
        M == N \ {i}
    IN  /\ p \in M /\ i \in {md[p].left, md[p].right} /\ root \in M
        /\ Linked(new, value, M, {root}) /\ Sized(new, M, p)
        /\ \A n \in M : Children(new, n) \subseteq M
        /\ new[root].parent = Nil /\ new[root].size = md[root].size
        /\ \A n \in Slots \ N : new[n] = md[n]

LEMMA CutInner ==
    ASSUME NEW md, NEW old, NEW value, NEW N, NEW root, NEW i,
           Cuttable(md, old, value, N, {root}, i), md[root].parent = Nil, i # root
    PROVE  CutOff(md, value, N, root, i, Detach(md, value, i))
<1>0. /\ Joinable(md, value, N \ {i}, Under(md, {root}, i), md[i].left, md[i].right)
      /\ SizeOf(md, md[i].left) + SizeOf(md, md[i].right) + 1 = md[i].size
      /\ \A n \in N : md[n].size > md[i].size
            => md[n].size > SizeOf(md, md[i].left) + SizeOf(md, md[i].right)
  <2>1. Ready(md, value, N, {root}, i)
    BY Cut
  <2> QED BY <2>1 DEF Ready
<1> USE DEF Cuttable
<1> DEFINE l == md[i].left
           r == md[i].right
           j == PullUp(md, value, l, r)
           m == j.md
           top == j.top
           p == md[i].parent
           m2 == SetParent(m, top, p)
           new == Relink(m2, p, i, top)
           M == N \ {i}
           U == Under(md, {root}, i)
           Q == (U \ {l, r}) \cup ({top} \ {Nil})
           sum == SizeOf(md, l) + SizeOf(md, r)
<1>1. /\ md \in Links /\ N \subseteq Slots /\ Sized(md, N, Nil) /\ i \in Slots
      /\ root \in N /\ old \in [Slots -> Int]
  BY DEF Forest, Linked
<1>2. /\ p \in N /\ i \in Children(md, p) /\ p # i /\ p \in Slots /\ p # Nil
  <2>1. p \in N /\ i \in Children(md, p)
    BY DEF Forest, Linked
  <2>2. md[i].size < md[p].size /\ md[i].size \in Nat /\ md[p].size \in Nat
    BY <1>1, <2>1, Larger, LinkTypes
  <2>3. p \in Slots /\ p # Nil
    BY <1>1, <2>1, SlotsAndNil
  <2>4. p # i
    <3> SUFFICES ASSUME p = i PROVE FALSE
      OBVIOUS
    <3>1. md[i].size < md[i].size
      BY <2>2
    <3> HIDE DEF p
    <3> QED BY <2>2, <3>1
  <2> QED BY <2>1, <2>3, <2>4
<1>3. /\ Joinable(md, value, M, U, l, r) /\ sum + 1 = md[i].size
      /\ \A n \in N : md[n].size > md[i].size => md[n].size > sum
  BY <1>0
<1>4. Joined(md, value, M, U, l, r, j)
  BY <1>3, PullUpJoins
<1> HIDE DEF j
<1>5. /\ Forest(m, value, M, Q) /\ m \in Links
      /\ top \in {l, r} /\ (top = Nil => l = Nil /\ r = Nil)
      /\ SizeOf(m, top) = sum
      /\ \A n \in Slots : n \notin M \/ n \in U \ {l, r} \/ md[n].size > sum => m[n] = md[n]
      /\ \A n \in M : Children(md, n) \subseteq M => Children(m, n) \subseteq M
  <2>1. Forest(m, value, M, Q) => m \in Links
    BY DEF Forest, Linked
  <2> HIDE DEF M, U, m, top, l, r
  <2> QED BY <1>4, <2>1 DEF Joined, m, top
<1>6. \A c \in Children(md, i) : /\ c \in M /\ c # root /\ md[c].parent = i
                                 /\ old[c] <= old[i]
  <2>1. i \notin Children(md, i)
    BY <1>1, <1>2, Larger DEF Forest, Linked
  <2> QED BY <2>1 DEF Forest, Linked
<1>7. {l, r} \ {Nil} = Children(md, i) /\ l \in Pointers /\ r \in Pointers /\ top \in Pointers
  BY <1>1, <1>5, LinkTypes DEF Children
<1>8. top # Nil => top \in Children(md, i) /\ top \in M /\ top # root /\ top # p
                      /\ md[top].parent = i
  <2>1. top # Nil => top \in Children(md, i)
    BY <1>5, <1>7
  <2>2. p \notin Children(md, i)
    <3>1. md[p].size > md[i].size
      BY <1>1, <1>2, Larger
    <3>2. \A c \in Children(md, i) : md[c].size < md[i].size
      BY <1>1, Larger
    <3>3. md[p].size \in Nat /\ md[i].size \in Nat
      BY <1>1, <1>2, LinkTypes
    <3> QED BY <3>1, <3>2, <3>3
  <2> QED BY <1>6, <2>1, <2>2
<1>9. U \ {l, r} = {root} /\ Q = {root} \cup ({top} \ {Nil})
  <2>1. U = {root} \cup Children(md, i)
    BY DEF Under
  <2>2. root # Nil
    BY <1>1, SlotsAndNil
  <2> QED BY <1>6, <1>7, <2>1, <2>2
<1>10. m[p] = md[p] /\ m[root] = md[root] /\ m[i] = md[i]
  <2>1. md[p].size > md[i].size
    BY <1>1, <1>2, Larger
  <2> QED BY <1>1, <1>2, <1>3, <1>5, <1>9, <2>1
<1> HIDE DEF m, top, p, l, r, Q, U, M
<1>11. /\ m2 \in Links
       /\ \A n \in Slots : n # top => m2[n] = m[n]
       /\ top # Nil => m2[top] = [parent |-> p, left |-> m[top].left,
                                  right |-> m[top].right, size |-> m[top].size]
  <2>1. p \in Pointers
    BY <1>2, SlotsAndNil
  <2> QED BY <1>5, <1>7, <2>1, SetParentFields
<1>12. p # top
  BY <1>2, <1>8
<1>13. m2[p] = md[p]
  BY <1>2, <1>10, <1>11, <1>12
<1> HIDE DEF m2
<1>14. /\ new \in Links
       /\ \A n \in Slots \ {p} : new[n] = m2[n]
       /\ new[p].parent = md[p].parent /\ new[p].size = md[p].size
       /\ IF md[p].left = i THEN new[p].left = top /\ new[p].right = md[p].right
          ELSE new[p].left = md[p].left /\ new[p].right = top
  BY <1>2, <1>7, <1>11, <1>13, RelinkFields
<1> HIDE DEF new
<1> DEFINE q == IF md[p].left = i THEN md[p].right ELSE md[p].left
<1>15. /\ {md[p].left, md[p].right} = {i, q} /\ q # i /\ q \in Pointers
       /\ Children(md, p) = {i, q} \ {Nil} /\ Children(new, p) = {top, q} \ {Nil}
       /\ q # Nil => q \in M /\ md[q].parent = p /\ q # root
       /\ {new[p].left, new[p].right} = {top, q}
  <2>1. md[p].left # md[p].right
    BY <1>2 DEF Forest, Linked, Children
  <2>2. {md[p].left, md[p].right} = {i, q} /\ q # i
    BY <1>2, <2>1 DEF Children
  <2>3. Children(md, p) = {i, q} \ {Nil}
    BY <2>2 DEF Children
  <2>4. {new[p].left, new[p].right} = {top, q}
    BY <1>14, <2>2
  <2>5. q # Nil => q \in Children(md, p)
    BY <2>3
  <2>6. q # Nil => q \in N /\ md[q].parent = p /\ q # root
    BY <1>2, <2>5 DEF Forest, Linked
  <2>7. q \in Pointers
    BY <1>1, <1>2, LinkTypes
  <2> QED BY <2>2, <2>3, <2>4, <2>6, <2>7 DEF Children, M
<1> HIDE DEF q
<1>16. \A n \in Slots : /\ new[n].size = m[n].size
                        /\ n # top => new[n].parent = m[n].parent
                        /\ n # p => new[n].left = m[n].left /\ new[n].right = m[n].right
                        /\ n # p /\ n # top => new[n] = m[n]
  <2> TAKE n \in Slots
  <2>1. CASE n = p
    BY <1>2, <1>10, <1>12, <1>14, <2>1
  <2>2. CASE n = top
    BY <1>11, <1>12, <1>14, <2>2, SlotsAndNil
  <2>3. CASE n # p /\ n # top
    BY <1>11, <1>14, <2>3
  <2> QED BY <2>1, <2>2, <2>3
<1>17. top # Nil => new[top].parent = p
  <2>1. top # Nil => top \in Slots
    BY <1>7, SlotsAndNil
  <2> QED BY <1>11, <1>12, <1>14, <2>1
<1>18. M \subseteq Slots /\ M \subseteq N /\ i \notin M /\ root \in M /\ p \in M
       /\ N = M \cup {i} /\ \A n \in N : n # i => n \in M
  BY <1>1, <1>2 DEF M
<1>19. \A n \in M : n # p => Children(new, n) = Children(m, n)
  BY <1>16, <1>18 DEF Children
<1>20. Children(m, p) = {i, q} \ {Nil}
  BY <1>10, <1>15 DEF Children
<1>21. ASSUME NEW n \in M, NEW c \in Children(new, n) \cap M
       PROVE  c \notin {root} /\ new[c].parent = n /\ value[c] <= value[n]
  <2>1. ASSUME c \in Children(m, n), c # top
        PROVE  c \notin {root} /\ new[c].parent = n /\ value[c] <= value[n]
    <3>1. c \notin Q /\ m[c].parent = n /\ value[c] <= value[n]
      BY <1>5, <2>1 DEF Forest, Linked
    <3> QED BY <1>9, <1>16, <1>18, <2>1, <3>1
  <2>2. CASE n # p
    <3>1. c \in Children(m, n)
      BY <1>19, <2>2
    <3>2. c \notin Q
      BY <1>5, <3>1 DEF Forest, Linked
    <3>3. c # Nil
      BY <1>18, SlotsAndNil
    <3>4. c # top
      BY <1>9, <3>2, <3>3
    <3> QED BY <2>1, <3>1, <3>4
  <2>3. CASE n = p /\ c = top
    <3>1. c # Nil /\ c \in Slots
      BY <1>18, SlotsAndNil
    <3>2. value[c] = old[c] /\ value[p] = old[p]
      BY <1>2, <1>18, <3>1
    <3>3. old[c] <= old[i] /\ old[i] <= old[p]
      <4>1. old[i] <= old[p]
        BY <1>2 DEF Forest, Linked
      <4> QED BY <1>6, <1>8, <2>3, <3>1, <4>1
    <3>4. old[c] \in Int /\ old[i] \in Int /\ old[p] \in Int
      BY <1>1, <1>2, <3>1
    <3> QED BY <1>8, <1>17, <2>3, <3>1, <3>2, <3>3, <3>4
  <2>4. CASE n = p /\ c # top
    <3>1. c \in Children(m, n)
      BY <1>15, <1>20, <2>4
    <3> QED BY <2>1, <2>4, <3>1
  <2> QED BY <2>2, <2>3, <2>4
<1>22. ASSUME NEW n \in M \ {root}
       PROVE  new[n].parent \in M /\ n \in Children(new, new[n].parent)
  <2>1. CASE n = top
    BY <1>15, <1>17, <1>18, <2>1, SlotsAndNil
  <2>2. CASE n # top
    <3>1. n \notin Q
      BY <1>9, <2>2
    <3>2. m[n].parent \in M /\ n \in Children(m, m[n].parent)
      BY <1>5, <3>1 DEF Forest, Linked
    <3>3. new[n].parent = m[n].parent
      BY <1>16, <1>18, <2>2
    <3>4. CASE m[n].parent = p
      BY <1>15, <1>18, <1>20, <3>2, <3>3, <3>4
    <3>5. CASE m[n].parent # p
      BY <1>19, <3>2, <3>3, <3>5
    <3> QED BY <3>4, <3>5
  <2> QED BY <2>1, <2>2
<1>23. ASSUME NEW n \in M, new[n].left = new[n].right PROVE new[n].left = Nil
  <2>1. CASE n = p
    <3>1. top = q
      BY <1>15, <1>23, <2>1
    <3>2. q = Nil
      BY <1>2, <1>8, <1>15, <3>1
    <3> QED BY <1>15, <2>1, <3>1, <3>2
  <2>2. CASE n # p
    BY <1>5, <1>16, <1>18, <1>23, <2>2 DEF Forest, Linked
  <2> QED BY <2>1, <2>2
<1>24. Linked(new, value, M, {root})
  BY <1>14, <1>18, <1>21, <1>22, <1>23 DEF Linked
<1>25. \A x \in Pointers : SizeOf(new, x) = SizeOf(m, x)
  BY <1>16, SlotsAndNil DEF SizeOf
<1>26. Sized(new, M, p)
  <2> SUFFICES ASSUME NEW n \in M
               PROVE  new[n].size = (IF n = p THEN 2 ELSE 1)
                                       + SizeOf(new, new[n].left) + SizeOf(new, new[n].right)
    BY DEF Sized
  <2>1. m[n].size = 1 + SizeOf(m, m[n].left) + SizeOf(m, m[n].right)
    BY <1>5, <1>18, SlotsAndNil DEF Forest, Sized
  <2>2. m[n].left \in Pointers /\ m[n].right \in Pointers /\ n \in Slots
    BY <1>5, <1>18, LinkTypes
  <2>3. CASE n # p
    BY <1>16, <1>25, <2>1, <2>2, <2>3
  <2>4. CASE n = p
    <3>1. SizeOf(m, i) = 1 + SizeOf(m, top)
      <4>1. SizeOf(m, i) = md[i].size
        BY <1>1, <1>10, SlotsAndNil DEF SizeOf
      <4>2. SizeOf(m, top) \in Nat /\ md[i].size \in Nat
        BY <1>1, <1>5, <1>7, SizeTypes, LinkTypes
      <4> HIDE DEF sum
      <4> QED BY <1>3, <1>5, <4>1, <4>2
    <3>2. SizeOf(m, top) \in Nat /\ SizeOf(m, q) \in Nat
      BY <1>5, <1>7, <1>15, SizeTypes
    <3>3. new[p].size = m[p].size
      BY <1>2, <1>16
    <3>4. \/ m[p].left = i /\ m[p].right = q /\ new[p].left = top /\ new[p].right = q
          \/ m[p].left = q /\ m[p].right = i /\ new[p].left = q /\ new[p].right = top
      BY <1>10, <1>14, <1>15 DEF q
    <3>5. SizeOf(new, top) = SizeOf(m, top) /\ SizeOf(new, q) = SizeOf(m, q)
      BY <1>7, <1>15, <1>25
    <3> QED BY <2>1, <2>4, <3>1, <3>2, <3>3, <3>4, <3>5
  <2> QED BY <2>3, <2>4
<1>27. ASSUME NEW n \in M PROVE Children(new, n) \subseteq M
  <2>1. CASE n = p
    BY <1>8, <1>15, <2>1
  <2>2. CASE n # p
    <3>1. i \notin Children(md, n)
      BY <1>1, <1>18, <2>2 DEF Forest, Linked, p
    <3>2. Children(md, n) \subseteq M
      BY <1>18, <3>1
    <3> QED BY <1>5, <1>19, <2>2, <3>2
  <2> QED BY <2>1, <2>2
<1>28. new[root].parent = Nil /\ new[root].size = md[root].size
  BY <1>1, <1>8, <1>10, <1>16, SlotsAndNil
<1>29. ASSUME NEW n \in Slots \ N PROVE new[n] = md[n]
  <2>1. n # p /\ n # top /\ n \notin M
    BY <1>8, <1>18, <1>29, SlotsAndNil
  <2> QED BY <1>5, <1>16, <1>29, <2>1
<1>30. i \in {md[p].left, md[p].right}
  BY <1>15
<1>31. CutOff(md, value, N, root, i, new)
  BY <1>18, <1>24, <1>26, <1>27, <1>28, <1>29, <1>30 DEF CutOff, p, M
<1>32. Detach(md, value, i) = new
  BY DEF Detach, new, m2, p, top, m, j, l, r
<1> QED BY <1>31, <1>32

\* remove_impl takes the node out, whatever value it has been given.
Rooted(h) == h.root # Nil => h.md[h.root].parent = Nil
Revalued(h, x, i) == /\ x \in Heaps /\ x.root = h.root /\ x.md = h.md
                     /\ \A n \in Slots \ {i} : x.value[n] = h.value[n]
Removed(x, N, i, g) ==
    /\ HeapOf(g, N \ {i}) /\ Rooted(g)
    /\ g.value = x.value /\ g.free = x.free
    /\ \A n \in Slots \ N : g.md[n] = x.md[n]

\* pop takes the root out and joins its children; the parent of the new root is
\* what it was.
Popped(x, N, i, g) ==
    /\ HeapOf(g, N \ {i})
    /\ g.value = x.value /\ g.free = x.free
    /\ \A n \in Slots \ N : g.md[n] = x.md[n]

LEMMA PopHeap ==
    ASSUME NEW h, NEW N, HeapOf(h, N), NEW i \in N, NEW x, Revalued(h, x, i), i = h.root
    PROVE  Popped(x, N, i, HeapPop(x))
<1> DEFINE md == x.md
           value == x.value
           l == md[i].left
           r == md[i].right
           j == PullUp(md, value, l, r)
           top == j.top
           m == j.md
           g == [x EXCEPT !.root = top, !.md = m]
           M == N \ {i}
           U == Under(md, {i}, i)
           Q == {top} \ {Nil}
<1>1. /\ x \in Heaps /\ md \in Links /\ N \subseteq Slots /\ value \in [Slots -> Int]
      /\ Forest(md, h.value, N, {i}) /\ \A n \in N : Children(md, n) \subseteq N
      /\ md[i].size = Cardinality(N) /\ i \in Slots /\ x.root = i
      /\ \A n \in Slots \ {i} : value[n] = h.value[n]
  <2>1. /\ h.md \in Links /\ N \subseteq Slots /\ h.root \in N
        /\ Forest(h.md, h.value, N, {h.root} \ {Nil})
        /\ h.md[h.root].size = Cardinality(N)
    BY HeapFacts
  <2>2. {h.root} \ {Nil} = {i} /\ i # Nil
    BY <2>1, SlotsAndNil
  <2>3. \A n \in N : Children(h.md, n) \subseteq N
    BY DEF HeapOf
  <2>4. /\ x \in Heaps /\ x.md = h.md /\ x.root = h.root
        /\ \A n \in Slots \ {i} : x.value[n] = h.value[n]
    BY DEF Revalued
  <2>5. value \in [Slots -> Int]
    BY <2>4, HeapTypes
  <2> QED BY <2>1, <2>2, <2>3, <2>4, <2>5
<1>2. Cuttable(md, h.value, value, N, {i}, i)
  BY <1>1 DEF Cuttable
<1>3. /\ Joinable(md, value, M, U, l, r)
      /\ SizeOf(md, l) + SizeOf(md, r) + 1 = md[i].size
  <2>1. Ready(md, value, N, {i}, i)
    <3> HIDE DEF md, value
    <3> QED BY <1>2, Cut
  <2> QED BY <2>1 DEF Ready
<1>4. Joined(md, value, M, U, l, r, j)
  BY <1>3, PullUpJoins
<1> HIDE DEF j
<1>5. {l, r} \ {Nil} = Children(md, i) /\ l \in Pointers /\ r \in Pointers
  BY <1>1, LinkTypes DEF Children
<1>6. \A n \in M : i \notin Children(md, n)
  BY <1>1 DEF Forest, Linked
<1>7. Children(md, i) \subseteq M
  <2>1. i \notin Children(md, i)
    BY <1>1 DEF Forest, Linked
  <2> QED BY <1>1, <2>1
<1>8. (U \ {l, r}) \cup Q = Q
  <2>1. U = {l, r} \ {Nil}
    BY <1>5 DEF Under
  <2> QED BY <2>1
<1>9. /\ Forest(m, value, M, Q)
      /\ top \in {l, r} /\ SizeOf(m, top) = SizeOf(md, l) + SizeOf(md, r)
      /\ \A n \in Slots : n \notin M => m[n] = md[n]
      /\ \A n \in M : Children(md, n) \subseteq M => Children(m, n) \subseteq M
  <2> HIDE DEF M, U, Q, l, r
  <2> QED BY <1>4, <1>8 DEF Joined, m, top, Q
<1>10. top \in Pointers /\ m \in Links
  BY <1>5, <1>9 DEF Forest, Linked
<1>11. HeapPop(x) = g
  BY <1>1 DEF HeapPop, m, top, j, l, r
<1> HIDE DEF m, top, l, r, U
<1>12. \A n \in M : Children(m, n) \subseteq M
  <2>1. \A n \in M : Children(md, n) \subseteq M
    BY <1>1, <1>6
  <2> QED BY <1>9, <2>1
<1>13. SizeOf(m, top) = Cardinality(M)
  <2>1. Cardinality(M) = Cardinality(N) - 1
    BY <1>1, NodeCount, FS_RemoveElement
  <2>2. SizeOf(m, top) \in Nat /\ Cardinality(N) \in Nat
    BY <1>1, <1>10, SizeTypes, NodeCount
  <2>3. SizeOf(m, top) + 1 = Cardinality(N)
    BY <1>1, <1>3, <1>9
  <2> QED BY <2>1, <2>2, <2>3
<1>14. /\ g \in Heaps /\ g.root = top /\ g.md = m /\ g.value = value /\ g.free = x.free
  BY <1>1, <1>10 DEF Heaps
<1> HIDE DEF g
<1>15. HeapOf(g, M)
  BY <1>9, <1>12, <1>13, <1>14 DEF HeapOf
<1>16. \A n \in Slots \ N : g.md[n] = x.md[n]
  BY <1>9, <1>14
<1> QED BY <1>11, <1>14, <1>15, <1>16 DEF Popped

LEMMA RemoveRoot ==
    ASSUME NEW h, NEW N, HeapOf(h, N), Rooted(h), NEW i \in N, NEW x, Revalued(h, x, i),
           i = h.root
    PROVE  Removed(x, N, i, RemoveImpl(x, i)) /\ RemoveAsserts(x, i)
<1> DEFINE k == HeapPop(x)
           top == k.root
           m == k.md
           m2 == SetParent(m, top, Nil)
           g == [x EXCEPT !.root = top, !.md = m2]
           M == N \ {i}
           Q == {top} \ {Nil}
<1>1. /\ HeapOf(k, M) /\ k.value = x.value /\ k.free = x.free
      /\ \A n \in Slots \ N : m[n] = x.md[n]
  BY PopHeap DEF Popped
<1>2. x \in Heaps /\ x.root = i /\ i \in Slots /\ i # Nil /\ x.md[i].parent = Nil
  <2>1. i \in Slots /\ i # Nil
    BY HeapFacts, SlotsAndNil
  <2> QED BY <2>1 DEF Revalued, Rooted
<1>3. RemoveImpl(x, i) = g /\ RemoveAsserts(x, i)
  <2> DEFINE j == PullUp(x.md, x.value, x.md[i].left, x.md[i].right)
  <2>1. k = [x EXCEPT !.root = j.top, !.md = j.md]
    BY <1>2 DEF HeapPop
  <2> HIDE DEF k
  <2>2. top = j.top /\ m = j.md
    <3> HIDE DEF j
    <3> QED BY <1>2, <2>1 DEF Heaps
  <2>3. RemoveImpl(x, i) = [x EXCEPT !.root = j.top, !.md = SetParent(j.md, j.top, Nil)]
    BY <1>2 DEF RemoveImpl
  <2> QED BY <1>2, <2>2, <2>3 DEF RemoveAsserts
<1> HIDE DEF k
<1>4. /\ k \in Heaps /\ m \in Links /\ M \subseteq Slots /\ k.value \in [Slots -> Int]
      /\ top \in Pointers /\ Forest(m, k.value, M, Q)
      /\ top # Nil => top \in M
  BY <1>1, HeapFacts
<1> HIDE DEF top, m
<1>5. /\ m2 \in Links
      /\ \A n \in Slots : n # top => m2[n] = m[n]
      /\ top # Nil => m2[top] = [parent |-> Nil, left |-> m[top].left,
                                 right |-> m[top].right, size |-> m[top].size]
  <2>1. Nil \in Pointers
    BY SlotsAndNil
  <2> QED BY <1>4, <2>1, SetParentFields
<1> HIDE DEF m2
<1>6. /\ \A n \in Slots : /\ m2[n].left = m[n].left /\ m2[n].right = m[n].right
                          /\ m2[n].size = m[n].size
                          /\ n # top => m2[n].parent = m[n].parent
      /\ top # Nil => m2[top].parent = Nil
  BY <1>5, SlotsAndNil
<1>7. Forest(m2, k.value, M, Q)
  <2>1. \A n \in M : Children(m, n) \subseteq Slots
    BY <1>4, LinkTypes
  <2>2. \A n \in M : n \notin Q => n # top
    BY <1>4, SlotsAndNil
  <2> HIDE DEF M, Q
  <2>3. SameIn(m, k.value, m2, k.value, M, Q)
    BY <1>4, <1>5, <1>6, <2>1, <2>2 DEF SameIn
  <2> QED BY <1>4, <2>3, SameForest
<1>8. \A n \in M : Children(m2, n) \subseteq M
  <2>1. \A n \in M : Children(m2, n) = Children(m, n)
    BY <1>4, <1>6 DEF Children
  <2> QED BY <1>1, <2>1 DEF HeapOf, m
<1>9. SizeOf(m2, top) = Cardinality(M)
  <2>1. SizeOf(m2, top) = SizeOf(m, top)
    BY <1>4, <1>6 DEF SizeOf
  <2> QED BY <1>1, <2>1 DEF HeapOf, m, top
<1>10. g \in Heaps /\ g.root = top /\ g.md = m2 /\ g.value = x.value /\ g.free = x.free
  BY <1>2, <1>4, <1>5 DEF Heaps
<1> HIDE DEF g
<1>11. HeapOf(g, M)
  BY <1>1, <1>7, <1>8, <1>9, <1>10 DEF HeapOf
<1>12. \A n \in Slots \ N : g.md[n] = x.md[n]
  <2>1. \A n \in Slots \ N : n # top
    BY <1>4, SlotsAndNil
  <2> QED BY <1>1, <1>5, <1>10, <2>1 DEF m
<1>13. Rooted(g)
  BY <1>6, <1>10 DEF Rooted
<1> QED BY <1>1, <1>3, <1>10, <1>11, <1>12, <1>13 DEF Removed

LEMMA RemoveInner ==
    ASSUME NEW h, NEW N, HeapOf(h, N), Rooted(h), NEW i \in N, NEW x, Revalued(h, x, i),
           i # h.root
    PROVE  Removed(x, N, i, RemoveImpl(x, i)) /\ RemoveAsserts(x, i)
<1> DEFINE md == x.md
           value == x.value
           root == x.root
           p == md[i].parent
           new == Detach(md, value, i)
           d == DecrementSize(new, p)
           g == [x EXCEPT !.md = d]
           M == N \ {i}
<1>1. /\ x \in Heaps /\ md \in Links /\ N \subseteq Slots /\ value \in [Slots -> Int]
      /\ Forest(md, h.value, N, {root}) /\ \A n \in N : Children(md, n) \subseteq N
      /\ md[root].size = Cardinality(N) /\ md[root].parent = Nil /\ i \in Slots
      /\ \A n \in Slots \ {i} : value[n] = h.value[n]
      /\ root = h.root /\ root \in N
  <2>1. /\ h.md \in Links /\ N \subseteq Slots /\ h.root \in N
        /\ Forest(h.md, h.value, N, {h.root} \ {Nil})
        /\ h.md[h.root].size = Cardinality(N)
    BY HeapFacts
  <2>2. {h.root} \ {Nil} = {h.root} /\ h.root # Nil
    BY <2>1, SlotsAndNil
  <2>3. \A n \in N : Children(h.md, n) \subseteq N
    BY DEF HeapOf
  <2>4. x \in Heaps /\ x.md = h.md /\ x.root = h.root
        /\ \A n \in Slots \ {i} : x.value[n] = h.value[n]
    BY DEF Revalued
  <2>5. value \in [Slots -> Int]
    BY <2>4, HeapTypes
  <2>6. h.md[h.root].parent = Nil
    BY <2>2 DEF Rooted
  <2> QED BY <2>1, <2>2, <2>3, <2>4, <2>5, <2>6
<1>2. Cuttable(md, h.value, value, N, {root}, i)
  BY <1>1 DEF Cuttable
<1>3. /\ p \in M /\ i \in {md[p].left, md[p].right} /\ root \in M
      /\ Linked(new, value, M, {root}) /\ Sized(new, M, p)
      /\ \A n \in M : Children(new, n) \subseteq M
      /\ new[root].parent = Nil /\ new[root].size = md[root].size
      /\ \A n \in Slots \ N : new[n] = md[n]
  <2>1. CutOff(md, value, N, root, i, new)
    <3> HIDE DEF md, value, root
    <3> QED BY <1>1, <1>2, CutInner
  <2> QED BY <2>1 DEF CutOff
<1>4. p # Nil /\ RemoveAsserts(x, i)
  BY <1>1, <1>3, SlotsAndNil DEF RemoveAsserts
<1>5. RemoveImpl(x, i) = g
  BY <1>4 DEF RemoveImpl, Relink, Detach
<1> HIDE DEF new, p, M
<1>6. /\ Forest(d, value, M, {root}) /\ d[root].size = new[root].size - 1
      /\ \A k \in Slots : /\ d[k].left = new[k].left /\ d[k].right = new[k].right
                          /\ d[k].parent = new[k].parent
                          /\ k \notin M => d[k] = new[k]
  BY <1>3, CountedOut
<1> HIDE DEF d
<1>7. M \subseteq Slots /\ M = N \ {i}
  BY <1>1 DEF M
<1>8. \A n \in M : Children(d, n) \subseteq M
  <2>1. \A n \in M : Children(d, n) = Children(new, n)
    BY <1>6, <1>7 DEF Children
  <2> QED BY <1>3, <2>1
<1>9. SizeOf(d, root) = Cardinality(M)
  <2>1. Cardinality(M) = Cardinality(N) - 1
    BY <1>1, <1>7, NodeCount, FS_RemoveElement
  <2> QED BY <1>1, <1>3, <1>6, <2>1, SlotsAndNil DEF SizeOf
<1>10. /\ g \in Heaps /\ g.root = root /\ g.md = d /\ g.value = value /\ g.free = x.free
  <2>1. d \in Links
    BY <1>6 DEF Forest, Linked
  <2> QED BY <1>1, <2>1 DEF Heaps
<1> HIDE DEF g
<1>11. {root} \ {Nil} = {root}
  BY <1>1, SlotsAndNil
<1>12. HeapOf(g, M)
  BY <1>6, <1>8, <1>9, <1>10, <1>11 DEF HeapOf
<1>13. Rooted(g)
  BY <1>3, <1>6, <1>7, <1>10 DEF Rooted
<1>14. \A n \in Slots \ N : g.md[n] = x.md[n]
  BY <1>3, <1>6, <1>7, <1>10
<1> QED BY <1>4, <1>5, <1>7, <1>10, <1>12, <1>13, <1>14 DEF Removed

LEMMA RemoveImplHeap ==
    ASSUME NEW h, NEW N, HeapOf(h, N), Rooted(h), NEW i \in N, NEW x, Revalued(h, x, i)
    PROVE  Removed(x, N, i, RemoveImpl(x, i)) /\ RemoveAsserts(x, i)
BY RemoveRoot, RemoveInner
------------------------------------------------------------------------------
(***************************************************************************)
(* The public operations                                                   *)
(***************************************************************************)

\* What is not among the nodes may be changed.
SameNodes(h, k, N) == /\ k \in Heaps /\ k.root = h.root
                      /\ \A n \in N : k.md[n] = h.md[n] /\ k.value[n] = h.value[n]

LEMMA OutsideHeap ==
    ASSUME NEW h, NEW N, HeapOf(h, N), NEW k, SameNodes(h, k, N)
    PROVE  HeapOf(k, N) /\ (Rooted(h) => Rooted(k))
<1>0. /\ k \in Heaps /\ k.root = h.root
      /\ \A n \in N : k.md[n] = h.md[n] /\ k.value[n] = h.value[n]
  BY DEF SameNodes
<1>1. /\ N \subseteq Slots /\ Forest(h.md, h.value, N, {h.root} \ {Nil})
      /\ h.root # Nil => h.root \in N /\ h.md[h.root].size = Cardinality(N)
      /\ h.root = Nil <=> N = {}
  BY HeapFacts
<1>2. k.md \in Links /\ k.value \in [Slots -> Int]
  BY <1>0, HeapTypes
<1>3. \A n \in N : Children(h.md, n) \subseteq N /\ Children(k.md, n) = Children(h.md, n)
  BY <1>0 DEF HeapOf, Children
<1>4. SameIn(h.md, h.value, k.md, k.value, N, {h.root} \ {Nil})
  BY <1>0, <1>1, <1>2, <1>3 DEF SameIn
<1>5. Forest(k.md, k.value, N, {k.root} \ {Nil})
  BY <1>0, <1>1, <1>4, SameForest
<1>6. SizeOf(k.md, k.root) = Cardinality(N)
  <2>1. SizeOf(h.md, h.root) = Cardinality(N)
    BY DEF HeapOf
  <2> QED BY <1>0, <1>1, <2>1 DEF SizeOf
<1> QED BY <1>0, <1>1, <1>3, <1>5, <1>6 DEF HeapOf, Rooted

\* The free list names every slot that is no node once.
FreeOf(s, N) ==
    /\ s \in Seq(Slots)
    /\ \A a, b \in 1 .. Len(s) : s[a] = s[b] => a = b
    /\ \A n \in Slots : n \in N <=> \A a \in 1 .. Len(s) : s[a] # n

LEMMA FreeFront ==
    ASSUME NEW s, NEW N, FreeOf(s, N), s # <<>>
    PROVE  Last(s) \in Slots \ N /\ FreeOf(Front(s), N \cup {Last(s)})
<1> DEFINE k == Len(s)
           t == Front(s)
<1>1. s \in Seq(Slots) /\ k \in Nat /\ k > 0 /\ k - 1 \in Nat
  <2>1. s \in Seq(Slots)
    BY DEF FreeOf
  <2>2. Len(s) \in Nat /\ Len(s) # 0
    BY <2>1, EmptySeq, LenProperties
  <2> QED BY <2>1, <2>2
<1>2. t = SubSeq(s, 1, k - 1)
  BY DEF Front
<1>3. Last(s) = s[k]
  BY DEF Last
<1>4. /\ t \in Seq(Slots) /\ Len(t) = k - 1 /\ \A a \in 1 .. k - 1 : t[a] = s[a]
  <2>1. \A a \in 1 .. k - 1 : s[a] \in Slots
    BY <1>1, ElementOfSeq
  <2> HIDE DEF k, t
  <2>2. /\ t \in Seq(Slots)
        /\ Len(t) = IF 1 <= k - 1 THEN (k - 1) - 1 + 1 ELSE 0
        /\ \A a \in 1 .. (k - 1) - 1 + 1 : t[a] = s[1 + a - 1]
    BY <1>1, <1>2, <2>1, SubSeqProperties DEF k
  <2> QED BY <1>1, <2>2
<1> HIDE DEF k, t
<1>5. k \in 1 .. k /\ k \notin 1 .. k - 1 /\ 1 .. k - 1 \subseteq 1 .. k
      /\ \A a \in 1 .. k : a = k \/ a \in 1 .. k - 1
  BY <1>1
<1>6. /\ \A a, b \in 1 .. k : s[a] = s[b] => a = b
      /\ \A n \in Slots : n \in N <=> \A a \in 1 .. k : s[a] # n
  BY DEF FreeOf, k
<1>7. s[k] \in Slots
  BY <1>1, <1>5, ElementOfSeq DEF k
<1>8. s[k] \notin N
  BY <1>5, <1>6, <1>7
<1>9. \A a, b \in 1 .. k - 1 : t[a] = t[b] => a = b
  BY <1>4, <1>5, <1>6
<1>10. ASSUME NEW n \in Slots
       PROVE  n \in N \cup {s[k]} <=> \A a \in 1 .. k - 1 : t[a] # n
  BY <1>4, <1>5, <1>6, <1>7
<1>11. FreeOf(t, N \cup {s[k]})
  BY <1>4, <1>9, <1>10 DEF FreeOf
<1> QED BY <1>3, <1>7, <1>8, <1>11 DEF t

LEMMA FreeAppend ==
    ASSUME NEW s, NEW N, FreeOf(s, N), NEW i \in Slots, i \in N
    PROVE  FreeOf(Append(s, i), N \ {i})
<1> DEFINE k == Len(s)
           t == Append(s, i)
<1>1. s \in Seq(Slots) /\ k \in Nat
  BY LenProperties DEF FreeOf
<1>2. /\ t \in Seq(Slots) /\ Len(t) = k + 1 /\ t[k + 1] = i
      /\ \A a \in 1 .. k : t[a] = s[a]
  BY <1>1, AppendProperties
<1> HIDE DEF t, k
<1>3. k + 1 \in 1 .. k + 1 /\ k + 1 \notin 1 .. k /\ 1 .. k \subseteq 1 .. k + 1
      /\ \A a \in 1 .. k + 1 : a = k + 1 \/ a \in 1 .. k
  BY <1>1
<1>4. /\ \A a, b \in 1 .. k : s[a] = s[b] => a = b
      /\ \A n \in Slots : n \in N <=> \A a \in 1 .. k : s[a] # n
  BY DEF FreeOf, k
<1>5. \A a, b \in 1 .. k + 1 : t[a] = t[b] => a = b
  BY <1>2, <1>3, <1>4
<1>6. ASSUME NEW n \in Slots
      PROVE  n \in N \ {i} <=> \A a \in 1 .. k + 1 : t[a] # n
  BY <1>2, <1>3, <1>4
<1> QED BY <1>2, <1>5, <1>6 DEF FreeOf, t

\* What a heap of the nodes N is between the operations.
Whole(h, N) == HeapOf(h, N) /\ Rooted(h) /\ FreeOf(h.free, N)

Grown(h, N, v, g) ==
    LET i == Last(h.free)
    IN  i \in Slots \ N /\ Whole(g, N \cup {i}) /\ g.value = [h.value EXCEPT ![i] = v]

\* An insertion, from a free list that may have lost slots.
Filled(h, N, i, v, g) ==
    /\ HeapOf(g, N \cup {i}) /\ (Rooted(h) => Rooted(g))
    /\ g.free = Front(h.free) /\ g.value = [h.value EXCEPT ![i] = v]

LEMMA InsertHeap ==
    ASSUME NEW h, NEW N, HeapOf(h, N), NEW v \in Values,
           Last(h.free) \in Slots \ N, Front(h.free) \in Seq(Slots)
    PROVE  Filled(h, N, Last(h.free), v, HeapInsert(h, v))
<1> DEFINE i == Last(h.free)
           t == Front(h.free)
           k == [h EXCEPT !.free = t, !.md[i] = Leaf, !.value[i] = v]
           g == InsertImpl(k, i)
<1>1. h \in Heaps
  BY DEF HeapOf
<1>2. i \in Slots \ N /\ t \in Seq(Slots)
  OBVIOUS
<1>3. HeapInsert(h, v) = g
  BY DEF HeapInsert
<1> HIDE DEF i, t
<1>4. /\ k.root = h.root /\ k.free = t /\ k.md = [h.md EXCEPT ![i] = Leaf]
      /\ k.value = [h.value EXCEPT ![i] = v]
  BY <1>1 DEF Heaps
<1>5. k \in Heaps
  <2>1. Leaf \in [parent : Pointers, left : Pointers, right : Pointers, size : 0 .. Capacity]
    BY SlotsAndNil DEF Leaf
  <2>2. [h.md EXCEPT ![i] = Leaf] \in Links
    BY <1>1, <1>2, <2>1, HeapTypes DEF Links
  <2>3. [h.value EXCEPT ![i] = v] \in [Slots -> Values]
    BY <1>1, <1>2, HeapTypes
  <2>4. k = [root |-> h.root, md |-> [h.md EXCEPT ![i] = Leaf],
             value |-> [h.value EXCEPT ![i] = v], free |-> t]
    <3> DEFINE m1 == [h.md EXCEPT ![i] = Leaf]
               v1 == [h.value EXCEPT ![i] = v]
    <3>1. k = [h EXCEPT !.free = t, !.md = m1, !.value = v1]
      BY Zenon
    <3> HIDE DEF m1, v1, k
    <3>2. k = [root |-> h.root, md |-> m1, value |-> v1, free |-> t]
      BY <1>1, <3>1 DEF Heaps
    <3> QED BY <3>2 DEF m1, v1
  <2> HIDE DEF k
  <2> QED BY <1>1, <1>2, <2>2, <2>3, <2>4, HeapTypes DEF Heaps
<1> HIDE DEF k
<1>6. HeapOf(k, N) /\ (Rooted(h) => Rooted(k))
  <2>1. \A n \in N : k.md[n] = h.md[n] /\ k.value[n] = h.value[n]
    BY <1>1, <1>2, <1>4, HeapTypes, HeapFacts DEF Links
  <2>2. SameNodes(h, k, N)
    BY <1>4, <1>5, <2>1 DEF SameNodes
  <2> QED BY <2>2, OutsideHeap
<1>7. k.md[i] = Leaf
  BY <1>1, <1>2, <1>4, HeapTypes DEF Links
<1>8. Inserted(k, N, i, g)
  BY <1>2, <1>6, <1>7, InsertImplHeap
<1> HIDE DEF g
<1>9. Rooted(h) => Rooted(g)
  BY <1>6, <1>8 DEF Inserted, Rooted
<1> QED BY <1>3, <1>4, <1>8, <1>9 DEF Filled, Inserted, i, t

LEMMA InsertWhole ==
    ASSUME NEW h, NEW N, Whole(h, N), h.free # <<>>, NEW v \in Values
    PROVE  Grown(h, N, v, HeapInsert(h, v))
<1> DEFINE i == Last(h.free)
           t == Front(h.free)
<1>1. HeapOf(h, N) /\ Rooted(h) /\ FreeOf(h.free, N)
  BY DEF Whole
<1>2. i \in Slots \ N /\ FreeOf(t, N \cup {i})
  BY <1>1, FreeFront
<1>3. t \in Seq(Slots)
  BY <1>2 DEF FreeOf
<1>4. Filled(h, N, i, v, HeapInsert(h, v))
  BY <1>1, <1>2, <1>3, InsertHeap
<1> QED BY <1>1, <1>2, <1>4 DEF Filled, Grown, Whole

LEMMA RemoveWhole ==
    ASSUME NEW h, NEW N, Whole(h, N), NEW i \in N
    PROVE  /\ Whole(HeapRemove(h, i), N \ {i}) /\ HeapRemove(h, i).value = h.value
           /\ RemoveAsserts(h, i)
<1> DEFINE r == RemoveImpl(h, i)
           g == [r EXCEPT !.free = Append(h.free, i)]
<1>1. HeapOf(h, N) /\ Rooted(h) /\ FreeOf(h.free, N) /\ h \in Heaps /\ i \in Slots
  BY HeapFacts DEF Whole
<1>2. Removed(h, N, i, r) /\ RemoveAsserts(h, i)
  <2>1. Revalued(h, h, i)
    BY <1>1 DEF Revalued
  <2> QED BY <1>1, <2>1, RemoveImplHeap
<1> HIDE DEF r
<1>3. HeapOf(r, N \ {i}) /\ Rooted(r) /\ r.value = h.value /\ r \in Heaps
  BY <1>2 DEF Removed, HeapOf
<1>4. FreeOf(Append(h.free, i), N \ {i}) /\ Append(h.free, i) \in Seq(Slots)
  <2>1. FreeOf(Append(h.free, i), N \ {i})
    BY <1>1, FreeAppend
  <2> QED BY <2>1 DEF FreeOf
<1>5. /\ g \in Heaps /\ g.root = r.root /\ g.md = r.md /\ g.value = r.value
      /\ g.free = Append(h.free, i)
  BY <1>3, <1>4 DEF Heaps
<1> HIDE DEF g
<1>6. HeapOf(g, N \ {i}) /\ Rooted(g)
  <2>1. SameNodes(r, g, N \ {i})
    BY <1>5 DEF SameNodes
  <2> QED BY <1>3, <2>1, OutsideHeap
<1>7. HeapRemove(h, i) = g
  BY DEF HeapRemove, g, r
<1> QED BY <1>2, <1>3, <1>4, <1>5, <1>6, <1>7 DEF Whole

LEMMA UpdateWhole ==
    ASSUME NEW h, NEW N, Whole(h, N), NEW i \in N, NEW v \in Values
    PROVE  /\ Whole(HeapUpdate(h, i, v), N)
           /\ HeapUpdate(h, i, v).value = [h.value EXCEPT ![i] = v]
<1> DEFINE x == [h EXCEPT !.value[i] = v]
           r == RemoveImpl(x, i)
           k == [r EXCEPT !.md[i] = Leaf]
           g == InsertImpl(k, i)
           M == N \ {i}
<1>1. /\ HeapOf(h, N) /\ Rooted(h) /\ FreeOf(h.free, N) /\ h \in Heaps /\ i \in Slots
      /\ N \subseteq Slots
  BY HeapFacts DEF Whole
<1>2. HeapUpdate(h, i, v) = g
  BY DEF HeapUpdate
<1>3. /\ x \in Heaps /\ x.root = h.root /\ x.md = h.md /\ x.free = h.free
      /\ x.value = [h.value EXCEPT ![i] = v]
  <2>1. [h.value EXCEPT ![i] = v] \in [Slots -> Values]
    BY <1>1, HeapTypes
  <2>2. x = [root |-> h.root, md |-> h.md, value |-> [h.value EXCEPT ![i] = v],
             free |-> h.free]
    BY <1>1 DEF Heaps
  <2> HIDE DEF x
  <2> QED BY <1>1, <2>1, <2>2, HeapTypes DEF Heaps
<1> HIDE DEF x
<1>4. Removed(x, N, i, r)
  <2>1. \A n \in Slots \ {i} : x.value[n] = h.value[n]
    BY <1>1, <1>3, HeapTypes
  <2>2. Revalued(h, x, i)
    BY <1>3, <2>1 DEF Revalued
  <2> QED BY <1>1, <2>2, RemoveImplHeap
<1> HIDE DEF r
<1>5. HeapOf(r, M) /\ Rooted(r) /\ r.value = x.value /\ r.free = h.free /\ r \in Heaps
  BY <1>3, <1>4 DEF Removed, HeapOf
<1>6. /\ k \in Heaps /\ k.root = r.root /\ k.free = r.free /\ k.value = r.value
      /\ k.md = [r.md EXCEPT ![i] = Leaf]
  <2>1. Leaf \in [parent : Pointers, left : Pointers, right : Pointers, size : 0 .. Capacity]
    BY SlotsAndNil DEF Leaf
  <2>2. [r.md EXCEPT ![i] = Leaf] \in Links
    BY <1>1, <1>5, <2>1, HeapTypes DEF Links
  <2>3. k = [root |-> r.root, md |-> [r.md EXCEPT ![i] = Leaf],
             value |-> r.value, free |-> r.free]
    BY <1>5 DEF Heaps
  <2> HIDE DEF k
  <2> QED BY <1>5, <2>2, <2>3, HeapTypes DEF Heaps
<1> HIDE DEF k
<1>7. HeapOf(k, M) /\ Rooted(k)
  <2>1. \A n \in M : k.md[n] = r.md[n] /\ k.value[n] = r.value[n]
    BY <1>1, <1>5, <1>6, HeapTypes DEF Links
  <2>2. SameNodes(r, k, M)
    BY <1>6, <2>1 DEF SameNodes
  <2> QED BY <1>5, <2>2, OutsideHeap
<1>8. k.md[i] = Leaf /\ i \in Slots \ M
  BY <1>1, <1>5, <1>6, HeapTypes DEF Links
<1>9. M \cup {i} = N
  BY <1>1
<1> HIDE DEF M
<1>10. Inserted(k, M, i, g)
  BY <1>7, <1>8, InsertImplHeap
<1> HIDE DEF g
<1>11. Rooted(g)
  BY <1>7, <1>10 DEF Inserted, Rooted
<1>12. Whole(g, N)
  BY <1>1, <1>5, <1>6, <1>9, <1>10, <1>11 DEF Inserted, Whole
<1> QED BY <1>2, <1>3, <1>5, <1>6, <1>10, <1>12 DEF Inserted
------------------------------------------------------------------------------
(***************************************************************************)
(* The inductive invariant                                                 *)
(***************************************************************************)

HeapInv == /\ Whole(heap, Handles)
           /\ live \in [Slots -> Values \cup {Nothing}]
           /\ \A i \in Handles : heap.value[i] = live[i]

\* A heap is made with no node, and every slot in the free list.
LEMMA EmptyWhole == Whole(Empty, {})
<1>3. /\ Empty.root = Nil /\ Empty.md = [i \in Slots |-> Leaf]
      /\ Empty.value = [i \in Slots |-> CHOOSE v \in Values : TRUE]
      /\ Empty.free = [i \in 1 .. Capacity |-> Capacity - i]
  BY DEF Empty
<1>4. Empty \in Heaps
  <2>1. Empty.md \in Links
    <3>1. Leaf \in [parent : Pointers, left : Pointers, right : Pointers, size : 0 .. Capacity]
      BY SlotsAndNil DEF Leaf
    <3> QED BY <1>3, <3>1 DEF Links
  <2>2. Empty.value \in [Slots -> Values]
    <3>1. (CHOOSE v \in Values : TRUE) \in Values
      BY HeapAssumption
    <3> QED BY <1>3, <3>1
  <2>3. Empty.free \in Seq(Slots)
    <3>1. \A i \in 1 .. Capacity : Capacity - i \in Slots
      BY SlotsAndNil DEF Slots
    <3> QED BY <1>3, <3>1, IsASeq, SlotsAndNil
  <2>4. Empty = [root |-> Nil, md |-> Empty.md, value |-> Empty.value, free |-> Empty.free]
    BY DEF Empty
  <2> QED BY <2>1, <2>2, <2>3, <2>4, SlotsAndNil DEF Heaps
<1>5. HeapOf(Empty, {})
  <2>1. Empty.md \in Links /\ Empty.value \in [Slots -> Int]
    BY <1>4, HeapTypes
  <2>2. {Empty.root} \ {Nil} = {}
    BY <1>3
  <2>3. Forest(Empty.md, Empty.value, {}, {})
    BY <2>1 DEF Forest, Linked, Sized
  <2>4. SizeOf(Empty.md, Empty.root) = Cardinality({})
    BY <1>3, FS_EmptySet DEF SizeOf
  <2> QED BY <1>4, <2>2, <2>3, <2>4 DEF HeapOf
<1>6. FreeOf(Empty.free, {})
  <2> DEFINE s == Empty.free
  <2>1. s \in Seq(Slots) /\ Len(s) = Capacity /\ \A a \in 1 .. Capacity : s[a] = Capacity - a
    BY <1>3, <1>4, SlotsAndNil DEF Heaps
  <2> HIDE DEF s
  <2>2. \A a, b \in 1 .. Capacity : s[a] = s[b] => a = b
    BY <2>1, SlotsAndNil
  <2>3. ASSUME NEW n \in Slots PROVE \E a \in 1 .. Capacity : s[a] = n
    <3>1. Capacity - n \in 1 .. Capacity /\ Capacity - (Capacity - n) = n
      BY SlotsAndNil DEF Slots
    <3> QED BY <2>1, <3>1
  <2> QED BY <2>1, <2>2, <2>3 DEF FreeOf, s
<1>7. Rooted(Empty)
  BY <1>3 DEF Rooted
<1> QED BY <1>5, <1>6, <1>7 DEF Whole

LEMMA InitInv == Init => HeapInv
<1> SUFFICES ASSUME Init PROVE HeapInv
  OBVIOUS
<1>1. heap = Empty /\ live = [i \in Slots |-> Nothing]
  BY DEF Init
<1>2. Handles = {}
  BY <1>1 DEF Handles
<1> QED BY <1>1, <1>2, EmptyWhole DEF HeapInv

\* A handle comes with the node that is inserted, and goes with it.
LEMMA InsertValueInv ==
    ASSUME HeapInv, NEW v \in Values, InsertValue(v)
    PROVE  HeapInv'
<1> DEFINE i == Last(heap.free)
<1>1. /\ heap.free # <<>> /\ heap' = HeapInsert(heap, v)
      /\ live' = [live EXCEPT ![i] = v] /\ live \in [Slots -> Values \cup {Nothing}]
      /\ Whole(heap, Handles) /\ \A k \in Handles : heap.value[k] = live[k]
  BY DEF InsertValue, HeapInv
<1>2. /\ i \in Slots \ Handles /\ Whole(heap', Handles \cup {i})
      /\ heap'.value = [heap.value EXCEPT ![i] = v]
  <2>1. Grown(heap, Handles, v, heap')
    BY <1>1, InsertWhole
  <2> QED BY <2>1 DEF Grown
<1> HIDE DEF i
<1>3. v # Nothing
  BY HeapAssumption
<1>4. live' \in [Slots -> Values \cup {Nothing}]
  BY <1>1
<1>5. Handles' = Handles \cup {i}
  BY <1>1, <1>2, <1>3 DEF Handles
<1>6. heap.value \in [Slots -> Values]
  BY <1>1, HeapTypes DEF Whole, HeapOf
<1>7. \A k \in Handles \cup {i} : heap'.value[k] = live'[k]
  BY <1>1, <1>2, <1>6 DEF Handles
<1> QED BY <1>2, <1>4, <1>5, <1>7 DEF HeapInv

LEMMA RemoveHandleInv ==
    ASSUME HeapInv, NEW i \in Slots, RemoveHandle(i)
    PROVE  HeapInv'
<1>1. /\ i \in Handles /\ heap' = HeapRemove(heap, i)
      /\ live' = [live EXCEPT ![i] = Nothing] /\ live \in [Slots -> Values \cup {Nothing}]
      /\ Whole(heap, Handles) /\ \A k \in Handles : heap.value[k] = live[k]
  BY DEF RemoveHandle, HeapInv
<1>2. Whole(heap', Handles \ {i}) /\ heap'.value = heap.value
  BY <1>1, RemoveWhole
<1>3. live' \in [Slots -> Values \cup {Nothing}]
  BY <1>1
<1>4. Handles' = Handles \ {i}
  BY <1>1 DEF Handles
<1>5. \A k \in Handles \ {i} : heap'.value[k] = live'[k]
  BY <1>1, <1>2 DEF Handles
<1> QED BY <1>2, <1>3, <1>4, <1>5 DEF HeapInv

LEMMA UpdateHandleInv ==
    ASSUME HeapInv, NEW i \in Slots, NEW v \in Values, UpdateHandle(i, v)
    PROVE  HeapInv'
<1>1. /\ i \in Handles /\ heap' = HeapUpdate(heap, i, v)
      /\ live' = [live EXCEPT ![i] = v] /\ live \in [Slots -> Values \cup {Nothing}]
      /\ Whole(heap, Handles) /\ \A k \in Handles : heap.value[k] = live[k]
  BY DEF UpdateHandle, HeapInv
<1>2. Whole(heap', Handles) /\ heap'.value = [heap.value EXCEPT ![i] = v]
  BY <1>1, UpdateWhole
<1>3. v # Nothing
  BY HeapAssumption
<1>4. live' \in [Slots -> Values \cup {Nothing}]
  BY <1>1
<1>5. Handles' = Handles
  BY <1>1, <1>3 DEF Handles
<1>6. heap.value \in [Slots -> Values]
  BY <1>1, HeapTypes DEF Whole, HeapOf
<1>7. \A k \in Handles : heap'.value[k] = live'[k]
  BY <1>1, <1>2, <1>6 DEF Handles
<1> QED BY <1>2, <1>4, <1>5, <1>7 DEF HeapInv

LEMMA StepInv == HeapInv /\ [HandleStep]_vars => HeapInv'
<1> SUFFICES ASSUME HeapInv, [HandleStep]_vars PROVE HeapInv'
  OBVIOUS
<1>1. ASSUME NEW v \in Values, InsertValue(v) PROVE HeapInv'
  BY <1>1, InsertValueInv
<1>2. ASSUME NEW i \in Slots, RemoveHandle(i) PROVE HeapInv'
  BY <1>2, RemoveHandleInv
<1>3. ASSUME NEW i \in Slots, NEW v \in Values, UpdateHandle(i, v) PROVE HeapInv'
  BY <1>3, UpdateHandleInv
<1>4. CASE UNCHANGED vars
  BY <1>4 DEF vars, HeapInv, Handles
<1> QED BY <1>1, <1>2, <1>3, <1>4 DEF HandleStep

\* The links stay those of one tree of the nodes whose handles are out, each with
\* the size of its subtree and no value above it that is less, and the free list
\* names the other slots once each, whatever handles book.rs inserts, removes and
\* updates.
THEOREM HeapInvariant == Spec => []HeapInv
BY InitInv, StepInv, PTL DEF Spec
------------------------------------------------------------------------------
(***************************************************************************)
(* The nodes of the tree                                                   *)
(***************************************************************************)

\* The sequence of the nodes below i: nodes of N, and once the depth covers the
\* tree as many as the size says, i and with each node its children.
Listed(md, N, i, d, t) ==
    /\ t \in Seq(N)
    /\ SizeOf(md, i) <= d => /\ Len(t) = SizeOf(md, i)
                             /\ i # Nil => i \in ToSet(t)
                             /\ \A n \in ToSet(t) : Children(md, n) \subseteq ToSet(t)

LEMMA ToSetConcat ==
    ASSUME NEW N, NEW a \in Seq(N), NEW b \in Seq(N)
    PROVE  /\ a \o b \in Seq(N) /\ Len(a \o b) = Len(a) + Len(b)
           /\ ToSet(a \o b) = ToSet(a) \cup ToSet(b)
<1>1. a \o b \in Seq(N) /\ Len(a \o b) = Len(a) + Len(b)
  OBVIOUS
<1>2. Range(a \o b) = Range(a) \cup Range(b)
  BY RangeConcatenation, Zenon
<1>3. \A x : ToSet(x) = Range(x)
  BY DEF ToSet, Range
<1> QED BY <1>1, <1>2, <1>3

LEMMA ListNode ==
    ASSUME NEW N, NEW i \in N, NEW a \in Seq(N), NEW b \in Seq(N)
    PROVE  LET t == <<i>> \o a \o b
           IN  /\ t \in Seq(N) /\ Len(t) = 1 + Len(a) + Len(b)
               /\ ToSet(t) = ({i} \cup ToSet(a)) \cup ToSet(b)
<1> DEFINE u == <<i>>
           s == u \o a
           t == s \o b
<1>1. u \in Seq(N) /\ Len(u) = 1 /\ ToSet(u) = {i}
  <2>1. u \in Seq(N) /\ Len(u) = 1 /\ DOMAIN u = {1} /\ u[1] = i
    OBVIOUS
  <2> HIDE DEF u
  <2> QED BY <2>1 DEF ToSet
<1> HIDE DEF u
<1>2. s \in Seq(N) /\ Len(s) = Len(u) + Len(a) /\ ToSet(s) = ToSet(u) \cup ToSet(a)
  <2>1. u \in Seq(N)
    BY <1>1
  <2> QED BY <2>1, ToSetConcat
<1> HIDE DEF s
<1>3. t \in Seq(N) /\ Len(t) = Len(s) + Len(b) /\ ToSet(t) = ToSet(s) \cup ToSet(b)
  <2>1. s \in Seq(N)
    BY <1>2
  <2> QED BY <2>1, ToSetConcat
<1> HIDE DEF t
<1>4. t \in Seq(N) /\ Len(t) = 1 + Len(a) + Len(b)
      /\ ToSet(t) = ({i} \cup ToSet(a)) \cup ToSet(b)
  BY <1>1, <1>2, <1>3
<1> QED BY <1>4, Zenon DEF t, s, u

LEMMA SubtreesList ==
    ASSUME NEW h, NEW N, HeapOf(h, N), NEW d \in 0 .. Capacity + 1, NEW i \in N \cup {Nil}
    PROVE  Listed(h.md, N, i, d, Subtrees(h.md)[d][i])
<1> DEFINE md == h.md
           sub == Subtrees(md)
           P(k) == \A n \in N \cup {Nil} : Listed(md, N, n, k, sub[k][n])
           S == {k \in Nat : k <= Capacity + 1 => P(k)}
<1>1. /\ md \in Links /\ N \subseteq Slots /\ Sized(md, N, Nil) /\ N \cup {Nil} \subseteq Pointers
      /\ \A n \in N : Children(md, n) \subseteq N
  <2>1. md \in Links /\ N \subseteq Slots /\ Sized(md, N, Nil)
    BY HeapFacts
  <2> QED BY <2>1, SlotsAndNil DEF HeapOf
<1>2. \A k \in 0 .. Capacity + 1 : sub[k] = SubtreeStep(md, sub, k)
  BY SubtreesStep
<1> HIDE DEF sub
<1>3. ToSet(<<>>) = {} /\ <<>> \in Seq(N) /\ Len(<<>>) = 0
  BY DEF ToSet
<1>4. \A k \in 0 .. Capacity + 1 : Listed(md, N, Nil, k, <<>>)
  BY <1>3, SlotsAndNil DEF Listed, SizeOf
<1>5. 0 \in S
  <2> SUFFICES ASSUME NEW n \in N \cup {Nil} PROVE Listed(md, N, n, 0, sub[0][n])
    OBVIOUS
  <2>1. 0 \in 0 .. Capacity + 1
    BY SlotsAndNil
  <2>2. sub[0][n] = <<>>
    BY <1>1, <1>2, <2>1 DEF SubtreeStep
  <2>3. CASE n = Nil
    BY <1>4, <2>1, <2>2, <2>3
  <2>4. CASE n # Nil
    <3>1. n \in N /\ md[n].size >= 1 /\ md[n].size \in Nat /\ SizeOf(md, n) = md[n].size
      BY <1>1, <2>4, Larger DEF SizeOf
    <3>2. ~(SizeOf(md, n) <= 0)
      BY <3>1
    <3> QED BY <1>3, <2>2, <3>2 DEF Listed
  <2> QED BY <2>3, <2>4
<1>6. ASSUME NEW k \in Nat, k \in S PROVE k + 1 \in S
  <2> SUFFICES ASSUME k + 1 <= Capacity + 1, NEW n \in N \cup {Nil}
               PROVE  Listed(md, N, n, k + 1, sub[k + 1][n])
    OBVIOUS
  <2>1. k + 1 \in 0 .. Capacity + 1 /\ k + 1 # 0 /\ (k + 1) - 1 = k /\ k <= Capacity + 1
    BY SlotsAndNil
  <2>2. sub[k + 1][n] = IF n = Nil THEN <<>>
                        ELSE <<n>> \o sub[k][md[n].left] \o sub[k][md[n].right]
    <3> DEFINE e(q) == IF q = Nil THEN <<>>
                       ELSE <<q>> \o sub[k][md[q].left] \o sub[k][md[q].right]
    <3>1. n \in Pointers
      BY <1>1
    <3>2. SubtreeStep(md, sub, k + 1) = [q \in Pointers |-> e(q)]
      BY <2>1 DEF SubtreeStep
    <3>3. sub[k + 1] = [q \in Pointers |-> e(q)]
      BY <1>2, <2>1, <3>2
    <3> HIDE DEF e
    <3>4. sub[k + 1][n] = e(n)
      BY <3>1, <3>3
    <3> QED BY <3>4 DEF e
  <2>3. CASE n = Nil
    BY <1>4, <2>1, <2>2, <2>3
  <2>4. CASE n # Nil
    <3> DEFINE l == md[n].left
               r == md[n].right
               a == sub[k][l]
               b == sub[k][r]
               t == <<n>> \o a \o b
    <3>1. n \in N /\ n \in Slots
      BY <1>1, <2>4
    <3>2. l \in N \cup {Nil} /\ r \in N \cup {Nil} /\ Children(md, n) = {l, r} \ {Nil}
      BY <1>1, <3>1, LinkTypes DEF Children
    <3>3. Listed(md, N, l, k, a) /\ Listed(md, N, r, k, b)
      BY <1>6, <2>1, <3>2
    <3>4. /\ md[n].size = 1 + SizeOf(md, l) + SizeOf(md, r) /\ SizeOf(md, n) = md[n].size
          /\ SizeOf(md, l) \in Nat /\ SizeOf(md, r) \in Nat
      <4>1. md[n].size = 1 + SizeOf(md, l) + SizeOf(md, r)
        BY <1>1, <2>4, <3>1 DEF Sized
      <4> QED BY <1>1, <2>4, <3>1, <4>1, Larger DEF SizeOf
    <3> HIDE DEF a, b, l, r
    <3>5. a \in Seq(N) /\ b \in Seq(N)
      BY <3>3 DEF Listed
    <3>6. t \in Seq(N) /\ Len(t) = 1 + Len(a) + Len(b)
          /\ ToSet(t) = ({n} \cup ToSet(a)) \cup ToSet(b)
      BY <3>1, <3>5, ListNode
    <3> HIDE DEF t
    <3>7. ASSUME SizeOf(md, n) <= k + 1
          PROVE  /\ Len(t) = SizeOf(md, n) /\ n \in ToSet(t)
                 /\ \A m \in ToSet(t) : Children(md, m) \subseteq ToSet(t)
      <4>1. SizeOf(md, l) <= k /\ SizeOf(md, r) <= k
        BY <3>4, <3>7
      <4>2. /\ Len(a) = SizeOf(md, l) /\ (l # Nil => l \in ToSet(a))
            /\ \A m \in ToSet(a) : Children(md, m) \subseteq ToSet(a)
        BY <3>3, <4>1 DEF Listed
      <4>3. /\ Len(b) = SizeOf(md, r) /\ (r # Nil => r \in ToSet(b))
            /\ \A m \in ToSet(b) : Children(md, m) \subseteq ToSet(b)
        BY <3>3, <4>1 DEF Listed
      <4> QED BY <3>2, <3>4, <3>6, <4>2, <4>3
    <3>8. Listed(md, N, n, k + 1, t)
      BY <3>6, <3>7 DEF Listed
    <3> QED BY <2>2, <2>4, <3>8 DEF t, a, b, l, r
  <2> QED BY <2>3, <2>4
<1>7. \A k \in Nat : k \in S
  <2> HIDE DEF S
  <2> QED BY <1>5, <1>6, AllNumbers
<1>8. P(d)
  BY <1>7, SlotsAndNil
<1> QED BY <1>8 DEF sub

LEMMA TreeNodes ==
    ASSUME HeapInv
    PROVE  Nodes = Handles /\ Len(Tree) = Cardinality(Handles)
<1>1. HeapOf(heap, Handles)
  BY DEF HeapInv, Whole
<1>2. /\ heap.md \in Links /\ Handles \subseteq Slots
      /\ Linked(heap.md, heap.value, Handles, {heap.root} \ {Nil})
      /\ Sized(heap.md, Handles, Nil) /\ heap.root \in Pointers
      /\ heap.root # Nil => heap.root \in Handles
  BY <1>1, HeapFacts
<1>3. SizeOf(heap.md, heap.root) = Cardinality(Handles)
  BY <1>1 DEF HeapOf
<1>4. Capacity + 1 \in 0 .. Capacity + 1 /\ heap.root \in Handles \cup {Nil}
  BY <1>2, SlotsAndNil
<1>5. Listed(heap.md, Handles, heap.root, Capacity + 1, Tree)
  BY <1>1, <1>4, SubtreesList DEF Tree
<1>6. SizeOf(heap.md, heap.root) <= Capacity + 1
  <2>1. SizeOf(heap.md, heap.root) \in Nat /\ SizeOf(heap.md, heap.root) <= Capacity
    BY <1>2, SizeTypes
  <2> QED BY <2>1, SlotsAndNil
<1>7. /\ Tree \in Seq(Handles) /\ Len(Tree) = Cardinality(Handles)
      /\ heap.root # Nil => heap.root \in Nodes
      /\ \A n \in Nodes : Children(heap.md, n) \subseteq Nodes
  BY <1>3, <1>5, <1>6 DEF Listed, Nodes
<1>8. Nodes \subseteq Handles
  <2>1. Nodes = {Tree[k] : k \in 1 .. Len(Tree)}
    BY <1>7, LenProperties DEF Nodes, ToSet
  <2> QED BY <1>7, <2>1, ElementOfSeq
<1>9. Handles \subseteq Nodes
  <2> DEFINE R == {heap.root} \ {Nil}
  <2>1. R \subseteq Nodes
    BY <1>7
  <2>2. \A n \in Handles : n \in Nodes => Children(heap.md, n) \cap Handles \subseteq Nodes
    BY <1>7
  <2> HIDE DEF R
  <2>3. Linked(heap.md, heap.value, Handles, R)
    BY <1>2 DEF R
  <2> QED BY <1>2, <2>1, <2>2, <2>3, Downward
<1> QED BY <1>7, <1>8, <1>9

\* The links, values and handles have their types.
THEOREM HeapTypeCorrect == Spec => []TypeOK
<1>1. HeapInv => TypeOK
  <2> SUFFICES ASSUME HeapInv PROVE TypeOK
    OBVIOUS
  <2>1. heap \in Heaps /\ live \in [Slots -> Values \cup {Nothing}]
    BY DEF HeapInv, Whole, HeapOf
  <2> QED BY <2>1, HeapTypes DEF TypeOK, Links
<1> QED BY <1>1, HeapInvariant, PTL

\* What TreeHeap::validate asserts holds after every operation: the nodes are one
\* tree, no child is greater than its node, children know their parent and nodes
\* the size of their subtree.
THEOREM HeapValid == Spec => []Valid
<1>1. HeapInv => Valid
  <2> SUFFICES ASSUME HeapInv PROVE Valid
    OBVIOUS
  <2>1. HeapOf(heap, Handles)
    BY DEF HeapInv, Whole
  <2>2. /\ heap.md \in Links /\ Handles \subseteq Slots
        /\ Linked(heap.md, heap.value, Handles, {heap.root} \ {Nil})
        /\ Sized(heap.md, Handles, Nil)
        /\ \A n \in Handles : Children(heap.md, n) \subseteq Handles
    BY <2>1, HeapFacts DEF HeapOf
  <2>3. Nodes = Handles /\ Cardinality(Nodes) = Len(Tree)
    BY TreeNodes
  <2>4. ASSUME NEW i \in Nodes
        PROVE  /\ \A c \in {heap.md[i].left, heap.md[i].right} \ {Nil} :
                     heap.value[c] <= heap.value[i] /\ heap.md[c].parent = i
               /\ heap.md[i].size = 1 + SizeOf(heap.md, heap.md[i].left)
                                      + SizeOf(heap.md, heap.md[i].right)
    <3>1. Children(heap.md, i) \cap Handles = {heap.md[i].left, heap.md[i].right} \ {Nil}
      BY <2>2, <2>3 DEF Children
    <3>2. i \in Handles /\ i # Nil
      BY <2>2, <2>3, SlotsAndNil
    <3> QED BY <2>2, <3>1, <3>2 DEF Linked, Sized
  <2> QED BY <2>3, <2>4 DEF Valid
<1> QED BY <1>1, HeapInvariant, PTL

LEMMA FreeCount ==
    ASSUME NEW s, NEW N, N \subseteq Slots, FreeOf(s, N)
    PROVE  ToSet(s) = Slots \ N /\ Len(s) = Cardinality(Slots \ N)
<1> DEFINE k == Len(s)
           T == Slots \ N
<1>1. /\ s \in Seq(Slots) /\ k \in Nat /\ DOMAIN s = 1 .. k
      /\ \A a, b \in 1 .. k : s[a] = s[b] => a = b
      /\ \A n \in Slots : n \in N <=> \A a \in 1 .. k : s[a] # n
      /\ \A a \in 1 .. k : s[a] \in Slots
  BY LenProperties, ElementOfSeq DEF FreeOf
<1> HIDE DEF k
<1>2. ToSet(s) = T
  BY <1>1 DEF ToSet
<1>3. s \in [1 .. k -> T]
  <2>1. s = [a \in 1 .. k |-> s[a]]
    BY <1>1
  <2>2. \A a \in 1 .. k : s[a] \in T
    BY <1>1
  <2> QED BY <2>1, <2>2
<1>4. s \in Injection(1 .. k, T) /\ s \in Surjection(1 .. k, T)
  <2>1. \A n \in T : \E a \in 1 .. k : s[a] = n
    BY <1>1
  <2> QED BY <1>1, <1>3, <2>1 DEF Injection, Surjection, IsInjective
<1>5. IsFiniteSet(T)
  BY NodeCount
<1>6. Cardinality(1 .. k) = Cardinality(T)
  BY <1>4, <1>5, FS_Injection
<1>7. Cardinality(1 .. k) = k
  <2>1. 1 \in Int /\ k \in Int /\ (1 > k => k = 0) /\ k - 1 + 1 = k
    BY <1>1
  <2>2. Cardinality(1 .. k) = IF 1 > k THEN 0 ELSE k - 1 + 1
    BY <2>1, FS_Interval
  <2> QED BY <2>1, <2>2
<1> QED BY <1>2, <1>6, <1>7 DEF k

\* No node is lost and none comes back: the tree holds exactly the nodes whose
\* handles are out, with their values, the free list the others, and no
\* assertion of remove_impl fails for a handle that is out.
THEOREM HeapLosesNothing == Spec => []NothingLost
<1>1. HeapInv => NothingLost
  <2> SUFFICES ASSUME HeapInv PROVE NothingLost
    OBVIOUS
  <2>1. /\ Whole(heap, Handles) /\ FreeOf(heap.free, Handles) /\ Rooted(heap)
        /\ \A i \in Handles : heap.value[i] = live[i]
    BY DEF HeapInv, Whole
  <2>2. Nodes = Handles
    BY TreeNodes
  <2>3. \A i \in Handles : RemoveAsserts(heap, i)
    BY <2>1, RemoveWhole
  <2>4. Handles \subseteq Slots
    BY DEF Handles
  <2>5. ToSet(heap.free) = Slots \ Handles /\ Len(heap.free) = Cardinality(Slots \ Handles)
    BY <2>1, <2>4, FreeCount
  <2> QED BY <2>1, <2>2, <2>3, <2>5 DEF NothingLost, Rooted
<1> QED BY <1>1, HeapInvariant, PTL

------------------------------------------------------------------------------
(***************************************************************************)
(* The heap is a priority queue                                            *)
(***************************************************************************)

\* No value is greater than that of the root.
LEMMA RootIsGreatest ==
    ASSUME NEW h, NEW N, HeapOf(h, N)
    PROVE  \A n \in N : h.value[n] <= h.value[h.root]
<1> DEFINE R == {h.root} \ {Nil}
           S == {n \in N : h.value[n] <= h.value[h.root]}
<1>1. /\ N \subseteq Slots /\ h.value \in [Slots -> Int]
      /\ Linked(h.md, h.value, N, R) /\ Sized(h.md, N, Nil)
      /\ h.root # Nil => h.root \in N
      /\ h.root = Nil => N = {}
  BY HeapFacts
<1>2. R \subseteq S
  BY <1>1
<1>3. ASSUME NEW n \in N, n \in S, NEW c \in Children(h.md, n) \cap N
      PROVE  c \in S
  <2>1. h.value[c] <= h.value[n]
    BY <1>1 DEF Linked
  <2>2. h.value[n] <= h.value[h.root] /\ h.root \in N
    BY <1>1, <1>3
  <2>3. h.value[c] \in Int /\ h.value[n] \in Int /\ h.value[h.root] \in Int
    BY <1>1, <2>2
  <2> QED BY <2>1, <2>2, <2>3
<1> HIDE DEF R, S
<1>4. N \subseteq S
  BY <1>1, <1>2, <1>3, Downward
<1> QED BY <1>4 DEF S

Top(h) == IF h.root = Nil THEN Nothing ELSE h.root
Out(k) == {i \in Slots : k[i] # Nothing}

LEMMA TopIsPeek ==
    ASSUME NEW h, NEW k, HeapOf(h, Out(k)), \A i \in Out(k) : h.value[i] = k[i]
    PROVE  Top(h) \in Queue!Peek(k)
<1> DEFINE N == Out(k)
<1>1. Queue!Live(k) = N
  BY DEF Queue!Live, Out
<1>2. /\ h.root = Nil <=> N = {}
      /\ h.root # Nil => h.root \in N
  BY HeapFacts
<1>3. CASE h.root = Nil
  BY <1>1, <1>2, <1>3 DEF Queue!Peek, Top
<1>4. CASE h.root # Nil
  <2>1. \A n \in N : h.value[n] <= h.value[h.root]
    BY RootIsGreatest
  <2>2. \A n \in N : k[n] <= k[h.root]
    BY <1>2, <1>4, <2>1
  <2> QED BY <1>1, <1>2, <1>4, <2>2 DEF Queue!Peek, Queue!Greatest, Top
<1> QED BY <1>3, <1>4

LEMMA QueueInit == Init => Queue!Init
<1> SUFFICES ASSUME Init PROVE Queue!Init
  OBVIOUS
<1>1. heap.root = Nil /\ live = [i \in Slots |-> Nothing]
  BY DEF Init, Empty
<1> QED BY <1>1 DEF Queue!Init

LEMMA QueueStep == HeapInv /\ HeapInv' /\ [HandleStep]_vars => [Queue!Next]_Queue!vars
<1> SUFFICES ASSUME HeapInv, HeapInv', [HandleStep]_vars
             PROVE  [Queue!Next]_Queue!vars
  OBVIOUS
<1>1. Top(heap') \in Queue!Peek(live')
  <2>1. HeapOf(heap', Out(live')) /\ \A i \in Out(live') : heap'.value[i] = live'[i]
    BY DEF HeapInv, Whole, Handles, Out
  <2> QED BY <2>1, TopIsPeek
<1>2. (IF heap.root = Nil THEN Nothing ELSE heap.root)' \in Queue!Peek(live')
  BY <1>1 DEF Top
<1>3. live \in [Slots -> Values \cup {Nothing}]
  BY DEF HeapInv
<1>4. ASSUME NEW v \in Values, InsertValue(v) PROVE Queue!Insert
  <2>1. /\ heap.free # <<>> /\ live' = [live EXCEPT ![Last(heap.free)] = v]
        /\ Whole(heap, Handles)
    BY <1>4 DEF InsertValue, HeapInv
  <2>2. Last(heap.free) \in Slots \ Handles
    BY <2>1, InsertWhole DEF Grown
  <2>3. live[Last(heap.free)] = Nothing
    BY <2>2 DEF Handles
  <2> QED BY <1>2, <2>1, <2>2, <2>3 DEF Queue!Insert
<1>5. ASSUME NEW i \in Slots, RemoveHandle(i) PROVE Queue!Remove
  BY <1>2, <1>5 DEF RemoveHandle, Handles, Queue!Remove
<1>6. ASSUME NEW i \in Slots, NEW v \in Values, UpdateHandle(i, v) PROVE Queue!Update
  BY <1>2, <1>6 DEF UpdateHandle, Handles, Queue!Update
<1>7. CASE UNCHANGED vars
  BY <1>7 DEF vars, Queue!vars
<1> QED BY <1>4, <1>5, <1>6, <1>7 DEF HandleStep, Queue!Next

\* The heap is a priority queue: after every operation its root, which book.rs
\* matches against, is a greatest of the values put under the handles.
THEOREM HeapImplementsQueue == Spec => ImplementsQueue
<1>1. Spec => Queue!Spec
  BY QueueInit, QueueStep, HeapInvariant, PTL DEF Spec, Queue!Spec
<1> QED BY <1>1 DEF ImplementsQueue

------------------------------------------------------------------------------
(***************************************************************************)
(* The iterator                                                            *)
(***************************************************************************)

NewIterator == [heap |-> Empty, node |-> [i \in Slots |-> Nil], order |-> <<>>]
IterateStep(h, f, n) == IF n = 0 THEN AddCandidate(h, NewIterator, h.root)
                        ELSE Iterate(h, f[n - 1])

LEMMA IterationsExists ==
    ASSUME NEW h
    PROVE  \E f : f = [n \in 0 .. Capacity + 1 |-> IterateStep(h, f, n)]
<1> DEFINE F(f, k) == f = [d \in 0 .. k |-> IterateStep(h, f, d)]
           S == {k \in Nat : \E f : F(f, k)}
<1>1. \A f, g, d : d = 0 \/ f[d - 1] = g[d - 1]
                      => IterateStep(h, f, d) = IterateStep(h, g, d)
  BY DEF IterateStep
<1>2. 0 \in S
  <2> DEFINE f == [d \in 0 .. 0 |-> IterateStep(h, <<>>, d)]
  <2>1. F(f, 0)
    <3>1. \A d \in 0 .. 0 : IterateStep(h, <<>>, d) = IterateStep(h, f, d)
      <4> HIDE DEF f
      <4> QED BY <1>1
    <3> QED BY <3>1
  <2> QED BY <2>1
<1>3. ASSUME NEW k \in Nat, k \in S PROVE k + 1 \in S
  <2>1. PICK f : F(f, k)
    BY <1>3
  <2> DEFINE g == [d \in 0 .. k + 1 |-> IF d = k + 1 THEN IterateStep(h, f, d) ELSE f[d]]
  <2>2. \A d \in 0 .. k : g[d] = f[d]
    OBVIOUS
  <2>3. ASSUME NEW d \in 0 .. k + 1 PROVE g[d] = IterateStep(h, g, d)
    <3>1. d = 0 \/ f[d - 1] = g[d - 1]
      <4> HIDE DEF g
      <4> QED BY <2>2
    <3>2. IterateStep(h, f, d) = IterateStep(h, g, d)
      <4> HIDE DEF g
      <4> QED BY <1>1, <3>1
    <3>3. d # k + 1 => f[d] = IterateStep(h, f, d)
      <4>1. d # k + 1 => d \in 0 .. k
        OBVIOUS
      <4> QED BY <2>1, <4>1
    <3>4. g[d] = IF d = k + 1 THEN IterateStep(h, f, d) ELSE f[d]
      OBVIOUS
    <3> HIDE DEF g
    <3> QED BY <3>2, <3>3, <3>4
  <2>4. F(g, k + 1)
    <3>1. g = [d \in 0 .. k + 1 |-> g[d]]
      OBVIOUS
    <3> HIDE DEF g
    <3> QED BY <2>3, <3>1
  <2>5. \E f1 : F(f1, k + 1)
    <3> HIDE DEF g, F
    <3> QED BY <2>4
  <2> QED BY <2>5
<1>4. Capacity + 1 \in S
  <2>1. Capacity + 1 \in Nat
    BY SlotsAndNil
  <2> HIDE DEF S
  <2> QED BY <1>2, <1>3, <2>1, AllNumbers
<1> QED BY <1>4

LEMMA IterationsStep ==
    ASSUME NEW h, NEW n \in 0 .. Capacity + 1
    PROVE  Iterations(h)[n] = IterateStep(h, Iterations(h), n)
<1> DEFINE F(f) == f = [c \in 0 .. Capacity + 1 |-> IterateStep(h, f, c)]
<1>1. Iterations(h) = CHOOSE f : F(f)
  BY DEF Iterations, IterateStep, NewIterator
<1>2. \E f : F(f)
  BY IterationsExists
<1>3. F(CHOOSE f : F(f))
  <2> HIDE DEF F
  <2> QED BY <1>2
<1> HIDE DEF F
<1>4. F(Iterations(h))
  BY <1>1, <1>3
<1> QED BY <1>4 DEF F

Iterators == [heap : Heaps, node : [Slots -> Pointers], order : Seq(Slots)]

\* The heap of candidates holds, at its nodes M, the nodes C of the other heap,
\* none of which exceeds one of those yielded, Y.  It has used its slots F: one
\* for each node that is or was a candidate.
Cand(h, N, it, M, F, Y, C) ==
    /\ it \in Iterators
    /\ HeapOf(it.heap, M) /\ FreeOf(it.heap.free, F) /\ M \subseteq F /\ F \subseteq Slots
    /\ Cardinality(F) = Cardinality(Y \cup C)
    /\ Y \subseteq N /\ C \subseteq N /\ Y \cap C = {}
    /\ \A m \in M : it.node[m] \in C /\ it.heap.value[m] = h.value[it.node[m]]
    /\ \A m, m2 \in M : it.node[m] = it.node[m2] => m = m2
    /\ \A c \in C : \E m \in M : it.node[m] = c
    /\ \A y \in Y, c \in C : h.value[c] <= h.value[y]

\* A node that neither is nor was a candidate finds a free slot.
Added(h, N, it, Y, C, a) == /\ \E M, F : Cand(h, N, a, M, F, Y, C)
                            /\ a.order = it.order

New(h, N, Y, C, i) == i \in N \ (Y \cup C) /\ \A y \in Y : h.value[i] <= h.value[y]

LEMMA CandidateAdded ==
    ASSUME NEW h, NEW N, HeapOf(h, N), NEW it, NEW M, NEW F, NEW Y, NEW C,
           Cand(h, N, it, M, F, Y, C), NEW i, New(h, N, Y, C, i)
    PROVE  Added(h, N, it, Y, C \cup {i}, AddCandidate(h, it, i))
<1> DEFINE q == it.heap
           s == Last(q.free)
           v == h.value[i]
           q2 == HeapInsert(q, v)
           a == [it EXCEPT !.heap = q2, !.node[s] = i]
           D == C \cup {i}
           M2 == M \cup {s}
           F2 == F \cup {s}
<1>1. /\ it \in Iterators /\ HeapOf(q, M) /\ FreeOf(q.free, F) /\ M \subseteq F
      /\ F \subseteq Slots /\ Cardinality(F) = Cardinality(Y \cup C)
      /\ Y \subseteq N /\ C \subseteq N /\ Y \cap C = {}
  BY DEF Cand
<1>2. /\ \A m \in M : it.node[m] \in C /\ q.value[m] = h.value[it.node[m]]
      /\ \A m, m2 \in M : it.node[m] = it.node[m2] => m = m2
      /\ \A c \in C : \E m \in M : it.node[m] = c
      /\ \A y \in Y, c \in C : h.value[c] <= h.value[y]
  BY DEF Cand
<1>3. i \in N /\ i \notin Y /\ i \notin C /\ \A y \in Y : h.value[i] <= h.value[y]
  BY DEF New
<1>4. /\ N \subseteq Slots /\ i \in Slots /\ i # Nil /\ i \in Pointers /\ v \in Values
      /\ h.value \in [Slots -> Values]
  <2>1. N \subseteq Slots /\ h \in Heaps
    BY HeapFacts
  <2> QED BY <1>3, <2>1, HeapTypes, SlotsAndNil
<1>5. q.free # <<>>
  <2> SUFFICES ASSUME q.free = <<>> PROVE FALSE
    OBVIOUS
  <2>1. F = Slots
    <3>1. \A n \in Slots : n \in F <=> \A b \in 1 .. Len(q.free) : q.free[b] # n
      BY <1>1 DEF FreeOf
    <3> HIDE DEF q
    <3>2. Len(<<>>) = 0 /\ 1 .. 0 = {}
      OBVIOUS
    <3> QED BY <1>1, <3>1, <3>2
  <2>2. Cardinality(Slots) = Capacity
    <3>1. Capacity - 1 \in Int /\ 0 \in Int /\ ~(0 > Capacity - 1)
          /\ (Capacity - 1) - 0 + 1 = Capacity
      BY SlotsAndNil
    <3> QED BY <3>1, FS_Interval DEF Slots
  <2>3. Cardinality(Y \cup C) < Capacity
    <3>1. Y \cup C \subseteq Slots /\ Y \cup C # Slots
      BY <1>1, <1>3, <1>4
    <3> QED BY <3>1, NodeCount
  <2> QED BY <1>1, <2>1, <2>2, <2>3, SlotsAndNil
<1>6. s \in Slots \ F /\ FreeOf(Front(q.free), F2)
  BY <1>1, <1>5, FreeFront
<1>7. Front(q.free) \in Seq(Slots) /\ s \in Slots \ M
  <2>1. Front(q.free) \in Seq(Slots)
    BY <1>6 DEF FreeOf
  <2> QED BY <1>1, <1>6, <2>1
<1>8. Filled(q, M, s, v, q2)
  BY <1>1, <1>4, <1>7, InsertHeap
<1>9. AddCandidate(h, it, i) = a
  BY <1>4, <1>5 DEF AddCandidate
<1>10. q.value \in [Slots -> Values]
  BY <1>1, HeapTypes DEF HeapOf
<1> HIDE DEF q2, s, v
<1>11. /\ HeapOf(q2, M2) /\ q2.free = Front(q.free) /\ q2.value = [q.value EXCEPT ![s] = v]
       /\ q2 \in Heaps
  BY <1>8 DEF Filled, HeapOf
<1>12. /\ a \in Iterators /\ a.heap = q2 /\ a.node = [it.node EXCEPT ![s] = i]
       /\ a.order = it.order
  <2>1. it.node \in [Slots -> Pointers]
    BY <1>1 DEF Iterators
  <2>2. a.heap = q2 /\ a.node = [it.node EXCEPT ![s] = i] /\ a.order = it.order
    BY <1>1 DEF Iterators
  <2>3. a \in Iterators
    <3> DEFINE w == [it.node EXCEPT ![s] = i]
    <3>1. w \in [Slots -> Pointers]
      BY <1>4, <1>7, <2>1
    <3>2. a = [it EXCEPT !.heap = q2, !.node = w]
      BY Zenon
    <3> HIDE DEF w, a
    <3> QED BY <1>1, <1>11, <3>1, <3>2 DEF Iterators
  <2> QED BY <2>2, <2>3
<1>13. it.node \in [Slots -> Pointers]
  BY <1>1 DEF Iterators
<1> HIDE DEF q, a
<1>14. /\ a.node[s] = i /\ q2.value[s] = v
       /\ \A m \in M : a.node[m] = it.node[m] /\ q2.value[m] = q.value[m] /\ m # s
  BY <1>1, <1>7, <1>10, <1>11, <1>12, <1>13
<1>15. \A m \in M2 : a.node[m] \in D /\ q2.value[m] = h.value[a.node[m]]
  BY <1>2, <1>14 DEF v
<1>16. \A m, m2 \in M2 : a.node[m] = a.node[m2] => m = m2
  BY <1>2, <1>3, <1>14
<1>17. \A c \in D : \E m \in M2 : a.node[m] = c
  BY <1>2, <1>14
<1>18. \A y \in Y, c \in D : h.value[c] <= h.value[y]
  BY <1>2, <1>3
<1>19. Cardinality(F2) = Cardinality(Y \cup D)
  <2>1. Cardinality(F2) = Cardinality(F) + 1
    BY <1>1, <1>6, NodeCount, FS_AddElement
  <2>2. Y \cup C \subseteq Slots /\ i \notin Y \cup C /\ (Y \cup C) \cup {i} = Y \cup D
    BY <1>1, <1>3, <1>4
  <2>3. Cardinality(Y \cup D) = Cardinality(Y \cup C) + 1
    <3>1. IsFiniteSet(Y \cup C)
      BY <2>2, NodeCount
    <3>2. Cardinality((Y \cup C) \cup {i}) = Cardinality(Y \cup C) + 1
      BY <2>2, <3>1, FS_AddElement
    <3> QED BY <2>2, <3>2
  <2> QED BY <1>1, <2>1, <2>3
<1>20. M2 \subseteq F2 /\ F2 \subseteq Slots /\ D \subseteq N /\ Y \cap D = {}
  BY <1>1, <1>3, <1>6
<1> HIDE DEF D, M2, F2
<1>21. Cand(h, N, a, M2, F2, Y, D)
  BY <1>1, <1>6, <1>11, <1>12, <1>15, <1>16, <1>17, <1>18, <1>19, <1>20 DEF Cand
<1> QED BY <1>9, <1>12, <1>21 DEF Added, D

\* The candidate that is popped exceeds all others.
LEMMA CandidatePopped ==
    ASSUME NEW h, NEW N, HeapOf(h, N), NEW it, NEW M, NEW F, NEW Y, NEW C,
           Cand(h, N, it, M, F, Y, C), it.heap.root # Nil
    PROVE  LET n == it.node[it.heap.root]
           IN  /\ n \in C /\ \A c \in C : h.value[c] <= h.value[n]
               /\ Added(h, N, it, Y \cup {n}, C \ {n}, [it EXCEPT !.heap = HeapPop(it.heap)])
<1> DEFINE q == it.heap
           r == q.root
           n == it.node[r]
           q2 == HeapPop(q)
           a == [it EXCEPT !.heap = q2]
           M2 == M \ {r}
           Z == Y \cup {n}
           D == C \ {n}
<1>1. /\ it \in Iterators /\ HeapOf(q, M) /\ FreeOf(q.free, F) /\ M \subseteq F
      /\ F \subseteq Slots /\ Cardinality(F) = Cardinality(Y \cup C)
      /\ Y \subseteq N /\ C \subseteq N /\ Y \cap C = {}
  BY DEF Cand
<1>2. /\ \A m \in M : it.node[m] \in C /\ q.value[m] = h.value[it.node[m]]
      /\ \A m, m2 \in M : it.node[m] = it.node[m2] => m = m2
      /\ \A c \in C : \E m \in M : it.node[m] = c
      /\ \A y \in Y, c \in C : h.value[c] <= h.value[y]
  BY DEF Cand
<1>3. r \in M /\ q \in Heaps
  BY <1>1, HeapFacts
<1>4. Popped(q, M, r, q2)
  <2>1. Revalued(q, q, r)
    BY <1>3 DEF Revalued
  <2> HIDE DEF q
  <2> QED BY <1>1, <1>3, <2>1, PopHeap
<1>5. \A m \in M : q.value[m] <= q.value[r]
  BY <1>1, RootIsGreatest
<1> HIDE DEF q2
<1>6. /\ HeapOf(q2, M2) /\ q2.value = q.value /\ q2.free = q.free /\ q2 \in Heaps
  BY <1>4 DEF Popped, HeapOf
<1>7. a \in Iterators /\ a.heap = q2 /\ a.node = it.node /\ a.order = it.order
  BY <1>1, <1>6 DEF Iterators
<1> HIDE DEF q, r, a
<1>8. n \in C /\ \A c \in C : h.value[c] <= h.value[n]
  BY <1>2, <1>3, <1>5
<1> HIDE DEF n
<1>9. n = it.node[r]
  BY DEF n
<1>10. \A m \in M2 : a.node[m] \in D /\ q2.value[m] = h.value[a.node[m]]
  BY <1>2, <1>3, <1>6, <1>7, <1>9
<1>11. \A c \in D : \E m \in M2 : a.node[m] = c
  BY <1>2, <1>7, <1>9
<1>12. \A y \in Z, c \in D : h.value[c] <= h.value[y]
  BY <1>2, <1>8
<1>13. Z \cup D = Y \cup C /\ Z \cap D = {} /\ Z \subseteq N /\ D \subseteq N
  BY <1>1, <1>8
<1>14. M2 \subseteq F
  BY <1>1
<1>15. \A m, m2 \in M2 : a.node[m] = a.node[m2] => m = m2
  BY <1>2, <1>7
<1> HIDE DEF M2, Z, D
<1>16. Cand(h, N, a, M2, F, Z, D)
  BY <1>1, <1>6, <1>7, <1>10, <1>11, <1>12, <1>13, <1>14, <1>15 DEF Cand
<1>17. Added(h, N, it, Z, D, a)
  BY <1>7, <1>16 DEF Added
<1> QED BY <1>8, <1>17 DEF a, n, r, q, q2, Z, D

\* What has been yielded: each node once, the greater values first.
Yielded(h, order, Y) ==
    /\ FreeOf(order, Slots \ Y)
    /\ \A a, b \in 1 .. Len(order) : a < b => h.value[order[b]] <= h.value[order[a]]

LEMMA YieldNext ==
    ASSUME NEW h, NEW order, NEW Y, Y \subseteq Slots, Yielded(h, order, Y),
           NEW n \in Slots \ Y, \A y \in Y : h.value[n] <= h.value[y]
    PROVE  /\ Yielded(h, Append(order, n), Y \cup {n})
           /\ Len(Append(order, n)) = Len(order) + 1
<1> DEFINE k == Len(order)
           t == Append(order, n)
<1>1. /\ FreeOf(order, Slots \ Y)
      /\ \A a, b \in 1 .. k : a < b => h.value[order[b]] <= h.value[order[a]]
  BY DEF Yielded
<1>2. order \in Seq(Slots) /\ k \in Nat
  <2>1. order \in Seq(Slots)
    BY <1>1 DEF FreeOf
  <2> QED BY <2>1, LenProperties
<1>3. \A a \in 1 .. k : order[a] \in Y
  <2>1. \A m \in Slots : m \in Slots \ Y <=> \A a \in 1 .. k : order[a] # m
    BY <1>1 DEF FreeOf
  <2>2. \A a \in 1 .. k : order[a] \in Slots
    BY <1>2, ElementOfSeq
  <2> QED BY <2>1, <2>2
<1>4. FreeOf(t, Slots \ (Y \cup {n}))
  <2>1. FreeOf(t, (Slots \ Y) \ {n})
    BY <1>1, FreeAppend
  <2>2. (Slots \ Y) \ {n} = Slots \ (Y \cup {n})
    OBVIOUS
  <2> QED BY <2>1, <2>2
<1>5. Len(t) = k + 1 /\ t[k + 1] = n /\ \A a \in 1 .. k : t[a] = order[a]
  BY <1>2, AppendProperties
<1> HIDE DEF t, k
<1>6. \A a \in 1 .. k + 1 : a = k + 1 \/ a \in 1 .. k
  BY <1>2
<1>7. ASSUME NEW a \in 1 .. k + 1, NEW b \in 1 .. k + 1, a < b
      PROVE  h.value[t[b]] <= h.value[t[a]]
  <2>1. a \in 1 .. k
    BY <1>2, <1>7
  <2>2. CASE b = k + 1
    BY <1>3, <1>5, <2>1, <2>2
  <2>3. CASE b # k + 1
    BY <1>1, <1>5, <1>6, <1>7, <2>1, <2>3
  <2> QED BY <2>2, <2>3
<1>8. Yielded(h, t, Y \cup {n})
  BY <1>4, <1>5, <1>7 DEF Yielded
<1> QED BY <1>5, <1>8 DEF t, k

\* The candidates are the children of the nodes that have been yielded, and the root.
Frontier(h, Y, C) ==
    /\ h.root # Nil => h.root \in Y \cup C
    /\ \A y \in Y : Children(h.md, y) \subseteq Y \cup C
    /\ \A c \in Y \cup C : c = h.root \/ h.md[c].parent \in Y

\* Where the iterator is after k calls.
At(h, N, it, k, M, F, Y, C) ==
    /\ Cand(h, N, it, M, F, Y, C) /\ Yielded(h, it.order, Y) /\ Frontier(h, Y, C)
    /\ C = {} \/ Len(it.order) = k
Reached(h, N, it, k) == \E M, F, Y, C : At(h, N, it, k, M, F, Y, C)

\* A child of the node that is yielded becomes a candidate, if there is one.
LEMMA ChildAdded ==
    ASSUME NEW h, NEW N, HeapOf(h, N), NEW old, NEW it, NEW Y, NEW C,
           Added(h, N, old, Y, C, it),
           NEW i \in Pointers, i # Nil => New(h, N, Y, C, i)
    PROVE  Added(h, N, old, Y, C \cup ({i} \ {Nil}), AddCandidate(h, it, i))
<1>1. PICK M, F : Cand(h, N, it, M, F, Y, C)
  BY DEF Added
<1>2. it.order = old.order
  BY DEF Added
<1>3. CASE i = Nil
  <2>1. AddCandidate(h, it, i) = it /\ C \cup ({i} \ {Nil}) = C
    BY <1>3 DEF AddCandidate
  <2> QED BY <2>1
<1>4. CASE i # Nil
  <2>1. Added(h, N, it, Y, C \cup {i}, AddCandidate(h, it, i))
    BY <1>1, <1>4, CandidateAdded
  <2>2. {i} \ {Nil} = {i}
    BY <1>4
  <2> QED BY <1>2, <2>1, <2>2 DEF Added
<1> QED BY <1>3, <1>4

LEMMA IterateReaches ==
    ASSUME NEW h, NEW N, HeapOf(h, N), NEW it, NEW k \in Nat, Reached(h, N, it, k)
    PROVE  Reached(h, N, Iterate(h, it), k + 1)
<1>1. PICK M, F, Y, C : At(h, N, it, k, M, F, Y, C)
  BY DEF Reached
<1>2. /\ Cand(h, N, it, M, F, Y, C) /\ Yielded(h, it.order, Y) /\ Frontier(h, Y, C)
      /\ C = {} \/ Len(it.order) = k
  BY <1>1 DEF At
<1>3. /\ HeapOf(it.heap, M) /\ Y \subseteq N /\ C \subseteq N /\ Y \cap C = {}
      /\ \A c \in C : \E m \in M : it.node[m] = c
      /\ \A y \in Y, c \in C : h.value[c] <= h.value[y]
  BY <1>2 DEF Cand
<1>4. CASE it.heap.root = Nil
  <2>1. M = {}
    BY <1>3, <1>4, HeapFacts
  <2>2. C = {}
    BY <1>3, <2>1
  <2>3. Iterate(h, it) = it
    BY <1>4 DEF Iterate
  <2>4. At(h, N, it, k + 1, M, F, Y, C)
    BY <1>2, <2>2 DEF At
  <2> QED BY <2>3, <2>4 DEF Reached
<1>5. CASE it.heap.root # Nil
  <2> DEFINE n == it.node[it.heap.root]
             l == h.md[n].left
             r == h.md[n].right
             popped == [it EXCEPT !.heap = HeapPop(it.heap)]
             left == AddCandidate(h, popped, l)
             added == AddCandidate(h, left, r)
             next == [added EXCEPT !.order = Append(it.order, n)]
             Z == Y \cup {n}
             D == C \ {n}
             D1 == D \cup ({l} \ {Nil})
             D2 == D1 \cup ({r} \ {Nil})
  <2>1. /\ n \in C /\ \A c \in C : h.value[c] <= h.value[n]
        /\ Added(h, N, it, Z, D, popped)
    BY <1>2, <1>5, CandidatePopped
  <2>2. Iterate(h, it) = next
    BY <1>5 DEF Iterate
  <2> HIDE DEF popped
  <2>3. /\ N \subseteq Slots /\ h.md \in Links /\ h.value \in [Slots -> Int]
        /\ Linked(h.md, h.value, N, {h.root} \ {Nil}) /\ Sized(h.md, N, Nil)
        /\ \A m \in N : Children(h.md, m) \subseteq N
    BY HeapFacts DEF HeapOf
  <2>4. n \in N /\ n \in Slots /\ n \notin Y
    BY <1>3, <2>1, <2>3
  <2>5. l \in Pointers /\ r \in Pointers /\ Children(h.md, n) = {l, r} \ {Nil}
    BY <2>3, <2>4, LinkTypes DEF Children
  <2> HIDE DEF n, l, r
  <2>6. ASSUME NEW c \in Children(h.md, n)
        PROVE  /\ c \in N /\ c \notin Y /\ c \notin C /\ c # n /\ h.md[c].parent = n
               /\ \A y \in Z : h.value[c] <= h.value[y]
    <3>1. /\ c \in N /\ c \in Children(h.md, n) \cap N /\ c \in Slots /\ c # Nil
      BY <2>3, <2>4, SlotsAndNil
    <3>2. c # h.root /\ h.md[c].parent = n /\ h.value[c] <= h.value[n]
      BY <2>3, <2>4, <3>1 DEF Linked
    <3>3. c \notin Y /\ c \notin C
      BY <1>2, <2>4, <3>2 DEF Frontier
    <3>4. c # n
      BY <2>1, <3>3
    <3>5. ASSUME NEW y \in Z PROVE h.value[c] <= h.value[y]
      <4>1. h.value[n] <= h.value[y]
        <5>1. CASE y = n
          BY <2>3, <2>4, <5>1
        <5>2. CASE y # n
          BY <1>3, <2>1, <5>2
        <5> QED BY <5>1, <5>2
      <4>2. y \in Slots
        BY <1>3, <2>3, <2>4
      <4>3. h.value[c] \in Int /\ h.value[n] \in Int /\ h.value[y] \in Int
        BY <2>3, <2>4, <3>1, <4>2
      <4> QED BY <3>2, <4>1, <4>3
    <3> QED BY <3>1, <3>2, <3>3, <3>4, <3>5
  <2>7. Added(h, N, it, Z, D1, left)
    <3>1. l # Nil => New(h, N, Z, D, l)
      BY <2>5, <2>6 DEF New
    <3> HIDE DEF Z, D
    <3> QED BY <2>1, <2>5, <3>1, ChildAdded
  <2> HIDE DEF left
  <2>8. Added(h, N, it, Z, D2, added)
    <3>1. r # Nil => r # l
      <4>1. l = r => l = Nil
        BY <2>3, <2>4 DEF Linked, l, r
      <4> QED BY <4>1
    <3>2. r # Nil => New(h, N, Z, D1, r)
      BY <2>5, <2>6, <3>1 DEF New
    <3> HIDE DEF Z, D1
    <3> QED BY <2>5, <2>7, <3>2, ChildAdded
  <2> HIDE DEF added
  <2>9. PICK M2, F2 : Cand(h, N, added, M2, F2, Z, D2)
    BY <2>8 DEF Added
  <2>10. added.order = it.order
    BY <2>8 DEF Added
  <2>11. Z \cup D2 = (Y \cup C) \cup Children(h.md, n)
    BY <2>1, <2>5
  <2>12. Frontier(h, Z, D2)
    <3>1. h.root # Nil => h.root \in Z \cup D2
      BY <1>2, <2>11 DEF Frontier
    <3>2. \A y \in Z : Children(h.md, y) \subseteq Z \cup D2
      BY <1>2, <2>11 DEF Frontier
    <3>3. \A c \in Z \cup D2 : c = h.root \/ h.md[c].parent \in Z
      BY <1>2, <2>6, <2>11 DEF Frontier
    <3> QED BY <3>1, <3>2, <3>3 DEF Frontier
  <2>13. /\ Yielded(h, Append(it.order, n), Z)
         /\ Len(Append(it.order, n)) = Len(it.order) + 1
    <3>1. \A y \in Y : h.value[n] <= h.value[y]
      BY <1>3, <2>1
    <3>2. Y \subseteq Slots /\ n \in Slots \ Y
      BY <1>3, <2>3, <2>4
    <3> QED BY <1>2, <3>1, <3>2, YieldNext
  <2>14. Append(it.order, n) \in Seq(Slots)
    BY <2>13 DEF Yielded, FreeOf
  <2>15. /\ next.heap = added.heap /\ next.node = added.node
         /\ next.order = Append(it.order, n) /\ next \in Iterators
    BY <2>9, <2>14 DEF Cand, Iterators
  <2> HIDE DEF next, Z, D2
  <2>16. Cand(h, N, next, M2, F2, Z, D2)
    BY <2>9, <2>15 DEF Cand
  <2>17. Len(it.order) = k
    BY <1>2, <2>1
  <2>18. At(h, N, next, k + 1, M2, F2, Z, D2)
    BY <2>12, <2>13, <2>15, <2>16, <2>17 DEF At
  <2> QED BY <2>2, <2>18 DEF Reached
<1> QED BY <1>4, <1>5

LEMMA IterationStarts ==
    ASSUME NEW h, NEW N, HeapOf(h, N)
    PROVE  Reached(h, N, AddCandidate(h, NewIterator, h.root), 0)
<1> DEFINE new == NewIterator
           a == AddCandidate(h, new, h.root)
<1>1. /\ N \subseteq Slots /\ h.root \in Pointers
      /\ h.root # Nil => h.root \in N
  BY HeapFacts
<1>2. HeapOf(Empty, {}) /\ FreeOf(Empty.free, {}) /\ Empty \in Heaps
  BY EmptyWhole DEF Whole, HeapOf
<1>3. <<>> \in Seq(Slots) /\ Len(<<>>) = 0 /\ 1 .. 0 = {}
  OBVIOUS
<1>4. /\ new.heap = Empty /\ new.node = [i \in Slots |-> Nil] /\ new.order = <<>>
      /\ new \in Iterators
  BY <1>2, <1>3, SlotsAndNil DEF NewIterator, Iterators
<1> HIDE DEF new
<1>5. Cand(h, N, new, {}, {}, {}, {})
  <2>1. {} \cup {} = {}
    OBVIOUS
  <2> QED BY <1>2, <1>4, <2>1 DEF Cand
<1>6. Yielded(h, <<>>, {})
  <2>1. FreeOf(<<>>, Slots \ {})
    BY <1>3 DEF FreeOf
  <2> QED BY <1>3, <2>1 DEF Yielded
<1>7. CASE h.root = Nil
  <2>1. a = new
    BY <1>7 DEF AddCandidate
  <2>2. Frontier(h, {}, {})
    BY <1>7 DEF Frontier
  <2>3. At(h, N, new, 0, {}, {}, {}, {})
    BY <1>4, <1>5, <1>6, <2>2 DEF At
  <2> HIDE DEF a
  <2>4. Reached(h, N, a, 0)
    BY <2>1, <2>3 DEF Reached
  <2> QED BY <2>4 DEF a, new
<1>8. CASE h.root # Nil
  <2> DEFINE C == {} \cup {h.root}
  <2>1. New(h, N, {}, {}, h.root)
    BY <1>1, <1>8 DEF New
  <2>2. Added(h, N, new, {}, C, a)
    BY <1>5, <2>1, CandidateAdded
  <2> HIDE DEF a
  <2>3. PICK M, F : Cand(h, N, a, M, F, {}, C)
    BY <2>2 DEF Added
  <2>4. a.order = <<>>
    BY <1>4, <2>2 DEF Added
  <2>5. Frontier(h, {}, C)
    BY DEF Frontier
  <2> HIDE DEF C
  <2>6. At(h, N, a, 0, M, F, {}, C)
    BY <1>3, <1>6, <2>3, <2>4, <2>5 DEF At
  <2>7. Reached(h, N, a, 0)
    BY <2>6 DEF Reached
  <2> QED BY <2>7 DEF a, new
<1> QED BY <1>7, <1>8

LEMMA IterationsReach ==
    ASSUME NEW h, NEW N, HeapOf(h, N)
    PROVE  Reached(h, N, Iterations(h)[Capacity + 1], Capacity + 1)
<1> DEFINE f == Iterations(h)
           S == {k \in Nat : k <= Capacity + 1 => Reached(h, N, f[k], k)}
<1>1. \A k \in 0 .. Capacity + 1 : f[k] = IterateStep(h, f, k)
  BY IterationsStep
<1> HIDE DEF f
<1>2. 0 \in S
  <2>1. f[0] = AddCandidate(h, NewIterator, h.root)
    BY <1>1, SlotsAndNil DEF IterateStep
  <2> QED BY <2>1, IterationStarts
<1>3. ASSUME NEW k \in Nat, k \in S PROVE k + 1 \in S
  <2> SUFFICES ASSUME k + 1 <= Capacity + 1 PROVE Reached(h, N, f[k + 1], k + 1)
    OBVIOUS
  <2>1. k + 1 \in 0 .. Capacity + 1 /\ k + 1 # 0 /\ (k + 1) - 1 = k /\ k <= Capacity + 1
    BY SlotsAndNil
  <2>2. f[k + 1] = Iterate(h, f[k])
    BY <1>1, <2>1 DEF IterateStep
  <2>3. Reached(h, N, f[k], k)
    BY <1>3, <2>1
  <2> QED BY <2>2, <2>3, IterateReaches
<1>4. \A k \in Nat : k \in S
  <2> HIDE DEF S
  <2> QED BY <1>2, <1>3, AllNumbers
<1> QED BY <1>4, SlotsAndNil DEF f

LEMMA IteratorYields ==
    ASSUME NEW h, NEW N, HeapOf(h, N)
    PROVE  FreeOf(HeapIterator(h), Slots \ N) /\ Yielded(h, HeapIterator(h), N)
<1> DEFINE it == Iterations(h)[Capacity + 1]
           order == it.order
<1>1. Reached(h, N, it, Capacity + 1)
  BY IterationsReach
<1>2. HeapIterator(h) = order
  BY DEF HeapIterator
<1> HIDE DEF it
<1>3. PICK M, F, Y, C : At(h, N, it, Capacity + 1, M, F, Y, C)
  BY <1>1 DEF Reached
<1>4. /\ Yielded(h, order, Y) /\ Frontier(h, Y, C) /\ Y \subseteq N /\ C \subseteq N
      /\ C = {} \/ Len(order) = Capacity + 1
  BY <1>3 DEF At, Cand
<1>5. /\ N \subseteq Slots /\ Linked(h.md, h.value, N, {h.root} \ {Nil})
      /\ Sized(h.md, N, Nil)
  BY HeapFacts
<1>6. C = {}
  <2>1. FreeOf(order, Slots \ Y) /\ Slots \ Y \subseteq Slots /\ Slots \ (Slots \ Y) = Y
    BY <1>4, <1>5 DEF Yielded
  <2> HIDE DEF order
  <2>2. Len(order) = Cardinality(Y)
    <3>1. Len(order) = Cardinality(Slots \ (Slots \ Y))
      BY <2>1, FreeCount
    <3> QED BY <2>1, <3>1
  <2>3. Cardinality(Y) \in Nat /\ Cardinality(Y) <= Capacity
    BY <1>4, <1>5, NodeCount
  <2> QED BY <1>4, <2>2, <2>3, SlotsAndNil
<1>7. N \subseteq Y
  <2> DEFINE R == {h.root} \ {Nil}
  <2>1. R \subseteq Y
    BY <1>4, <1>6 DEF Frontier
  <2>2. \A n \in N : n \in Y => Children(h.md, n) \cap N \subseteq Y
    BY <1>4, <1>6 DEF Frontier
  <2> HIDE DEF R
  <2>3. Linked(h.md, h.value, N, R)
    BY <1>5 DEF R
  <2> QED BY <1>5, <2>1, <2>2, <2>3, Downward
<1>8. Y = N
  BY <1>4, <1>7
<1> QED BY <1>2, <1>4, <1>8 DEF Yielded

\* HeapIterator yields every node once, the greater values first, and none is
\* missed because its heap of candidates, whose slots are not given back, is full.
THEOREM HeapIteratorSorted == Spec => []IteratorSorted
<1>1. HeapInv => IteratorSorted
  <2> SUFFICES ASSUME HeapInv PROVE IteratorSorted
    OBVIOUS
  <2> DEFINE order == HeapIterator(heap)
  <2>1. HeapOf(heap, Handles) /\ Handles \subseteq Slots
    BY HeapFacts DEF HeapInv, Whole
  <2>2. FreeOf(order, Slots \ Handles) /\ Yielded(heap, order, Handles)
    BY <2>1, IteratorYields
  <2> HIDE DEF order
  <2>3. ToSet(order) = Handles /\ Len(order) = Cardinality(Handles)
    <3>1. Slots \ Handles \subseteq Slots /\ Slots \ (Slots \ Handles) = Handles
      BY <2>1
    <3>2. /\ ToSet(order) = Slots \ (Slots \ Handles)
          /\ Len(order) = Cardinality(Slots \ (Slots \ Handles))
      BY <2>2, <3>1, FreeCount
    <3> QED BY <3>1, <3>2
  <2>4. ASSUME NEW m \in DOMAIN order, NEW n \in DOMAIN order, m < n
        PROVE  heap.value[order[m]] >= heap.value[order[n]]
    <3>1. order \in Seq(Slots) /\ DOMAIN order = 1 .. Len(order)
      BY <2>2, LenProperties DEF FreeOf
    <3>2. heap.value[order[n]] <= heap.value[order[m]]
      BY <2>2, <2>4, <3>1 DEF Yielded
    <3>3. order[m] \in Slots /\ order[n] \in Slots
      BY <3>1, ElementOfSeq
    <3>4. heap.value \in [Slots -> Int]
      BY <2>1, HeapFacts
    <3> QED BY <3>2, <3>3, <3>4
  <2> QED BY <2>3, <2>4 DEF IteratorSorted, order
<1> QED BY <1>1, HeapInvariant, PTL

=============================================================================
