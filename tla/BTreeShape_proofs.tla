-------------------------- MODULE BTreeShape_proofs --------------------------
(***************************************************************************)
(* The shape of the B+ tree of BTree: the invariant of the proofs about it *)
(* (IInv), and what a step may do to the tree (StepTree).  Nodes stay in   *)
(* their bounds and at least half filled, children are one level below     *)
(* their parent and leaves linked both ways, and a thread changes only the *)
(* node it works on and has locked for itself, back links apart.  The      *)
(* lemmas on keys in order, on nodes cut in two and on insertions into     *)
(* sequences are here too.                                                 *)
(***************************************************************************)
EXTENDS BTree, FiniteSetTheorems, SequenceTheorems, TLAPS

(* The tree                                                                *)

Keys(n) == heap[n].keys
Half(n) == IF heap[n].level = 0 THEN LeafSlots \div 2 ELSE InnerSlots \div 2

\* a leaf has a value for each key, and links to leaves that link back
LeafOK(n) ==
  /\ Len(heap[n].vals) = Len(Keys(n)) /\ Len(Keys(n)) <= LeafSlots
  /\ used > 1 => Len(Keys(n)) >= LeafSlots \div 2
  /\ IF heap[n].next = Null THEN tail = n
     ELSE /\ heap[n].next \in Allocated \ {n}
          /\ heap[heap[n].next].level = 0
          /\ heap[heap[n].next].prev = n
  /\ (heap[n].prev = Null) <=> (head = n)

\* an inner node has one child more than keys, and children of the level below
InnerOK(n) ==
  /\ Len(heap[n].child) = Len(Keys(n)) + 1 /\ Len(Keys(n)) <= InnerSlots
  /\ n # root => Len(Keys(n)) >= InnerSlots \div 2
  /\ \A i \in 1 .. Len(heap[n].child) :
       heap[n].child[i] \in Allocated /\ heap[heap[n].child[i]].level = heap[n].level - 1

TreeOK ==
  /\ (root = Null) <=> (used = 0)
  /\ (head = Null) <=> (used = 0)
  /\ \A n \in Nodes \ Allocated : heap[n] = Blank
  /\ \A n \in Allocated : /\ heap[n].level \in 0 .. used - 1
                          /\ heap[n].level = 0 => LeafOK(n)
                          /\ heap[n].level > 0 => InnerOK(n)

(* Where a thread is                                                       *)

Node(t, i) == path[t][i].node
Walking(t) == pc[t] \in {"lock", "drain", "visit"}

PlaceOK(t) ==
  /\ pc[t] = "idle" <=> call[t] = None
  /\ pc[t] = "idle" => mode[t] = "read" /\ path[t] = <<>>
  /\ mode[t] \in {"try", "sure"} <=> Op(t) = "insert"
  /\ Walking(t) => /\ at[t] \in Allocated \cup {Tree}
                   /\ at[t] = Tree <=> path[t] = <<>>
  /\ pc[t] = "drain" => ForWriting(t, at[t])
  /\ pc[t] = "upgrade" => mode[t] = "try" /\ Len(path[t]) = 1 /\ Node(t, 1) # Tree
  /\ pc[t] = "updrain" => mode[t] = "sure" /\ Len(path[t]) = 1 /\ Node(t, 1) # Tree
  /\ pc[t] = "climb" => mode[t] = "sure" /\ path[t] # <<>>
  /\ mode[t] # "sure" => Len(path[t]) <= 1

\* from node n the way goes on to b: to the root, to a child or, for a scan, to a leaf
Leads(t, n, b) ==
  \/ n = Tree /\ b = root
  \/ n # Tree /\ b \in Allocated /\ heap[b].level = heap[n].level - 1
  \/ n # Tree /\ b \in Allocated \ {n} /\ heap[b].level = 0 /\ heap[n].level = 0 /\ Scanning(t)

\* the slot the way takes from there
SlotOK(t, i) ==
  Node(t, i) # Tree =>
    /\ path[t][i].slot <= Len(Keys(Node(t, i)))
    /\ pc[t] # "climb" /\ ~Scanning(t) => path[t][i].slot = SlotIn(Node(t, i), K(t))

\* the child in that slot, where the thread goes
ChildOK(t, i, b) ==
  Node(t, i) # Tree /\ Walking(t) /\ ~Scanning(t) => b = ChildAt(Node(t, i), path[t][i].slot)

PathOK(t) ==
  LET l == Len(path[t]) IN
  /\ \A i \in 1 .. l : /\ Node(t, i) \in Allocated \cup {Tree}
                       /\ Node(t, i) = Tree => i = 1
                       /\ SlotOK(t, i)
  /\ \A i, j \in 1 .. l : i < j /\ Node(t, i) # Tree =>
                            heap[Node(t, i)].level > heap[Node(t, j)].level
  /\ \A i \in 1 .. l - 1 : /\ Leads(t, Node(t, i), Node(t, i + 1))
                           /\ ChildOK(t, i, Node(t, i + 1))
  /\ l > 0 /\ pc[t] # "climb" => /\ Leads(t, Node(t, l), at[t])
                                 /\ ChildOK(t, l, at[t])

\* a split on its way up: the new node belongs behind the one it was split off, and there is
\* room for it where the path of locks begins
CarryOK(t) ==
  /\ carry[t] # NoChild =>
       /\ pc[t] = "climb"
       /\ carry[t].node \in Allocated
       /\ Top(t).node # Tree => heap[carry[t].node].level = heap[Top(t).node].level - 1
       /\ Top(t).node = Tree => /\ heap[carry[t].node].level = heap[root].level
                                /\ Len(Keys(root)) >= Half(root)
  /\ pc[t] = "upgrade" \/ mode[t] = "sure" =>
       (path[t] # <<>> /\ Node(t, 1) # Tree => ~InnerFull(Node(t, 1)) /\ heap[Node(t, 1)].level > 0)

\* the locks a thread has for itself: their readers have gone
Own(t) == (IF mode[t] = "sure" /\ pc[t] # "updrain" THEN Held(t) ELSE {}) \cup
            (IF pc[t] = "visit" /\ ForWriting(t, at[t]) THEN {at[t]} ELSE {})
\* the one of them it works on
Mine(t) == {n \in Own(t) : n = IF pc[t] = "climb" THEN Top(t).node ELSE at[t]}

Drained == \A t \in Threads : \A n \in Own(t) : readers[n] = 0

IInv == /\ TypeOK /\ TreeOK /\ LocksExact /\ Drained
        /\ \A t \in Threads : PlaceOK(t) /\ PathOK(t) /\ CarryOK(t)

-------------------------------------------------------------------------------
(* Sequences and slots                                                     *)

\* the constants
LEMMA Constants ==
  /\ MaxNodes \in Nat /\ LeafSlots \in Nat /\ LeafSlots > 1 /\ InnerSlots \in Nat /\ InnerSlots > 1
  /\ Tree \notin Nodes /\ Null \notin Nodes /\ Tree # Null /\ Null \in Int /\ Tree \in Int
  /\ \A n \in Int : n \in Nodes <=> 1 <= n /\ n <= MaxNodes
  /\ LeafSlots \div 2 \in 1 .. LeafSlots - 1 /\ InnerSlots \div 2 \in 1 .. InnerSlots - 1
  /\ LeafSlots - LeafSlots \div 2 >= LeafSlots \div 2
  /\ InnerSlots - InnerSlots \div 2 >= InnerSlots \div 2
BY SlotsAssumption, NodesAssumption DEF Nodes, Tree, Null

\* a part of a sequence
LEMMA Part ==
  ASSUME NEW S, NEW s \in Seq(S), NEW m \in Int, NEW n \in Int, 1 <= m, n <= Len(s)
  PROVE  /\ SubSeq(s, m, n) \in Seq(S)
         /\ Len(SubSeq(s, m, n)) = IF m <= n THEN n - m + 1 ELSE 0
         /\ \A i \in 1 .. n - m + 1 : SubSeq(s, m, n)[i] = s[m + i - 1]
<1>1. Len(s) \in Nat /\ \A i \in m .. n : i \in 1 .. Len(s)
  OBVIOUS
<1>2. \A i \in m .. n : s[i] \in S
  BY <1>1, ElementOfSeq
<1> QED BY <1>2, SubSeqProperties

\* a sequence with one element more
LEMMA Inserted ==
  ASSUME NEW S, NEW s \in Seq(S), NEW i \in 1 .. Len(s) + 1, NEW e \in S
  PROVE  /\ InsertAt(s, i, e) \in Seq(S)
         /\ Len(InsertAt(s, i, e)) = Len(s) + 1
         /\ \A j \in 1 .. Len(s) + 1 :
              InsertAt(s, i, e)[j] = IF j < i THEN s[j] ELSE IF j = i THEN e ELSE s[j - 1]
<1> DEFINE a == SubSeq(s, 1, i - 1)
           b == SubSeq(s, i, Len(s))
           m == a \o <<e>>
<1>0. Len(s) \in Nat /\ i \in Int
  OBVIOUS
<1>1. /\ a \in Seq(S) /\ Len(a) = i - 1 /\ \A j \in 1 .. i - 1 : a[j] = s[j]
  BY <1>0, Part
<1>2. /\ b \in Seq(S) /\ Len(b) = Len(s) - i + 1
      /\ \A j \in 1 .. Len(s) - i + 1 : b[j] = s[i + j - 1]
  BY <1>0, Part
<1>3. <<e>> \in Seq(S) /\ Len(<<e>>) = 1 /\ <<e>>[1] = e
  OBVIOUS
<1>4. m \in Seq(S) /\ Len(m) = i /\ \A j \in 1 .. i : m[j] = IF j < i THEN s[j] ELSE e
  <2>1. /\ m \in Seq(S) /\ Len(m) = Len(a) + 1
        /\ \A j \in 1 .. Len(a) + 1 : m[j] = IF j <= Len(a) THEN a[j] ELSE <<e>>[j - Len(a)]
    BY <1>1, <1>3, ConcatProperties
  <2> HIDE DEF a, m
  <2> QED BY <1>0, <1>1, <1>3, <2>1
<1>5. /\ m \o b \in Seq(S) /\ Len(m \o b) = Len(m) + Len(b)
      /\ \A j \in 1 .. Len(m) + Len(b) : (m \o b)[j] = IF j <= Len(m) THEN m[j] ELSE b[j - Len(m)]
  BY <1>2, <1>4, ConcatProperties, ZenonT(40)
<1>6. InsertAt(s, i, e) = m \o b
  BY DEF InsertAt
<1> HIDE DEF a, b, m
<1> QED BY <1>0, <1>2, <1>4, <1>5, <1>6

\* a sequence without its last element
LEMMA WithoutLast ==
  ASSUME NEW S, NEW s \in Seq(S), s # <<>>
  PROVE  /\ Front(s) \in Seq(S) /\ Len(Front(s)) = Len(s) - 1 /\ Len(s) > 0
         /\ \A i \in 1 .. Len(s) - 1 : Front(s)[i] = s[i]
<1>1. Len(s) \in Nat /\ Len(s) > 0
  BY EmptySeq
<1>2. PICK n \in Nat : n + 1 = Len(s)
  BY <1>1
<1>3. /\ SubSeq(s, 1, n) \in Seq(S)
      /\ Len(SubSeq(s, 1, n)) = IF 1 <= n THEN n - 1 + 1 ELSE 0
      /\ \A i \in 1 .. n - 1 + 1 : SubSeq(s, 1, n)[i] = s[1 + i - 1]
  <2>1. n \in Int /\ 1 \in Int /\ 1 <= 1 /\ n <= Len(s)
    BY <1>2
  <2> QED BY <2>1, Part
<1>4. Front(s) = SubSeq(s, 1, n) /\ Len(s) - 1 = n
  <2>1. Len(s) - 1 = n
    BY <1>2
  <2> QED BY <2>1 DEF Front
<1>5. Len(SubSeq(s, 1, n)) = n
  BY <1>3
<1>6. \A i \in 1 .. n : SubSeq(s, 1, n)[i] = s[i]
  BY <1>3
<1> QED BY <1>1, <1>3, <1>4, <1>5, <1>6

\* the slot found is one of the sequence or the one behind it
LEMMA LowerSlot ==
  ASSUME NEW keys \in Seq(Nat), NEW k \in Nat
  PROVE  FindLower(keys, k) \in 0 .. Len(keys)
<1> DEFINE F == {i \in 1 .. Len(keys) : keys[i] < k}
<1>1. Len(keys) \in Nat
  OBVIOUS
<1>2. IsFiniteSet(1 .. Len(keys)) /\ Cardinality(1 .. Len(keys)) = Len(keys)
  <2> DEFINE n == Len(keys)
  <2>1. n \in Int /\ 1 \in Int /\ n \in Nat
    BY <1>1
  <2> HIDE DEF n
  <2>2. IsFiniteSet(1 .. n) /\ Cardinality(1 .. n) = IF 1 > n THEN 0 ELSE n - 1 + 1
    BY <2>1, FS_Interval
  <2>3. IsFiniteSet(1 .. n) /\ Cardinality(1 .. n) = n
    BY <2>1, <2>2
  <2> QED BY <2>3 DEF n
<1>3. F \in SUBSET (1 .. Len(keys))
  OBVIOUS
<1>4. IsFiniteSet(F) /\ Cardinality(F) <= Len(keys)
  BY <1>2, <1>3, FS_Subset
<1>5. Cardinality(F) \in Nat
  BY <1>4, FS_CardinalityType
<1> QED BY <1>1, <1>4, <1>5 DEF FindLower

-------------------------------------------------------------------------------
(* Nodes                                                                   *)

\* a leaf with one item more
LEMMA ItemNode ==
  ASSUME NEW node \in NodeType, Len(node.vals) = Len(node.keys),
         NEW s \in 0 .. Len(node.keys), NEW k \in Nat, NEW v \in Nat
  PROVE  LET new == WithItem(node, s, k, v) IN
         /\ new \in NodeType
         /\ Len(new.keys) = Len(node.keys) + 1 /\ Len(new.vals) = Len(node.keys) + 1
         /\ new.level = node.level /\ new.child = node.child
         /\ new.next = node.next /\ new.prev = node.prev
<1>1. /\ node.keys \in Seq(Nat) /\ node.vals \in Seq(Nat) /\ Len(node.keys) \in Nat
      /\ s + 1 \in 1 .. Len(node.keys) + 1
  BY DEF NodeType
<1>2. /\ InsertAt(node.keys, s + 1, k) \in Seq(Nat)
      /\ Len(InsertAt(node.keys, s + 1, k)) = Len(node.keys) + 1
  <2> DEFINE q == node.keys
             r == s + 1
  <2>1. q \in Seq(Nat) /\ r \in 1 .. Len(q) + 1
    BY <1>1
  <2> HIDE DEF q, r
  <2>2. InsertAt(q, r, k) \in Seq(Nat) /\ Len(InsertAt(q, r, k)) = Len(q) + 1
    BY <2>1, Inserted
  <2> QED BY <2>2 DEF q, r
<1>3. /\ InsertAt(node.vals, s + 1, v) \in Seq(Nat)
      /\ Len(InsertAt(node.vals, s + 1, v)) = Len(node.keys) + 1
  <2> DEFINE q == node.vals
             r == s + 1
  <2>1. q \in Seq(Nat) /\ r \in 1 .. Len(q) + 1
    BY <1>1
  <2> HIDE DEF q, r
  <2>2. InsertAt(q, r, v) \in Seq(Nat) /\ Len(InsertAt(q, r, v)) = Len(q) + 1
    BY <2>1, Inserted
  <2> QED BY <2>2 DEF q, r
<1> QED BY <1>2, <1>3 DEF WithItem, NodeType

ChildSet(node) == {node.child[i] : i \in 1 .. Len(node.child)}

\* an inner node with one key and child more
LEMMA ChildNode ==
  ASSUME NEW node \in NodeType, Len(node.child) = Len(node.keys) + 1,
         NEW s \in 0 .. Len(node.keys), NEW up \in [key : Nat, node : Nodes]
  PROVE  LET new == WithChild(node, s, up) IN
         /\ new \in NodeType
         /\ Len(new.keys) = Len(node.keys) + 1 /\ Len(new.child) = Len(node.keys) + 2
         /\ new.level = node.level
         /\ ChildSet(new) \subseteq ChildSet(node) \cup {up.node}
<1> DEFINE c == InsertAt(node.child, s + 2, up.node)
<1>1. /\ node.keys \in Seq(Nat) /\ node.child \in Seq(Nodes) /\ Len(node.keys) \in Nat
      /\ s + 1 \in 1 .. Len(node.keys) + 1 /\ s + 2 \in 1 .. Len(node.child) + 1
      /\ s \in Nat /\ up.key \in Nat /\ up.node \in Nodes
  BY DEF NodeType
<1>2. /\ InsertAt(node.keys, s + 1, up.key) \in Seq(Nat)
      /\ Len(InsertAt(node.keys, s + 1, up.key)) = Len(node.keys) + 1
  <2> DEFINE q == node.keys
             r == s + 1
             e == up.key
  <2>1. q \in Seq(Nat) /\ r \in 1 .. Len(q) + 1 /\ e \in Nat
    BY <1>1
  <2> HIDE DEF q, r, e
  <2>2. InsertAt(q, r, e) \in Seq(Nat) /\ Len(InsertAt(q, r, e)) = Len(q) + 1
    BY <2>1, Inserted
  <2> QED BY <2>2 DEF q, r, e
<1>3. /\ c \in Seq(Nodes) /\ Len(c) = Len(node.child) + 1
      /\ \A j \in 1 .. Len(node.child) + 1 :
           c[j] = IF j < s + 2 THEN node.child[j]
                  ELSE IF j = s + 2 THEN up.node ELSE node.child[j - 1]
  <2> DEFINE q == node.child
             r == s + 2
             e == up.node
  <2>1. q \in Seq(Nodes) /\ r \in 1 .. Len(q) + 1 /\ e \in Nodes
    BY <1>1
  <2> HIDE DEF q, r, e
  <2>2. InsertAt(q, r, e) \in Seq(Nodes) /\ Len(InsertAt(q, r, e)) = Len(q) + 1
    BY <2>1, Inserted
  <2>3. \A j \in 1 .. Len(q) + 1 :
          InsertAt(q, r, e)[j] = IF j < r THEN q[j] ELSE IF j = r THEN e ELSE q[j - 1]
    BY <2>1, Inserted
  <2> QED BY <2>2, <2>3 DEF q, r, e
<1>4. ASSUME NEW j \in 1 .. Len(c) PROVE c[j] \in ChildSet(node) \cup {up.node}
  <2> HIDE DEF c
  <2>1. Len(node.child) \in Nat /\ j \in 1 .. Len(node.child) + 1
    BY <1>1, <1>3
  <2>2. CASE j < s + 2
    <3>1. j \in 1 .. Len(node.child) /\ c[j] = node.child[j]
      BY <1>1, <1>3, <2>1, <2>2
    <3> QED BY <3>1 DEF ChildSet
  <2>3. CASE j > s + 2
    <3>1. j - 1 \in 1 .. Len(node.child) /\ c[j] = node.child[j - 1]
      BY <1>1, <1>3, <2>1, <2>3
    <3> QED BY <3>1 DEF ChildSet
  <2> QED BY <1>1, <1>3, <2>1, <2>2, <2>3
<1> DEFINE new == WithChild(node, s, up)
<1>5. new.child = c /\ new.keys = InsertAt(node.keys, s + 1, up.key) /\ new.level = node.level
  BY DEF WithChild, NodeType
<1>6. new \in NodeType
  BY <1>2, <1>3 DEF WithChild, NodeType
<1>7. ChildSet(new) \subseteq ChildSet(node) \cup {up.node}
  BY <1>4, <1>5 DEF ChildSet
<1>8. Len(new.child) = Len(node.keys) + 2
  <2> HIDE DEF c, new
  <2> QED BY <1>1, <1>3, <1>5
<1> QED BY <1>2, <1>5, <1>6, <1>7, <1>8

\* where a full inner node is split
LEMMA SplitSlot ==
  ASSUME NEW s \in 0 .. InnerSlots
  PROVE  /\ MidFor(s) \in 0 .. InnerSlots - 1
         /\ MidFor(s) = InnerSlots \div 2 \/ MidFor(s) = InnerSlots \div 2 - 1
         /\ s <= MidFor(s) => /\ MidFor(s) + 1 >= InnerSlots \div 2
                              /\ InnerSlots - MidFor(s) - 1 >= InnerSlots \div 2
         /\ s > MidFor(s) /\ ~(s = MidFor(s) + 1 /\ MidFor(s) < InnerSlots - MidFor(s) - 1) =>
              /\ MidFor(s) = InnerSlots \div 2
              /\ InnerSlots - MidFor(s) >= InnerSlots \div 2
         /\ s = MidFor(s) + 1 /\ MidFor(s) < InnerSlots - MidFor(s) - 1 =>
              InnerSlots - MidFor(s) - 1 >= InnerSlots \div 2
BY Constants DEF MidFor

\* the halves of a full inner node, before the new child is put in
LEMMA LeftNode ==
  ASSUME NEW node \in NodeType, Len(node.keys) = InnerSlots, Len(node.child) = InnerSlots + 1,
         NEW mid \in 0 .. InnerSlots - 1
  PROVE  LET new == LeftOf(node, mid) IN
         /\ new \in NodeType /\ new.level = node.level
         /\ Len(new.keys) = mid /\ Len(new.child) = mid + 1
         /\ ChildSet(new) \subseteq ChildSet(node)
<1> DEFINE p == node.keys
           q == node.child
           r == mid + 1
<1>1. /\ p \in Seq(Nat) /\ q \in Seq(Nodes) /\ mid \in Nat /\ r \in Nat
      /\ mid <= Len(p) /\ r <= Len(q) /\ 1 <= r
  BY Constants DEF NodeType
<1>2. SubSeq(p, 1, mid) \in Seq(Nat) /\ Len(SubSeq(p, 1, mid)) = mid
  <2> HIDE DEF p
  <2>1. SubSeq(p, 1, mid) \in Seq(Nat)
    BY <1>1, Part
  <2>2. Len(SubSeq(p, 1, mid)) = IF 1 <= mid THEN mid - 1 + 1 ELSE 0
    BY <1>1, Part
  <2> QED BY <1>1, <2>1, <2>2
<1>3. SubSeq(q, 1, r) \in Seq(Nodes) /\ Len(SubSeq(q, 1, r)) = r
      /\ \A i \in 1 .. r : SubSeq(q, 1, r)[i] = q[i]
  <2> HIDE DEF q, r
  <2>1. SubSeq(q, 1, r) \in Seq(Nodes)
    BY <1>1, Part
  <2>2. Len(SubSeq(q, 1, r)) = IF 1 <= r THEN r - 1 + 1 ELSE 0
    BY <1>1, Part
  <2>3. \A i \in 1 .. r - 1 + 1 : SubSeq(q, 1, r)[i] = q[1 + i - 1]
    BY <1>1, Part
  <2> QED BY <1>1, <2>1, <2>2, <2>3
<1> DEFINE new == LeftOf(node, mid)
<1>4. new.keys = SubSeq(p, 1, mid) /\ new.child = SubSeq(q, 1, r) /\ new.level = node.level
  BY DEF LeftOf, NodeType
<1>5. new \in NodeType
  BY <1>2, <1>3 DEF LeftOf, NodeType
<1>6. ChildSet(new) \subseteq ChildSet(node)
  <2> SUFFICES ASSUME NEW i \in 1 .. Len(new.child) PROVE new.child[i] \in ChildSet(node)
    BY DEF ChildSet
  <2>1. i \in 1 .. r
    BY <1>3, <1>4
  <2>2. i \in 1 .. Len(node.child)
    BY <1>1, <2>1
  <2>3. new.child[i] = node.child[i]
    BY <1>3, <1>4, <2>1
  <2> QED BY <2>2, <2>3 DEF ChildSet
<1> QED BY <1>2, <1>3, <1>4, <1>5, <1>6

\* the right one of them
LEMMA RightNode ==
  ASSUME NEW node \in NodeType, Len(node.keys) = InnerSlots, Len(node.child) = InnerSlots + 1,
         NEW mid \in 0 .. InnerSlots - 1
  PROVE  LET new == RightOf(node, mid) IN
         /\ new \in NodeType /\ new.level = node.level
         /\ Len(new.keys) = InnerSlots - mid - 1 /\ Len(new.child) = InnerSlots - mid
         /\ ChildSet(new) \subseteq ChildSet(node)
<1> DEFINE p == node.keys
           q == node.child
           r == mid + 2
           z == InnerSlots + 1
<1>1. /\ p \in Seq(Nat) /\ q \in Seq(Nodes) /\ mid \in Nat /\ r \in Int /\ z \in Int
      /\ InnerSlots \in Int /\ InnerSlots <= Len(p) /\ z <= Len(q) /\ 1 <= r /\ r <= z
  BY Constants DEF NodeType
<1>2. /\ SubSeq(p, r, InnerSlots) \in Seq(Nat)
      /\ Len(SubSeq(p, r, InnerSlots)) = InnerSlots - mid - 1
  <2>1. SubSeq(p, r, InnerSlots) \in Seq(Nat)
    <3> HIDE DEF p, r
    <3> QED BY <1>1, Part
  <2>2. Len(SubSeq(p, r, InnerSlots)) = IF r <= InnerSlots THEN InnerSlots - r + 1 ELSE 0
    <3> HIDE DEF p, r
    <3> QED BY <1>1, Part
  <2> HIDE DEF p
  <2> QED BY <1>1, <2>1, <2>2
<1>3. SubSeq(q, r, z) \in Seq(Nodes) /\ Len(SubSeq(q, r, z)) = InnerSlots - mid
      /\ \A i \in 1 .. z - r + 1 : SubSeq(q, r, z)[i] = q[r + i - 1]
  <2>1. SubSeq(q, r, z) \in Seq(Nodes)
    <3> HIDE DEF q, r, z
    <3> QED BY <1>1, Part
  <2>2. Len(SubSeq(q, r, z)) = IF r <= z THEN z - r + 1 ELSE 0
    <3> HIDE DEF q, r, z
    <3> QED BY <1>1, Part
  <2>3. \A i \in 1 .. z - r + 1 : SubSeq(q, r, z)[i] = q[r + i - 1]
    <3> HIDE DEF q, r, z
    <3> QED BY <1>1, Part
  <2>4. Len(SubSeq(q, r, z)) = InnerSlots - mid
    <3>1. z - r + 1 = InnerSlots - mid /\ r <= z
      BY <1>1
    <3> HIDE DEF q, r, z
    <3> QED BY <2>2, <3>1
  <2> QED BY <2>1, <2>3, <2>4
<1> DEFINE new == RightOf(node, mid)
<1>4. new.keys = SubSeq(p, r, InnerSlots) /\ new.child = SubSeq(q, r, z) /\ new.level = node.level
  BY DEF RightOf, NodeType
<1>5. new \in NodeType
  BY <1>2, <1>3 DEF RightOf, NodeType
<1>6. ChildSet(new) \subseteq ChildSet(node)
  <2> SUFFICES ASSUME NEW i \in 1 .. Len(new.child) PROVE new.child[i] \in ChildSet(node)
    BY DEF ChildSet
  <2>1. i \in 1 .. z - r + 1
    BY <1>1, <1>3, <1>4
  <2>2. r + i - 1 \in 1 .. Len(node.child)
    BY <1>1, <2>1
  <2>3. new.child[i] = node.child[r + i - 1]
    BY <1>3, <1>4, <2>1
  <2> QED BY <2>2, <2>3 DEF ChildSet
<1> QED BY <1>2, <1>3, <1>4, <1>5, <1>6

\* an inner node of level l over nodes of C, with at least half of its slots in use
Filled(x, l, C) == /\ x \in NodeType /\ x.level = l
                   /\ Len(x.child) = Len(x.keys) + 1
                   /\ Len(x.keys) <= InnerSlots /\ Len(x.keys) >= InnerSlots \div 2
                   /\ ChildSet(x) \subseteq C

\* appending to a sequence
LEMMA Appended ==
  ASSUME NEW S, NEW s \in Seq(S), NEW e \in S
  PROVE  /\ Append(s, e) \in Seq(S) /\ Len(Append(s, e)) = Len(s) + 1
         /\ \A i \in 1 .. Len(s) + 1 : Append(s, e)[i] = IF i <= Len(s) THEN s[i] ELSE e
OBVIOUS

\* both halves of a full inner node in which a child was put are filled
LEMMA SplitNode ==
  ASSUME NEW node \in NodeType, Len(node.keys) = InnerSlots, Len(node.child) = InnerSlots + 1,
         NEW s \in 0 .. InnerSlots, NEW up \in [key : Nat, node : Nodes]
  PROVE  LET h == Halves(node, s, up)
             C == ChildSet(node) \cup {up.node}
         IN h.key \in Nat /\ Filled(h.left, node.level, C) /\ Filled(h.right, node.level, C)
<1> DEFINE mid == MidFor(s)
           left == LeftOf(node, mid)
           right == RightOf(node, mid)
           key == node.keys[mid + 1]
           h == Halves(node, s, up)
           C == ChildSet(node) \cup {up.node}
           G == h.key \in Nat /\ Filled(h.left, node.level, C) /\ Filled(h.right, node.level, C)
<1>0. /\ mid \in 0 .. InnerSlots - 1
      /\ s <= mid => mid + 1 >= InnerSlots \div 2 /\ InnerSlots - mid - 1 >= InnerSlots \div 2
      /\ s > mid /\ ~(s = mid + 1 /\ mid < InnerSlots - mid - 1) =>
           mid = InnerSlots \div 2 /\ InnerSlots - mid >= InnerSlots \div 2
      /\ s = mid + 1 /\ mid < InnerSlots - mid - 1 => InnerSlots - mid - 1 >= InnerSlots \div 2
      /\ mid = InnerSlots \div 2 \/ mid = InnerSlots \div 2 - 1
  BY SplitSlot
<1>1. /\ mid \in 0 .. InnerSlots - 1 /\ mid \in Int /\ mid >= 0 /\ s \in Int /\ s >= 0
      /\ s <= InnerSlots
      /\ InnerSlots \in Int /\ InnerSlots \div 2 \in Int /\ mid <= InnerSlots - 1
      /\ mid + 1 >= InnerSlots \div 2 /\ InnerSlots \div 2 <= InnerSlots - 1
      /\ up.key \in Nat /\ up.node \in Nodes
  <2>1. up.key \in Nat /\ up.node \in Nodes
    OBVIOUS
  <2> HIDE DEF mid
  <2> QED BY <1>0, <2>1, Constants
<1>2. /\ left \in NodeType /\ left.level = node.level
      /\ Len(left.keys) = mid /\ Len(left.child) = mid + 1
      /\ ChildSet(left) \subseteq ChildSet(node)
  BY <1>1, LeftNode
<1>3. /\ right \in NodeType /\ right.level = node.level
      /\ Len(right.keys) = InnerSlots - mid - 1 /\ Len(right.child) = InnerSlots - mid
      /\ ChildSet(right) \subseteq ChildSet(node)
  BY <1>1, RightNode
<1>4. key \in Nat
  <2>1. mid + 1 \in 1 .. Len(node.keys) /\ node.keys \in Seq(Nat)
    BY <1>1 DEF NodeType
  <2> QED BY <2>1, ElementOfSeq
<1>5. ASSUME s <= mid PROVE G
  <2> DEFINE l2 == WithChild(left, s, up)
  <2>1. h = [left |-> l2, right |-> right, key |-> key]
    <3>1. ~(s = mid + 1)
      BY <1>1, <1>5
    <3> QED BY <1>5, <3>1 DEF Halves
  <2>2. s \in 0 .. Len(left.keys) /\ Len(left.child) = Len(left.keys) + 1
    <3> HIDE DEF mid, left
    <3> QED BY <1>1, <1>2, <1>5
  <2>3. /\ l2 \in NodeType /\ l2.level = left.level
        /\ Len(l2.keys) = Len(left.keys) + 1 /\ Len(l2.child) = Len(left.keys) + 2
        /\ ChildSet(l2) \subseteq ChildSet(left) \cup {up.node}
    BY <1>2, <2>2, ChildNode
  <2>4. mid + 1 >= InnerSlots \div 2 /\ InnerSlots - mid - 1 >= InnerSlots \div 2
    BY <1>0, <1>5
  <2> HIDE DEF mid, left, right, key, h, l2
  <2>5. Filled(l2, node.level, C)
    BY <1>1, <1>2, <2>3, <2>4 DEF Filled
  <2>6. Filled(right, node.level, C)
    BY <1>1, <1>3, <2>4 DEF Filled
  <2>7. h.key = key /\ h.left = l2 /\ h.right = right
    BY <2>1
  <2> QED BY <1>4, <2>5, <2>6, <2>7
<1>6. ASSUME s = mid + 1, mid < Len(right.keys) PROVE G
  <2> DEFINE l2 == [left EXCEPT !.keys = Append(@, key), !.child = Append(@, right.child[1])]
             r2 == [right EXCEPT !.child[1] = up.node]
  <2>1. h = [left |-> l2, right |-> r2, key |-> up.key]
    <3>1. ~(s <= mid)
      BY <1>1, <1>6
    <3> QED BY <1>6, <3>1 DEF Halves
  <2>2. InnerSlots - mid - 1 >= InnerSlots \div 2
    <3>1. mid < InnerSlots - mid - 1
      <4> HIDE DEF mid, right
      <4> QED BY <1>3, <1>6
    <3> QED BY <1>0, <1>6, <3>1
  <2> DEFINE p == left.keys
             q == left.child
             c == right.child
  <2>3. p \in Seq(Nat) /\ q \in Seq(Nodes) /\ c \in Seq(Nodes) /\ Len(p) = mid
        /\ Len(q) = mid + 1 /\ Len(c) = InnerSlots - mid
    <3> HIDE DEF left, right, mid
    <3> QED BY <1>2, <1>3 DEF NodeType
  <2>4. 1 \in 1 .. Len(c) /\ c[1] \in Nodes
    <3> HIDE DEF left, right, mid, c
    <3>1. 1 \in 1 .. Len(c)
      BY <1>1, <2>3
    <3> QED BY <2>3, <3>1, ElementOfSeq
  <2>5. Append(p, key) \in Seq(Nat) /\ Len(Append(p, key)) = mid + 1
    <3> HIDE DEF p, key, mid
    <3> QED BY <1>4, <2>3, Appended
  <2>6. /\ Append(q, c[1]) \in Seq(Nodes) /\ Len(Append(q, c[1])) = mid + 2
        /\ \A i \in 1 .. Len(q) + 1 : Append(q, c[1])[i] = IF i <= Len(q) THEN q[i] ELSE c[1]
    <3> HIDE DEF q, c, mid
    <3>1. Append(q, c[1]) \in Seq(Nodes) /\ Len(Append(q, c[1])) = Len(q) + 1
      BY <2>3, <2>4, Appended
    <3>2. \A i \in 1 .. Len(q) + 1 : Append(q, c[1])[i] = IF i <= Len(q) THEN q[i] ELSE c[1]
      BY <2>3, <2>4, Appended
    <3> QED BY <1>1, <2>3, <3>1, <3>2
  <2>7. /\ [c EXCEPT ![1] = up.node] \in Seq(Nodes) /\ Len([c EXCEPT ![1] = up.node]) = Len(c)
        /\ \A j \in 1 .. Len(c) : [c EXCEPT ![1] = up.node][j] = IF j = 1 THEN up.node ELSE c[j]
    <3> HIDE DEF c
    <3>1. /\ [c EXCEPT ![1] = up.node] \in Seq(Nodes)
          /\ Len([c EXCEPT ![1] = up.node]) = Len(c)
      BY <1>1, <2>3, <2>4, ExceptSeq
    <3>2. \A j \in 1 .. Len(c) : [c EXCEPT ![1] = up.node][j] = IF j = 1 THEN up.node ELSE c[j]
      BY <1>1, <2>3, <2>4, ExceptSeq
    <3> QED BY <3>1, <3>2
  <2>8. /\ l2.child = Append(q, c[1]) /\ l2.keys = Append(p, key)
        /\ l2.level = left.level /\ l2 \in NodeType
    <3> HIDE DEF mid, left, right, key
    <3> QED BY <1>2, <2>5, <2>6 DEF NodeType
  <2>9. /\ r2.child = [c EXCEPT ![1] = up.node] /\ r2.keys = right.keys
        /\ r2.level = right.level /\ r2 \in NodeType
    <3> HIDE DEF mid, left, right, key
    <3> QED BY <1>3, <2>7 DEF NodeType
  <2>10. ChildSet(left) = {q[i] : i \in 1 .. Len(q)} /\ ChildSet(right) = {c[i] : i \in 1 .. Len(c)}
    BY DEF ChildSet
  <2> HIDE DEF mid, left, right, key, l2, r2, p, q, c, h
  <2>11. ChildSet(l2) \subseteq ChildSet(left) \cup ChildSet(right)
    <3> SUFFICES ASSUME NEW i \in 1 .. Len(l2.child)
                 PROVE  l2.child[i] \in ChildSet(left) \cup ChildSet(right)
      BY DEF ChildSet
    <3>1. i \in 1 .. Len(q) + 1 /\ Len(q) \in Int
      BY <1>1, <2>3, <2>6, <2>8
    <3>2. l2.child[i] = IF i <= Len(q) THEN q[i] ELSE c[1]
      BY <2>6, <2>8, <3>1
    <3>3. CASE i <= Len(q)
      <4>1. i \in 1 .. Len(q)
        BY <3>1, <3>3
      <4> QED BY <2>10, <3>2, <3>3, <4>1
    <3>4. CASE ~(i <= Len(q))
      BY <2>4, <2>10, <3>2, <3>4
    <3> QED BY <3>3, <3>4
  <2>12. ChildSet(r2) \subseteq ChildSet(right) \cup {up.node}
    <3> SUFFICES ASSUME NEW i \in 1 .. Len(r2.child)
                 PROVE  r2.child[i] \in ChildSet(right) \cup {up.node}
      BY DEF ChildSet
    <3>1. i \in 1 .. Len(c)
      BY <2>7, <2>9
    <3> QED BY <2>7, <2>9, <2>10, <3>1
  <2>13. Filled(l2, node.level, C)
    <3>1. Len(l2.keys) = mid + 1 /\ Len(l2.child) = mid + 2
      BY <2>5, <2>6, <2>8
    <3>2. ChildSet(l2) \subseteq C
      BY <1>2, <1>3, <2>11
    <3> QED BY <1>1, <1>2, <2>8, <3>1, <3>2 DEF Filled
  <2>14. Filled(r2, node.level, C)
    <3>1. Len(r2.keys) = InnerSlots - mid - 1 /\ Len(r2.child) = InnerSlots - mid
      BY <1>3, <2>3, <2>7, <2>9
    <3>2. ChildSet(r2) \subseteq C
      BY <1>3, <2>12
    <3> QED BY <1>1, <1>3, <2>2, <2>9, <3>1, <3>2 DEF Filled
  <2>15. h.key = up.key /\ h.left = l2 /\ h.right = r2
    BY <2>1
  <2> QED BY <1>1, <2>13, <2>14, <2>15
<1>7. ASSUME s > mid, ~(s = mid + 1 /\ mid < Len(right.keys)) PROVE G
  <2> DEFINE r2 == WithChild(right, s - (mid + 1), up)
  <2>1. h = [left |-> left, right |-> r2, key |-> key]
    <3>1. ~(s <= mid)
      BY <1>1, <1>7
    <3> QED BY <1>7, <3>1 DEF Halves
  <2>2. s - (mid + 1) \in 0 .. Len(right.keys) /\ Len(right.child) = Len(right.keys) + 1
    <3> HIDE DEF mid, right
    <3> QED BY <1>1, <1>3, <1>7
  <2>3. /\ r2 \in NodeType /\ r2.level = right.level
        /\ Len(r2.keys) = Len(right.keys) + 1 /\ Len(r2.child) = Len(right.keys) + 2
        /\ ChildSet(r2) \subseteq ChildSet(right) \cup {up.node}
    BY <1>3, <2>2, ChildNode
  <2>4. mid = InnerSlots \div 2 /\ InnerSlots - mid >= InnerSlots \div 2
    <3>1. ~(s = mid + 1 /\ mid < InnerSlots - mid - 1)
      <4> HIDE DEF mid, right
      <4> QED BY <1>3, <1>7
    <3> QED BY <1>0, <1>7, <3>1
  <2> HIDE DEF mid, left, right, key, r2, h
  <2>5. Filled(r2, node.level, C)
    BY <1>1, <1>3, <2>3, <2>4 DEF Filled
  <2>6. Filled(left, node.level, C)
    BY <1>1, <1>2, <2>4 DEF Filled
  <2>7. h.key = key /\ h.left = left /\ h.right = r2
    BY <2>1
  <2> QED BY <1>4, <2>5, <2>6, <2>7
<1>8. G
  <2>1. s <= mid \/ s > mid
    BY <1>1
  <2> HIDE DEF G, mid, right
  <2> QED BY <1>5, <1>6, <1>7, <2>1
<1> QED BY <1>8

-------------------------------------------------------------------------------
(* The tree under a step                                                   *)

TreeTyped == /\ heap \in [Nodes -> NodeType]
             /\ used \in 0 .. MaxNodes
             /\ {root, head, tail} \subseteq Allocated \cup {Null}

\* keys, values, children and the next leaf of n stay
Same(n) == /\ heap'[n].keys = heap[n].keys /\ heap'[n].vals = heap[n].vals
           /\ heap'[n].child = heap[n].child /\ heap'[n].next = heap[n].next

\* what a step of t may do to the tree: it changes what it has locked for itself, and
\* leaves no node with less than half of its slots in use
TreeStep(t) ==
  /\ used' \in Nat /\ used <= used'
  /\ \A n \in Allocated : /\ heap'[n].level = heap[n].level
                          /\ n \notin Mine(t) => Same(n)
                          /\ Len(Keys(n)) >= Half(n) => Len(Keys(n)') >= Half(n)
  /\ Tree \notin Mine(t) => root' = root

TreeMoves(t) == TreeTyped' /\ TreeOK' /\ TreeStep(t)

\* a call's key and argument are numbers
LEMMA CallFacts ==
  ASSUME TypeOK, NEW t \in Threads
  PROVE  /\ K(t) \in Nat /\ call[t].arg \in Nat /\ Op(t) \in Ops \cup {"none"}
         /\ call[t] # None => call[t] \in Calls
         /\ call[t] = None => Op(t) = "none" /\ K(t) = 0
BY DEF TypeOK, K, Op, Calls, None

\* the nodes in use
LEMMA InUse ==
  ASSUME TreeTyped
  PROVE  /\ Allocated \subseteq Nodes /\ used \in Nat /\ used <= MaxNodes
         /\ \A n \in Int : n \in Allocated <=> 1 <= n /\ n <= used
         /\ Tree \notin Allocated /\ Null \notin Allocated /\ Allocated \subseteq Int
BY Constants DEF TreeTyped, Allocated, Nodes, Tree, Null

\* the parts of a node
LEMMA NodeFacts ==
  ASSUME TreeTyped, NEW n \in Nodes
  PROVE  /\ heap[n] \in NodeType /\ Keys(n) \in Seq(Nat) /\ Len(Keys(n)) \in Nat
         /\ heap[n].level \in Int /\ heap[n].child \in Seq(Nodes)
         /\ heap[n].vals \in Seq(Nat) /\ Len(heap[n].child) \in Nat
         /\ heap[n].next \in Nodes \cup {Null} /\ heap[n].prev \in Nodes \cup {Null}
         /\ Half(n) \in Nat
         /\ \A k \in Nat : SlotIn(n, k) \in 0 .. Len(Keys(n))
<1>1. heap[n] \in NodeType
  BY DEF TreeTyped
<1>2. /\ Keys(n) \in Seq(Nat) /\ heap[n].child \in Seq(Nodes) /\ heap[n].vals \in Seq(Nat)
      /\ heap[n].next \in Nodes \cup {Null} /\ heap[n].prev \in Nodes \cup {Null}
      /\ heap[n].level \in Int
  BY <1>1, Constants DEF NodeType, Keys
<1>3. Half(n) \in Nat
  BY Constants DEF Half
<1>4. \A k \in Nat : SlotIn(n, k) \in 0 .. Len(Keys(n))
  BY <1>2, LowerSlot DEF SlotIn, Keys
<1>5. Len(Keys(n)) \in Nat /\ Len(heap[n].child) \in Nat
  BY <1>2, LenProperties
<1> QED BY <1>1, <1>2, <1>3, <1>4, <1>5

\* a step that leaves the tree alone
LEMMA TreeStays ==
  ASSUME TreeTyped, TreeOK, UNCHANGED tree, NEW t \in Threads
  PROVE  TreeMoves(t)
<1>1. heap' = heap /\ used' = used /\ root' = root /\ head' = head /\ tail' = tail
  BY DEF tree
<1>2. TreeTyped'
  BY <1>1 DEF TreeTyped, Allocated
<1>3. TreeOK'
  BY <1>1 DEF TreeOK, Allocated, LeafOK, InnerOK, Keys
<1>4. TreeStep(t)
  BY <1>1, InUse DEF TreeStep, Same, Keys, Half
<1> QED BY <1>2, <1>3, <1>4 DEF TreeMoves

\* the first leaf
LEMMA FirstLeafTree ==
  ASSUME TreeTyped, TreeOK, NEW t \in Threads, FirstLeaf(t)
  PROVE  TreeMoves(t)
<1> DEFINE new == used + 1
<1>1. /\ root = Null /\ used = 0 /\ used' = 1 /\ used < MaxNodes
      /\ heap' = [heap EXCEPT ![1] = EmptyLeaf]
      /\ root' = 1 /\ head' = 1 /\ tail' = 1 /\ 1 \in Nodes
  BY Constants, InUse DEF FirstLeaf, TreeOK
<1>2. EmptyLeaf \in NodeType /\ EmptyLeaf.level = 0 /\ EmptyLeaf.keys = <<>>
      /\ EmptyLeaf.vals = <<>> /\ EmptyLeaf.next = Null /\ EmptyLeaf.prev = Null
  <2>1. EmptyLeaf = [level |-> 0, keys |-> <<>>, vals |-> <<>>, child |-> <<>>,
                     next |-> Null, prev |-> Null]
    BY DEF EmptyLeaf, Blank
  <2>2. 0 \in -1 .. MaxNodes /\ <<>> \in Seq(Nat) /\ <<>> \in Seq(Nodes)
    BY Constants
  <2> QED BY <2>1, <2>2 DEF NodeType
<1>3. \A n \in Nodes : heap'[n] = IF n = 1 THEN EmptyLeaf ELSE heap[n]
  BY <1>1 DEF TreeTyped
<1>4. Allocated = {} /\ Allocated' = {1}
  BY <1>1 DEF Allocated
<1>5. TreeTyped'
  BY <1>1, <1>2, <1>4, Constants DEF TreeTyped
<1>6. TreeOK'
  <2>1. \A n \in Nodes \ Allocated' : heap'[n] = Blank
    BY <1>3, <1>4 DEF TreeOK
  <2>2. heap'[1] = EmptyLeaf
    BY <1>1, <1>3
  <2>3. LeafOK(1)'
    BY <1>1, <1>2, <2>2, Constants DEF LeafOK, Keys
  <2>4. 1 # Null
    BY <1>1, Constants
  <2> QED BY <1>1, <1>2, <1>4, <2>1, <2>2, <2>3, <2>4 DEF TreeOK
<1>7. TreeStep(t)
  <2>1. Tree \in Mine(t)
    BY DEF FirstLeaf, Visiting, Own, Mine, ForWriting
  <2> QED BY <1>1, <1>4, <2>1 DEF TreeStep
<1> QED BY <1>5, <1>6, <1>7 DEF TreeMoves

\* a new item in a leaf with room, locked by t alone
LEMMA PutItemTree ==
  ASSUME TypeOK, TreeTyped, TreeOK, NEW t \in Threads, at[t] \in Allocated, heap[at[t]].level = 0,
         at[t] \in Mine(t), ~LeafFull(at[t]), PutItem(t), UNCHANGED <<used, root, head, tail>>
  PROVE  TreeMoves(t)
<1> DEFINE l == at[t]
           new == WithItem(heap[l], SlotIn(l, K(t)), K(t), call[t].arg)
<1>1. /\ l \in Nodes /\ heap[l] \in NodeType /\ LeafOK(l)
      /\ K(t) \in Nat /\ call[t].arg \in Nat /\ Len(Keys(l)) \in Nat
      /\ \A k \in Nat : SlotIn(l, k) \in 0 .. Len(Keys(l))
  <2>1. l \in Nodes
    BY InUse
  <2>2. LeafOK(l)
    BY DEF TreeOK
  <2> QED BY <2>1, <2>2, NodeFacts, CallFacts
<1>2. /\ Len(heap[l].vals) = Len(heap[l].keys) /\ Len(heap[l].keys) < LeafSlots
      /\ SlotIn(l, K(t)) \in 0 .. Len(heap[l].keys)
  <2>1. Len(heap[l].vals) = Len(heap[l].keys) /\ Len(Keys(l)) <= LeafSlots
    BY <1>1 DEF LeafOK, Keys
  <2>2. Len(Keys(l)) # LeafSlots /\ Keys(l) = heap[l].keys
    BY DEF LeafFull, Keys
  <2>3. Len(Keys(l)) < LeafSlots
    <3> DEFINE a == Len(Keys(l))
    <3>1. a \in Nat /\ LeafSlots \in Nat /\ a <= LeafSlots /\ a # LeafSlots
      BY <1>1, <2>1, <2>2, Constants
    <3> HIDE DEF a
    <3>2. a < LeafSlots
      BY <3>1
    <3> QED BY <3>2 DEF a
  <2>4. SlotIn(l, K(t)) \in 0 .. Len(Keys(l))
    BY <1>1
  <2> QED BY <2>1, <2>2, <2>3, <2>4
<1>3. /\ new \in NodeType
      /\ Len(new.keys) = Len(Keys(l)) + 1 /\ Len(new.vals) = Len(Keys(l)) + 1
      /\ new.level = heap[l].level /\ new.child = heap[l].child
      /\ new.next = heap[l].next /\ new.prev = heap[l].prev
  <2> DEFINE x == heap[l]
             i == SlotIn(l, K(t))
  <2>1. x \in NodeType /\ Len(x.vals) = Len(x.keys) /\ i \in 0 .. Len(x.keys)
    BY <1>1, <1>2
  <2> HIDE DEF x, i
  <2>2. LET y == WithItem(x, i, K(t), call[t].arg) IN
        /\ y \in NodeType /\ Len(y.keys) = Len(x.keys) + 1 /\ Len(y.vals) = Len(x.keys) + 1
        /\ y.level = x.level /\ y.child = x.child /\ y.next = x.next /\ y.prev = x.prev
    BY <1>1, <2>1, ItemNode
  <2> QED BY <2>2 DEF x, i, Keys
<1>4. /\ \A n \in Nodes : heap'[n] = IF n = l THEN new ELSE heap[n]
      /\ heap' \in [Nodes -> NodeType]
  BY <1>3 DEF PutItem, TreeTyped
<1> HIDE DEF new
<1>5. TreeTyped' /\ Allocated' = Allocated /\ used' = used /\ root' = root
      /\ head' = head /\ tail' = tail
  BY <1>4 DEF TreeTyped, Allocated
<1>6. ASSUME NEW n \in Nodes
      PROVE  /\ heap'[n].level = heap[n].level /\ heap'[n].child = heap[n].child
             /\ heap'[n].next = heap[n].next /\ heap'[n].prev = heap[n].prev
             /\ Len(Keys(n)') >= Len(Keys(n))
             /\ n # l => heap'[n] = heap[n]
             /\ Len(Keys(n)) \in Nat /\ Len(Keys(n)') \in Nat
  <2>1. Len(Keys(n)) \in Nat
    BY NodeFacts
  <2>2. Keys(n)' = heap'[n].keys
    BY DEF Keys
  <2> QED BY <1>1, <1>3, <1>4, <2>1, <2>2 DEF Keys
<1>7. TreeOK'
  <2>1. ASSUME NEW n \in Allocated, heap[n].level = 0 PROVE LeafOK(n)'
    <3>1. LeafOK(n) /\ n \in Nodes
      BY <2>1, InUse DEF TreeOK
    <3>2. heap[n].next # Null => heap[n].next \in Nodes
      BY <3>1, InUse DEF LeafOK
    <3>3. Len(heap'[n].vals) = Len(Keys(n)') /\ Len(Keys(n)') <= LeafSlots
      <4>1. CASE n = l
        <5>1. heap'[n] = new /\ Keys(n)' = new.keys
          BY <1>4, <3>1, <4>1 DEF Keys
        <5>2. Len(Keys(l)) < LeafSlots
          BY <1>2 DEF Keys
        <5>3. Len(new.keys) <= LeafSlots /\ Len(new.keys) = Len(new.vals)
          BY <1>1, <1>3, <5>2, Constants
        <5> QED BY <5>1, <5>3
      <4>2. CASE n # l
        <5>1. heap'[n] = heap[n] /\ Keys(n)' = Keys(n)
          BY <1>6, <3>1, <4>2 DEF Keys
        <5> QED BY <3>1, <5>1 DEF LeafOK
      <4> QED BY <4>1, <4>2
    <3>4. used > 1 => Len(Keys(n)') >= LeafSlots \div 2
      BY <1>6, <3>1, Constants DEF LeafOK
    <3> QED BY <1>5, <1>6, <3>1, <3>2, <3>3, <3>4 DEF LeafOK
  <2>2. ASSUME NEW n \in Allocated, heap[n].level > 0 PROVE InnerOK(n)'
    <3>1. InnerOK(n) /\ n \in Nodes
      BY <2>2, InUse DEF TreeOK
    <3>2. n # l /\ Allocated \subseteq Nodes
      BY <2>2, InUse
    <3>3. heap'[n] = heap[n] /\ Keys(n)' = Keys(n)
      BY <1>6, <3>1, <3>2 DEF Keys
    <3>4. ASSUME NEW i \in 1 .. Len(heap[n].child)
          PROVE  heap[n].child[i] \in Allocated' /\ heap'[heap[n].child[i]].level = heap[n].level - 1
      BY <1>5, <1>6, <3>1, <3>2 DEF InnerOK
    <3> QED BY <1>5, <3>1, <3>3, <3>4 DEF InnerOK
  <2>3. ASSUME NEW n \in Nodes \ Allocated PROVE heap'[n] = Blank
    BY <1>6 DEF TreeOK
  <2> QED BY <1>5, <1>6, <2>1, <2>2, <2>3, InUse DEF TreeOK
<1>8. TreeStep(t)
  <2>1. ASSUME NEW n \in Allocated
        PROVE  /\ heap'[n].level = heap[n].level
               /\ n \notin Mine(t) => Same(n)
               /\ Len(Keys(n)) >= Half(n) => Len(Keys(n)') >= Half(n)
    <3>1. n \in Nodes /\ Half(n) \in Nat
      BY InUse, NodeFacts
    <3> QED BY <1>6, <3>1 DEF Same
  <2> QED BY <1>5, <2>1, InUse DEF TreeStep
<1> QED BY <1>5, <1>7, <1>8 DEF TreeMoves

\* inner nodes of D change and new may be new; what each is then
InnerChange(t, D, new) ==
  /\ new = used + 1 /\ heap' \in [Nodes -> NodeType]
  /\ used' \in {used, new} /\ used' <= MaxNodes /\ head' = head /\ tail' = tail
  /\ D \subseteq Allocated \cap Mine(t)
  /\ \A n \in Nodes : n \notin D /\ (n # new \/ used' = used) => heap'[n] = heap[n]
  /\ \A n \in D : /\ heap[n].level > 0 /\ heap'[n].level = heap[n].level
                  /\ Len(Keys(n)) >= Half(n) => Len(Keys(n)') >= Half(n)
  /\ \A n \in D \cup {new} : n \in D \/ used' = new =>
       /\ Len(heap'[n].child) = Len(Keys(n)') + 1 /\ Len(Keys(n)') <= InnerSlots
       /\ ChildSet(heap'[n]) \subseteq {m \in Allocated' : heap'[m].level = heap'[n].level - 1}
  /\ used' = new =>
       /\ heap'[new].level \in 1 .. used
       /\ new # root' => Len(Keys(new)') >= InnerSlots \div 2
       /\ \A n \in Allocated : heap[n].level = 0 => Len(Keys(n)) >= Half(n)
  /\ \/ root' = root
     \/ Tree \in Mine(t) /\ used' = new /\ root' = new /\ Len(Keys(root)) >= Half(root)

\* the tree after such a change
LEMMA InnerTree ==
  ASSUME TreeTyped, TreeOK, NEW t \in Threads, NEW D, NEW new, InnerChange(t, D, new), root # Null
  PROVE  TreeMoves(t)
<1>1. /\ used \in Nat /\ used' \in Nat /\ used <= used' /\ used' <= MaxNodes
      /\ Allocated \subseteq Nodes /\ Allocated \subseteq Allocated'
      /\ \A n \in Int : n \in Allocated <=> 1 <= n /\ n <= used
      /\ \A n \in Int : n \in Allocated' <=> 1 <= n /\ n <= used'
      /\ Allocated' \subseteq Allocated \cup {new} /\ Allocated' \subseteq Nodes
      /\ new = used + 1 /\ new \notin Allocated /\ used > 0 /\ new \in Int
      /\ new \in Allocated' <=> used' = new
  BY InUse, Constants DEF InnerChange, Allocated, Nodes, TreeOK
<1>2. root \in Allocated /\ root' \in Allocated' /\ head' \in Allocated \cup {Null}
      /\ tail' \in Allocated \cup {Null}
  <2>1. /\ root \in Allocated /\ {head, tail} \subseteq Allocated \cup {Null}
        /\ head' = head /\ tail' = tail
    BY DEF InnerChange, TreeTyped
  <2>2. root' = root \/ (root' = new /\ used' = new)
    BY DEF InnerChange
  <2> QED BY <1>1, <2>1, <2>2
<1>3. TreeTyped'
  BY <1>1, <1>2 DEF InnerChange, TreeTyped
<1>4. ASSUME NEW n \in Allocated
      PROVE  /\ n \in Nodes /\ heap'[n].level = heap[n].level /\ n # new
             /\ n \notin D => heap'[n] = heap[n] /\ Keys(n)' = Keys(n)
             /\ Len(Keys(n)) >= Half(n) => Len(Keys(n)') >= Half(n)
             /\ heap[n].level = 0 => n \notin D
             /\ Half(n) = IF heap[n].level = 0 THEN LeafSlots \div 2 ELSE InnerSlots \div 2
  <2>1. n \in Nodes /\ n # new
    BY <1>1
  <2>2. n \notin D => heap'[n] = heap[n]
    BY <2>1 DEF InnerChange
  <2>3. n \in D => heap[n].level > 0 /\ heap'[n].level = heap[n].level
    BY DEF InnerChange
  <2>4. Len(Keys(n)) >= Half(n) => Len(Keys(n)') >= Half(n)
    BY <2>2 DEF InnerChange, Keys
  <2>5. heap[n].level = 0 => n \notin D
    BY <2>3
  <2> QED BY <2>1, <2>2, <2>3, <2>4, <2>5 DEF Keys, Half
<1>5. ASSUME NEW n \in Allocated, heap[n].level = 0 PROVE LeafOK(n)'
  <2>1. LeafOK(n) /\ heap'[n] = heap[n] /\ Keys(n)' = Keys(n)
    BY <1>4, <1>5 DEF TreeOK
  <2>2. used' > 1 => Len(Keys(n)') >= LeafSlots \div 2
    <3>1. CASE used' = used
      BY <2>1, <3>1 DEF LeafOK
    <3>2. CASE used' = new
      BY <1>4, <1>5, <2>1, <3>2 DEF InnerChange
    <3> QED BY <3>1, <3>2 DEF InnerChange
  <2>3. CASE heap[n].next = Null
    BY <2>1, <2>2, <2>3 DEF LeafOK, InnerChange
  <2>4. CASE heap[n].next # Null
    <3>1. heap[n].next \in Allocated \ {n} /\ heap[heap[n].next].level = 0
      BY <2>1, <2>4 DEF LeafOK
    <3>2. heap'[heap[n].next] = heap[heap[n].next]
      BY <1>4, <3>1
    <3> QED BY <1>1, <2>1, <2>2, <2>4, <3>1, <3>2 DEF LeafOK, InnerChange
  <2> QED BY <2>3, <2>4
<1>6. ASSUME NEW n \in Allocated, heap[n].level > 0 PROVE InnerOK(n)'
  <2>1. InnerOK(n) /\ Half(n) = InnerSlots \div 2
    BY <1>4, <1>6, Constants DEF TreeOK
  <2>2. n # root' => Len(Keys(n)') >= InnerSlots \div 2
    <3>1. n # root => Len(Keys(n)) >= Half(n)
      BY <2>1 DEF InnerOK
    <3>2. n # root' => Len(Keys(n)) >= Half(n)
      <4>1. root' = root \/ Len(Keys(root)) >= Half(root)
        BY DEF InnerChange
      <4> QED BY <3>1, <4>1
    <3> QED BY <1>4, <2>1, <3>2
  <2>3. CASE n \in D
    <3>1. /\ Len(heap'[n].child) = Len(Keys(n)') + 1 /\ Len(Keys(n)') <= InnerSlots
          /\ ChildSet(heap'[n]) \subseteq {m \in Allocated' : heap'[m].level = heap'[n].level - 1}
      BY <2>3 DEF InnerChange
    <3>2. \A i \in 1 .. Len(heap'[n].child) :
            heap'[n].child[i] \in Allocated' /\ heap'[heap'[n].child[i]].level = heap'[n].level - 1
      BY <3>1 DEF ChildSet
    <3> QED BY <2>2, <3>1, <3>2 DEF InnerOK
  <2>4. CASE n \notin D
    <3>1. heap'[n] = heap[n] /\ Keys(n)' = Keys(n)
      BY <1>4, <2>4
    <3>2. ASSUME NEW i \in 1 .. Len(heap[n].child)
          PROVE  heap[n].child[i] \in Allocated' /\ heap'[heap[n].child[i]].level = heap[n].level - 1
      BY <1>1, <1>4, <2>1 DEF InnerOK
    <3> QED BY <2>1, <2>2, <3>1, <3>2 DEF InnerOK
  <2> QED BY <2>3, <2>4
<1>7. ASSUME used' = new PROVE heap'[new].level \in 1 .. used /\ InnerOK(new)'
  <2>1. /\ Len(heap'[new].child) = Len(Keys(new)') + 1 /\ Len(Keys(new)') <= InnerSlots
        /\ ChildSet(heap'[new]) \subseteq {m \in Allocated' : heap'[m].level = heap'[new].level - 1}
    BY <1>7 DEF InnerChange
  <2>2. /\ heap'[new].level \in 1 .. used
        /\ new # root' => Len(Keys(new)') >= InnerSlots \div 2
    BY <1>7 DEF InnerChange
  <2>3. \A i \in 1 .. Len(heap'[new].child) :
          heap'[new].child[i] \in Allocated' /\ heap'[heap'[new].child[i]].level = heap'[new].level - 1
    BY <2>1 DEF ChildSet
  <2> QED BY <2>1, <2>2, <2>3 DEF InnerOK
<1>8. TreeOK'
  <2>1. ASSUME NEW n \in Nodes \ Allocated' PROVE heap'[n] = Blank
    <3>1. n \notin D /\ n \notin Allocated /\ (n # new \/ used' = used)
      BY <1>1 DEF InnerChange
    <3> QED BY <3>1 DEF InnerChange, TreeOK
  <2>2. ASSUME NEW n \in Allocated'
        PROVE  /\ heap'[n].level \in 0 .. used' - 1
               /\ heap'[n].level = 0 => LeafOK(n)'
               /\ heap'[n].level > 0 => InnerOK(n)'
    <3>1. CASE n \in Allocated
      <4>1. heap[n].level \in 0 .. used - 1
        BY <3>1 DEF TreeOK
      <4> QED BY <1>1, <1>4, <1>5, <1>6, <3>1, <4>1
    <3>2. CASE n = new /\ used' = new
      <4>1. heap'[n].level \in 1 .. used /\ InnerOK(n)'
        BY <1>7, <3>2
      <4> QED BY <1>1, <3>2, <4>1
    <3> QED BY <1>1, <3>1, <3>2
  <2>3. root' # Null /\ used' # 0 /\ (head' = Null <=> FALSE)
    BY <1>1, <1>2, <1>3, InUse, Constants DEF TreeOK, InnerChange
  <2> QED BY <2>1, <2>2, <2>3 DEF TreeOK
<1>9. TreeStep(t)
  <2>1. \A n \in Allocated : n \notin Mine(t) => Same(n)
    BY <1>4 DEF InnerChange, Same
  <2>2. Tree \notin Mine(t) => root' = root
    BY DEF InnerChange
  <2> QED BY <1>1, <1>4, <2>1, <2>2 DEF TreeStep
<1> QED BY <1>3, <1>8, <1>9 DEF TreeMoves

\* the parts of the invariant
LEMMA Parts ==
  ASSUME IInv, NEW t \in Threads
  PROVE  /\ TypeOK /\ TreeTyped /\ TreeOK /\ PlaceOK(t) /\ PathOK(t) /\ CarryOK(t)
         /\ LocksExact /\ Drained
BY DEF IInv, TypeOK, TreeTyped, Allocated

\* the frames of a path
LEMMA PathFacts ==
  ASSUME TypeOK, NEW t \in Threads
  PROVE  /\ path[t] \in Seq([node : Nodes \cup {Tree}, slot : Nat]) /\ Len(path[t]) \in Nat
         /\ \A i \in 1 .. Len(path[t]) : Node(t, i) \in Nodes \cup {Tree} /\ path[t][i].slot \in Nat
         /\ path[t] # <<>> <=> Len(path[t]) > 0
         /\ Held(t) = {Node(t, i) : i \in 1 .. Len(path[t])}
<1>1. path[t] \in Seq([node : Nodes \cup {Tree}, slot : Nat])
  BY DEF TypeOK
<1>2. Len(path[t]) \in Nat /\ (path[t] # <<>> <=> Len(path[t]) > 0)
  BY <1>1, LenProperties, EmptySeq
<1>3. ASSUME NEW i \in 1 .. Len(path[t])
      PROVE  Node(t, i) \in Nodes \cup {Tree} /\ path[t][i].slot \in Nat
  <2>1. path[t][i] \in [node : Nodes \cup {Tree}, slot : Nat]
    BY <1>1, ElementOfSeq
  <2> QED BY <2>1 DEF Node
<1> QED BY <1>1, <1>2, <1>3 DEF Held, Node

\* an insert on its way back up
LEMMA ClimbFacts ==
  ASSUME IInv, NEW t \in Threads, pc[t] = "climb"
  PROVE  /\ path[t] # <<>> /\ mode[t] = "sure" /\ Op(t) = "insert"
         /\ Len(path[t]) \in 1 .. Len(path[t]) /\ Top(t).node = Node(t, Len(path[t]))
         /\ Top(t) = path[t][Len(path[t])]
         /\ Top(t).node \in Mine(t) /\ Top(t).node \in Held(t)
         /\ Top(t).node \in Allocated \cup {Tree}
         /\ carry[t] # NoChild =>
              /\ carry[t].node \in Allocated /\ carry[t] \in [key : Nat, node : Nodes]
              /\ root # Null
<1>1. /\ TypeOK /\ TreeTyped /\ TreeOK /\ PlaceOK(t) /\ PathOK(t) /\ CarryOK(t)
  BY Parts
<1>2. path[t] # <<>> /\ mode[t] = "sure" /\ Op(t) = "insert"
  BY <1>1 DEF PlaceOK
<1>3. Len(path[t]) \in 1 .. Len(path[t]) /\ Top(t).node = Node(t, Len(path[t]))
  BY <1>1, <1>2, PathFacts DEF Top, Node
<1>4. Top(t).node \in Held(t)
  BY <1>1, <1>3, PathFacts
<1>5. Top(t).node \in Mine(t)
  BY <1>2, <1>4 DEF Own, Mine
<1>6. Top(t).node \in Allocated \cup {Tree}
  BY <1>1, <1>3 DEF PathOK
<1>7. ASSUME carry[t] # NoChild
      PROVE  carry[t].node \in Allocated /\ carry[t] \in [key : Nat, node : Nodes] /\ root # Null
  <2>1. carry[t].node \in Allocated
    BY <1>1, <1>7 DEF CarryOK
  <2>2. carry[t] \in [key : Nat, node : Nodes \cup {Null}]
    BY <1>1 DEF TypeOK
  <2>3. carry[t].node \in Nodes
    BY <1>1, <2>1, InUse
  <2>4. root # Null
    BY <1>1, <2>1, InUse, Constants DEF TreeOK
  <2> QED BY <2>1, <2>2, <2>3, <2>4
<1> QED BY <1>2, <1>3, <1>4, <1>5, <1>6, <1>7 DEF Top

\* the inner node that gets the new child
LEMMA TopFacts ==
  ASSUME IInv, NEW t \in Threads, pc[t] = "climb", carry[t] # NoChild, NEW n, n = Top(t).node, n # Tree
  PROVE  /\ n \in Allocated /\ n \in Nodes /\ heap[n].level > 0 /\ InnerOK(n) /\ heap[n] \in NodeType
         /\ heap[n].level = heap[carry[t].node].level + 1
         /\ carry[t].node # n
         /\ Top(t).slot \in 0 .. Len(heap[n].keys) /\ Len(heap[n].keys) \in Nat
         /\ Len(heap[n].child) = Len(heap[n].keys) + 1
<1>1. TypeOK /\ TreeTyped /\ TreeOK /\ PathOK(t) /\ CarryOK(t)
  BY Parts
<1>2. /\ Len(path[t]) \in 1 .. Len(path[t]) /\ n = Node(t, Len(path[t]))
      /\ n \in Allocated /\ carry[t].node \in Allocated /\ Top(t) = path[t][Len(path[t])]
  BY ClimbFacts
<1>3. n \in Nodes /\ carry[t].node \in Nodes
  BY <1>1, <1>2, InUse
<1>4. heap[n].level \in Int /\ heap[carry[t].node].level \in Int /\ Len(Keys(n)) \in Nat
      /\ heap[n] \in NodeType
  BY <1>1, <1>3, NodeFacts
<1>5. heap[carry[t].node].level = heap[n].level - 1 /\ heap[carry[t].node].level >= 0
  BY <1>1, <1>2 DEF CarryOK, TreeOK
<1>6. heap[n].level > 0 /\ heap[n].level = heap[carry[t].node].level + 1 /\ carry[t].node # n
  BY <1>4, <1>5
<1>7. InnerOK(n)
  BY <1>1, <1>2, <1>6 DEF TreeOK
<1>8. Top(t).slot \in Nat /\ Top(t).slot <= Len(Keys(n))
  BY <1>1, <1>2, PathFacts DEF PathOK, SlotOK
<1>9. Top(t).slot \in 0 .. Len(heap[n].keys)
  BY <1>4, <1>8 DEF Keys
<1> QED BY <1>2, <1>3, <1>4, <1>6, <1>7, <1>9 DEF InnerOK, Keys

\* a new child in an inner node with room
LEMMA ClimbInsertTree ==
  ASSUME IInv, NEW t \in Threads, ClimbInsert(t)
  PROVE  TreeMoves(t)
<1> SUFFICES ASSUME NEW n, n = Top(t).node, NEW y, y = used + 1, NEW D, D = {n}
             PROVE  TreeMoves(t)
  OBVIOUS
<1> DEFINE new == WithChild(heap[n], Top(t).slot, carry[t])
<1>1. /\ pc[t] = "climb" /\ carry[t] # NoChild /\ n # Tree /\ ~InnerFull(n)
      /\ heap' = [heap EXCEPT ![n] = new] /\ used' = used /\ root' = root
      /\ head' = head /\ tail' = tail
  BY DEF ClimbInsert
<1>2. TypeOK /\ TreeTyped /\ TreeOK
  BY Parts
<1>3. /\ n \in Allocated /\ n \in Nodes /\ heap[n].level > 0 /\ InnerOK(n) /\ heap[n] \in NodeType
      /\ heap[n].level = heap[carry[t].node].level + 1
      /\ Top(t).slot \in 0 .. Len(heap[n].keys) /\ Len(heap[n].keys) \in Nat
      /\ Len(heap[n].child) = Len(heap[n].keys) + 1
  BY <1>1, TopFacts
<1>4. carry[t].node \in Allocated /\ carry[t] \in [key : Nat, node : Nodes] /\ root # Null
      /\ n \in Mine(t)
  BY <1>1, ClimbFacts
<1>5. /\ new \in NodeType
      /\ Len(new.keys) = Len(heap[n].keys) + 1 /\ Len(new.child) = Len(heap[n].keys) + 2
      /\ new.level = heap[n].level
      /\ ChildSet(new) \subseteq ChildSet(heap[n]) \cup {carry[t].node}
  <2> DEFINE x == heap[n]
             s == Top(t).slot
             up == carry[t]
  <2>1. x \in NodeType /\ Len(x.child) = Len(x.keys) + 1 /\ s \in 0 .. Len(x.keys)
        /\ up \in [key : Nat, node : Nodes]
    BY <1>3, <1>4
  <2> HIDE DEF x, s, up
  <2>2. LET z == WithChild(x, s, up) IN
        /\ z \in NodeType /\ Len(z.keys) = Len(x.keys) + 1 /\ Len(z.child) = Len(x.keys) + 2
        /\ z.level = x.level /\ ChildSet(z) \subseteq ChildSet(x) \cup {up.node}
    BY <2>1, ChildNode
  <2> QED BY <2>2 DEF x, s, up
<1>6. /\ heap' \in [Nodes -> NodeType]
      /\ \A m \in Nodes : heap'[m] = IF m = n THEN new ELSE heap[m]
  BY <1>1, <1>2, <1>5 DEF TreeTyped
<1> HIDE DEF new
<1>7. /\ Len(Keys(n)') = Len(Keys(n)) + 1 /\ Len(Keys(n)) \in Nat
      /\ Len(heap'[n].child) = Len(Keys(n)') + 1 /\ heap'[n].level = heap[n].level
  BY <1>3, <1>5, <1>6 DEF Keys
<1>8. Len(Keys(n)') <= InnerSlots
  <2> DEFINE a == Len(Keys(n))
  <2>1. a \in Nat /\ InnerSlots \in Nat /\ a <= InnerSlots /\ a # InnerSlots
    BY <1>1, <1>3, <1>7, Constants DEF InnerFull, InnerOK, Keys
  <2> HIDE DEF a
  <2>2. a + 1 <= InnerSlots
    BY <2>1
  <2> QED BY <1>7, <2>2 DEF a
<1>9. ChildSet(heap'[n]) \subseteq {m \in Allocated' : heap'[m].level = heap'[n].level - 1}
  <2>1. Allocated' = Allocated /\ Allocated \subseteq Nodes /\ heap'[n] = new
    BY <1>1, <1>2, <1>3, <1>6, InUse DEF Allocated
  <2>2. ASSUME NEW m \in ChildSet(heap[n]) \cup {carry[t].node}
        PROVE  m \in Allocated' /\ heap'[m].level = heap'[n].level - 1
    <3>1. m \in Allocated /\ heap[m].level = heap[n].level - 1
      <4>1. CASE m \in ChildSet(heap[n])
        BY <1>3, <4>1 DEF ChildSet, InnerOK
      <4>2. CASE m = carry[t].node
        <5>1. heap[m].level \in Int
          BY <1>2, <1>4, <2>1, <4>2, NodeFacts
        <5> QED BY <1>3, <1>4, <4>2, <5>1
      <4> QED BY <2>2, <4>1, <4>2
    <3>2. heap'[m].level = heap[m].level
      BY <1>5, <1>6, <2>1, <3>1
    <3> QED BY <1>7, <2>1, <3>1, <3>2
  <2> QED BY <1>5, <2>1, <2>2
<1>10. used \in Nat /\ used <= MaxNodes /\ y # used
  BY <1>2, InUse, Constants
<1>11. Len(Keys(n)) >= Half(n) => Len(Keys(n)') >= Half(n)
  BY <1>2, <1>3, <1>7, NodeFacts
<1>12. InnerChange(t, D, y)
  <2>1. \A m \in D : m = n
    OBVIOUS
  <2>2. D \subseteq Allocated \cap Mine(t)
    BY <1>3, <1>4
  <2>3. \A m \in Nodes : m \notin D /\ (m # y \/ used' = used) => heap'[m] = heap[m]
    BY <1>6
  <2>4. \A m \in D \cup {y} : m \in D \/ used' = y => m = n
    BY <1>1, <1>10
  <2> QED BY <1>1, <1>3, <1>6, <1>7, <1>8, <1>9, <1>10, <1>11, <2>1, <2>2, <2>3, <2>4 DEF InnerChange
<1> QED BY <1>2, <1>4, <1>12, InnerTree

\* when there are two nodes, every leaf is half full
LEMMA LeavesFilled ==
  ASSUME TreeTyped, TreeOK, used > 1, NEW m \in Allocated, heap[m].level = 0
  PROVE  Len(Keys(m)) >= Half(m)
BY DEF TreeOK, LeafOK, Half

\* a full inner node is split
LEMMA ClimbSplitTree ==
  ASSUME IInv, NEW t \in Threads, ClimbSplit(t)
  PROVE  TreeMoves(t)
<1> SUFFICES ASSUME NEW n, n = Top(t).node, NEW y, y = used + 1, NEW D, D = {n}
             PROVE  TreeMoves(t)
  OBVIOUS
<1> DEFINE h == Halves(heap[n], Top(t).slot, carry[t])
           C == ChildSet(heap[n]) \cup {carry[t].node}
           l == heap[n].level
<1>1. /\ pc[t] = "climb" /\ carry[t] # NoChild /\ n # Tree /\ InnerFull(n) /\ used < MaxNodes
      /\ heap' = [heap EXCEPT ![n] = h.left, ![y] = h.right] /\ used' = y /\ root' = root
      /\ head' = head /\ tail' = tail
  BY DEF ClimbSplit
<1>2. TypeOK /\ TreeTyped /\ TreeOK
  BY Parts
<1>3. /\ n \in Allocated /\ n \in Nodes /\ heap[n].level > 0 /\ InnerOK(n) /\ heap[n] \in NodeType
      /\ heap[n].level = heap[carry[t].node].level + 1
      /\ Top(t).slot \in 0 .. Len(heap[n].keys) /\ Len(heap[n].keys) = InnerSlots
      /\ Len(heap[n].child) = InnerSlots + 1 /\ carry[t].node # n
  BY <1>1, TopFacts DEF InnerFull
<1>4. carry[t].node \in Allocated /\ carry[t] \in [key : Nat, node : Nodes] /\ root # Null
      /\ n \in Mine(t)
  BY <1>1, ClimbFacts
<1>5. /\ used \in Nat /\ used + 1 <= MaxNodes /\ y \in Nodes /\ y \notin Allocated /\ n # y
      /\ Allocated \subseteq Nodes /\ Allocated' = Allocated \cup {y} /\ y # used
      /\ used > 1
  BY <1>1, <1>2, <1>3, <1>4, InUse, Constants, SMTT(30) DEF Allocated
<1>6. Filled(h.left, l, C) /\ Filled(h.right, l, C)
  <2> DEFINE x == heap[n]
             s == Top(t).slot
             up == carry[t]
  <2>1. /\ x \in NodeType /\ Len(x.keys) = InnerSlots /\ Len(x.child) = InnerSlots + 1
        /\ s \in 0 .. InnerSlots /\ up \in [key : Nat, node : Nodes]
    BY <1>3, <1>4
  <2> HIDE DEF x, s, up
  <2>2. LET z == Halves(x, s, up)
            c == ChildSet(x) \cup {up.node}
        IN Filled(z.left, x.level, c) /\ Filled(z.right, x.level, c)
    BY <2>1, SplitNode
  <2> QED BY <2>2 DEF x, s, up
<1> HIDE DEF h
<1>7. /\ heap' \in [Nodes -> NodeType]
      /\ heap'[n] = h.left /\ heap'[y] = h.right
      /\ \A m \in Nodes : m # n /\ m # y => heap'[m] = heap[m]
  BY <1>1, <1>2, <1>3, <1>5, <1>6 DEF TreeTyped, Filled
<1>8. \A m \in C : m \in Allocated' /\ heap'[m].level = l - 1
  <2> SUFFICES ASSUME NEW m \in C PROVE m \in Allocated' /\ heap'[m].level = l - 1
    OBVIOUS
  <2>1. m \in Allocated /\ heap[m].level = l - 1
    <3>1. CASE m \in ChildSet(heap[n])
      BY <1>3, <3>1 DEF ChildSet, InnerOK
    <3>2. CASE m = carry[t].node
      <4>1. heap[m].level \in Int
        BY <1>2, <1>4, <1>5, <3>2, NodeFacts
      <4> QED BY <1>3, <1>4, <3>2, <4>1
    <3> QED BY <3>1, <3>2
  <2>2. l \in Int
    BY <1>2, <1>3, NodeFacts
  <2>4. m # n
    <3> HIDE DEF C
    <3>1. heap[m].level # heap[n].level
      BY <2>1, <2>2
    <3> QED BY <3>1
  <2>3. heap'[m] = heap[m]
    BY <1>5, <1>7, <2>1, <2>4
  <2> QED BY <1>5, <2>1, <2>3
<1>9. ASSUME NEW m \in {n, y}
      PROVE  /\ heap'[m].level = l /\ Len(heap'[m].child) = Len(Keys(m)') + 1
             /\ Len(Keys(m)') <= InnerSlots /\ Len(Keys(m)') >= InnerSlots \div 2
             /\ ChildSet(heap'[m]) \subseteq {x \in Allocated' : heap'[x].level = heap'[m].level - 1}
  <2>1. Filled(heap'[m], l, C) /\ Keys(m)' = heap'[m].keys
    BY <1>6, <1>7 DEF Keys
  <2> QED BY <1>8, <2>1 DEF Filled
<1>10. Half(n) = InnerSlots \div 2
  BY <1>3 DEF Half
<1>11. l \in 1 .. used
  <2>1. l \in 0 .. used - 1
    BY <1>2, <1>3 DEF TreeOK
  <2>2. l > 0
    BY <1>3
  <2> HIDE DEF l
  <2> QED BY <1>5, <2>1, <2>2
<1>12. InnerChange(t, D, y)
  <2>1. \A m \in D : m = n
    OBVIOUS
  <2>2. D \subseteq Allocated \cap Mine(t)
    BY <1>3, <1>4
  <2>3. \A m \in Nodes : m \notin D /\ (m # y \/ used' = used) => heap'[m] = heap[m]
    BY <1>1, <1>5, <1>7
  <2>4. \A m \in D \cup {y} : m \in {n, y}
    OBVIOUS
  <2>5. \A m \in Allocated : heap[m].level = 0 => Len(Keys(m)) >= Half(m)
    BY <1>2, <1>5, LeavesFilled
  <2>6. /\ heap'[y].level \in 1 .. used /\ Len(Keys(y)') >= InnerSlots \div 2
    BY <1>9, <1>11
  <2>7. Len(Keys(n)') >= Half(n) /\ heap'[n].level = heap[n].level
    BY <1>9, <1>10
  <2>8. \A m \in D \cup {y} : /\ Len(heap'[m].child) = Len(Keys(m)') + 1 /\ Len(Keys(m)') <= InnerSlots
                              /\ ChildSet(heap'[m]) \subseteq {x \in Allocated' : heap'[x].level = heap'[m].level - 1}
    BY <1>9, <2>4
  <2> QED BY <1>1, <1>3, <1>5, <1>7, <2>1, <2>2, <2>3, <2>5, <2>6, <2>7, <2>8 DEF InnerChange
<1> QED BY <1>2, <1>4, <1>12, InnerTree

\* a new root over the two halves of the old one
LEMMA NewRootTree ==
  ASSUME IInv, NEW t \in Threads, NewRoot(t)
  PROVE  TreeMoves(t)
<1> SUFFICES ASSUME NEW y, y = used + 1
             PROVE  TreeMoves(t)
  OBVIOUS
<1> DEFINE new == [Blank EXCEPT !.level = heap[root].level + 1, !.keys = <<carry[t].key>>,
                                !.child = <<root, carry[t].node>>]
           l == heap[root].level
<1>1. /\ pc[t] = "climb" /\ carry[t] # NoChild /\ Top(t).node = Tree /\ used < MaxNodes
      /\ heap' = [heap EXCEPT ![y] = new] /\ used' = y /\ root' = y
      /\ head' = head /\ tail' = tail
  BY DEF NewRoot
<1>2. TypeOK /\ TreeTyped /\ TreeOK /\ CarryOK(t)
  BY Parts
<1>3. /\ carry[t].node \in Allocated /\ carry[t] \in [key : Nat, node : Nodes] /\ root # Null
      /\ Tree \in Mine(t)
  BY <1>1, ClimbFacts
<1>4. heap[carry[t].node].level = l /\ Len(Keys(root)) >= Half(root)
  BY <1>1, <1>2 DEF CarryOK
<1>5. /\ used \in Nat /\ used + 1 <= MaxNodes /\ y \in Nodes /\ y \notin Allocated /\ y \in Int
      /\ Allocated \subseteq Nodes /\ Allocated' = Allocated \cup {y} /\ y # used
      /\ root \in Allocated /\ used >= 1
  BY <1>1, <1>2, <1>3, InUse, Constants DEF Allocated, TreeTyped
<1>6. l \in 0 .. used - 1
  BY <1>2, <1>5 DEF TreeOK
<1>7. Blank \in NodeType
  <2>1. -1 \in -1 .. MaxNodes /\ <<>> \in Seq(Nat) /\ <<>> \in Seq(Nodes)
    BY Constants
  <2> QED BY <2>1 DEF Blank, NodeType
<1>8. /\ new \in NodeType /\ new.level = l + 1 /\ new.keys = <<carry[t].key>>
      /\ new.child = <<root, carry[t].node>>
  <2>1. l + 1 \in -1 .. MaxNodes
    BY <1>5, <1>6, Constants
  <2>2. <<carry[t].key>> \in Seq(Nat)
    BY <1>3
  <2>3. root \in Nodes /\ carry[t].node \in Nodes
    BY <1>3, <1>5
  <2>4. <<root, carry[t].node>> \in Seq(Nodes)
    BY <2>3
  <2> DEFINE a == l + 1
             b == <<carry[t].key>>
             c == <<root, carry[t].node>>
  <2>5. a \in -1 .. MaxNodes /\ b \in Seq(Nat) /\ c \in Seq(Nodes)
    BY <2>1, <2>2, <2>4
  <2>6. new = [Blank EXCEPT !.level = a, !.keys = b, !.child = c]
    OBVIOUS
  <2> HIDE DEF a, b, c, new
  <2>7. new \in NodeType /\ new.level = a /\ new.keys = b /\ new.child = c
    BY <1>7, <2>5, <2>6 DEF NodeType
  <2> QED BY <2>7 DEF a, b, c
<1>9. /\ Len(new.keys) = 1 /\ Len(new.child) = 2
      /\ ChildSet(new) = {root, carry[t].node}
  <2>1. Len(<<carry[t].key>>) = 1 /\ Len(<<root, carry[t].node>>) = 2
    OBVIOUS
  <2>2. {<<root, carry[t].node>>[i] : i \in 1 .. 2} = {root, carry[t].node}
    OBVIOUS
  <2> QED BY <1>8, <2>1, <2>2 DEF ChildSet
<1> HIDE DEF new
<1>10. /\ heap' \in [Nodes -> NodeType] /\ heap'[y] = new /\ Keys(y)' = new.keys
       /\ \A m \in Nodes : m # y => heap'[m] = heap[m]
  BY <1>1, <1>2, <1>5, <1>8 DEF TreeTyped, Keys
<1>11. ChildSet(heap'[y]) \subseteq {x \in Allocated' : heap'[x].level = heap'[y].level - 1}
  <2>1. heap'[root] = heap[root] /\ heap'[carry[t].node] = heap[carry[t].node]
    BY <1>3, <1>5, <1>10
  <2>2. heap'[y].level - 1 = l
    BY <1>6, <1>8, <1>10
  <2> QED BY <1>3, <1>4, <1>5, <1>9, <1>10, <2>1, <2>2
<1>12. ASSUME NEW m \in Allocated, heap[m].level = 0 PROVE Len(Keys(m)) >= Half(m)
  <2>1. CASE used > 1
    BY <1>2, <1>12, <2>1, LeavesFilled
  <2>2. CASE used = 1
    <3>1. m = root
      BY <1>2, <1>5, <2>2, InUse
    <3> QED BY <1>4, <3>1
  <2> QED BY <1>5, <2>1, <2>2
<1>13. \A D : D = {} => InnerChange(t, D, y)
  <2> SUFFICES ASSUME NEW D, D = {} PROVE InnerChange(t, D, y)
    OBVIOUS
  <2>1. \A m \in D \cup {y} : m = y
    OBVIOUS
  <2>2. heap'[y].level \in 1 .. used
    BY <1>5, <1>6, <1>8, <1>10
  <2>3. Len(heap'[y].child) = Len(Keys(y)') + 1 /\ Len(Keys(y)') <= InnerSlots
    <3>1. Len(heap'[y].child) = 2 /\ Len(Keys(y)') = 1
      BY <1>9, <1>10
    <3>2. InnerSlots \in Nat /\ InnerSlots > 1
      BY Constants
    <3> DEFINE a == Len(heap'[y].child)
               b == Len(Keys(y)')
    <3>3. a = 2 /\ b = 1
      BY <3>1
    <3> HIDE DEF a, b
    <3>4. a = b + 1 /\ b <= InnerSlots
      BY <3>2, <3>3
    <3> QED BY <3>4 DEF a, b
  <2>4. \A m \in Nodes : m \notin D /\ (m # y \/ used' = used) => heap'[m] = heap[m]
    BY <1>1, <1>5, <1>10
  <2> QED BY <1>1, <1>3, <1>4, <1>5, <1>10, <1>11, <1>12, <2>1, <2>2, <2>3, <2>4 DEF InnerChange
<1> QED BY <1>2, <1>3, <1>13, InnerTree

\* the slots from a to b of a leaf, with another leaf behind it or in front of it
PartBefore(x, a, b, u) == [x EXCEPT !.keys = SubSeq(@, a, b), !.vals = SubSeq(@, a, b), !.next = u]
PartBehind(x, a, b, u) == [x EXCEPT !.keys = SubSeq(@, a, b), !.vals = SubSeq(@, a, b), !.prev = u]

\* the first part of a leaf, with a new leaf behind it
LEMMA LeafBefore ==
  ASSUME NEW x \in NodeType, Len(x.vals) = Len(x.keys), NEW a \in Int, NEW b \in Int,
         1 <= a, a <= b, b <= Len(x.keys), NEW u \in Nodes \cup {Null}
  PROVE  LET new == PartBefore(x, a, b, u) IN
         /\ new \in NodeType /\ new.level = x.level /\ Len(new.keys) = b - a + 1
         /\ Len(new.vals) = b - a + 1 /\ new.next = u /\ new.prev = x.prev
<1> DEFINE p == x.keys
           q == x.vals
<1>1. p \in Seq(Nat) /\ q \in Seq(Nat) /\ b <= Len(p) /\ b <= Len(q)
  BY DEF NodeType
<1>2. SubSeq(p, a, b) \in Seq(Nat) /\ Len(SubSeq(p, a, b)) = b - a + 1
  <2> HIDE DEF p, q
  <2>1. SubSeq(p, a, b) \in Seq(Nat) /\ Len(SubSeq(p, a, b)) = IF a <= b THEN b - a + 1 ELSE 0
    BY <1>1, Part
  <2> QED BY <2>1
<1>3. SubSeq(q, a, b) \in Seq(Nat) /\ Len(SubSeq(q, a, b)) = b - a + 1
  <2> HIDE DEF p, q
  <2>1. SubSeq(q, a, b) \in Seq(Nat) /\ Len(SubSeq(q, a, b)) = IF a <= b THEN b - a + 1 ELSE 0
    BY <1>1, Part
  <2> QED BY <2>1
<1> QED BY <1>2, <1>3 DEF NodeType, PartBefore

\* the second part of a leaf, with the first in front of it
LEMMA LeafBehind ==
  ASSUME NEW x \in NodeType, Len(x.vals) = Len(x.keys), NEW a \in Int, NEW b \in Int,
         1 <= a, a <= b, b <= Len(x.keys), NEW u \in Nodes \cup {Null}
  PROVE  LET new == PartBehind(x, a, b, u) IN
         /\ new \in NodeType /\ new.level = x.level /\ Len(new.keys) = b - a + 1
         /\ Len(new.vals) = b - a + 1 /\ new.next = x.next /\ new.prev = u
<1> DEFINE p == x.keys
           q == x.vals
<1>1. p \in Seq(Nat) /\ q \in Seq(Nat) /\ b <= Len(p) /\ b <= Len(q)
  BY DEF NodeType
<1>2. SubSeq(p, a, b) \in Seq(Nat) /\ Len(SubSeq(p, a, b)) = b - a + 1
  <2> HIDE DEF p, q
  <2>1. SubSeq(p, a, b) \in Seq(Nat) /\ Len(SubSeq(p, a, b)) = IF a <= b THEN b - a + 1 ELSE 0
    BY <1>1, Part
  <2> QED BY <2>1
<1>3. SubSeq(q, a, b) \in Seq(Nat) /\ Len(SubSeq(q, a, b)) = b - a + 1
  <2> HIDE DEF p, q
  <2>1. SubSeq(q, a, b) \in Seq(Nat) /\ Len(SubSeq(q, a, b)) = IF a <= b THEN b - a + 1 ELSE 0
    BY <1>1, Part
  <2> QED BY <2>1
<1> QED BY <1>2, <1>3 DEF NodeType, PartBehind

\* a thread at a leaf is at a node in use
LEMMA AtLeaf ==
  ASSUME TreeTyped, TreeOK, NEW t \in Threads, InLeaf(t)
  PROVE  /\ at[t] \in Allocated /\ at[t] \in Nodes /\ LeafOK(at[t]) /\ heap[at[t]].level = 0
         /\ heap[at[t]] \in NodeType /\ IsLeaf(at[t]) /\ pc[t] = "visit" /\ at[t] # Tree
         /\ (mode[t] # "read" /\ TypeOK) => at[t] \in Mine(t)
<1>1. at[t] \in Nodes /\ heap[at[t]].level = 0 /\ IsLeaf(at[t]) /\ pc[t] = "visit"
  BY DEF InLeaf, IsLeaf
<1>2. at[t] \in Allocated
  BY <1>1 DEF TreeOK, Blank
<1>3. LeafOK(at[t])
  BY <1>1, <1>2 DEF TreeOK
<1>4. mode[t] # "read" /\ TypeOK => at[t] \in Mine(t)
  BY <1>1 DEF Own, Mine, ForWriting, TypeOK
<1> QED BY <1>1, <1>2, <1>3, <1>4, NodeFacts, Constants

\* a leaf that is split
LEMMA SureSplitTree ==
  ASSUME IInv, NEW t \in Threads, SureSplit(t)
  PROVE  TreeMoves(t)
<1> SUFFICES ASSUME NEW n, n = at[t], NEW y, y = used + 1, NEW z, z = heap[n].next,
                    NEW s, s = SlotIn(n, K(t))
             PROVE  TreeMoves(t)
  OBVIOUS
<1> DEFINE mid == LeafSlots \div 2
           x == heap[n]
           v == call[t].arg
           left == [x EXCEPT !.keys = SubSeq(@, 1, mid), !.vals = SubSeq(@, 1, mid), !.next = y]
           right == [x EXCEPT !.keys = SubSeq(@, mid + 1, LeafSlots),
                              !.vals = SubSeq(@, mid + 1, LeafSlots), !.prev = n]
           L == IF s < mid THEN WithItem(left, s, K(t), v) ELSE left
           R == IF s < mid THEN right ELSE WithItem(right, s - mid, K(t), v)
<1>1. /\ InLeaf(t) /\ mode[t] = "sure" /\ LeafFull(n) /\ used < MaxNodes
      /\ heap' = [Relinked(n, y) EXCEPT ![n] = L, ![y] = R] /\ used' = y
      /\ tail' = (IF z = Null THEN y ELSE tail) /\ root' = root /\ head' = head
  BY DEF SureSplit, Inserting
<1>2. TypeOK /\ TreeTyped /\ TreeOK
  BY Parts
<1>3. /\ n \in Allocated /\ n \in Nodes /\ LeafOK(n) /\ x.level = 0 /\ x \in NodeType /\ n \in Mine(t)
      /\ Len(x.keys) = LeafSlots /\ Len(x.vals) = Len(x.keys)
  BY <1>1, <1>2, AtLeaf DEF LeafFull, LeafOK, Keys
<1>4. /\ used \in Nat /\ y <= MaxNodes /\ y \in Nodes /\ y \notin Allocated /\ n # y
      /\ Allocated \subseteq Nodes /\ Allocated' = Allocated \cup {y} /\ y # used
      /\ used >= 1 /\ Null \notin Allocated' /\ y # Null
      /\ \A m \in Allocated : m # n => used > 1
  <2>1. /\ used \in Nat /\ used <= MaxNodes /\ Allocated \subseteq Nodes /\ MaxNodes \in Nat
        /\ n \in Int /\ 1 <= n /\ n <= used
    BY <1>2, <1>3, InUse, Constants
  <2>2. y <= MaxNodes /\ y \in Nodes /\ y \notin Allocated /\ y # used /\ used >= 1 /\ y # Null /\ n # y
    BY <1>1, <2>1 DEF Allocated, Nodes, Null
  <2>3. Allocated' = Allocated \cup {y} /\ Null \notin Allocated'
    BY <1>1, <2>1 DEF Allocated, Null
  <2>4. \A m \in Allocated : m # n => used > 1
    BY <2>1 DEF Allocated
  <2> QED BY <2>1, <2>2, <2>3, <2>4
<1>5. /\ mid \in Int /\ 1 <= mid /\ mid <= LeafSlots - 1 /\ LeafSlots - mid >= mid /\ LeafSlots \in Int
      /\ mid + 1 <= LeafSlots
  BY Constants
<1> HIDE DEF mid
<1>6. /\ K(t) \in Nat /\ v \in Nat /\ s \in 0 .. LeafSlots
  BY <1>2, <1>3, CallFacts, NodeFacts DEF Keys
<1>7. /\ left \in NodeType /\ left.level = 0 /\ Len(left.keys) = mid /\ Len(left.vals) = mid
      /\ left.next = y /\ left.prev = x.prev
  <2> HIDE DEF x
  <2>1. /\ mid <= Len(x.keys) /\ mid - 1 + 1 = mid /\ 1 \in Int /\ 1 <= 1 /\ y \in Nodes \cup {Null}
        /\ x \in NodeType /\ Len(x.vals) = Len(x.keys) /\ mid \in Int /\ 1 <= mid
    BY <1>3, <1>4, <1>5
  <2>2. LET q == PartBefore(x, 1, mid, y)
        IN /\ q \in NodeType /\ q.level = x.level /\ Len(q.keys) = mid - 1 + 1
           /\ Len(q.vals) = mid - 1 + 1 /\ q.next = y /\ q.prev = x.prev
    <3> DEFINE one == 1
    <3>1. /\ mid <= Len(x.keys) /\ one \in Int /\ 1 <= one /\ one <= mid /\ y \in Nodes \cup {Null}
          /\ x \in NodeType /\ Len(x.vals) = Len(x.keys) /\ mid \in Int
      BY <2>1
    <3> HIDE DEF L, R, left, right, one
    <3>2. LET q == PartBefore(x, one, mid, y)
          IN /\ q \in NodeType /\ q.level = x.level /\ Len(q.keys) = mid - one + 1
             /\ Len(q.vals) = mid - one + 1 /\ q.next = y /\ q.prev = x.prev
      BY <3>1, LeafBefore
    <3> QED BY <3>2 DEF one
  <2>3. left = PartBefore(x, 1, mid, y)
    BY DEF PartBefore
  <2> QED BY <1>3, <2>1, <2>2, <2>3
<1>8. /\ right \in NodeType /\ right.level = 0 /\ Len(right.keys) = LeafSlots - mid
      /\ Len(right.vals) = LeafSlots - mid /\ right.next = z /\ right.prev = n
  <2>0. x.next = z
    OBVIOUS
  <2> DEFINE a == mid + 1
  <2>1. a \in Int /\ 1 <= a /\ a <= LeafSlots /\ LeafSlots <= Len(x.keys) /\ LeafSlots - a + 1 = LeafSlots - mid
    BY <1>3, <1>5
  <2> HIDE DEF x, a
  <2>2. LET r == PartBehind(x, a, LeafSlots, n)
        IN /\ r \in NodeType /\ r.level = x.level /\ Len(r.keys) = LeafSlots - a + 1
           /\ Len(r.vals) = LeafSlots - a + 1 /\ r.next = x.next /\ r.prev = n
    <3>1. n \in Nodes \cup {Null} /\ x \in NodeType /\ Len(x.vals) = Len(x.keys) /\ LeafSlots \in Int
      BY <1>3, <1>5
    <3>2. a \in Int /\ 1 <= a /\ a <= LeafSlots /\ LeafSlots <= Len(x.keys)
      BY <2>1
    <3> HIDE DEF L, R, left, right
    <3> QED BY <3>1, <3>2, LeafBehind
  <2>3. right = PartBehind(x, a, LeafSlots, n)
    BY DEF PartBehind, a
  <2> HIDE DEF right
  <2> QED BY <1>3, <2>0, <2>1, <2>2, <2>3
<1> HIDE DEF x, v, left, right
<1>9. /\ L \in NodeType /\ L.level = 0 /\ Len(L.keys) >= mid /\ Len(L.keys) <= LeafSlots
      /\ Len(L.vals) = Len(L.keys) /\ L.next = y /\ L.prev = x.prev
  <2>1. CASE s < mid
    <3> DEFINE r == s
    <3>1. /\ r \in 0 .. Len(left.keys) /\ Len(left.vals) = Len(left.keys) /\ left \in NodeType
          /\ K(t) \in Nat /\ v \in Nat
      BY <1>5, <1>6, <1>7, <2>1
    <3>4. L = WithItem(left, r, K(t), v)
      BY <2>1
    <3> HIDE DEF r, L, R
    <3>2. LET q == WithItem(left, r, K(t), v) IN
          /\ q \in NodeType /\ Len(q.keys) = Len(left.keys) + 1 /\ Len(q.vals) = Len(left.keys) + 1
          /\ q.level = left.level /\ q.next = left.next /\ q.prev = left.prev
      BY <3>1, ItemNode
    <3>3. mid + 1 >= mid /\ mid + 1 <= LeafSlots
      BY <1>5
    <3> QED BY <1>7, <3>2, <3>3, <3>4
  <2>2. CASE ~(s < mid)
    <3>1. mid >= mid /\ mid <= LeafSlots
      BY <1>5
    <3> QED BY <1>7, <2>2, <3>1
  <2> QED BY <2>1, <2>2
<1>10. /\ R \in NodeType /\ R.level = 0 /\ Len(R.keys) >= mid /\ Len(R.keys) <= LeafSlots
       /\ Len(R.vals) = Len(R.keys) /\ R.next = z /\ R.prev = n
  <2>1. CASE s < mid
    <3>1. LeafSlots - mid >= mid /\ LeafSlots - mid <= LeafSlots
      BY <1>5
    <3> QED BY <1>8, <2>1, <3>1
  <2>2. CASE ~(s < mid)
    <3> DEFINE r == s - mid
    <3>1. r \in 0 .. Len(right.keys) /\ Len(right.vals) = Len(right.keys)
      BY <1>5, <1>6, <1>8, <2>2
    <3> HIDE DEF r
    <3>2. LET q == WithItem(right, r, K(t), v) IN
          /\ q \in NodeType /\ Len(q.keys) = Len(right.keys) + 1 /\ Len(q.vals) = Len(right.keys) + 1
          /\ q.level = right.level /\ q.next = right.next /\ q.prev = right.prev
      BY <1>6, <1>8, <3>1, ItemNode
    <3>3. LeafSlots - mid + 1 >= mid /\ LeafSlots - mid + 1 <= LeafSlots
      BY <1>5
    <3>4. R = WithItem(right, r, K(t), v)
      BY <2>2 DEF r
    <3> HIDE DEF R
    <3> QED BY <1>8, <3>2, <3>3, <3>4
  <2> QED BY <2>1, <2>2
<1> HIDE DEF L, R
<1>11. /\ z # Null => z \in Allocated \ {n} /\ heap[z].level = 0 /\ heap[z].prev = n
       /\ z = Null => tail = n
       /\ z \in Nodes \cup {Null} /\ x.next = z
  BY <1>2, <1>3, NodeFacts DEF LeafOK, x
<1>12. /\ heap' \in [Nodes -> NodeType] /\ heap'[n] = L /\ heap'[y] = R
       /\ z # Null => heap'[z] = [heap[z] EXCEPT !.prev = y]
       /\ \A m \in Nodes : m # n /\ m # y /\ m # z => heap'[m] = heap[m]
  <2>1. Relinked(n, y) \in [Nodes -> NodeType]
    <3>1. \A m \in Nodes : heap[m] \in NodeType /\ [heap[m] EXCEPT !.prev = y] \in NodeType
      <4> SUFFICES ASSUME NEW m \in Nodes
                   PROVE  heap[m] \in NodeType /\ [heap[m] EXCEPT !.prev = y] \in NodeType
        OBVIOUS
      <4> DEFINE w == heap[m]
      <4>1. w \in NodeType
        BY <1>2 DEF TreeTyped
      <4> HIDE DEF w
      <4>2. [w EXCEPT !.prev = y] \in NodeType
        BY <1>4, <4>1 DEF NodeType
      <4> QED BY <4>1, <4>2 DEF w
    <3> QED BY <3>1 DEF Relinked
  <2>2. \A m \in Nodes : Relinked(n, y)[m] = IF m = z THEN [heap[m] EXCEPT !.prev = y] ELSE heap[m]
    BY DEF Relinked
  <2>3. z # Null => z \in Nodes /\ z # n /\ z # y
    BY <1>4, <1>11
  <2> QED BY <1>1, <1>3, <1>4, <1>9, <1>10, <2>1, <2>2, <2>3
<1>13. z # Null => /\ heap'[z].level = 0 /\ heap'[z].next = heap[z].next /\ heap'[z].prev = y
                   /\ heap'[z].keys = heap[z].keys /\ heap'[z].vals = heap[z].vals
                   /\ heap'[z].child = heap[z].child
  <2> SUFFICES ASSUME z # Null
               PROVE  /\ heap'[z].level = 0 /\ heap'[z].next = heap[z].next /\ heap'[z].prev = y
                      /\ heap'[z].keys = heap[z].keys /\ heap'[z].vals = heap[z].vals
                      /\ heap'[z].child = heap[z].child
    OBVIOUS
  <2> DEFINE w == heap[z]
  <2>1. w \in NodeType /\ w.level = 0 /\ heap'[z] = [w EXCEPT !.prev = y]
    BY <1>2, <1>4, <1>11, <1>12, NodeFacts
  <2> HIDE DEF w
  <2>2. /\ heap'[z].level = 0 /\ heap'[z].next = w.next /\ heap'[z].prev = y
        /\ heap'[z].keys = w.keys /\ heap'[z].vals = w.vals /\ heap'[z].child = w.child
    BY <2>1 DEF NodeType
  <2> QED BY <2>2 DEF w
<1>14. ASSUME NEW m \in Allocated
       PROVE  /\ heap'[m].level = heap[m].level /\ m # y /\ m # Null /\ heap[m].level \in 0 .. used - 1
              /\ m # n => Same(m) /\ Keys(m)' = Keys(m)
              /\ m # z => heap'[m].prev = heap[m].prev
  <2>0. m \in Nodes /\ m # y /\ m # Null /\ heap[m].level \in 0 .. used - 1
    BY <1>2, <1>4 DEF TreeOK
  <2>1. CASE m = n
    BY <1>3, <1>9, <1>12, <2>0, <2>1 DEF x
  <2>2. CASE m # n /\ m = z
    BY <1>11, <1>13, <2>0, <2>2 DEF Same, Keys
  <2>3. CASE m # n /\ m # z
    BY <1>12, <2>0, <2>3 DEF Same, Keys
  <2> QED BY <2>1, <2>2, <2>3
<1>15. ASSUME NEW m \in Allocated, heap[m].level = 0, m # n PROVE LeafOK(m)'
  <2>1. LeafOK(m) /\ Same(m) /\ Keys(m)' = Keys(m) /\ m # y /\ m # Null
    BY <1>2, <1>14, <1>15 DEF TreeOK
  <2>2. /\ Len(heap'[m].vals) = Len(Keys(m)') /\ Len(Keys(m)') <= LeafSlots
        /\ Len(Keys(m)') >= LeafSlots \div 2
    BY <1>4, <1>15, <2>1 DEF LeafOK, Same
  <2>3. IF heap'[m].next = Null THEN tail' = m
        ELSE /\ heap'[m].next \in Allocated' \ {m}
             /\ heap'[heap'[m].next].level = 0 /\ heap'[heap'[m].next].prev = m
    <3>1. heap'[m].next = heap[m].next
      BY <2>1 DEF Same
    <3>2. CASE heap[m].next = Null
      BY <1>1, <1>11, <1>15, <2>1, <3>1, <3>2 DEF LeafOK
    <3>3. CASE heap[m].next # Null
      <4>1. /\ heap[m].next \in Allocated \ {m} /\ heap[heap[m].next].level = 0
            /\ heap[heap[m].next].prev = m
        BY <2>1, <3>3 DEF LeafOK
      <4>2. heap[m].next # z
        BY <1>11, <1>15, <3>3, <4>1
      <4>3. heap'[heap[m].next].level = 0 /\ heap'[heap[m].next].prev = m
        BY <1>14, <4>1, <4>2
      <4> QED BY <1>4, <3>1, <3>3, <4>1, <4>3
    <3> QED BY <3>2, <3>3
  <2>4. (heap'[m].prev = Null) <=> (head' = m)
    <3>1. CASE m = z
      BY <1>1, <1>4, <1>11, <1>13, <2>1, <3>1, <1>3, <1>14 DEF LeafOK
    <3>2. CASE m # z
      BY <1>1, <1>14, <2>1, <3>2 DEF LeafOK
    <3> QED BY <3>1, <3>2
  <2> QED BY <2>2, <2>3, <2>4 DEF LeafOK
<1> USE DEF mid
<1>16. LeafOK(n)' /\ heap'[n].level = 0 /\ Len(Keys(n)') >= mid
  <2>1. heap'[n] = L /\ Keys(n)' = L.keys
    BY <1>12 DEF Keys
  <2>2. (heap'[n].prev = Null) <=> (head' = n)
    BY <1>1, <1>3, <1>9, <2>1 DEF LeafOK, x
  <2>3. L.next # Null /\ L.next \in Allocated' \ {n} /\ heap'[L.next].level = 0 /\ heap'[L.next].prev = n
    BY <1>4, <1>9, <1>10, <1>12
  <2> QED BY <1>9, <2>1, <2>2, <2>3 DEF LeafOK
<1>17. LeafOK(y)' /\ heap'[y].level = 0
  <2>1. heap'[y] = R /\ Keys(y)' = R.keys
    BY <1>12 DEF Keys
  <2>2. (heap'[y].prev = Null) <=> (head' = y)
    BY <1>1, <1>2, <1>3, <1>4, <1>10, <1>14, <2>1 DEF TreeTyped
  <2>3. IF R.next = Null THEN tail' = y
        ELSE /\ R.next \in Allocated' \ {y} /\ heap'[R.next].level = 0 /\ heap'[R.next].prev = y
    BY <1>1, <1>4, <1>10, <1>11, <1>13
  <2> QED BY <1>10, <2>1, <2>2, <2>3 DEF LeafOK
<1>18. ASSUME NEW m \in Allocated, heap[m].level > 0 PROVE InnerOK(m)'
  <2>1. InnerOK(m) /\ Same(m) /\ Keys(m)' = Keys(m) /\ heap'[m].level = heap[m].level
    BY <1>2, <1>3, <1>14, <1>18 DEF TreeOK, x
  <2>2. heap'[m].child = heap[m].child
    BY <2>1 DEF Same
  <2>3. ASSUME NEW i \in 1 .. Len(heap[m].child)
        PROVE  heap[m].child[i] \in Allocated' /\ heap'[heap[m].child[i]].level = heap[m].level - 1
    BY <1>4, <1>14, <2>1 DEF InnerOK
  <2> QED BY <1>1, <2>1, <2>2, <2>3 DEF InnerOK
<1>19. root \in Allocated /\ head \in Allocated /\ tail' \in Allocated' \cup {Null}
  BY <1>1, <1>2, <1>4 DEF TreeTyped, TreeOK
<1>20. TreeTyped'
  BY <1>1, <1>4, <1>12, <1>19, Constants DEF TreeTyped
<1>21. TreeOK'
  <2>1. ASSUME NEW m \in Nodes \ Allocated' PROVE heap'[m] = Blank
    <3>1. m \notin Allocated /\ m # y /\ m # n /\ m # z
      BY <1>3, <1>4, <1>11, Constants
    <3> QED BY <1>2, <1>12, <3>1 DEF TreeOK
  <2>2. ASSUME NEW m \in Allocated'
        PROVE  /\ heap'[m].level \in 0 .. used' - 1
               /\ (heap'[m].level = 0 => LeafOK(m)')
               /\ (heap'[m].level > 0 => InnerOK(m)')
    <3>1. CASE m = y
      BY <1>1, <1>4, <1>17, <3>1
    <3>2. CASE m = n
      BY <1>1, <1>4, <1>16, <3>2
    <3>3. CASE m \in Allocated /\ m # n
      BY <1>1, <1>4, <1>14, <1>15, <1>18, <3>3
    <3> QED BY <1>4, <3>1, <3>2, <3>3
  <2>3. used' # 0 /\ root' # Null /\ head' # Null
    BY <1>1, <1>4, <1>14, <1>19
  <2> QED BY <2>1, <2>2, <2>3 DEF TreeOK
<1>22. TreeStep(t)
  <2>1. ASSUME NEW m \in Allocated
        PROVE  /\ heap'[m].level = heap[m].level
               /\ m \notin Mine(t) => Same(m)
               /\ Len(Keys(m)) >= Half(m) => Len(Keys(m)') >= Half(m)
    <3>1. CASE m = n
      <4>1. Half(n) = mid
        BY <1>3 DEF Half, x
      <4> QED BY <1>3, <1>14, <1>16, <3>1, <4>1
    <3>2. CASE m # n
      BY <1>14, <3>2
    <3> QED BY <3>1, <3>2
  <2>2. used' \in Nat /\ used <= used'
    BY <1>1, <1>4
  <2> QED BY <1>1, <2>1, <2>2 DEF TreeStep
<1> QED BY <1>20, <1>21, <1>22 DEF TreeMoves

\* what each step of a thread does to the tree
LEMMA StepTree ==
  ASSUME IInv, NEW t \in Threads, Step(t)
  PROVE  TreeMoves(t)
<1>1. TypeOK /\ TreeTyped /\ TreeOK
  BY Parts
<1>2. UNCHANGED tree => TreeMoves(t)
  BY <1>1, TreeStays
<1>3. ASSUME NEW how, how \in {"try", "sure"}, Inserting(t, how), ~LeafFull(at[t]), PutItem(t),
             UNCHANGED <<used, root, head, tail>>
      PROVE  TreeMoves(t)
  <2>1. InLeaf(t) /\ mode[t] # "read"
    BY <1>3 DEF Inserting
  <2>2. at[t] \in Allocated /\ heap[at[t]].level = 0 /\ at[t] \in Mine(t)
    BY <1>1, <2>1, AtLeaf
  <2> QED BY <1>1, <1>3, <2>2, PutItemTree
<1>4. CASE TryInsert(t)
  BY <1>3, <1>4 DEF TryInsert
<1>5. CASE SureInsert(t)
  BY <1>3, <1>5 DEF SureInsert
<1>6. CASE Start(t) \/ ScanNothing(t)
  BY <1>2, <1>6 DEF Start, ScanNothing
<1>7. CASE ReadLock(t) \/ WriteLock(t) \/ Drain(t)
  BY <1>2, <1>7 DEF ReadLock, WriteLock, Drain
<1>8. CASE EnterTree(t) \/ ReadEmpty(t) \/ TryEmpty(t)
  BY <1>2, <1>8 DEF EnterTree, ReadEmpty, TryEmpty
<1>9. CASE Descend(t) \/ DescendSure(t)
  BY <1>2, <1>9 DEF Descend, DescendSure
<1>10. CASE Lookup(t) \/ ScanOn(t) \/ ScanEnd(t)
  BY <1>2, <1>10 DEF Lookup, ScanOn, ScanEnd
<1>11. CASE TryPresent(t) \/ TryUpgrade(t) \/ TryRestart(t)
  BY <1>2, <1>11 DEF TryPresent, TryUpgrade, TryRestart
<1>12. CASE UpgradeLost(t) \/ UpgradeWon(t) \/ UpgradeDrain(t)
  BY <1>2, <1>12 DEF UpgradeLost, UpgradeWon, UpgradeDrain
<1>13. CASE SurePresent(t) \/ ClimbPast(t)
  BY <1>2, <1>13 DEF SurePresent, ClimbPast
<1> QED BY <1>1, <1>4, <1>5, <1>6, <1>7, <1>8, <1>9, <1>10, <1>11, <1>12, <1>13,
           FirstLeafTree, SureSplitTree, ClimbInsertTree, ClimbSplitTree, NewRootTree DEF Step
-------------------------------------------------------------------------------
(* Keys in order                                                           *)

Ascends(keys) == \A i, j \in 1 .. Len(keys) : i < j => keys[i] < keys[j]

\* slot s is where k belongs
Fits(keys, k, s) == /\ s \in 0 .. Len(keys)
                    /\ s > 0 => keys[s] < k
                    /\ s < Len(keys) => k <= keys[s + 1]

\* of keys in order, find_lower finds the slot where k belongs
LEMMA FitsSlot ==
  ASSUME NEW keys \in Seq(Nat), Ascends(keys), NEW k \in Nat, NEW s, Fits(keys, k, s)
  PROVE  FindLower(keys, k) = s
<1> DEFINE S == {i \in 1 .. Len(keys) : keys[i] < k}
<1>1. Len(keys) \in Nat /\ \A i \in 1 .. Len(keys) : keys[i] \in Nat
  BY ElementOfSeq
<1>2. s \in Nat /\ s <= Len(keys)
  BY <1>1 DEF Fits
<1>3. ASSUME NEW i \in 1 .. Len(keys) PROVE i <= s <=> keys[i] < k
  <2>1. CASE i <= s
    <3>1. s \in 1 .. Len(keys) /\ keys[s] < k /\ keys[s] \in Nat /\ keys[i] \in Nat
      BY <1>1, <1>2, <2>1 DEF Fits
    <3>2. i < s => keys[i] < keys[s]
      BY <3>1 DEF Ascends
    <3> QED BY <1>2, <2>1, <3>1, <3>2
  <2>2. CASE ~(i <= s)
    <3>1. s + 1 \in 1 .. Len(keys) /\ k <= keys[s + 1] /\ keys[s + 1] \in Nat /\ keys[i] \in Nat
      BY <1>1, <1>2, <2>2 DEF Fits
    <3>2. s + 1 < i => keys[s + 1] < keys[i]
      BY <3>1 DEF Ascends
    <3> QED BY <1>2, <2>2, <3>1, <3>2
  <2> QED BY <2>1, <2>2
<1>4. S = 1 .. s
  BY <1>1, <1>2, <1>3
<1>5. Cardinality(1 .. s) = s
  BY <1>2, FS_Interval
<1> QED BY <1>4, <1>5 DEF FindLower

\* and k belongs to the slot that it finds
LEMMA SlotFits ==
  ASSUME NEW keys \in Seq(Nat), Ascends(keys), NEW k \in Nat
  PROVE  Fits(keys, k, FindLower(keys, k))
<1> DEFINE S == {i \in 1 .. Len(keys) : keys[i] < k}
           s == FindLower(keys, k)
<1>1. Len(keys) \in Nat /\ \A i \in 1 .. Len(keys) : keys[i] \in Nat
  BY ElementOfSeq
<1>2. s \in 0 .. Len(keys) /\ s = Cardinality(S)
  BY LowerSlot DEF FindLower
<1>3. IsFiniteSet(S)
  <2>1. IsFiniteSet(1 .. Len(keys))
    BY <1>1, FS_Interval
  <2> QED BY <2>1, FS_Subset
<1> HIDE DEF s
<1>4. ASSUME NEW i \in S, NEW j \in 1 .. i PROVE j \in S
  <2>1. i \in 1 .. Len(keys) /\ j \in 1 .. Len(keys)
    BY <1>1
  <2>2. j < i => keys[j] < keys[i]
    BY <2>1 DEF Ascends
  <2> QED BY <1>1, <2>1, <2>2
<1>5. ASSUME NEW m \in Nat, 1 .. m \subseteq S PROVE m <= s
  <2>1. Cardinality(1 .. m) <= Cardinality(S)
    BY <1>3, <1>5, FS_Subset
  <2>2. Cardinality(1 .. m) = m
    BY FS_Interval
  <2> QED BY <1>2, <2>1, <2>2
<1>6. ASSUME NEW m \in Nat, S \subseteq 1 .. m PROVE s <= m
  <2>1. Cardinality(S) <= Cardinality(1 .. m)
    BY <1>6, FS_Subset, FS_Interval
  <2>2. Cardinality(1 .. m) = m
    BY FS_Interval
  <2> QED BY <1>2, <2>1, <2>2
<1>7. s > 0 => keys[s] < k
  <2> SUFFICES ASSUME s > 0, ~(keys[s] < k) PROVE FALSE
    OBVIOUS
  <2>1. s \notin S
    OBVIOUS
  <2>2. ASSUME NEW i \in S PROVE i < s
    <3>1. i \in Int
      OBVIOUS
    <3>2. ~(s <= i)
      <4> SUFFICES ASSUME s <= i PROVE FALSE
        OBVIOUS
      <4>1. s \in 1 .. i
        BY <1>2, <3>1
      <4> QED BY <1>4, <2>1, <4>1
    <3> QED BY <1>2, <3>1, <3>2
  <2>3. s \in Nat /\ s - 1 \in Nat
    BY <1>1, <1>2
  <2>4. ASSUME NEW i \in S PROVE i \in 1 .. s - 1
    <3>1. i < s /\ i \in Int /\ 1 <= i
      BY <2>2
    <3> QED BY <2>3, <3>1
  <2>5. s <= s - 1
    <3> HIDE DEF S
    <3>1. S \subseteq 1 .. s - 1
      BY <2>4
    <3> QED BY <1>6, <2>3, <3>1
  <2> QED BY <2>3, <2>5
<1>8. s < Len(keys) => k <= keys[s + 1]
  <2> SUFFICES ASSUME s < Len(keys), ~(k <= keys[s + 1]) PROVE FALSE
    OBVIOUS
  <2>1. s + 1 \in S
    BY <1>1, <1>2
  <2>2. 1 .. s + 1 \subseteq S
    BY <1>4, <2>1
  <2>3. s + 1 \in Nat /\ s \in Nat
    BY <1>1, <1>2
  <2>4. s + 1 <= s
    BY <1>5, <2>2, <2>3
  <2> QED BY <2>3, <2>4
<1> QED BY <1>2, <1>7, <1>8 DEF Fits, s

\* a key that is there is where it belongs
LEMMA SlotOfKey ==
  ASSUME NEW keys \in Seq(Nat), Ascends(keys), NEW i \in 1 .. Len(keys)
  PROVE  FindLower(keys, keys[i]) = i - 1
<1>1. Len(keys) \in Nat /\ \A j \in 1 .. Len(keys) : keys[j] \in Nat
  BY ElementOfSeq
<1>2. i - 1 > 0 => keys[i - 1] < keys[i]
  <2>1. i - 1 > 0 => i - 1 \in 1 .. Len(keys) /\ i - 1 < i
    BY <1>1
  <2> QED BY <2>1 DEF Ascends
<1>3. i - 1 + 1 = i
  BY <1>1
<1>4. Fits(keys, keys[i], i - 1)
  BY <1>1, <1>2, <1>3 DEF Fits
<1> QED BY <1>1, <1>4, FitsSlot

\* keys with c put between its neighbours
LEMMA OneMore ==
  ASSUME NEW keys \in Seq(Nat), Ascends(keys), NEW s \in 0 .. Len(keys), NEW c \in Nat,
         s > 0 => keys[s] < c, s < Len(keys) => c < keys[s + 1]
  PROVE  LET new == InsertAt(keys, s + 1, c) IN
         /\ new \in Seq(Nat) /\ Ascends(new)
         /\ \A k \in Nat : /\ FindLower(new, k) = FindLower(keys, k) + IF k <= c THEN 0 ELSE 1
                           /\ k <= c => FindLower(keys, k) <= s
                           /\ k > c => FindLower(keys, k) >= s
<1> DEFINE new == InsertAt(keys, s + 1, c)
<1>1. Len(keys) \in Nat /\ \A i \in 1 .. Len(keys) : keys[i] \in Nat
  BY ElementOfSeq
<1>2. s \in Nat /\ s <= Len(keys) /\ s + 1 \in 1 .. Len(keys) + 1
  BY <1>1
<1>3. /\ new \in Seq(Nat) /\ Len(new) = Len(keys) + 1
      /\ \A j \in 1 .. Len(keys) + 1 :
           new[j] = IF j < s + 1 THEN keys[j] ELSE IF j = s + 1 THEN c ELSE keys[j - 1]
  <2>1. PICK i : i = s + 1
    OBVIOUS
  <2>2. i \in 1 .. Len(keys) + 1
    BY <1>2, <2>1
  <2>3. /\ InsertAt(keys, i, c) \in Seq(Nat) /\ Len(InsertAt(keys, i, c)) = Len(keys) + 1
        /\ \A j \in 1 .. Len(keys) + 1 :
             InsertAt(keys, i, c)[j] = IF j < i THEN keys[j] ELSE IF j = i THEN c ELSE keys[j - 1]
    BY <2>2, Inserted
  <2> QED BY <2>1, <2>3
<1> HIDE DEF new
<1>4. ASSUME NEW i \in 1 .. Len(keys) PROVE /\ i <= s => keys[i] < c
                                            /\ i > s => c < keys[i]
  <2>1. i < s => keys[i] < keys[s]
    BY <1>1, <1>2 DEF Ascends
  <2>2. s + 1 < i => keys[s + 1] < keys[i]
    BY <1>1, <1>2 DEF Ascends
  <2>3. s > 0 => keys[s] \in Nat
    BY <1>1, <1>2
  <2>4. s < Len(keys) => keys[s + 1] \in Nat
    BY <1>1, <1>2
  <2> QED BY <1>1, <1>2, <2>1, <2>2, <2>3, <2>4
<1>5. Ascends(new)
  <2> SUFFICES ASSUME NEW i \in 1 .. Len(new), NEW j \in 1 .. Len(new), i < j
               PROVE  new[i] < new[j]
    BY DEF Ascends
  <2>0. i \in 1 .. Len(keys) + 1 /\ j \in 1 .. Len(keys) + 1
    BY <1>3
  <2>1. CASE j < s + 1
    <3>1. new[i] = keys[i] /\ new[j] = keys[j] /\ i \in 1 .. Len(keys) /\ j \in 1 .. Len(keys)
      <4>1. i \in 1 .. Len(keys) /\ j \in 1 .. Len(keys) /\ i < s + 1
        BY <1>1, <1>2, <2>0, <2>1
      <4> QED BY <1>3, <2>0, <2>1, <4>1
    <3> QED BY <3>1 DEF Ascends
  <2>2. CASE j = s + 1
    <3>1. new[i] = keys[i] /\ new[j] = c /\ i \in 1 .. Len(keys) /\ i <= s
      BY <1>2, <1>3, <2>0, <2>2, SMTT(30)
    <3> QED BY <1>4, <3>1
  <2>3. CASE j > s + 1
    <3>1. new[j] = keys[j - 1] /\ j - 1 \in 1 .. Len(keys) /\ j - 1 > s
      BY <1>2, <1>3, <2>0, <2>3
    <3>2. CASE i < s + 1
      <4>1. new[i] = keys[i] /\ i \in 1 .. Len(keys) /\ i < j - 1
        BY <1>2, <1>3, <2>0, <2>3, <3>2
      <4> QED BY <3>1, <4>1 DEF Ascends
    <3>3. CASE i = s + 1
      <4>1. new[i] = c
        BY <1>3, <2>0, <3>3
      <4> QED BY <1>4, <3>1, <4>1
    <3>4. CASE i > s + 1
      <4>1. new[i] = keys[i - 1] /\ i - 1 \in 1 .. Len(keys) /\ i - 1 < j - 1
        BY <1>2, <1>3, <2>0, <3>4
      <4> QED BY <3>1, <4>1 DEF Ascends
    <3> QED BY <1>2, <2>0, <3>2, <3>3, <3>4
  <2> QED BY <1>2, <2>0, <2>1, <2>2, <2>3
<1>6. ASSUME NEW k \in Nat
      PROVE  /\ FindLower(new, k) = FindLower(keys, k) + IF k <= c THEN 0 ELSE 1
             /\ k <= c => FindLower(keys, k) <= s
             /\ k > c => FindLower(keys, k) >= s
  <2>1. PICK f : f = FindLower(keys, k)
    OBVIOUS
  <2>2. /\ f \in Nat /\ f <= Len(keys) /\ (f > 0 => keys[f] < k)
        /\ (f < Len(keys) => k <= keys[f + 1])
    <3>1. Fits(keys, k, f)
      BY <2>1, SlotFits
    <3> QED BY <1>1, <3>1 DEF Fits
  <2>3. k <= c => f <= s
    <3> SUFFICES ASSUME k <= c, f > s PROVE FALSE
      BY <1>2, <2>2
    <3>1. f \in 1 .. Len(keys) /\ c < keys[f] /\ keys[f] \in Nat
      BY <1>1, <1>2, <1>4, <2>2
    <3> QED BY <2>2, <3>1
  <2>4. k > c => f >= s
    <3> SUFFICES ASSUME k > c, f < s PROVE FALSE
      BY <1>2, <2>2
    <3>1. f + 1 \in 1 .. Len(keys) /\ keys[f + 1] < c /\ keys[f + 1] \in Nat
      BY <1>1, <1>2, <1>4, <2>2
    <3> QED BY <1>2, <2>2, <3>1
  <2>5. CASE k <= c
    <3>1. f > 0 => new[f] = keys[f]
      BY <1>2, <1>3, <2>2, <2>3, <2>5, SMTT(30)
    <3>2. new[f + 1] = IF f < s THEN keys[f + 1] ELSE c
      BY <1>2, <1>3, <2>2, <2>3, <2>5, SMTT(30)
    <3>3. Fits(new, k, f)
      BY <1>1, <1>2, <1>3, <2>2, <2>3, <2>5, <3>1, <3>2, SMTT(30) DEF Fits
    <3>4. FindLower(new, k) = f
      BY <1>3, <1>5, <3>3, FitsSlot
    <3> QED BY <2>1, <2>2, <2>3, <2>5, <3>4
  <2>6. CASE k > c
    <3>1. new[f + 1] = IF f > s THEN keys[f] ELSE c
      BY <1>2, <1>3, <2>2, <2>4, <2>6, SMTT(30)
    <3>2. f < Len(keys) => new[f + 2] = keys[f + 1]
      <4>1. PICK g : g = f + 2
        OBVIOUS
      <4>2. f < Len(keys) => g \in 1 .. Len(keys) + 1 /\ ~(g < s + 1) /\ g # s + 1
        BY <1>1, <1>2, <2>2, <2>4, <2>6, <4>1
      <4>3. g - 1 = f + 1
        BY <2>2, <4>1
      <4>4. f < Len(keys) => new[g] = keys[g - 1]
        BY <1>3, <4>2
      <4> QED BY <4>1, <4>3, <4>4
    <3>3. Fits(new, k, f + 1)
      <4>1. f + 1 \in 0 .. Len(new)
        BY <1>1, <1>3, <2>2
      <4>2. new[f + 1] < k
        BY <2>2, <2>4, <2>6, <1>2, <3>1
      <4>3. f + 1 < Len(new) => k <= new[f + 1 + 1]
        <5>1. f + 1 + 1 = f + 2 /\ (f + 1 < Len(new) => f < Len(keys))
          BY <1>1, <1>3, <2>2
        <5> QED BY <2>2, <3>2, <5>1
      <4> QED BY <4>1, <4>2, <4>3 DEF Fits
    <3>4. FindLower(new, k) = f + 1
      BY <1>3, <1>5, <3>3, FitsSlot
    <3> QED BY <2>1, <2>2, <2>4, <2>6, <3>4
  <2> QED BY <2>5, <2>6
<1> QED BY <1>3, <1>5, <1>6 DEF new

\* keys cut behind the slot m, with the key of that slot between the parts
KeyParts(keys, m, left, right) ==
  /\ Ascends(left) /\ Ascends(right)
  /\ \A i \in 1 .. m : left[i] <= keys[m + 1]
  /\ \A i \in 1 .. Len(right) : right[i] > keys[m + 1]
  /\ \A k \in Nat :
       /\ k <= keys[m + 1] => /\ FindLower(left, k) = FindLower(keys, k)
                              /\ FindLower(keys, k) <= m
       /\ k > keys[m + 1] => FindLower(keys, k) = FindLower(right, k) + m + 1

LEMMA KeysCut ==
  ASSUME NEW keys \in Seq(Nat), Ascends(keys), NEW m \in Nat, m < Len(keys),
         NEW left \in Seq(Nat), NEW right \in Seq(Nat),
         Len(left) = m, Len(right) = Len(keys) - m - 1,
         \A i \in 1 .. m : left[i] = keys[i],
         \A i \in 1 .. Len(keys) - m - 1 : right[i] = keys[m + 1 + i]
  PROVE  KeyParts(keys, m, left, right)
<1>1. Len(keys) \in Nat /\ \A i \in 1 .. Len(keys) : keys[i] \in Nat
  BY ElementOfSeq
<1>2. PICK c : c = keys[m + 1]
  OBVIOUS
<1>3. m + 1 \in 1 .. Len(keys) /\ c \in Nat
  BY <1>1, <1>2
<1>4. Ascends(left)
  <2> SUFFICES ASSUME NEW i \in 1 .. m, NEW j \in 1 .. m, i < j PROVE left[i] < left[j]
    BY DEF Ascends
  <2>1. i \in 1 .. Len(keys) /\ j \in 1 .. Len(keys)
    BY <1>1
  <2> QED BY <2>1 DEF Ascends
<1>5. Ascends(right)
  <2> SUFFICES ASSUME NEW i \in 1 .. Len(keys) - m - 1, NEW j \in 1 .. Len(keys) - m - 1, i < j
               PROVE  right[i] < right[j]
    BY DEF Ascends
  <2>1. PICK a, b : a = m + 1 + i /\ b = m + 1 + j
    OBVIOUS
  <2>2. a \in 1 .. Len(keys) /\ b \in 1 .. Len(keys) /\ a < b
    BY <1>1, <2>1
  <2>3. keys[a] < keys[b]
    BY <2>2 DEF Ascends
  <2> QED BY <2>1, <2>3
<1>6. ASSUME NEW i \in 1 .. Len(keys) PROVE /\ i <= m => keys[i] < c
                                            /\ i <= m + 1 => keys[i] <= c
                                            /\ i > m + 1 => keys[i] > c
                                            /\ i >= m + 1 => keys[i] >= c
  <2>1. PICK a : a = m + 1
    OBVIOUS
  <2>2. a \in 1 .. Len(keys) /\ c = keys[a] /\ keys[i] \in Nat
    BY <1>1, <1>2, <1>3, <2>1
  <2>3. (i < a => keys[i] < keys[a]) /\ (a < i => keys[a] < keys[i])
    BY <2>2 DEF Ascends
  <2>4. i = a => keys[i] = c
    BY <2>2
  <2> QED BY <1>3, <2>1, <2>2, <2>3, <2>4, SMTT(30)
<1>7. ASSUME NEW i \in 1 .. m PROVE left[i] <= c
  <2>1. i \in 1 .. Len(keys) /\ i <= m /\ left[i] = keys[i]
    BY <1>1
  <2>2. keys[i] < c /\ keys[i] \in Nat
    BY <1>1, <1>6, <2>1
  <2> QED BY <1>3, <2>1, <2>2
<1>8. ASSUME NEW i \in 1 .. Len(right) PROVE right[i] > c
  <2>1. PICK a : a = m + 1 + i
    OBVIOUS
  <2>2. a \in 1 .. Len(keys) /\ a > m + 1 /\ i \in 1 .. Len(keys) - m - 1
    BY <1>1, <2>1
  <2> QED BY <1>6, <2>1, <2>2
<1>9. ASSUME NEW k \in Nat
      PROVE  /\ k <= c => FindLower(left, k) = FindLower(keys, k) /\ FindLower(keys, k) <= m
             /\ k > c => FindLower(keys, k) = FindLower(right, k) + m + 1
  <2>1. PICK f : f = FindLower(keys, k)
    OBVIOUS
  <2>2. /\ f \in 0 .. Len(keys) /\ (f > 0 => keys[f] < k)
        /\ (f < Len(keys) => k <= keys[f + 1])
    BY <2>1, SlotFits DEF Fits
  <2>3. f > 0 => f \in 1 .. Len(keys)
    BY <1>1, <2>2
  <2>4. f < Len(keys) => f + 1 \in 1 .. Len(keys)
    BY <1>1, <2>2
  <2>5. ASSUME k <= c PROVE FindLower(left, k) = f /\ f <= m
    <3>1. f <= m
      <4> SUFFICES ASSUME ~(f <= m) PROVE FALSE
        OBVIOUS
      <4>1. f > 0 /\ f >= m + 1
        BY <1>1, <2>2
      <4>2. keys[f] >= c /\ keys[f] < k /\ keys[f] \in Nat
        BY <1>1, <1>6, <2>2, <2>3, <4>1
      <4> QED BY <1>3, <2>5, <4>2
    <3>2. f > 0 => left[f] < k
      <4>1. f > 0 => f \in 1 .. m
        BY <1>1, <2>2, <3>1
      <4> QED BY <2>2, <4>1
    <3>3. f < m => k <= left[f + 1]
      <4>1. PICK a : a = f + 1
        OBVIOUS
      <4>2. f < m => a \in 1 .. m /\ f < Len(keys)
        BY <1>1, <2>2, <4>1
      <4> QED BY <2>2, <4>1, <4>2
    <3>4. Fits(left, k, f)
      BY <1>1, <2>2, <3>1, <3>2, <3>3 DEF Fits
    <3> QED BY <1>4, <3>1, <3>4, FitsSlot
  <2>6. ASSUME k > c PROVE f = FindLower(right, k) + m + 1
    <3>1. f >= m + 1
      <4> SUFFICES ASSUME ~(f >= m + 1) PROVE FALSE
        OBVIOUS
      <4>1. f < Len(keys) /\ f + 1 <= m + 1
        BY <1>1, <2>2
      <4>2. keys[f + 1] <= c /\ k <= keys[f + 1] /\ keys[f + 1] \in Nat
        <5>1. PICK a : a = f + 1
          OBVIOUS
        <5>2. a \in 1 .. Len(keys) /\ a <= m + 1
          BY <2>4, <4>1, <5>1
        <5>3. keys[a] <= c /\ keys[a] \in Nat
          BY <1>1, <1>6, <5>2
        <5> QED BY <2>2, <4>1, <5>1, <5>3
      <4> QED BY <1>3, <2>6, <4>2
    <3>2. PICK g : g = f - (m + 1)
      OBVIOUS
    <3>3. g \in 0 .. Len(right) /\ f = m + 1 + g
      BY <1>1, <2>2, <3>1, <3>2
    <3>4. g > 0 => right[g] < k
      <4>1. g > 0 => g \in 1 .. Len(keys) - m - 1 /\ f > 0
        BY <1>1, <3>3
      <4> QED BY <2>2, <3>3, <4>1
    <3>5. g < Len(right) => k <= right[g + 1]
      <4>1. PICK a : a = g + 1
        OBVIOUS
      <4>2. g < Len(right) => a \in 1 .. Len(keys) - m - 1 /\ f < Len(keys) /\ m + 1 + a = f + 1
        BY <1>1, <3>3, <4>1, SMTT(30)
      <4>3. g < Len(right) => right[a] = keys[m + 1 + a]
        BY <4>2
      <4>4. g < Len(right) => right[a] = keys[f + 1] /\ k <= keys[f + 1]
        BY <2>2, <4>2, <4>3
      <4> QED BY <4>1, <4>4
    <3>6. Fits(right, k, g)
      BY <3>3, <3>4, <3>5 DEF Fits
    <3>7. FindLower(right, k) = g
      BY <1>5, <3>6, FitsSlot
    <3> QED BY <1>1, <2>2, <3>3, <3>7
  <2> QED BY <2>1, <2>5, <2>6
<1> QED BY <1>2, <1>4, <1>5, <1>7, <1>8, <1>9 DEF KeyParts

\* the parts of an inner node, and the key between them
Cut(x, h, m) ==
  /\ m < Len(x.keys) /\ h.key = x.keys[m + 1]
  /\ Len(h.left.keys) = m /\ Len(h.left.child) = m + 1
  /\ Len(h.right.keys) = Len(x.keys) - m - 1 /\ Len(h.right.child) = Len(x.child) - m - 1
  /\ \A i \in 1 .. m : h.left.keys[i] = x.keys[i]
  /\ \A i \in 1 .. m + 1 : h.left.child[i] = x.child[i]
  /\ \A i \in 1 .. Len(x.keys) - m - 1 : h.right.keys[i] = x.keys[m + 1 + i]
  /\ \A i \in 1 .. Len(x.child) - m - 1 : h.right.child[i] = x.child[m + 1 + i]

\* new is node with the key and the child of up in slot s and the slot behind it
Added(node, s, up, new) ==
  /\ new.keys = InsertAt(node.keys, s + 1, up.key)
  /\ Len(new.keys) = Len(node.keys) + 1 /\ Len(new.child) = Len(node.keys) + 2
  /\ \A j \in 1 .. Len(node.keys) + 1 :
       new.keys[j] = IF j < s + 1 THEN node.keys[j]
                     ELSE IF j = s + 1 THEN up.key ELSE node.keys[j - 1]
  /\ \A j \in 1 .. Len(node.keys) + 2 :
       new.child[j] = IF j < s + 2 THEN node.child[j]
                      ELSE IF j = s + 2 THEN up.node ELSE node.child[j - 1]

\* the keys and children of an inner node with one more of them
LEMMA ChildIn ==
  ASSUME NEW node \in NodeType, Len(node.child) = Len(node.keys) + 1,
         NEW s \in 0 .. Len(node.keys), NEW up \in [key : Nat, node : Nodes]
  PROVE  Added(node, s, up, WithChild(node, s, up))
<1> DEFINE new == WithChild(node, s, up)
<1>1. /\ node.keys \in Seq(Nat) /\ node.child \in Seq(Nodes) /\ Len(node.keys) \in Nat
      /\ s \in Nat /\ up.key \in Nat /\ up.node \in Nodes
  BY DEF NodeType
<1>2. PICK p, q, r, z, e, f : /\ p = node.keys /\ q = node.child /\ r = s + 1 /\ z = s + 2
                              /\ e = up.key /\ f = up.node
  OBVIOUS
<1>3. /\ p \in Seq(Nat) /\ r \in 1 .. Len(p) + 1 /\ e \in Nat
      /\ q \in Seq(Nodes) /\ z \in 1 .. Len(q) + 1 /\ f \in Nodes /\ Len(q) + 1 = Len(p) + 2
  <2>1. Len(p) \in Nat /\ Len(q) = Len(p) + 1 /\ s \in 0 .. Len(p)
    BY <1>1, <1>2
  <2>2. p \in Seq(Nat) /\ q \in Seq(Nodes) /\ e \in Nat /\ f \in Nodes
    BY <1>1, <1>2
  <2>3. r \in 1 .. Len(p) + 1 /\ z \in 1 .. Len(q) + 1 /\ Len(q) + 1 = Len(p) + 2
    <3>1. r = s + 1 /\ z = s + 2
      BY <1>2
    <3> QED BY <2>1, <3>1
  <2> QED BY <2>2, <2>3
<1>4. /\ Len(InsertAt(p, r, e)) = Len(p) + 1
      /\ \A j \in 1 .. Len(p) + 1 :
           InsertAt(p, r, e)[j] = IF j < r THEN p[j] ELSE IF j = r THEN e ELSE p[j - 1]
  BY <1>3, Inserted, SMTT(30)
<1>5. /\ Len(InsertAt(q, z, f)) = Len(q) + 1
      /\ \A j \in 1 .. Len(q) + 1 :
           InsertAt(q, z, f)[j] = IF j < z THEN q[j] ELSE IF j = z THEN f ELSE q[j - 1]
  BY <1>3, Inserted
<1>6. new.keys = InsertAt(p, r, e) /\ new.child = InsertAt(q, z, f)
  BY <1>2 DEF WithChild, NodeType
<1> HIDE DEF new
<1> QED BY <1>2, <1>3, <1>4, <1>5, <1>6 DEF new, Added

\* what the halves of a full inner node are made of
LEMMA PartsOf ==
  ASSUME NEW node \in NodeType, Len(node.keys) = InnerSlots, Len(node.child) = InnerSlots + 1,
         NEW mid \in 0 .. InnerSlots - 1
  PROVE  LET left == LeftOf(node, mid)
             right == RightOf(node, mid)
         IN /\ left \in NodeType /\ right \in NodeType
            /\ Len(left.keys) = mid /\ Len(left.child) = mid + 1
            /\ Len(right.keys) = InnerSlots - mid - 1 /\ Len(right.child) = InnerSlots - mid
            /\ \A i \in 1 .. mid : left.keys[i] = node.keys[i]
            /\ \A i \in 1 .. mid + 1 : left.child[i] = node.child[i]
            /\ \A i \in 1 .. InnerSlots - mid - 1 : right.keys[i] = node.keys[mid + 1 + i]
            /\ \A i \in 1 .. InnerSlots - mid : right.child[i] = node.child[mid + 1 + i]
<1> DEFINE left == LeftOf(node, mid)
           right == RightOf(node, mid)
<1>1. /\ left \in NodeType /\ Len(left.keys) = mid /\ Len(left.child) = mid + 1
      /\ right \in NodeType /\ Len(right.keys) = InnerSlots - mid - 1
      /\ Len(right.child) = InnerSlots - mid
  BY LeftNode, RightNode
<1>2. PICK p, q, r, y, z : /\ p = node.keys /\ q = node.child /\ r = mid + 2
                           /\ y = mid + 1 /\ z = InnerSlots + 1
  OBVIOUS
<1>3. /\ p \in Seq(Nat) /\ q \in Seq(Nodes) /\ mid \in Nat /\ r \in Int /\ z \in Int /\ y \in Int
      /\ InnerSlots \in Int /\ InnerSlots <= Len(p) /\ z <= Len(q) /\ 1 <= r /\ r <= z
      /\ mid <= Len(p) /\ y <= Len(q) /\ 1 <= y
  BY <1>2, Constants DEF NodeType
<1>4. /\ left.keys = SubSeq(p, 1, mid) /\ left.child = SubSeq(q, 1, y)
      /\ right.keys = SubSeq(p, r, InnerSlots) /\ right.child = SubSeq(q, r, z)
  BY <1>2 DEF LeftOf, RightOf, NodeType
<1>5. \A i \in 1 .. mid - 1 + 1 : SubSeq(p, 1, mid)[i] = p[1 + i - 1]
  BY <1>3, Part
<1>6. \A i \in 1 .. y - 1 + 1 : SubSeq(q, 1, y)[i] = q[1 + i - 1]
  BY <1>3, Part
<1>7. \A i \in 1 .. InnerSlots - r + 1 : SubSeq(p, r, InnerSlots)[i] = p[r + i - 1]
  BY <1>3, Part
<1>8. \A i \in 1 .. z - r + 1 : SubSeq(q, r, z)[i] = q[r + i - 1]
  BY <1>3, Part
<1>9. \A i \in 1 .. mid : left.keys[i] = node.keys[i]
  <2> SUFFICES ASSUME NEW i \in 1 .. mid PROVE left.keys[i] = node.keys[i]
    OBVIOUS
  <2>1. i \in 1 .. mid - 1 + 1 /\ 1 + i - 1 = i
    BY <1>3
  <2> HIDE DEF left
  <2> QED BY <1>2, <1>4, <1>5, <2>1
<1>10. \A i \in 1 .. mid + 1 : left.child[i] = node.child[i]
  <2> SUFFICES ASSUME NEW i \in 1 .. mid + 1 PROVE left.child[i] = node.child[i]
    OBVIOUS
  <2>1. i \in 1 .. y - 1 + 1 /\ 1 + i - 1 = i
    BY <1>2, <1>3
  <2> HIDE DEF left
  <2> QED BY <1>2, <1>4, <1>6, <2>1
<1>11. \A i \in 1 .. InnerSlots - mid - 1 : right.keys[i] = node.keys[mid + 1 + i]
  <2> SUFFICES ASSUME NEW i \in 1 .. InnerSlots - mid - 1
               PROVE  right.keys[i] = node.keys[mid + 1 + i]
    OBVIOUS
  <2>1. i \in 1 .. InnerSlots - r + 1 /\ r + i - 1 = mid + 1 + i
    BY <1>2, <1>3
  <2> HIDE DEF right
  <2> QED BY <1>2, <1>4, <1>7, <2>1
<1>12. \A i \in 1 .. InnerSlots - mid : right.child[i] = node.child[mid + 1 + i]
  <2> SUFFICES ASSUME NEW i \in 1 .. InnerSlots - mid
               PROVE  right.child[i] = node.child[mid + 1 + i]
    OBVIOUS
  <2>1. i \in 1 .. z - r + 1 /\ r + i - 1 = mid + 1 + i
    BY <1>2, <1>3
  <2> HIDE DEF right
  <2> QED BY <1>2, <1>4, <1>8, <2>1
<1> QED BY <1>1, <1>9, <1>10, <1>11, <1>12

\* the halves are the parts of the node with the new child in it
LEMMA HalvesCut ==
  ASSUME NEW node \in NodeType, Len(node.keys) = InnerSlots, Len(node.child) = InnerSlots + 1,
         NEW s \in 0 .. InnerSlots, NEW up \in [key : Nat, node : Nodes]
  PROVE  \E m \in Nat : Cut(WithChild(node, s, up), Halves(node, s, up), m)
<1> DEFINE mid == MidFor(s)
           left == LeftOf(node, mid)
           right == RightOf(node, mid)
           key == node.keys[mid + 1]
           x == WithChild(node, s, up)
           h == Halves(node, s, up)
<1>1. /\ mid \in 0 .. InnerSlots - 1 /\ mid \in Nat /\ mid <= InnerSlots - 1
      /\ InnerSlots \in Nat /\ s \in Nat /\ s <= InnerSlots
  <2>1. mid \in 0 .. InnerSlots - 1
    BY SplitSlot
  <2> HIDE DEF mid
  <2> QED BY <2>1, Constants
<1>2. /\ left \in NodeType /\ right \in NodeType
      /\ Len(left.keys) = mid /\ Len(left.child) = mid + 1
      /\ Len(right.keys) = InnerSlots - mid - 1 /\ Len(right.child) = InnerSlots - mid
      /\ \A i \in 1 .. mid : left.keys[i] = node.keys[i]
      /\ \A i \in 1 .. mid + 1 : left.child[i] = node.child[i]
      /\ \A i \in 1 .. InnerSlots - mid - 1 : right.keys[i] = node.keys[mid + 1 + i]
      /\ \A i \in 1 .. InnerSlots - mid : right.child[i] = node.child[mid + 1 + i]
  BY <1>1, PartsOf
<1>3. /\ Len(x.keys) = InnerSlots + 1 /\ Len(x.child) = InnerSlots + 2
      /\ \A j \in 1 .. InnerSlots + 1 :
           x.keys[j] = IF j < s + 1 THEN node.keys[j]
                       ELSE IF j = s + 1 THEN up.key ELSE node.keys[j - 1]
      /\ \A j \in 1 .. InnerSlots + 2 :
           x.child[j] = IF j < s + 2 THEN node.child[j]
                        ELSE IF j = s + 2 THEN up.node ELSE node.child[j - 1]
  <2>1. Len(node.child) = Len(node.keys) + 1 /\ s \in 0 .. Len(node.keys)
    BY <1>1
  <2>2. Added(node, s, up, x)
    BY <2>1, ChildIn
  <2> HIDE DEF x
  <2> QED BY <1>1, <2>2 DEF Added
<1> HIDE DEF mid, left, right, x, h
<1>4. ASSUME s <= mid PROVE Cut(x, h, mid + 1)
  <2> DEFINE l == WithChild(left, s, up)
  <2>1. h.left = l /\ h.right = right /\ h.key = key
    <3>1. ~(s = mid + 1)
      BY <1>1, <1>4
    <3> QED BY <1>4, <3>1 DEF Halves, h, mid, left, right
  <2>2. s \in 0 .. Len(left.keys) /\ Len(left.child) = Len(left.keys) + 1
    BY <1>1, <1>2, <1>4
  <2>3. /\ Len(l.keys) = mid + 1 /\ Len(l.child) = mid + 2
        /\ \A j \in 1 .. mid + 1 :
             l.keys[j] = IF j < s + 1 THEN left.keys[j]
                         ELSE IF j = s + 1 THEN up.key ELSE left.keys[j - 1]
        /\ \A j \in 1 .. mid + 2 :
             l.child[j] = IF j < s + 2 THEN left.child[j]
                          ELSE IF j = s + 2 THEN up.node ELSE left.child[j - 1]
    <3>1. Added(left, s, up, l)
      BY <1>2, <2>2, ChildIn
    <3> HIDE DEF l
    <3> QED BY <1>1, <1>2, <3>1 DEF Added
  <2> HIDE DEF l
  <2>4. x.keys[mid + 1 + 1] = key
    <3>1. PICK j : j = mid + 1 + 1
      OBVIOUS
    <3>2. j \in 1 .. InnerSlots + 1 /\ ~(j < s + 1) /\ j # s + 1 /\ j - 1 = mid + 1
      BY <1>1, <1>4, <3>1
    <3> QED BY <1>3, <3>1, <3>2
  <2>5. ASSUME NEW i \in 1 .. mid + 1 PROVE l.keys[i] = x.keys[i]
    <3>1. i \in 1 .. InnerSlots + 1
      BY <1>1
    <3>2. i < s + 1 => left.keys[i] = node.keys[i]
      <4>1. i < s + 1 => i \in 1 .. mid
        BY <1>1, <1>4
      <4>2. \A j \in 1 .. mid : left.keys[j] = node.keys[j]
        BY <1>2
      <4> QED BY <4>1, <4>2
    <3>3. i > s + 1 => left.keys[i - 1] = node.keys[i - 1]
      BY <1>1, <1>2, <1>4
    <3>4. l.keys[i] = IF i < s + 1 THEN left.keys[i]
                      ELSE IF i = s + 1 THEN up.key ELSE left.keys[i - 1]
      BY <2>3
    <3>5. x.keys[i] = IF i < s + 1 THEN node.keys[i]
                      ELSE IF i = s + 1 THEN up.key ELSE node.keys[i - 1]
      BY <1>3, <3>1
    <3>6. i < s + 1 \/ i = s + 1 \/ i > s + 1
      BY <1>1
    <3> QED BY <3>2, <3>3, <3>4, <3>5, <3>6
  <2>6. ASSUME NEW i \in 1 .. mid + 1 + 1 PROVE l.child[i] = x.child[i]
    <3>1. i \in 1 .. InnerSlots + 2 /\ i \in 1 .. mid + 2
      BY <1>1
    <3>2. i < s + 2 => left.child[i] = node.child[i]
      <4>1. i < s + 2 => i \in 1 .. mid + 1
        BY <1>1, <1>4
      <4>2. \A j \in 1 .. mid + 1 : left.child[j] = node.child[j]
        BY <1>2
      <4> QED BY <4>1, <4>2
    <3>3. i > s + 2 => left.child[i - 1] = node.child[i - 1]
      <4>1. i > s + 2 => i - 1 \in 1 .. mid + 1
        BY <1>1, <3>1
      <4>2. \A j \in 1 .. mid + 1 : left.child[j] = node.child[j]
        BY <1>2
      <4> QED BY <4>1, <4>2
    <3>4. l.child[i] = IF i < s + 2 THEN left.child[i]
                       ELSE IF i = s + 2 THEN up.node ELSE left.child[i - 1]
      BY <2>3, <3>1
    <3>5. x.child[i] = IF i < s + 2 THEN node.child[i]
                       ELSE IF i = s + 2 THEN up.node ELSE node.child[i - 1]
      BY <1>3, <3>1
    <3>6. i < s + 2 \/ i = s + 2 \/ i > s + 2
      BY <1>1
    <3> QED BY <3>2, <3>3, <3>4, <3>5, <3>6
  <2>7. ASSUME NEW i \in 1 .. InnerSlots + 1 - (mid + 1) - 1 PROVE right.keys[i] = x.keys[mid + 1 + 1 + i]
    <3>1. PICK j, g : j = mid + 1 + 1 + i /\ g = mid + 1 + i
      OBVIOUS
    <3>2. j \in 1 .. InnerSlots + 1 /\ ~(j < s + 1) /\ j # s + 1 /\ j - 1 = g
          /\ i \in 1 .. InnerSlots - mid - 1
      BY <1>1, <1>4, <3>1
    <3>3. x.keys[j] = node.keys[g]
      BY <1>3, <3>2
    <3>4. right.keys[i] = node.keys[g]
      BY <1>2, <3>1, <3>2
    <3> QED BY <3>1, <3>3, <3>4
  <2>8. ASSUME NEW i \in 1 .. InnerSlots + 2 - (mid + 1) - 1 PROVE right.child[i] = x.child[mid + 1 + 1 + i]
    <3>1. PICK j, g : j = mid + 1 + 1 + i /\ g = mid + 1 + i
      OBVIOUS
    <3>2. j \in 1 .. InnerSlots + 2 /\ ~(j < s + 2) /\ j # s + 2 /\ j - 1 = g
          /\ i \in 1 .. InnerSlots - mid
      BY <1>1, <1>4, <3>1
    <3>3. x.child[j] = node.child[g]
      BY <1>3, <3>2
    <3>4. right.child[i] = node.child[g]
      BY <1>2, <3>1, <3>2
    <3> QED BY <3>1, <3>3, <3>4
  <2>9. /\ mid + 1 < InnerSlots + 1 /\ mid + 1 + 1 = mid + 2
        /\ InnerSlots - mid - 1 = InnerSlots + 1 - (mid + 1) - 1
        /\ InnerSlots - mid = InnerSlots + 2 - (mid + 1) - 1
    BY <1>1
  <2>20. \A i \in 1 .. Len(x.keys) - (mid + 1) - 1 : h.right.keys[i] = x.keys[mid + 1 + 1 + i]
    <3> SUFFICES ASSUME NEW i \in 1 .. Len(x.keys) - (mid + 1) - 1
                 PROVE  h.right.keys[i] = x.keys[mid + 1 + 1 + i]
      OBVIOUS
    <3>1. Len(x.keys) = InnerSlots + 1
      BY <1>3
    <3>2. i \in 1 .. InnerSlots + 1 - (mid + 1) - 1
      BY <1>1, <3>1
    <3> QED BY <2>1, <2>7, <3>2
  <2>21. \A i \in 1 .. Len(x.child) - (mid + 1) - 1 : h.right.child[i] = x.child[mid + 1 + 1 + i]
    <3> SUFFICES ASSUME NEW i \in 1 .. Len(x.child) - (mid + 1) - 1
                 PROVE  h.right.child[i] = x.child[mid + 1 + 1 + i]
      OBVIOUS
    <3>1. Len(x.child) = InnerSlots + 2
      BY <1>3
    <3>2. i \in 1 .. InnerSlots + 2 - (mid + 1) - 1
      BY <1>1, <3>1
    <3> QED BY <2>1, <2>8, <3>2
  <2>22. mid + 1 < Len(x.keys) /\ h.key = x.keys[mid + 1 + 1]
    BY <1>1, <1>3, <2>1, <2>4
  <2>23. \A i \in 1 .. mid + 1 : h.left.keys[i] = x.keys[i]
    BY <2>1, <2>5
  <2>24. \A i \in 1 .. mid + 1 + 1 : h.left.child[i] = x.child[i]
    BY <2>1, <2>6
  <2>25. Len(h.left.keys) = mid + 1 /\ Len(h.left.child) = mid + 1 + 1
    BY <1>1, <1>2, <1>3, <2>1, <2>3, <2>9
  <2>26. /\ Len(h.right.keys) = Len(x.keys) - (mid + 1) - 1
         /\ Len(h.right.child) = Len(x.child) - (mid + 1) - 1
    <3>1. Len(x.keys) = InnerSlots + 1 /\ Len(x.child) = InnerSlots + 2
      BY <1>3
    <3>2. Len(h.right.keys) = InnerSlots - mid - 1 /\ Len(h.right.child) = InnerSlots - mid
      BY <1>2, <2>1
    <3> QED BY <1>1, <3>1, <3>2
  <2> QED BY <2>20, <2>21, <2>22, <2>23, <2>24, <2>25, <2>26 DEF Cut
<1>5. ASSUME s = mid + 1, mid < Len(right.keys) PROVE Cut(x, h, mid + 1)
  <2> DEFINE l == [left EXCEPT !.keys = Append(@, key), !.child = Append(@, right.child[1])]
             r == [right EXCEPT !.child[1] = up.node]
  <2>1. h.left = l /\ h.right = r /\ h.key = up.key
    <3>1. ~(s <= mid)
      BY <1>1, <1>5
    <3> QED BY <1>5, <3>1 DEF Halves, h, mid, left, right
  <2>2. PICK p, q, c, b : p = left.keys /\ q = left.child /\ c = right.child /\ b = c[1]
    OBVIOUS
  <2>3. p \in Seq(Nat) /\ q \in Seq(Nodes) /\ c \in Seq(Nodes) /\ Len(p) = mid
        /\ Len(q) = mid + 1 /\ Len(c) = InnerSlots - mid
    BY <1>2, <2>2 DEF NodeType
  <2>4. 1 \in 1 .. Len(c) /\ b \in Nodes
    <3>1. 1 \in 1 .. Len(c)
      BY <1>1, <2>3
    <3> QED BY <2>2, <2>3, <3>1, ElementOfSeq
  <2>5. key \in Nat
    <3>1. mid + 1 \in 1 .. Len(node.keys) /\ node.keys \in Seq(Nat)
      BY <1>1 DEF NodeType
    <3> QED BY <3>1, ElementOfSeq
  <2>6. PICK e : e = key
    OBVIOUS
  <2>7. /\ Len(Append(p, e)) = Len(p) + 1
        /\ \A i \in 1 .. Len(p) + 1 : Append(p, e)[i] = IF i <= Len(p) THEN p[i] ELSE e
    BY <2>3, <2>5, <2>6, Appended
  <2>8. /\ Len(Append(q, b)) = Len(q) + 1
        /\ \A i \in 1 .. Len(q) + 1 : Append(q, b)[i] = IF i <= Len(q) THEN q[i] ELSE b
    BY <2>3, <2>4, Appended
  <2>9. /\ Len([c EXCEPT ![1] = up.node]) = Len(c)
        /\ \A j \in 1 .. Len(c) : [c EXCEPT ![1] = up.node][j] = IF j = 1 THEN up.node ELSE c[j]
    <3>1. up.node \in Nodes
      OBVIOUS
    <3> QED BY <2>3, <2>4, <3>1, ExceptSeq
  <2>10. /\ l.keys = Append(p, e) /\ l.child = Append(q, b)
         /\ r.keys = right.keys /\ r.child = [c EXCEPT ![1] = up.node]
    <3> HIDE DEF key
    <3> QED BY <1>2, <2>2, <2>6 DEF NodeType
  <2>11. b = node.child[mid + 1 + 1]
    <3>1. 1 \in 1 .. InnerSlots - mid
      BY <1>1
    <3> QED BY <1>2, <2>2, <3>1
  <2> HIDE DEF l, r
  <2>12. x.keys[mid + 1 + 1] = up.key
    <3>1. PICK j : j = mid + 1 + 1
      OBVIOUS
    <3>2. j \in 1 .. InnerSlots + 1 /\ j = s + 1
      BY <1>1, <1>5, <3>1
    <3> QED BY <1>3, <3>1, <3>2
  <2>13. ASSUME NEW i \in 1 .. mid + 1 PROVE l.keys[i] = x.keys[i]
    <3>1. i \in 1 .. InnerSlots + 1 /\ i < s + 1 /\ i \in 1 .. Len(p) + 1
      BY <1>1, <1>5, <2>3
    <3>2. x.keys[i] = node.keys[i]
      BY <1>3, <3>1
    <3>3. CASE i <= mid
      <4>1. i \in 1 .. mid /\ i <= Len(p)
        BY <1>1, <2>3, <3>3
      <4> QED BY <1>2, <2>2, <2>7, <2>10, <3>1, <3>2, <4>1
    <3>4. CASE i = mid + 1
      <4>1. ~(i <= Len(p))
        BY <1>1, <2>3, <3>4
      <4> QED BY <2>6, <2>7, <2>10, <3>1, <3>2, <3>4, <4>1
    <3> QED BY <1>1, <3>3, <3>4
  <2>14. ASSUME NEW i \in 1 .. mid + 1 + 1 PROVE l.child[i] = x.child[i]
    <3>1. i \in 1 .. InnerSlots + 2 /\ i < s + 2 /\ i \in 1 .. Len(q) + 1
      BY <1>1, <1>5, <2>3
    <3>2. x.child[i] = node.child[i]
      BY <1>3, <3>1
    <3>3. CASE i <= mid + 1
      <4>1. i \in 1 .. mid + 1 /\ i <= Len(q)
        BY <1>1, <2>3, <3>3
      <4> QED BY <1>2, <2>2, <2>8, <2>10, <3>1, <3>2, <4>1
    <3>4. CASE i = mid + 1 + 1
      <4>1. ~(i <= Len(q))
        BY <1>1, <2>3, <3>4
      <4> QED BY <2>8, <2>10, <2>11, <3>1, <3>2, <3>4, <4>1
    <3> QED BY <1>1, <3>3, <3>4
  <2>15. ASSUME NEW i \in 1 .. InnerSlots + 1 - (mid + 1) - 1 PROVE r.keys[i] = x.keys[mid + 1 + 1 + i]
    <3>1. PICK j, g : j = mid + 1 + 1 + i /\ g = mid + 1 + i
      OBVIOUS
    <3>2. j \in 1 .. InnerSlots + 1 /\ ~(j < s + 1) /\ j # s + 1 /\ j - 1 = g
          /\ i \in 1 .. InnerSlots - mid - 1
      BY <1>1, <1>5, <3>1
    <3>3. x.keys[j] = node.keys[g]
      BY <1>3, <3>2
    <3>4. right.keys[i] = node.keys[g]
      BY <1>2, <3>1, <3>2
    <3> QED BY <2>10, <3>1, <3>3, <3>4
  <2>16. ASSUME NEW i \in 1 .. InnerSlots + 2 - (mid + 1) - 1 PROVE r.child[i] = x.child[mid + 1 + 1 + i]
    <3>1. PICK j, g : j = mid + 1 + 1 + i /\ g = mid + 1 + i
      OBVIOUS
    <3>2. j \in 1 .. InnerSlots + 2 /\ ~(j < s + 2) /\ j - 1 = g /\ (j = s + 2 <=> i = 1)
          /\ i \in 1 .. InnerSlots - mid /\ i \in 1 .. Len(c)
      BY <1>1, <1>5, <2>3, <3>1
    <3>3. x.child[j] = IF i = 1 THEN up.node ELSE node.child[g]
      BY <1>3, <3>2
    <3>4. c[i] = node.child[g]
      BY <1>2, <2>2, <3>1, <3>2
    <3>5. r.child[i] = IF i = 1 THEN up.node ELSE c[i]
      BY <2>9, <2>10, <3>2
    <3> QED BY <3>1, <3>3, <3>4, <3>5
  <2>17. /\ mid + 1 < InnerSlots + 1 /\ mid + 1 + 1 = mid + 2
         /\ InnerSlots - mid - 1 = InnerSlots + 1 - (mid + 1) - 1
         /\ InnerSlots - mid = InnerSlots + 2 - (mid + 1) - 1
    BY <1>1
  <2>18. /\ Len(l.keys) = mid + 1 /\ Len(l.child) = mid + 1 + 1
         /\ Len(r.keys) = InnerSlots - mid - 1 /\ Len(r.child) = InnerSlots - mid
    BY <1>2, <2>3, <2>7, <2>8, <2>9, <2>10
  <2>20. \A i \in 1 .. Len(x.keys) - (mid + 1) - 1 : h.right.keys[i] = x.keys[mid + 1 + 1 + i]
    <3>1. Len(x.keys) - (mid + 1) - 1 = InnerSlots + 1 - (mid + 1) - 1
      <4>1. Len(x.keys) = InnerSlots + 1
        BY <1>3
      <4> QED BY <1>1, <4>1
    <3> QED BY <2>1, <2>15, <3>1
  <2>21. \A i \in 1 .. Len(x.child) - (mid + 1) - 1 : h.right.child[i] = x.child[mid + 1 + 1 + i]
    BY <1>1, <1>3, <2>1, <2>16
  <2>22. mid + 1 < Len(x.keys) /\ h.key = x.keys[mid + 1 + 1]
    BY <1>1, <1>3, <2>1, <2>12
  <2>23. \A i \in 1 .. mid + 1 : h.left.keys[i] = x.keys[i]
    BY <2>1, <2>13
  <2>24. \A i \in 1 .. mid + 1 + 1 : h.left.child[i] = x.child[i]
    BY <2>1, <2>14
  <2>25. Len(h.left.keys) = mid + 1 /\ Len(h.left.child) = mid + 1 + 1
    BY <1>1, <1>3, <2>1, <2>17, <2>18
  <2>26. /\ Len(h.right.keys) = Len(x.keys) - (mid + 1) - 1
         /\ Len(h.right.child) = Len(x.child) - (mid + 1) - 1
    BY <1>1, <1>3, <2>1, <2>17, <2>18
  <2> QED BY <2>20, <2>21, <2>22, <2>23, <2>24, <2>25, <2>26 DEF Cut
<1>6. ASSUME s > mid, ~(s = mid + 1 /\ mid < Len(right.keys)) PROVE Cut(x, h, mid)
  <2> DEFINE z == s - (mid + 1)
             r == WithChild(right, z, up)
  <2>1. h.left = left /\ h.right = r /\ h.key = key
    <3>1. ~(s <= mid)
      BY <1>1, <1>6
    <3> QED BY <1>6, <3>1 DEF Halves, h, mid, left, right
  <2>2. /\ z \in 0 .. Len(right.keys) /\ Len(right.child) = Len(right.keys) + 1
        /\ z \in Int /\ s = mid + 1 + z
    BY <1>1, <1>2, <1>6, SMTT(30)
  <2> HIDE DEF z
  <2>3. /\ Len(r.keys) = InnerSlots - mid /\ Len(r.child) = InnerSlots - mid + 1
        /\ \A j \in 1 .. InnerSlots - mid :
             r.keys[j] = IF j < z + 1 THEN right.keys[j]
                         ELSE IF j = z + 1 THEN up.key ELSE right.keys[j - 1]
        /\ \A j \in 1 .. InnerSlots - mid + 1 :
             r.child[j] = IF j < z + 2 THEN right.child[j]
                          ELSE IF j = z + 2 THEN up.node ELSE right.child[j - 1]
    <3>1. Len(right.keys) + 1 = InnerSlots - mid /\ Len(right.keys) + 2 = InnerSlots - mid + 1
      BY <1>1, <1>2
    <3>2. Added(right, z, up, r)
      BY <1>2, <2>2, ChildIn
    <3> HIDE DEF r
    <3> QED BY <3>1, <3>2 DEF Added
  <2> HIDE DEF r
  <2>4. x.keys[mid + 1] = key
    <3>1. mid + 1 \in 1 .. InnerSlots + 1 /\ mid + 1 < s + 1
      BY <1>1, <1>6
    <3> QED BY <1>3, <3>1
  <2>5. ASSUME NEW i \in 1 .. mid PROVE left.keys[i] = x.keys[i]
    <3>1. i \in 1 .. InnerSlots + 1 /\ i < s + 1
      BY <1>1, <1>6
    <3> QED BY <1>2, <1>3, <3>1
  <2>6. ASSUME NEW i \in 1 .. mid + 1 PROVE left.child[i] = x.child[i]
    <3>1. i \in 1 .. InnerSlots + 2 /\ i < s + 2
      BY <1>1, <1>6
    <3> QED BY <1>2, <1>3, <3>1
  <2>7. ASSUME NEW i \in 1 .. InnerSlots + 1 - mid - 1 PROVE r.keys[i] = x.keys[mid + 1 + i]
    <3>1. PICK j, g, y : j = mid + 1 + i /\ g = mid + 1 + (i - 1) /\ y = i - 1
      OBVIOUS
    <3>2. /\ j \in 1 .. InnerSlots + 1 /\ i \in 1 .. InnerSlots - mid
          /\ (i < z + 1 <=> j < s + 1) /\ (i = z + 1 <=> j = s + 1) /\ j - 1 = g
          /\ (i < z + 1 => i \in 1 .. InnerSlots - mid - 1)
          /\ (i > z + 1 => y \in 1 .. InnerSlots - mid - 1)
      BY <1>1, <1>2, <2>2, <3>1
    <3>3. x.keys[j] = IF j < s + 1 THEN node.keys[j] ELSE IF j = s + 1 THEN up.key ELSE node.keys[g]
      BY <1>3, <3>2
    <3>4. r.keys[i] = IF i < z + 1 THEN right.keys[i] ELSE IF i = z + 1 THEN up.key ELSE right.keys[y]
      BY <2>3, <3>1, <3>2
    <3>5. i < z + 1 => right.keys[i] = node.keys[j]
      BY <1>2, <3>1, <3>2
    <3>6. i > z + 1 => right.keys[y] = node.keys[g]
      BY <1>2, <3>1, <3>2, ZenonT(40)
    <3>7. i < z + 1 \/ i = z + 1 \/ i > z + 1
      BY <2>2
    <3> QED BY <3>1, <3>2, <3>3, <3>4, <3>5, <3>6, <3>7
  <2>8. ASSUME NEW i \in 1 .. InnerSlots + 2 - mid - 1 PROVE r.child[i] = x.child[mid + 1 + i]
    <3>1. PICK j, g, y : j = mid + 1 + i /\ g = mid + 1 + (i - 1) /\ y = i - 1
      OBVIOUS
    <3>2. /\ j \in 1 .. InnerSlots + 2 /\ i \in 1 .. InnerSlots - mid + 1
          /\ (i < z + 2 <=> j < s + 2) /\ (i = z + 2 <=> j = s + 2) /\ j - 1 = g
          /\ (i < z + 2 => i \in 1 .. InnerSlots - mid)
          /\ (i > z + 2 => y \in 1 .. InnerSlots - mid)
      BY <1>1, <1>2, <2>2, <3>1
    <3>3. x.child[j] = IF j < s + 2 THEN node.child[j]
                       ELSE IF j = s + 2 THEN up.node ELSE node.child[g]
      BY <1>3, <3>2
    <3>4. r.child[i] = IF i < z + 2 THEN right.child[i]
                       ELSE IF i = z + 2 THEN up.node ELSE right.child[y]
      BY <2>3, <3>1, <3>2
    <3>5. i < z + 2 => right.child[i] = node.child[j]
      BY <1>2, <3>1, <3>2
    <3>6. i > z + 2 => right.child[y] = node.child[g]
      BY <1>2, <3>1, <3>2, ZenonT(40)
    <3>7. i < z + 2 \/ i = z + 2 \/ i > z + 2
      BY <2>2
    <3> QED BY <3>1, <3>2, <3>3, <3>4, <3>5, <3>6, <3>7
  <2>9. /\ mid < InnerSlots + 1
        /\ InnerSlots - mid = InnerSlots + 1 - mid - 1
        /\ InnerSlots - mid + 1 = InnerSlots + 2 - mid - 1
    BY <1>1
  <2>20. \A i \in 1 .. Len(x.keys) - mid - 1 : h.right.keys[i] = x.keys[mid + 1 + i]
    <3> SUFFICES ASSUME NEW i \in 1 .. Len(x.keys) - mid - 1
                 PROVE  h.right.keys[i] = x.keys[mid + 1 + i]
      OBVIOUS
    <3>1. Len(x.keys) = InnerSlots + 1
      BY <1>3
    <3>2. i \in 1 .. InnerSlots + 1 - mid - 1
      BY <1>1, <3>1
    <3> QED BY <2>1, <2>7, <3>2
  <2>21. \A i \in 1 .. Len(x.child) - mid - 1 : h.right.child[i] = x.child[mid + 1 + i]
    <3> SUFFICES ASSUME NEW i \in 1 .. Len(x.child) - mid - 1
                 PROVE  h.right.child[i] = x.child[mid + 1 + i]
      OBVIOUS
    <3>1. Len(x.child) = InnerSlots + 2
      BY <1>3
    <3>2. i \in 1 .. InnerSlots + 2 - mid - 1
      BY <1>1, <3>1
    <3> QED BY <2>1, <2>8, <3>2
  <2>22. mid < Len(x.keys) /\ h.key = x.keys[mid + 1]
    BY <1>1, <1>3, <2>1, <2>4
  <2>23. \A i \in 1 .. mid : h.left.keys[i] = x.keys[i]
    BY <2>1, <2>5
  <2>24. \A i \in 1 .. mid + 1 : h.left.child[i] = x.child[i]
    BY <2>1, <2>6
  <2>25. Len(h.left.keys) = mid /\ Len(h.left.child) = mid + 1
    BY <1>1, <1>2, <1>3, <2>1, <2>3, <2>9
  <2>26. /\ Len(h.right.keys) = Len(x.keys) - mid - 1
         /\ Len(h.right.child) = Len(x.child) - mid - 1
    BY <1>1, <1>2, <1>3, <2>1, <2>3, <2>9
  <2> QED BY <2>20, <2>21, <2>22, <2>23, <2>24, <2>25, <2>26 DEF Cut
<1>7. s <= mid \/ s > mid
  BY <1>1
<1>8. mid \in Nat /\ mid + 1 \in Nat
  BY <1>1
<1> QED BY <1>4, <1>5, <1>6, <1>7, <1>8 DEF x, h

Couples(q, w) == {<<q[i], w[i]>> : i \in 1 .. Len(q)}

\* a sequence with one more
LEMMA PutAt ==
  ASSUME NEW q \in Seq(Nat), NEW z \in 1 .. Len(q) + 1, NEW e \in Nat
  PROVE  /\ Len(InsertAt(q, z, e)) = Len(q) + 1
         /\ \A j \in 1 .. Len(q) + 1 :
              InsertAt(q, z, e)[j] = IF j < z THEN q[j] ELSE IF j = z THEN e ELSE q[j - 1]
<1>1. PICK p, y, x : p = q /\ y = z /\ x = e
  OBVIOUS
<1>2. p \in Seq(Nat) /\ y \in 1 .. Len(p) + 1 /\ x \in Nat /\ Len(p) \in Nat
  BY <1>1
<1>3. Len(InsertAt(p, y, x)) = Len(p) + 1 /\ \A j \in 1 .. Len(p) + 1 :
        InsertAt(p, y, x)[j] = IF j < y THEN p[j] ELSE IF j = y THEN x ELSE p[j - 1]
  BY <1>2, Inserted
<1> QED BY <1>1, <1>3

\* one key and one value more
LEMMA CouplesWith ==
  ASSUME NEW q \in Seq(Nat), NEW w \in Seq(Nat), Len(w) = Len(q), NEW z \in 1 .. Len(q) + 1,
         NEW e \in Nat, NEW f \in Nat
  PROVE  Couples(InsertAt(q, z, e), InsertAt(w, z, f)) = Couples(q, w) \cup {<<e, f>>}
<1>1. PICK new, old : new = InsertAt(q, z, e) /\ old = InsertAt(w, z, f)
  OBVIOUS
<1>2. Len(q) \in Nat
  OBVIOUS
<1>3. Len(new) = Len(q) + 1 /\ \A j \in 1 .. Len(q) + 1 :
        /\ new[j] = IF j < z THEN q[j] ELSE IF j = z THEN e ELSE q[j - 1]
        /\ old[j] = IF j < z THEN w[j] ELSE IF j = z THEN f ELSE w[j - 1]
  <2>1. z \in 1 .. Len(w) + 1
    OBVIOUS
  <2>2. Len(InsertAt(q, z, e)) = Len(q) + 1 /\ \A j \in 1 .. Len(q) + 1 :
          InsertAt(q, z, e)[j] = IF j < z THEN q[j] ELSE IF j = z THEN e ELSE q[j - 1]
    BY PutAt, SMTT(30)
  <2>3. \A j \in 1 .. Len(w) + 1 :
          InsertAt(w, z, f)[j] = IF j < z THEN w[j] ELSE IF j = z THEN f ELSE w[j - 1]
    BY <2>1, PutAt
  <2> QED BY <1>1, <2>2, <2>3
<1>4. ASSUME NEW j \in 1 .. Len(new) PROVE <<new[j], old[j]>> \in Couples(q, w) \cup {<<e, f>>}
  <2>1. PICK i : i = j - 1
    OBVIOUS
  <2>2. j \in 1 .. Len(q) + 1 /\ (j < z => j \in 1 .. Len(q)) /\ (j > z => i \in 1 .. Len(q))
    BY <1>2, <1>3, <2>1
  <2>3. /\ new[j] = IF j < z THEN q[j] ELSE IF j = z THEN e ELSE q[i]
        /\ old[j] = IF j < z THEN w[j] ELSE IF j = z THEN f ELSE w[i]
    BY <1>3, <2>1, <2>2
  <2>4. j < z \/ j = z \/ j > z
    BY <1>2, <2>2
  <2>5. CASE j < z
    BY <2>2, <2>3, <2>5 DEF Couples
  <2>6. CASE j = z
    <3>1. ~(j < z)
      BY <2>6
    <3> QED BY <2>3, <2>6, <3>1
  <2>7. CASE j > z
    <3>1. ~(j < z) /\ j # z
      BY <2>2, <2>7
    <3> QED BY <2>2, <2>3, <2>7, <3>1 DEF Couples
  <2> QED BY <2>4, <2>5, <2>6, <2>7
<1>5. <<e, f>> \in Couples(new, old)
  <2>1. z \in 1 .. Len(new) /\ new[z] = e /\ old[z] = f
    BY <1>2, <1>3
  <2> QED BY <2>1 DEF Couples
<1>6. ASSUME NEW i \in 1 .. Len(q) PROVE <<q[i], w[i]>> \in Couples(new, old)
  <2>1. CASE i < z
    <3>1. i \in 1 .. Len(new) /\ new[i] = q[i] /\ old[i] = w[i]
      BY <1>2, <1>3, <2>1
    <3> QED BY <3>1 DEF Couples
  <2>2. CASE i >= z
    <3>1. PICK j : j = i + 1
      OBVIOUS
    <3>2. j \in 1 .. Len(new) /\ j \in 1 .. Len(q) + 1 /\ ~(j < z) /\ j # z /\ j - 1 = i
      BY <1>2, <1>3, <2>2, <3>1
    <3>3. new[j] = q[i] /\ old[j] = w[i]
      BY <1>3, <3>2
    <3> QED BY <3>2, <3>3 DEF Couples
  <2> QED BY <1>2, <2>1, <2>2
<1>7. Couples(new, old) \subseteq Couples(q, w) \cup {<<e, f>>}
  <2> SUFFICES ASSUME NEW p \in Couples(new, old) PROVE p \in Couples(q, w) \cup {<<e, f>>}
    OBVIOUS
  <2>1. PICK j \in 1 .. Len(new) : p = <<new[j], old[j]>>
    BY DEF Couples
  <2> QED BY <1>4, <2>1
<1>8. Couples(q, w) \subseteq Couples(new, old)
  <2> SUFFICES ASSUME NEW p \in Couples(q, w) PROVE p \in Couples(new, old)
    OBVIOUS
  <2>1. PICK i \in 1 .. Len(q) : p = <<q[i], w[i]>>
    BY DEF Couples
  <2> QED BY <1>6, <2>1
<1> QED BY <1>1, <1>5, <1>7, <1>8

\* keys and values cut behind the m-th
LEMMA CouplesCut ==
  ASSUME NEW q \in Seq(Nat), NEW w \in Seq(Nat), Len(w) = Len(q), NEW m \in Nat, 1 <= m, m < Len(q)
  PROVE  Couples(q, w) = Couples(SubSeq(q, 1, m), SubSeq(w, 1, m)) \cup
                     Couples(SubSeq(q, m + 1, Len(q)), SubSeq(w, m + 1, Len(q)))
<1>1. PICK a, b, c, d, l : /\ a = SubSeq(q, 1, m) /\ b = SubSeq(q, m + 1, l) /\ l = Len(q)
                           /\ c = SubSeq(w, 1, m) /\ d = SubSeq(w, m + 1, l)
  OBVIOUS
<1>2. l \in Nat /\ m < l /\ m + 1 \in Int /\ 1 <= m + 1 /\ m + 1 <= l /\ l - (m + 1) + 1 = l - m
  BY <1>1
<1>3. /\ Len(a) = m /\ \A i \in 1 .. m : a[i] = q[i] /\ c[i] = w[i]
      /\ Len(b) = l - m /\ \A i \in 1 .. l - m : b[i] = q[m + i] /\ d[i] = w[m + i]
  <2>1. Len(a) = m /\ \A i \in 1 .. m - 1 + 1 : a[i] = q[1 + i - 1] /\ c[i] = w[1 + i - 1]
    BY <1>1, <1>2, Part
  <2>2. /\ Len(b) = l - (m + 1) + 1
        /\ \A i \in 1 .. l - (m + 1) + 1 : b[i] = q[m + 1 + i - 1] /\ d[i] = w[m + 1 + i - 1]
    BY <1>1, <1>2, Part, SMTT(30)
  <2>3. \A i \in 1 .. m : i \in 1 .. m - 1 + 1 /\ 1 + i - 1 = i
    BY <1>2
  <2>4. \A i \in 1 .. l - m : i \in 1 .. l - (m + 1) + 1 /\ m + 1 + i - 1 = m + i
    BY <1>2
  <2> QED BY <1>2, <2>1, <2>2, <2>3, <2>4
<1>4. ASSUME NEW p \in Couples(q, w) PROVE p \in Couples(a, c) \cup Couples(b, d)
  <2>1. PICK i \in 1 .. l : p = <<q[i], w[i]>>
    BY <1>1 DEF Couples
  <2>2. CASE i <= m
    <3>1. i \in 1 .. Len(a) /\ a[i] = q[i] /\ c[i] = w[i]
      BY <1>2, <1>3, <2>2
    <3> QED BY <2>1, <3>1 DEF Couples
  <2>3. CASE i > m
    <3>1. PICK j : j = i - m
      OBVIOUS
    <3>2. j \in 1 .. l - m /\ m + j = i
      BY <1>2, <2>3, <3>1
    <3>3. j \in 1 .. Len(b) /\ b[j] = q[i] /\ d[j] = w[i]
      BY <1>3, <3>2
    <3> QED BY <2>1, <3>3 DEF Couples
  <2> QED BY <1>2, <2>2, <2>3
<1>5. ASSUME NEW p \in Couples(a, c) PROVE p \in Couples(q, w)
  <2>1. PICK i \in 1 .. m : p = <<q[i], w[i]>>
    BY <1>3 DEF Couples
  <2>2. i \in 1 .. Len(q)
    BY <1>1, <1>2
  <2> QED BY <2>1, <2>2 DEF Couples
<1>6. ASSUME NEW p \in Couples(b, d) PROVE p \in Couples(q, w)
  <2>1. PICK i \in 1 .. l - m : p = <<q[m + i], w[m + i]>>
    BY <1>3, ZenonT(40) DEF Couples
  <2>2. m + i \in 1 .. Len(q)
    BY <1>1, <1>2
  <2> QED BY <2>1, <2>2 DEF Couples
<1>7. Couples(q, w) = Couples(a, c) \cup Couples(b, d)
  BY <1>4, <1>5, <1>6
<1> QED BY <1>1, <1>7
=============================================================================
