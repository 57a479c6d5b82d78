---------------------------- MODULE BTree_proofs -----------------------------
(***************************************************************************)
(* Proofs about the B+ tree of BTree, for any number of threads, any       *)
(* rounds of calls, any number of slots and nodes.  Variables keep         *)
(* their types, every lock has exactly the holders that the positions of   *)
(* the threads say, and a slot found on the way down stays right for as    *)
(* long as the lock is held it was found under.  Keys are in order: there  *)
(* is a set of keys for each node, its span, that the separators above it  *)
(* and all threads below it agree with (OInv), so that separators are what *)
(* verify() wants and the leaves are one ascending list.  And it           *)
(* implements MapSpec.  What a step does to the tree itself is in          *)
(* BTreeShape_proofs.                                                      *)
(***************************************************************************)
EXTENDS BTreeShape_proofs, WellFoundedInduction

(* What a step of a thread leaves alone                                    *)

ThreadTyped ==
  /\ pc \in [Threads -> Places]
  /\ call \in [Threads -> Calls \cup {None}]
  /\ mode \in [Threads -> {"read", "try", "sure"}]
  /\ at \in [Threads -> Nodes \cup {Tree, Null}]
  /\ path \in [Threads -> Seq([node : Nodes \cup {Tree}, slot : Nat])]
  /\ carry \in [Threads -> [key : Nat, node : Nodes \cup {Null}]]
  /\ seen \in [Threads -> Seq(Nat \X Nat)]
  /\ ret \in [Threads -> Int]
  /\ round \in 1 .. Len(Work)
  /\ todo \in [Threads -> SUBSET Calls]
  /\ must \in [Threads -> SUBSET Nat]
LocksTyped == /\ writer \in [Nodes \cup {Tree} -> BOOLEAN]
              /\ readers \in [Nodes \cup {Tree} -> Nat]

\* the variables of u
Alone(u) == /\ pc'[u] = pc[u] /\ call'[u] = call[u] /\ mode'[u] = mode[u] /\ at'[u] = at[u]
            /\ path'[u] = path[u] /\ carry'[u] = carry[u]

\* the parts of the types
LEMMA Typed == TypeOK <=> TreeTyped /\ LocksTyped /\ ThreadTyped
BY DEF TypeOK, TreeTyped, LocksTyped, ThreadTyped, Allocated

\* a step of t leaves the other threads where they are
LEMMA OthersAlone ==
  ASSUME ThreadTyped, NEW t \in Threads, Step(t), NEW u \in Threads, u # t
  PROVE  Alone(u)
<1> USE DEF Alone, ThreadTyped, place, driver
<1>1. \A where : Goto(t, where) => pc'[u] = pc[u]
  BY DEF Goto
<1>2. \A n, f : Approach(t, n, f) => pc'[u] = pc[u] /\ at'[u] = at[u] /\ path'[u] = path[u]
  BY <1>1 DEF Approach
<1>3. Forget(t) => pc'[u] = pc[u] /\ at'[u] = at[u] /\ path'[u] = path[u] /\ call'[u] = call[u]
                   /\ mode'[u] = mode[u]
  BY <1>1 DEF Forget
<1>4. \A r : Return(t, r) => Alone(u)
  BY <1>3 DEF Return
<1>5. Restart(t) => Alone(u)
  BY <1>2 DEF Restart
<1>6. \A r, up : TurnBack(t, r, up) => Alone(u)
  BY <1>1 DEF TurnBack
<1>7. \A up : Pop(t, up) => Alone(u)
  BY <1>3 DEF Pop
<1>8. CASE Start(t) \/ ScanNothing(t) \/ ReadLock(t) \/ WriteLock(t) \/ Drain(t)
  BY <1>1, <1>2, <1>8 DEF Start, ScanNothing, ReadLock, WriteLock, Drain
<1>9. CASE EnterTree(t) \/ ReadEmpty(t) \/ TryEmpty(t) \/ FirstLeaf(t) \/ Descend(t) \/ DescendSure(t)
  BY <1>2, <1>3, <1>4, <1>5, <1>9 DEF EnterTree, ReadEmpty, TryEmpty, FirstLeaf, Descend, DescendSure
<1>10. CASE Lookup(t) \/ ScanOn(t) \/ ScanEnd(t)
  BY <1>2, <1>3, <1>4, <1>10 DEF Lookup, ScanOn, ScanEnd
<1>11. CASE TryPresent(t) \/ TryInsert(t) \/ TryUpgrade(t) \/ TryRestart(t)
  BY <1>1, <1>4, <1>5, <1>11 DEF TryPresent, TryInsert, TryUpgrade, TryRestart
<1>12. CASE UpgradeLost(t) \/ UpgradeWon(t) \/ UpgradeDrain(t)
  BY <1>1, <1>2, <1>5, <1>12 DEF UpgradeLost, UpgradeWon, UpgradeDrain
<1>13. CASE SurePresent(t) \/ SureInsert(t) \/ SureSplit(t)
  BY <1>6, <1>13 DEF SurePresent, SureInsert, SureSplit
<1>14. CASE ClimbPast(t) \/ ClimbInsert(t) \/ ClimbSplit(t) \/ NewRoot(t)
  BY <1>7, <1>14 DEF ClimbPast, ClimbInsert, ClimbSplit, NewRoot
<1> QED BY <1>8, <1>9, <1>10, <1>11, <1>12, <1>13, <1>14 DEF Step

\* a thread on its way is not where it holds a lock, and no node is on its way twice
LEMMA Apart ==
  ASSUME IInv, NEW t \in Threads
  PROVE  /\ Walking(t) => at[t] \notin Held(t) /\ at[t] \in Nodes \cup {Tree}
         /\ \A i, j \in 1 .. Len(path[t]) : i # j => Node(t, i) # Node(t, j)
<1> DEFINE l == Len(path[t])
<1>1. TypeOK /\ TreeTyped /\ TreeOK /\ PlaceOK(t) /\ PathOK(t)
  BY Parts
<1>2. l \in Nat /\ Held(t) = {Node(t, i) : i \in 1 .. l} /\ (path[t] # <<>> <=> l > 0)
  BY <1>1, PathFacts
<1>3. ASSUME NEW i \in 1 .. l
      PROVE  Node(t, i) \in Allocated \cup {Tree} /\ (Node(t, i) = Tree => i = 1)
  BY <1>1 DEF PathOK
<1>4. ASSUME NEW i \in 1 .. l, NEW j \in 1 .. l, i < j, Node(t, i) # Tree
      PROVE  heap[Node(t, i)].level > heap[Node(t, j)].level
  BY <1>1, <1>4 DEF PathOK
<1>5. \A n \in Allocated : n \in Nodes /\ heap[n].level \in Int /\ n # Tree /\ n # Null
  BY <1>1, InUse, NodeFacts
<1>6. ASSUME NEW i \in 1 .. l, NEW j \in 1 .. l, i < j
      PROVE  Node(t, i) # Node(t, j)
  <2>1. Node(t, j) # Tree
    BY <1>2, <1>3, <1>6
  <2>2. CASE Node(t, i) = Tree
    BY <2>1, <2>2
  <2>3. CASE Node(t, i) # Tree
    <3>1. heap[Node(t, i)].level > heap[Node(t, j)].level /\ heap[Node(t, j)].level \in Int
      BY <1>3, <1>4, <1>5, <1>6, <2>1, <2>3
    <3> QED BY <3>1
  <2> QED BY <2>2, <2>3
<1>7. \A i, j \in 1 .. l : i # j => Node(t, i) # Node(t, j)
  BY <1>2, <1>6
<1>8. ASSUME Walking(t) PROVE at[t] \notin Held(t) /\ at[t] \in Nodes \cup {Tree}
  <2>1. at[t] \in Allocated \cup {Tree} /\ (at[t] = Tree <=> path[t] = <<>>) /\ pc[t] # "climb"
    BY <1>1, <1>8 DEF PlaceOK, Walking
  <2>2. CASE path[t] = <<>>
    BY <1>2, <2>1, <2>2
  <2>3. CASE path[t] # <<>>
    <3>1. at[t] \in Allocated /\ l \in 1 .. l /\ Leads(t, Node(t, l), at[t])
      BY <1>1, <1>2, <2>1, <2>3 DEF PathOK
    <3>2. ASSUME NEW i \in 1 .. l, Node(t, i) = at[t] PROVE FALSE
      <4>1. Node(t, i) # Tree /\ at[t] # Tree
        BY <1>5, <3>1, <3>2
      <4>2. CASE Node(t, l) = Tree
        BY <1>3, <3>1, <4>1, <4>2
      <4>3. CASE Node(t, l) # Tree /\ heap[at[t]].level = heap[Node(t, l)].level - 1
        <5>1. heap[at[t]].level \in Int /\ heap[Node(t, l)].level \in Int
          BY <1>3, <1>5, <3>1, <4>3
        <5>2. i # l
          BY <3>2, <4>3, <5>1
        <5>3. heap[at[t]].level > heap[Node(t, l)].level
          BY <1>2, <1>4, <3>1, <3>2, <4>1, <5>2
        <5> QED BY <4>3, <5>1, <5>3
      <4>4. CASE at[t] # Node(t, l) /\ Scanning(t)
        <5>1. mode[t] # "sure"
          BY <1>1, <4>4 DEF PlaceOK, Scanning
        <5>2. l <= 1
          BY <1>1, <5>1 DEF PlaceOK
        <5> QED BY <1>2, <3>1, <3>2, <4>4, <5>2
      <4> QED BY <3>1, <4>2, <4>3, <4>4 DEF Leads
    <3> QED BY <1>2, <1>5, <3>1, <3>2
  <2> QED BY <2>2, <2>3
<1> QED BY <1>7, <1>8

-------------------------------------------------------------------------------
(* Types                                                                   *)

Frames == [node : Nodes \cup {Tree}, slot : Nat]

\* the child in a slot
LEMMA ChildFacts ==
  ASSUME TreeTyped, TreeOK, NEW n \in Allocated, heap[n].level > 0, NEW s \in 0 .. Len(Keys(n))
  PROVE  /\ ChildAt(n, s) \in Allocated /\ ChildAt(n, s) \in Nodes
         /\ heap[ChildAt(n, s)].level = heap[n].level - 1
<1>1. InnerOK(n) /\ n \in Nodes
  BY InUse DEF TreeOK
<1>2. Len(Keys(n)) \in Nat /\ Len(heap[n].child) = Len(Keys(n)) + 1
  BY <1>1, NodeFacts DEF InnerOK
<1>3. s + 1 \in 1 .. Len(heap[n].child)
  BY <1>2
<1>4. heap[n].child[s + 1] \in Allocated /\ heap[heap[n].child[s + 1]].level = heap[n].level - 1
  BY <1>1, <1>3 DEF InnerOK
<1> QED BY <1>4, InUse DEF ChildAt

\* a thread at an inner node
LEMMA AtInner ==
  ASSUME IInv, NEW t \in Threads, InInner(t)
  PROVE  /\ at[t] \in Allocated /\ at[t] \in Nodes /\ at[t] # Tree /\ heap[at[t]].level > 0
         /\ pc[t] = "visit" /\ path[t] # <<>> /\ ~IsLeaf(at[t])
         /\ SlotIn(at[t], K(t)) \in Nat /\ SlotIn(at[t], K(t)) <= Len(Keys(at[t]))
         /\ ChildAt(at[t], SlotIn(at[t], K(t))) \in Allocated
         /\ ChildAt(at[t], SlotIn(at[t], K(t))) \in Nodes
         /\ heap[ChildAt(at[t], SlotIn(at[t], K(t)))].level = heap[at[t]].level - 1
<1>1. TypeOK /\ TreeTyped /\ TreeOK /\ PlaceOK(t)
  BY Parts
<1>2. at[t] \in Nodes /\ heap[at[t]].level > 0 /\ pc[t] = "visit"
  BY DEF InInner
<1>3. at[t] \in Allocated
  BY <1>1, <1>2 DEF TreeOK, Blank
<1>4. K(t) \in Nat /\ Len(Keys(at[t])) \in Nat /\ SlotIn(at[t], K(t)) \in 0 .. Len(Keys(at[t]))
  BY <1>1, <1>2, CallFacts, NodeFacts
<1>5. at[t] # Tree
  BY <1>2, Constants
<1>6. path[t] # <<>>
  BY <1>1, <1>2, <1>5 DEF PlaceOK, Walking
<1>7. /\ ChildAt(at[t], SlotIn(at[t], K(t))) \in Allocated
      /\ ChildAt(at[t], SlotIn(at[t], K(t))) \in Nodes
      /\ heap[ChildAt(at[t], SlotIn(at[t], K(t)))].level = heap[at[t]].level - 1
  BY <1>1, <1>2, <1>3, <1>4, ChildFacts
<1> QED BY <1>2, <1>3, <1>4, <1>5, <1>6, <1>7 DEF IsLeaf

\* a thread that upgrades its lock on the parent of the leaf
LEMMA AtParent ==
  ASSUME IInv, NEW t \in Threads, pc[t] \in {"upgrade", "updrain"}
  PROVE  /\ Parent(t) \in Allocated /\ Parent(t) \in Nodes /\ heap[Parent(t)].level > 0
         /\ Len(path[t]) = 1 /\ Parent(t) = Node(t, 1) /\ Held(t) = {Parent(t)}
         /\ path[t] # <<>> /\ ~InnerFull(Parent(t)) /\ ~Scanning(t)
         /\ path[t] = <<Frame(Parent(t), path[t][1].slot)>>
         /\ path[t][1].slot \in Nat /\ path[t][1].slot <= Len(Keys(Parent(t)))
         /\ path[t][1].slot = SlotIn(Parent(t), K(t))
         /\ ChildAt(Parent(t), path[t][1].slot) \in Allocated
         /\ ChildAt(Parent(t), path[t][1].slot) \in Nodes
         /\ heap[ChildAt(Parent(t), path[t][1].slot)].level = heap[Parent(t)].level - 1
<1> DEFINE p == Node(t, 1)
           s == path[t][1].slot
<1>1. TypeOK /\ TreeTyped /\ TreeOK /\ PlaceOK(t) /\ PathOK(t) /\ CarryOK(t)
  BY Parts
<1>2. Len(path[t]) = 1 /\ p # Tree /\ mode[t] \in {"try", "sure"}
      /\ pc[t] # "climb" /\ (pc[t] = "upgrade" \/ mode[t] = "sure")
  BY <1>1 DEF PlaceOK
<1>3. Parent(t) = p
  BY <1>2 DEF Parent, Node
<1>4. path[t] # <<>> /\ 1 \in 1 .. Len(path[t]) /\ path[t] \in Seq(Frames)
  <2>1. /\ path[t] \in Seq([node : Nodes \cup {Tree}, slot : Nat])
        /\ path[t] # <<>> <=> Len(path[t]) > 0
    BY <1>1, PathFacts
  <2> QED BY <1>2, <2>1 DEF Frames
<1>5. p \in Allocated /\ SlotOK(t, 1)
  BY <1>1, <1>2, <1>4 DEF PathOK
<1>6. s \in Nat
  BY <1>1, <1>4, PathFacts
<1>7. ~Scanning(t)
  BY <1>1, <1>2 DEF PlaceOK, Scanning
<1>8. s <= Len(Keys(p)) /\ s = SlotIn(p, K(t))
  BY <1>2, <1>5, <1>7 DEF SlotOK
<1>9. ~InnerFull(p) /\ heap[p].level > 0
  BY <1>1, <1>2, <1>4 DEF CarryOK
<1>10. p \in Nodes /\ Len(Keys(p)) \in Nat
  BY <1>1, <1>5, InUse, NodeFacts
<1>11. ChildAt(p, s) \in Allocated /\ ChildAt(p, s) \in Nodes
       /\ heap[ChildAt(p, s)].level = heap[p].level - 1
  BY <1>1, <1>5, <1>6, <1>8, <1>9, <1>10, ChildFacts
<1>12. Held(t) = {p}
  BY <1>1, <1>2, PathFacts
<1>13. path[t] = <<Frame(p, s)>>
  <2>1. path[t][1] = Frame(p, s)
    <3>1. path[t][1] \in Frames
      BY <1>4, ElementOfSeq
    <3> QED BY <3>1 DEF Frames, Frame, Node
  <2> DEFINE f == path[t]
             e == Frame(p, s)
  <2>2. f \in Seq(Frames) /\ Len(f) = 1 /\ f[1] = e
    BY <1>2, <1>4, <2>1
  <2> HIDE DEF f, e, p, s
  <2>3. f = <<e>>
    BY <2>2
  <2> QED BY <2>3 DEF f, e
<1> QED BY <1>2, <1>3, <1>4, <1>5, <1>6, <1>7, <1>8, <1>9, <1>10, <1>11, <1>12, <1>13

\* keys and values of a scanned part of a leaf
LEMMA ApplyTyped ==
  ASSUME IInv, NEW t \in Threads, InLeaf(t), Scanning(t), Apply(t, at[t])
  PROVE  seen' \in [Threads -> Seq(Nat \X Nat)]
<1> DEFINE n == at[t]
           s == SlotIn(n, K(t))
           e == EndSlot(t, n)
           more == [i \in 1 .. e - s |-> <<heap[n].keys[s + i], heap[n].vals[s + i]>>]
           l == Len(Keys(n))
<1>1. TypeOK /\ TreeTyped /\ TreeOK
  BY Parts
<1>2. n \in Nodes /\ LeafOK(n)
  BY <1>1, AtLeaf
<1>3. /\ heap[n].keys \in Seq(Nat) /\ heap[n].vals \in Seq(Nat) /\ l \in Nat
      /\ Len(heap[n].keys) = l /\ Len(heap[n].vals) = l
  BY <1>1, <1>2, NodeFacts DEF LeafOK, Keys
<1>4. s \in 0 .. l /\ SlotIn(n, call[t].arg) \in 0 .. l /\ call[t].arg \in Nat
  BY <1>1, <1>2, CallFacts, NodeFacts
<1>5. seen[t] \in Seq(Nat \X Nat) /\ Len(seen[t]) \in Nat
  BY <1>1 DEF TypeOK
<1>6. e \in Int /\ e <= l
  <2>1. CASE Op(t) = "range"
    BY <1>3, <1>4, <2>1 DEF EndSlot
  <2>2. CASE Op(t) # "range"
    <3> DEFINE d == s + call[t].arg - Len(seen[t])
    <3>1. e = IF d < l THEN d ELSE l
      BY <1>3, <2>2 DEF EndSlot
    <3>2. d \in Int
      BY <1>4, <1>5
    <3> HIDE DEF d, e
    <3> QED BY <1>3, <3>1, <3>2
  <2> QED BY <2>1, <2>2
<1>7. seen' = [seen EXCEPT ![t] = @ \o more]
  BY DEF Apply
<1>8. more \in Seq(Nat \X Nat)
  <2> HIDE DEF s, e, l
  <2>1. ASSUME NEW i \in 1 .. e - s
        PROVE  <<heap[n].keys[s + i], heap[n].vals[s + i]>> \in Nat \X Nat
    <3>1. s + i \in 1 .. l
      BY <1>3, <1>4, <1>6
    <3>2. heap[n].keys[s + i] \in Nat /\ heap[n].vals[s + i] \in Nat
      BY <1>3, <3>1, ElementOfSeq
    <3> QED BY <3>2
  <2>2. PICK z \in Nat : 1 .. e - s = 1 .. z
    <3>1. CASE e - s >= 0
      <4>1. e - s \in Nat
        BY <1>3, <1>4, <1>6, <3>1
      <4> QED BY <4>1
    <3>2. CASE e - s < 0
      <4>1. 1 .. e - s = 1 .. 0
        BY <1>3, <1>4, <1>6, <3>2
      <4> QED BY <4>1
    <3>3. e - s \in Int
      BY <1>3, <1>4, <1>6
    <3> QED BY <3>1, <3>2, <3>3
  <2>3. more \in [1 .. z -> Nat \X Nat]
    BY <2>1, <2>2
  <2> HIDE DEF more
  <2> QED BY <2>3, SeqDef
<1> HIDE DEF more
<1>9. seen[t] \o more \in Seq(Nat \X Nat)
  BY <1>5, <1>8, ConcatProperties
<1> QED BY <1>1, <1>7, <1>9 DEF TypeOK

\* the thread variables keep their types
LEMMA StepTyped ==
  ASSUME IInv, NEW t \in Threads, Step(t)
  PROVE  ThreadTyped'
<1> USE DEF place, driver
<1>1. TypeOK /\ TreeTyped /\ TreeOK /\ PlaceOK(t) /\ ThreadTyped
  BY Parts, Typed
<1>2. ASSUME NEW where \in Places, Goto(t, where) PROVE pc' \in [Threads -> Places]
  BY <1>1, <1>2 DEF Goto, ThreadTyped
<1>3. ASSUME NEW n \in Nodes \cup {Tree}, NEW f \in Seq(Frames), Approach(t, n, f)
      PROVE  /\ pc' \in [Threads -> Places] /\ at' \in [Threads -> Nodes \cup {Tree, Null}]
             /\ path' \in [Threads -> Seq(Frames)]
  <2>1. "lock" \in Places
    BY DEF Places
  <2> QED BY <1>1, <1>2, <1>3, <2>1 DEF Approach, ThreadTyped, Frames
<1>4. ASSUME Forget(t)
      PROVE  /\ pc' \in [Threads -> Places] /\ at' \in [Threads -> Nodes \cup {Tree, Null}]
             /\ path' \in [Threads -> Seq(Frames)] /\ call' \in [Threads -> Calls \cup {None}]
             /\ mode' \in [Threads -> {"read", "try", "sure"}] /\ must' \in [Threads -> SUBSET Nat]
             /\ todo' = todo /\ round' = round
  <2>1. "idle" \in Places /\ <<>> \in Seq(Frames)
    BY DEF Places
  <2> QED BY <1>1, <1>2, <1>4, <2>1 DEF Forget, ThreadTyped, Frames
<1>5. ASSUME NEW r \in Int, Return(t, r) PROVE ThreadTyped'
  BY <1>1, <1>4, <1>5 DEF Return, ThreadTyped, Frames
<1>6. ASSUME Restart(t) PROVE ThreadTyped'
  <2>1. Tree \in Nodes \cup {Tree} /\ <<>> \in Seq(Frames)
    OBVIOUS
  <2> QED BY <1>1, <1>3, <1>6, <2>1 DEF Restart, ThreadTyped, Frames
<1>7. ASSUME NEW r \in Int, NEW up \in [key : Nat, node : Nodes \cup {Null}], TurnBack(t, r, up)
      PROVE  ThreadTyped'
  <2>1. "climb" \in Places
    BY DEF Places
  <2> QED BY <1>1, <1>2, <1>7, <2>1 DEF TurnBack, ThreadTyped
<1>8. ASSUME NEW up \in [key : Nat, node : Nodes \cup {Null}], Pop(t, up) PROVE ThreadTyped'
  <2>1. pc[t] = "climb" /\ path[t] # <<>> /\ path[t] \in Seq(Frames)
    BY <1>1, <1>8 DEF Pop, PlaceOK, ThreadTyped, Frames
  <2>2. Front(path[t]) \in Seq(Frames)
    BY <2>1, WithoutLast
  <2> HIDE DEF Frames
  <2>3. carry' \in [Threads -> [key : Nat, node : Nodes \cup {Null}]] /\ seen' = seen /\ ret' = ret
    BY <1>1, <1>8 DEF Pop, ThreadTyped
  <2>4. CASE Len(path[t]) = 1
    BY <1>1, <1>4, <1>8, <2>3, <2>4 DEF Pop, ThreadTyped, Frames
  <2>5. CASE Len(path[t]) # 1
    <3>1. path' = [path EXCEPT ![t] = Front(@)] /\ UNCHANGED <<pc, call, mode, at, driver, must>>
      BY <1>8, <2>5 DEF Pop
    <3>2. path' \in [Threads -> Seq(Frames)]
      BY <1>1, <2>2, <3>1 DEF ThreadTyped, Frames
    <3> QED BY <1>1, <2>3, <3>1, <3>2 DEF ThreadTyped, Frames
  <2> QED BY <2>4, <2>5
<1>9. /\ NoChild \in [key : Nat, node : Nodes \cup {Null}] /\ 0 \in Int /\ 1 \in Int /\ 0 \in Nat
      /\ <<>> \in Seq(Frames) /\ Tree \in Nodes \cup {Tree} /\ Null \notin Nodes
      /\ {"idle", "lock", "drain", "visit", "upgrade", "updrain", "climb"} = Places
  BY Constants DEF NoChild, Places
<1>10. ASSUME NEW n \in Nodes \cup {Tree}, NEW s \in Nat
       PROVE  Frame(n, s) \in Frames /\ <<Frame(n, s)>> \in Seq(Frames)
  <2>1. Frame(n, s) \in Frames
    BY DEF Frame, Frames
  <2> DEFINE e == Frame(n, s)
  <2> HIDE DEF e
  <2>2. e \in Frames => <<e>> \in Seq(Frames)
    OBVIOUS
  <2> QED BY <2>1, <2>2 DEF e
<1>11. CASE Start(t)
  <2>1. PICK c \in todo[t] : /\ call' = [call EXCEPT ![t] = c]
                             /\ todo' = [todo EXCEPT ![t] = @ \ {c}]
                             /\ mode' = [mode EXCEPT ![t] = IF c.op = "insert" THEN "try" ELSE "read"]
                             /\ seen' = [seen EXCEPT ![t] = <<>>]
                             /\ must' = [must EXCEPT ![t] = IF c.op \in {"range", "length"} THEN Contents ELSE {}]
                             /\ Approach(t, Tree, <<>>)
                             /\ UNCHANGED <<carry, ret, round>>
    BY <1>11 DEF Start, Take
  <2>2. Contents \subseteq Nat
    <3>1. ASSUME NEW n \in Chained PROVE KeysOf(n) \subseteq Nat
      <4>1. n \in Nodes
        BY DEF Chained
      <4>2. Keys(n) \in Seq(Nat)
        BY <1>1, <4>1, NodeFacts
      <4> QED BY <4>2, ElementOfSeq DEF KeysOf, Keys
    <3> QED BY <3>1 DEF Contents
  <2>3. must' \in [Threads -> SUBSET Nat]
    BY <1>1, <2>1, <2>2 DEF ThreadTyped
  <2>4. call' \in [Threads -> Calls \cup {None}] /\ todo' \in [Threads -> SUBSET Calls]
    BY <1>1, <2>1 DEF ThreadTyped
  <2>5. seen' \in [Threads -> Seq(Nat \X Nat)] /\ mode' \in [Threads -> {"read", "try", "sure"}]
    BY <1>1, <2>1 DEF ThreadTyped
  <2> QED BY <1>1, <1>3, <1>9, <2>1, <2>3, <2>4, <2>5 DEF ThreadTyped, Frames
<1>12. CASE ScanNothing(t)
  <2>1. seen' \in [Threads -> Seq(Nat \X Nat)] /\ todo' \in [Threads -> SUBSET Calls]
        /\ UNCHANGED <<tree, locks, pc, call, mode, place, carry, ret, round, must>>
    BY <1>1, <1>12 DEF ScanNothing, Take, ThreadTyped
  <2> QED BY <1>1, <2>1 DEF ThreadTyped
<1>13. CASE ReadLock(t) \/ WriteLock(t) \/ Drain(t)
  <2>1. pc' \in [Threads -> Places]
    BY <1>2, <1>9, <1>13 DEF ReadLock, WriteLock, Drain
  <2> QED BY <1>1, <1>13, <2>1 DEF ThreadTyped, ReadLock, WriteLock, Drain
<1>14. CASE EnterTree(t)
  <2>1. root \in Nodes /\ Approach(t, root, <<Frame(Tree, 0)>>)
        /\ UNCHANGED <<call, mode, carry, seen, ret, driver, must>>
    BY <1>1, <1>14, InUse DEF EnterTree, TreeTyped
  <2>2. <<Frame(Tree, 0)>> \in Seq(Frames)
    BY <1>9, <1>10
  <2> QED BY <1>1, <1>3, <2>1, <2>2 DEF ThreadTyped, Frames
<1>15. CASE ReadEmpty(t)
  BY <1>1, <1>4, <1>5, <1>9, <1>15 DEF ReadEmpty, ThreadTyped, Frames
<1>16. CASE TryEmpty(t)
  BY <1>6, <1>16 DEF TryEmpty
<1>17. CASE FirstLeaf(t)
  <2>1. used + 1 \in Nodes /\ Approach(t, used + 1, <<Frame(Tree, 0)>>)
        /\ UNCHANGED <<call, mode, carry, seen, ret, driver, must>>
    BY <1>1, <1>17, InUse, Constants DEF FirstLeaf
  <2>2. <<Frame(Tree, 0)>> \in Seq(Frames)
    BY <1>9, <1>10
  <2> QED BY <1>1, <1>3, <2>1, <2>2 DEF ThreadTyped, Frames
<1>18. CASE Descend(t) \/ DescendSure(t)
  <2> DEFINE n == at[t]
             s == SlotIn(n, K(t))
             b == ChildAt(n, s)
  <2>1. InInner(t) /\ UNCHANGED <<call, mode, carry, seen, ret, driver, must>>
        /\ (Approach(t, b, <<Frame(n, s)>>) \/ Approach(t, b, Append(path[t], Frame(n, s))))
    BY <1>18 DEF Descend, DescendSure
  <2>2. n \in Nodes /\ s \in Nat /\ b \in Nodes
    BY <2>1, AtInner
  <2> HIDE DEF n, s, b
  <2>3. <<Frame(n, s)>> \in Seq(Frames) /\ Frame(n, s) \in Frames
    BY <1>10, <2>2
  <2>4. Append(path[t], Frame(n, s)) \in Seq(Frames)
    <3>1. path[t] \in Seq(Frames)
      BY <1>1 DEF ThreadTyped, Frames
    <3> QED BY <2>3, <3>1, Appended
  <2> QED BY <1>1, <1>3, <2>1, <2>2, <2>3, <2>4 DEF ThreadTyped, Frames
<1>19. CASE Lookup(t)
  <2> DEFINE n == at[t]
             s == SlotIn(n, K(t))
  <2>1. InLeaf(t) /\ \E r \in (IF Op(t) = "value" THEN ValueAt(n, s, K(t)) ELSE ExistsAt(n, s, K(t))) : Return(t, r)
    BY <1>19 DEF Lookup
  <2>2. PICK r : Return(t, r) /\ r \in ValueAt(n, s, K(t)) \cup ExistsAt(n, s, K(t))
    BY <2>1
  <2>3. n \in Nodes /\ LeafOK(n)
    BY <1>1, <2>1, AtLeaf
  <2>4. HasAt(n, s, K(t)) => heap[n].vals[s + 1] \in Nat
    <3>1. s \in 0 .. Len(Keys(n)) /\ Len(Keys(n)) \in Nat /\ heap[n].vals \in Seq(Nat)
      BY <1>1, <2>3, CallFacts, NodeFacts
    <3>2. Len(heap[n].vals) = Len(Keys(n)) /\ Keys(n) = heap[n].keys
      BY <2>3 DEF LeafOK, Keys
    <3>3. HasAt(n, s, K(t)) => s + 1 \in 1 .. Len(heap[n].vals)
      BY <3>1, <3>2 DEF HasAt
    <3> QED BY <3>1, <3>3, ElementOfSeq
  <2>5. r \in Int
    <3> HIDE DEF n, s
    <3> QED BY <2>2, <2>4 DEF ValueAt, ExistsAt, Stray
  <2> QED BY <1>5, <2>2, <2>5
<1>20. CASE ScanOn(t)
  <2> DEFINE n == at[t]
             b == heap[n].next
  <2>1. /\ InLeaf(t) /\ Scanning(t) /\ b # Null /\ Apply(t, n)
        /\ Approach(t, b, <<Frame(n, 0)>>) /\ UNCHANGED <<call, mode, carry, ret, driver, must>>
    BY <1>20 DEF ScanOn, MovesOn
  <2>2. n \in Nodes /\ b \in Nodes
    BY <1>1, <2>1, AtLeaf, NodeFacts
  <2>3. seen' \in [Threads -> Seq(Nat \X Nat)]
    BY <2>1, ApplyTyped
  <2> HIDE DEF n, b
  <2>4. <<Frame(n, 0)>> \in Seq(Frames)
    BY <1>9, <1>10, <2>2
  <2> QED BY <1>1, <1>3, <2>1, <2>2, <2>3, <2>4 DEF ThreadTyped, Frames
<1>21. CASE ScanEnd(t)
  <2>1. InLeaf(t) /\ Scanning(t) /\ Apply(t, at[t]) /\ Forget(t) /\ UNCHANGED <<carry, ret>>
    BY <1>21 DEF ScanEnd
  <2>2. seen' \in [Threads -> Seq(Nat \X Nat)]
    BY <2>1, ApplyTyped
  <2> QED BY <1>1, <1>4, <2>1, <2>2 DEF ThreadTyped, Frames
<1>22. CASE TryPresent(t) \/ TryInsert(t)
  BY <1>5, <1>9, <1>22 DEF TryPresent, TryInsert
<1>23. CASE TryUpgrade(t)
  BY <1>1, <1>2, <1>9, <1>23 DEF TryUpgrade, ThreadTyped
<1>24. CASE TryRestart(t) \/ UpgradeLost(t)
  BY <1>6, <1>24 DEF TryRestart, UpgradeLost
<1>25. CASE UpgradeWon(t)
  <2>1. /\ Goto(t, "updrain") /\ mode' = [mode EXCEPT ![t] = "sure"]
        /\ UNCHANGED <<tree, call, place, carry, seen, ret, driver, must>>
    BY <1>25 DEF UpgradeWon
  <2>2. pc' \in [Threads -> Places]
    BY <1>2, <1>9, <2>1
  <2> QED BY <1>1, <2>1, <2>2 DEF ThreadTyped
<1>26. CASE UpgradeDrain(t)
  <2> DEFINE b == ChildAt(Parent(t), path[t][1].slot)
  <2>1. pc[t] = "updrain" /\ Approach(t, b, path[t]) /\ UNCHANGED <<call, mode, carry, seen, ret, driver, must>>
    BY <1>26 DEF UpgradeDrain
  <2>2. b \in Nodes
    BY <2>1, AtParent
  <2>3. path[t] \in Seq(Frames)
    BY <1>1 DEF ThreadTyped, Frames
  <2> HIDE DEF b
  <2> QED BY <1>1, <1>3, <2>1, <2>2, <2>3 DEF ThreadTyped, Frames
<1>27. CASE SurePresent(t) \/ SureInsert(t)
  BY <1>7, <1>9, <1>27 DEF SurePresent, SureInsert
<1>28. CASE SureSplit(t)
  <2>1. PICK k : TurnBack(t, 1, [key |-> k, node |-> used + 1])
               /\ k = SubSeq(heap[at[t]].keys, 1, LeafSlots \div 2)[LeafSlots \div 2]
    <3> DEFINE x == heap[at[t]]
               mid == LeafSlots \div 2
               left == [x EXCEPT !.keys = SubSeq(@, 1, mid), !.vals = SubSeq(@, 1, mid), !.next = used + 1]
    <3>1. TurnBack(t, 1, [key |-> left.keys[mid], node |-> used + 1]) /\ InLeaf(t)
      BY <1>28 DEF SureSplit, Inserting
    <3>2. x \in NodeType
      BY <1>1, <3>1, AtLeaf
    <3>3. left.keys = SubSeq(x.keys, 1, mid)
      <4> HIDE DEF mid, x
      <4> QED BY <3>2 DEF NodeType
    <3> HIDE DEF left
    <3> QED BY <3>1, <3>3
  <2>2. InLeaf(t) /\ LeafFull(at[t]) /\ used < MaxNodes
    BY <1>28 DEF SureSplit, Inserting
  <2>3. k \in Nat
    <3> DEFINE q == heap[at[t]].keys
               m == LeafSlots \div 2
    <3>1. q \in Seq(Nat) /\ Len(q) = LeafSlots
      BY <1>1, <2>2, AtLeaf, NodeFacts DEF LeafFull, Keys
    <3>2. m \in Int /\ 1 <= m /\ m <= LeafSlots /\ m - 1 + 1 = m /\ m \in 1 .. LeafSlots
      BY Constants
    <3> HIDE DEF q, m
    <3>3. \A i \in 1 .. m - 1 + 1 : SubSeq(q, 1, m)[i] = q[1 + i - 1]
      BY <3>1, <3>2, Part
    <3>4. SubSeq(q, 1, m)[m] = q[m]
      BY <3>2, <3>3
    <3>5. q[m] \in Nat
      BY <3>1, <3>2, ElementOfSeq
    <3> QED BY <2>1, <3>4, <3>5 DEF q, m
  <2>4. used + 1 \in Nodes
    BY <1>1, <2>2, InUse, Constants
  <2>5. [key |-> k, node |-> used + 1] \in [key : Nat, node : Nodes \cup {Null}]
    BY <2>3, <2>4
  <2> QED BY <1>7, <1>9, <2>1, <2>5
<1>29. CASE ClimbPast(t) \/ ClimbInsert(t) \/ NewRoot(t)
  BY <1>8, <1>9, <1>29 DEF ClimbPast, ClimbInsert, NewRoot
<1>30. CASE ClimbSplit(t)
  <2> DEFINE h == Halves(heap[Top(t).node], Top(t).slot, carry[t])
  <2>1. /\ Pop(t, [key |-> h.key, node |-> used + 1]) /\ used < MaxNodes /\ pc[t] = "climb"
        /\ carry[t] # NoChild /\ Top(t).node # Tree /\ InnerFull(Top(t).node)
    BY <1>30 DEF ClimbSplit
  <2>2. h.key \in Nat
    <3> DEFINE x == heap[Top(t).node]
               s == Top(t).slot
               up == carry[t]
    <3>1. /\ x \in NodeType /\ Len(x.keys) = InnerSlots /\ Len(x.child) = InnerSlots + 1
          /\ s \in 0 .. InnerSlots
      BY <2>1, TopFacts DEF InnerFull
    <3>2. up \in [key : Nat, node : Nodes]
      BY <2>1, ClimbFacts
    <3> HIDE DEF x, s, up
    <3>3. LET z == Halves(x, s, up) IN z.key \in Nat
      BY <3>1, <3>2, SplitNode
    <3> QED BY <3>3 DEF x, s, up
  <2> HIDE DEF h
  <2>3. used + 1 \in Nodes
    BY <1>1, <2>1, InUse, Constants
  <2>4. [key |-> h.key, node |-> used + 1] \in [key : Nat, node : Nodes \cup {Null}]
    BY <2>2, <2>3
  <2> QED BY <1>8, <2>1, <2>4
<1> QED BY <1>11, <1>12, <1>13, <1>14, <1>15, <1>16, <1>17, <1>18, <1>19, <1>20, <1>21, <1>22, <1>23,
           <1>24, <1>25, <1>26, <1>27, <1>28, <1>29, <1>30 DEF Step

-------------------------------------------------------------------------------
(* Locks                                                                   *)

Lockables == Nodes \cup {Tree}

\* the counters and flags change as the locks do that t holds
LockMoves(t) ==
  /\ writer' \in [Lockables -> BOOLEAN] /\ readers' \in [Lockables -> Int]
  /\ \A n \in Lockables :
       /\ n \in ReadHeld(t)' /\ n \notin ReadHeld(t) => ~writer[n] /\ readers'[n] = readers[n] + 1
       /\ n \notin ReadHeld(t)' /\ n \in ReadHeld(t) => readers'[n] = readers[n] - 1
       /\ (n \in ReadHeld(t)' <=> n \in ReadHeld(t)) => readers'[n] = readers[n]
       /\ n \in WriteHeld(t)' /\ n \notin WriteHeld(t) => ~writer[n] /\ writer'[n]
       /\ n \notin WriteHeld(t)' /\ n \in WriteHeld(t) => ~writer'[n]
       /\ (n \in WriteHeld(t)' <=> n \in WriteHeld(t)) => writer'[n] = writer[n]
  /\ \A n \in Own(t)' : n \in Own(t) \/ (n \in Lockables /\ readers'[n] = 0)

\* what a thread holds, by where it is
LEMMA Holdings ==
  ASSUME NEW t \in Threads, ThreadTyped
  PROVE  /\ pc[t] \notin {"drain", "visit"} =>
              /\ ReadHeld(t) = IF mode[t] = "sure" THEN {} ELSE Held(t)
              /\ WriteHeld(t) = IF mode[t] = "sure" THEN Held(t) ELSE {}
              /\ Own(t) = IF mode[t] = "sure" /\ pc[t] # "updrain" THEN Held(t) ELSE {}
         /\ pc[t] = "drain" /\ ForWriting(t, at[t]) =>
              /\ ReadHeld(t) = IF mode[t] = "sure" THEN {} ELSE Held(t)
              /\ WriteHeld(t) = {at[t]} \cup IF mode[t] = "sure" THEN Held(t) ELSE {}
              /\ Own(t) = IF mode[t] = "sure" THEN Held(t) ELSE {}
         /\ pc[t] = "visit" /\ ForWriting(t, at[t]) =>
              /\ ReadHeld(t) = IF mode[t] = "sure" THEN {} ELSE Held(t)
              /\ WriteHeld(t) = {at[t]} \cup IF mode[t] = "sure" THEN Held(t) ELSE {}
              /\ Own(t) = {at[t]} \cup IF mode[t] = "sure" THEN Held(t) ELSE {}
         /\ pc[t] = "visit" /\ ~ForWriting(t, at[t]) =>
              /\ ReadHeld(t) = Held(t) \cup {at[t]} /\ WriteHeld(t) = {} /\ Own(t) = {}
              /\ mode[t] # "sure"
         /\ mode[t] = "read" => ~ForWriting(t, at[t])
         /\ mode[t] = "sure" => ForWriting(t, at[t])
         /\ mode[t] = "try" => (ForWriting(t, at[t]) <=> IsLeaf(at[t]))
<1>1. mode[t] \in {"read", "try", "sure"} /\ pc[t] \in Places
  BY DEF ThreadTyped
<1> QED BY <1>1 DEF ReadHeld, WriteHeld, Own, ForWriting

\* the same after a step
LEMMA HoldingsAfter ==
  ASSUME NEW t \in Threads, ThreadTyped'
  PROVE  /\ pc'[t] \notin {"drain", "visit"} =>
              /\ ReadHeld(t)' = IF mode'[t] = "sure" THEN {} ELSE Held(t)'
              /\ WriteHeld(t)' = IF mode'[t] = "sure" THEN Held(t)' ELSE {}
              /\ Own(t)' = IF mode'[t] = "sure" /\ pc'[t] # "updrain" THEN Held(t)' ELSE {}
         /\ pc'[t] = "drain" /\ ForWriting(t, at[t])' =>
              /\ ReadHeld(t)' = IF mode'[t] = "sure" THEN {} ELSE Held(t)'
              /\ WriteHeld(t)' = {at'[t]} \cup IF mode'[t] = "sure" THEN Held(t)' ELSE {}
              /\ Own(t)' = IF mode'[t] = "sure" THEN Held(t)' ELSE {}
         /\ pc'[t] = "visit" /\ ForWriting(t, at[t])' =>
              /\ ReadHeld(t)' = IF mode'[t] = "sure" THEN {} ELSE Held(t)'
              /\ WriteHeld(t)' = {at'[t]} \cup IF mode'[t] = "sure" THEN Held(t)' ELSE {}
              /\ Own(t)' = {at'[t]} \cup IF mode'[t] = "sure" THEN Held(t)' ELSE {}
         /\ pc'[t] = "visit" /\ ~ForWriting(t, at[t])' =>
              /\ ReadHeld(t)' = Held(t)' \cup {at'[t]} /\ WriteHeld(t)' = {} /\ Own(t)' = {}
              /\ mode'[t] # "sure"
<1>1. mode'[t] \in {"read", "try", "sure"} /\ pc'[t] \in Places
  BY DEF ThreadTyped
<1> QED BY <1>1 DEF ReadHeld, WriteHeld, Own, ForWriting

\* the locks of a path after a step
LEMMA HeldAfter ==
  ASSUME IInv, NEW t \in Threads
  PROVE  /\ path'[t] = <<>> => Held(t)' = {}
         /\ path'[t] = path[t] => Held(t)' = Held(t)
         /\ \A n, s : path'[t] = <<Frame(n, s)>> => Held(t)' = {n}
         /\ \A n, s : path'[t] = Append(path[t], Frame(n, s)) => Held(t)' = Held(t) \cup {n}
         /\ path[t] # <<>> /\ path'[t] = Front(path[t]) => Held(t)' = Held(t) \ {Top(t).node}
         /\ path[t] # <<>> /\ Len(path[t]) = 1 => Held(t) = {Top(t).node}
<1>1. path[t] \in Seq(Frames) /\ Held(t) = {path[t][i].node : i \in 1 .. Len(path[t])}
  BY Parts, PathFacts DEF Frames, Held
<1>2. Held(t)' = {path'[t][i].node : i \in 1 .. Len(path'[t])}
  BY DEF Held
<1>3. path'[t] = <<>> => Held(t)' = {}
  BY <1>2
<1>4. path'[t] = path[t] => Held(t)' = Held(t)
  BY <1>1, <1>2
<1>5. ASSUME NEW n, NEW s, path'[t] = <<Frame(n, s)>> PROVE Held(t)' = {n}
  <2> DEFINE e == Frame(n, s)
             f == path'[t]
  <2>1. f = <<e>> /\ e.node = n
    BY <1>5 DEF Frame
  <2> HIDE DEF e, f
  <2>2. Len(f) = 1 /\ f[1] = e
    BY <2>1
  <2>3. {f[i].node : i \in 1 .. Len(f)} = {n}
    BY <2>1, <2>2
  <2> QED BY <1>2, <2>3 DEF f
<1>6. ASSUME NEW n, NEW s, path'[t] = Append(path[t], Frame(n, s)) PROVE Held(t)' = Held(t) \cup {n}
  <2> DEFINE e == Frame(n, s)
             f == path'[t]
             p == path[t]
             l == Len(p)
  <2>1. f = Append(p, e) /\ e.node = n /\ l \in Nat /\ Held(t) = {p[i].node : i \in 1 .. l}
    BY <1>1, <1>6 DEF Frame
  <2>2. Len(f) = l + 1 /\ f[l + 1] = e /\ \A i \in 1 .. l : f[i] = p[i]
    <3> HIDE DEF e, f, p
    <3>1. p \in Seq(Frames)
      BY <1>1 DEF p
    <3> QED BY <2>1, <3>1, AppendProperties
  <2> HIDE DEF e, f, p, l
  <2>3. {f[i].node : i \in 1 .. l + 1} = {p[i].node : i \in 1 .. l} \cup {n}
    <3>1. \A i \in 1 .. l + 1 : i \in 1 .. l \/ i = l + 1
      BY <2>1
    <3>2. \A i \in 1 .. l : i \in 1 .. l + 1
      BY <2>1
    <3>3. l + 1 \in 1 .. l + 1
      BY <2>1
    <3>4. ASSUME NEW i \in 1 .. l + 1 PROVE f[i].node \in {p[j].node : j \in 1 .. l} \cup {n}
      BY <2>1, <2>2, <3>1
    <3>5. ASSUME NEW i \in 1 .. l PROVE p[i].node \in {f[j].node : j \in 1 .. l + 1}
      BY <2>2, <3>2
    <3>6. n \in {f[j].node : j \in 1 .. l + 1}
      BY <2>1, <2>2, <3>3
    <3> QED BY <3>4, <3>5, <3>6
  <2> QED BY <1>2, <2>1, <2>2, <2>3 DEF f
<1>7. ASSUME path[t] # <<>>, path'[t] = Front(path[t]) PROVE Held(t)' = Held(t) \ {Top(t).node}
  <2> DEFINE p == path[t]
             f == path'[t]
             l == Len(p)
  <2>1. /\ Len(f) = l - 1 /\ l > 0 /\ \A i \in 1 .. l - 1 : f[i] = p[i]
    BY <1>1, <1>7, WithoutLast
  <2>2. l \in Nat /\ Top(t).node = p[l].node /\ Held(t) = {p[i].node : i \in 1 .. l}
    BY <1>1 DEF Top
  <2>3. \A i, j \in 1 .. l : i # j => p[i].node # p[j].node
    BY Apart DEF Node
  <2> HIDE DEF p, f, l
  <2>4. {f[i].node : i \in 1 .. l - 1} = {p[i].node : i \in 1 .. l} \ {p[l].node}
    <3>1. \A i \in 1 .. l : i \in 1 .. l - 1 \/ i = l
      BY <2>2
    <3>2. \A i \in 1 .. l - 1 : i \in 1 .. l /\ i # l
      BY <2>2
    <3>3. l \in 1 .. l
      BY <2>1, <2>2
    <3>4. ASSUME NEW i \in 1 .. l - 1 PROVE f[i].node \in {p[j].node : j \in 1 .. l} \ {p[l].node}
      BY <2>1, <2>3, <3>2, <3>3
    <3>5. ASSUME NEW i \in 1 .. l, p[i].node # p[l].node PROVE p[i].node \in {f[j].node : j \in 1 .. l - 1}
      BY <2>1, <3>1, <3>5
    <3> QED BY <3>4, <3>5
  <2> QED BY <1>2, <2>1, <2>2, <2>4 DEF f
<1>8. path[t] # <<>> /\ Len(path[t]) = 1 => Held(t) = {Top(t).node}
  BY <1>1 DEF Top
<1> QED BY <1>3, <1>4, <1>5, <1>6, <1>7, <1>8

\* letting go of some locks, and of no others
LEMMA LetGo ==
  ASSUME LocksTyped, NEW t \in Threads, NEW R, NEW W, Release(R, W),
         R \subseteq ReadHeld(t), ReadHeld(t)' = ReadHeld(t) \ R,
         W \subseteq WriteHeld(t), WriteHeld(t)' = WriteHeld(t) \ W, Own(t)' \subseteq Own(t)
  PROVE  LockMoves(t)
<1>1. /\ DOMAIN readers = Lockables /\ DOMAIN writer = Lockables
      /\ \A n \in Lockables : readers[n] \in Nat /\ writer[n] \in BOOLEAN
  BY DEF LocksTyped, Lockables
<1>2. /\ readers' = [n \in Lockables |-> readers[n] - IF n \in R THEN 1 ELSE 0]
      /\ writer' = [n \in Lockables |-> writer[n] /\ n \notin W]
  BY <1>1 DEF Release
<1>3. readers' \in [Lockables -> Int]
  BY <1>1, <1>2
<1>4. writer' \in [Lockables -> BOOLEAN]
  BY <1>1, <1>2
<1>5. ASSUME NEW n \in Lockables
      PROVE  /\ n \in R => readers'[n] = readers[n] - 1
             /\ n \notin R => readers'[n] = readers[n]
             /\ n \in W => ~writer'[n]
             /\ n \notin W => writer'[n] = writer[n]
  <2>1. readers'[n] = readers[n] - IF n \in R THEN 1 ELSE 0
    BY <1>2
  <2>2. writer'[n] = (writer[n] /\ n \notin W)
    BY <1>2
  <2>3. (n \in R => readers'[n] = readers[n] - 1) /\ (n \notin R => readers'[n] = readers[n])
    BY <1>1, <2>1
  <2>4. (n \in W => ~writer'[n]) /\ (n \notin W => writer'[n] = writer[n])
    <3>1. writer[n] \in BOOLEAN
      BY <1>1
    <3> QED BY <2>2, <3>1, Zenon
  <2> QED BY <2>3, <2>4
<1> QED BY <1>3, <1>4, <1>5 DEF LockMoves

\* no lock taken or let go
LEMMA KeepsLocks ==
  ASSUME LocksTyped, NEW t \in Threads, UNCHANGED locks,
         ReadHeld(t)' = ReadHeld(t), WriteHeld(t)' = WriteHeld(t),
         \A n \in Own(t)' : n \in Own(t) \/ (n \in Lockables /\ readers[n] = 0)
  PROVE  LockMoves(t)
BY DEF LockMoves, LocksTyped, Lockables, locks

\* what a thread holds where it visits, on its way or back up
LEMMA StepLocks ==
  ASSUME IInv, NEW t \in Threads, Step(t)
  PROVE  LockMoves(t)
<1> DEFINE a == at[t]
           H == Held(t)
<1>1. /\ TypeOK /\ TreeTyped /\ TreeOK /\ PlaceOK(t) /\ PathOK(t) /\ CarryOK(t)
      /\ LocksTyped /\ ThreadTyped /\ ThreadTyped'
  BY Parts, Typed, StepTyped
<1>2. /\ pc[t] \in Places /\ mode[t] \in {"read", "try", "sure"}
      /\ t \in DOMAIN pc /\ t \in DOMAIN mode /\ t \in DOMAIN at /\ t \in DOMAIN path /\ t \in DOMAIN call
  BY <1>1 DEF ThreadTyped
<1>3. /\ \A where : Goto(t, where) => pc'[t] = where
      /\ \A n, f : Approach(t, n, f) => pc'[t] = "lock" /\ at'[t] = n /\ path'[t] = f
      /\ Forget(t) => pc'[t] = "idle" /\ path'[t] = <<>> /\ mode'[t] = "read"
      /\ \A r : Return(t, r) => pc'[t] = "idle" /\ path'[t] = <<>> /\ mode'[t] = "read"
      /\ Restart(t) => pc'[t] = "lock" /\ path'[t] = <<>> /\ mode'[t] = "sure"
  BY <1>2 DEF Goto, Approach, Forget, Return, Restart
<1>4. Walking(t) => a \notin H /\ a \in Lockables
  BY Apart DEF Lockables
<1>5. pc[t] = "visit" => Walking(t)
  BY DEF Walking
<1>6. ~IsLeaf(Tree)
  BY Constants DEF IsLeaf
\* with no path and not at a node, nothing is held
<1>7. ASSUME path'[t] = <<>>, pc'[t] \in {"lock", "idle"}
      PROVE  ReadHeld(t)' = {} /\ WriteHeld(t)' = {} /\ Own(t)' = {}
  <2>1. Held(t)' = {}
    BY <1>7, HeldAfter
  <2> QED BY <1>1, <1>7, <2>1, HoldingsAfter
<1>8. CASE Start(t)
  <2>1. pc[t] = "idle" /\ path[t] = <<>> /\ mode[t] = "read" /\ UNCHANGED locks /\ Approach(t, Tree, <<>>)
    BY <1>1, <1>8 DEF Start, PlaceOK
  <2>2. ReadHeld(t) = {} /\ WriteHeld(t) = {}
    BY <1>1, <2>1, Holdings DEF Held
  <2> QED BY <1>1, <1>3, <1>7, <2>1, <2>2, KeepsLocks
<1>9. CASE ScanNothing(t)
  <2>1. UNCHANGED <<tree, locks, pc, mode, place>>
    BY <1>9 DEF ScanNothing
  <2>2. ReadHeld(t)' = ReadHeld(t) /\ WriteHeld(t)' = WriteHeld(t) /\ Own(t)' = Own(t)
    BY <2>1 DEF ReadHeld, WriteHeld, Own, Held, ForWriting, IsLeaf, tree, place
  <2> QED BY <1>1, <2>1, <2>2, KeepsLocks
<1>10. CASE ReadLock(t)
  <2>1. /\ pc[t] = "lock" /\ ~ForWriting(t, a) /\ ~writer[a] /\ readers' = [readers EXCEPT ![a] = @ + 1]
        /\ pc'[t] = "visit" /\ UNCHANGED <<tree, writer, mode, place>>
    BY <1>3, <1>10 DEF ReadLock
  <2>2. ~ForWriting(t, at[t])' /\ Held(t)' = Held(t) /\ at'[t] = a /\ mode'[t] = mode[t]
    BY <2>1 DEF ForWriting, IsLeaf, Held, tree, place
  <2>3. mode[t] # "sure"
    BY <2>1 DEF ForWriting
  <2>4. ReadHeld(t) = H /\ WriteHeld(t) = {} /\ ReadHeld(t)' = H \cup {a} /\ WriteHeld(t)' = {} /\ Own(t)' = {}
    BY <1>1, <2>1, <2>2, <2>3, Holdings, HoldingsAfter
  <2>5. a \notin H /\ a \in Lockables
    BY <1>4, <2>1 DEF Walking
  <2>6. readers' \in [Lockables -> Int] /\ writer' \in [Lockables -> BOOLEAN] /\ writer' = writer
        /\ \A n \in Lockables : readers'[n] = IF n = a THEN readers[n] + 1 ELSE readers[n]
    BY <1>1, <2>1, <2>5 DEF LocksTyped, Lockables
  <2> HIDE DEF a, H
  <2> QED BY <2>1, <2>4, <2>5, <2>6 DEF LockMoves
<1>11. CASE WriteLock(t)
  <2>1. /\ pc[t] = "lock" /\ ForWriting(t, a) /\ ~writer[a] /\ writer' = [writer EXCEPT ![a] = TRUE]
        /\ pc'[t] = "drain" /\ UNCHANGED <<tree, readers, mode, place>>
    BY <1>3, <1>11 DEF WriteLock
  <2>2. ForWriting(t, at[t])' /\ Held(t)' = Held(t) /\ at'[t] = a /\ mode'[t] = mode[t]
    BY <2>1 DEF ForWriting, IsLeaf, Held, tree, place
  <2>3. a \notin H /\ a \in Lockables
    BY <1>4, <2>1 DEF Walking
  <2>4. /\ ReadHeld(t)' = ReadHeld(t) /\ WriteHeld(t)' = WriteHeld(t) \cup {a} /\ a \notin WriteHeld(t)
        /\ Own(t)' = Own(t)
    BY <1>1, <2>1, <2>2, <2>3, Holdings, HoldingsAfter
  <2> HIDE DEF a, H
  <2>5. readers' \in [Lockables -> Int] /\ writer' \in [Lockables -> BOOLEAN] /\ readers' = readers
        /\ \A n \in Lockables : writer'[n] = IF n = a THEN TRUE ELSE writer[n]
    <3>1. writer \in [Lockables -> BOOLEAN] /\ readers \in [Lockables -> Nat]
      BY <1>1 DEF LocksTyped, Lockables
    <3>2. readers' \in [Lockables -> Int] /\ readers' = readers
      BY <2>1, <3>1
    <3>3. writer' \in [Lockables -> BOOLEAN]
      BY <2>1, <2>3, <3>1
    <3>4. \A n \in Lockables : writer'[n] = IF n = a THEN TRUE ELSE writer[n]
      BY <2>1, <2>3, <3>1
    <3> QED BY <3>2, <3>3, <3>4
  <2>6. ASSUME NEW n \in Lockables
        PROVE  /\ n \in WriteHeld(t)' /\ n \notin WriteHeld(t) => ~writer[n] /\ writer'[n]
               /\ n \notin WriteHeld(t)' /\ n \in WriteHeld(t) => ~writer'[n]
               /\ (n \in WriteHeld(t)' <=> n \in WriteHeld(t)) => writer'[n] = writer[n]
    BY <2>1, <2>4, <2>5
  <2> QED BY <2>4, <2>5, <2>6 DEF LockMoves
<1>12. CASE Drain(t)
  <2>1. /\ pc[t] = "drain" /\ readers[a] = 0 /\ pc'[t] = "visit" /\ UNCHANGED <<tree, locks, mode, place>>
    BY <1>3, <1>12 DEF Drain
  <2>2. ForWriting(t, a)
    BY <1>1, <2>1 DEF PlaceOK
  <2>3. ForWriting(t, at[t])' /\ Held(t)' = Held(t) /\ at'[t] = a /\ mode'[t] = mode[t]
    BY <2>1, <2>2 DEF ForWriting, IsLeaf, Held, tree, place
  <2>4. ReadHeld(t)' = ReadHeld(t) /\ WriteHeld(t)' = WriteHeld(t) /\ Own(t)' = Own(t) \cup {a}
    BY <1>1, <2>1, <2>2, <2>3, Holdings, HoldingsAfter
  <2>5. a \in Lockables
    BY <1>4, <2>1 DEF Walking
  <2> QED BY <1>1, <2>1, <2>4, <2>5, KeepsLocks
<1>13. CASE EnterTree(t) \/ FirstLeaf(t)
  <2>1. /\ pc[t] = "visit" /\ a = Tree /\ UNCHANGED <<locks, mode>>
        /\ \E n : Approach(t, n, <<Frame(Tree, 0)>>)
    BY <1>13 DEF EnterTree, FirstLeaf, Visiting
  <2>2. H = {}
    BY <1>1, <2>1 DEF PlaceOK, Walking, Held
  <2>3. Held(t)' = {Tree} /\ pc'[t] = "lock" /\ mode'[t] = mode[t]
    BY <1>3, <2>1, HeldAfter
  <2>4. mode[t] # "sure" => ~ForWriting(t, a)
    BY <1>1, <1>2, <1>6, <2>1, Holdings
  <2>5. ReadHeld(t)' = ReadHeld(t) /\ WriteHeld(t)' = WriteHeld(t) /\ Own(t)' = Own(t)
    BY <1>1, <2>1, <2>2, <2>3, <2>4, Holdings, HoldingsAfter, ZenonT(40)
  <2> QED BY <1>1, <2>1, <2>5, KeepsLocks
<1>14. CASE ReadEmpty(t) \/ TryEmpty(t)
  <2>1. /\ pc[t] = "visit" /\ a = Tree /\ mode[t] \in {"read", "try"} /\ Release({Tree}, {})
        /\ pc'[t] \in {"idle", "lock"} /\ path'[t] = <<>>
    BY <1>3, <1>14 DEF ReadEmpty, TryEmpty, Visiting
  <2>2. H = {}
    BY <1>1, <2>1 DEF PlaceOK, Walking, Held
  <2>3. ReadHeld(t) = {Tree} /\ WriteHeld(t) = {}
    BY <1>1, <1>6, <2>1, <2>2, Holdings
  <2> QED BY <1>1, <1>7, <2>1, <2>3, LetGo
<1>15. CASE Descend(t)
  <2>1. /\ InInner(t) /\ mode[t] \in {"read", "try"} /\ Release(H, {}) /\ UNCHANGED mode
        /\ Approach(t, ChildAt(a, SlotIn(a, K(t))), <<Frame(a, SlotIn(a, K(t)))>>)
    BY <1>15 DEF Descend
  <2>2. pc[t] = "visit" /\ ~ForWriting(t, a)
    BY <1>1, <2>1, AtInner, Holdings
  <2>3. Held(t)' = {a} /\ pc'[t] = "lock" /\ mode'[t] = mode[t]
    BY <1>3, <2>1, HeldAfter
  <2>4. ReadHeld(t) = H \cup {a} /\ WriteHeld(t) = {} /\ ReadHeld(t)' = {a} /\ WriteHeld(t)' = {} /\ Own(t)' = {}
    BY <1>1, <2>1, <2>2, <2>3, Holdings, HoldingsAfter
  <2>5. a \notin H
    BY <1>4, <1>5, <2>2
  <2> QED BY <1>1, <2>1, <2>4, <2>5, LetGo
<1>16. CASE DescendSure(t)
  <2>1. /\ InInner(t) /\ mode[t] = "sure" /\ UNCHANGED <<locks, mode>>
        /\ Approach(t, ChildAt(a, SlotIn(a, K(t))), Append(path[t], Frame(a, SlotIn(a, K(t)))))
    BY <1>16 DEF DescendSure
  <2>2. pc[t] = "visit"
    BY <2>1, AtInner
  <2>3. Held(t)' = H \cup {a} /\ pc'[t] = "lock" /\ mode'[t] = mode[t]
    <3> DEFINE s == SlotIn(a, K(t))
               b == ChildAt(a, s)
    <3>1. Approach(t, b, Append(path[t], Frame(a, s)))
      BY <2>1
    <3> HIDE DEF s, b
    <3>2. path'[t] = Append(path[t], Frame(a, s)) /\ pc'[t] = "lock"
      BY <1>3, <3>1
    <3>3. Held(t)' = H \cup {a}
      BY <3>2, HeldAfter
    <3> QED BY <2>1, <3>2, <3>3
  <2>4. ReadHeld(t)' = ReadHeld(t) /\ WriteHeld(t)' = WriteHeld(t) /\ Own(t)' = Own(t)
    BY <1>1, <2>1, <2>2, <2>3, Holdings, HoldingsAfter
  <2> QED BY <1>1, <2>1, <2>4, KeepsLocks
<1>17. CASE Lookup(t) \/ ScanEnd(t)
  <2>1. /\ InLeaf(t) /\ Op(t) \in {"exists", "value", "range", "length"} /\ Release(H \cup {a}, {})
        /\ pc'[t] = "idle" /\ path'[t] = <<>>
    BY <1>3, <1>17 DEF Lookup, ScanEnd, Scanning
  <2>2. pc[t] = "visit" /\ mode[t] = "read"
    BY <1>1, <1>2, <2>1, AtLeaf DEF PlaceOK
  <2>3. ReadHeld(t) = H \cup {a} /\ WriteHeld(t) = {}
    BY <1>1, <2>2, Holdings
  <2> QED BY <1>1, <1>7, <2>1, <2>3, LetGo
<1>18. CASE ScanOn(t)
  <2>1. /\ InLeaf(t) /\ Scanning(t) /\ Release(H, {}) /\ UNCHANGED mode
        /\ Approach(t, heap[a].next, <<Frame(a, 0)>>)
    BY <1>18 DEF ScanOn
  <2>2. pc[t] = "visit" /\ mode[t] = "read"
    BY <1>1, <1>2, <2>1, AtLeaf DEF PlaceOK, Scanning
  <2>3. Held(t)' = {a} /\ pc'[t] = "lock" /\ mode'[t] = mode[t]
    BY <1>3, <2>1, HeldAfter
  <2>4. ReadHeld(t) = H \cup {a} /\ WriteHeld(t) = {} /\ ReadHeld(t)' = {a} /\ WriteHeld(t)' = {} /\ Own(t)' = {}
    BY <1>1, <2>2, <2>3, Holdings, HoldingsAfter
  <2>5. a \notin H
    BY <1>4, <1>5, <2>2
  <2> QED BY <1>1, <2>1, <2>4, <2>5, LetGo
<1>19. ASSUME InLeaf(t), mode[t] = "try"
       PROVE  pc[t] = "visit" /\ ReadHeld(t) = H /\ WriteHeld(t) = {a}
  <2>1. pc[t] = "visit" /\ IsLeaf(a)
    BY <1>1, <1>19, AtLeaf
  <2> QED BY <1>1, <1>19, <2>1, Holdings
<1>20. CASE TryPresent(t) \/ TryInsert(t) \/ TryRestart(t)
  <2>1. InLeaf(t) /\ mode[t] = "try" /\ Release(H, {a}) /\ pc'[t] \in {"idle", "lock"} /\ path'[t] = <<>>
    BY <1>3, <1>20 DEF TryPresent, TryInsert, TryRestart, Inserting
  <2> QED BY <1>1, <1>7, <1>19, <2>1, LetGo
<1>21. CASE TryUpgrade(t)
  <2>1. InLeaf(t) /\ mode[t] = "try" /\ Release({}, {a}) /\ pc'[t] = "upgrade" /\ UNCHANGED <<mode, place>>
    BY <1>3, <1>21 DEF TryUpgrade, Inserting
  <2>2. Held(t)' = H /\ mode'[t] = "try"
    BY <2>1 DEF Held, place
  <2>3. ReadHeld(t)' = H /\ WriteHeld(t)' = {} /\ Own(t)' = {}
    BY <1>1, <2>1, <2>2, HoldingsAfter
  <2> QED BY <1>1, <1>19, <2>1, <2>3, LetGo
<1>22. CASE UpgradeLost(t)
  <2>1. pc[t] = "upgrade" /\ Release(H, {}) /\ pc'[t] = "lock" /\ path'[t] = <<>>
    BY <1>3, <1>22 DEF UpgradeLost
  <2>2. mode[t] = "try"
    BY <1>1, <2>1 DEF PlaceOK
  <2>3. ReadHeld(t) = H /\ WriteHeld(t) = {}
    BY <1>1, <2>1, <2>2, Holdings
  <2> QED BY <1>1, <1>7, <2>1, <2>3, LetGo
<1>23. CASE UpgradeWon(t)
  <2> DEFINE p == Parent(t)
  <2>1. /\ pc[t] = "upgrade" /\ ~writer[p] /\ writer' = [writer EXCEPT ![p] = TRUE]
        /\ readers' = [readers EXCEPT ![p] = @ - 1] /\ mode'[t] = "sure" /\ pc'[t] = "updrain"
        /\ UNCHANGED <<tree, place>>
    BY <1>2, <1>3, <1>23 DEF UpgradeWon
  <2>2. mode[t] = "try" /\ H = {p} /\ p \in Lockables
    BY <1>1, <2>1, AtParent DEF PlaceOK, Lockables
  <2>3. Held(t)' = H
    BY <2>1 DEF Held, place
  <2>4. ReadHeld(t) = {p} /\ WriteHeld(t) = {} /\ ReadHeld(t)' = {} /\ WriteHeld(t)' = {p} /\ Own(t)' = {}
    BY <1>1, <2>1, <2>2, <2>3, Holdings, HoldingsAfter
  <2> HIDE DEF p
  <2>5. readers' \in [Lockables -> Int] /\ writer' \in [Lockables -> BOOLEAN]
        /\ \A n \in Lockables : readers'[n] = IF n = p THEN readers[n] - 1 ELSE readers[n]
    BY <1>1, <2>1, <2>2 DEF LocksTyped, Lockables
  <2>6. \A n \in Lockables : writer'[n] = IF n = p THEN TRUE ELSE writer[n]
    BY <1>1, <2>1, <2>2 DEF LocksTyped, Lockables
  <2> HIDE DEF a, H
  <2>7. ASSUME NEW n \in Lockables
        PROVE  /\ n \in WriteHeld(t)' /\ n \notin WriteHeld(t) => ~writer[n] /\ writer'[n]
               /\ n \notin WriteHeld(t)' /\ n \in WriteHeld(t) => ~writer'[n]
               /\ (n \in WriteHeld(t)' <=> n \in WriteHeld(t)) => writer'[n] = writer[n]
    BY <2>1, <2>4, <2>6
  <2>8. ASSUME NEW n \in Lockables
        PROVE  /\ n \in ReadHeld(t)' /\ n \notin ReadHeld(t) => ~writer[n] /\ readers'[n] = readers[n] + 1
               /\ n \notin ReadHeld(t)' /\ n \in ReadHeld(t) => readers'[n] = readers[n] - 1
               /\ (n \in ReadHeld(t)' <=> n \in ReadHeld(t)) => readers'[n] = readers[n]
    BY <2>4, <2>5
  <2> QED BY <2>4, <2>5, <2>7, <2>8 DEF LockMoves
<1>24. CASE UpgradeDrain(t)
  <2> DEFINE p == Parent(t)
  <2>1. /\ pc[t] = "updrain" /\ readers[p] = 0 /\ UNCHANGED <<locks, mode>>
        /\ pc'[t] = "lock" /\ path'[t] = path[t]
    BY <1>3, <1>24 DEF UpgradeDrain
  <2>2. mode[t] = "sure" /\ H = {p} /\ p \in Lockables
    BY <1>1, <2>1, AtParent DEF PlaceOK, Lockables
  <2>3. Held(t)' = H /\ mode'[t] = mode[t]
    BY <2>1, HeldAfter
  <2>4. ReadHeld(t)' = ReadHeld(t) /\ WriteHeld(t)' = WriteHeld(t) /\ Own(t)' = {p}
    BY <1>1, <2>1, <2>2, <2>3, Holdings, HoldingsAfter
  <2> HIDE DEF p
  <2> QED BY <1>1, <2>1, <2>2, <2>4, KeepsLocks
<1>25. CASE SurePresent(t) \/ SureInsert(t) \/ SureSplit(t)
  <2>1. InLeaf(t) /\ mode[t] = "sure" /\ \E r, up : TurnBack(t, r, up)
    BY <1>25 DEF SurePresent, SureInsert, SureSplit, Inserting
  <2>2. Release({}, {a}) /\ pc'[t] = "climb" /\ mode' = mode /\ path' = path
    BY <1>3, <2>1 DEF TurnBack
  <2>3. pc[t] = "visit" /\ Held(t)' = H /\ mode'[t] = "sure"
    BY <1>1, <2>1, <2>2, AtLeaf DEF Held
  <2>4. a \notin H
    BY <1>4, <1>5, <2>3
  <2>5. /\ ReadHeld(t) = {} /\ WriteHeld(t) = H \cup {a} /\ ReadHeld(t)' = {} /\ WriteHeld(t)' = H
        /\ Own(t) = H \cup {a} /\ Own(t)' = H
    BY <1>1, <2>1, <2>2, <2>3, Holdings, HoldingsAfter
  <2> QED BY <1>1, <2>2, <2>4, <2>5, LetGo
<1>26. CASE ClimbPast(t) \/ ClimbInsert(t) \/ ClimbSplit(t) \/ NewRoot(t)
  <2> DEFINE n == Top(t).node
  <2>1. pc[t] = "climb" /\ \E up : Pop(t, up)
    BY <1>26 DEF ClimbPast, ClimbInsert, ClimbSplit, NewRoot, Pop
  <2>2. path[t] # <<>> /\ mode[t] = "sure" /\ n \in H
    BY <2>1, ClimbFacts
  <2>3. Release({}, {n})
    BY <2>1 DEF Pop
  <2>4. Held(t)' = H \ {n} /\ pc'[t] \in {"idle", "climb"}
        /\ \/ mode'[t] = "sure" /\ pc'[t] = "climb"
           \/ Held(t)' = {} /\ pc'[t] = "idle"
    <3>1. CASE Len(path[t]) = 1
      <4>1. path'[t] = <<>> /\ pc'[t] = "idle"
        BY <1>3, <2>1, <3>1 DEF Pop
      <4> QED BY <2>2, <3>1, <4>1, HeldAfter
    <3>2. CASE Len(path[t]) # 1
      <4>1. path'[t] = Front(path[t]) /\ pc'[t] = "climb" /\ mode'[t] = "sure"
        BY <1>2, <2>1, <2>2, <3>2 DEF Pop
      <4> QED BY <2>2, <4>1, HeldAfter
    <3> QED BY <3>1, <3>2
  <2>5. ReadHeld(t) = {} /\ WriteHeld(t) = H /\ Own(t) = H
    BY <1>1, <2>1, <2>2, Holdings
  <2>6. ReadHeld(t)' = {} /\ WriteHeld(t)' = H \ {n} /\ Own(t)' = H \ {n}
    <3>1. CASE mode'[t] = "sure" /\ pc'[t] = "climb"
      BY <1>1, <2>4, <3>1, HoldingsAfter
    <3>2. CASE Held(t)' = {} /\ pc'[t] = "idle"
      BY <1>1, <2>4, <3>2, HoldingsAfter
    <3> QED BY <2>4, <3>1, <3>2
  <2> HIDE DEF n
  <2> QED BY <1>1, <2>2, <2>3, <2>5, <2>6, LetGo
<1> QED BY <1>8, <1>9, <1>10, <1>11, <1>12, <1>13, <1>14, <1>15, <1>16, <1>17, <1>18, <1>20, <1>21,
           <1>22, <1>23, <1>24, <1>25, <1>26 DEF Step

\* a step of t leaves what the others hold
LEMMA OthersHold ==
  ASSUME IInv, NEW t \in Threads, Step(t), NEW u \in Threads, u # t
  PROVE  /\ ReadHeld(u)' = ReadHeld(u) /\ WriteHeld(u)' = WriteHeld(u)
         /\ Own(u)' = Own(u) /\ Held(u)' = Held(u)
<1>1. /\ TypeOK /\ TreeTyped /\ TreeOK /\ PlaceOK(u) /\ ThreadTyped
  BY Parts, Typed
<1>2. Alone(u)
  BY <1>1, OthersAlone
<1>3. /\ pc'[u] = pc[u] /\ mode'[u] = mode[u] /\ at'[u] = at[u] /\ path'[u] = path[u]
  BY <1>2 DEF Alone
<1>4. Held(u)' = Held(u)
  BY <1>3 DEF Held
<1>5. TreeStep(t)
  BY StepTree DEF TreeMoves
<1>6. ASSUME pc[u] \in {"drain", "visit"} PROVE ForWriting(u, at[u])' = ForWriting(u, at[u])
  <2>1. at[u] \in Allocated \cup {Tree}
    BY <1>1, <1>6 DEF PlaceOK, Walking
  <2>2. IsLeaf(at[u])' = IsLeaf(at[u])
    <3>1. CASE at[u] = Tree
      BY <1>3, <3>1, Constants DEF IsLeaf
    <3>2. CASE at[u] \in Allocated
      BY <1>1, <1>3, <1>5, <3>2, InUse DEF IsLeaf, TreeStep
    <3> QED BY <2>1, <3>1, <3>2
  <2> QED BY <1>3, <2>2 DEF ForWriting
<1>7. ReadHeld(u)' = ReadHeld(u)
  BY <1>3, <1>4, <1>6 DEF ReadHeld
<1>8. WriteHeld(u)' = WriteHeld(u)
  BY <1>3, <1>4, <1>6 DEF WriteHeld
<1>9. Own(u)' = Own(u)
  BY <1>3, <1>4, <1>6 DEF Own
<1> QED BY <1>4, <1>7, <1>8, <1>9

\* two sets of threads that differ at most in t
LEMMA Counted ==
  ASSUME NEW A, NEW B, A \subseteq Threads, B \subseteq Threads, NEW t \in Threads,
         \A u \in Threads \ {t} : u \in A <=> u \in B
  PROVE  /\ Cardinality(A) \in Nat /\ Cardinality(B) \in Nat
         /\ t \in B /\ t \notin A => Cardinality(B) = Cardinality(A) + 1
         /\ t \notin B /\ t \in A => Cardinality(B) = Cardinality(A) - 1
         /\ (t \in B <=> t \in A) => B = A
<1>1. IsFiniteSet(A) /\ IsFiniteSet(B)
  BY ThreadsAssumption, FS_Subset
<1>2. Cardinality(A) \in Nat /\ Cardinality(B) \in Nat
  BY <1>1, FS_CardinalityType
<1>3. ASSUME t \in B, t \notin A PROVE Cardinality(B) = Cardinality(A) + 1
  <2>1. B = A \cup {t}
    BY <1>3
  <2> QED BY <1>1, <1>3, <2>1, FS_AddElement
<1>4. ASSUME t \notin B, t \in A PROVE Cardinality(B) = Cardinality(A) - 1
  <2>1. B = A \ {t}
    BY <1>4
  <2> QED BY <1>1, <1>4, <2>1, FS_RemoveElement
<1> QED BY <1>2, <1>3, <1>4

Readers(n) == {u \in Threads : n \in ReadHeld(u)}
Writers(n) == {u \in Threads : n \in WriteHeld(u)}

\* a lock that is held is counted, and a lock a thread has for itself no other holds
LEMMA Exclusive ==
  ASSUME IInv, NEW t \in Threads
  PROVE  /\ Held(t) \subseteq Lockables /\ ReadHeld(t) \subseteq Lockables
         /\ WriteHeld(t) \subseteq Lockables /\ Own(t) \subseteq WriteHeld(t)
         /\ Held(t) \subseteq ReadHeld(t) \cup WriteHeld(t)
         /\ \A n \in ReadHeld(t) : readers[n] > 0
         /\ \A n \in WriteHeld(t) : writer[n]
         /\ \A n \in Own(t) : readers[n] = 0
         /\ \A u \in Threads \ {t} : \A n \in Own(t) : n \notin ReadHeld(u) /\ n \notin WriteHeld(u)
<1>1. /\ TypeOK /\ LocksExact /\ Drained
  BY Parts
<1>2. /\ \A u \in Threads : PlaceOK(u) /\ ThreadTyped /\ LocksTyped
  BY Parts, Typed
<1>3. ASSUME NEW u \in Threads
      PROVE  /\ Held(u) \subseteq Lockables /\ ReadHeld(u) \subseteq Lockables
             /\ WriteHeld(u) \subseteq Lockables /\ Own(u) \subseteq WriteHeld(u)
             /\ Held(u) \subseteq ReadHeld(u) \cup WriteHeld(u)
  <2>1. Held(u) \subseteq Lockables
    BY <1>1, PathFacts DEF Lockables
  <2>2. pc[u] \in {"drain", "visit"} => at[u] \in Lockables
    BY Apart DEF Walking, Lockables
  <2>3. pc[u] = "drain" => ForWriting(u, at[u])
    BY <1>2 DEF PlaceOK
  <2>4. ReadHeld(u) \subseteq Lockables /\ WriteHeld(u) \subseteq Lockables
    BY <2>1, <2>2 DEF ReadHeld, WriteHeld
  <2>5. Own(u) \subseteq WriteHeld(u)
    BY DEF Own, WriteHeld
  <2> QED BY <2>1, <2>4, <2>5 DEF ReadHeld, WriteHeld
<1>4. ASSUME NEW u \in Threads, NEW n \in Lockables
      PROVE  /\ n \in ReadHeld(u) => readers[n] > 0
             /\ n \in WriteHeld(u) => writer[n]
  <2>1. /\ IsFiniteSet(Readers(n)) /\ IsFiniteSet(Writers(n))
        /\ Cardinality(Readers(n)) \in Nat /\ Cardinality(Writers(n)) \in Nat
    BY ThreadsAssumption, FS_Subset, FS_CardinalityType DEF Readers, Writers
  <2>2. n \in ReadHeld(u) => Cardinality(Readers(n)) # 0
    BY <2>1, FS_EmptySet DEF Readers
  <2>3. n \in WriteHeld(u) => Cardinality(Writers(n)) # 0
    BY <2>1, FS_EmptySet DEF Writers
  <2>4. readers[n] = Cardinality(Readers(n)) /\ Cardinality(Writers(n)) = IF writer[n] THEN 1 ELSE 0
    BY <1>1 DEF LocksExact, Lockables, Readers, Writers
  <2> QED BY <2>1, <2>2, <2>3, <2>4
<1>5. ASSUME NEW n \in Own(t) PROVE readers[n] = 0
  BY <1>1 DEF Drained
<1>6. ASSUME NEW u \in Threads \ {t}, NEW n \in Own(t)
      PROVE  n \notin ReadHeld(u) /\ n \notin WriteHeld(u)
  <2>1. n \in Lockables /\ n \in WriteHeld(t)
    BY <1>3
  <2>2. n \notin ReadHeld(u)
    BY <1>4, <1>5, <2>1
  <2>3. ASSUME n \in WriteHeld(u) PROVE FALSE
    <3>1. {t, u} \subseteq Writers(n) /\ IsFiniteSet(Writers(n))
      BY <2>1, <2>3, ThreadsAssumption, FS_Subset DEF Writers
    <3>2. Cardinality({t, u}) = 2
      <4>1. IsFiniteSet({t}) /\ Cardinality({t}) = 1
        BY FS_Singleton
      <4>2. Cardinality({t} \cup {u}) = Cardinality({t}) + 1
        BY <4>1, FS_AddElement
      <4>3. {t} \cup {u} = {t, u}
        OBVIOUS
      <4> QED BY <4>1, <4>2, <4>3
    <3>3. Cardinality({t, u}) <= Cardinality(Writers(n)) /\ Cardinality(Writers(n)) \in Nat
      BY <3>1, FS_Subset, FS_CardinalityType
    <3>4. Cardinality(Writers(n)) = IF writer[n] THEN 1 ELSE 0
      BY <1>1, <2>1 DEF LocksExact, Lockables, Writers
    <3> QED BY <3>2, <3>3, <3>4
  <2> QED BY <2>2, <2>3
<1>7. /\ \A n \in ReadHeld(t) : readers[n] > 0
      /\ \A n \in WriteHeld(t) : writer[n]
  BY <1>3, <1>4
<1> QED BY <1>3, <1>5, <1>6, <1>7

\* the counters and flags stay exact
LEMMA StepExact ==
  ASSUME IInv, NEW t \in Threads, Step(t)
  PROVE  LocksTyped' /\ LocksExact' /\ Drained'
<1>1. /\ TypeOK /\ LocksExact /\ Drained /\ LocksTyped /\ LockMoves(t)
  BY Parts, Typed, StepLocks
<1>2. ASSUME NEW n \in Lockables
      PROVE  /\ readers'[n] = Cardinality(Readers(n)')
             /\ Cardinality(Readers(n)') \in Nat
             /\ Cardinality(Writers(n)') = IF writer'[n] THEN 1 ELSE 0
  <2>1. /\ readers[n] = Cardinality(Readers(n)) /\ readers[n] \in Nat /\ writer[n] \in BOOLEAN
        /\ Cardinality(Writers(n)) = IF writer[n] THEN 1 ELSE 0
    BY <1>1 DEF LocksExact, LocksTyped, Lockables, Readers, Writers
  <2>2. /\ t \in Readers(n) <=> n \in ReadHeld(t)
        /\ t \in Writers(n) <=> n \in WriteHeld(t)
        /\ t \in Readers(n)' <=> n \in ReadHeld(t)'
        /\ t \in Writers(n)' <=> n \in WriteHeld(t)'
    BY DEF Readers, Writers
  <2>3. \A u \in Threads \ {t} : /\ u \in Readers(n) <=> u \in Readers(n)'
                                 /\ u \in Writers(n) <=> u \in Writers(n)'
    BY OthersHold DEF Readers, Writers
  <2> DEFINE A == Readers(n)
             B == Readers(n)'
             C == Writers(n)
             D == Writers(n)'
  <2>4. A \subseteq Threads /\ B \subseteq Threads /\ C \subseteq Threads /\ D \subseteq Threads
    BY DEF Readers, Writers
  <2> HIDE DEF A, B, C, D
  <2>5. \A u \in Threads \ {t} : (u \in A <=> u \in B) /\ (u \in C <=> u \in D)
    BY <2>3 DEF A, B, C, D
  <2>6. /\ Cardinality(A) \in Nat /\ Cardinality(B) \in Nat
        /\ t \in B /\ t \notin A => Cardinality(B) = Cardinality(A) + 1
        /\ t \notin B /\ t \in A => Cardinality(B) = Cardinality(A) - 1
        /\ (t \in B <=> t \in A) => B = A
    BY <2>4, <2>5, Counted
  <2>7. /\ Cardinality(C) \in Nat /\ Cardinality(D) \in Nat
        /\ t \in D /\ t \notin C => Cardinality(D) = Cardinality(C) + 1
        /\ t \notin D /\ t \in C => Cardinality(D) = Cardinality(C) - 1
        /\ (t \in D <=> t \in C) => D = C
    BY <2>4, <2>5, Counted
  <2>8. /\ n \in ReadHeld(t)' /\ n \notin ReadHeld(t) => ~writer[n] /\ readers'[n] = readers[n] + 1
        /\ n \notin ReadHeld(t)' /\ n \in ReadHeld(t) => readers'[n] = readers[n] - 1
        /\ (n \in ReadHeld(t)' <=> n \in ReadHeld(t)) => readers'[n] = readers[n]
        /\ n \in WriteHeld(t)' /\ n \notin WriteHeld(t) => ~writer[n] /\ writer'[n]
        /\ n \notin WriteHeld(t)' /\ n \in WriteHeld(t) => ~writer'[n]
        /\ (n \in WriteHeld(t)' <=> n \in WriteHeld(t)) => writer'[n] = writer[n]
    BY <1>1 DEF LockMoves
  <2>9. readers'[n] = Cardinality(B)
    BY <2>1, <2>2, <2>6, <2>8 DEF A, B
  <2>10. Cardinality(D) = IF writer'[n] THEN 1 ELSE 0
    <3>1. n \in WriteHeld(t) => writer[n]
      BY Exclusive
    <3>2. CASE n \in WriteHeld(t)' /\ n \notin WriteHeld(t)
      BY <2>1, <2>2, <2>7, <2>8, <3>2 DEF C, D
    <3>3. CASE n \notin WriteHeld(t)' /\ n \in WriteHeld(t)
      <4>1. Cardinality(C) = 1
        BY <2>1, <3>1, <3>3 DEF C
      <4>2. Cardinality(D) = 0 /\ ~writer'[n]
        BY <2>2, <2>7, <2>8, <3>3, <4>1 DEF C, D
      <4> QED BY <4>2
    <3>4. CASE n \in WriteHeld(t)' <=> n \in WriteHeld(t)
      BY <2>1, <2>2, <2>7, <2>8, <3>4 DEF C, D
    <3> QED BY <3>2, <3>3, <3>4
  <2> QED BY <2>6, <2>9, <2>10 DEF B, D
<1>3. LocksExact'
  BY <1>2 DEF LocksExact, Lockables, Readers, Writers
<1>4. LocksTyped'
  BY <1>1, <1>2 DEF LockMoves, LocksTyped, Lockables
<1>5. ASSUME NEW u \in Threads, NEW n \in Own(u) PROVE readers'[n] = 0
  <2>1. readers[n] = 0 /\ writer[n] /\ n \in Lockables
    BY Exclusive
  <2>2. n \notin ReadHeld(t)
    BY <2>1, Exclusive
  <2> QED BY <1>1, <2>1, <2>2 DEF LockMoves
<1>6. Drained'
  <2> SUFFICES ASSUME NEW u \in Threads, NEW n \in Own(u)' PROVE readers'[n] = 0
    BY DEF Drained
  <2>1. CASE u = t
    BY <1>1, <1>5, <2>1 DEF LockMoves
  <2>2. CASE u # t
    BY <1>5, <2>2, OthersHold
  <2> QED BY <2>1, <2>2
<1> QED BY <1>3, <1>4, <1>6

-------------------------------------------------------------------------------
(* Places and paths                                                        *)

\* a node in use that t does not work on
LEMMA SameNode ==
  ASSUME IInv, NEW t \in Threads, TreeMoves(t), NEW n \in Allocated
  PROVE  /\ n \in Allocated' /\ heap'[n].level = heap[n].level
         /\ Half(n)' = Half(n) /\ (Len(Keys(n)) >= Half(n) => Len(Keys(n)') >= Half(n))
         /\ n \notin Mine(t) => /\ Keys(n)' = Keys(n) /\ heap'[n].child = heap[n].child
                                /\ InnerFull(n)' = InnerFull(n)
                                /\ \A k : SlotIn(n, k)' = SlotIn(n, k)
                                /\ \A s : ChildAt(n, s)' = ChildAt(n, s)
<1>1. TreeTyped /\ TreeStep(t)
  BY Parts DEF TreeMoves
<1>2. n \in Allocated'
  BY <1>1, InUse DEF TreeStep, Allocated
<1> QED BY <1>1, <1>2 DEF TreeStep, Same, Half, Keys, InnerFull, SlotIn, ChildAt

\* what is left of a path, under a step that works on none of its nodes
LEMMA PathStays ==
  ASSUME IInv, NEW t \in Threads, NEW u \in Threads, TreeMoves(t), call'[u] = call[u],
         NEW l \in 0 .. Len(path[u]), Len(path'[u]) = l,
         \A i \in 1 .. l : path'[u][i] = path[u][i] /\ Node(u, i) \notin Mine(t),
         pc[u] = "climb" => pc'[u] = "climb",
         \/ pc'[u] = "climb"
         \/ l = Len(path[u]) /\ at'[u] = at[u] /\ (Walking(u)' => Walking(u))
  PROVE  PathOK(u)'
<1>1. /\ TypeOK /\ TreeTyped /\ TreeOK /\ PathOK(u) /\ TreeStep(t)
  BY Parts DEF TreeMoves
<1>2. /\ l \in Nat /\ \A i \in 1 .. l : i \in 1 .. Len(path[u])
      /\ \A i \in 1 .. l : Node(u, i)' = Node(u, i) /\ path'[u][i] = path[u][i]
      /\ K(u)' = K(u) /\ Scanning(u)' = Scanning(u)
  BY <1>1, PathFacts DEF Node, K, Scanning, Op
<1>3. ASSUME NEW i \in 1 .. l
      PROVE  /\ Node(u, i) \in Allocated \cup {Tree} /\ (Node(u, i) = Tree => i = 1)
             /\ SlotOK(u, i) /\ Node(u, i) \notin Mine(t)
  BY <1>1, <1>2 DEF PathOK
<1>4. ASSUME NEW i \in 1 .. l
      PROVE  /\ Node(u, i)' \in Allocated' \cup {Tree} /\ (Node(u, i)' = Tree => i = 1)
             /\ SlotOK(u, i)'
  <2>1. CASE Node(u, i) = Tree
    BY <1>2, <1>3, <2>1 DEF SlotOK
  <2>2. CASE Node(u, i) # Tree
    <3>1. Node(u, i) \in Allocated /\ Node(u, i) \notin Mine(t)
      BY <1>3, <2>2
    <3>2. Node(u, i) \in Allocated' /\ heap'[Node(u, i)].keys = heap[Node(u, i)].keys
      BY <1>1, <3>1, SameNode DEF TreeStep, Same
    <3>3. Node(u, i)' = Node(u, i) /\ path'[u][i].slot = path[u][i].slot
      BY <1>2
    <3>4. /\ path[u][i].slot <= Len(heap[Node(u, i)].keys)
          /\ pc[u] # "climb" /\ ~Scanning(u) =>
               path[u][i].slot = FindLower(heap[Node(u, i)].keys, K(u))
      BY <1>3, <2>2 DEF SlotOK, Keys, SlotIn
    <3>5. SlotOK(u, i)'
      BY <1>2, <3>2, <3>3, <3>4 DEF SlotOK, Keys, SlotIn
    <3> QED BY <1>2, <1>3, <3>2, <3>3, <3>5
  <2> QED BY <2>1, <2>2
<1>5. ASSUME NEW i \in 1 .. l, NEW j \in 1 .. l, i < j, Node(u, i)' # Tree
      PROVE  heap'[Node(u, i)'].level > heap'[Node(u, j)'].level
  <2>1. Node(u, i) \in Allocated /\ Node(u, j) \in Allocated
    BY <1>2, <1>3, <1>5
  <2>2. heap[Node(u, i)].level > heap[Node(u, j)].level
    BY <1>1, <1>2, <1>5 DEF PathOK
  <2> QED BY <1>2, <2>1, <2>2, SameNode
<1>6. ASSUME NEW i \in 1 .. l, NEW b, Leads(u, Node(u, i), b)
      PROVE  /\ Node(u, i) = Tree => b = root'
             /\ Node(u, i) # Tree =>
                  \/ b \in Allocated' /\ heap'[b].level = heap'[Node(u, i)].level - 1
                  \/ /\ b \in Allocated' \ {Node(u, i)} /\ heap'[b].level = 0
                     /\ heap'[Node(u, i)].level = 0 /\ Scanning(u)
  <2>1. CASE Node(u, i) = Tree
    BY <1>1, <1>3, <1>6, <2>1 DEF Leads, TreeStep
  <2>2. CASE Node(u, i) # Tree
    <3>1. Node(u, i) \in Allocated /\ b \in Allocated
      BY <1>3, <1>6, <2>2 DEF Leads
    <3>2. heap'[b].level = heap[b].level /\ heap'[Node(u, i)].level = heap[Node(u, i)].level
          /\ b \in Allocated'
      BY <3>1, SameNode
    <3> QED BY <1>6, <2>2, <3>2 DEF Leads
  <2> QED BY <2>1, <2>2
<1>7. ASSUME NEW i \in 1 .. l, NEW b, ChildOK(u, i, b), pc'[u] # "climb", Walking(u)',
             Node(u, i) # Tree, ~Scanning(u)
      PROVE  b = ChildAt(Node(u, i), path[u][i].slot)'
  <2>1. b = ChildAt(Node(u, i), path[u][i].slot)
    BY <1>7 DEF ChildOK
  <2>2. heap'[Node(u, i)].child = heap[Node(u, i)].child
    BY <1>3, <1>7, SameNode
  <2> QED BY <1>2, <2>1, <2>2 DEF ChildAt
<1>8. ASSUME NEW i \in 1 .. l - 1
      PROVE  Leads(u, Node(u, i), Node(u, i + 1))' /\ ChildOK(u, i, Node(u, i + 1))'
  <2>1. /\ i \in 1 .. l /\ i + 1 \in 1 .. l
        /\ Leads(u, Node(u, i), Node(u, i + 1)) /\ ChildOK(u, i, Node(u, i + 1))
    <3>1. i \in 1 .. l /\ i + 1 \in 1 .. l /\ i \in 1 .. Len(path[u]) - 1
      BY <1>1, <1>2, PathFacts
    <3> QED BY <1>1, <3>1 DEF PathOK
  <2>2. Node(u, i)' = Node(u, i) /\ Node(u, i + 1)' = Node(u, i + 1)
    BY <1>2, <2>1
  <2>3. Leads(u, Node(u, i), Node(u, i + 1))'
    BY <1>2, <1>6, <2>1, <2>2 DEF Leads
  <2>4. ChildOK(u, i, Node(u, i + 1))'
    <3> SUFFICES ASSUME Node(u, i)' # Tree, Walking(u)', ~Scanning(u)'
                 PROVE  Node(u, i + 1)' = ChildAt(Node(u, i), path[u][i].slot)'
      BY DEF ChildOK
    <3>1. pc'[u] # "climb"
      BY DEF Walking
    <3> QED BY <1>2, <1>7, <2>1, <2>2, <3>1
  <2> QED BY <2>3, <2>4
<1>9. ASSUME l > 0, pc'[u] # "climb"
      PROVE  Leads(u, Node(u, l), at[u])' /\ ChildOK(u, l, at[u])'
  <2>1. l \in 1 .. l /\ pc[u] # "climb" /\ at'[u] = at[u] /\ l = Len(path[u])
    BY <1>2, <1>9
  <2>2. Leads(u, Node(u, l), at[u]) /\ ChildOK(u, l, at[u])
    BY <1>1, <1>9, <2>1 DEF PathOK
  <2>3. Node(u, l)' = Node(u, l)
    BY <1>2, <2>1 DEF Node
  <2>4. Leads(u, Node(u, l), at[u])'
    BY <1>2, <1>6, <2>1, <2>2, <2>3, ZenonT(40) DEF Leads
  <2>5. ChildOK(u, l, at[u])'
    <3> SUFFICES ASSUME Node(u, l)' # Tree, Walking(u)', ~Scanning(u)'
                 PROVE  at'[u] = ChildAt(Node(u, l), path[u][l].slot)'
      BY <1>2 DEF ChildOK
    <3> QED BY <1>2, <1>7, <1>9, <2>1, <2>2, <2>3
  <2> QED BY <2>4, <2>5
<1> QED BY <1>2, <1>4, <1>5, <1>8, <1>9 DEF PathOK

\* the first node of a path stays an inner node with room, unless the step works on it
LEMMA FirstStays ==
  ASSUME IInv, NEW t \in Threads, NEW u \in Threads, TreeMoves(t), path[u] # <<>>,
         pc[u] = "upgrade" \/ mode[u] = "sure", Node(u, 1) # Tree, Node(u, 1) \notin Mine(t)
  PROVE  heap'[Node(u, 1)].level > 0 /\ Len(heap'[Node(u, 1)].keys) # InnerSlots
<1>1. TypeOK /\ TreeTyped /\ PathOK(u) /\ CarryOK(u) /\ TreeStep(t)
  BY Parts DEF TreeMoves
<1>2. ~InnerFull(Node(u, 1)) /\ heap[Node(u, 1)].level > 0
  BY <1>1 DEF CarryOK
<1>3. 1 \in 1 .. Len(path[u])
  BY <1>1, PathFacts
<1>4. Node(u, 1) \in Allocated
  BY <1>1, <1>3 DEF PathOK
<1> QED BY <1>1, <1>2, <1>4 DEF TreeStep, Same, InnerFull

\* where the other threads are is still right
LEMMA OthersOK ==
  ASSUME IInv, NEW t \in Threads, Step(t), NEW u \in Threads, u # t
  PROVE  PlaceOK(u)' /\ PathOK(u)' /\ CarryOK(u)'
<1>1. /\ TypeOK /\ TreeTyped /\ TreeOK /\ PlaceOK(u) /\ PathOK(u) /\ CarryOK(u) /\ ThreadTyped
  BY Parts, Typed
<1>2. TreeMoves(t) /\ TreeStep(t)
  BY StepTree DEF TreeMoves
<1>3. /\ pc'[u] = pc[u] /\ mode'[u] = mode[u] /\ at'[u] = at[u] /\ path'[u] = path[u]
      /\ call'[u] = call[u] /\ carry'[u] = carry[u]
  BY <1>1, OthersAlone DEF Alone
<1>4. Held(u) \cap Mine(t) = {}
  BY Exclusive DEF Mine
<1>5. PathOK(u)'
  <2>1. Len(path'[u]) = Len(path[u]) /\ Len(path[u]) \in 0 .. Len(path[u])
    BY <1>1, <1>3, PathFacts
  <2>2. \A i \in 1 .. Len(path[u]) : path'[u][i] = path[u][i] /\ Node(u, i) \notin Mine(t)
    BY <1>1, <1>3, <1>4, PathFacts
  <2>3. Walking(u)' => Walking(u)
    BY <1>3 DEF Walking
  <2> QED BY <1>2, <1>3, <2>1, <2>2, <2>3, PathStays
<1>6. Allocated \subseteq Allocated'
  BY <1>2, SameNode
<1>7. PlaceOK(u)'
  <2>1. pc[u] = "drain" => ForWriting(u, at[u])'
    <3>1. ASSUME pc[u] = "drain" PROVE ForWriting(u, at[u])'
      <4>1. ForWriting(u, at[u]) /\ at[u] \in Allocated \cup {Tree}
        BY <1>1, <3>1 DEF PlaceOK, Walking
      <4>2. IsLeaf(at[u]) => IsLeaf(at[u])'
        BY <1>1, <1>2, <1>3, <4>1, SameNode, InUse, Constants DEF IsLeaf
      <4> QED BY <1>3, <4>1, <4>2 DEF ForWriting
    <3> QED BY <3>1
  <2> QED BY <1>1, <1>3, <1>6, <2>1 DEF PlaceOK, Walking, Op, Node
<1>8. CarryOK(u)'
  <2>1. ASSUME carry[u] # NoChild
        PROVE  /\ pc'[u] = "climb" /\ carry[u].node \in Allocated'
               /\ Top(u)' = Top(u)
               /\ Top(u).node # Tree => heap'[carry[u].node].level = heap'[Top(u).node].level - 1
               /\ Top(u).node = Tree => /\ heap'[carry[u].node].level = heap'[root'].level
                                        /\ Len(Keys(root)') >= Half(root)'
    <3>1. /\ pc[u] = "climb" /\ carry[u].node \in Allocated
          /\ Top(u).node # Tree => heap[carry[u].node].level = heap[Top(u).node].level - 1
          /\ Top(u).node = Tree => /\ heap[carry[u].node].level = heap[root].level
                                   /\ Len(Keys(root)) >= Half(root)
      BY <1>1, <2>1 DEF CarryOK
    <3>2. /\ Top(u).node \in Held(u) /\ Top(u).node \in Allocated \cup {Tree} /\ root # Null
      BY <2>1, <3>1, ClimbFacts
    <3>3. root \in Allocated
      BY <1>1, <3>2 DEF TreeTyped
    <3>4. Top(u).node = Tree => root' = root
      BY <1>2, <1>4, <3>2 DEF TreeStep
    <3>5. Top(u).node # Tree => heap'[Top(u).node].level = heap[Top(u).node].level
      BY <1>2, <3>2, SameNode
    <3>6. heap'[carry[u].node].level = heap[carry[u].node].level /\ carry[u].node \in Allocated'
      BY <1>2, <3>1, SameNode
    <3>7. /\ heap'[root].level = heap[root].level /\ Half(root') = Half(root')
          /\ Len(Keys(root)) >= Half(root) => Len(heap'[root].keys) >= Half(root)
          /\ (IF heap'[root].level = 0 THEN LeafSlots \div 2 ELSE InnerSlots \div 2) = Half(root)
      <4>1. \A n : n = root => n \in Allocated
        BY <3>3
      <4>2. \A n \in Allocated : /\ heap'[n].level = heap[n].level
                                 /\ Len(Keys(n)) >= Half(n) => Len(heap'[n].keys) >= Half(n)
        BY <1>2 DEF TreeStep, Keys
      <4> QED BY <3>3, <4>2 DEF Half
    <3>8. Top(u)' = Top(u)
      BY <1>3 DEF Top
    <3>9. Top(u).node = Tree => /\ heap'[carry[u].node].level = heap'[root'].level
                                /\ Len(Keys(root)') >= Half(root)'
      BY <3>1, <3>4, <3>6, <3>7 DEF Keys, Half
    <3> QED BY <1>3, <3>1, <3>5, <3>6, <3>8, <3>9
  <2>2. ASSUME pc[u] = "upgrade" \/ mode[u] = "sure", path[u] # <<>>, Node(u, 1) # Tree
        PROVE  /\ Node(u, 1)' = Node(u, 1) /\ ~InnerFull(Node(u, 1))'
               /\ heap'[Node(u, 1)].level > 0
    <3>1. Node(u, 1) \in Held(u) /\ Node(u, 1) \notin Mine(t)
      BY <1>1, <1>4, <2>2, PathFacts
    <3>2. heap'[Node(u, 1)].level > 0 /\ Len(heap'[Node(u, 1)].keys) # InnerSlots
      BY <1>2, <2>2, <3>1, FirstStays
    <3>3. Node(u, 1)' = Node(u, 1)
      BY <1>3 DEF Node
    <3> QED BY <3>2, <3>3 DEF InnerFull
  <2>3. ASSUME carry'[u] # NoChild
        PROVE  /\ pc'[u] = "climb"
               /\ carry'[u].node \in Allocated'
               /\ Top(u)'.node # Tree => heap'[carry'[u].node].level = heap'[Top(u)'.node].level - 1
               /\ Top(u)'.node = Tree => /\ heap'[carry'[u].node].level = heap'[root'].level
                                        /\ Len(Keys(root)') >= Half(root)'
    BY <1>3, <2>1, <2>3
  <2>4. ASSUME pc'[u] = "upgrade" \/ mode'[u] = "sure", path'[u] # <<>>, Node(u, 1)' # Tree
        PROVE  ~InnerFull(Node(u, 1))' /\ heap'[Node(u, 1)'].level > 0
    <3>1. Node(u, 1)' = Node(u, 1)
      BY <1>3 DEF Node
    <3>2. ~InnerFull(Node(u, 1))' /\ heap'[Node(u, 1)].level > 0
      BY <1>3, <2>2, <2>4, <3>1
    <3> QED BY <3>1, <3>2
  <2> QED BY <2>3, <2>4 DEF CarryOK
<1> QED BY <1>5, <1>7, <1>8

-------------------------------------------------------------------------------
(* Where a step takes its own thread                                       *)

StaysOK(t) == PlaceOK(t)' /\ PathOK(t)' /\ CarryOK(t)'

\* what the parts of the actions do to the thread
LEMMA Moves ==
  ASSUME ThreadTyped, NEW t \in Threads
  PROVE  /\ \A where : Goto(t, where) => pc'[t] = where
         /\ \A n, f : Approach(t, n, f) => pc'[t] = "lock" /\ at'[t] = n /\ path'[t] = f
         /\ Forget(t) => pc'[t] = "idle" /\ path'[t] = <<>> /\ mode'[t] = "read" /\ call'[t] = None
         /\ \A r : Return(t, r) => Forget(t) /\ carry'[t] = carry[t]
         /\ Restart(t) => /\ pc'[t] = "lock" /\ at'[t] = Tree /\ path'[t] = <<>> /\ mode'[t] = "sure"
                          /\ call'[t] = call[t] /\ carry'[t] = carry[t]
         /\ \A r, up : TurnBack(t, r, up) => /\ pc'[t] = "climb" /\ carry'[t] = up
                                             /\ UNCHANGED <<call, mode, path>>
         /\ \A up : Pop(t, up) => /\ pc[t] = "climb" /\ carry'[t] = up
                                  /\ IF Len(path[t]) = 1 THEN Forget(t)
                                     ELSE /\ path'[t] = Front(path[t])
                                          /\ UNCHANGED <<pc, call, mode, at>>
<1> USE DEF ThreadTyped
<1>1. \A where : Goto(t, where) => pc'[t] = where
  BY DEF Goto
<1>2. \A n, f : Approach(t, n, f) => pc'[t] = "lock" /\ at'[t] = n /\ path'[t] = f
  BY <1>1 DEF Approach
<1>3. Forget(t) => pc'[t] = "idle" /\ path'[t] = <<>> /\ mode'[t] = "read" /\ call'[t] = None
  BY <1>1 DEF Forget
<1>4. \A r : Return(t, r) => Forget(t) /\ carry'[t] = carry[t]
  BY DEF Return
<1>5. Restart(t) => /\ pc'[t] = "lock" /\ at'[t] = Tree /\ path'[t] = <<>> /\ mode'[t] = "sure"
                    /\ call'[t] = call[t] /\ carry'[t] = carry[t]
  BY <1>2 DEF Restart
<1>6. \A r, up : TurnBack(t, r, up) => /\ pc'[t] = "climb" /\ carry'[t] = up
                                       /\ UNCHANGED <<call, mode, path>>
  BY <1>1 DEF TurnBack
<1>7. \A up : Pop(t, up) => /\ pc[t] = "climb" /\ carry'[t] = up
                            /\ IF Len(path[t]) = 1 THEN Forget(t)
                               ELSE /\ path'[t] = Front(path[t])
                                    /\ UNCHANGED <<pc, call, mode, at>>
  BY DEF Pop
<1> QED BY <1>1, <1>2, <1>3, <1>4, <1>5, <1>6, <1>7

\* only a thread on its way back up carries a split
LEMMA NothingUp ==
  ASSUME IInv, NEW t \in Threads, pc[t] # "climb"
  PROVE  carry[t] = NoChild
BY Parts DEF CarryOK

\* a call is an insert exactly when it is not done with read locks alone
LEMMA InsertMode ==
  ASSUME IInv, NEW t \in Threads
  PROVE  /\ mode[t] \in {"try", "sure"} <=> Op(t) = "insert"
         /\ mode[t] \in {"read", "try", "sure"}
         /\ mode[t] # "read" => ~Scanning(t) /\ call[t] # None /\ pc[t] # "idle"
         /\ pc[t] # "idle" => call[t] # None
BY Parts DEF PlaceOK, TypeOK, Scanning, Op, None

\* no path: at the start, and at the end of a call
LEMMA NoPath ==
  ASSUME NEW t \in Threads, path'[t] = <<>>, carry'[t] = NoChild
  PROVE  PathOK(t)' /\ CarryOK(t)'
<1>1. Len(path'[t]) = 0
  OBVIOUS
<1>2. PathOK(t)'
  BY <1>1 DEF PathOK
<1> QED BY <1>2 DEF CarryOK

\* the call has ended
LEMMA Gone ==
  ASSUME ThreadTyped, NEW t \in Threads, Forget(t), carry'[t] = NoChild
  PROVE  StaysOK(t)
<1>1. pc'[t] = "idle" /\ path'[t] = <<>> /\ mode'[t] = "read" /\ call'[t] = None
  BY Moves
<1>2. Op(t)' = "none" /\ Len(path'[t]) = 0
  BY <1>1 DEF Op, None
<1>3. PlaceOK(t)'
  BY <1>1, <1>2 DEF PlaceOK, Walking
<1> QED BY <1>1, <1>3, NoPath DEF StaysOK

\* the way down begins
LEMMA Away ==
  ASSUME NEW t \in Threads, pc'[t] = "lock", at'[t] = Tree, path'[t] = <<>>, carry'[t] = NoChild,
         call'[t] # None, mode'[t] \in {"try", "sure"} <=> Op(t)' = "insert"
  PROVE  StaysOK(t)
<1>1. Len(path'[t]) = 0
  OBVIOUS
<1>2. PlaceOK(t)'
  BY <1>1 DEF PlaceOK, Walking
<1> QED BY <1>2, NoPath DEF StaysOK

\* one lock is held: it was found there where to go
LEMMA OneLock ==
  ASSUME ThreadTyped', NEW t \in Threads, NEW n, NEW s \in Nat, path'[t] = <<Frame(n, s)>>,
         pc'[t] = "lock", n \in Allocated' \cup {Tree}, n = Tree => at'[t] = root',
         n # Tree =>
           /\ at'[t] \in Allocated' /\ s <= Len(heap'[n].keys)
           /\ ~Scanning(t)' => s = FindLower(heap'[n].keys, K(t)') /\ at'[t] = heap'[n].child[s + 1]
           /\ \/ heap'[at'[t]].level = heap'[n].level - 1
              \/ Scanning(t)' /\ at'[t] # n /\ heap'[at'[t]].level = 0 /\ heap'[n].level = 0
  PROVE  PathOK(t)'
<1>1. Len(path'[t]) = 1 /\ path'[t][1] = Frame(n, s)
  OBVIOUS
<1>2. Node(t, 1)' = n /\ path'[t][1].slot = s
  BY <1>1 DEF Node, Frame
<1>3. SlotOK(t, 1)'
  BY <1>2 DEF SlotOK, Keys, SlotIn
<1>4. Leads(t, Node(t, 1), at[t])'
  BY <1>2 DEF Leads
<1>5. ChildOK(t, 1, at[t])'
  BY <1>2 DEF ChildOK, ChildAt
<1>6. \A i \in 1 .. 1 : i = 1
  OBVIOUS
<1> QED BY <1>1, <1>2, <1>3, <1>4, <1>5, <1>6 DEF PathOK

\* the place of a thread that goes on to another node of the tree
LEMMA Further ==
  ASSUME IInv, NEW t \in Threads, TreeTyped', pc[t] \notin {"idle", "climb"}, pc'[t] = "lock",
         at'[t] \in Allocated', path'[t] # <<>>, call'[t] = call[t], mode'[t] = mode[t],
         mode[t] # "sure" => Len(path'[t]) <= 1
  PROVE  PlaceOK(t)'
<1>1. PlaceOK(t) /\ call[t] # None
  BY Parts, InsertMode
<1>2. at'[t] # Tree
  BY Constants DEF TreeTyped, Allocated, Tree
<1>3. Op(t)' = Op(t)
  BY DEF Op
<1> QED BY <1>1, <1>2, <1>3 DEF PlaceOK, Walking

\* with the lock of the tree, a thread goes on to the root
LEMMA ToRoot ==
  ASSUME IInv, NEW t \in Threads, EnterTree(t) \/ FirstLeaf(t)
  PROVE  StaysOK(t)
<1>1. /\ TypeOK /\ TreeTyped /\ ThreadTyped /\ ThreadTyped' /\ TreeTyped'
  BY Parts, Typed, StepTyped, StepTree DEF Step, TreeMoves
<1>2. /\ pc[t] = "visit" /\ pc'[t] = "lock" /\ path'[t] = <<Frame(Tree, 0)>> /\ at'[t] = root'
      /\ call'[t] = call[t] /\ mode'[t] = mode[t] /\ carry'[t] = carry[t] /\ root' # Null
  <2>1. CASE EnterTree(t)
    BY <1>1, <2>1, Moves DEF EnterTree, Visiting, tree
  <2>2. CASE FirstLeaf(t)
    BY <1>1, <2>2, Moves DEF FirstLeaf, Visiting, TreeTyped, Null
  <2> QED BY <2>1, <2>2
<1>3. root' \in Allocated'
  BY <1>1, <1>2 DEF TreeTyped
<1>4. PathOK(t)'
  BY <1>1, <1>2, OneLock
<1>5. Len(path'[t]) = 1 /\ Node(t, 1)' = Tree /\ path'[t] # <<>>
  BY <1>2 DEF Node, Frame
<1>6. PlaceOK(t)'
  <2>1. Len(path'[t]) <= 1 /\ pc[t] \notin {"idle", "climb"} /\ at'[t] \in Allocated'
    BY <1>2, <1>3, <1>5
  <2> QED BY <1>1, <1>2, <1>5, <2>1, Further
<1>7. CarryOK(t)'
  BY <1>2, <1>5, NothingUp DEF CarryOK
<1> QED BY <1>4, <1>6, <1>7 DEF StaysOK

\* with a read lock, a thread goes on to a child
LEMMA ToChild ==
  ASSUME IInv, NEW t \in Threads, Descend(t)
  PROVE  StaysOK(t)
<1> DEFINE n == at[t]
           s == SlotIn(n, K(t))
           c == ChildAt(n, s)
<1>1. /\ TypeOK /\ TreeTyped /\ ThreadTyped /\ ThreadTyped' /\ TreeTyped'
  BY Parts, Typed, StepTyped, StepTree DEF Step, TreeMoves
<1>2. /\ InInner(t) /\ mode[t] # "sure" /\ pc'[t] = "lock" /\ path'[t] = <<Frame(n, s)>> /\ at'[t] = c
      /\ call'[t] = call[t] /\ mode'[t] = mode[t] /\ carry'[t] = carry[t] /\ heap' = heap /\ used' = used
  BY <1>1, Moves DEF Descend, tree
<1>3. /\ n \in Allocated /\ n # Tree /\ pc[t] = "visit" /\ s \in Nat /\ s <= Len(Keys(n))
      /\ c \in Allocated /\ heap[c].level = heap[n].level - 1
  BY <1>2, AtInner
<1>4. K(t)' = K(t) /\ Allocated' = Allocated
  BY <1>2 DEF K, Allocated
<1>5. s = FindLower(heap[n].keys, K(t)) /\ c = heap[n].child[s + 1] /\ Len(Keys(n)) = Len(heap[n].keys)
  BY DEF SlotIn, ChildAt, Keys
<1> HIDE DEF n, s, c
<1>6. PathOK(t)'
  BY <1>1, <1>2, <1>3, <1>4, <1>5, OneLock
<1>7. Len(path'[t]) = 1 /\ path'[t] # <<>>
  BY <1>2
<1>8. PlaceOK(t)'
  <2>1. Len(path'[t]) <= 1 /\ pc[t] \notin {"idle", "climb"} /\ at'[t] \in Allocated'
    BY <1>2, <1>3, <1>4, <1>7
  <2> QED BY <1>1, <1>2, <1>7, <2>1, Further
<1>9. CarryOK(t)'
  BY <1>2, <1>3, NothingUp DEF CarryOK
<1> QED BY <1>6, <1>8, <1>9 DEF StaysOK

\* a scan goes on to the next leaf
LEMMA ToNextLeaf ==
  ASSUME IInv, NEW t \in Threads, ScanOn(t)
  PROVE  StaysOK(t)
<1> DEFINE n == at[t]
           m == heap[n].next
<1>1. /\ TypeOK /\ TreeTyped /\ TreeOK /\ ThreadTyped /\ ThreadTyped' /\ TreeTyped'
  BY Parts, Typed, StepTyped, StepTree DEF Step, TreeMoves
<1>2. /\ InLeaf(t) /\ Scanning(t) /\ m # Null /\ pc'[t] = "lock" /\ path'[t] = <<Frame(n, 0)>>
      /\ at'[t] = m
      /\ call'[t] = call[t] /\ mode'[t] = mode[t] /\ carry'[t] = carry[t] /\ heap' = heap /\ used' = used
  BY <1>1, Moves DEF ScanOn, MovesOn, tree
<1>3. n \in Allocated /\ n \in Nodes /\ LeafOK(n) /\ pc[t] = "visit" /\ n # Tree /\ heap[n].level = 0
  BY <1>1, <1>2, AtLeaf
<1>4. m \in Allocated \ {n} /\ heap[m].level = 0
  BY <1>2, <1>3 DEF LeafOK
<1>5. mode[t] # "sure" /\ mode[t] # "try"
  BY <1>2, InsertMode
<1>6. Scanning(t)' /\ Allocated' = Allocated /\ Len(heap[n].keys) \in Nat
  BY <1>1, <1>2, <1>3, NodeFacts DEF Scanning, Op, Allocated, Keys
<1> HIDE DEF n, m
<1>7. PathOK(t)'
  <2>1. 0 \in Nat /\ 0 <= Len(heap'[n].keys)
    BY <1>2, <1>6
  <2> QED BY <1>1, <1>2, <1>3, <1>4, <1>6, <2>1, OneLock
<1>8. Len(path'[t]) = 1 /\ path'[t] # <<>>
  BY <1>2
<1>9. PlaceOK(t)'
  <2>1. Len(path'[t]) <= 1 /\ pc[t] \notin {"idle", "climb"} /\ at'[t] \in Allocated'
    BY <1>2, <1>3, <1>4, <1>6, <1>8
  <2> QED BY <1>1, <1>2, <1>8, <2>1, Further
<1>10. CarryOK(t)'
  BY <1>2, <1>3, <1>5, NothingUp DEF CarryOK
<1> QED BY <1>7, <1>9, <1>10 DEF StaysOK

\* with the parent upgraded, an insert goes to the child in the slot it knows
LEMMA ToKnownChild ==
  ASSUME IInv, NEW t \in Threads, UpgradeDrain(t)
  PROVE  StaysOK(t)
<1> DEFINE n == Parent(t)
           s == path[t][1].slot
           c == ChildAt(n, s)
<1>1. /\ TypeOK /\ TreeTyped /\ ThreadTyped /\ ThreadTyped' /\ TreeTyped' /\ CarryOK(t) /\ PlaceOK(t)
  BY Parts, Typed, StepTyped, StepTree DEF Step, TreeMoves
<1>2. /\ pc[t] = "updrain" /\ pc'[t] = "lock" /\ path'[t] = path[t] /\ at'[t] = c
      /\ call'[t] = call[t] /\ mode'[t] = mode[t] /\ carry'[t] = carry[t] /\ heap' = heap /\ used' = used
  BY <1>1, Moves DEF UpgradeDrain, tree
<1>3. /\ n \in Allocated /\ n = Node(t, 1) /\ path[t] # <<>> /\ ~InnerFull(n) /\ heap[n].level > 0
      /\ path[t] = <<Frame(n, s)>> /\ s \in Nat /\ s <= Len(Keys(n)) /\ s = SlotIn(n, K(t))
      /\ c \in Allocated /\ n \in Nodes
  BY <1>2, AtParent
<1>4. heap[c].level = heap[n].level - 1
  <2>1. s \in 0 .. Len(Keys(n)) /\ TreeOK
    BY <1>1, <1>3, NodeFacts, Parts
  <2> HIDE DEF n, s
  <2> QED BY <1>1, <1>3, <2>1, ChildFacts
<1>5. K(t)' = K(t) /\ Allocated' = Allocated /\ Node(t, 1)' = Node(t, 1) /\ n # Tree
  BY <1>2, <1>3, Constants DEF K, Allocated, Node
<1>6. s = FindLower(heap[n].keys, K(t)) /\ c = heap[n].child[s + 1] /\ Len(Keys(n)) = Len(heap[n].keys)
  BY <1>3 DEF SlotIn, ChildAt, Keys
<1>7. mode[t] = "sure"
  BY <1>1, <1>2 DEF PlaceOK
<1>8. InnerFull(Node(t, 1))' = InnerFull(n)
  BY <1>2, <1>3, <1>5 DEF InnerFull
<1> HIDE DEF n, s, c
<1>9. PathOK(t)'
  BY <1>1, <1>2, <1>3, <1>4, <1>5, <1>6, OneLock
<1>10. PlaceOK(t)'
  BY <1>1, <1>2, <1>3, <1>5, <1>7, Further
<1>11. CarryOK(t)'
  BY <1>2, <1>3, <1>5, <1>8, NothingUp DEF CarryOK
<1> QED BY <1>9, <1>10, <1>11 DEF StaysOK

\* with write locks, a thread goes on to a child and keeps them
LEMMA ToChildSure ==
  ASSUME IInv, NEW t \in Threads, DescendSure(t)
  PROVE  StaysOK(t)
<1> SUFFICES ASSUME NEW n, n = at[t], NEW s, s = SlotIn(n, K(t)), NEW c, c = ChildAt(n, s),
                    NEW l, l = Len(path[t])
             PROVE  StaysOK(t)
  OBVIOUS
<1>1. /\ TypeOK /\ TreeTyped /\ ThreadTyped /\ ThreadTyped' /\ TreeTyped'
      /\ PlaceOK(t) /\ PathOK(t) /\ CarryOK(t)
  BY Parts, Typed, StepTyped, StepTree DEF Step, TreeMoves
<1>2. /\ InInner(t) /\ mode[t] = "sure" /\ pc'[t] = "lock" /\ path'[t] = Append(path[t], Frame(n, s))
      /\ at'[t] = c /\ call'[t] = call[t] /\ mode'[t] = mode[t] /\ carry'[t] = carry[t]
      /\ UNCHANGED <<heap, used, root>>
  BY <1>1, Moves DEF DescendSure, tree
<1>3. /\ n \in Allocated /\ n # Tree /\ pc[t] = "visit" /\ s \in Nat /\ s <= Len(Keys(n))
      /\ c \in Allocated /\ heap[c].level = heap[n].level - 1 /\ path[t] # <<>> /\ n \in Nodes
      /\ heap[n].level \in Int
  BY <1>1, <1>2, AtInner, NodeFacts
<1>4. /\ K(t)' = K(t) /\ Allocated' = Allocated /\ ~Scanning(t) /\ ~Scanning(t)'
      /\ Walking(t) /\ Walking(t)'
  BY <1>2, <1>3, InsertMode DEF K, Allocated, Scanning, Op, Walking
<1>5. /\ l \in Nat /\ l > 0 /\ path[t] \in Seq(Frames) /\ Frame(n, s) \in Frames
  BY <1>1, <1>3, PathFacts DEF Frames, Frame
<1>6. /\ Len(path'[t]) = l + 1 /\ path'[t][l + 1] = Frame(n, s) /\ path'[t] # <<>>
      /\ \A i \in 1 .. l : path'[t][i] = path[t][i]
  <2>1. path'[t] = Append(path[t], Frame(n, s))
    BY <1>2
  <2> QED BY <1>5, <2>1
<1>7. /\ Node(t, l + 1)' = n /\ path'[t][l + 1].slot = s
      /\ \A i \in 1 .. l : Node(t, i)' = Node(t, i)
  BY <1>6 DEF Node, Frame
<1>8. \A i \in 1 .. l : /\ Node(t, i) \in Allocated \cup {Tree}
                        /\ Node(t, i) = Tree => i = 1
                        /\ SlotOK(t, i)
  BY <1>1 DEF PathOK
<1>9. Leads(t, Node(t, l), n) /\ ChildOK(t, l, n) /\ l \in 1 .. l
  BY <1>1, <1>3, <1>5 DEF PathOK
<1>10. \A i \in 1 .. l - 1 : Leads(t, Node(t, i), Node(t, i + 1)) /\ ChildOK(t, i, Node(t, i + 1))
  BY <1>1 DEF PathOK
\* the slots of the nodes above, and of the node itself
<1>11. \A i \in 1 .. l + 1 : /\ Node(t, i)' \in Allocated' \cup {Tree}
                             /\ Node(t, i)' = Tree => i = 1
                             /\ SlotOK(t, i)'
  <2>1. ASSUME NEW i \in 1 .. l
        PROVE  /\ Node(t, i)' \in Allocated' \cup {Tree} /\ (Node(t, i)' = Tree => i = 1)
               /\ SlotOK(t, i)'
    <3>1. Node(t, i)' = Node(t, i) /\ path'[t][i].slot = path[t][i].slot
      BY <1>6, <1>7
    <3>2. SlotOK(t, i)'
      BY <1>2, <1>3, <1>4, <1>8, <3>1 DEF SlotOK, Keys, SlotIn
    <3> QED BY <1>4, <1>8, <3>1, <3>2
  <2>2. SlotOK(t, l + 1)'
    BY <1>2, <1>3, <1>4, <1>7 DEF SlotOK, Keys, SlotIn
  <2>3. \A i \in 1 .. l + 1 : i \in 1 .. l \/ i = l + 1
    BY <1>5
  <2>4. Node(t, l + 1)' \in Allocated' /\ Node(t, l + 1)' # Tree
    BY <1>3, <1>4, <1>7
  <2> QED BY <2>1, <2>2, <2>3, <2>4
\* levels fall along the way
<1>12. \A i \in 1 .. l : Node(t, i) # Tree => heap[Node(t, i)].level > heap[n].level
  <2> SUFFICES ASSUME NEW i \in 1 .. l, Node(t, i) # Tree
               PROVE  heap[Node(t, i)].level > heap[n].level
    OBVIOUS
  <2>1. CASE Node(t, l) = Tree
    BY <1>5, <1>8, <1>9, <2>1
  <2>2. CASE Node(t, l) # Tree
    <3>1. heap[n].level = heap[Node(t, l)].level - 1
      BY <1>4, <1>9, <2>2 DEF Leads
    <3>2. heap[Node(t, l)].level \in Int /\ heap[Node(t, i)].level \in Int
      BY <1>1, <1>8, <1>9, <2>2, InUse, NodeFacts
    <3>3. i = l \/ heap[Node(t, i)].level > heap[Node(t, l)].level
      BY <1>1, <1>5, <1>9 DEF PathOK
    <3> QED BY <1>3, <3>1, <3>2, <3>3
  <2> QED BY <2>1, <2>2
<1>13. \A i, j \in 1 .. l + 1 : i < j /\ Node(t, i)' # Tree =>
         heap'[Node(t, i)'].level > heap'[Node(t, j)'].level
  <2> SUFFICES ASSUME NEW i \in 1 .. l + 1, NEW j \in 1 .. l + 1, i < j, Node(t, i)' # Tree
               PROVE  heap'[Node(t, i)'].level > heap'[Node(t, j)'].level
    OBVIOUS
  <2>1. i \in 1 .. l /\ (j \in 1 .. l \/ j = l + 1)
    BY <1>5
  <2>2. Node(t, i)' = Node(t, i) /\ heap' = heap
    BY <1>2, <1>7, <2>1
  <2>3. CASE j \in 1 .. l
    <3>1. Node(t, j)' = Node(t, j)
      BY <1>7, <2>3
    <3>2. heap[Node(t, i)].level > heap[Node(t, j)].level
      BY <1>1, <2>1, <2>2, <2>3 DEF PathOK
    <3> QED BY <2>2, <3>1, <3>2
  <2>4. CASE j = l + 1
    BY <1>7, <1>12, <2>1, <2>2, <2>4
  <2> QED BY <2>1, <2>3, <2>4
\* each node is where the one above leads
<1>14. ASSUME NEW i \in 1 .. l, NEW b, Leads(t, Node(t, i), b), ChildOK(t, i, b)
       PROVE  /\ \/ Node(t, i) = Tree /\ b = root'
                 \/ /\ Node(t, i) # Tree /\ b \in Allocated'
                    /\ heap'[b].level = heap'[Node(t, i)].level - 1
              /\ Node(t, i) # Tree => b = heap'[Node(t, i)].child[path'[t][i].slot + 1]
  BY <1>2, <1>4, <1>6, <1>14 DEF Leads, ChildOK, ChildAt
<1>15. ASSUME NEW i \in 1 .. l
       PROVE  Leads(t, Node(t, i), Node(t, i + 1))' /\ ChildOK(t, i, Node(t, i + 1))'
  <2>1. CASE i = l
    <3>1. Node(t, i)' = Node(t, i) /\ Node(t, i + 1)' = n /\ Leads(t, Node(t, i), n) /\ ChildOK(t, i, n)
      BY <1>7, <1>9, <2>1
    <3> QED BY <1>14, <3>1 DEF Leads, ChildOK, ChildAt
  <2>2. CASE i \in 1 .. l - 1
    <3>1. Leads(t, Node(t, i), Node(t, i + 1)) /\ ChildOK(t, i, Node(t, i + 1))
      BY <1>10, <2>2
    <3>2. Node(t, i)' = Node(t, i) /\ Node(t, i + 1)' = Node(t, i + 1)
      BY <1>5, <1>7, <2>2
    <3> QED BY <1>14, <3>1, <3>2 DEF Leads, ChildOK, ChildAt
  <2> QED BY <1>5, <2>1, <2>2
<1>16. Leads(t, Node(t, l + 1), at[t])' /\ ChildOK(t, l + 1, at[t])'
  BY <1>2, <1>3, <1>4, <1>7 DEF Leads, ChildOK, ChildAt
<1>17. PathOK(t)'
  <2>1. \A i \in 1 .. (l + 1) - 1 : i \in 1 .. l
    BY <1>5
  <2> QED BY <1>5, <1>6, <1>11, <1>13, <1>15, <1>16, <2>1 DEF PathOK
<1>18. PlaceOK(t)'
  BY <1>1, <1>2, <1>3, <1>4, <1>6, Further
<1>19. CarryOK(t)'
  <2>1. Node(t, 1)' = Node(t, 1)
    BY <1>5, <1>7
  <2>2. InnerFull(Node(t, 1))' = InnerFull(Node(t, 1)) /\ heap'[Node(t, 1)'].level = heap[Node(t, 1)].level
    BY <1>2, <2>1 DEF InnerFull
  <2> QED BY <1>1, <1>2, <1>3, <2>1, <2>2, NothingUp DEF CarryOK
<1> QED BY <1>17, <1>18, <1>19 DEF StaysOK

\* a thread on its way down does not work on the nodes it holds locks of above
LEMMA HeldAside ==
  ASSUME IInv, NEW t \in Threads, Walking(t) \/ pc[t] = "upgrade"
  PROVE  Held(t) \cap Mine(t) = {}
<1>1. PlaceOK(t)
  BY Parts
<1>2. CASE Walking(t)
  BY <1>2, Apart DEF Mine, Walking
<1>3. CASE pc[t] = "upgrade"
  BY <1>1, <1>3 DEF PlaceOK, Mine, Own
<1> QED BY <1>2, <1>3

\* the locks of a thread that keeps them all
LEMMA PathKept ==
  ASSUME IInv, NEW t \in Threads, Step(t), Walking(t) \/ pc[t] = "upgrade",
         path'[t] = path[t], call'[t] = call[t],
         pc'[t] = "climb" \/ (at'[t] = at[t] /\ (Walking(t)' => Walking(t)))
  PROVE  /\ PathOK(t)'
         /\ pc[t] = "upgrade" \/ mode[t] = "sure" => (path'[t] # <<>> /\ Node(t, 1)' # Tree =>
              ~InnerFull(Node(t, 1))' /\ heap'[Node(t, 1)'].level > 0)
<1>1. TypeOK /\ TreeMoves(t)
  BY Parts, StepTree
<1>2. Held(t) \cap Mine(t) = {} /\ pc[t] # "climb"
  BY HeldAside DEF Walking
<1>3. \A i \in 1 .. Len(path[t]) : path'[t][i] = path[t][i] /\ Node(t, i) \notin Mine(t)
  BY <1>1, <1>2, PathFacts
<1>4. Len(path[t]) \in 0 .. Len(path[t]) /\ Len(path'[t]) = Len(path[t])
  BY <1>1, PathFacts
<1>5. PathOK(t)'
  BY <1>1, <1>2, <1>3, <1>4, PathStays
<1>6. ASSUME pc[t] = "upgrade" \/ mode[t] = "sure", path'[t] # <<>>, Node(t, 1)' # Tree
      PROVE  ~InnerFull(Node(t, 1))' /\ heap'[Node(t, 1)'].level > 0
  <2>1. Node(t, 1)' = Node(t, 1) /\ path[t] # <<>>
    BY <1>6 DEF Node
  <2>2. Node(t, 1) \notin Mine(t)
    BY <1>1, <1>3, <2>1, PathFacts
  <2>3. heap'[Node(t, 1)].level > 0 /\ Len(heap'[Node(t, 1)].keys) # InnerSlots
    BY <1>1, <1>6, <2>1, <2>2, FirstStays
  <2> QED BY <2>1, <2>3 DEF InnerFull
<1> QED BY <1>5, <1>6

\* a thread takes a lock
LEMMA Locks ==
  ASSUME IInv, NEW t \in Threads, ReadLock(t) \/ WriteLock(t) \/ Drain(t)
  PROVE  StaysOK(t)
<1>1. ThreadTyped /\ PlaceOK(t) /\ Step(t) /\ TreeTyped
  BY Parts, Typed DEF Step
<1>2. /\ pc[t] \in {"lock", "drain"} /\ UNCHANGED <<tree, call, mode, at, path, carry>>
      /\ pc'[t] \in {"drain", "visit"}
      /\ pc'[t] = "drain" => ForWriting(t, at[t])
  BY <1>1, Moves DEF ReadLock, WriteLock, Drain, place
<1>3. Walking(t) /\ Walking(t)' /\ Op(t)' = Op(t) /\ Allocated' = Allocated
      /\ ForWriting(t, at[t])' = ForWriting(t, at[t])
  BY <1>2 DEF Walking, Op, tree, Allocated, ForWriting, IsLeaf
<1>4. PlaceOK(t)'
  BY <1>1, <1>2, <1>3 DEF PlaceOK, Walking
<1>5. /\ PathOK(t)'
      /\ mode[t] = "sure" => (path'[t] # <<>> /\ Node(t, 1)' # Tree =>
            ~InnerFull(Node(t, 1))' /\ heap'[Node(t, 1)'].level > 0)
  BY <1>1, <1>2, <1>3, PathKept
<1>6. CarryOK(t)'
  BY <1>2, <1>5, NothingUp DEF CarryOK
<1> QED BY <1>4, <1>5, <1>6 DEF StaysOK

\* an optimistic insert lets go of its full leaf, or upgrades the lock of the leaf's parent
LEMMA Upgrades ==
  ASSUME IInv, NEW t \in Threads, TryUpgrade(t) \/ UpgradeWon(t)
  PROVE  StaysOK(t)
<1>1. ThreadTyped /\ PlaceOK(t) /\ PathOK(t) /\ CarryOK(t) /\ Step(t) /\ TypeOK /\ TreeTyped /\ TreeOK
  BY Parts, Typed DEF Step
<1>2. UNCHANGED <<tree, call, at, path, carry>>
  BY DEF TryUpgrade, UpgradeWon, place
<1>3. /\ Op(t)' = Op(t) /\ Node(t, 1)' = Node(t, 1) /\ InnerFull(Node(t, 1))' = InnerFull(Node(t, 1))
      /\ heap'[Node(t, 1)'].level = heap[Node(t, 1)].level
  BY <1>2 DEF Op, Node, InnerFull, tree
<1>4. CASE TryUpgrade(t)
  <2>1. /\ Inserting(t, "try") /\ Parent(t) # Tree /\ ~InnerFull(Parent(t)) /\ pc'[t] = "upgrade"
        /\ mode'[t] = mode[t]
    BY <1>1, <1>4, Moves DEF TryUpgrade
  <2>2. InLeaf(t) /\ mode[t] = "try" /\ Op(t) = "insert"
    BY <1>1, <2>1 DEF Inserting, PlaceOK
  <2>3. at[t] # Tree /\ heap[at[t]].level = 0 /\ pc[t] = "visit" /\ Walking(t)
    BY <1>1, <2>2, AtLeaf DEF Walking
  <2>4. Len(path[t]) = 1 /\ Parent(t) = Node(t, 1) /\ path[t] # <<>>
    <3>1. path[t] # <<>> /\ Len(path[t]) <= 1
      BY <1>1, <2>2, <2>3 DEF PlaceOK
    <3>2. TypeOK
      BY <1>1
    <3>3. Len(path[t]) \in Nat /\ Len(path[t]) > 0
      BY <3>1, <3>2, PathFacts
    <3>4. \A l \in Nat : l > 0 /\ l <= 1 => l = 1
      OBVIOUS
    <3>5. Len(path[t]) = 1
      BY <3>1, <3>3, <3>4
    <3> QED BY <3>1, <3>5 DEF Parent, Node
  <2>5. Node(t, 1) \in Nodes
    BY <1>1, <2>1, <2>4, PathFacts
  <2>6. Leads(t, Node(t, 1), at[t]) /\ heap[Node(t, 1)].level \in Int
    BY <1>1, <2>3, <2>4, <2>5, NodeFacts DEF PathOK
  <2>7. heap[Node(t, 1)].level > 0
    BY <2>1, <2>2, <2>3, <2>4, <2>6 DEF Leads, Scanning
  <2>8. PlaceOK(t)'
    BY <1>1, <1>2, <1>3, <2>1, <2>2, <2>4, <2>3 DEF PlaceOK, Walking
  <2>9. PathOK(t)'
    BY <1>1, <1>2, <2>1, <2>3, PathKept DEF Walking
  <2>10. CarryOK(t)'
    BY <1>2, <1>3, <2>1, <2>3, <2>4, <2>7, NothingUp DEF CarryOK
  <2> QED BY <2>8, <2>9, <2>10 DEF StaysOK
<1>5. CASE UpgradeWon(t)
  <2>1. pc[t] = "upgrade" /\ pc'[t] = "updrain" /\ mode'[t] = "sure"
    BY <1>1, <1>5, Moves DEF UpgradeWon, ThreadTyped
  <2>2. mode[t] = "try" /\ Len(path[t]) = 1 /\ Node(t, 1) # Tree /\ Op(t) = "insert" /\ call[t] # None
    BY <1>1, <2>1 DEF PlaceOK
  <2>3. PlaceOK(t)'
    BY <1>2, <1>3, <2>1, <2>2 DEF PlaceOK, Walking
  <2>4. PathOK(t)'
    BY <1>1, <1>2, <2>1, PathKept DEF Walking
  <2>5. CarryOK(t)'
    BY <1>1, <1>2, <1>3, <2>1, NothingUp DEF CarryOK
  <2> QED BY <2>3, <2>4, <2>5 DEF StaysOK
<1> QED BY <1>4, <1>5

\* at the leaf, an insert with write locks turns back; with a new leaf if it split
LEMMA TurnsBack ==
  ASSUME IInv, NEW t \in Threads, SurePresent(t) \/ SureInsert(t) \/ SureSplit(t)
  PROVE  StaysOK(t)
<1>1. /\ ThreadTyped /\ PlaceOK(t) /\ PathOK(t) /\ Step(t) /\ TypeOK /\ TreeTyped /\ TreeOK
      /\ TreeMoves(t) /\ TreeStep(t)
  BY Parts, Typed, StepTree DEF Step, TreeMoves
<1>2. /\ Inserting(t, "sure") /\ pc'[t] = "climb" /\ UNCHANGED <<call, mode, path>>
      /\ ~SureSplit(t) => carry'[t] = NoChild
  BY <1>1, Moves DEF SurePresent, SureInsert, SureSplit
<1>3. InLeaf(t) /\ mode[t] = "sure" /\ Op(t) = "insert" /\ Op(t)' = Op(t) /\ call[t] # None
  BY <1>1, <1>2, InsertMode DEF Inserting, PlaceOK, Op
<1>4. at[t] \in Allocated /\ at[t] # Tree /\ heap[at[t]].level = 0 /\ pc[t] = "visit" /\ Walking(t)
  BY <1>1, <1>3, AtLeaf DEF Walking
<1>5. path[t] # <<>>
  BY <1>1, <1>4 DEF PlaceOK
<1>6. PlaceOK(t)'
  BY <1>2, <1>3, <1>5 DEF PlaceOK, Walking
<1>7. /\ PathOK(t)'
      /\ mode[t] = "sure" => (path'[t] # <<>> /\ Node(t, 1)' # Tree =>
            ~InnerFull(Node(t, 1))' /\ heap'[Node(t, 1)'].level > 0)
  BY <1>1, <1>2, <1>4, PathKept
<1>8. ASSUME SureSplit(t)
      PROVE  /\ carry'[t].node \in Allocated'
             /\ Top(t)'.node # Tree => heap'[carry'[t].node].level = heap'[Top(t)'.node].level - 1
             /\ Top(t)'.node = Tree => /\ heap'[carry'[t].node].level = heap'[root'].level
                                       /\ Len(Keys(root)') >= Half(root)'
  <2>1. /\ carry'[t].node = used + 1 /\ used' = used + 1 /\ used + 1 <= MaxNodes /\ root' = root
        /\ LeafFull(at[t])
    <3>1. \E k : TurnBack(t, 1, [key |-> k, node |-> used + 1])
      BY <1>8, Zenon DEF SureSplit
    <3>2. PICK k : TurnBack(t, 1, [key |-> k, node |-> used + 1])
      BY <3>1
    <3>3. carry'[t] = [key |-> k, node |-> used + 1]
      BY <1>1, <3>2, Moves
    <3>4. carry'[t].node = used + 1
      BY <3>3
    <3>5. used' = used + 1 /\ used < MaxNodes /\ root' = root /\ LeafFull(at[t])
      BY <1>8 DEF SureSplit
    <3> QED BY <1>1, <3>4, <3>5, InUse, Constants
  <2>2. used + 1 \in Allocated' /\ used + 1 \in Nodes /\ used + 1 # at[t] /\ at[t] \in Nodes
    BY <1>1, <1>4, <2>1, InUse, Constants DEF Allocated
  <2>3. heap'[used + 1].level = 0
    BY <1>1, <1>4, <1>8, <2>2 DEF SureSplit, Relinked, WithItem, TreeTyped
  <2>4. /\ Top(t)' = Top(t) /\ Top(t).node = Node(t, Len(path[t])) /\ Leads(t, Top(t).node, at[t])
        /\ Len(path[t]) \in 1 .. Len(path[t])
    BY <1>1, <1>2, <1>4, <1>5, PathFacts DEF Top, Node, PathOK
  <2>5. ASSUME Top(t).node # Tree
        PROVE  heap'[used + 1].level = heap'[Top(t).node].level - 1
    <3>1. heap[at[t]].level = heap[Top(t).node].level - 1
      BY <1>3, <2>4, <2>5 DEF Leads, Scanning
    <3>2. Top(t).node \in Allocated
      BY <1>1, <2>4, <2>5 DEF PathOK
    <3>3. heap'[Top(t).node].level = heap[Top(t).node].level
      BY <1>1, <3>2 DEF TreeStep
    <3> QED BY <1>4, <2>3, <3>1, <3>3
  <2>6. ASSUME Top(t).node = Tree
        PROVE  heap'[used + 1].level = heap'[root'].level /\ Len(Keys(root)') >= Half(root)'
    <3>1. root = at[t]
      BY <2>4, <2>6 DEF Leads
    <3>2. root \in Allocated /\ Len(heap[root].keys) = LeafSlots /\ heap[root].level = 0
      BY <1>4, <2>1, <3>1 DEF LeafFull
    <3>3. heap'[root].level = 0 /\ (Len(heap[root].keys) >= LeafSlots \div 2 =>
                                    Len(heap'[root].keys) >= LeafSlots \div 2)
      BY <1>1, <3>2 DEF TreeStep, Keys, Half
    <3>4. Len(heap'[root].keys) >= LeafSlots \div 2
      BY <3>2, <3>3, Constants
    <3> QED BY <2>1, <2>3, <3>3, <3>4 DEF Keys, Half
  <2> QED BY <2>1, <2>2, <2>4, <2>5, <2>6
<1>9. CarryOK(t)'
  BY <1>2, <1>3, <1>7, <1>8 DEF CarryOK
<1> QED BY <1>6, <1>7, <1>9 DEF StaysOK

\* what is left of a path when its last lock goes
LEMMA PathShortened ==
  ASSUME IInv, NEW t \in Threads, Step(t), pc[t] = "climb", pc'[t] = "climb", call'[t] = call[t],
         Len(path[t]) # 1, path'[t] = Front(path[t])
  PROVE  /\ PathOK(t)' /\ path'[t] # <<>>
         /\ Len(path[t]) - 1 \in 1 .. Len(path[t]) - 1
         /\ Top(t)'.node = Node(t, Len(path[t]) - 1)
         /\ Leads(t, Node(t, Len(path[t]) - 1), Top(t).node)
         /\ Node(t, 1)' # Tree => ~InnerFull(Node(t, 1))' /\ heap'[Node(t, 1)'].level > 0
<1>1. /\ TypeOK /\ TreeTyped /\ PathOK(t) /\ TreeMoves(t) /\ path[t] # <<>> /\ mode[t] = "sure"
  BY Parts, StepTree, ClimbFacts
<1>2. PICK l \in Nat : l = Len(path[t]) - 1 /\ l > 0 /\ Len(path[t]) = l + 1
  <2>1. TypeOK /\ path[t] # <<>>
    BY <1>1
  <2>2. Len(path[t]) \in Nat /\ Len(path[t]) > 0
    BY <2>1, PathFacts
  <2>3. \A n \in Nat : n > 0 /\ n # 1 => n - 1 \in Nat /\ n - 1 > 0 /\ n = (n - 1) + 1
    OBVIOUS
  <2> QED BY <2>2, <2>3
<1>3. /\ path[t] \in Seq(Frames) /\ l \in 1 .. l /\ l \in 0 .. Len(path[t])
      /\ \A i \in 1 .. l : i \in 1 .. Len(path[t])
      /\ l + 1 \in 1 .. Len(path[t])
  <2>1. path[t] \in Seq(Frames)
    BY <1>1, PathFacts DEF Frames
  <2>2. /\ l \in 1 .. l /\ l \in 0 .. l + 1 /\ l + 1 \in 1 .. l + 1
        /\ \A i \in 1 .. l : i \in 1 .. l + 1
    BY <1>2
  <2> QED BY <1>2, <2>1, <2>2
<1>4. Len(path'[t]) = l /\ \A i \in 1 .. l : path'[t][i] = path[t][i]
  BY <1>1, <1>2, <1>3, WithoutLast
<1>5. Top(t).node = Node(t, l + 1) /\ Mine(t) \subseteq {Node(t, l + 1)}
  <2>1. Top(t).node = Node(t, l + 1)
    BY <1>2 DEF Top, Node
  <2>2. Mine(t) \subseteq {Top(t).node}
    BY DEF Mine
  <2> QED BY <2>1, <2>2
<1>6. \A i \in 1 .. l : Node(t, i) # Node(t, l + 1)
  BY <1>2, <1>3, Apart
<1>7. \A i \in 1 .. l : Node(t, i) \notin Mine(t)
  BY <1>5, <1>6
<1>8. PathOK(t)'
  BY <1>1, <1>3, <1>4, <1>7, PathStays
<1>9. Leads(t, Node(t, l), Node(t, l + 1))
  BY <1>1, <1>2, <1>3 DEF PathOK
<1>10. Top(t)'.node = Node(t, l)
  BY <1>3, <1>4 DEF Top, Node
<1>11. Node(t, 1)' = Node(t, 1) /\ 1 \in 1 .. l
  BY <1>2, <1>4 DEF Node
<1>12. ASSUME Node(t, 1) # Tree
       PROVE  heap'[Node(t, 1)].level > 0 /\ Len(heap'[Node(t, 1)].keys) # InnerSlots
  BY <1>1, <1>7, <1>11, <1>12, FirstStays
<1>13. Node(t, 1)' # Tree => ~InnerFull(Node(t, 1))' /\ heap'[Node(t, 1)'].level > 0
  BY <1>11, <1>12 DEF InnerFull
<1>14. path'[t] # <<>>
  BY <1>2, <1>4
<1> QED BY <1>2, <1>3, <1>5, <1>8, <1>9, <1>10, <1>13, <1>14

\* the new half of an inner node
LEMMA NewHalf ==
  ASSUME IInv, NEW t \in Threads, ClimbSplit(t)
  PROVE  /\ Top(t).node \in Allocated /\ Top(t).node # Tree /\ Len(heap[Top(t).node].keys) = InnerSlots
         /\ heap[Top(t).node].level > 0 /\ used' = used + 1 /\ root' = root /\ used + 1 \in Allocated'
         /\ heap'[used + 1].level = heap[Top(t).node].level
<1> DEFINE n == Top(t).node
           h == Halves(heap[n], Top(t).slot, carry[t])
<1>1. /\ pc[t] = "climb" /\ carry[t] # NoChild /\ n # Tree /\ InnerFull(n) /\ used < MaxNodes
      /\ used' = used + 1 /\ heap' = [heap EXCEPT ![n] = h.left, ![used + 1] = h.right] /\ root' = root
  BY DEF ClimbSplit
<1>2. TypeOK /\ TreeTyped
  BY Parts
<1>3. /\ n \in Allocated /\ n \in Nodes /\ heap[n].level > 0 /\ heap[n] \in NodeType
      /\ Top(t).slot \in 0 .. Len(heap[n].keys) /\ Len(heap[n].keys) = InnerSlots
      /\ Len(heap[n].child) = InnerSlots + 1 /\ carry[t] \in [key : Nat, node : Nodes]
  BY <1>1, TopFacts, ClimbFacts DEF InnerFull
<1>4. Filled(h.right, heap[n].level, ChildSet(heap[n]) \cup {carry[t].node})
  BY <1>3, SplitNode
<1>5. used + 1 \in Nodes /\ used + 1 # n /\ used + 1 \in Allocated'
  BY <1>1, <1>2, <1>3, InUse, Constants DEF Allocated
<1> HIDE DEF h, n
<1>6. heap'[used + 1] = h.right
  BY <1>1, <1>2, <1>5 DEF TreeTyped
<1> QED BY <1>1, <1>3, <1>4, <1>5, <1>6 DEF Filled, n

\* on the way back up a thread lets go of one lock after the other
LEMMA ClimbsOn ==
  ASSUME IInv, NEW t \in Threads, ClimbPast(t) \/ ClimbInsert(t) \/ ClimbSplit(t) \/ NewRoot(t)
  PROVE  StaysOK(t)
<1>1. /\ ThreadTyped /\ PlaceOK(t) /\ PathOK(t) /\ CarryOK(t) /\ Step(t) /\ TypeOK /\ TreeTyped
      /\ TreeMoves(t) /\ TreeStep(t)
  BY Parts, Typed, StepTree DEF Step, TreeMoves
\* it carries nothing further up ...
<1>2. CASE ClimbPast(t) \/ ClimbInsert(t) \/ NewRoot(t)
  <2>1. Pop(t, NoChild)
    BY <1>2 DEF ClimbPast, ClimbInsert, NewRoot
  <2>2. pc[t] = "climb" /\ carry'[t] = NoChild
    BY <1>1, <2>1, Moves
  <2>3. CASE Len(path[t]) = 1
    BY <1>1, <2>1, <2>2, <2>3, Moves, Gone
  <2>4. CASE Len(path[t]) # 1
    <3>1. path'[t] = Front(path[t]) /\ UNCHANGED <<pc, call, mode, at>>
      BY <1>1, <2>1, <2>4, Moves
    <3>2. /\ PathOK(t)' /\ path'[t] # <<>>
          /\ Node(t, 1)' # Tree => ~InnerFull(Node(t, 1))' /\ heap'[Node(t, 1)'].level > 0
      BY <1>1, <2>2, <2>4, <3>1, PathShortened
    <3>3. PlaceOK(t)'
      BY <1>1, <2>2, <3>1, <3>2 DEF PlaceOK, Walking, Op
    <3>4. CarryOK(t)'
      BY <2>2, <3>2 DEF CarryOK
    <3> QED BY <3>2, <3>3, <3>4 DEF StaysOK
  <2> QED BY <2>3, <2>4
\* ... or the new half of a node, and then it holds the lock above
<1>3. CASE ClimbSplit(t)
  <2> DEFINE n == Top(t).node
  <2>1. /\ n \in Allocated /\ n # Tree /\ Len(heap[n].keys) = InnerSlots /\ heap[n].level > 0
        /\ root' = root /\ used + 1 \in Allocated' /\ heap'[used + 1].level = heap[n].level
    BY <1>3, NewHalf
  <2>2. \E k : Pop(t, [key |-> k, node |-> used + 1])
    BY <1>3, Zenon DEF ClimbSplit
  <2>3. PICK k : Pop(t, [key |-> k, node |-> used + 1])
    BY <2>2
  <2>4. pc[t] = "climb" /\ carry'[t].node = used + 1
    BY <1>1, <2>3, Moves
  <2>5. Len(path[t]) # 1
    <3>1. Len(path[t]) = 1 => n = Node(t, 1)
      BY DEF Top, Node
    <3>2. path[t] # <<>> /\ mode[t] = "sure"
      BY <2>4, ClimbFacts
    <3> QED BY <1>1, <2>1, <3>1, <3>2 DEF CarryOK, InnerFull
  <2>6. path'[t] = Front(path[t]) /\ UNCHANGED <<pc, call, mode, at>>
    BY <1>1, <2>3, <2>5, Moves
  <2>7. /\ PathOK(t)' /\ path'[t] # <<>> /\ Len(path[t]) - 1 \in 1 .. Len(path[t]) - 1
        /\ Top(t)'.node = Node(t, Len(path[t]) - 1)
        /\ Leads(t, Node(t, Len(path[t]) - 1), n)
        /\ Node(t, 1)' # Tree => ~InnerFull(Node(t, 1))' /\ heap'[Node(t, 1)'].level > 0
    BY <1>1, <2>4, <2>5, <2>6, PathShortened
  <2>8. PlaceOK(t)'
    BY <1>1, <2>4, <2>6, <2>7 DEF PlaceOK, Walking, Op
  <2>9. PICK p : p = Node(t, Len(path[t]) - 1)
    OBVIOUS
  <2>10. Leads(t, p, n) /\ Top(t)'.node = p /\ p \in Allocated \cup {Tree}
    <3>1. Len(path[t]) \in Nat
      BY <1>1, PathFacts
    <3>2. Len(path[t]) - 1 \in 1 .. Len(path[t])
      BY <2>7, <3>1
    <3> QED BY <1>1, <2>7, <2>9, <3>2 DEF PathOK
  <2> HIDE DEF n
  <2>11. ~Scanning(t)
    BY <2>4, ClimbFacts DEF Scanning
  <2>12. ASSUME p # Tree PROVE heap'[used + 1].level = heap'[p].level - 1
    <3>1. p \in Allocated /\ heap[n].level = heap[p].level - 1
      BY <2>10, <2>11, <2>12 DEF Leads
    <3>2. heap'[p].level = heap[p].level
      BY <1>1, <3>1 DEF TreeStep
    <3> QED BY <2>1, <3>1, <3>2
  <2>13. ASSUME p = Tree
         PROVE  heap'[used + 1].level = heap'[root'].level /\ Len(Keys(root)') >= Half(root)'
    <3>1. root = n
      BY <1>1, <2>10, <2>13, InUse DEF Leads
    <3>2. heap'[n].level = heap[n].level /\ (Len(heap[n].keys) >= Half(n) => Len(heap'[n].keys) >= Half(n))
      BY <1>1, <2>1 DEF TreeStep, Keys
    <3>3. Half(n) = InnerSlots \div 2 /\ Len(heap[n].keys) >= InnerSlots \div 2
      BY <2>1, Constants DEF Half
    <3>4. heap'[root'].level > 0 /\ Len(heap'[root'].keys) >= InnerSlots \div 2
      BY <2>1, <3>1, <3>2, <3>3
    <3> QED BY <2>1, <3>1, <3>2, <3>4 DEF Keys, Half
  <2>14. CarryOK(t)'
    BY <2>1, <2>4, <2>6, <2>7, <2>10, <2>12, <2>13 DEF CarryOK
  <2> QED BY <2>7, <2>8, <2>14 DEF StaysOK
<1> QED BY <1>2, <1>3

\* a call begins; an insert starts again with write locks
LEMMA Begins ==
  ASSUME IInv, NEW t \in Threads, Start(t) \/ TryEmpty(t) \/ TryRestart(t) \/ UpgradeLost(t)
  PROVE  StaysOK(t)
<1>1. ThreadTyped /\ PlaceOK(t)
  BY Parts, Typed
<1>2. CASE Start(t)
  <2>1. PICK c \in todo[t] : /\ pc[t] = "idle" /\ call' = [call EXCEPT ![t] = c]
                             /\ mode' = [mode EXCEPT ![t] = IF c.op = "insert" THEN "try" ELSE "read"]
                             /\ Approach(t, Tree, <<>>) /\ carry' = carry
    BY <1>2 DEF Start
  <2>2. /\ call'[t] = c /\ mode'[t] = (IF c.op = "insert" THEN "try" ELSE "read") /\ c \in Calls
        /\ pc'[t] = "lock" /\ at'[t] = Tree /\ path'[t] = <<>> /\ carry'[t] = carry[t]
    <3>1. c \in Calls
      BY <1>1 DEF ThreadTyped
    <3>2. call'[t] = c /\ mode'[t] = IF c.op = "insert" THEN "try" ELSE "read"
      BY <1>1, <2>1 DEF ThreadTyped
    <3>3. pc'[t] = "lock" /\ at'[t] = Tree /\ path'[t] = <<>>
      BY <1>1, <2>1, Moves
    <3> QED BY <2>1, <3>1, <3>2, <3>3
  <2>3. c # None /\ Op(t)' = c.op
    BY <2>2 DEF Calls, None, Ops, Op
  <2>4. mode'[t] \in {"try", "sure"} <=> Op(t)' = "insert"
    BY <2>2, <2>3
  <2>5. carry'[t] = NoChild
    BY <2>1, <2>2, NothingUp
  <2> QED BY <2>2, <2>3, <2>4, <2>5, Away
<1>3. CASE TryEmpty(t) \/ TryRestart(t) \/ UpgradeLost(t)
  <2>1. Restart(t) /\ pc[t] \in {"visit", "upgrade"} /\ mode[t] = "try"
    BY <1>1, <1>3 DEF TryEmpty, TryRestart, UpgradeLost, Visiting, Inserting, InLeaf, PlaceOK
  <2>2. /\ pc'[t] = "lock" /\ at'[t] = Tree /\ path'[t] = <<>> /\ mode'[t] = "sure"
        /\ call'[t] = call[t] /\ carry'[t] = carry[t]
    BY <1>1, <2>1, Moves
  <2>3. Op(t) = "insert" /\ call[t] # None /\ Op(t)' = Op(t) /\ carry[t] = NoChild
    BY <2>1, <2>2, InsertMode, NothingUp DEF Op
  <2> QED BY <2>2, <2>3, Away
<1> QED BY <1>2, <1>3

\* a call ends at a leaf or with an empty tree
LEMMA Ends ==
  ASSUME IInv, NEW t \in Threads,
         ReadEmpty(t) \/ Lookup(t) \/ ScanEnd(t) \/ TryPresent(t) \/ TryInsert(t)
  PROVE  StaysOK(t)
<1>1. ThreadTyped
  BY Parts, Typed
<1>2. pc[t] = "visit"
  BY DEF ReadEmpty, Lookup, ScanEnd, TryPresent, TryInsert, Visiting, Inserting, InLeaf
<1>3. carry[t] = NoChild
  BY <1>2, NothingUp
<1>4. Forget(t) /\ carry'[t] = carry[t]
  <2>1. CASE ReadEmpty(t)
    BY <1>1, <2>1, Moves DEF ReadEmpty
  <2>2. CASE Lookup(t)
    <3>1. \E r : Return(t, r)
      BY <2>2 DEF Lookup
    <3> QED BY <1>1, <3>1, Moves
  <2>3. CASE ScanEnd(t)
    BY <2>3 DEF ScanEnd
  <2>4. CASE TryPresent(t) \/ TryInsert(t)
    BY <1>1, <2>4, Moves DEF TryPresent, TryInsert
  <2> QED BY <2>1, <2>2, <2>3, <2>4
<1> QED BY <1>1, <1>3, <1>4, Gone

\* a scan of nothing leaves its thread where it is
LEMMA Stays ==
  ASSUME IInv, NEW t \in Threads, UNCHANGED <<tree, pc, call, mode, at, path, carry>>
  PROVE  StaysOK(t)
<1>1. PlaceOK(t)'
  BY Parts DEF PlaceOK, Walking, ForWriting, IsLeaf, Op, Node, Allocated, tree
<1>2. CarryOK(t)'
  BY Parts DEF CarryOK, Top, Keys, Half, InnerFull, Node, Allocated, tree
<1>3. PathOK(t)'
  <2>1. PathOK(t) /\ \A i : Node(t, i)' = Node(t, i)
    BY Parts DEF Node
  <2>2. \A i : SlotOK(t, i)' <=> SlotOK(t, i)
    BY DEF SlotOK, Scanning, Op, K, Keys, SlotIn, Node, tree
  <2>3. \A i, b : ChildOK(t, i, b)' <=> ChildOK(t, i, b)
    BY DEF ChildOK, Walking, Scanning, Op, ChildAt, Node, tree
  <2>4. \A n, b : Leads(t, n, b)' <=> Leads(t, n, b)
    BY DEF Leads, Scanning, Op, Allocated, tree
  <2>5. Allocated' = Allocated /\ heap' = heap
    BY DEF Allocated, tree
  <2> QED BY <2>1, <2>2, <2>3, <2>4, <2>5 DEF PathOK
<1> QED BY <1>1, <1>2, <1>3 DEF StaysOK

\* where a step takes its thread is right
LEMMA OwnOK ==
  ASSUME IInv, NEW t \in Threads, Step(t)
  PROVE  StaysOK(t)
<1>1. CASE ScanNothing(t)
  BY <1>1, Stays DEF ScanNothing, place
<1>2. CASE Start(t) \/ TryEmpty(t) \/ TryRestart(t) \/ UpgradeLost(t)
  BY <1>2, Begins
<1>3. CASE ReadLock(t) \/ WriteLock(t) \/ Drain(t)
  BY <1>3, Locks
<1>4. CASE EnterTree(t) \/ FirstLeaf(t) \/ Descend(t) \/ DescendSure(t) \/ ScanOn(t) \/ UpgradeDrain(t)
  BY <1>4, ToRoot, ToChild, ToChildSure, ToNextLeaf, ToKnownChild
<1>5. CASE ReadEmpty(t) \/ Lookup(t) \/ ScanEnd(t) \/ TryPresent(t) \/ TryInsert(t)
  BY <1>5, Ends
<1>6. CASE TryUpgrade(t) \/ UpgradeWon(t)
  BY <1>6, Upgrades
<1>7. CASE SurePresent(t) \/ SureInsert(t) \/ SureSplit(t)
  BY <1>7, TurnsBack
<1>8. CASE ClimbPast(t) \/ ClimbInsert(t) \/ ClimbSplit(t) \/ NewRoot(t)
  BY <1>8, ClimbsOn
<1> QED BY <1>1, <1>2, <1>3, <1>4, <1>5, <1>6, <1>7, <1>8 DEF Step

-------------------------------------------------------------------------------
(* The invariant                                                           *)

\* an empty tree, and every thread idle
LEMMA InvInit == Init => IInv
<1> SUFFICES ASSUME Init PROVE IInv
  OBVIOUS
<1> USE DEF Init
<1>1. MaxNodes \in Nat /\ Tree \notin Nodes /\ Null \notin Nodes /\ Tree # Null
  BY Constants
<1>2. Blank \in NodeType
  BY <1>1 DEF Blank, NodeType
<1>3. TreeTyped
  BY <1>1, <1>2 DEF TreeTyped, Allocated
<1>4. LocksTyped
  BY DEF LocksTyped
<1>5. ThreadTyped
  BY WorkAssumption, <1>1 DEF ThreadTyped, Places, NoChild
<1>6. TypeOK
  BY <1>3, <1>4, <1>5, Typed
<1>7. Allocated = {}
  BY DEF Allocated
<1>8. TreeOK
  BY <1>7 DEF TreeOK
<1>9. ASSUME NEW t \in Threads
      PROVE  /\ PlaceOK(t) /\ PathOK(t) /\ CarryOK(t)
             /\ Held(t) = {} /\ ReadHeld(t) = {} /\ WriteHeld(t) = {} /\ Own(t) = {}
  <2>1. /\ pc[t] = "idle" /\ call[t] = None /\ mode[t] = "read" /\ path[t] = <<>> /\ carry[t] = NoChild
        /\ Len(path[t]) = 0
    OBVIOUS
  <2>2. Held(t) = {}
    BY <2>1 DEF Held
  <2>3. PlaceOK(t)
    BY <2>1 DEF PlaceOK, Walking, Op, None
  <2>4. PathOK(t)
    BY <2>1 DEF PathOK
  <2>5. CarryOK(t)
    BY <2>1 DEF CarryOK
  <2> QED BY <2>1, <2>2, <2>3, <2>4, <2>5 DEF ReadHeld, WriteHeld, Own
<1>10. Drained
  BY <1>9 DEF Drained
<1>11. LocksExact
  <2> SUFFICES ASSUME NEW n \in Nodes \cup {Tree}
               PROVE  /\ readers[n] = Cardinality({t \in Threads : n \in ReadHeld(t)})
                      /\ Cardinality({t \in Threads : n \in WriteHeld(t)}) = IF writer[n] THEN 1 ELSE 0
    BY DEF LocksExact
  <2>1. {t \in Threads : n \in ReadHeld(t)} = {} /\ {t \in Threads : n \in WriteHeld(t)} = {}
    BY <1>9
  <2>2. readers[n] = 0 /\ writer[n] = FALSE
    OBVIOUS
  <2>3. Cardinality({}) = 0
    BY FS_EmptySet
  <2> QED BY <2>1, <2>2, <2>3
<1> QED BY <1>6, <1>8, <1>9, <1>10, <1>11 DEF IInv

\* what does not touch the tree, the locks and the places keeps the invariant
LEMMA InvStays ==
  ASSUME IInv, UNCHANGED <<tree, locks, pc, call, mode, place, carry>>, ThreadTyped'
  PROVE  IInv'
<1>1. TypeOK /\ TreeTyped /\ LocksTyped /\ TreeOK /\ LocksExact /\ Drained
  BY Typed DEF IInv
<1>2. TreeTyped' /\ LocksTyped'
  BY <1>1 DEF TreeTyped, LocksTyped, Allocated, tree, locks
<1>3. TypeOK'
  <2>1. TreeTyped' /\ LocksTyped' /\ ThreadTyped' => TypeOK'
    BY DEF TypeOK, TreeTyped, LocksTyped, ThreadTyped, Allocated
  <2> QED BY <1>2, <2>1
<1>4. TreeOK'
  BY <1>1 DEF TreeOK, LeafOK, InnerOK, Keys, Allocated, tree
<1>5. \A t \in Threads : ReadHeld(t)' = ReadHeld(t) /\ WriteHeld(t)' = WriteHeld(t) /\ Own(t)' = Own(t)
  BY DEF ReadHeld, WriteHeld, Own, Held, ForWriting, IsLeaf, tree, place
<1>6. LocksExact'
  <2> SUFFICES ASSUME NEW n \in Nodes \cup {Tree}
               PROVE  /\ readers'[n] = Cardinality({t \in Threads : n \in ReadHeld(t)'})
                      /\ Cardinality({t \in Threads : n \in WriteHeld(t)'}) = IF writer'[n] THEN 1 ELSE 0
    BY DEF LocksExact
  <2>1. /\ {t \in Threads : n \in ReadHeld(t)'} = {t \in Threads : n \in ReadHeld(t)}
        /\ {t \in Threads : n \in WriteHeld(t)'} = {t \in Threads : n \in WriteHeld(t)}
    BY <1>5
  <2>2. readers' = readers /\ writer' = writer
    BY DEF locks
  <2> QED BY <1>1, <2>1, <2>2 DEF LocksExact
<1>7. Drained'
  BY <1>1, <1>5 DEF Drained, locks
<1>8. \A t \in Threads : StaysOK(t)
  BY Stays DEF place
<1> QED BY <1>3, <1>4, <1>6, <1>7, <1>8 DEF IInv, StaysOK

\* every step keeps the invariant
LEMMA InvNext == IInv /\ [Next]_vars => IInv'
<1> SUFFICES ASSUME IInv, [Next]_vars PROVE IInv'
  OBVIOUS
<1>1. TypeOK /\ ThreadTyped
  BY Typed DEF IInv
<1>2. ASSUME NEW t \in Threads, Step(t) PROVE IInv'
  <2>1. TreeTyped' /\ TreeOK'
    BY <1>2, StepTree DEF TreeMoves
  <2>2. LocksTyped' /\ LocksExact' /\ Drained'
    BY <1>2, StepExact
  <2>3. ThreadTyped'
    BY <1>2, StepTyped
  <2>4. TypeOK'
    <3>1. TreeTyped' /\ LocksTyped' /\ ThreadTyped' => TypeOK'
      BY DEF TypeOK, TreeTyped, LocksTyped, ThreadTyped, Allocated
    <3> QED BY <2>1, <2>2, <2>3, <3>1
  <2>5. \A u \in Threads : PlaceOK(u)' /\ PathOK(u)' /\ CarryOK(u)'
    BY <1>2, OthersOK, OwnOK DEF StaysOK
  <2> QED BY <2>1, <2>2, <2>4, <2>5 DEF IInv
<1>3. CASE NextRound
  <2>1. round' \in 1 .. Len(Work) /\ todo' = Work[round']
    BY <1>1, <1>3, WorkAssumption DEF NextRound, ThreadTyped
  <2>2. todo' \in [Threads -> SUBSET Calls]
    BY <2>1, WorkAssumption
  <2>3. ThreadTyped'
    BY <1>1, <1>3, <2>1, <2>2 DEF NextRound, ThreadTyped, place
  <2> QED BY <1>3, <2>3, InvStays DEF NextRound
<1>4. CASE UNCHANGED vars
  <2>1. ThreadTyped'
    BY <1>1, <1>4 DEF vars, ThreadTyped, place, driver
  <2> QED BY <1>4, <2>1, InvStays DEF vars
<1>5. CASE Finished
  BY <1>4, <1>5 DEF Finished
<1> QED BY <1>2, <1>3, <1>4, <1>5 DEF Next

(* The inductive invariant of the tree: the variables keep their types, the *)
(* nodes their shape, the locks their holders and the threads their places, *)
(* whatever the calls (all of BTree's actions).                             *)
THEOREM Inductive == Spec => []IInv
<1>1. Init => IInv
  BY InvInit
<1>2. IInv /\ [Next]_vars => IInv'
  BY InvNext
<1> QED BY <1>1, <1>2, PTL DEF Spec

(* Every variable keeps its type: no node outside the nodes there are, no   *)
(* count of readers below zero, no slot that is not a number.               *)
THEOREM TypeCorrect == Spec => []TypeOK
<1>1. IInv => TypeOK
  BY DEF IInv
<1> QED BY <1>1, Inductive, PTL

(* However many threads there are and whichever way each leaves - found,    *)
(* full, upgraded, upgrade failed, restarted, split up to the root - every  *)
(* lock counts exactly the threads that hold it.                            *)
THEOREM LocksStayExact == Spec => []LocksExact
<1>1. IInv => LocksExact
  BY DEF IInv
<1> QED BY <1>1, Inductive, PTL

(* The slot and the child a thread read on its way down stay right while it *)
(* holds the lock it read them under, the leaf that an optimistic insert    *)
(* lets go and the upgrade of the parent included.                          *)
THEOREM SlotsStayRight == Spec => []SlotsStay
<1>1. ASSUME IInv PROVE SlotsStay
  <2> SUFFICES ASSUME NEW t \in Threads, pc[t] \notin {"idle", "climb"}, ~Scanning(t),
                      NEW i \in 1 .. Len(path[t])
               PROVE  LET n == path[t][i].node
                          below == IF i < Len(path[t]) THEN path[t][i + 1].node ELSE at[t]
                      IN IF n = Tree THEN below = root
                         ELSE /\ path[t][i].slot = SlotIn(n, K(t))
                              /\ pc[t] \notin {"upgrade", "updrain"} =>
                                   below = ChildAt(n, path[t][i].slot)
    BY DEF SlotsStay
  <2>1. TypeOK /\ PathOK(t) /\ Len(path[t]) \in Nat /\ pc[t] \in Places
    BY <1>1, Parts, PathFacts DEF TypeOK
  <2>2. pc[t] \notin {"upgrade", "updrain"} => Walking(t)
    BY <2>1 DEF Walking, Places
  <2>3. SlotOK(t, i)
    BY <2>1 DEF PathOK
  <2>4. ASSUME NEW b, Leads(t, Node(t, i), b), ChildOK(t, i, b)
        PROVE  IF Node(t, i) = Tree THEN b = root
               ELSE /\ path[t][i].slot = SlotIn(Node(t, i), K(t))
                    /\ pc[t] \notin {"upgrade", "updrain"} => b = ChildAt(Node(t, i), path[t][i].slot)
    BY <2>2, <2>3, <2>4 DEF Leads, SlotOK, ChildOK
  <2>5. CASE i < Len(path[t])
    <3>1. i \in 1 .. Len(path[t]) - 1
      BY <2>1, <2>5
    <3>2. Leads(t, Node(t, i), Node(t, i + 1)) /\ ChildOK(t, i, Node(t, i + 1))
      BY <2>1, <3>1 DEF PathOK
    <3> QED BY <2>4, <2>5, <3>2 DEF Node
  <2>6. CASE ~(i < Len(path[t]))
    <3>1. i = Len(path[t])
      BY <2>1, <2>6
    <3>2. Leads(t, Node(t, i), at[t]) /\ ChildOK(t, i, at[t])
      BY <2>1, <3>1 DEF PathOK
    <3> QED BY <2>4, <2>6, <3>2 DEF Node
  <2> QED BY <2>5, <2>6
<1> QED BY <1>1, Inductive, PTL

(* Whichever slot a split makes room for, no node outgrows its slots, none  *)
(* but the root has less than half of them in use, and all children of a    *)
(* node are one level below it: the part of verify_node that is not about   *)
(* the order of the keys.                                                   *)
THEOREM NodesStayFilled == Spec => []NodesFilled
<1>1. ASSUME IInv PROVE NodesFilled
  <2>1. TreeTyped /\ TreeOK
    BY <1>1, Typed DEF IInv
  <2>2. ASSUME NEW n \in Inners
        PROVE  /\ Len(heap[n].keys) <= InnerSlots
               /\ Len(heap[n].child) = Len(heap[n].keys) + 1
               /\ n # root => Len(heap[n].keys) >= InnerSlots \div 2
               /\ \A c \in Children(n) : heap[c].level = heap[n].level - 1
    <3>1. InnerOK(n)
      BY <2>1, <2>2 DEF Inners, TreeOK
    <3> QED BY <3>1 DEF InnerOK, Keys, Children
  <2>3. ASSUME NEW n \in Allocated \ Inners
        PROVE  /\ Len(heap[n].keys) = Len(heap[n].vals)
               /\ Len(heap[n].keys) <= LeafSlots
               /\ Cardinality(Allocated \ Inners) > 1 => Len(heap[n].keys) >= LeafSlots \div 2
    <3>1. n \in Allocated /\ heap[n].level \in 0 .. used - 1 /\ ~(heap[n].level > 0)
      BY <2>1, <2>3 DEF Inners, TreeOK
    <3>2. LeafOK(n)
      BY <2>1, <3>1, InUse DEF TreeOK
    <3>3. Cardinality(Allocated \ Inners) > 1 => used > 1
      <4> SUFFICES ASSUME ~(used > 1) PROVE ~(Cardinality(Allocated \ Inners) > 1)
        OBVIOUS
      <4>1. Allocated \ Inners \subseteq {1}
        BY <2>1, InUse
      <4>2. IsFiniteSet({1}) /\ Cardinality({1}) = 1
        BY FS_Singleton
      <4>3. Cardinality(Allocated \ Inners) \in Nat /\ Cardinality(Allocated \ Inners) <= 1
        BY <4>1, <4>2, FS_Subset, FS_CardinalityType
      <4> QED BY <4>3
    <3> QED BY <3>2, <3>3 DEF LeafOK, Keys
  <2> QED BY <2>2, <2>3 DEF NodesFilled
<1> QED BY <1>1, Inductive, PTL

(* The leaves stay linked both ways from head_leaf_ to tail_leaf_, though a *)
(* split writes the back link of a leaf it has not locked: the part of      *)
(* verify_leaflinks that is not about the order of the keys.                *)
THEOREM LeavesStayLinked == Spec => []LinkedBothWays
<1>1. ASSUME IInv PROVE LinkedBothWays
  <2>1. TreeTyped /\ TreeOK
    BY <1>1, Typed DEF IInv
  <2>2. ASSUME NEW n \in Chained
        PROVE  /\ IF heap[n].next = Null THEN tail = n ELSE heap[heap[n].next].prev = n
               /\ (heap[n].prev = Null) <=> (head = n)
    <3>1. n \in Allocated /\ heap[n].level = 0
      BY <2>1, <2>2 DEF Chained, TreeOK, Blank
    <3>2. LeafOK(n)
      BY <2>1, <3>1 DEF TreeOK
    <3> QED BY <3>2 DEF LeafOK
  <2> QED BY <2>2 DEF LinkedBothWays
<1> QED BY <1>1, Inductive, PTL

-------------------------------------------------------------------------------
(* The spans of the nodes                                                  *)

Lower(S, k) == {j \in S : j <= k}
Upper(S, k) == {j \in S : j > k}

\* n has a slot s; the tree has one, for the root
Cell(n, s) == \/ n = Tree /\ s = 0 /\ root # Null
              \/ n \in Inners /\ s \in 0 .. Len(Keys(n))
Child(n, s) == IF n = Tree THEN root ELSE ChildAt(n, s)

\* the keys that belong below slot s of n, when those of span[n] belong below n
Piece(span, n, s) == IF n = Tree THEN Nat ELSE {k \in span[n] : SlotIn(n, k) = s}

\* t is on its way back to that slot, with the other half of the slot's child
SplitAt(t, n, s) == t \in Climbing /\ Top(t).node = n /\ (n # Tree => Top(t).slot = s)

\* n and the node of up have the keys of S between them
Divides(span, S, n, up) == /\ up.key \in S
                           /\ span[n] = Lower(S, up.key) /\ span[up.node] = Upper(S, up.key)

CellOK(span, n, s) ==
  /\ (\A t \in Threads : ~SplitAt(t, n, s)) => span[Child(n, s)] = Piece(span, n, s)
  /\ \A t \in Threads : SplitAt(t, n, s) =>
       Divides(span, Piece(span, n, s), Child(n, s), carry[t])

\* keys in order, among those that belong here; in a leaf the last of these, if there is a last
NodeOrd(span, n) ==
  /\ span[n] # {} /\ KeysOf(n) \subseteq span[n] /\ Ascends(Keys(n))
  /\ heap[n].level <= heap[root].level
  /\ heap[n].level = 0 =>
       /\ \A k \in span[n] : (\A j \in span[n] : j <= k) => k \in KeysOf(n)
       /\ heap[n].next # Null => \A j \in span[n], k \in span[heap[n].next] : j < k

TreeOrd(span) ==
  /\ \A n \in Allocated : NodeOrd(span, n)
  /\ \A n, m \in Allocated : n # m /\ heap[n].level = heap[m].level => span[n] \cap span[m] = {}
  /\ \A n \in Nodes \cup {Tree}, s \in Nat : Cell(n, s) => CellOK(span, n, s)

\* a thread that looks for its key is where the key belongs, and one on its way back where
\* it came from
WayOK(span, t) ==
  ~Scanning(t) =>
    \A i \in 1 .. Len(path[t]) :
      /\ pc[t] # "climb" /\ Node(t, i) # Tree => K(t) \in span[Node(t, i)]
      /\ pc[t] = "climb" /\ i < Len(path[t]) =>
           Node(t, i + 1) = Child(Node(t, i), path[t][i].slot)

Spans == [Nodes -> SUBSET Nat]
Ordered(span) == TreeOrd(span) /\ \A t \in Threads : WayOK(span, t)

OInv == \E span \in Spans : Ordered(span)

\* a slot and its child
LEMMA CellFacts ==
  ASSUME IInv, NEW n, NEW s, Cell(n, s)
  PROVE  /\ n \in Allocated \cup {Tree} /\ n \in Nodes \cup {Tree} /\ s \in Nat
         /\ n # Tree => n \in Allocated /\ n \in Nodes /\ heap[n].level > 0 /\ heap[n].level \in Int
         /\ Child(n, s) \in Allocated /\ Child(n, s) \in Nodes /\ heap[Child(n, s)].level \in Int
         /\ n # Tree => heap[Child(n, s)].level = heap[n].level - 1
         /\ n = Tree => Child(n, s) = root /\ s = 0
<1>1. TreeTyped /\ TreeOK
  BY Typed DEF IInv
<1>2. Allocated \subseteq Nodes /\ Tree \notin Allocated /\ Null \notin Allocated /\ Tree \notin Nodes
  BY <1>1, InUse, Constants
<1>3. CASE n = Tree
  <2>1. root \in Allocated
    BY <1>1, <1>2, <1>3 DEF Cell, TreeTyped, Inners
  <2>2. heap[root].level \in Int
    BY <1>1, <1>2, <2>1, NodeFacts
  <2> QED BY <1>2, <1>3, <2>1, <2>2 DEF Cell, Child, Inners
<1>4. CASE n # Tree
  <2>1. n \in Allocated /\ heap[n].level > 0 /\ s \in 0 .. Len(Keys(n))
    BY <1>4 DEF Cell, Inners
  <2>2. ChildAt(n, s) \in Allocated /\ heap[ChildAt(n, s)].level = heap[n].level - 1
    BY <1>1, <2>1, ChildFacts
  <2>3. heap[n].level \in Int /\ heap[ChildAt(n, s)].level \in Int /\ Len(Keys(n)) \in Nat
    BY <1>1, <1>2, <2>1, <2>2, NodeFacts
  <2> QED BY <1>2, <1>4, <2>1, <2>2, <2>3 DEF Child
<1> QED BY <1>3, <1>4

\* the slot a thread with a split is on its way back to
LEMMA SplitFacts ==
  ASSUME IInv, NEW t \in Threads, t \in Climbing
  PROVE  LET n == Top(t).node
             s == IF n = Tree THEN 0 ELSE Top(t).slot
         IN /\ Cell(n, s) /\ SplitAt(t, n, s) /\ n \in Mine(t) /\ n \in Own(t) /\ n \in Held(t)
            /\ carry[t].node \in Allocated /\ carry[t].node \in Nodes
            /\ carry[t] \in [key : Nat, node : Nodes]
            /\ heap[carry[t].node].level = heap[Child(n, s)].level
<1> DEFINE n == Top(t).node
           s == IF n = Tree THEN 0 ELSE Top(t).slot
<1>1. pc[t] = "climb" /\ carry[t] # NoChild
  BY DEF Climbing
<1>2. /\ n \in Mine(t) /\ n \in Held(t) /\ n \in Allocated \cup {Tree}
      /\ carry[t].node \in Allocated /\ carry[t] \in [key : Nat, node : Nodes] /\ root # Null
  BY <1>1, ClimbFacts
<1>3. carry[t].node \in Nodes /\ n \in Own(t)
  BY <1>2 DEF Mine
<1>4. TypeOK /\ CarryOK(t)
  BY Parts
<1>5. CASE n = Tree
  <2>1. heap[carry[t].node].level = heap[root].level
    BY <1>1, <1>4, <1>5 DEF CarryOK
  <2> QED BY <1>2, <1>3, <1>5, <2>1 DEF Cell, Child, SplitAt
<1>6. CASE n # Tree
  <2>1. /\ n \in Allocated /\ heap[n].level > 0 /\ heap[n].level = heap[carry[t].node].level + 1
        /\ s \in 0 .. Len(heap[n].keys)
    BY <1>1, <1>6, TopFacts
  <2>2. Cell(n, s)
    BY <2>1 DEF Cell, Inners, Keys
  <2>3. heap[Child(n, s)].level = heap[n].level - 1 /\ heap[n].level \in Int
    BY <1>6, <2>2, CellFacts
  <2>4. heap[carry[t].node].level \in Int
    BY <1>3, <1>4, NodeFacts, Typed
  <2>5. heap[carry[t].node].level = heap[Child(n, s)].level
    BY <2>1, <2>3, <2>4
  <2> QED BY <1>2, <1>3, <1>6, <2>2, <2>5 DEF SplitAt
<1> QED BY <1>5, <1>6

\* no two threads come back to one node, and none to a node that another thread holds
LEMMA SplitAlone ==
  ASSUME IInv, NEW t \in Threads, NEW n, NEW s, NEW u \in Threads, SplitAt(u, n, s),
         n \in Held(t) \/ n \in Own(t)
  PROVE  u = t
<1> SUFFICES ASSUME u # t PROVE FALSE
  OBVIOUS
<1>1. u \in Climbing /\ Top(u).node = n
  BY DEF SplitAt
<1>2. n \in Own(u)
  BY <1>1, SplitFacts
<1>3. n \notin ReadHeld(t) /\ n \notin WriteHeld(t)
  BY <1>2, Exclusive
<1> QED BY <1>3, Exclusive

\* n is the child of slot r of m, or the other half of it
Under(span, n, m, r) == /\ Cell(m, r) /\ span[n] \subseteq Piece(span, m, r)
                        /\ heap[n].level = heap[Child(m, r)].level

LEMMA UnderCell ==
  ASSUME IInv, NEW span \in Spans, TreeOrd(span), NEW m, NEW r, Cell(m, r)
  PROVE  /\ Under(span, Child(m, r), m, r)
         /\ \A t \in Threads : SplitAt(t, m, r) => /\ Under(span, carry[t].node, m, r)
                                                  /\ carry[t].node # Child(m, r)
                                                  /\ carry[t].node \in Allocated
                                                  /\ carry[t].node \in Nodes
<1>1. CellOK(span, m, r) /\ Child(m, r) \in Allocated
  BY CellFacts DEF TreeOrd
<1>2. span[Child(m, r)] # {}
  BY <1>1 DEF TreeOrd, NodeOrd
<1>3. ASSUME NEW t \in Threads, SplitAt(t, m, r)
      PROVE  /\ Under(span, carry[t].node, m, r) /\ Under(span, Child(m, r), m, r)
             /\ carry[t].node # Child(m, r)
             /\ carry[t].node \in Allocated /\ carry[t].node \in Nodes
  <2>1. Divides(span, Piece(span, m, r), Child(m, r), carry[t])
    BY <1>1, <1>3 DEF CellOK
  <2>2. t \in Climbing /\ m = Top(t).node /\ (m # Tree => r = Top(t).slot) /\ (m = Tree => r = 0)
    BY <1>3, CellFacts DEF SplitAt
  <2>3. /\ heap[carry[t].node].level = heap[Child(m, r)].level
        /\ carry[t].node \in Allocated /\ carry[t].node \in Nodes /\ carry[t].key \in Nat
    BY <2>2, SplitFacts
  <2>4. span[Child(m, r)] \subseteq Nat
    BY <1>1, CellFacts DEF Spans
  <2>5. carry[t].node # Child(m, r)
    BY <1>2, <2>1, <2>3, <2>4 DEF Divides, Lower, Upper
  <2> QED BY <2>1, <2>3, <2>5 DEF Under, Divides, Lower, Upper
<1>4. CASE \A t \in Threads : ~SplitAt(t, m, r)
  BY <1>1, <1>4 DEF CellOK, Under
<1> QED BY <1>3, <1>4

\* a node belongs to one slot only
LEMMA OneWay ==
  ASSUME IInv, NEW span \in Spans, TreeOrd(span), NEW n \in Allocated,
         NEW m, NEW r, Under(span, n, m, r), NEW p, NEW q, Under(span, n, p, q)
  PROVE  m = p /\ r = q
<1>1. Cell(m, r) /\ Cell(p, q)
  BY DEF Under
<1>2. PICK k : k \in span[n]
  BY DEF TreeOrd, NodeOrd
<1>3. k \in Piece(span, m, r) /\ k \in Piece(span, p, q)
  BY <1>2 DEF Under
<1>4. heap[Child(m, r)].level = heap[n].level /\ heap[Child(p, q)].level = heap[n].level
  BY DEF Under
<1>5. ASSUME NEW a, NEW b, NEW c, NEW d, Cell(a, b), Cell(c, d), a = Tree,
             heap[Child(a, b)].level = heap[Child(c, d)].level
      PROVE  c = Tree
  <2> SUFFICES ASSUME c # Tree PROVE FALSE
    OBVIOUS
  <2>1. c \in Allocated /\ heap[Child(c, d)].level = heap[c].level - 1 /\ heap[c].level \in Int
    BY <1>5, CellFacts
  <2>2. Child(a, b) = root /\ heap[root].level \in Int
    BY <1>5, CellFacts
  <2>3. heap[c].level <= heap[root].level
    BY <2>1 DEF TreeOrd, NodeOrd
  <2> QED BY <1>5, <2>1, <2>2, <2>3
<1>6. CASE m = Tree \/ p = Tree
  <2>1. m = Tree /\ p = Tree
    BY <1>1, <1>4, <1>5, <1>6
  <2> QED BY <1>1, <2>1, CellFacts
<1>7. CASE m # Tree /\ p # Tree
  <2>1. /\ m \in Allocated /\ heap[Child(m, r)].level = heap[m].level - 1 /\ heap[m].level \in Int
        /\ p \in Allocated /\ heap[Child(p, q)].level = heap[p].level - 1 /\ heap[p].level \in Int
    BY <1>1, <1>7, CellFacts
  <2>2. heap[m].level = heap[p].level
    BY <1>4, <2>1
  <2>3. k \in span[m] /\ k \in span[p] /\ SlotIn(m, k) = r /\ SlotIn(p, k) = q
    BY <1>3, <1>7 DEF Piece
  <2>4. m = p
    BY <2>1, <2>2, <2>3 DEF TreeOrd
  <2> QED BY <2>3, <2>4
<1> QED BY <1>6, <1>7

\* a slot that a step leaves alone
LEMMA CellStays ==
  ASSUME NEW span, NEW next, NEW n, NEW s, CellOK(span, n, s),
         Piece(next, n, s)' = Piece(span, n, s), Child(n, s)' = Child(n, s),
         next[Child(n, s)] = span[Child(n, s)],
         \A u \in Threads : SplitAt(u, n, s)' <=> SplitAt(u, n, s),
         \A u \in Threads : SplitAt(u, n, s) =>
           carry'[u] = carry[u] /\ next[carry[u].node] = span[carry[u].node]
  PROVE  CellOK(next, n, s)'
<1>1. CASE \A u \in Threads : ~SplitAt(u, n, s)
  BY <1>1 DEF CellOK
<1>2. ASSUME NEW u \in Threads, SplitAt(u, n, s)
      PROVE  Divides(next, Piece(next, n, s)', Child(n, s)', carry'[u])
  BY <1>2 DEF CellOK, Divides
<1> QED BY <1>1, <1>2 DEF CellOK, Divides

\* the other threads' splits stay
LEMMA OthersSplit ==
  ASSUME IInv, NEW t \in Threads, Step(t), NEW u \in Threads, u # t
  PROVE  /\ carry'[u] = carry[u] /\ ((u \in Climbing)' <=> u \in Climbing)
         /\ \A n, s : SplitAt(u, n, s)' <=> SplitAt(u, n, s)
<1>1. ThreadTyped
  BY Typed DEF IInv
<1>2. Alone(u)
  BY <1>1, OthersAlone
<1> QED BY <1>2 DEF Alone, Climbing, SplitAt, Top

\* a step that neither splits a node nor brings a split further
LEMMA NoSplit ==
  ASSUME IInv, NEW span \in Spans, TreeOrd(span),
         used' = used, root' = root,
         \A n \in Allocated :
           /\ heap'[n].level = heap[n].level /\ heap'[n].next = heap[n].next
           /\ Ascends(heap'[n].keys) /\ KeysOf(n) \subseteq KeysOf(n)' /\ KeysOf(n)' \subseteq span[n]
           /\ heap[n].level > 0 => /\ heap'[n].keys = heap[n].keys
                                   /\ heap'[n].child = heap[n].child,
         \A u \in Threads : /\ (u \in Climbing)' <=> u \in Climbing
                            /\ u \in Climbing => carry'[u] = carry[u] /\ path'[u] = path[u]
  PROVE  TreeOrd(span)'
<1>1. Allocated' = Allocated /\ root \in Allocated \cup {Null} /\ TreeTyped
  BY Typed DEF Allocated, IInv, TreeTyped
<1>2. ASSUME NEW n \in Allocated PROVE NodeOrd(span, n)'
  <2>1. root \in Allocated
    BY <1>1, <1>2, InUse DEF IInv, TreeOK
  <2>2. NodeOrd(span, n)
    BY DEF TreeOrd
  <2>3. heap'[n].level = heap[n].level /\ heap'[n].next = heap[n].next /\ heap'[root].level = heap[root].level
    BY <2>1
  <2>4. Ascends(heap'[n].keys) /\ KeysOf(n) \subseteq KeysOf(n)' /\ KeysOf(n)' \subseteq span[n]
    OBVIOUS
  <2>5. span[n] # {} /\ heap[n].level <= heap[root].level
    BY <2>2 DEF NodeOrd
  <2>6. heap[n].level = 0 =>
          /\ \A k \in span[n] : (\A j \in span[n] : j <= k) => k \in KeysOf(n)'
          /\ heap[n].next # Null => \A j \in span[n], k \in span[heap[n].next] : j < k
    BY <2>2, <2>4 DEF NodeOrd
  <2> QED BY <2>3, <2>4, <2>5, <2>6 DEF NodeOrd, Keys
<1>3. ASSUME NEW n \in Nodes \cup {Tree}, NEW s \in Nat, Cell(n, s)'
      PROVE  CellOK(span, n, s)'
  <2>1. Cell(n, s) /\ (n # Tree => heap'[n].keys = heap[n].keys /\ heap'[n].child = heap[n].child)
    BY <1>1, <1>3 DEF Cell, Inners, Keys
  <2>2. CellOK(span, n, s)
    BY <2>1 DEF TreeOrd
  <2>3. Piece(span, n, s)' = Piece(span, n, s)
    BY <2>1 DEF Piece, SlotIn
  <2>4. Child(n, s)' = Child(n, s)
    BY <2>1 DEF Child, ChildAt
  <2>5. \A u \in Threads : SplitAt(u, n, s)' <=> SplitAt(u, n, s)
    BY DEF SplitAt, Top
  <2>6. \A u \in Threads : SplitAt(u, n, s) => carry'[u] = carry[u]
    BY DEF SplitAt
  <2> QED BY <2>2, <2>3, <2>4, <2>5, <2>6, CellStays
<1>4. \A n, m \in Allocated : n # m /\ heap'[n].level = heap'[m].level => span[n] \cap span[m] = {}
  BY DEF TreeOrd
<1> QED BY <1>1, <1>2, <1>3, <1>4 DEF TreeOrd

\* a thread that is where it looks for its key is where the key belongs
LEMMA AtItsKey ==
  ASSUME IInv, NEW span \in Spans, Ordered(span), NEW t \in Threads,
         Walking(t), at[t] # Tree, ~Scanning(t)
  PROVE  LET l == Len(path[t])
             n == Node(t, l)
             s == IF n = Tree THEN 0 ELSE path[t][l].slot
         IN /\ l \in 1 .. l /\ Cell(n, s) /\ Child(n, s) = at[t] /\ n \in Held(t)
            /\ \A u \in Threads : ~SplitAt(u, n, s)
            /\ span[at[t]] = Piece(span, n, s)
            /\ K(t) \in span[at[t]]
<1> DEFINE l == Len(path[t])
           n == Node(t, l)
           s == IF n = Tree THEN 0 ELSE path[t][l].slot
<1>1. TypeOK /\ TreeTyped /\ TreeOK /\ PlaceOK(t) /\ PathOK(t)
  BY Parts
<1>2. path[t] # <<>> /\ pc[t] # "climb" /\ at[t] \in Allocated
  BY <1>1 DEF PlaceOK, Walking
<1>3. l \in Nat /\ l > 0 /\ l \in 1 .. l
  BY <1>1, <1>2, PathFacts
<1>4. n \in Held(t) /\ path[t][l].slot \in Nat
  <2>1. Node(t, l) \in {Node(t, i) : i \in 1 .. l}
    BY <1>3
  <2> QED BY <1>1, <1>3, <2>1, PathFacts
<1>5. /\ Leads(t, n, at[t]) /\ ChildOK(t, l, at[t]) /\ SlotOK(t, l) /\ n \in Allocated \cup {Tree}
  BY <1>1, <1>2, <1>3 DEF PathOK
<1>6. /\ n # Tree => /\ heap[n].level > 0 /\ s \in 0 .. Len(Keys(n)) /\ at[t] = ChildAt(n, s)
                     /\ s = SlotIn(n, K(t)) /\ n \in Allocated
      /\ n = Tree => at[t] = root
  <2>1. CASE n = Tree
    BY <1>5, <2>1, Constants DEF Leads
  <2>2. CASE n # Tree
    <3>1. heap[at[t]].level = heap[n].level - 1
      BY <1>5, <2>2 DEF Leads
    <3>2. at[t] \in Nodes /\ n \in Nodes /\ n \in Allocated
      BY <1>1, <1>2, <1>5, <2>2, InUse
    <3>3. heap[n].level \in Int /\ heap[at[t]].level \in Nat /\ Len(Keys(n)) \in Nat
      <4>1. heap[at[t]].level \in 0 .. used - 1 /\ used \in Nat
        BY <1>1, <1>2, InUse DEF TreeOK
      <4>2. heap[at[t]].level \in Nat
        BY <4>1
      <4> HIDE DEF n
      <4>3. heap[n].level \in Int /\ Len(Keys(n)) \in Nat
        BY <1>1, <3>2, NodeFacts
      <4> QED BY <4>2, <4>3
    <3>4. heap[n].level > 0
      BY <3>1, <3>3
    <3>5. /\ path[t][l].slot <= Len(Keys(n)) /\ path[t][l].slot = SlotIn(n, K(t))
          /\ at[t] = ChildAt(n, path[t][l].slot)
      BY <1>2, <1>5, <2>2 DEF SlotOK, ChildOK
    <3> QED BY <1>4, <2>2, <3>2, <3>3, <3>4, <3>5
  <2> QED BY <2>1, <2>2
<1>7. Cell(n, s) /\ Child(n, s) = at[t]
  BY <1>1, <1>2, <1>6, InUse DEF Cell, Child, Inners
<1>8. ASSUME NEW u \in Threads, SplitAt(u, n, s) PROVE FALSE
  <2>1. u = t
    BY <1>4, <1>8, SplitAlone
  <2> QED BY <1>2, <1>8, <2>1 DEF SplitAt, Climbing
<1>9. CellOK(span, n, s)
  BY <1>7, CellFacts DEF Ordered, TreeOrd
<1>10. span[at[t]] = Piece(span, n, s)
  BY <1>7, <1>8, <1>9 DEF CellOK
<1>11. K(t) \in Piece(span, n, s)
  <2>1. K(t) \in Nat
    BY <1>1, CallFacts
  <2>2. n # Tree => K(t) \in span[n]
    BY <1>2, <1>3 DEF Ordered, WayOK
  <2> QED BY <1>6, <2>1, <2>2 DEF Piece
<1> QED BY <1>3, <1>4, <1>7, <1>8, <1>10, <1>11

SetOf(keys) == {keys[i] : i \in 1 .. Len(keys)}

\* keys with one more
LEMMA SetWith ==
  ASSUME NEW q \in Seq(Nat), NEW z \in 1 .. Len(q) + 1, NEW e \in Nat
  PROVE  SetOf(InsertAt(q, z, e)) = SetOf(q) \cup {e}
<1>1. PICK new : new = InsertAt(q, z, e)
  OBVIOUS
<1>2. Len(q) \in Nat
  OBVIOUS
<1>3. Len(new) = Len(q) + 1 /\ \A j \in 1 .. Len(q) + 1 :
        new[j] = IF j < z THEN q[j] ELSE IF j = z THEN e ELSE q[j - 1]
  <2>1. PICK p, y, x : p = q /\ y = z /\ x = e
    OBVIOUS
  <2>2. p \in Seq(Nat) /\ y \in 1 .. Len(p) + 1 /\ x \in Nat /\ Len(p) \in Nat
    BY <1>2, <2>1
  <2>3. Len(InsertAt(p, y, x)) = Len(p) + 1 /\ \A j \in 1 .. Len(p) + 1 :
          InsertAt(p, y, x)[j] = IF j < y THEN p[j] ELSE IF j = y THEN x ELSE p[j - 1]
    BY <2>2, Inserted
  <2> QED BY <1>1, <2>1, <2>3
<1>4. ASSUME NEW j \in 1 .. Len(new) PROVE new[j] \in SetOf(q) \cup {e}
  <2>1. PICK i : i = j - 1
    OBVIOUS
  <2>2. j < z => j \in 1 .. Len(q)
    BY <1>2
  <2>3. j > z => i \in 1 .. Len(q)
    BY <1>2, <1>3, <2>1
  <2>4. new[j] = IF j < z THEN q[j] ELSE IF j = z THEN e ELSE q[i]
    BY <1>3, <2>1
  <2>5. j < z \/ j = z \/ j > z
    BY <1>2
  <2> QED BY <2>2, <2>3, <2>4, <2>5 DEF SetOf
<1>5. e \in SetOf(new)
  <2>1. z \in 1 .. Len(new) /\ new[z] = e
    BY <1>2, <1>3
  <2> QED BY <2>1 DEF SetOf
<1>6. ASSUME NEW i \in 1 .. Len(q) PROVE q[i] \in SetOf(new)
  <2>1. CASE i < z
    <3>1. i \in 1 .. Len(new) /\ new[i] = q[i]
      BY <1>2, <1>3, <2>1
    <3> QED BY <3>1 DEF SetOf
  <2>2. CASE i >= z
    <3>1. PICK j : j = i + 1
      OBVIOUS
    <3>2. j \in 1 .. Len(new) /\ j \in 1 .. Len(q) + 1 /\ ~(j < z) /\ j # z /\ j - 1 = i
      BY <1>2, <1>3, <2>2, <3>1
    <3>3. new[j] = q[i]
      BY <1>3, <3>2
    <3> QED BY <3>2, <3>3 DEF SetOf
  <2> QED BY <1>2, <2>1, <2>2
<1>7. SetOf(q) \subseteq SetOf(new)
  BY <1>6 DEF SetOf
<1>8. SetOf(new) \subseteq SetOf(q) \cup {e}
  <2> SUFFICES ASSUME NEW y \in SetOf(new) PROVE y \in SetOf(q) \cup {e}
    OBVIOUS
  <2>1. PICK j \in 1 .. Len(new) : y = new[j]
    BY DEF SetOf
  <2> QED BY <1>4, <2>1
<1> QED BY <1>1, <1>5, <1>7, <1>8

\* a new item in a leaf
LEMMA ItemOrd ==
  ASSUME IInv, NEW span \in Spans, Ordered(span), NEW t \in Threads, InLeaf(t), mode[t] # "read",
         ~Present(t), ~LeafFull(at[t]), PutItem(t), UNCHANGED <<used, root>>,
         t \notin Climbing', \A u \in Threads \ {t} : Alone(u)
  PROVE  TreeOrd(span)'
<1>0. PICK n, k, s : n = at[t] /\ k = K(t) /\ s = SlotIn(n, k)
  OBVIOUS
<1>1. TypeOK /\ TreeTyped /\ TreeOK /\ TreeOrd(span)
  BY Parts DEF Ordered
<1>2. /\ n \in Allocated /\ n \in Nodes /\ heap[n].level = 0 /\ pc[t] = "visit" /\ n # Tree
      /\ heap[n] \in NodeType
  BY <1>0, <1>1, AtLeaf
<1>3. ~Scanning(t) /\ Walking(t) /\ t \notin Climbing
  <2>1. mode[t] \in {"try", "sure"}
    BY InsertMode
  <2> QED BY <1>2, <2>1, InsertMode DEF Walking, Climbing
<1>4. k \in span[n] /\ k \in Nat
  BY <1>0, <1>1, <1>2, <1>3, AtItsKey, CallFacts
<1>5. heap'[n] = WithItem(heap[n], s, k, call[t].arg)
      /\ \A m \in Nodes : m # n => heap'[m] = heap[m]
  BY <1>0, <1>1, <1>2 DEF PutItem, TypeOK
<1>6. heap'[n].keys = InsertAt(Keys(n), s + 1, k) /\ heap'[n].level = heap[n].level
      /\ heap'[n].next = heap[n].next
  BY <1>2, <1>5 DEF WithItem, NodeType, Keys
<1>7. Keys(n) \in Seq(Nat) /\ Len(Keys(n)) \in Nat /\ s \in 0 .. Len(Keys(n)) /\ Ascends(Keys(n))
      /\ KeysOf(n) \subseteq span[n]
  BY <1>0, <1>1, <1>2, <1>4, NodeFacts DEF TreeOrd, NodeOrd
<1>8. Fits(Keys(n), k, s)
  BY <1>0, <1>4, <1>7, SlotFits DEF SlotIn, Keys
<1>9. s < Len(Keys(n)) => k < Keys(n)[s + 1]
  <2>1. s < Len(Keys(n)) => Keys(n)[s + 1] # k /\ s + 1 \in 1 .. Len(Keys(n))
    BY <1>0, <1>7 DEF Present, HasAt, Keys
  <2>2. s < Len(Keys(n)) => Keys(n)[s + 1] \in Nat
    BY <1>7, <2>1, ElementOfSeq
  <2> QED BY <1>4, <1>8, <2>1, <2>2 DEF Fits
<1>10. s > 0 => Keys(n)[s] < k
  BY <1>8 DEF Fits
<1>11. Ascends(heap'[n].keys)
  <2>1. PICK q, z : q = Keys(n) /\ z = s
    OBVIOUS
  <2>2. Ascends(InsertAt(q, z + 1, k))
    <3>1. /\ q \in Seq(Nat) /\ Ascends(q) /\ z \in 0 .. Len(q)
          /\ (z > 0 => q[z] < k) /\ (z < Len(q) => k < q[z + 1])
      BY <1>7, <1>9, <1>10, <2>1
    <3> QED BY <1>4, <3>1, OneMore
  <2> QED BY <1>6, <2>1, <2>2
<1>12. KeysOf(n)' = KeysOf(n) \cup {k}
  <2>1. KeysOf(n)' = SetOf(InsertAt(Keys(n), s + 1, k)) /\ KeysOf(n) = SetOf(Keys(n))
    BY <1>6 DEF KeysOf, Keys, SetOf
  <2>2. PICK q, z : q = Keys(n) /\ z = s + 1
    OBVIOUS
  <2>3. q \in Seq(Nat) /\ z \in 1 .. Len(q) + 1
    BY <1>7, <2>2
  <2>4. SetOf(InsertAt(q, z, k)) = SetOf(q) \cup {k}
    BY <1>4, <2>3, SetWith
  <2> QED BY <2>1, <2>2, <2>4
<1>13. ASSUME NEW m \in Allocated
       PROVE  /\ heap'[m].level = heap[m].level /\ heap'[m].next = heap[m].next
              /\ Ascends(heap'[m].keys) /\ KeysOf(m) \subseteq KeysOf(m)'
              /\ KeysOf(m)' \subseteq span[m]
              /\ heap[m].level > 0 => /\ heap'[m].keys = heap[m].keys
                                      /\ heap'[m].child = heap[m].child
  <2>1. CASE m = n
    <3> QED BY <1>2, <1>4, <1>6, <1>7, <1>11, <1>12, <2>1
  <2>2. CASE m # n
    <3>1. m \in Nodes
      BY <1>1, InUse
    <3>2. heap'[m] = heap[m]
      BY <1>5, <2>2, <3>1
    <3>3. NodeOrd(span, m)
      BY <1>1 DEF TreeOrd
    <3> QED BY <3>2, <3>3 DEF NodeOrd, KeysOf, Keys
  <2> QED BY <2>1, <2>2
<1>14. ASSUME NEW u \in Threads
       PROVE  /\ (u \in Climbing)' <=> u \in Climbing
              /\ u \in Climbing => carry'[u] = carry[u] /\ path'[u] = path[u]
  BY <1>3 DEF Alone, Climbing
<1> QED BY <1>1, <1>13, <1>14, NoSplit

-------------------------------------------------------------------------------
(* Splits                                                                  *)

\* t splits n at the key c: its first half keeps the keys up to c
SplitsNode(t, span, next, n, new, p, q, c) ==
  /\ new = used + 1
  /\ n \in Allocated /\ new \in Nodes
  /\ Cell(p, q) /\ Child(p, q) = n /\ (\A u \in Threads : ~SplitAt(u, p, q))
  /\ c \in span[n] /\ next[n] = Lower(span[n], c) /\ next[new] = Upper(span[n], c)
  /\ \A m \in Allocated \ {n} : next[m] = span[m]
  /\ used' = new /\ root' = root
  /\ heap'[n].level = heap[n].level /\ heap'[new].level = heap[n].level
  /\ \A m \in Allocated \ {n} : /\ heap'[m].level = heap[m].level /\ heap'[m].keys = heap[m].keys
                                /\ heap'[m].child = heap[m].child /\ heap'[m].next = heap[m].next
  /\ t \in Climbing => Top(t).node = n
  /\ t \in Climbing' /\ Top(t)'.node = p /\ (p # Tree => Top(t)'.slot = q)
  /\ carry'[t] = [key |-> c, node |-> new]

\* the slots of the other nodes after that
LEMMA SplitCells ==
  ASSUME IInv, NEW t \in Threads, Step(t), NEW span \in Spans, TreeOrd(span), NEW next \in Spans,
         NEW n, NEW new, NEW p, NEW q, NEW c, SplitsNode(t, span, next, n, new, p, q, c),
         NEW m \in Nodes \cup {Tree}, NEW r \in Nat, Cell(m, r)', m # n, m # new
  PROVE  CellOK(next, m, r)'
<1> USE DEF SplitsNode
<1>1. TreeTyped /\ TreeOK
  BY Typed DEF IInv
<1>2. /\ Allocated' = Allocated \cup {new} /\ new \notin Allocated
      /\ Tree \notin Allocated /\ Tree # new /\ Tree \notin Nodes
  <2>1. used \in Nat
    BY <1>1, InUse
  <2> QED BY <1>1, <2>1, InUse, Constants DEF Allocated
<1>3. Cell(m, r) /\ (m # Tree => m \in Allocated \ {n})
  BY <1>2 DEF Cell, Inners, Keys
<1>4. CellOK(span, m, r)
  BY <1>3 DEF TreeOrd
<1>5. Piece(next, m, r)' = Piece(span, m, r)
  <2>1. m # Tree => next[m] = span[m] /\ heap'[m].keys = heap[m].keys
    BY <1>3
  <2> HIDE DEF SplitsNode
  <2> QED BY <2>1 DEF Piece, SlotIn
<1>6. Child(m, r)' = Child(m, r)
  BY <1>3 DEF Child, ChildAt
<1>7. ASSUME NEW u \in Threads, u # t
      PROVE  carry'[u] = carry[u] /\ (SplitAt(u, m, r)' <=> SplitAt(u, m, r))
  <2> HIDE DEF SplitsNode
  <2> QED BY <1>7, OthersSplit
<1>8. ~SplitAt(t, m, r)
  BY DEF SplitAt
<1>9. CASE m = p /\ r = q
  <2>1. span[n] = Piece(span, m, r)
    BY <1>4, <1>9 DEF CellOK
  <2>2. SplitAt(t, m, r)'
    BY <1>9 DEF SplitAt
  <2>3. \A u \in Threads : SplitAt(u, m, r)' => u = t
    BY <1>7, <1>9
  <2>4. Divides(next, Piece(next, m, r)', Child(m, r)', carry'[t])
    BY <1>5, <1>6, <1>9, <2>1 DEF Divides
  <2> QED BY <2>2, <2>3, <2>4 DEF CellOK, Divides
<1>10. CASE ~(m = p /\ r = q)
  <2>1. ~SplitAt(t, m, r)'
    <3>1. m = Tree => r = 0 /\ (p = Tree => q = 0)
      BY <1>3, CellFacts
    <3> QED BY <1>10, <3>1 DEF SplitAt
  <2>2. Under(span, n, p, q)
    BY UnderCell
  <2>3. Under(span, Child(m, r), m, r) /\ Child(m, r) \in Allocated
    BY <1>3, UnderCell, CellFacts
  <2>4. Child(m, r) # n
    BY <1>10, <2>2, <2>3, OneWay
  <2>5. next[Child(m, r)] = span[Child(m, r)]
    BY <2>3, <2>4
  <2>6. ASSUME NEW u \in Threads, SplitAt(u, m, r)
        PROVE  carry'[u] = carry[u] /\ next[carry[u].node] = span[carry[u].node]
    <3>1. u # t
      BY <1>8, <2>6
    <3>2. Under(span, carry[u].node, m, r) /\ carry[u].node \in Allocated
      BY <1>3, <2>6, UnderCell
    <3>3. carry[u].node # n
      BY <1>10, <2>2, <3>2, OneWay
    <3> QED BY <1>7, <3>1, <3>2, <3>3
  <2>7. \A u \in Threads : SplitAt(u, m, r)' <=> SplitAt(u, m, r)
    BY <1>7, <1>8, <2>1
  <2> HIDE DEF SplitsNode
  <2> QED BY <1>4, <1>5, <1>6, <2>5, <2>6, <2>7, CellStays
<1> QED BY <1>9, <1>10

\* the tree after that, when the halves are in order
LEMMA SplitTree ==
  ASSUME IInv, NEW t \in Threads, Step(t), NEW span \in Spans, TreeOrd(span), NEW next \in Spans,
         NEW n, NEW new, NEW p, NEW q, NEW c, SplitsNode(t, span, next, n, new, p, q, c),
         NodeOrd(next, n)', NodeOrd(next, new)',
         \A m \in {n, new}, r \in Nat : Cell(m, r)' => CellOK(next, m, r)'
  PROVE  TreeOrd(next)'
<1>1. TreeTyped /\ TreeOK
  BY Typed DEF IInv
<1>2. /\ Allocated' = Allocated \cup {new} /\ new \notin Allocated /\ Null \notin Allocated
      /\ Allocated \subseteq Nodes /\ n \in Allocated
  <2>1. used \in Nat
    BY <1>1, InUse
  <2> QED BY <1>1, <2>1, InUse, Constants DEF Allocated, SplitsNode
<1>3. \A k \in span[n] : k \in Nat
  BY <1>2 DEF Spans
<1>4. next[n] \subseteq span[n] /\ next[new] \subseteq span[n] /\ next[n] \cap next[new] = {}
  <2>1. c \in Nat
    BY <1>3 DEF SplitsNode
  <2>2. next[n] = Lower(span[n], c) /\ next[new] = Upper(span[n], c)
    BY DEF SplitsNode
  <2> QED BY <1>3, <2>1, <2>2 DEF Lower, Upper
<1>5. \A m \in Allocated : next[m] \subseteq span[m]
  BY <1>4 DEF SplitsNode
<1>6. ASSUME NEW m \in Allocated', m # n, m # new PROVE NodeOrd(next, m)'
  <2>1. /\ m \in Allocated /\ next[m] = span[m] /\ heap'[m].level = heap[m].level
        /\ heap'[m].keys = heap[m].keys /\ heap'[m].next = heap[m].next /\ root' = root
        /\ heap'[n].level = heap[n].level
        /\ \A z \in Allocated \ {n} : heap'[z].level = heap[z].level
    BY <1>2, <1>6 DEF SplitsNode
  <2>2. NodeOrd(span, m)
    BY <2>1 DEF TreeOrd
  <2>3. heap'[root].level = heap[root].level
    <3>1. root \in Allocated
      BY <1>1, <1>2, <2>1, InUse DEF TreeOK, TreeTyped
    <3> QED BY <2>1, <3>1
  <2>4. heap[m].level = 0 /\ heap[m].next # Null =>
          \A j \in next[m], k \in next[heap[m].next] : j < k
    <3> SUFFICES ASSUME heap[m].level = 0, heap[m].next # Null
                 PROVE  \A j \in next[m], k \in next[heap[m].next] : j < k
      OBVIOUS
    <3>1. heap[m].next \in Allocated
      BY <1>1, <2>1 DEF TreeOK, LeafOK
    <3>2. next[heap[m].next] \subseteq span[heap[m].next]
      BY <1>5, <3>1
    <3> QED BY <2>1, <2>2, <3>2 DEF NodeOrd
  <2>5. /\ span[m] # {} /\ KeysOf(m) \subseteq span[m] /\ Ascends(Keys(m))
        /\ heap[m].level <= heap[root].level
        /\ heap[m].level = 0 => \A k \in span[m] : (\A j \in span[m] : j <= k) => k \in KeysOf(m)
    BY <2>2 DEF NodeOrd
  <2>6. KeysOf(m)' = KeysOf(m) /\ Keys(m)' = Keys(m)
    BY <2>1 DEF KeysOf, Keys
  <2> QED BY <2>1, <2>3, <2>4, <2>5, <2>6 DEF NodeOrd
<1>7. ASSUME NEW m \in Allocated', NEW z \in Allocated', m # z, heap'[m].level = heap'[z].level
      PROVE  next[m] \cap next[z] = {}
  <2>1. /\ heap'[n].level = heap[n].level /\ heap'[new].level = heap[n].level
        /\ \A y \in Allocated \ {n} : heap'[y].level = heap[y].level
    BY DEF SplitsNode
  <2>2. ASSUME NEW x \in Allocated, NEW y \in Allocated, x # y, heap'[x].level = heap'[y].level
        PROVE  next[x] \cap next[y] = {}
    <3>1. heap[x].level = heap[y].level
      BY <2>1, <2>2
    <3>2. span[x] \cap span[y] = {}
      BY <2>2, <3>1 DEF TreeOrd
    <3> QED BY <1>5, <3>2
  <2>3. ASSUME NEW x \in Allocated, heap'[x].level = heap'[new].level
        PROVE  next[x] \cap next[new] = {}
    <3>1. CASE x = n
      BY <1>4, <3>1
    <3>2. CASE x # n
      <4>1. span[x] \cap span[n] = {}
        BY <1>2, <2>1, <2>3, <3>2 DEF TreeOrd
      <4> QED BY <1>4, <1>5, <4>1
    <3> QED BY <3>1, <3>2
  <2>4. CASE m = new
    <3>1. z \in Allocated
      BY <1>2, <1>7, <2>4
    <3> QED BY <1>7, <2>3, <2>4, <3>1
  <2>5. CASE z = new
    <3>1. m \in Allocated
      BY <1>2, <1>7, <2>5
    <3> QED BY <1>7, <2>3, <2>5, <3>1
  <2>6. CASE m # new /\ z # new
    BY <1>2, <1>7, <2>2, <2>6
  <2> QED BY <2>4, <2>5, <2>6
<1>8. ASSUME NEW m \in Nodes \cup {Tree}, NEW r \in Nat, Cell(m, r)' PROVE CellOK(next, m, r)'
  BY <1>8, SplitCells
<1>9. ASSUME NEW m \in Allocated' PROVE NodeOrd(next, m)'
  BY <1>6
<1> QED BY <1>7, <1>8, <1>9 DEF TreeOrd

\* a and b are the keys of q up to the m-th and those behind it
Halved(q, m, a, b) ==
  /\ a \in Seq(Nat) /\ b \in Seq(Nat) /\ Len(a) = m /\ Len(b) = Len(q) - m
  /\ \A i \in 1 .. m : a[i] = q[i]
  /\ \A i \in 1 .. Len(q) - m : b[i] = q[m + i]
  /\ Ascends(a) /\ Ascends(b) /\ q[m] \in Nat
  /\ SetOf(a) = Lower(SetOf(q), q[m]) /\ SetOf(b) = Upper(SetOf(q), q[m])

LEMMA KeysHalved ==
  ASSUME NEW q \in Seq(Nat), Ascends(q), NEW m \in Nat, 1 <= m, m < Len(q)
  PROVE  Halved(q, m, SubSeq(q, 1, m), SubSeq(q, m + 1, Len(q)))
<1>0. PICK a, b : a = SubSeq(q, 1, m) /\ b = SubSeq(q, m + 1, Len(q))
  OBVIOUS
<1>1. Len(q) \in Nat /\ m \in Nat /\ m < Len(q) /\ \A i \in 1 .. Len(q) : q[i] \in Nat
  BY ElementOfSeq
<1>2. a \in Seq(Nat) /\ Len(a) = m /\ \A i \in 1 .. m : a[i] = q[i]
  <2>1. SubSeq(q, 1, m) \in Seq(Nat)
    BY <1>1, Part
  <2>2. Len(SubSeq(q, 1, m)) = IF 1 <= m THEN m - 1 + 1 ELSE 0
    BY <1>1, Part
  <2>3. \A i \in 1 .. m - 1 + 1 : SubSeq(q, 1, m)[i] = q[1 + i - 1]
    BY <1>1, Part
  <2> QED BY <1>0, <1>1, <2>1, <2>2, <2>3
<1>3. b \in Seq(Nat) /\ Len(b) = Len(q) - m /\ \A i \in 1 .. Len(q) - m : b[i] = q[m + i]
  <2>1. PICK r, z : r = m + 1 /\ z = Len(q)
    OBVIOUS
  <2>2. r \in Int /\ z \in Int /\ 1 <= r /\ z <= Len(q) /\ r <= z
    BY <1>1, <2>1
  <2>3. SubSeq(q, r, z) \in Seq(Nat)
    BY <2>2, Part
  <2>4. Len(SubSeq(q, r, z)) = IF r <= z THEN z - r + 1 ELSE 0
    BY <2>2, Part
  <2>5. \A i \in 1 .. z - r + 1 : SubSeq(q, r, z)[i] = q[r + i - 1]
    BY <2>2, Part
  <2>6. ASSUME NEW i \in 1 .. Len(q) - m PROVE b[i] = q[m + i]
    <3>1. i \in 1 .. z - r + 1 /\ r + i - 1 = m + i
      BY <1>1, <2>1
    <3> QED BY <1>0, <2>1, <2>5, <3>1
  <2>7. z - r + 1 = Len(q) - m
    BY <1>1, <2>1
  <2> QED BY <1>0, <2>1, <2>2, <2>3, <2>4, <2>6, <2>7
<1>4. Ascends(a)
  <2> SUFFICES ASSUME NEW i \in 1 .. m, NEW j \in 1 .. m, i < j PROVE a[i] < a[j]
    BY <1>2 DEF Ascends
  <2>1. i \in 1 .. Len(q) /\ j \in 1 .. Len(q)
    BY <1>1
  <2> QED BY <1>2, <2>1 DEF Ascends
<1>5. Ascends(b)
  <2> SUFFICES ASSUME NEW i \in 1 .. Len(q) - m, NEW j \in 1 .. Len(q) - m, i < j
               PROVE  b[i] < b[j]
    BY <1>3 DEF Ascends
  <2>1. PICK f, g : f = m + i /\ g = m + j
    OBVIOUS
  <2>2. f \in 1 .. Len(q) /\ g \in 1 .. Len(q) /\ f < g
    BY <1>1, <2>1
  <2>3. q[f] < q[g]
    BY <2>2 DEF Ascends
  <2> QED BY <1>3, <2>1, <2>3
<1>6. ASSUME NEW i \in 1 .. Len(q) PROVE (i <= m => q[i] <= q[m]) /\ (i > m => q[i] > q[m])
  <2>1. m \in 1 .. Len(q)
    BY <1>1
  <2>2. i < m => q[i] < q[m]
    BY <2>1 DEF Ascends
  <2>3. m < i => q[m] < q[i]
    BY <2>1 DEF Ascends
  <2>4. q[i] \in Nat /\ q[m] \in Nat
    BY <1>1, <2>1
  <2> QED BY <1>1, <2>2, <2>3, <2>4
<1>7. SetOf(a) = Lower(SetOf(q), q[m])
  <2>1. ASSUME NEW y \in SetOf(a) PROVE y \in SetOf(q) /\ y <= q[m]
    <3>1. PICK i \in 1 .. m : y = a[i]
      BY <1>2 DEF SetOf
    <3>2. i \in 1 .. Len(q) /\ y = q[i] /\ i <= m
      BY <1>1, <1>2, <3>1
    <3> QED BY <1>6, <3>2 DEF SetOf
  <2>2. ASSUME NEW y \in SetOf(q), y <= q[m] PROVE y \in SetOf(a)
    <3>1. PICK i \in 1 .. Len(q) : y = q[i]
      BY DEF SetOf
    <3>2. ~(i > m)
      <4>1. q[i] \in Nat /\ q[m] \in Nat
        BY <1>1
      <4> QED BY <1>6, <2>2, <3>1, <4>1
    <3>3. i \in 1 .. m
      BY <1>1, <3>2
    <3>4. y = a[i] /\ i \in 1 .. Len(a)
      BY <1>2, <3>1, <3>3
    <3> QED BY <3>4 DEF SetOf
  <2> QED BY <2>1, <2>2 DEF Lower, Upper
<1>8. SetOf(b) = Upper(SetOf(q), q[m])
  <2>1. ASSUME NEW y \in SetOf(b) PROVE y \in SetOf(q) /\ y > q[m]
    <3>1. PICK i \in 1 .. Len(q) - m : y = b[i]
      BY <1>3 DEF SetOf
    <3>2. PICK f : f = m + i
      OBVIOUS
    <3>3. f \in 1 .. Len(q) /\ y = q[f] /\ f > m
      BY <1>1, <1>3, <3>1, <3>2
    <3> QED BY <1>6, <3>3 DEF SetOf
  <2>2. ASSUME NEW y \in SetOf(q), y > q[m] PROVE y \in SetOf(b)
    <3>1. PICK i \in 1 .. Len(q) : y = q[i]
      BY DEF SetOf
    <3>2. ~(i <= m)
      <4>1. q[i] \in Nat /\ q[m] \in Nat
        BY <1>1
      <4> QED BY <1>6, <2>2, <3>1, <4>1
    <3>3. PICK f : f = i - m
      OBVIOUS
    <3>4. f \in 1 .. Len(q) - m /\ m + f = i
      BY <1>1, <3>2, <3>3
    <3>5. y = b[f] /\ f \in 1 .. Len(b)
      BY <1>3, <3>1, <3>4
    <3> QED BY <3>5 DEF SetOf
  <2> QED BY <2>1, <2>2 DEF Lower, Upper
<1>9. q[m] \in Nat
  BY <1>1
<1> QED BY <1>0, <1>2, <1>3, <1>4, <1>5, <1>7, <1>8, <1>9 DEF Halved

\* l and r are the keys of q up to the m-th and those behind it, with the new key k
Parted(q, m, k, l, r) ==
  /\ Ascends(l) /\ Ascends(r)
  /\ SetOf(l) = Lower(SetOf(q) \cup {k}, q[m])
  /\ SetOf(r) = Upper(SetOf(q) \cup {k}, q[m])
  /\ q[m] \in SetOf(q) /\ q[m + 1] \in SetOf(r)

\* the halves of a leaf, with the new key in the one its slot is in
LEMMA KeyPut ==
  ASSUME NEW q \in Seq(Nat), Ascends(q), NEW m \in Nat, 1 <= m, m < Len(q),
         NEW k \in Nat, k \notin SetOf(q), NEW s, Fits(q, k, s)
  PROVE  Parted(q, m, k,
                IF s < m THEN InsertAt(SubSeq(q, 1, m), s + 1, k) ELSE SubSeq(q, 1, m),
                IF s < m THEN SubSeq(q, m + 1, Len(q))
                ELSE InsertAt(SubSeq(q, m + 1, Len(q)), s - m + 1, k))
<1>1. PICK a, b : a = SubSeq(q, 1, m) /\ b = SubSeq(q, m + 1, Len(q))
  OBVIOUS
<1>2. /\ a \in Seq(Nat) /\ b \in Seq(Nat) /\ Len(a) = m /\ Len(b) = Len(q) - m
      /\ \A i \in 1 .. m : a[i] = q[i]
      /\ \A i \in 1 .. Len(q) - m : b[i] = q[m + i]
      /\ Ascends(a) /\ Ascends(b) /\ q[m] \in Nat
      /\ SetOf(a) = Lower(SetOf(q), q[m]) /\ SetOf(b) = Upper(SetOf(q), q[m])
  BY <1>1, KeysHalved DEF Halved
<1>3. Len(q) \in Nat /\ m \in Nat /\ m < Len(q) /\ \A i \in 1 .. Len(q) : q[i] \in Nat
  BY ElementOfSeq
<1>4. s \in 0 .. Len(q) /\ (s > 0 => q[s] < k) /\ (s < Len(q) => k <= q[s + 1])
  BY DEF Fits
<1>5. ASSUME s < Len(q) PROVE k < q[s + 1]
  <2>1. s + 1 \in 1 .. Len(q)
    BY <1>3, <1>4, <1>5
  <2>2. q[s + 1] # k /\ q[s + 1] \in Nat
    BY <1>3, <2>1 DEF SetOf
  <2> QED BY <1>4, <1>5, <2>2
<1>6. q[m] \in SetOf(q) /\ m \in 1 .. Len(q)
  BY <1>3 DEF SetOf
<1>7. PICK g : g = m + 1
  OBVIOUS
<1>8. q[g] \in SetOf(b)
  <2>1. 1 \in 1 .. Len(q) - m /\ m + 1 = g
    BY <1>3, <1>7
  <2>2. b[1] = q[g] /\ 1 \in 1 .. Len(b)
    BY <1>2, <2>1
  <2> QED BY <2>2 DEF SetOf
<1>9. CASE s < m
  <2>1. k < q[m]
    <3>1. PICK i : i = s + 1
      OBVIOUS
    <3>2. i \in 1 .. Len(q) /\ i <= m /\ k < q[i] /\ q[i] \in Nat
      BY <1>3, <1>4, <1>5, <1>9, <3>1
    <3>3. i < m => q[i] < q[m]
      BY <1>6, <3>2 DEF Ascends
    <3> QED BY <1>2, <1>3, <3>2, <3>3
  <2>2. s \in 0 .. Len(a) /\ (s > 0 => a[s] < k) /\ (s < Len(a) => k < a[s + 1])
    <3>1. PICK i : i = s + 1
      OBVIOUS
    <3>2. i \in 1 .. m /\ (s > 0 => s \in 1 .. m) /\ s < Len(q)
      BY <1>3, <1>4, <1>9, <3>1
    <3>3. a[i] = q[i] /\ (s > 0 => a[s] = q[s]) /\ k < q[i]
      BY <1>2, <1>5, <3>1, <3>2
    <3>4. s \in 0 .. Len(a)
      BY <1>2, <1>3, <1>4, <1>9
    <3> QED BY <1>4, <3>1, <3>3, <3>4
  <2>3. Ascends(InsertAt(a, s + 1, k))
    BY <1>2, <2>2, OneMore
  <2>4. SetOf(InsertAt(a, s + 1, k)) = SetOf(a) \cup {k}
    <3>1. PICK i : i = s + 1
      OBVIOUS
    <3>2. i \in 1 .. Len(a) + 1
      BY <1>2, <1>3, <2>2, <3>1
    <3>3. SetOf(InsertAt(a, i, k)) = SetOf(a) \cup {k}
      BY <1>2, <3>2, SetWith, ZenonT(40)
    <3> QED BY <3>1, <3>3
  <2>6. k <= q[m] /\ ~(k > q[m])
    BY <1>2, <2>1
  <2>7. Lower(SetOf(q) \cup {k}, q[m]) = Lower(SetOf(q), q[m]) \cup {k}
    BY <2>6 DEF Lower
  <2>8. Upper(SetOf(q) \cup {k}, q[m]) = Upper(SetOf(q), q[m])
    BY <2>6 DEF Upper
  <2>9. Parted(q, m, k, InsertAt(a, s + 1, k), b)
    BY <1>2, <1>6, <1>7, <1>8, <2>3, <2>4, <2>7, <2>8 DEF Parted
  <2> QED BY <1>1, <1>9, <2>9
<1>10. CASE ~(s < m)
  <2>1. s \in 1 .. Len(q) /\ s >= m
    BY <1>3, <1>4, <1>10
  <2>2. k > q[m]
    <3>1. q[s] < k /\ q[s] \in Nat
      BY <1>3, <1>4, <2>1
    <3>2. m < s => q[m] < q[s]
      BY <1>6, <2>1 DEF Ascends
    <3>3. q[m] = q[s] \/ q[m] < q[s]
      <4>1. m = s \/ m < s
        BY <1>3, <2>1
      <4> QED BY <3>2, <4>1
    <3> QED BY <1>2, <3>1, <3>3
  <2>3. PICK z : z = s - m
    OBVIOUS
  <2>4. z \in 0 .. Len(b) /\ (z > 0 => b[z] < k) /\ (z < Len(b) => k < b[z + 1])
    <3>1. PICK i : i = z + 1
      OBVIOUS
    <3>2. /\ z \in 0 .. Len(b) /\ (z > 0 => z \in 1 .. Len(q) - m) /\ m + z = s
          /\ (z < Len(b) => i \in 1 .. Len(q) - m /\ s < Len(q)) /\ m + i = s + 1
      <4>1. Len(b) = Len(q) - m
        BY <1>2
      <4> QED BY <1>3, <2>1, <2>3, <3>1, <4>1, SMTT(30)
    <3>3. z > 0 => b[z] = q[s] /\ q[s] < k
      <4>1. z > 0 => b[z] = q[m + z]
        BY <1>2, <3>2
      <4>2. q[s] < k
        <5>1. s > 0
          BY <2>1
        <5> QED BY <1>4, <5>1
      <4> QED BY <3>2, <4>1, <4>2
    <3>4. z < Len(b) => b[i] = q[s + 1] /\ k < q[s + 1]
      <4>1. z < Len(b) => b[i] = q[m + i]
        BY <1>2, <3>2
      <4> QED BY <1>5, <3>2, <4>1
    <3> QED BY <3>1, <3>2, <3>3, <3>4
  <2>5. Ascends(InsertAt(b, z + 1, k))
    BY <1>2, <2>4, OneMore
  <2>6. SetOf(InsertAt(b, z + 1, k)) = SetOf(b) \cup {k}
    <3>1. PICK i : i = z + 1
      OBVIOUS
    <3>2. i \in 1 .. Len(b) + 1
      BY <1>2, <1>3, <2>4, <3>1
    <3>3. SetOf(InsertAt(b, i, k)) = SetOf(b) \cup {k}
      BY <1>2, <3>2, SetWith, ZenonT(40)
    <3> QED BY <3>1, <3>3
  <2>8. ~(k <= q[m])
    BY <1>2, <2>2
  <2>9. Lower(SetOf(q) \cup {k}, q[m]) = Lower(SetOf(q), q[m])
    BY <2>8 DEF Lower
  <2>10. Upper(SetOf(q) \cup {k}, q[m]) = Upper(SetOf(q), q[m]) \cup {k}
    BY <2>2 DEF Upper
  <2>11. Parted(q, m, k, a, InsertAt(b, z + 1, k))
    BY <1>2, <1>6, <1>7, <1>8, <2>5, <2>6, <2>9, <2>10 DEF Parted
  <2> QED BY <1>1, <1>10, <2>3, <2>11
<1> QED BY <1>9, <1>10

\* the nodes after t has split the leaf n
LeafParted(t, n, new, k, s, m, q) ==
  /\ n \in Allocated /\ n \in Nodes /\ new \in Nodes /\ new \notin Allocated /\ n # new
  /\ heap[n].level = 0 /\ Len(q) = LeafSlots /\ ~Present(t)
  /\ pc[t] = "visit" /\ mode[t] = "sure" /\ used' = new /\ root' = root
  /\ heap'[n].keys = IF s < m THEN InsertAt(SubSeq(q, 1, m), s + 1, k) ELSE SubSeq(q, 1, m)
  /\ heap'[new].keys = IF s < m THEN SubSeq(q, m + 1, Len(q))
                       ELSE InsertAt(SubSeq(q, m + 1, Len(q)), s - m + 1, k)
  /\ heap'[n].level = 0 /\ heap'[new].level = 0
  /\ heap'[n].next = new /\ heap'[new].next = heap[n].next
  /\ \A z \in Allocated \ {n} : /\ heap'[z].level = heap[z].level /\ heap'[z].keys = heap[z].keys
                                /\ heap'[z].child = heap[z].child /\ heap'[z].next = heap[z].next
  /\ pc'[t] = "climb" /\ path'[t] = path[t]
  /\ carry'[t] = [key |-> SubSeq(q, 1, m)[m], node |-> new]

\* and the values in its two halves
LeafValued(t, n, new, s, m, q) ==
  LET w == heap[n].vals
      v == call[t].arg
  IN /\ heap'[n].vals = IF s < m THEN InsertAt(SubSeq(w, 1, m), s + 1, v) ELSE SubSeq(w, 1, m)
     /\ heap'[new].vals = IF s < m THEN SubSeq(w, m + 1, Len(q))
                          ELSE InsertAt(SubSeq(w, m + 1, Len(q)), s - m + 1, v)

LEMMA LeafSplit ==
  ASSUME IInv, NEW t \in Threads, SureSplit(t), NEW n, n = at[t], NEW new, new = used + 1,
         NEW k, k = K(t), NEW s, s = SlotIn(n, k), NEW m, m = LeafSlots \div 2, NEW q, q = heap[n].keys
  PROVE  LeafParted(t, n, new, k, s, m, q) /\ LeafValued(t, n, new, s, m, q)
<1> DEFINE x == heap[n]
           v == call[t].arg
           left == [x EXCEPT !.keys = SubSeq(@, 1, m), !.vals = SubSeq(@, 1, m), !.next = new]
           right == [x EXCEPT !.keys = SubSeq(@, m + 1, LeafSlots),
                              !.vals = SubSeq(@, m + 1, LeafSlots), !.prev = n]
           L == IF s < m THEN WithItem(left, s, k, v) ELSE left
           R == IF s < m THEN right ELSE WithItem(right, s - m, k, v)
<1>1. /\ InLeaf(t) /\ mode[t] = "sure" /\ LeafFull(n) /\ used < MaxNodes /\ ~Present(t)
      /\ heap' = [Relinked(n, new) EXCEPT ![n] = L, ![new] = R] /\ used' = new
      /\ root' = root
      /\ TurnBack(t, 1, [key |-> left.keys[m], node |-> new])
  BY DEF SureSplit, Inserting
<1>2. TypeOK /\ TreeTyped /\ TreeOK /\ ThreadTyped
  BY Parts, Typed
<1>3. /\ n \in Allocated /\ n \in Nodes /\ x.level = 0 /\ x \in NodeType /\ pc[t] = "visit"
      /\ Len(q) = LeafSlots
  BY <1>1, <1>2, AtLeaf DEF LeafFull
<1>4. new \in Nodes /\ new \notin Allocated /\ n # new /\ Allocated \subseteq Nodes
  <2>1. used \in Nat /\ MaxNodes \in Nat /\ used < MaxNodes
    BY <1>1, <1>2, InUse, Constants
  <2>2. new \in Nodes /\ new \notin Allocated
    BY <2>1 DEF Allocated, Nodes
  <2> QED BY <1>2, <1>3, <2>2, InUse
<1>5. /\ heap'[n] = L /\ heap'[new] = R
      /\ \A z \in Nodes : z # n /\ z # new => heap'[z] = Relinked(n, new)[z]
  <2> HIDE DEF L, R
  <2>1. Relinked(n, new) = [z \in Nodes |-> Relinked(n, new)[z]]
    BY DEF Relinked
  <2> QED BY <1>1, <1>3, <1>4, <2>1
<1>6. /\ left.keys = SubSeq(q, 1, m) /\ left.level = 0 /\ left.next = new
      /\ left.vals = SubSeq(x.vals, 1, m)
  BY <1>3 DEF NodeType
<1>7. /\ right.keys = SubSeq(q, m + 1, Len(q)) /\ right.level = 0 /\ right.next = x.next
      /\ right.vals = SubSeq(x.vals, m + 1, Len(q))
  BY <1>3 DEF NodeType
<1>8. left \in [level : {0}, keys : {left.keys}, vals : {left.vals}, child : {x.child},
                next : {new}, prev : {x.prev}]
  BY <1>3, ZenonT(40) DEF NodeType
<1>9. right \in [level : {0}, keys : {right.keys}, vals : {right.vals}, child : {x.child},
                 next : {x.next}, prev : {n}]
  BY <1>3 DEF NodeType
<1>10. /\ L.keys = (IF s < m THEN InsertAt(left.keys, s + 1, k) ELSE left.keys)
       /\ L.vals = (IF s < m THEN InsertAt(left.vals, s + 1, v) ELSE left.vals)
       /\ L.level = 0 /\ L.next = new
  <2> HIDE DEF left
  <2> QED BY <1>6, <1>8 DEF WithItem
<1>11. /\ R.keys = (IF s < m THEN right.keys ELSE InsertAt(right.keys, s - m + 1, k))
       /\ R.vals = (IF s < m THEN right.vals ELSE InsertAt(right.vals, s - m + 1, v))
       /\ R.level = 0 /\ R.next = x.next
  <2> HIDE DEF right
  <2> QED BY <1>7, <1>9 DEF WithItem
<1>12. ASSUME NEW z \in Allocated \ {n}
       PROVE  /\ heap'[z].level = heap[z].level /\ heap'[z].keys = heap[z].keys
              /\ heap'[z].child = heap[z].child /\ heap'[z].next = heap[z].next
  <2>1. z \in Nodes /\ heap[z] \in NodeType
    BY <1>2, <1>4, NodeFacts
  <2>2. heap'[z] = heap[z] \/ heap'[z] = [heap[z] EXCEPT !.prev = new]
    <3>1. heap'[z] = Relinked(n, new)[z]
      BY <1>4, <1>5, <2>1
    <3> QED BY <2>1, <3>1 DEF Relinked
  <2> QED BY <2>1, <2>2 DEF NodeType
<1>13. pc'[t] = "climb" /\ path'[t] = path[t] /\ carry'[t] = [key |-> left.keys[m], node |-> new]
  <2> HIDE DEF left
  <2> QED BY <1>1, <1>2, Moves
<1> HIDE DEF L, R, left, right
<1>14. LeafParted(t, n, new, k, s, m, q)
  BY <1>1, <1>3, <1>4, <1>5, <1>6, <1>7, <1>10, <1>11, <1>12, <1>13, ZenonT(40) DEF LeafParted
<1>15. LeafValued(t, n, new, s, m, q)
  BY <1>5, <1>6, <1>7, <1>10, <1>11 DEF LeafValued
<1> QED BY <1>14, <1>15

\* the split of a leaf: the keys up to the one that goes up stay where they are
LEMMA LeafSplitOrd ==
  ASSUME IInv, NEW span \in Spans, Ordered(span), NEW t \in Threads, Step(t), SureSplit(t)
  PROVE  \E next \in Spans : /\ TreeOrd(next)'
                             /\ \A m \in Allocated \ {at[t]} : next[m] = span[m]
<1>1. PICK n, new, k, s, m, q : n = at[t] /\ new = used + 1 /\ k = K(t) /\ s = SlotIn(n, k)
                                /\ m = LeafSlots \div 2 /\ q = heap[n].keys
  OBVIOUS
<1>2. TypeOK /\ TreeTyped /\ TreeOK /\ TreeOrd(span) /\ InLeaf(t) /\ mode[t] = "sure"
  BY Parts DEF Ordered, SureSplit, Inserting
<1>3. PICK c : c = q[m]
  OBVIOUS
<1>0. LeafParted(t, n, new, k, s, m, q)
  BY <1>1, LeafSplit
<1>4. /\ n \in Allocated /\ n \in Nodes /\ new \in Nodes /\ new \notin Allocated /\ n # new
      /\ heap[n].level = 0 /\ Len(q) = LeafSlots /\ ~Present(t)
      /\ pc[t] = "visit" /\ used' = new /\ root' = root
      /\ heap'[n].keys = (IF s < m THEN InsertAt(SubSeq(q, 1, m), s + 1, k)
                          ELSE SubSeq(q, 1, m))
      /\ heap'[new].keys = (IF s < m THEN SubSeq(q, m + 1, Len(q))
                            ELSE InsertAt(SubSeq(q, m + 1, Len(q)), s - m + 1, k))
      /\ heap'[n].level = 0 /\ heap'[new].level = 0
      /\ heap'[n].next = new /\ heap'[new].next = heap[n].next
      /\ pc'[t] = "climb" /\ path'[t] = path[t]
      /\ carry'[t] = [key |-> SubSeq(q, 1, m)[m], node |-> new]
  BY <1>0 DEF LeafParted
<1>5. \A z \in Allocated \ {n} : /\ heap'[z].level = heap[z].level /\ heap'[z].keys = heap[z].keys
                                 /\ heap'[z].child = heap[z].child /\ heap'[z].next = heap[z].next
  BY <1>0 DEF LeafParted
<1>6. ~Scanning(t) /\ Walking(t) /\ t \notin Climbing /\ at[t] # Tree
  <2>1. ~Scanning(t)
    BY <1>2, InsertMode
  <2>2. at[t] # Tree
    BY <1>2, AtLeaf
  <2> QED BY <1>4, <2>1, <2>2 DEF Walking, Climbing
<1>7. PICK l, p, r : /\ l = Len(path[t]) /\ p = Node(t, l)
                     /\ r = IF p = Tree THEN 0 ELSE path[t][l].slot
  OBVIOUS
<1>8. /\ Cell(p, r) /\ Child(p, r) = n /\ (\A u \in Threads : ~SplitAt(u, p, r))
      /\ k \in span[n] /\ l \in 1 .. l
  BY <1>1, <1>2, <1>6, <1>7, AtItsKey
<1>9. /\ q \in Seq(Nat) /\ Len(q) \in Nat /\ Ascends(q) /\ KeysOf(n) \subseteq span[n]
      /\ KeysOf(n) = SetOf(q) /\ k \in Nat /\ span[n] \subseteq Nat
  <2>1. q \in Seq(Nat) /\ Len(q) \in Nat
    BY <1>1, <1>2, <1>4, NodeFacts DEF Keys
  <2>2. NodeOrd(span, n)
    BY <1>2, <1>4 DEF TreeOrd
  <2>3. Ascends(q) /\ KeysOf(n) \subseteq span[n]
    BY <1>1, <2>2 DEF NodeOrd, Keys
  <2>4. KeysOf(n) = SetOf(q)
    BY <1>1 DEF KeysOf, SetOf
  <2>5. k \in Nat
    BY <1>1, <1>2, CallFacts
  <2>6. span[n] \subseteq Nat
    BY <1>4 DEF Spans
  <2> QED BY <2>1, <2>3, <2>4, <2>5, <2>6
<1>10. m \in Nat /\ 1 <= m /\ m < Len(q)
  <2>1. m = LeafSlots \div 2 /\ Len(q) = LeafSlots
    BY <1>1, <1>4
  <2>2. LeafSlots \in Nat /\ LeafSlots \div 2 \in 1 .. LeafSlots - 1
    BY Constants
  <2> QED BY <2>1, <2>2
<1>11. Fits(q, k, s) /\ s \in 0 .. Len(q)
  BY <1>1, <1>9, SlotFits DEF SlotIn, Keys, Fits
<1>12. k \notin SetOf(q)
  <2> SUFFICES ASSUME NEW i \in 1 .. Len(q), q[i] = k PROVE FALSE
    BY DEF SetOf
  <2>1. s = i - 1
    <3>1. FindLower(q, k) = i - 1
      BY <1>9, SlotOfKey
    <3> QED BY <1>1, <3>1 DEF SlotIn, Keys
  <2>2. s < Len(q) /\ s + 1 = i
    BY <1>9, <2>1
  <2> QED BY <1>1, <1>4, <2>2 DEF Present, HasAt, Keys
<1>13. Parted(q, m, k, heap'[n].keys, heap'[new].keys)
  BY <1>4, <1>9, <1>10, <1>11, <1>12, KeyPut
<1>14. /\ Ascends(heap'[n].keys) /\ Ascends(heap'[new].keys)
       /\ SetOf(heap'[n].keys) = Lower(KeysOf(n) \cup {k}, c)
       /\ SetOf(heap'[new].keys) = Upper(KeysOf(n) \cup {k}, c)
       /\ c \in KeysOf(n) /\ q[m + 1] \in SetOf(heap'[new].keys)
  BY <1>3, <1>9, <1>13 DEF Parted
<1>15. KeysOf(n)' = SetOf(heap'[n].keys) /\ KeysOf(new)' = SetOf(heap'[new].keys)
  BY DEF KeysOf, SetOf
<1>16. c \in span[n] /\ c \in Nat
  BY <1>9, <1>14
<1>17. carry'[t] = [key |-> c, node |-> new]
  <2>1. Halved(q, m, SubSeq(q, 1, m), SubSeq(q, m + 1, Len(q)))
    BY <1>9, <1>10, KeysHalved
  <2>2. SubSeq(q, 1, m)[m] = q[m]
    BY <1>10, <2>1 DEF Halved
  <2> QED BY <1>3, <1>4, <2>2
<1>18. PICK next : next = [span EXCEPT ![n] = Lower(span[n], c), ![new] = Upper(span[n], c)]
  OBVIOUS
<1>19. /\ next \in Spans /\ next[n] = Lower(span[n], c) /\ next[new] = Upper(span[n], c)
       /\ \A z \in Allocated \ {n} : next[z] = span[z]
  <2>1. Lower(span[n], c) \subseteq Nat /\ Upper(span[n], c) \subseteq Nat
    BY <1>9 DEF Lower, Upper
  <2>2. \A z \in Allocated : z \in Nodes /\ z # new
    BY <1>2, <1>4, InUse
  <2> QED BY <1>4, <1>18, <2>1, <2>2 DEF Spans
<1>20. t \in Climbing' /\ Top(t)'.node = p /\ (p # Tree => Top(t)'.slot = r)
  <2>1. carry'[t] # NoChild
    <3>1. new # Null
      BY <1>4, Constants
    <3> QED BY <1>17, <3>1 DEF NoChild
  <2> QED BY <1>4, <1>7, <2>1 DEF Climbing, Top, Node
<1>21. SplitsNode(t, span, next, n, new, p, r, c)
  BY <1>1, <1>4, <1>5, <1>6, <1>8, <1>16, <1>17, <1>19, <1>20 DEF SplitsNode
<1>22. NodeOrd(span, n)
  BY <1>2, <1>4 DEF TreeOrd
<1>23. 0 <= heap'[root].level
  <2>1. root \in Allocated
    BY <1>2, <1>4, InUse DEF TreeOK, TreeTyped
  <2>2. 0 <= heap[root].level
    BY <1>4, <1>22 DEF NodeOrd
  <2> QED BY <1>4, <1>5, <2>1, <2>2
<1>24. NodeOrd(next, n)'
  <2>1. KeysOf(n)' \subseteq next[n] /\ c \in next[n] /\ c \in KeysOf(n)'
    BY <1>8, <1>9, <1>14, <1>15, <1>16, <1>19 DEF Lower
  <2>2. \A y \in next[n] : (\A j \in next[n] : j <= y) => y \in KeysOf(n)'
    <3> SUFFICES ASSUME NEW y \in next[n], \A j \in next[n] : j <= y PROVE y = c
      BY <2>1
    <3>1. c <= y /\ y <= c /\ y \in Nat
      BY <1>9, <1>19, <2>1 DEF Lower
    <3> QED BY <1>16, <3>1
  <2>3. \A j \in next[n], y \in next[new] : j < y
    BY <1>9, <1>16, <1>19 DEF Lower, Upper
  <2> QED BY <1>4, <1>14, <1>23, <2>1, <2>2, <2>3 DEF NodeOrd, Keys
<1>25. NodeOrd(next, new)'
  <2>1. KeysOf(new)' \subseteq next[new] /\ next[new] # {}
    BY <1>8, <1>9, <1>14, <1>15, <1>19 DEF Upper
  <2>2. \A y \in next[new] : (\A j \in next[new] : j <= y) => y \in KeysOf(new)'
    <3> SUFFICES ASSUME NEW y \in next[new], \A j \in next[new] : j <= y PROVE y \in KeysOf(new)'
      OBVIOUS
    <3>1. y \in span[n] /\ y > c /\ y \in Nat
      BY <1>9, <1>19 DEF Upper
    <3>2. ASSUME NEW j \in span[n] PROVE j <= y
      <4>1. j \in Nat /\ (j > c => j \in next[new])
        BY <1>9, <1>19 DEF Upper
      <4> QED BY <1>16, <3>1, <4>1
    <3>3. y \in KeysOf(n)
      BY <1>4, <1>22, <3>1, <3>2 DEF NodeOrd
    <3> QED BY <1>14, <1>15, <3>1, <3>3 DEF Upper
  <2>3. heap[n].next # Null => \A j \in next[new], y \in next[heap[n].next] : j < y
    <3> SUFFICES ASSUME heap[n].next # Null
                 PROVE  \A j \in next[new], y \in next[heap[n].next] : j < y
      OBVIOUS
    <3>1. heap[n].next \in Allocated \ {n}
      BY <1>2, <1>4 DEF TreeOK, LeafOK
    <3>2. next[heap[n].next] = span[heap[n].next] /\ next[new] \subseteq span[n]
      BY <1>19, <3>1 DEF Upper
    <3> QED BY <1>4, <1>22, <3>2 DEF NodeOrd
  <2> QED BY <1>4, <1>14, <1>23, <2>1, <2>2, <2>3 DEF NodeOrd, Keys
<1>26. \A z \in {n, new}, j \in Nat : ~Cell(z, j)'
  <2>1. Tree # n /\ Tree # new
    BY <1>4, Constants
  <2> QED BY <1>4, <2>1 DEF Cell, Inners
<1>27. TreeOrd(next)'
  BY <1>2, <1>19, <1>21, <1>24, <1>25, <1>26, SplitTree
<1> QED BY <1>1, <1>19, <1>27

-------------------------------------------------------------------------------
(* The way back up                                                         *)

\* where the key of a split belongs in the node above
UpFits(t, span, n, s, up, q) ==
  /\ n \in Allocated /\ n \in Nodes /\ heap[n] \in NodeType /\ heap[n].level > 0
  /\ Len(heap[n].child) = Len(q) + 1
  /\ q \in Seq(Nat) /\ Ascends(q) /\ SetOf(q) \subseteq span[n] /\ s \in 0 .. Len(q)
  /\ up \in [key : Nat, node : Nodes] /\ up.key \in span[n]
  /\ s > 0 => q[s] < up.key
  /\ s < Len(q) => up.key < q[s + 1]
  /\ up.node \in Allocated /\ \A r \in 0 .. Len(q) : heap[n].child[r + 1] \in Allocated
  /\ Divides(span, Piece(span, n, s), heap[n].child[s + 1], up)
  /\ \A r \in 0 .. Len(q) : r # s => span[heap[n].child[r + 1]] = Piece(span, n, r)
  /\ \A u \in Threads, r \in Nat : SplitAt(u, n, r) => u = t

LEMMA UpPlace ==
  ASSUME IInv, NEW span \in Spans, TreeOrd(span), NEW t \in Threads, pc[t] = "climb",
         carry[t] # NoChild, NEW n, n = Top(t).node, n # Tree, NEW s, s = Top(t).slot,
         NEW up, up = carry[t], NEW q, q = heap[n].keys
  PROVE  UpFits(t, span, n, s, up, q)
<1>1. TypeOK /\ TreeTyped /\ TreeOK /\ t \in Climbing
  BY Parts DEF Climbing
<1>2. /\ n \in Allocated /\ n \in Nodes /\ heap[n] \in NodeType /\ heap[n].level > 0
      /\ Len(heap[n].child) = Len(q) + 1 /\ s \in 0 .. Len(q) /\ Len(q) \in Nat /\ s \in Nat
  BY TopFacts
<1>3. /\ Cell(n, s) /\ SplitAt(t, n, s) /\ n \in Own(t) /\ up.node \in Allocated
      /\ up \in [key : Nat, node : Nodes]
  BY <1>1, SplitFacts
<1>4. NodeOrd(span, n)
  BY <1>2 DEF TreeOrd
<1>5. q \in Seq(Nat) /\ Ascends(q) /\ SetOf(q) \subseteq span[n] /\ span[n] \subseteq Nat
  <2>1. KeysOf(n) = SetOf(q)
    BY DEF KeysOf, SetOf
  <2> QED BY <1>1, <1>2, <1>4, <2>1, NodeFacts DEF NodeOrd, Keys, Spans
<1>6. \A u \in Threads, r \in Nat : SplitAt(u, n, r) => u = t
  BY <1>3, SplitAlone
<1>7. ASSUME NEW r \in 0 .. Len(q)
      PROVE  /\ Cell(n, r) /\ r \in Nat /\ heap[n].child[r + 1] \in Allocated
             /\ Child(n, r) = heap[n].child[r + 1] /\ CellOK(span, n, r)
  <2>1. Cell(n, r) /\ r \in Nat
    BY <1>2 DEF Cell, Inners, Keys
  <2>2. Child(n, r) \in Allocated
    BY <2>1, CellFacts
  <2> QED BY <1>2, <2>1, <2>2 DEF Child, ChildAt, TreeOrd
<1>8. Divides(span, Piece(span, n, s), heap[n].child[s + 1], up)
  BY <1>2, <1>3, <1>7 DEF CellOK
<1>9. ASSUME NEW r \in 0 .. Len(q), r # s PROVE span[heap[n].child[r + 1]] = Piece(span, n, r)
  <2>1. \A u \in Threads : ~SplitAt(u, n, r)
    BY <1>6, <1>7, <1>9 DEF SplitAt
  <2> QED BY <1>7, <2>1 DEF CellOK
<1>10. up.key \in Piece(span, n, s) /\ up.key \in Nat
  BY <1>3, <1>8 DEF Divides
<1>11. \A k \in Piece(span, n, s) : k \in span[n] /\ k \in Nat /\ Fits(q, k, s)
  <2> SUFFICES ASSUME NEW k \in Piece(span, n, s)
               PROVE  k \in span[n] /\ k \in Nat /\ Fits(q, k, s)
    OBVIOUS
  <2>1. k \in span[n] /\ FindLower(q, k) = s
    BY DEF Piece, SlotIn
  <2> QED BY <1>5, <2>1, SlotFits
<1>12. (s > 0 => q[s] < up.key) /\ (s < Len(q) => up.key <= q[s + 1])
  BY <1>10, <1>11 DEF Fits
<1>13. ASSUME s < Len(q) PROVE up.key < q[s + 1]
  <2>1. s + 1 \in 1 .. Len(q)
    BY <1>2, <1>13
  <2>2. q[s + 1] \in Nat
    BY <1>5, <2>1, ElementOfSeq
  <2>3. span[up.node] # {}
    BY <1>3 DEF TreeOrd, NodeOrd
  <2>4. PICK k : k \in Piece(span, n, s) /\ k > up.key
    BY <1>8, <2>3 DEF Divides, Upper
  <2>5. k <= q[s + 1] /\ k \in Nat
    BY <1>11, <1>13, <2>4 DEF Fits
  <2> QED BY <1>10, <2>2, <2>4, <2>5
<1> QED
  BY <1>2, <1>3, <1>5, <1>6, <1>7, <1>8, <1>9, <1>10, <1>11, <1>12, <1>13 DEF UpFits

\* the children of x share S, as its keys say
Shares(span, S, x) ==
  /\ x.keys \in Seq(Nat) /\ Ascends(x.keys) /\ SetOf(x.keys) \subseteq S
  /\ Len(x.child) = Len(x.keys) + 1
  /\ \A r \in 0 .. Len(x.keys) :
       /\ x.child[r + 1] \in Allocated
       /\ span[x.child[r + 1]] = {k \in S : FindLower(x.keys, k) = r}

\* with the new child they share what they shared before
LEMMA ChildShares ==
  ASSUME NEW span \in Spans, NEW t \in Threads, NEW n, NEW s, NEW up, NEW q, q = heap[n].keys,
         n # Tree, UpFits(t, span, n, s, up, q), NEW x, x = WithChild(heap[n], s, up)
  PROVE  Shares(span, span[n], x)
<1>1. PICK node : node = heap[n]
  OBVIOUS
<1>2. /\ node \in NodeType /\ Len(node.child) = Len(q) + 1 /\ q = node.keys
      /\ q \in Seq(Nat) /\ Ascends(q) /\ SetOf(q) \subseteq span[n] /\ s \in 0 .. Len(q)
      /\ up \in [key : Nat, node : Nodes] /\ up.key \in span[n]
      /\ (s > 0 => q[s] < up.key) /\ (s < Len(q) => up.key < q[s + 1])
      /\ up.node \in Allocated /\ span[n] \subseteq Nat /\ Len(q) \in Nat /\ s \in Nat
  BY <1>1 DEF UpFits, Spans
<1>3. Added(node, s, up, x)
  BY <1>1, <1>2, ChildIn
<1>4. PICK c, keys : c = up.key /\ keys = x.keys
  OBVIOUS
<1>5. /\ keys = InsertAt(q, s + 1, c) /\ Len(keys) = Len(q) + 1 /\ Len(x.child) = Len(q) + 2
      /\ \A j \in 1 .. Len(q) + 2 :
           x.child[j] = IF j < s + 2 THEN node.child[j]
                        ELSE IF j = s + 2 THEN up.node ELSE node.child[j - 1]
  BY <1>2, <1>3, <1>4 DEF Added
<1>6. /\ keys \in Seq(Nat) /\ Ascends(keys)
      /\ \A k \in Nat : /\ FindLower(keys, k) = FindLower(q, k) + IF k <= c THEN 0 ELSE 1
                        /\ k <= c => FindLower(q, k) <= s
                        /\ k > c => FindLower(q, k) >= s
  <2>1. /\ q \in Seq(Nat) /\ Ascends(q) /\ s \in 0 .. Len(q) /\ c \in Nat
        /\ (s > 0 => q[s] < c) /\ (s < Len(q) => c < q[s + 1])
    BY <1>2, <1>4
  <2>2. LET new == InsertAt(q, s + 1, c) IN
        /\ new \in Seq(Nat) /\ Ascends(new)
        /\ \A k \in Nat : /\ FindLower(new, k) = FindLower(q, k) + IF k <= c THEN 0 ELSE 1
                          /\ k <= c => FindLower(q, k) <= s
                          /\ k > c => FindLower(q, k) >= s
    BY <2>1, OneMore
  <2> QED BY <1>5, <2>2
<1>7. SetOf(keys) \subseteq span[n]
  <2>1. PICK z : z = s + 1
    OBVIOUS
  <2>2. z \in 1 .. Len(q) + 1 /\ c \in Nat
    BY <1>2, <1>4, <2>1
  <2>3. SetOf(InsertAt(q, z, c)) = SetOf(q) \cup {c}
    BY <1>2, <2>2, SetWith
  <2> QED BY <1>2, <1>4, <1>5, <2>1, <2>3
<1>8. \A k \in span[n] : k \in Nat /\ FindLower(q, k) \in Nat /\ c \in Nat
  <2> SUFFICES ASSUME NEW k \in span[n] PROVE k \in Nat /\ FindLower(q, k) \in Nat /\ c \in Nat
    OBVIOUS
  <2>1. k \in Nat /\ c \in Nat
    BY <1>2, <1>4
  <2>2. FindLower(q, k) \in 0 .. Len(q)
    BY <1>2, <2>1, LowerSlot
  <2> QED BY <1>2, <2>1, <2>2
<1>14. ASSUME NEW k \in span[n], NEW a, a = FindLower(q, k), NEW b, b = FindLower(keys, k)
       PROVE  /\ k \in Nat /\ c \in Nat /\ a \in Nat /\ s \in Nat
              /\ k <= c => b = a /\ a <= s
              /\ k > c => b = a + 1 /\ a >= s
  BY <1>2, <1>6, <1>8, <1>14
<1>9. \A r : Piece(span, n, r) = {k \in span[n] : FindLower(q, k) = r}
  BY DEF Piece, SlotIn
<1>10. ASSUME NEW r \in 0 .. Len(q) PROVE node.child[r + 1] \in Allocated
  BY <1>1, <1>10 DEF UpFits
<1>11. ASSUME NEW r \in 0 .. Len(q), r # s
       PROVE  span[node.child[r + 1]] = {k \in span[n] : FindLower(q, k) = r}
  BY <1>1, <1>9, <1>11 DEF UpFits
<1>12. /\ span[node.child[s + 1]] = {k \in span[n] : FindLower(q, k) = s /\ k <= c}
       /\ span[up.node] = {k \in span[n] : FindLower(q, k) = s /\ k > c}
  <2>1. Divides(span, Piece(span, n, s), node.child[s + 1], up)
    BY <1>1 DEF UpFits
  <2> QED BY <1>4, <1>9, <2>1 DEF Divides, Lower, Upper
<1>13. ASSUME NEW r \in 0 .. Len(keys)
       PROVE  /\ x.child[r + 1] \in Allocated
              /\ span[x.child[r + 1]] = {k \in span[n] : FindLower(keys, k) = r}
  <2>1. PICK j, e : j = r + 1 /\ e = r - 1
    OBVIOUS
  <2>2. r \in Nat /\ j \in 1 .. Len(q) + 2 /\ e + 1 = r /\ j - 1 = r
    BY <1>2, <1>5, <2>1, SMTT(30)
  <2>3. CASE r < s
    <3>1. x.child[j] = node.child[r + 1] /\ r \in 0 .. Len(q) /\ r # s
      BY <1>2, <1>5, <2>1, <2>2, <2>3, SMTT(30)
    <3>2. ASSUME NEW k \in span[n] PROVE FindLower(q, k) = r <=> FindLower(keys, k) = r
      <4>1. PICK a, b : a = FindLower(q, k) /\ b = FindLower(keys, k)
        OBVIOUS
      <4>2. /\ k \in Nat /\ c \in Nat /\ a \in Nat /\ s \in Nat
            /\ (k <= c => b = a /\ a <= s)
            /\ (k > c => b = a + 1 /\ a >= s)
        BY <1>14, <4>1
      <4>3. a = r <=> b = r
        BY <2>1, <2>2, <2>3, <4>2
      <4> QED BY <4>1, <4>3
    <3> QED BY <1>10, <1>11, <2>1, <3>1, <3>2
  <2>4. CASE r = s
    <3>1. x.child[j] = node.child[s + 1] /\ s \in 0 .. Len(q)
      <4>1. j < s + 2 /\ j = s + 1
        BY <1>2, <2>1, <2>2, <2>4
      <4>2. x.child[j] = node.child[j]
        BY <1>5, <2>2, <4>1
      <4> QED BY <1>2, <4>1, <4>2
    <3>2. ASSUME NEW k \in span[n] PROVE (FindLower(q, k) = s /\ k <= c) <=> FindLower(keys, k) = r
      <4>1. PICK a, b : a = FindLower(q, k) /\ b = FindLower(keys, k)
        OBVIOUS
      <4>2. /\ k \in Nat /\ c \in Nat /\ a \in Nat /\ s \in Nat
            /\ (k <= c => b = a /\ a <= s)
            /\ (k > c => b = a + 1 /\ a >= s)
        BY <1>14, <4>1
      <4>3. (a = s /\ k <= c) <=> b = r
        BY <2>1, <2>2, <2>4, <4>2
      <4> QED BY <4>1, <4>3
    <3> QED BY <1>10, <1>12, <2>1, <3>1, <3>2
  <2>5. CASE r = s + 1
    <3>1. x.child[j] = up.node
      BY <1>2, <1>5, <2>1, <2>2, <2>5
    <3>2. ASSUME NEW k \in span[n] PROVE (FindLower(q, k) = s /\ k > c) <=> FindLower(keys, k) = r
      <4>1. PICK a, b : a = FindLower(q, k) /\ b = FindLower(keys, k)
        OBVIOUS
      <4>2. /\ k \in Nat /\ c \in Nat /\ a \in Nat /\ s \in Nat
            /\ (k <= c => b = a /\ a <= s)
            /\ (k > c => b = a + 1 /\ a >= s)
        BY <1>14, <4>1
      <4>3. (a = s /\ k > c) <=> b = r
        BY <2>1, <2>2, <2>5, <4>2
      <4> QED BY <4>1, <4>3
    <3> QED BY <1>2, <1>12, <2>1, <3>1, <3>2
  <2>6. CASE r > s + 1
    <3>1. x.child[j] = node.child[e + 1] /\ e \in 0 .. Len(q) /\ e # s
      BY <1>2, <1>5, <2>1, <2>2, <2>6, SMTT(30)
    <3>2. ASSUME NEW k \in span[n] PROVE FindLower(q, k) = e <=> FindLower(keys, k) = r
      <4>1. PICK a, b : a = FindLower(q, k) /\ b = FindLower(keys, k)
        OBVIOUS
      <4>2. /\ k \in Nat /\ c \in Nat /\ a \in Nat /\ s \in Nat
            /\ (k <= c => b = a /\ a <= s)
            /\ (k > c => b = a + 1 /\ a >= s)
        BY <1>14, <4>1
      <4>3. a = e <=> b = r
        BY <2>1, <2>2, <2>6, <4>2
      <4> QED BY <4>1, <4>3
    <3> QED BY <1>10, <1>11, <2>1, <3>1, <3>2
  <2> QED BY <1>2, <2>2, <2>3, <2>4, <2>5, <2>6
<1>15. Len(x.child) = Len(keys) + 1
  BY <1>2, <1>5
<1> QED BY <1>4, <1>6, <1>7, <1>13, <1>15 DEF Shares

\* the parts of a node share the parts of what it shares
LEMMA ShareCut ==
  ASSUME NEW span, NEW S \in SUBSET Nat, NEW x, Shares(span, S, x), NEW h, NEW m \in Nat,
         Cut(x, h, m), h.left.keys \in Seq(Nat), h.right.keys \in Seq(Nat),
         \A n \in Allocated : span[n] # {}
  PROVE  /\ h.key \in S /\ Upper(S, h.key) # {}
         /\ Shares(span, Lower(S, h.key), h.left)
         /\ Shares(span, Upper(S, h.key), h.right)
<1>1. PICK q, left, right, c, g : /\ q = x.keys /\ left = h.left.keys /\ right = h.right.keys
                                  /\ c = h.key /\ g = m + 1
  OBVIOUS
<1>2. /\ q \in Seq(Nat) /\ Len(q) \in Nat /\ Ascends(q) /\ SetOf(q) \subseteq S
      /\ Len(x.child) = Len(q) + 1
      /\ \A r \in 0 .. Len(q) : /\ x.child[r + 1] \in Allocated
                                /\ span[x.child[r + 1]] = {k \in S : FindLower(q, k) = r}
  BY <1>1, SMTT(30) DEF Shares
<1>3. /\ m < Len(q) /\ c = q[g] /\ Len(left) = m /\ Len(right) = Len(q) - m - 1
      /\ left \in Seq(Nat) /\ right \in Seq(Nat) /\ g \in 1 .. Len(q)
      /\ Len(h.left.child) = m + 1 /\ Len(h.right.child) = Len(q) - m
      /\ \A i \in 1 .. m : left[i] = q[i]
      /\ \A i \in 1 .. Len(q) - m - 1 : right[i] = q[m + 1 + i]
      /\ \A i \in 1 .. m + 1 : h.left.child[i] = x.child[i]
      /\ \A i \in 1 .. Len(q) - m : h.right.child[i] = x.child[m + 1 + i]
  <2>1. Len(x.child) - m - 1 = Len(q) - m
    BY <1>2
  <2>2. /\ m < Len(q) /\ c = q[m + 1] /\ Len(left) = m /\ Len(right) = Len(q) - m - 1
        /\ Len(h.left.child) = m + 1 /\ Len(h.right.child) = Len(q) - m
        /\ \A i \in 1 .. m : left[i] = q[i]
        /\ \A i \in 1 .. Len(q) - m - 1 : right[i] = q[m + 1 + i]
        /\ \A i \in 1 .. m + 1 : h.left.child[i] = x.child[i]
        /\ \A i \in 1 .. Len(q) - m : h.right.child[i] = x.child[m + 1 + i]
    BY <1>1, <2>1 DEF Cut
  <2>3. g \in 1 .. Len(q)
    BY <1>1, <1>2, <2>2
  <2> QED BY <1>1, <2>2, <2>3
<1>4. /\ Ascends(left) /\ Ascends(right)
      /\ \A i \in 1 .. m : left[i] <= q[m + 1]
      /\ \A i \in 1 .. Len(right) : right[i] > q[m + 1]
      /\ \A k \in Nat :
           /\ k <= q[m + 1] => /\ FindLower(left, k) = FindLower(q, k)
                               /\ FindLower(q, k) <= m
           /\ k > q[m + 1] => FindLower(q, k) = FindLower(right, k) + m + 1
  <2>1. /\ q \in Seq(Nat) /\ Ascends(q) /\ m < Len(q)
        /\ left \in Seq(Nat) /\ right \in Seq(Nat)
        /\ Len(left) = m /\ Len(right) = Len(q) - m - 1
        /\ \A i \in 1 .. m : left[i] = q[i]
        /\ \A i \in 1 .. Len(q) - m - 1 : right[i] = q[m + 1 + i]
    BY <1>2, <1>3
  <2>2. KeyParts(q, m, left, right)
    BY <2>1, KeysCut
  <2> QED BY <2>2 DEF KeyParts
<1>5. c \in S /\ c \in Nat
  BY <1>2, <1>3 DEF SetOf
<1>6. SetOf(left) \subseteq Lower(S, c)
  <2> SUFFICES ASSUME NEW i \in 1 .. Len(left) PROVE left[i] \in S /\ left[i] <= c
    BY DEF SetOf, Lower
  <2>1. i \in 1 .. m /\ i \in 1 .. Len(q)
    BY <1>2, <1>3
  <2>2. left[i] = q[i] /\ left[i] <= c
    BY <1>1, <1>3, <1>4, <2>1
  <2> QED BY <1>2, <2>1, <2>2 DEF SetOf
<1>7. SetOf(right) \subseteq Upper(S, c)
  <2> SUFFICES ASSUME NEW i \in 1 .. Len(right) PROVE right[i] \in S /\ right[i] > c
    BY DEF SetOf, Upper
  <2>1. PICK j : j = m + 1 + i
    OBVIOUS
  <2>2. i \in 1 .. Len(q) - m - 1 /\ j \in 1 .. Len(q)
    BY <1>2, <1>3, <2>1
  <2>3. right[i] = q[j] /\ right[i] > c
    BY <1>1, <1>3, <1>4, <2>1, <2>2
  <2> QED BY <1>2, <2>2, <2>3 DEF SetOf
<1>8. ASSUME NEW k \in S, NEW a, a = FindLower(q, k), NEW b, b = FindLower(left, k),
             NEW d, d = FindLower(right, k)
      PROVE  /\ k \in Nat /\ a \in Nat /\ b \in Nat /\ d \in Nat
             /\ k <= c => b = a /\ a <= m
             /\ k > c => a = d + m + 1
  <2>1. k \in Nat
    OBVIOUS
  <2>2. FindLower(q, k) \in 0 .. Len(q) /\ FindLower(left, k) \in 0 .. Len(left)
        /\ FindLower(right, k) \in 0 .. Len(right)
    BY <1>2, <1>3, <2>1, LowerSlot
  <2>3. Len(left) \in Nat /\ Len(right) \in Nat
    BY <1>3
  <2>4. a \in Nat /\ b \in Nat /\ d \in Nat
    BY <1>2, <1>8, <2>2, <2>3
  <2>5. c = q[m + 1]
    BY <1>1, <1>3
  <2>6. /\ k <= c => FindLower(left, k) = FindLower(q, k) /\ FindLower(q, k) <= m
        /\ k > c => FindLower(q, k) = FindLower(right, k) + m + 1
    BY <1>4, <2>1, <2>5
  <2> QED BY <1>8, <2>1, <2>4, <2>6
<1>9. ASSUME NEW r \in 0 .. Len(left)
      PROVE  /\ h.left.child[r + 1] \in Allocated
             /\ span[h.left.child[r + 1]] = {k \in Lower(S, c) : FindLower(left, k) = r}
  <2>1. PICK j : j = r + 1
    OBVIOUS
  <2>2. r \in 0 .. Len(q) /\ j \in 1 .. m + 1 /\ r <= m /\ r \in Nat
    BY <1>2, <1>3, <2>1
  <2>3. h.left.child[j] = x.child[j]
    BY <1>3, <2>2
  <2>4. x.child[j] \in Allocated /\ span[x.child[j]] = {k \in S : FindLower(q, k) = r}
    BY <1>2, <2>1, <2>2
  <2>5. ASSUME NEW k \in S PROVE FindLower(q, k) = r <=> (k <= c /\ FindLower(left, k) = r)
    <3>1. PICK a, b, d : a = FindLower(q, k) /\ b = FindLower(left, k) /\ d = FindLower(right, k)
      OBVIOUS
    <3>2. /\ k \in Nat /\ a \in Nat /\ b \in Nat /\ d \in Nat
          /\ k <= c => b = a /\ a <= m
          /\ k > c => a = d + m + 1
      BY <1>8, <3>1
    <3>3. (a = r) <=> (k <= c /\ b = r)
      BY <1>5, <2>2, <3>2
    <3> QED BY <3>1, <3>3
  <2>6. {k \in S : FindLower(q, k) = r} = {k \in Lower(S, c) : FindLower(left, k) = r}
    BY <2>5 DEF Lower
  <2> QED BY <2>1, <2>3, <2>4, <2>6
<1>10. ASSUME NEW r \in 0 .. Len(right)
       PROVE  /\ h.right.child[r + 1] \in Allocated
              /\ span[h.right.child[r + 1]] = {k \in Upper(S, c) : FindLower(right, k) = r}
  <2>1. PICK j, e, y : j = r + 1 /\ e = m + 1 + r /\ y = m + 1 + j
    OBVIOUS
  <2>2. e \in 0 .. Len(q) /\ j \in 1 .. Len(q) - m /\ y = e + 1 /\ r \in Nat /\ e \in Nat
    BY <1>2, <1>3, <2>1
  <2>3. h.right.child[j] = x.child[y]
    <3>1. \A i \in 1 .. Len(q) - m : h.right.child[i] = x.child[m + 1 + i]
      BY <1>3
    <3>2. h.right.child[j] = x.child[m + 1 + j]
      BY <2>2, <3>1
    <3> QED BY <2>1, <3>2
  <2>4. x.child[y] \in Allocated /\ span[x.child[y]] = {k \in S : FindLower(q, k) = e}
    BY <1>2, <2>2
  <2>5. ASSUME NEW k \in S PROVE FindLower(q, k) = e <=> (k > c /\ FindLower(right, k) = r)
    <3>1. PICK a, b, d : a = FindLower(q, k) /\ b = FindLower(left, k) /\ d = FindLower(right, k)
      OBVIOUS
    <3>2. /\ k \in Nat /\ a \in Nat /\ b \in Nat /\ d \in Nat
          /\ k <= c => b = a /\ a <= m
          /\ k > c => a = d + m + 1
      BY <1>8, <3>1
    <3>3. (a = e) <=> (k > c /\ d = r)
      BY <1>5, <2>1, <2>2, <3>2
    <3> QED BY <3>1, <3>3
  <2>6. {k \in S : FindLower(q, k) = e} = {k \in Upper(S, c) : FindLower(right, k) = r}
    BY <2>5 DEF Upper
  <2> QED BY <2>1, <2>3, <2>4, <2>6
<1>11. Upper(S, c) # {}
  <2>1. 0 \in 0 .. Len(right)
    BY <1>3
  <2>2. PICK z : z = h.right.child[0 + 1]
    OBVIOUS
  <2>3. z \in Allocated /\ span[z] \subseteq Upper(S, c)
    BY <1>10, <2>1, <2>2
  <2> QED BY <2>3
<1>12. Shares(span, Lower(S, c), h.left)
  <2>1. Len(h.left.child) = Len(left) + 1 /\ left \in Seq(Nat) /\ Ascends(left)
    BY <1>3, <1>4
  <2> QED BY <1>1, <1>6, <1>9, <2>1 DEF Shares
<1>13. Shares(span, Upper(S, c), h.right)
  <2>1. Len(h.right.child) = Len(right) + 1
    BY <1>2, <1>3
  <2>2. right \in Seq(Nat) /\ Ascends(right)
    BY <1>3, <1>4
  <2> QED BY <1>1, <1>7, <1>10, <2>1, <2>2 DEF Shares
<1> QED BY <1>1, <1>5, <1>11, <1>12, <1>13

\* the slots of a node whose children share what belongs below it
LEMMA SharedCells ==
  ASSUME NEW span, NEW next, NEW m, m # Tree, NEW S, next[m] = S, Shares(span, S, heap'[m]),
         \A r \in 0 .. Len(heap'[m].keys) :
           next[heap'[m].child[r + 1]] = span[heap'[m].child[r + 1]],
         NEW r \in Nat, Cell(m, r)', \A u \in Threads : ~SplitAt(u, m, r)'
  PROVE  CellOK(next, m, r)'
<1>1. r \in 0 .. Len(heap'[m].keys)
  BY DEF Cell, Keys
<1>2. Child(m, r)' = heap'[m].child[r + 1]
  BY DEF Child, ChildAt
<1>3. Piece(next, m, r)' = {k \in S : FindLower(heap'[m].keys, k) = r}
  BY DEF Piece, SlotIn
<1>4. next[Child(m, r)'] = Piece(next, m, r)'
  BY <1>1, <1>2, <1>3 DEF Shares
<1> QED BY <1>4 DEF CellOK

\* the new child is put in: no span changes
LEMMA ClimbInsertOrd ==
  ASSUME IInv, NEW span \in Spans, TreeOrd(span), NEW t \in Threads, Step(t), ClimbInsert(t)
  PROVE  TreeOrd(span)'
<1>1. PICK n, s, up, q : n = Top(t).node /\ s = Top(t).slot /\ up = carry[t] /\ q = heap[n].keys
  OBVIOUS
<1>2. PICK x : x = WithChild(heap[n], s, up)
  OBVIOUS
<1>3. TypeOK /\ TreeTyped /\ TreeOK /\ ThreadTyped
  BY Parts, Typed
<1>4. /\ pc[t] = "climb" /\ carry[t] # NoChild /\ n # Tree /\ heap' = [heap EXCEPT ![n] = x]
      /\ used' = used /\ root' = root /\ Pop(t, NoChild)
  BY <1>1, <1>2 DEF ClimbInsert
<1>5. UpFits(t, span, n, s, up, q)
  BY <1>1, <1>4, UpPlace
<1>6. Shares(span, span[n], x) /\ n \in Allocated /\ n \in Nodes /\ heap[n] \in NodeType
      /\ heap[n].level > 0
  BY <1>1, <1>2, <1>4, <1>5, ChildShares DEF UpFits
<1>7. /\ heap'[n] = x /\ (\A z \in Nodes : z # n => heap'[z] = heap[z]) /\ x.level = heap[n].level
      /\ Allocated' = Allocated /\ Allocated \subseteq Nodes
  BY <1>2, <1>3, <1>4, <1>6, InUse DEF WithChild, NodeType, Allocated, TreeTyped
<1>8. t \notin Climbing' /\ t \in Climbing
  BY <1>3, <1>4, Moves DEF Climbing
<1>9. \A z \in Allocated : heap'[z].level = heap[z].level
  BY <1>7
<1>10. root \in Allocated
  BY <1>3, <1>6, InUse DEF TreeOK, TreeTyped
<1>11. ASSUME NEW z \in Allocated PROVE NodeOrd(span, z)'
  <2>1. NodeOrd(span, z)
    BY DEF TreeOrd
  <2>2. heap'[z].level <= heap'[root].level
    BY <1>9, <1>10, <2>1 DEF NodeOrd
  <2>3. CASE z = n
    <3>1. Ascends(heap'[z].keys) /\ SetOf(heap'[z].keys) \subseteq span[z]
      BY <1>6, <1>7, <2>3 DEF Shares
    <3>2. heap'[z].level # 0
      BY <1>6, <1>7, <2>3
    <3>3. KeysOf(z)' = SetOf(heap'[z].keys)
      BY DEF KeysOf, SetOf
    <3> QED BY <1>4, <2>1, <2>2, <3>1, <3>2, <3>3 DEF NodeOrd, Keys
  <2>4. CASE z # n
    <3>1. heap'[z] = heap[z]
      BY <1>7, <2>4
    <3>2. KeysOf(z)' = KeysOf(z)
      BY <3>1 DEF KeysOf
    <3> QED BY <1>4, <2>1, <2>2, <3>1, <3>2 DEF NodeOrd, Keys
  <2> QED BY <2>3, <2>4
<1>12. ASSUME NEW u \in Threads, NEW m, NEW r, u # t \/ m # n
       PROVE  SplitAt(u, m, r)' <=> SplitAt(u, m, r)
  <2>1. CASE u = t
    BY <1>1, <1>8, <1>12, <2>1 DEF SplitAt
  <2>2. CASE u # t
    BY <2>2, OthersSplit
  <2> QED BY <2>1, <2>2
<1>13. ASSUME NEW m \in Nodes \cup {Tree}, NEW r \in Nat, Cell(m, r)' PROVE CellOK(span, m, r)'
  <2>1. CASE m = n
    <3>1. \A u \in Threads : ~SplitAt(u, m, r)'
      <4> SUFFICES ASSUME NEW u \in Threads, SplitAt(u, m, r)' PROVE FALSE
        OBVIOUS
      <4>1. u # t
        BY <1>8 DEF SplitAt
      <4>2. SplitAt(u, m, r)
        BY <1>12, <4>1
      <4> QED BY <1>5, <2>1, <4>1, <4>2 DEF UpFits
    <3>2. Shares(span, span[m], heap'[m])
      BY <1>6, <1>7, <2>1
    <3> QED BY <1>4, <1>13, <2>1, <3>1, <3>2, SharedCells
  <2>2. CASE m # n
    <3>1. m # Tree => m \in Allocated /\ heap'[m] = heap[m]
      BY <1>7, <1>13, <2>2 DEF Cell, Inners
    <3>2. Cell(m, r)
      <4>1. CASE m = Tree
        BY <1>4, <1>7, <1>13, <4>1, Constants DEF Cell, Inners
      <4>2. CASE m # Tree
        BY <1>13, <3>1, <4>2 DEF Cell, Inners, Keys
      <4> QED BY <4>1, <4>2
    <3>3. CellOK(span, m, r)
      BY <3>2 DEF TreeOrd
    <3>4. Piece(span, m, r)' = Piece(span, m, r)
      BY <3>1 DEF Piece, SlotIn
    <3>5. Child(m, r)' = Child(m, r)
      BY <1>4, <3>1 DEF Child, ChildAt
    <3>6. \A u \in Threads : SplitAt(u, m, r)' <=> SplitAt(u, m, r)
      BY <1>12, <2>2
    <3>7. \A u \in Threads : SplitAt(u, m, r) => carry'[u] = carry[u]
      <4> SUFFICES ASSUME NEW u \in Threads, SplitAt(u, m, r) PROVE carry'[u] = carry[u]
        OBVIOUS
      <4>1. u # t
        BY <1>1, <2>2 DEF SplitAt
      <4> QED BY <4>1, OthersSplit
    <3> QED BY <3>3, <3>4, <3>5, <3>6, <3>7, CellStays
  <2> QED BY <2>1, <2>2
<1>14. \A a, b \in Allocated : a # b /\ heap'[a].level = heap'[b].level => span[a] \cap span[b] = {}
  BY <1>9 DEF TreeOrd
<1> QED BY <1>7, <1>11, <1>13, <1>14 DEF TreeOrd

\* the slot above the node a thread has come back to
LEMMA SlotAbove ==
  ASSUME IInv, NEW span \in Spans, Ordered(span), NEW t \in Threads, pc[t] = "climb",
         carry[t] # NoChild, NEW n, n = Top(t).node, n # Tree, InnerFull(n),
         NEW e, e = Len(path[t]) - 1, NEW p, p = Node(t, e),
         NEW r, r = IF p = Tree THEN 0 ELSE path[t][e].slot
  PROVE  /\ Cell(p, r) /\ Child(p, r) = n /\ p # n /\ e \in 1 .. Len(path[t])
         /\ Len(path[t]) # 1 /\ \A u \in Threads : ~SplitAt(u, p, r)
<1>1. TypeOK /\ TreeTyped /\ TreeOK /\ PathOK(t) /\ CarryOK(t) /\ WayOK(span, t) /\ ~Scanning(t)
  BY Parts, ClimbFacts DEF Ordered, Scanning
<1>2. /\ path[t] # <<>> /\ mode[t] = "sure" /\ n = Node(t, Len(path[t])) /\ Len(path[t]) \in Nat
      /\ Len(path[t]) \in 1 .. Len(path[t])
  BY <1>1, ClimbFacts, PathFacts
<1>3. n \in Allocated /\ n \in Nodes /\ heap[n].level > 0
  BY TopFacts
<1>4. Len(path[t]) # 1
  <2> SUFFICES ASSUME Len(path[t]) = 1 PROVE FALSE
    OBVIOUS
  <2>1. n = Node(t, 1)
    BY <1>2
  <2> QED BY <1>1, <1>2, <2>1 DEF CarryOK
<1>5. e \in 1 .. Len(path[t]) /\ e \in 1 .. Len(path[t]) - 1 /\ e + 1 = Len(path[t])
      /\ e < Len(path[t])
  <2>1. PICK l : l = Len(path[t])
    OBVIOUS
  <2>2. l \in Nat /\ l # 1 /\ l >= 1 /\ e = l - 1
    BY <1>2, <1>4, <2>1
  <2>3. e \in 1 .. l /\ e \in 1 .. l - 1 /\ e + 1 = l /\ e < l
    BY <2>2
  <2> QED BY <2>1, <2>3
<1>6. /\ p \in Allocated \cup {Tree} /\ SlotOK(t, e) /\ Leads(t, p, Node(t, e + 1))
      /\ path[t][e].slot \in Nat /\ p \in Held(t)
  <2>1. p \in Allocated \cup {Tree} /\ SlotOK(t, e) /\ Leads(t, p, Node(t, e + 1))
    BY <1>1, <1>5 DEF PathOK
  <2>2. path[t][e].slot \in Nat /\ p \in {Node(t, i) : i \in 1 .. Len(path[t])}
    BY <1>1, <1>5, PathFacts
  <2> QED BY <1>1, <2>1, <2>2, PathFacts
<1>7. p # n
  BY <1>2, <1>5, Apart
<1>8. n = Child(p, path[t][e].slot)
  BY <1>1, <1>2, <1>5 DEF WayOK
<1>9. root \in Allocated /\ root # Null
  BY <1>1, <1>3, InUse DEF TreeOK, TreeTyped
<1>10. Cell(p, r) /\ Child(p, r) = n
  <2>1. CASE p = Tree
    BY <1>8, <1>9, <2>1 DEF Cell, Child
  <2>2. CASE p # Tree
    <3>1. p \in Allocated /\ p \in Nodes /\ r = path[t][e].slot
      BY <1>1, <1>6, <2>2, InUse
    <3>2. heap[n].level = heap[p].level - 1
      BY <1>2, <1>3, <1>5, <1>6, <2>2 DEF Leads
    <3>3. heap[n].level \in Int /\ heap[p].level \in Int /\ Len(Keys(p)) \in Nat
      BY <1>1, <1>3, <3>1, NodeFacts
    <3>4. heap[p].level > 0
      BY <1>3, <3>2, <3>3
    <3>5. r <= Len(Keys(p)) /\ r \in Nat
      BY <1>6, <2>2, <3>1 DEF SlotOK
    <3>6. r \in 0 .. Len(Keys(p))
      BY <3>3, <3>5
    <3> QED BY <1>8, <3>1, <3>4, <3>6 DEF Cell, Inners
  <2> QED BY <2>1, <2>2
<1>11. ASSUME NEW u \in Threads, SplitAt(u, p, r) PROVE FALSE
  <2>1. u = t
    BY <1>6, <1>11, SplitAlone
  <2> QED BY <1>7, <1>11, <2>1 DEF SplitAt
<1> QED BY <1>4, <1>5, <1>7, <1>10, <1>11

\* the split of an inner node
LEMMA ClimbSplitOrd ==
  ASSUME IInv, NEW span \in Spans, Ordered(span), NEW t \in Threads, Step(t), ClimbSplit(t)
  PROVE  \E next \in Spans : /\ TreeOrd(next)'
                             /\ \A m \in Allocated \ {Top(t).node} : next[m] = span[m]
<1>1. PICK n, s, up, q, new : /\ n = Top(t).node /\ s = Top(t).slot /\ up = carry[t]
                              /\ q = heap[n].keys /\ new = used + 1
  OBVIOUS
<1>2. PICK x, h : x = WithChild(heap[n], s, up) /\ h = Halves(heap[n], s, up)
  OBVIOUS
<1>3. TypeOK /\ TreeTyped /\ TreeOK /\ ThreadTyped /\ TreeOrd(span)
  BY Parts, Typed DEF Ordered
<1>4. /\ pc[t] = "climb" /\ carry[t] # NoChild /\ n # Tree /\ InnerFull(n)
      /\ heap' = [heap EXCEPT ![n] = h.left, ![new] = h.right]
      /\ used < MaxNodes /\ used' = new /\ root' = root
      /\ Pop(t, [key |-> h.key, node |-> new])
  BY <1>1, <1>2 DEF ClimbSplit
<1>5. UpFits(t, span, n, s, up, q)
  BY <1>1, <1>3, <1>4, UpPlace
<1>6. /\ Shares(span, span[n], x) /\ n \in Allocated /\ n \in Nodes /\ heap[n] \in NodeType
      /\ heap[n].level > 0 /\ Len(heap[n].keys) = InnerSlots /\ Len(heap[n].child) = InnerSlots + 1
      /\ s \in 0 .. InnerSlots /\ up \in [key : Nat, node : Nodes]
  BY <1>1, <1>2, <1>4, <1>5, ChildShares DEF UpFits, InnerFull
<1>7. /\ h.left \in NodeType /\ h.right \in NodeType /\ h.left.level = heap[n].level
      /\ h.right.level = heap[n].level /\ h.left.keys \in Seq(Nat) /\ h.right.keys \in Seq(Nat)
  <2>1. PICK node : node = heap[n]
    OBVIOUS
  <2>2. LET g == Halves(node, s, up)
            C == ChildSet(node) \cup {up.node}
        IN g.key \in Nat /\ Filled(g.left, node.level, C) /\ Filled(g.right, node.level, C)
    BY <1>6, <2>1, SplitNode
  <2>3. h.left \in NodeType /\ h.right \in NodeType /\ h.left.level = heap[n].level
        /\ h.right.level = heap[n].level
    BY <1>2, <2>1, <2>2 DEF Filled
  <2> QED BY <2>3 DEF NodeType
<1>8. PICK m \in Nat : Cut(x, h, m)
  <2>1. PICK node : node = heap[n]
    OBVIOUS
  <2>2. \E m \in Nat : Cut(WithChild(node, s, up), Halves(node, s, up), m)
    BY <1>6, <2>1, HalvesCut
  <2> QED BY <1>2, <2>1, <2>2
<1>9. PICK c : c = h.key
  OBVIOUS
<1>10. span[n] \in SUBSET Nat /\ \A z \in Allocated : span[z] # {}
  BY <1>3, <1>6 DEF TreeOrd, NodeOrd, Spans
<1>11. /\ c \in span[n] /\ c \in Nat /\ Upper(span[n], c) # {}
       /\ Shares(span, Lower(span[n], c), h.left)
       /\ Shares(span, Upper(span[n], c), h.right)
  <2>1. PICK S : S = span[n]
    OBVIOUS
  <2>2. /\ h.key \in S /\ Upper(S, h.key) # {}
        /\ Shares(span, Lower(S, h.key), h.left)
        /\ Shares(span, Upper(S, h.key), h.right)
    BY <1>6, <1>7, <1>8, <1>10, <2>1, ShareCut
  <2> QED BY <1>9, <1>10, <2>1, <2>2
<1>12. PICK e, p, r : e = Len(path[t]) - 1 /\ p = Node(t, e)
                      /\ r = IF p = Tree THEN 0 ELSE path[t][e].slot
  OBVIOUS
<1>13. /\ Cell(p, r) /\ Child(p, r) = n /\ p # n /\ e \in 1 .. Len(path[t])
       /\ Len(path[t]) # 1 /\ \A u \in Threads : ~SplitAt(u, p, r)
  BY <1>1, <1>4, <1>12, SlotAbove
<1>14. /\ new \in Nodes /\ new \notin Allocated /\ n # new /\ Allocated \subseteq Nodes /\ p # new
       /\ Tree # new /\ Allocated' = Allocated \cup {new} /\ new # Null
  <2>1. used \in Nat /\ MaxNodes \in Nat /\ used < MaxNodes
    BY <1>3, <1>4, InUse, Constants
  <2>2. new \in Nodes /\ new \notin Allocated /\ Allocated' = Allocated \cup {new}
    BY <1>1, <1>4, <2>1 DEF Allocated, Nodes
  <2>3. p \in Allocated \cup {Tree} /\ Tree # new /\ new # Null
    BY <1>13, <2>2, CellFacts, Constants
  <2> QED BY <1>3, <1>6, <2>2, <2>3, InUse
<1>15. /\ heap'[n] = h.left /\ heap'[new] = h.right
       /\ \A z \in Nodes : z # n /\ z # new => heap'[z] = heap[z]
  BY <1>3, <1>4, <1>6, <1>14 DEF TreeTyped
<1>16. /\ pc'[t] = "climb" /\ path'[t] = Front(path[t])
       /\ carry'[t] = [key |-> c, node |-> new]
  <2>1. \A z : Pop(t, z) => /\ pc[t] = "climb" /\ carry'[t] = z
                            /\ IF Len(path[t]) = 1 THEN Forget(t)
                               ELSE /\ path'[t] = Front(path[t])
                                    /\ UNCHANGED <<pc, call, mode, at>>
    BY <1>3, Moves
  <2> QED BY <1>4, <1>9, <1>13, <2>1
<1>17. t \in Climbing' /\ Top(t)'.node = p /\ (p # Tree => Top(t)'.slot = r)
  <2>1. Len(path'[t]) = e /\ path'[t][e] = path[t][e]
    <3>1. /\ path[t] \in Seq([node : Nodes \cup {Tree}, slot : Nat]) /\ path[t] # <<>>
          /\ Len(path[t]) \in Nat
      BY <1>3, <1>4, ClimbFacts, PathFacts
    <3>2. /\ Len(Front(path[t])) = Len(path[t]) - 1
          /\ \A i \in 1 .. Len(path[t]) - 1 : Front(path[t])[i] = path[t][i]
      BY <3>1, WithoutLast
    <3>3. e \in 1 .. Len(path[t]) - 1
      BY <1>12, <1>13, <3>1
    <3> QED BY <1>12, <1>16, <3>2, <3>3
  <2>2. carry'[t] # NoChild
    BY <1>14, <1>16 DEF NoChild
  <2> QED BY <1>12, <1>16, <2>1, <2>2 DEF Climbing, Top, Node
<1>18. PICK next : next = [span EXCEPT ![n] = Lower(span[n], c), ![new] = Upper(span[n], c)]
  OBVIOUS
<1>19. /\ next \in Spans /\ next[n] = Lower(span[n], c) /\ next[new] = Upper(span[n], c)
       /\ \A z \in Allocated \ {n} : next[z] = span[z]
  <2>1. Lower(span[n], c) \subseteq Nat /\ Upper(span[n], c) \subseteq Nat
    BY <1>10 DEF Lower, Upper
  <2>2. \A z \in Allocated : z \in Nodes /\ z # new
    BY <1>14
  <2> QED BY <1>6, <1>14, <1>18, <2>1, <2>2 DEF Spans
<1>20. SplitsNode(t, span, next, n, new, p, r, c)
  <2>1. heap'[n].level = heap[n].level /\ heap'[new].level = heap[n].level
    BY <1>7, <1>15
  <2>2. \A z \in Allocated \ {n} : heap'[z] = heap[z]
    BY <1>14, <1>15
  <2>3. t \in Climbing => Top(t).node = n
    BY <1>1
  <2> QED BY <1>1, <1>4, <1>6, <1>11, <1>13, <1>14, <1>16, <1>17, <1>19, <2>1, <2>2, <2>3
         DEF SplitsNode
<1>21. heap[n].level <= heap'[root].level
  <2>1. root \in Allocated
    BY <1>3, <1>6, InUse DEF TreeOK, TreeTyped
  <2>2. heap[n].level <= heap[root].level
    BY <1>3, <1>6 DEF TreeOrd, NodeOrd
  <2>3. heap'[root].level = heap[root].level
    BY <1>7, <1>14, <1>15, <2>1
  <2> QED BY <2>2, <2>3
<1>22. ASSUME NEW z \in {n, new} PROVE NodeOrd(next, z)'
  <2>1. z # Tree /\ Shares(span, next[z], heap'[z]) /\ heap'[z].level = heap[n].level /\ next[z] # {}
    <3>1. CASE z = n
      <4>1. c \in next[n]
        BY <1>11, <1>19 DEF Lower
      <4> QED BY <1>4, <1>7, <1>11, <1>15, <1>19, <3>1, <4>1
    <3>2. CASE z = new
      BY <1>7, <1>11, <1>14, <1>15, <1>19, <3>2
    <3> QED BY <3>1, <3>2
  <2>2. Ascends(heap'[z].keys) /\ SetOf(heap'[z].keys) \subseteq next[z]
    BY <2>1 DEF Shares
  <2>3. KeysOf(z)' = SetOf(heap'[z].keys)
    BY DEF KeysOf, SetOf
  <2>4. heap'[z].level <= heap'[root'].level /\ heap'[z].level # 0
    BY <1>4, <1>6, <1>21, <2>1
  <2> QED BY <2>1, <2>2, <2>3, <2>4 DEF NodeOrd, Keys
<1>23. ASSUME NEW z \in {n, new}, NEW j \in Nat, Cell(z, j)' PROVE CellOK(next, z, j)'
  <2>1. z # Tree /\ Shares(span, next[z], heap'[z]) /\ heap'[z].level = heap[n].level
    BY <1>4, <1>7, <1>11, <1>14, <1>15, <1>19
  <2>2. ASSUME NEW i \in 0 .. Len(heap'[z].keys)
        PROVE  next[heap'[z].child[i + 1]] = span[heap'[z].child[i + 1]]
    <3>1. PICK y : y = heap'[z].child[i + 1]
      OBVIOUS
    <3>2. y \in Allocated /\ Len(heap'[z].child) = Len(heap'[z].keys) + 1
      BY <2>1, <3>1 DEF Shares
    <3>3. y # n
      <4>1. TreeOK' /\ z \in Allocated' /\ heap'[z].level > 0
        BY <1>6, <1>14, <2>1, StepTree DEF TreeMoves
      <4>2. InnerOK(z)'
        BY <4>1 DEF TreeOK
      <4>3. i + 1 \in 1 .. Len(heap'[z].child)
        <5>1. Len(heap'[z].keys) \in Nat
          BY <2>1 DEF Shares
        <5> QED BY <3>2, <5>1
      <4>4. heap'[y].level = heap'[z].level - 1
        BY <3>1, <4>2, <4>3 DEF InnerOK
      <4>5. heap[n].level \in Int /\ heap'[n].level = heap[n].level
        BY <1>3, <1>6, <1>7, <1>15, NodeFacts
      <4> QED BY <2>1, <4>4, <4>5
    <3> QED BY <1>19, <3>1, <3>2, <3>3
  <2>3. \A u \in Threads : ~SplitAt(u, z, j)'
    <3> SUFFICES ASSUME NEW u \in Threads, SplitAt(u, z, j)' PROVE FALSE
      OBVIOUS
    <3>1. u # t
      BY <1>13, <1>14, <1>17 DEF SplitAt
    <3>2. SplitAt(u, z, j)
      BY <3>1, OthersSplit
    <3>3. z # n
      BY <1>5, <3>1, <3>2 DEF UpFits
    <3>4. u \in Climbing /\ Top(u).node = new
      BY <3>2, <3>3 DEF SplitAt
    <3>5. pc[u] = "climb"
      BY <3>4 DEF Climbing
    <3> QED BY <1>14, <3>4, <3>5, ClimbFacts
  <2> QED BY <1>23, <2>1, <2>2, <2>3, SharedCells
<1>24. TreeOrd(next)'
  BY <1>3, <1>19, <1>20, <1>22, <1>23, SplitTree
<1> QED BY <1>1, <1>19, <1>24

\* two nodes share all keys between them
LEMMA TwoShare ==
  ASSUME NEW span, NEW c \in Nat, NEW a \in Allocated, NEW b \in Allocated,
         span[a] = Lower(Nat, c), span[b] = Upper(Nat, c),
         NEW x, x.keys = <<c>>, x.child = <<a, b>>
  PROVE  Shares(span, Nat, x)
<1>1. PICK q : q = <<c>>
  OBVIOUS
<1>2. q \in Seq(Nat) /\ Len(q) = 1 /\ q[1] = c /\ x.keys = q
  BY <1>1
<1>3. Ascends(q)
  BY <1>2 DEF Ascends
<1>4. SetOf(q) \subseteq Nat
  BY <1>2 DEF SetOf
<1>5. ASSUME NEW k \in Nat PROVE /\ k <= c => FindLower(q, k) = 0
                                 /\ k > c => FindLower(q, k) = 1
  <2>1. k <= c => Fits(q, k, 0)
    BY <1>2 DEF Fits
  <2>2. k > c => Fits(q, k, 1)
    BY <1>2 DEF Fits
  <2> QED BY <1>2, <1>3, <2>1, <2>2, FitsSlot
<1>6. Lower(Nat, c) = {k \in Nat : FindLower(q, k) = 0}
  BY <1>5 DEF Lower
<1>7. Upper(Nat, c) = {k \in Nat : FindLower(q, k) = 1}
  BY <1>5 DEF Upper
<1>8. Len(x.child) = 2 /\ x.child[1] = a /\ x.child[2] = b
  OBVIOUS
<1>9. ASSUME NEW r \in 0 .. Len(q)
      PROVE  /\ x.child[r + 1] \in Allocated
             /\ span[x.child[r + 1]] = {k \in Nat : FindLower(q, k) = r}
  <2>1. r = 0 \/ r = 1
    BY <1>2
  <2>2. CASE r = 0
    BY <1>6, <1>8, <2>2
  <2>3. CASE r = 1
    BY <1>7, <1>8, <2>3
  <2> QED BY <2>1, <2>2, <2>3
<1> QED BY <1>2, <1>3, <1>4, <1>8, <1>9 DEF Shares

\* a new root: all keys belong below it
LEMMA NewRootOrd ==
  ASSUME IInv, NEW span \in Spans, TreeOrd(span), NEW t \in Threads, Step(t), NewRoot(t)
  PROVE  \E next \in Spans : TreeOrd(next)' /\ \A m \in Allocated : next[m] = span[m]
<1>1. PICK up, new : up = carry[t] /\ new = used + 1
  OBVIOUS
<1>2. TypeOK /\ TreeTyped /\ TreeOK /\ ThreadTyped /\ CarryOK(t)
  BY Parts, Typed
<1>3. PICK x : x = [Blank EXCEPT !.level = heap[root].level + 1, !.keys = <<up.key>>,
                                 !.child = <<root, up.node>>]
  OBVIOUS
<1>4. /\ pc[t] = "climb" /\ carry[t] # NoChild /\ Top(t).node = Tree /\ used < MaxNodes
      /\ used' = new /\ root' = new /\ heap' = [heap EXCEPT ![new] = x] /\ Pop(t, NoChild)
  BY <1>1, <1>3 DEF NewRoot
<1>5. t \in Climbing /\ t \notin Climbing'
  BY <1>2, <1>4, Moves DEF Climbing
<1>6. /\ SplitAt(t, Tree, 0) /\ Cell(Tree, 0) /\ Tree \in Own(t)
      /\ up.node \in Allocated /\ up \in [key : Nat, node : Nodes]
  BY <1>1, <1>4, <1>5, SplitFacts
<1>7. root \in Allocated /\ heap[root].level \in Int /\ CellOK(span, Tree, 0) /\ Child(Tree, 0) = root
  BY <1>6, CellFacts DEF TreeOrd
<1>8. Divides(span, Nat, root, up)
  BY <1>1, <1>6, <1>7 DEF CellOK, Piece
<1>9. /\ new \in Nodes /\ new \notin Allocated /\ Allocated \subseteq Nodes /\ Null \notin Allocated
      /\ Allocated' = Allocated \cup {new} /\ new # Tree /\ Tree \notin Allocated /\ Tree \notin Nodes
      /\ new # Null
  <2>1. used \in Nat /\ MaxNodes \in Nat /\ used < MaxNodes
    BY <1>2, <1>4, InUse, Constants
  <2>2. new \in Nodes /\ new \notin Allocated /\ Allocated' = Allocated \cup {new}
    BY <1>1, <1>4, <2>1 DEF Allocated, Nodes
  <2> QED BY <1>2, <2>2, InUse, Constants
<1>10. heap'[new] = x /\ (\A z \in Allocated : heap'[z] = heap[z])
  BY <1>2, <1>4, <1>9 DEF TreeTyped
<1>11. x.level = heap[root].level + 1 /\ x.keys = <<up.key>> /\ x.child = <<root, up.node>>
  BY <1>3 DEF Blank
<1>12. PICK next : next = [span EXCEPT ![new] = Nat]
  OBVIOUS
<1>13. next \in Spans /\ next[new] = Nat /\ \A z \in Allocated : next[z] = span[z]
  BY <1>9, <1>12 DEF Spans
<1>14. ASSUME NEW z \in Allocated
       PROVE  heap[z].level \in Int /\ heap[z].level <= heap[root].level /\ heap[z].level >= 0
  <2>1. heap[z].level \in Int /\ heap[z].level \in 0 .. used - 1
    BY <1>2, <1>9, NodeFacts DEF TreeOK
  <2>2. used \in Nat
    BY <1>2, InUse
  <2> QED BY <2>1, <2>2 DEF TreeOrd, NodeOrd
<1>15. ASSUME NEW z \in Allocated PROVE NodeOrd(next, z)'
  <2>1. NodeOrd(span, z) /\ next[z] = span[z] /\ heap'[z] = heap[z]
    BY <1>10, <1>13 DEF TreeOrd
  <2>2. heap'[z].level <= heap'[root'].level
    BY <1>4, <1>7, <1>10, <1>11, <1>14, <2>1
  <2>3. KeysOf(z)' = KeysOf(z)
    BY <2>1 DEF KeysOf
  <2>4. heap[z].level = 0 /\ heap[z].next # Null => next[heap[z].next] = span[heap[z].next]
    BY <1>2, <1>13 DEF TreeOK, LeafOK
  <2> QED BY <2>1, <2>2, <2>3, <2>4 DEF NodeOrd, Keys
<1>16. NodeOrd(next, new)'
  <2>1. heap'[new].level # 0 /\ heap'[new].level <= heap'[root'].level
    BY <1>4, <1>7, <1>10, <1>11, <1>14
  <2>2. PICK q : q = <<up.key>>
    OBVIOUS
  <2>3. Len(q) = 1 /\ q[1] = up.key /\ up.key \in Nat /\ heap'[new].keys = q
    BY <1>6, <1>10, <1>11, <2>2
  <2>4. Ascends(heap'[new].keys)
    <3>1. Ascends(q)
      BY <2>3 DEF Ascends
    <3> QED BY <2>3, <3>1
  <2>5. KeysOf(new)' \subseteq Nat
    <3>1. SetOf(q) \subseteq Nat
      BY <2>3 DEF SetOf
    <3>2. KeysOf(new)' = SetOf(heap'[new].keys)
      BY DEF KeysOf, SetOf
    <3> QED BY <2>3, <3>1, <3>2
  <2> QED BY <1>13, <2>1, <2>4, <2>5 DEF NodeOrd, Keys
<1>17. ASSUME NEW a \in Allocated', NEW b \in Allocated', a # b, heap'[a].level = heap'[b].level
       PROVE  next[a] \cap next[b] = {}
  <2>1. \A z \in Allocated : heap'[z].level # heap'[new].level
    BY <1>7, <1>10, <1>11, <1>14
  <2>2. a \in Allocated /\ b \in Allocated
    BY <1>9, <1>17, <2>1
  <2>3. heap[a].level = heap[b].level
    BY <1>10, <1>17, <2>2
  <2> QED BY <1>13, <1>17, <2>2, <2>3 DEF TreeOrd
<1>18. ASSUME NEW u \in Threads, NEW m, NEW r, u # t \/ m # Tree
       PROVE  SplitAt(u, m, r)' <=> SplitAt(u, m, r)
  <2>1. CASE u = t
    BY <1>4, <1>5, <1>18, <2>1 DEF SplitAt
  <2>2. CASE u # t
    BY <2>2, OthersSplit
  <2> QED BY <2>1, <2>2
<1>19. ASSUME NEW u \in Threads, NEW r, SplitAt(u, Tree, r)' PROVE FALSE
  <2>1. u # t
    BY <1>5, <1>19 DEF SplitAt
  <2>2. SplitAt(u, Tree, r)
    BY <1>18, <1>19, <2>1
  <2> QED BY <1>6, <2>1, <2>2, SplitAlone
<1>20. ASSUME NEW u \in Threads, NEW r, SplitAt(u, new, r)' PROVE FALSE
  <2>1. u # t
    BY <1>5, <1>20 DEF SplitAt
  <2>2. SplitAt(u, new, r)
    BY <1>18, <1>20, <2>1
  <2>3. u \in Climbing /\ Top(u).node = new
    BY <2>2 DEF SplitAt
  <2>4. pc[u] = "climb"
    BY <2>3 DEF Climbing
  <2> QED BY <1>9, <2>3, <2>4, ClimbFacts
<1>21. ASSUME NEW m \in Nodes \cup {Tree}, NEW r \in Nat, Cell(m, r)' PROVE CellOK(next, m, r)'
  <2>1. CASE m = Tree
    <3>1. Child(m, r)' = new /\ Piece(next, m, r)' = Nat
      BY <1>4, <2>1 DEF Child, Piece
    <3> QED BY <1>13, <1>19, <2>1, <3>1 DEF CellOK
  <2>2. CASE m = new
    <3>1. Shares(span, Nat, x)
      <4>1. PICK c, a, b : c = up.key /\ a = root /\ b = up.node
        OBVIOUS
      <4>2. /\ c \in Nat /\ a \in Allocated /\ b \in Allocated /\ span[a] = Lower(Nat, c)
            /\ span[b] = Upper(Nat, c) /\ x.keys = <<c>> /\ x.child = <<a, b>>
        BY <1>6, <1>7, <1>8, <1>11, <4>1 DEF Divides
      <4> QED BY <4>2, TwoShare
    <3>2. \A i \in 0 .. Len(x.keys) : next[x.child[i + 1]] = span[x.child[i + 1]]
      BY <1>13, <3>1 DEF Shares
    <3>3. \A u \in Threads : ~SplitAt(u, m, r)'
      BY <1>20, <2>2
    <3> QED BY <1>9, <1>10, <1>13, <1>21, <2>2, <3>1, <3>2, <3>3, SharedCells
  <2>3. CASE m # Tree /\ m # new
    <3>1. m \in Allocated /\ heap'[m] = heap[m] /\ Cell(m, r)
      <4>1. m \in Allocated' /\ heap'[m].level > 0 /\ r \in 0 .. Len(heap'[m].keys)
        BY <1>21, <2>3 DEF Cell, Inners, Keys
      <4>2. m \in Allocated /\ heap'[m] = heap[m]
        BY <1>9, <1>10, <2>3, <4>1
      <4> QED BY <4>1, <4>2 DEF Cell, Inners, Keys
    <3>2. CellOK(span, m, r) /\ Child(m, r) \in Allocated
      BY <3>1, CellFacts DEF TreeOrd
    <3>3. Piece(next, m, r)' = Piece(span, m, r)
      BY <1>13, <2>3, <3>1 DEF Piece, SlotIn
    <3>4. Child(m, r)' = Child(m, r)
      BY <2>3, <3>1 DEF Child, ChildAt
    <3>5. \A u \in Threads : SplitAt(u, m, r)' <=> SplitAt(u, m, r)
      BY <1>18, <2>3
    <3>6. ASSUME NEW u \in Threads, SplitAt(u, m, r)
          PROVE  carry'[u] = carry[u] /\ next[carry[u].node] = span[carry[u].node]
      <4>1. u # t
        BY <1>4, <2>3, <3>6 DEF SplitAt
      <4>2. carry[u].node \in Allocated
        BY <3>6, SplitFacts DEF SplitAt
      <4> QED BY <1>13, <4>1, <4>2, OthersSplit
    <3> QED BY <1>13, <3>2, <3>3, <3>4, <3>5, <3>6, CellStays
  <2> QED BY <2>1, <2>2, <2>3
<1>22. \A z \in Allocated' : NodeOrd(next, z)'
  BY <1>9, <1>15, <1>16
<1>23. TreeOrd(next)'
  BY <1>17, <1>21, <1>22 DEF TreeOrd
<1> QED BY <1>13, <1>23

\* the first leaf: all keys belong in it
LEMMA FirstLeafOrd ==
  ASSUME IInv, NEW t \in Threads, Step(t), FirstLeaf(t)
  PROVE  \E next \in Spans : TreeOrd(next)'
<1>1. PICK new : new = used + 1
  OBVIOUS
<1>2. TypeOK /\ TreeTyped /\ TreeOK /\ ThreadTyped
  BY Parts, Typed
<1>3. /\ root = Null /\ used < MaxNodes /\ used' = new /\ root' = new
      /\ heap' = [heap EXCEPT ![new] = EmptyLeaf] /\ Approach(t, new, <<Frame(Tree, 0)>>)
  BY <1>1 DEF FirstLeaf
<1>4. used = 0 /\ new = 1 /\ new \in Nodes /\ Allocated' = {new} /\ new # Tree /\ new # Null
      /\ Allocated = {} /\ 1 <= MaxNodes /\ Tree \notin Nodes
  <2>1. used = 0 /\ MaxNodes \in Nat
    BY <1>2, <1>3, Constants DEF TreeOK
  <2>2. new = 1 /\ 1 <= MaxNodes /\ Allocated' = {new} /\ Allocated = {} /\ new \in Nodes
    BY <1>1, <1>3, <2>1 DEF Allocated, Nodes
  <2> QED BY <2>1, <2>2, Constants
<1>5. heap'[new] = EmptyLeaf
  BY <1>2, <1>3, <1>4 DEF TreeTyped
<1>6. EmptyLeaf.level = 0 /\ EmptyLeaf.keys = <<>> /\ EmptyLeaf.next = Null
  BY DEF EmptyLeaf, Blank
<1>7. PICK next : next = [n \in Nodes |-> Nat]
  OBVIOUS
<1>8. next \in Spans /\ next[new] = Nat
  BY <1>4, <1>7 DEF Spans
<1>9. NodeOrd(next, new)'
  <2>1. KeysOf(new)' = {} /\ Ascends(heap'[new].keys)
    BY <1>5, <1>6 DEF KeysOf, Ascends
  <2>2. ASSUME NEW k \in Nat, \A j \in Nat : j <= k PROVE FALSE
    <3>1. k + 1 <= k
      BY <2>2
    <3> QED BY <3>1
  <2>3. heap'[new].level <= heap'[root'].level
    BY <1>3, <1>5, <1>6
  <2> QED BY <1>5, <1>6, <1>8, <2>1, <2>2, <2>3 DEF NodeOrd, Keys
<1>10. ASSUME NEW u \in Threads, NEW n, NEW s, SplitAt(u, n, s)' PROVE FALSE
  <2>1. CASE u = t
    <3>1. pc'[t] = "lock"
      BY <1>2, <1>3, Moves
    <3> QED BY <1>10, <2>1, <3>1 DEF SplitAt, Climbing
  <2>2. CASE u # t
    <3>1. SplitAt(u, n, s)
      BY <1>10, <2>2, OthersSplit
    <3>2. carry[u].node \in Allocated
      BY <3>1, SplitFacts DEF SplitAt
    <3> QED BY <1>4, <3>2
  <2> QED BY <2>1, <2>2
<1>11. ASSUME NEW n \in Nodes \cup {Tree}, NEW s \in Nat, Cell(n, s)' PROVE CellOK(next, n, s)'
  <2>1. n = Tree
    BY <1>4, <1>5, <1>6, <1>11 DEF Cell, Inners
  <2>2. Child(n, s)' = new /\ Piece(next, n, s)' = Nat
    BY <1>3, <2>1 DEF Child, Piece
  <2> QED BY <1>8, <1>10, <2>2 DEF CellOK
<1>12. TreeOrd(next)'
  BY <1>4, <1>9, <1>11 DEF TreeOrd
<1> QED BY <1>8, <1>12

-------------------------------------------------------------------------------
(* Every step keeps the order                                              *)

Changing(t) == FirstLeaf(t) \/ TryInsert(t) \/ SureInsert(t) \/ SureSplit(t) \/
               ClimbInsert(t) \/ ClimbSplit(t) \/ NewRoot(t)

\* the other steps leave the tree alone, and carry nothing up
LEMMA QuietSteps ==
  ASSUME IInv, NEW t \in Threads, Step(t), ~Changing(t)
  PROVE  UNCHANGED tree /\ carry[t] = NoChild /\ carry'[t] = NoChild
<1>1. ThreadTyped /\ (pc[t] # "climb" => carry[t] = NoChild)
  BY Typed, NothingUp DEF IInv
<1>2. CASE Start(t) \/ ScanNothing(t)
  BY <1>1, <1>2 DEF Start, ScanNothing
<1>3. CASE ReadLock(t) \/ WriteLock(t) \/ Drain(t)
  BY <1>1, <1>3 DEF ReadLock, WriteLock, Drain
<1>4. CASE EnterTree(t) \/ Descend(t) \/ DescendSure(t) \/ ScanOn(t)
  BY <1>1, <1>4 DEF EnterTree, Descend, DescendSure, ScanOn, Visiting, InInner, InLeaf
<1>5. CASE ReadEmpty(t)
  BY <1>1, <1>5 DEF ReadEmpty, Visiting, Return
<1>6. CASE TryEmpty(t) \/ TryRestart(t) \/ UpgradeLost(t)
  BY <1>1, <1>6 DEF TryEmpty, TryRestart, UpgradeLost, Visiting, Inserting, InLeaf, Restart
<1>7. CASE Lookup(t) \/ ScanEnd(t) \/ TryPresent(t)
  BY <1>1, <1>7 DEF Lookup, ScanEnd, TryPresent, Inserting, InLeaf, Return
<1>8. CASE TryUpgrade(t) \/ UpgradeWon(t) \/ UpgradeDrain(t)
  BY <1>1, <1>8 DEF TryUpgrade, UpgradeWon, UpgradeDrain, Inserting, InLeaf
<1>9. CASE SurePresent(t)
  BY <1>1, <1>9, Moves DEF SurePresent, Inserting, InLeaf
<1>10. CASE ClimbPast(t)
  BY <1>1, <1>10, Moves DEF ClimbPast
<1> QED BY <1>2, <1>3, <1>4, <1>5, <1>6, <1>7, <1>8, <1>9, <1>10 DEF Step, Changing

\* nothing happens to the tree or to what is carried up
LEMMA QuietOrd ==
  ASSUME IInv, NEW span \in Spans, TreeOrd(span), UNCHANGED tree,
         \A u \in Threads : /\ (u \in Climbing)' <=> u \in Climbing
                            /\ u \in Climbing => carry'[u] = carry[u] /\ path'[u] = path[u]
  PROVE  TreeOrd(span)'
<1>1. heap' = heap /\ used' = used /\ root' = root
  BY DEF tree
<1>2. ASSUME NEW n \in Allocated
      PROVE  /\ heap'[n].level = heap[n].level /\ heap'[n].next = heap[n].next
             /\ Ascends(heap'[n].keys) /\ KeysOf(n) \subseteq KeysOf(n)' /\ KeysOf(n)' \subseteq span[n]
             /\ heap[n].level > 0 => /\ heap'[n].keys = heap[n].keys
                                     /\ heap'[n].child = heap[n].child
  <2>1. NodeOrd(span, n) /\ KeysOf(n)' = KeysOf(n)
    BY <1>1 DEF TreeOrd, KeysOf
  <2> QED BY <1>1, <2>1 DEF NodeOrd, Keys
<1> QED BY <1>1, <1>2, NoSplit

\* a step that changes the tree: only the span of the node that is split changes
LEMMA ChangeOrd ==
  ASSUME IInv, NEW span \in Spans, Ordered(span), NEW t \in Threads, Step(t), Changing(t)
  PROVE  \E next \in Spans : TreeOrd(next)' /\ \A m \in Allocated \ Mine(t) : next[m] = span[m]
<1>1. TypeOK /\ TreeTyped /\ TreeOK /\ ThreadTyped /\ TreeOrd(span)
  BY Parts, Typed DEF Ordered
<1>2. \A u \in Threads \ {t} : Alone(u)
  BY <1>1, OthersAlone
<1>4. CASE FirstLeaf(t)
  <2>1. Allocated = {}
    <3>1. root = Null
      BY <1>4 DEF FirstLeaf
    <3>2. used = 0
      BY <1>1, <3>1 DEF TreeOK
    <3> QED BY <3>2 DEF Allocated
  <2> QED BY <1>4, <2>1, FirstLeafOrd
<1>5. CASE TryInsert(t) \/ SureInsert(t)
  <2>1. /\ InLeaf(t) /\ mode[t] # "read" /\ ~Present(t) /\ ~LeafFull(at[t]) /\ PutItem(t)
        /\ UNCHANGED <<used, root>>
    BY <1>5 DEF TryInsert, SureInsert, Inserting
  <2>2. t \notin Climbing'
    <3>1. CASE TryInsert(t)
      <4>1. pc'[t] = "idle"
        BY <1>1, <3>1, Moves DEF TryInsert
      <4> QED BY <4>1 DEF Climbing
    <3>2. CASE SureInsert(t)
      <4>1. carry'[t] = NoChild
        BY <1>1, <3>2, Moves DEF SureInsert
      <4> QED BY <4>1 DEF Climbing
    <3> QED BY <1>5, <3>1, <3>2
  <2>3. TreeOrd(span)'
    BY <1>2, <2>1, <2>2, ItemOrd
  <2> QED BY <2>3
<1>6. CASE SureSplit(t)
  <2>1. at[t] \in Mine(t)
    <3>1. InLeaf(t) /\ mode[t] = "sure"
      BY <1>6 DEF SureSplit, Inserting
    <3> QED BY <1>1, <3>1, AtLeaf
  <2> QED BY <1>6, <2>1, LeafSplitOrd
<1>7. CASE ClimbInsert(t)
  BY <1>1, <1>7, ClimbInsertOrd
<1>8. CASE ClimbSplit(t)
  <2>1. Top(t).node \in Mine(t)
    <3>1. pc[t] = "climb"
      BY <1>8 DEF ClimbSplit
    <3> QED BY <3>1, ClimbFacts
  <2> QED BY <1>8, <2>1, ClimbSplitOrd
<1>9. CASE NewRoot(t)
  BY <1>1, <1>9, NewRootOrd
<1> QED BY <1>4, <1>5, <1>6, <1>7, <1>8, <1>9 DEF Changing

\* the tree after any step
LEMMA StepOrd ==
  ASSUME IInv, NEW span \in Spans, Ordered(span), NEW t \in Threads, Step(t)
  PROVE  \E next \in Spans : /\ TreeOrd(next)' /\ \A m \in Allocated \ Mine(t) : next[m] = span[m]
                             /\ ~Changing(t) => next = span
<1>1. TypeOK /\ TreeTyped /\ TreeOK /\ ThreadTyped /\ TreeOrd(span)
  BY Parts, Typed DEF Ordered
<1>2. \A u \in Threads \ {t} : Alone(u)
  BY <1>1, OthersAlone
<1>3. CASE ~Changing(t)
  <2>1. UNCHANGED tree /\ carry[t] = NoChild /\ carry'[t] = NoChild
    BY <1>3, QuietSteps
  <2>2. ASSUME NEW u \in Threads
        PROVE  /\ (u \in Climbing)' <=> u \in Climbing
               /\ u \in Climbing => carry'[u] = carry[u] /\ path'[u] = path[u]
    <3>1. CASE u = t
      BY <2>1, <3>1 DEF Climbing
    <3>2. CASE u # t
      BY <1>2, <3>2 DEF Alone, Climbing
    <3> QED BY <3>1, <3>2
  <2> QED BY <1>1, <2>1, <2>2, QuietOrd
<1>4. CASE Changing(t)
  BY <1>4, ChangeOrd
<1> QED BY <1>3, <1>4

\* the nodes of a path are where the ones above lead
LEMMA WayDown ==
  ASSUME IInv, NEW t \in Threads, Walking(t), ~Scanning(t), NEW i \in 1 .. Len(path[t]) - 1
  PROVE  Node(t, i + 1) = Child(Node(t, i), path[t][i].slot)
<1>1. PathOK(t)
  BY Parts
<1>2. Leads(t, Node(t, i), Node(t, i + 1)) /\ ChildOK(t, i, Node(t, i + 1))
  BY <1>1 DEF PathOK
<1> QED BY <1>2 DEF Leads, ChildOK, Child

\* what is left of a path, under a step that works on none of its nodes
LEMMA WayKept ==
  ASSUME IInv, NEW t \in Threads, Step(t), NEW span, NEW next, NEW u \in Threads,
         WayOK(span, u), \A m \in Allocated \ Mine(t) : next[m] = span[m],
         NEW l \in 0 .. Len(path[u]), Len(path'[u]) = l,
         \A i \in 1 .. l : path'[u][i] = path[u][i] /\ Node(u, i) \notin Mine(t),
         call'[u] = call[u], pc[u] = "climb" => pc'[u] = "climb",
         pc'[u] = "climb" => pc[u] = "climb" \/ Walking(u)
  PROVE  WayOK(next, u)'
<1>1. /\ TypeOK /\ TreeTyped /\ PathOK(u) /\ Len(path[u]) \in Nat /\ TreeMoves(t) /\ TreeStep(t)
  BY Parts, PathFacts, StepTree DEF TreeMoves
<1> SUFFICES ASSUME ~Scanning(u)', NEW i \in 1 .. l
             PROVE  /\ pc'[u] # "climb" /\ Node(u, i)' # Tree => K(u)' \in next[Node(u, i)']
                    /\ pc'[u] = "climb" /\ i < l =>
                         Node(u, i + 1)' = Child(Node(u, i), path[u][i].slot)'
  BY DEF WayOK
<1>2. ~Scanning(u) /\ K(u)' = K(u)
  BY DEF Scanning, Op, K
<1>3. /\ i \in 1 .. Len(path[u]) /\ i \in Nat /\ path'[u][i] = path[u][i]
      /\ Node(u, i) \notin Mine(t) /\ Node(u, i) \in Allocated \cup {Tree}
  BY <1>1 DEF PathOK
<1>4. pc'[u] # "climb" /\ Node(u, i)' # Tree => K(u)' \in next[Node(u, i)']
  <2>1. pc[u] # "climb" /\ Node(u, i) # Tree => K(u) \in span[Node(u, i)]
    BY <1>2, <1>3 DEF WayOK
  <2> QED BY <1>2, <1>3, <2>1 DEF Node
<1>5. ASSUME pc'[u] = "climb", i < l
      PROVE  Node(u, i + 1)' = Child(Node(u, i), path[u][i].slot)'
  <2>1. PICK j, n, s : j = i + 1 /\ n = Node(u, i) /\ s = path[u][i].slot
    OBVIOUS
  <2>2. j \in 1 .. l /\ i < Len(path[u]) /\ i \in 1 .. Len(path[u]) - 1
    BY <1>1, <1>3, <1>5, <2>1
  <2>3. Node(u, j) = Child(n, s)
    <3>1. CASE pc[u] = "climb"
      BY <1>2, <1>3, <2>1, <2>2, <3>1 DEF WayOK
    <3>2. CASE Walking(u)
      BY <1>2, <2>1, <2>2, <3>2, WayDown
    <3> QED BY <1>5, <3>1, <3>2
  <2>4. Child(n, s)' = Child(n, s)
    <3>1. CASE n = Tree
      <4>1. root' = root
        BY <1>1, <1>3, <2>1, <3>1 DEF TreeStep
      <4> QED BY <3>1, <4>1 DEF Child
    <3>2. CASE n # Tree
      <4>1. heap'[n].child = heap[n].child
        BY <1>1, <1>3, <2>1, <3>2, SameNode
      <4> QED BY <3>2, <4>1 DEF Child, ChildAt
    <3> QED BY <3>1, <3>2
  <2>5. Node(u, i + 1)' = Node(u, j) /\ Node(u, i)' = n /\ path'[u][i].slot = s
    BY <1>3, <2>1, <2>2 DEF Node
  <2>6. Child(Node(u, i), path[u][i].slot)' = Child(n, s)'
    BY <2>5 DEF Child, ChildAt
  <2> QED BY <2>3, <2>4, <2>5, <2>6
<1> QED BY <1>4, <1>5

\* the ways of the other threads stay right
LEMMA OthersWay ==
  ASSUME IInv, NEW t \in Threads, Step(t), NEW span, NEW next, NEW u \in Threads, u # t,
         WayOK(span, u), \A m \in Allocated \ Mine(t) : next[m] = span[m]
  PROVE  WayOK(next, u)'
<1>1. TypeOK /\ ThreadTyped /\ Alone(u)
  BY Parts, Typed, OthersAlone
<1>2. Held(u) \cap Mine(t) = {}
  BY Exclusive DEF Mine
<1>3. Len(path[u]) \in 0 .. Len(path[u]) /\ \A i \in 1 .. Len(path[u]) : Node(u, i) \notin Mine(t)
  BY <1>1, <1>2, PathFacts
<1> QED BY <1>1, <1>3, WayKept DEF Alone

\* one lock is held, or none: the way begins
LEMMA WayBegins ==
  ASSUME NEW next, NEW t \in Threads,
         \/ path'[t] = <<>>
         \/ \E n, s : /\ path'[t] = <<Frame(n, s)>>
                      /\ n # Tree /\ ~Scanning(t)' => K(t)' \in next[n]
  PROVE  WayOK(next, t)'
<1>1. CASE path'[t] = <<>>
  BY <1>1 DEF WayOK
<1>2. ASSUME NEW n, NEW s, path'[t] = <<Frame(n, s)>>, n # Tree /\ ~Scanning(t)' => K(t)' \in next[n]
      PROVE  WayOK(next, t)'
  <2>1. Len(path'[t]) = 1 /\ path'[t][1].node = n
    BY <1>2 DEF Frame
  <2>2. \A i \in 1 .. 1 : i = 1 /\ ~(i < 1)
    OBVIOUS
  <2> QED BY <1>2, <2>1, <2>2 DEF WayOK, Node
<1> QED BY <1>1, <1>2

\* the thread keeps its locks
LEMMA OwnWayKept ==
  ASSUME IInv, NEW t \in Threads, Step(t), NEW span, NEW next,
         WayOK(span, t), \A m \in Allocated \ Mine(t) : next[m] = span[m],
         pc[t] # "climb", path'[t] = path[t], call'[t] = call[t], Held(t) \cap Mine(t) = {},
         pc'[t] = "climb" => Walking(t)
  PROVE  WayOK(next, t)'
<1>1. TypeOK
  BY Parts
<1>2. Len(path[t]) \in 0 .. Len(path[t]) /\ \A i \in 1 .. Len(path[t]) : Node(t, i) \notin Mine(t)
  BY <1>1, PathFacts
<1> QED BY <1>2, WayKept

\* the thread lets go of its last lock
LEMMA OwnWayBack ==
  ASSUME IInv, NEW t \in Threads, Step(t), NEW span, NEW next,
         WayOK(span, t), \A m \in Allocated \ Mine(t) : next[m] = span[m], NEW up, Pop(t, up)
  PROVE  WayOK(next, t)'
<1>1. TypeOK /\ ThreadTyped
  BY Parts, Typed
<1>2. pc[t] = "climb" /\ IF Len(path[t]) = 1 THEN Forget(t)
                         ELSE path'[t] = Front(path[t]) /\ UNCHANGED <<pc, call, mode, at>>
  BY <1>1, Moves
<1>3. CASE Len(path[t]) = 1
  <2>1. path'[t] = <<>>
    BY <1>1, <1>2, <1>3, Moves
  <2> QED BY <2>1, WayBegins
<1>4. CASE Len(path[t]) # 1
  <2>1. /\ path[t] \in Seq([node : Nodes \cup {Tree}, slot : Nat]) /\ path[t] # <<>>
        /\ Len(path[t]) \in Nat /\ Top(t).node = Node(t, Len(path[t]))
    BY <1>1, <1>2, ClimbFacts, PathFacts
  <2>2. PICK l : l = Len(path[t]) - 1
    OBVIOUS
  <2>3. /\ Len(path'[t]) = l /\ l \in 0 .. Len(path[t])
        /\ \A i \in 1 .. l : path'[t][i] = path[t][i] /\ i \in 1 .. Len(path[t]) /\ i # Len(path[t])
    <3>1. /\ Len(Front(path[t])) = Len(path[t]) - 1 /\ Len(path[t]) > 0
          /\ \A i \in 1 .. Len(path[t]) - 1 : Front(path[t])[i] = path[t][i]
      BY <2>1, WithoutLast
    <3> QED BY <1>2, <1>4, <2>1, <2>2, <3>1
  <2>4. ASSUME NEW i \in 1 .. l PROVE Node(t, i) \notin Mine(t)
    <3>1. i \in 1 .. Len(path[t]) /\ i # Len(path[t]) /\ Len(path[t]) \in 1 .. Len(path[t])
      BY <1>2, <2>3, ClimbFacts
    <3>2. Node(t, i) # Node(t, Len(path[t]))
      BY <3>1, Apart
    <3> QED BY <1>2, <2>1, <3>2 DEF Mine
  <2> QED BY <1>2, <1>4, <2>3, <2>4, WayKept
<1> QED BY <1>3, <1>4

\* a thread goes on to a child, and keeps the locks it has
LEMMA OwnWaySure ==
  ASSUME IInv, NEW span \in Spans, Ordered(span), NEW t \in Threads, DescendSure(t)
  PROVE  WayOK(span, t)'
<1>1. TypeOK /\ ThreadTyped /\ WayOK(span, t) /\ Len(path[t]) \in Nat
  BY Parts, Typed, PathFacts DEF Ordered
<1>2. PICK n, s : n = at[t] /\ s = SlotIn(n, K(t))
  OBVIOUS
<1>3. /\ InInner(t) /\ mode[t] = "sure" /\ call' = call
      /\ Approach(t, ChildAt(n, s), Append(path[t], Frame(n, s)))
  BY <1>2 DEF DescendSure
<1>4. pc[t] = "visit" /\ n # Tree /\ n \in Nodes /\ s \in Nat
  BY <1>2, <1>3, AtInner
<1>5. pc'[t] = "lock" /\ path'[t] = Append(path[t], Frame(n, s))
  <2>1. \A m, f : Approach(t, m, f) => pc'[t] = "lock" /\ path'[t] = f
    BY <1>1, Moves
  <2>2. PICK m, f : m = ChildAt(n, s) /\ f = Append(path[t], Frame(n, s))
    OBVIOUS
  <2> QED BY <1>3, <2>1, <2>2
<1>6. ~Scanning(t) /\ Walking(t)
  BY <1>3, <1>4, InsertMode DEF Walking
<1>7. K(t) \in span[n]
  BY <1>2, <1>4, <1>6, AtItsKey
<1>8. Len(path'[t]) = Len(path[t]) + 1
      /\ \A i \in 1 .. Len(path[t]) + 1 :
           path'[t][i] = IF i <= Len(path[t]) THEN path[t][i] ELSE Frame(n, s)
  <2>1. PICK q, f : q = path[t] /\ f = Frame(n, s)
    OBVIOUS
  <2>2. q \in Seq(Frames) /\ f \in Frames
    BY <1>1, <1>4, <2>1 DEF ThreadTyped, Frames, Frame
  <2>3. /\ Append(q, f) \in Seq(Frames) /\ Len(Append(q, f)) = Len(q) + 1
        /\ \A i \in 1 .. Len(q) + 1 : Append(q, f)[i] = IF i <= Len(q) THEN q[i] ELSE f
    BY <2>2, Appended
  <2> QED BY <1>5, <2>1, <2>3
<1>9. ASSUME NEW i \in 1 .. Len(path'[t]), Node(t, i)' # Tree PROVE K(t)' \in span[Node(t, i)']
  <2>1. K(t)' = K(t)
    BY <1>3 DEF K
  <2>2. CASE i <= Len(path[t])
    <3>1. i \in 1 .. Len(path[t]) /\ Node(t, i)' = Node(t, i)
      BY <1>1, <1>8, <2>2 DEF Node
    <3> QED BY <1>1, <1>4, <1>6, <1>9, <2>1, <3>1 DEF WayOK
  <2>3. CASE ~(i <= Len(path[t]))
    <3>1. Node(t, i)' = n
      BY <1>8, <2>3 DEF Node, Frame
    <3> QED BY <1>7, <2>1, <3>1
  <2> QED BY <2>2, <2>3
<1>10. pc'[t] # "climb"
  BY <1>5
<1> QED BY <1>9, <1>10 DEF WayOK

\* the way of the thread that takes the step
LEMMA OwnWay ==
  ASSUME IInv, NEW span \in Spans, Ordered(span), NEW t \in Threads, Step(t), NEW next \in Spans,
         \A m \in Allocated \ Mine(t) : next[m] = span[m], ~Changing(t) => next = span
  PROVE  WayOK(next, t)'
<1>1. TypeOK /\ TreeTyped /\ ThreadTyped /\ PlaceOK(t) /\ WayOK(span, t)
  BY Parts, Typed DEF Ordered
<1>2. CASE Start(t) \/ TryEmpty(t) \/ TryRestart(t) \/ UpgradeLost(t)
  <2>1. path'[t] = <<>>
    <3>1. CASE Start(t)
      BY <1>1, <3>1, Moves DEF Start
    <3>2. CASE TryEmpty(t) \/ TryRestart(t) \/ UpgradeLost(t)
      BY <1>1, <3>2, Moves DEF TryEmpty, TryRestart, UpgradeLost
    <3> QED BY <1>2, <3>1, <3>2
  <2> QED BY <2>1, WayBegins
<1>3. CASE ScanNothing(t)
  <2>1. pc[t] = "idle" /\ path' = path
    BY <1>3 DEF ScanNothing, place
  <2> QED BY <1>1, <2>1, WayBegins DEF PlaceOK
<1>4. CASE ReadEmpty(t) \/ Lookup(t) \/ ScanEnd(t) \/ TryPresent(t) \/ TryInsert(t)
  <2>1. Forget(t)
    BY <1>4, <1>1, Moves DEF ReadEmpty, Lookup, ScanEnd, TryPresent, TryInsert, Return
  <2> QED BY <1>1, <2>1, Moves, WayBegins
<1>5. CASE ReadLock(t) \/ WriteLock(t) \/ Drain(t)
  <2>1. Walking(t) /\ path' = path /\ call' = call /\ pc[t] # "climb" /\ pc'[t] # "climb"
    BY <1>1, <1>5, Moves DEF ReadLock, WriteLock, Drain, Walking, place
  <2> QED BY <1>1, <2>1, HeldAside, OwnWayKept
<1>6. CASE TryUpgrade(t)
  <2>1. Walking(t) /\ path' = path /\ call' = call /\ pc[t] # "climb" /\ pc'[t] # "climb"
    BY <1>1, <1>6, Moves DEF TryUpgrade, Inserting, InLeaf, Walking, place
  <2> QED BY <1>1, <2>1, HeldAside, OwnWayKept
<1>7. CASE UpgradeWon(t)
  <2>1. pc[t] = "upgrade" /\ path' = path /\ call' = call /\ pc'[t] = "updrain"
    BY <1>1, <1>7, Moves DEF UpgradeWon, place
  <2> QED BY <1>1, <2>1, HeldAside, OwnWayKept
<1>8. CASE UpgradeDrain(t)
  <2>1. pc[t] = "updrain" /\ call' = call /\ pc'[t] = "lock" /\ path'[t] = path[t]
    BY <1>1, <1>8, Moves DEF UpgradeDrain
  <2>2. Mine(t) = {}
    BY <2>1 DEF Mine, Own
  <2> QED BY <1>1, <2>1, <2>2, OwnWayKept
<1>9. CASE EnterTree(t) \/ FirstLeaf(t)
  <2>1. path'[t] = <<Frame(Tree, 0)>>
    BY <1>1, <1>9, Moves DEF EnterTree, FirstLeaf
  <2> QED BY <2>1, WayBegins
<1>10. CASE Descend(t)
  <2>1. PICK n, s : n = at[t] /\ s = SlotIn(n, K(t))
    OBVIOUS
  <2>2. InInner(t) /\ call' = call /\ path'[t] = <<Frame(n, s)>>
    BY <1>1, <1>10, <2>1, Moves DEF Descend
  <2>3. Walking(t) /\ n # Tree
    BY <2>1, <2>2, AtInner DEF Walking
  <2>4. ~Scanning(t) => K(t) \in span[n]
    BY <2>1, <2>3, AtItsKey
  <2>5. K(t)' = K(t) /\ (Scanning(t)' <=> Scanning(t))
    BY <2>2 DEF K, Scanning, Op
  <2>6. next = span
    <3>1. ~Changing(t)
      BY <1>10, <2>2 DEF Changing, FirstLeaf, TryInsert, SureInsert, SureSplit, ClimbInsert, ClimbSplit,
         NewRoot, Visiting, Inserting, InLeaf, InInner, IsLeaf, Tree, Nodes
    <3> QED BY <3>1
  <2> QED BY <2>2, <2>4, <2>5, <2>6, WayBegins
<1>11. CASE DescendSure(t)
  <2>1. InInner(t)
    BY <1>11 DEF DescendSure
  <2>2. ~Changing(t)
    BY <2>1 DEF Changing, FirstLeaf, TryInsert, SureInsert, SureSplit, ClimbInsert, ClimbSplit,
       NewRoot, Visiting, Inserting, InLeaf, InInner, IsLeaf, Tree, Nodes
  <2> QED BY <1>11, <2>2, OwnWaySure
<1>12. CASE ScanOn(t)
  <2>1. Scanning(t) /\ call' = call
    BY <1>12 DEF ScanOn
  <2>2. Scanning(t)'
    BY <2>1 DEF Scanning, Op
  <2> QED BY <2>2 DEF WayOK
<1>13. CASE SurePresent(t) \/ SureInsert(t) \/ SureSplit(t)
  <2>1. InLeaf(t)
    BY <1>13 DEF SurePresent, SureInsert, SureSplit, Inserting
  <2>2. path'[t] = path[t] /\ call'[t] = call[t]
    BY <1>1, <1>13, Moves DEF SurePresent, SureInsert, SureSplit
  <2>3. Walking(t) /\ pc[t] # "climb"
    BY <2>1 DEF InLeaf, Walking
  <2> QED BY <1>1, <2>2, <2>3, HeldAside, OwnWayKept
<1>14. CASE ClimbPast(t) \/ ClimbInsert(t) \/ ClimbSplit(t) \/ NewRoot(t)
  <2>1. PICK up : Pop(t, up)
    BY <1>14 DEF ClimbPast, ClimbInsert, ClimbSplit, NewRoot
  <2> QED BY <1>1, <2>1, OwnWayBack
<1> QED BY <1>2, <1>3, <1>4, <1>5, <1>6, <1>7, <1>8, <1>9, <1>10, <1>11, <1>12, <1>13, <1>14 DEF Step

-------------------------------------------------------------------------------
(* The order is kept by every step of the specification                    *)

\* a step of a thread
LEMMA StepOrdered ==
  ASSUME IInv, OInv, NEW t \in Threads, Step(t)
  PROVE  OInv'
<1>1. PICK span \in Spans : Ordered(span)
  BY DEF OInv
<1>2. PICK next \in Spans : /\ TreeOrd(next)' /\ \A m \in Allocated \ Mine(t) : next[m] = span[m]
                            /\ ~Changing(t) => next = span
  BY <1>1, StepOrd
<1>3. ASSUME NEW u \in Threads PROVE WayOK(next, u)'
  <2>1. WayOK(span, u)
    BY <1>1 DEF Ordered
  <2>2. CASE u = t
    BY <1>1, <1>2, <2>2, OwnWay
  <2>3. CASE u # t
    BY <1>2, <2>1, <2>3, OthersWay
  <2> QED BY <2>2, <2>3
<1> QED BY <1>2, <1>3 DEF OInv, Ordered

\* at the beginning there are no nodes and no ways
LEMMA OInvInit == Init => OInv
<1> SUFFICES ASSUME Init PROVE OInv
  OBVIOUS
<1>1. PICK span : span = [n \in Nodes |-> Nat]
  OBVIOUS
<1>2. span \in Spans
  BY <1>1 DEF Spans
<1>3. Allocated = {} /\ Inners = {} /\ root = Null
  BY DEF Init, Allocated, Inners
<1>4. \A n, s : ~Cell(n, s)
  BY <1>3 DEF Cell
<1>5. TreeOrd(span)
  BY <1>3, <1>4 DEF TreeOrd
<1>6. ASSUME NEW t \in Threads PROVE WayOK(span, t)
  <2>1. path[t] = <<>>
    BY DEF Init
  <2> QED BY <2>1 DEF WayOK
<1> QED BY <1>2, <1>5, <1>6 DEF OInv, Ordered

\* the steps that leave the tree and the threads alone
LEMMA StillOrdered ==
  ASSUME IInv, OInv, UNCHANGED <<tree, pc, call, path, carry>>
  PROVE  OInv'
<1>1. PICK span \in Spans : Ordered(span)
  BY DEF OInv
<1>2. TreeOrd(span)'
  BY <1>1, QuietOrd DEF Ordered, Climbing
<1>3. ASSUME NEW t \in Threads PROVE WayOK(span, t)'
  <2>1. WayOK(span, t)
    BY <1>1 DEF Ordered
  <2> QED BY <2>1 DEF WayOK, Scanning, Op, K, Node, Child, ChildAt, tree
<1> QED BY <1>2, <1>3 DEF OInv, Ordered

LEMMA OInvNext == IInv /\ OInv /\ [Next]_vars => OInv'
<1> SUFFICES ASSUME IInv, OInv, [Next]_vars PROVE OInv'
  OBVIOUS
<1>1. CASE \E t \in Threads : Step(t)
  BY <1>1, StepOrdered
<1>2. CASE NextRound
  BY <1>2, StillOrdered DEF NextRound, place
<1>3. CASE UNCHANGED vars
  BY <1>3, StillOrdered DEF vars, place
<1> QED BY <1>1, <1>2, <1>3 DEF Next, Finished

(* There is always a way to share the keys among the nodes that the         *)
(* separators of every inner node, every split on its way up, every         *)
(* thread on its way down and the links of the leaves agree with.           *)
THEOREM OrderInductive == Spec => []OInv
<1>1. Init => OInv
  BY OInvInit
<1>2. IInv /\ OInv /\ [Next]_vars => OInv'
  BY OInvNext
<1> QED BY <1>1, <1>2, Inductive, PTL DEF Spec

(* The leaves form one list in ascending order, linked both ways, also      *)
(* between a split of a leaf and its unlock (verify_leaflinks).             *)
THEOREM LeavesInOrder == Spec => []LeavesLinked
<1>1. ASSUME IInv, OInv
      PROVE  \A n \in Chained :
               LET m == heap[n].next IN
               /\ \A i, j \in 1 .. Len(heap[n].keys) : i < j => heap[n].keys[i] < heap[n].keys[j]
               /\ m # Null => \A j \in KeysOf(n), k \in KeysOf(m) : j < k
  <2>1. PICK span \in Spans : Ordered(span)
    BY <1>1 DEF OInv
  <2>2. TreeTyped /\ TreeOK
    BY <1>1, Typed DEF IInv
  <2>3. ASSUME NEW n \in Chained
        PROVE  /\ \A i, j \in 1 .. Len(heap[n].keys) : i < j => heap[n].keys[i] < heap[n].keys[j]
               /\ heap[n].next # Null => \A j \in KeysOf(n), k \in KeysOf(heap[n].next) : j < k
    <3>1. n \in Allocated /\ heap[n].level = 0
      BY <2>2 DEF Chained, TreeOK, Blank
    <3>2. NodeOrd(span, n) /\ LeafOK(n)
      BY <2>1, <2>2, <3>1 DEF Ordered, TreeOrd, TreeOK
    <3>3. \A i, j \in 1 .. Len(heap[n].keys) : i < j => heap[n].keys[i] < heap[n].keys[j]
      BY <3>2 DEF NodeOrd, Ascends, Keys
    <3>4. ASSUME heap[n].next # Null PROVE \A j \in KeysOf(n), k \in KeysOf(heap[n].next) : j < k
      <4>1. heap[n].next \in Allocated
        BY <3>2, <3>4 DEF LeafOK
      <4>2. KeysOf(n) \subseteq span[n] /\ KeysOf(heap[n].next) \subseteq span[heap[n].next]
        BY <2>1, <3>2, <4>1 DEF Ordered, TreeOrd, NodeOrd
      <4> QED BY <3>1, <3>2, <3>4, <4>2 DEF NodeOrd
    <3> QED BY <3>3, <3>4
  <2> QED BY <2>3
<1>2. IInv /\ OInv /\ LinkedBothWays => LeavesLinked
  BY <1>1 DEF LeavesLinked
<1> QED BY <1>2, Inductive, OrderInductive, LeavesStayLinked, PTL

-------------------------------------------------------------------------------
(* What is below a node                                                    *)

\* what holds of a node when it holds of all its children, holds of all nodes
LEMMA FromBelow ==
  ASSUME IInv, NEW S,
         \A n \in Allocated :
           (heap[n].level > 0 => \A s \in 0 .. Len(Keys(n)) : ChildAt(n, s) \in S) => n \in S
  PROVE  Allocated \subseteq S
<1> SUFFICES ASSUME ~(Allocated \subseteq S) PROVE FALSE
  OBVIOUS
<1> DEFINE T == {heap[n].level : n \in Allocated \ S}
<1>1. TreeTyped /\ TreeOK
  BY Typed DEF IInv
<1>2. \A n \in Allocated : heap[n].level \in Nat
  BY <1>1, InUse DEF TreeOK
<1>3. T \subseteq Nat /\ T # {}
  BY <1>2
<1>4. PICK l \in T : \A m \in T : l <= m
  <2> HIDE DEF T
  <2> DEFINE R == {p \in Nat \X Nat : p[1] < p[2]}
  <2>1. IsWellFoundedOn(R, Nat)
    <3>1. R = OpToRel(<, Nat)
      BY DEF OpToRel
    <3> QED BY <3>1, NatLessThanWellFounded
  <2>2. PICK l \in T : \A m \in T : <<m, l>> \notin R
    <3> HIDE DEF R
    <3> QED BY <1>3, <2>1, WFMin
  <2>3. ASSUME NEW m \in T PROVE l <= m
    <3>1. m \in Nat /\ l \in Nat
      BY <1>3, <2>2
    <3>2. m < l => <<m, l>> \in R
      BY <3>1
    <3> QED BY <2>2, <3>1, <3>2
  <2> QED BY <2>2, <2>3
<1>5. PICK n \in Allocated \ S : heap[n].level = l
  BY <1>4
<1>6. heap[n].level > 0
      /\ ~\A s \in 0 .. Len(Keys(n)) : ChildAt(n, s) \in S
  BY <1>5
<1>7. PICK s \in 0 .. Len(Keys(n)) : ChildAt(n, s) \notin S
  BY <1>6
<1>8. ChildAt(n, s) \in Allocated /\ heap[ChildAt(n, s)].level = heap[n].level - 1
  BY <1>1, <1>5, <1>6, ChildFacts
<1>9. heap[ChildAt(n, s)].level \in T
  BY <1>7, <1>8
<1>10. l <= heap[ChildAt(n, s)].level
  <2> HIDE DEF T
  <2> QED BY <1>4, <1>9
<1> QED BY <1>2, <1>5, <1>8, <1>10

\* the leaves below the nodes, when b says which are below their children
LeavesOver(b) == [n \in Nodes |-> IF heap[n].level = 0 THEN {n}
                                  ELSE UNION {b[heap[n].child[i]] : i \in 1 .. Len(heap[n].child)}]
\* b leaves out no leaf that it must have
Enough(b) == \A n \in Nodes : LeavesOver(b)[n] \subseteq b[n]
Belows == [Nodes -> SUBSET Nodes]

LEMMA OverGrows ==
  ASSUME TreeTyped, NEW b \in Belows, NEW c \in Belows, \A n \in Nodes : b[n] \subseteq c[n]
  PROVE  \A n \in Nodes : LeavesOver(b)[n] \subseteq LeavesOver(c)[n]
<1> SUFFICES ASSUME NEW n \in Nodes, NEW m \in LeavesOver(b)[n] PROVE m \in LeavesOver(c)[n]
  OBVIOUS
<1>1. CASE heap[n].level = 0
  BY <1>1 DEF LeavesOver
<1>2. CASE heap[n].level # 0
  <2>1. PICK i \in 1 .. Len(heap[n].child) : m \in b[heap[n].child[i]]
    BY <1>2 DEF LeavesOver
  <2>2. heap[n].child[i] \in Nodes
    BY <2>1, NodeFacts, ElementOfSeq
  <2> QED BY <1>2, <2>1, <2>2 DEF LeavesOver
<1> QED BY <1>1, <1>2

LEMMA OverTyped ==
  ASSUME TreeTyped, NEW b \in Belows
  PROVE  LeavesOver(b) \in Belows
<1> SUFFICES ASSUME NEW n \in Nodes, NEW m \in LeavesOver(b)[n] PROVE m \in Nodes
  BY DEF LeavesOver, Belows
<1>1. CASE heap[n].level = 0
  BY <1>1 DEF LeavesOver
<1>2. CASE heap[n].level # 0
  <2>1. PICK i \in 1 .. Len(heap[n].child) : m \in b[heap[n].child[i]]
    BY <1>2 DEF LeavesOver
  <2>2. heap[n].child[i] \in Nodes
    BY <2>1, NodeFacts, ElementOfSeq
  <2> QED BY <2>1, <2>2 DEF Belows
<1> QED BY <1>1, <1>2

\* there is a function as Below is defined: the least that is enough
LEMMA BelowIs ==
  ASSUME TreeTyped
  PROVE  Below = LeavesOver(Below)
<1> DEFINE least == [n \in Nodes |-> {m \in Nodes : \A b \in Belows : Enough(b) => m \in b[n]}]
<1>1. least \in Belows
  BY DEF Belows
<1>2. ASSUME NEW b \in Belows, Enough(b), NEW n \in Nodes PROVE least[n] \subseteq b[n]
  BY <1>2
<1>3. PICK f : f = least
  OBVIOUS
<1>4. /\ f \in Belows
      /\ \A b \in Belows : Enough(b) => \A n \in Nodes : f[n] \subseteq b[n]
      /\ \A n, m \in Nodes : (\A b \in Belows : Enough(b) => m \in b[n]) => m \in f[n]
  BY <1>1, <1>2, <1>3
<1> HIDE DEF least
<1>5. LeavesOver(f) \in Belows
  BY <1>4, OverTyped
<1>6. Enough(f)
  <2> SUFFICES ASSUME NEW n \in Nodes, NEW m \in LeavesOver(f)[n], NEW b \in Belows, Enough(b)
               PROVE  m \in Nodes /\ m \in b[n]
    BY <1>4, <1>5 DEF Enough, Belows
  <2>1. \A k \in Nodes : f[k] \subseteq b[k]
    BY <1>4
  <2>2. m \in LeavesOver(b)[n]
    BY <1>4, <2>1, OverGrows
  <2> QED BY <1>5, <2>2 DEF Enough, Belows
<1>7. Enough(LeavesOver(f))
  <2>1. \A n \in Nodes : LeavesOver(f)[n] \subseteq f[n]
    BY <1>6 DEF Enough
  <2>2. \A n \in Nodes : LeavesOver(LeavesOver(f))[n] \subseteq LeavesOver(f)[n]
    BY <1>4, <1>5, <2>1, OverGrows
  <2> QED BY <2>2 DEF Enough
<1>8. \A n \in Nodes : f[n] = LeavesOver(f)[n]
  BY <1>4, <1>5, <1>6, <1>7 DEF Enough
<1>9. f = LeavesOver(f)
  BY <1>4, <1>5, <1>8 DEF Belows
<1>10. \E g : g = [n \in Nodes |-> IF heap[n].level = 0 THEN {n}
                     ELSE UNION {g[heap[n].child[i]] : i \in 1 .. Len(heap[n].child)}]
  BY <1>9 DEF LeavesOver
<1> QED BY <1>10 DEF Below, LeavesOver

\* the leaves below a node and those below its children
LEMMA BelowChildren ==
  ASSUME IInv, NEW n \in Allocated
  PROVE  /\ heap[n].level = 0 => Below[n] = {n}
         /\ heap[n].level > 0 =>
              /\ \A s \in 0 .. Len(Keys(n)) : /\ Below[ChildAt(n, s)] \subseteq Below[n]
                                              /\ KeysBelow(ChildAt(n, s)) \subseteq KeysBelow(n)
              /\ \A m \in Below[n] : \E s \in 0 .. Len(Keys(n)) : m \in Below[ChildAt(n, s)]
<1>1. TreeTyped /\ TreeOK /\ n \in Nodes
  BY Typed, InUse DEF IInv
<1>2. Below[n] = IF heap[n].level = 0 THEN {n}
                 ELSE UNION {Below[heap[n].child[i]] : i \in 1 .. Len(heap[n].child)}
  BY <1>1, BelowIs DEF LeavesOver
<1>3. CASE heap[n].level > 0
  <2>1. heap[n].level # 0 /\ Len(heap[n].child) = Len(Keys(n)) + 1 /\ Len(Keys(n)) \in Nat
    <3>1. InnerOK(n)
      BY <1>1, <1>3 DEF TreeOK
    <3>2. heap[n].level \in Int /\ Len(Keys(n)) \in Nat
      BY <1>1, NodeFacts
    <3> QED BY <1>3, <3>1, <3>2 DEF InnerOK
  <2>2. ASSUME NEW s \in 0 .. Len(Keys(n))
        PROVE  /\ Below[ChildAt(n, s)] \subseteq Below[n]
               /\ KeysBelow(ChildAt(n, s)) \subseteq KeysBelow(n)
    <3>1. s + 1 \in 1 .. Len(heap[n].child) /\ ChildAt(n, s) = heap[n].child[s + 1]
      BY <2>1 DEF ChildAt
    <3>2. Below[ChildAt(n, s)] \subseteq Below[n]
      BY <1>2, <2>1, <3>1
    <3> QED BY <3>2 DEF KeysBelow
  <2>3. ASSUME NEW m \in Below[n]
        PROVE  \E s \in 0 .. Len(Keys(n)) : m \in Below[ChildAt(n, s)]
    <3>1. PICK i \in 1 .. Len(heap[n].child) : m \in Below[heap[n].child[i]]
      BY <1>2, <2>1
    <3>2. PICK s : s = i - 1
      OBVIOUS
    <3>3. s \in 0 .. Len(Keys(n)) /\ s + 1 = i
      BY <2>1, <3>1, <3>2
    <3> QED BY <3>1, <3>3 DEF ChildAt
  <2> QED BY <1>3, <2>1, <2>2, <2>3
<1> QED BY <1>2, <1>3

LEMMA SomethingBelow ==
  ASSUME IInv
  PROVE  \A n \in Allocated : Below[n] # {}
<1> DEFINE S == {n \in Allocated : Below[n] # {}}
<1>1. TreeTyped /\ TreeOK
  BY Typed DEF IInv
<1>2. ASSUME NEW n \in Allocated,
             heap[n].level > 0 => \A s \in 0 .. Len(Keys(n)) : ChildAt(n, s) \in S
      PROVE  n \in S
  <2>1. heap[n].level \in Nat /\ Len(Keys(n)) \in Nat
    BY <1>1, InUse, NodeFacts DEF TreeOK
  <2>2. CASE heap[n].level = 0
    BY <2>2, BelowChildren
  <2>3. CASE heap[n].level > 0
    <3>1. 0 \in 0 .. Len(Keys(n))
      BY <2>1
    <3>2. Below[ChildAt(n, 0)] # {}
      BY <1>2, <2>3, <3>1
    <3>3. Below[ChildAt(n, 0)] \subseteq Below[n]
      BY <2>3, <3>1, BelowChildren
    <3> QED BY <3>2, <3>3
  <2> QED BY <2>1, <2>2, <2>3
<1>3. Allocated \subseteq S
  <2> HIDE DEF S
  <2> QED BY <1>2, FromBelow
<1> QED BY <1>3

\* the keys below a node belong there
LEMMA BelowInSpan ==
  ASSUME IInv, NEW span \in Spans, TreeOrd(span)
  PROVE  \A n \in Allocated : KeysBelow(n) \subseteq span[n]
<1> DEFINE S == {n \in Allocated : KeysBelow(n) \subseteq span[n]}
<1>1. TreeTyped /\ TreeOK
  BY Typed DEF IInv
<1>2. ASSUME NEW n \in Allocated,
             heap[n].level > 0 => \A s \in 0 .. Len(Keys(n)) : ChildAt(n, s) \in S
      PROVE  n \in S
  <2>1. heap[n].level \in Nat /\ n # Tree /\ n \in Nodes
    BY <1>1, InUse DEF TreeOK
  <2>2. CASE heap[n].level = 0
    <3>1. KeysBelow(n) = KeysOf(n)
      BY <2>2, BelowChildren DEF KeysBelow
    <3> QED BY <3>1 DEF TreeOrd, NodeOrd
  <2>3. CASE heap[n].level > 0
    <3>1. ASSUME NEW m \in Below[n], NEW k \in KeysOf(m) PROVE k \in span[n]
      <4>1. PICK s \in 0 .. Len(Keys(n)) : m \in Below[ChildAt(n, s)]
        BY <2>3, BelowChildren
      <4>2. Cell(n, s) /\ Child(n, s) = ChildAt(n, s)
        BY <2>1, <2>3 DEF Cell, Inners, Child
      <4>3. span[ChildAt(n, s)] \subseteq Piece(span, n, s)
        BY <4>2, UnderCell DEF Under
      <4>4. k \in span[ChildAt(n, s)]
        BY <1>2, <2>3, <4>1 DEF KeysBelow
      <4> QED BY <2>1, <4>3, <4>4 DEF Piece
    <3> QED BY <3>1 DEF KeysBelow
  <2> QED BY <2>1, <2>2, <2>3
<1>3. Allocated \subseteq S
  <2> HIDE DEF S
  <2> QED BY <1>2, FromBelow
<1> QED BY <1>3

\* no split is on its way to a node below n
Clear(n) == \A t \in Climbing : Top(t).node \in Nodes => Below[Top(t).node] \cap Below[n] = {}

\* the slots of such a node share what belongs below it
LEMMA ClearCell ==
  ASSUME IInv, NEW span \in Spans, TreeOrd(span), NEW n \in Allocated, heap[n].level > 0, Clear(n),
         NEW s \in 0 .. Len(Keys(n))
  PROVE  /\ span[ChildAt(n, s)] = {k \in span[n] : SlotIn(n, k) = s}
         /\ ChildAt(n, s) \in Allocated /\ Clear(ChildAt(n, s))
<1>1. TreeTyped /\ TreeOK /\ n # Tree /\ n \in Nodes
  BY Typed, InUse DEF IInv
<1>2. Cell(n, s) /\ Child(n, s) = ChildAt(n, s)
  BY <1>1 DEF Cell, Inners, Child
<1>3. s \in Nat /\ ChildAt(n, s) \in Allocated
  BY <1>2, CellFacts
<1>4. CellOK(span, n, s)
  BY <1>1, <1>2, <1>3 DEF TreeOrd
<1>5. ASSUME NEW t \in Threads PROVE ~SplitAt(t, n, s)
  <2>1. Below[n] # {}
    BY SomethingBelow
  <2> QED BY <1>1, <2>1 DEF SplitAt, Clear
<1>6. Below[ChildAt(n, s)] \subseteq Below[n]
  BY BelowChildren
<1>7. Clear(ChildAt(n, s))
  BY <1>6 DEF Clear
<1> QED BY <1>1, <1>2, <1>3, <1>4, <1>5, <1>7 DEF CellOK, Piece

\* then the last of the keys that belong below it is there
LEMMA LastBelow ==
  ASSUME IInv, NEW span \in Spans, TreeOrd(span)
  PROVE  \A n \in Allocated : Clear(n) =>
           \A k \in span[n] : (\A j \in span[n] : j <= k) => k \in KeysBelow(n)
<1> DEFINE S == {n \in Allocated : Clear(n) =>
                   \A k \in span[n] : (\A j \in span[n] : j <= k) => k \in KeysBelow(n)}
<1>1. TreeTyped /\ TreeOK
  BY Typed DEF IInv
<1>2. ASSUME NEW n \in Allocated,
             heap[n].level > 0 => \A s \in 0 .. Len(Keys(n)) : ChildAt(n, s) \in S
      PROVE  n \in S
  <2> SUFFICES ASSUME Clear(n), NEW k \in span[n], \A j \in span[n] : j <= k PROVE k \in KeysBelow(n)
    OBVIOUS
  <2>1. heap[n].level \in Nat /\ n \in Nodes /\ k \in Nat /\ Keys(n) \in Seq(Nat)
    BY <1>1, InUse, NodeFacts DEF TreeOK, Spans
  <2>2. CASE heap[n].level = 0
    <3>1. k \in KeysOf(n) /\ n \in Below[n]
      BY <2>2, BelowChildren DEF TreeOrd, NodeOrd
    <3> QED BY <3>1 DEF KeysBelow
  <2>3. CASE heap[n].level > 0
    <3>1. PICK s : s = SlotIn(n, k)
      OBVIOUS
    <3>2. s \in 0 .. Len(Keys(n))
      BY <2>1, <3>1, LowerSlot DEF SlotIn, FindLower, Keys
    <3>3. /\ span[ChildAt(n, s)] = {j \in span[n] : SlotIn(n, j) = s}
          /\ ChildAt(n, s) \in Allocated /\ Clear(ChildAt(n, s))
      BY <2>3, <3>2, ClearCell
    <3>4. k \in span[ChildAt(n, s)] /\ \A j \in span[ChildAt(n, s)] : j <= k
      BY <3>1, <3>3
    <3>5. k \in KeysBelow(ChildAt(n, s))
      BY <1>2, <2>3, <3>2, <3>3, <3>4
    <3> QED BY <2>3, <3>2, <3>5, BelowChildren
  <2> QED BY <2>1, <2>2, <2>3
<1>3. Allocated \subseteq S
  <2> HIDE DEF S
  <2> QED BY <1>2, FromBelow
<1> QED BY <1>3

(* At every moment the tree is what verify_node wants it to be, the counts  *)
(* of stats_ apart: no node outgrows its slots or is less than half full,   *)
(* all leaves are on one level, and where no split is under way the key in  *)
(* a slot is the largest below the slot's child and smaller than everything *)
(* below the next one.                                                      *)
THEOREM TreeStaysVerified == Spec => []TreeVerified
<1>1. ASSUME IInv, OInv, NEW n \in Inners, Settled(n), NEW i \in 1 .. Len(heap[n].keys)
      PROVE  /\ heap[n].keys[i] \in KeysBelow(heap[n].child[i])
             /\ \A k \in KeysBelow(heap[n].child[i]) : k <= heap[n].keys[i]
             /\ \A k \in KeysBelow(heap[n].child[i + 1]) : k > heap[n].keys[i]
  <2>1. PICK span \in Spans : TreeOrd(span)
    BY <1>1 DEF OInv, Ordered
  <2>2. PICK q, s, r : q = Keys(n) /\ s = i - 1 /\ r = i
    OBVIOUS
  <2>3. n \in Allocated /\ n \in Nodes /\ heap[n].level > 0 /\ q \in Seq(Nat) /\ Clear(n)
    BY <1>1, <2>2, Typed, InUse, NodeFacts DEF IInv, Inners, Settled, Clear
  <2>4. NodeOrd(span, n)
    BY <2>1, <2>3 DEF TreeOrd
  <2>5. Ascends(q) /\ Len(q) \in Nat /\ i \in 1 .. Len(q) /\ q[i] \in Nat /\ q[i] \in span[n]
    BY <2>2, <2>3, <2>4, ElementOfSeq DEF NodeOrd, KeysOf, Keys
  <2>6. s \in 0 .. Len(q) /\ r \in 0 .. Len(q) /\ s + 1 = i /\ r + 1 = i + 1 /\ r > 0 /\ s < Len(q)
    BY <2>2, <2>5
  <2>7. heap[n].child[i] = ChildAt(n, s) /\ heap[n].child[i + 1] = ChildAt(n, r)
    BY <2>6 DEF ChildAt
  <2>8. /\ span[ChildAt(n, s)] = {k \in span[n] : SlotIn(n, k) = s} /\ ChildAt(n, s) \in Allocated
        /\ span[ChildAt(n, r)] = {k \in span[n] : SlotIn(n, k) = r} /\ ChildAt(n, r) \in Allocated
        /\ Clear(ChildAt(n, s))
    BY <1>1, <2>1, <2>2, <2>3, <2>6, ClearCell
  <2>9. \A k \in Nat : Fits(q, k, SlotIn(n, k))
    BY <2>2, <2>3, <2>5, SlotFits DEF SlotIn, Keys
  <2>10. span[n] \subseteq Nat
    BY <2>3 DEF Spans
  <2>11. ASSUME NEW k \in span[ChildAt(n, s)] PROVE k <= q[i]
    <3>1. k \in Nat /\ Fits(q, k, s)
      BY <2>8, <2>9, <2>10
    <3> QED BY <2>6, <3>1 DEF Fits
  <2>12. ASSUME NEW k \in span[ChildAt(n, r)] PROVE k > q[i]
    <3>1. k \in Nat /\ Fits(q, k, r)
      BY <2>8, <2>9, <2>10
    <3>2. q[r] < k
      BY <2>6, <3>1 DEF Fits
    <3> QED BY <2>2, <2>5, <3>1, <3>2
  <2>13. q[i] \in span[ChildAt(n, s)]
    <3>1. FindLower(q, q[i]) = i - 1
      BY <2>3, <2>5, SlotOfKey
    <3>2. SlotIn(n, q[i]) = s
      BY <2>2, <3>1 DEF SlotIn, Keys
    <3> QED BY <2>5, <2>8, <3>2
  <2>14. q[i] \in KeysBelow(ChildAt(n, s))
    BY <1>1, <2>1, <2>8, <2>11, <2>13, LastBelow
  <2>15. /\ KeysBelow(ChildAt(n, s)) \subseteq span[ChildAt(n, s)]
         /\ KeysBelow(ChildAt(n, r)) \subseteq span[ChildAt(n, r)]
    BY <1>1, <2>1, <2>8, BelowInSpan
  <2> QED BY <2>2, <2>7, <2>11, <2>12, <2>14, <2>15 DEF Keys
<1>2. IInv /\ OInv /\ NodesFilled => TreeVerified
  BY <1>1 DEF TreeVerified
<1> QED BY <1>2, Inductive, OrderInductive, NodesStayFilled, PTL

-------------------------------------------------------------------------------
(* The pairs in the leaves                                                 *)

Items(n) == Couples(heap[n].keys, heap[n].vals)
Leaves == {n \in Allocated : heap[n].level = 0}

LEMMA PairsAre ==
  ASSUME TreeTyped, TreeOK
  PROVE  /\ Pairs = UNION {Items(n) : n \in Leaves}
         /\ Contents = UNION {KeysOf(n) : n \in Leaves}
         /\ \A k : k \in Contents <=> \E p \in Pairs : p[1] = k
<1>1. Chained \subseteq Leaves
  BY DEF Chained, Leaves, TreeOK, Blank
<1>2. ASSUME NEW n \in Leaves, n \notin Chained PROVE Items(n) = {} /\ KeysOf(n) = {}
  <2>1. n \in Nodes /\ heap[n].keys = <<>>
    BY <1>2, InUse DEF Leaves, Chained
  <2> QED BY <2>1 DEF Items, Couples, KeysOf
<1>3. Pairs = UNION {Items(n) : n \in Chained}
  BY DEF Pairs, Items, Couples
<1>4. Pairs = UNION {Items(n) : n \in Leaves}
  BY <1>1, <1>2, <1>3
<1>5. Contents = UNION {KeysOf(n) : n \in Leaves}
  BY <1>1, <1>2 DEF Contents
<1>6. \A n, k : k \in KeysOf(n) <=> \E p \in Items(n) : p[1] = k
  <2> SUFFICES ASSUME NEW n, NEW k PROVE k \in KeysOf(n) <=> \E p \in Items(n) : p[1] = k
    OBVIOUS
  <2>1. ASSUME k \in KeysOf(n) PROVE \E p \in Items(n) : p[1] = k
    <3>1. PICK i \in 1 .. Len(heap[n].keys) : k = heap[n].keys[i]
      BY <2>1 DEF KeysOf
    <3>2. PICK p : p = <<heap[n].keys[i], heap[n].vals[i]>>
      OBVIOUS
    <3>3. p \in Items(n) /\ p[1] = k
      BY <3>1, <3>2 DEF Items, Couples
    <3> QED BY <3>3
  <2>2. ASSUME NEW p \in Items(n), p[1] = k PROVE k \in KeysOf(n)
    <3>1. PICK i \in 1 .. Len(heap[n].keys) : p = <<heap[n].keys[i], heap[n].vals[i]>>
      BY DEF Items, Couples
    <3>2. k = heap[n].keys[i]
      BY <2>2, <3>1
    <3> QED BY <3>2 DEF KeysOf
  <2> QED BY <2>1, <2>2
<1> QED BY <1>4, <1>5, <1>6

\* a key is in one slot of one leaf
LEMMA OneItem ==
  ASSUME IInv, NEW span \in Spans, TreeOrd(span),
         NEW n \in Leaves, NEW i \in 1 .. Len(Keys(n)), NEW m \in Leaves, NEW j \in 1 .. Len(Keys(m)),
         Keys(n)[i] = Keys(m)[j]
  PROVE  n = m /\ i = j
<1>1. /\ TreeTyped /\ n \in Allocated /\ m \in Allocated /\ heap[n].level = heap[m].level
      /\ n \in Nodes /\ Keys(n) \in Seq(Nat)
  BY Typed, InUse, NodeFacts DEF IInv, Leaves
<1>2. NodeOrd(span, n) /\ NodeOrd(span, m)
  BY <1>1 DEF TreeOrd
<1>3. Keys(n)[i] \in span[n] /\ Keys(n)[i] \in span[m]
  BY <1>2 DEF NodeOrd, KeysOf, Keys
<1>4. n = m
  BY <1>1, <1>3 DEF TreeOrd
<1>5. Ascends(Keys(n)) /\ Keys(n)[i] \in Nat /\ Keys(n)[j] \in Nat /\ Keys(n)[i] = Keys(n)[j]
      /\ Len(Keys(n)) \in Nat /\ i \in 1 .. Len(Keys(n)) /\ j \in 1 .. Len(Keys(n))
  BY <1>1, <1>2, <1>4, ElementOfSeq, LenProperties DEF NodeOrd
<1>6. ~(i < j) /\ ~(j < i)
  BY <1>5 DEF Ascends
<1> QED BY <1>4, <1>5, <1>6

\* the pairs are a function of their keys
LEMMA OnePair ==
  ASSUME IInv, OInv, NEW p \in Pairs, NEW q \in Pairs, p[1] = q[1]
  PROVE  p = q /\ p = <<p[1], p[2]>>
<1>1. PICK span \in Spans : TreeOrd(span)
  BY DEF OInv, Ordered
<1>2. TreeTyped /\ TreeOK
  BY Typed DEF IInv
<1>3. PICK n \in Leaves : p \in Items(n)
  BY <1>2, PairsAre
<1>4. PICK m \in Leaves : q \in Items(m)
  BY <1>2, PairsAre
<1>5. PICK i \in 1 .. Len(Keys(n)) : p = <<Keys(n)[i], heap[n].vals[i]>>
  BY <1>3 DEF Items, Couples, Keys
<1>6. PICK j \in 1 .. Len(Keys(m)) : q = <<Keys(m)[j], heap[m].vals[j]>>
  BY <1>4 DEF Items, Couples, Keys
<1>7. n = m /\ i = j
  BY <1>1, <1>5, <1>6, OneItem
<1> QED BY <1>5, <1>6, <1>7

\* a thread at a leaf sees whether its key is in any
LEMMA AtItsItem ==
  ASSUME IInv, OInv, NEW t \in Threads, InLeaf(t), ~Scanning(t),
         NEW n, n = at[t], NEW k, k = K(t), NEW s, s = SlotIn(n, k)
  PROVE  /\ n \in Leaves /\ n \in Nodes /\ k \in Nat
         /\ Present(t) <=> HasAt(n, s, k)
         /\ HasAt(n, s, k) => <<k, heap[n].vals[s + 1]>> \in Pairs
         /\ ~HasAt(n, s, k) => \A p \in Pairs : p[1] # k
<1>1. PICK span \in Spans : Ordered(span)
  BY DEF OInv
<1>2. TypeOK /\ TreeTyped /\ TreeOK /\ TreeOrd(span)
  BY <1>1, Parts DEF Ordered
<1>3. n \in Allocated /\ n \in Nodes /\ heap[n].level = 0 /\ pc[t] = "visit" /\ n # Tree /\ k \in Nat
      /\ Keys(n) \in Seq(Nat) /\ s \in 0 .. Len(Keys(n)) /\ n \in Leaves
  BY <1>2, AtLeaf, NodeFacts, CallFacts DEF Leaves
<1>4. k \in span[n]
  BY <1>1, <1>3, AtItsKey DEF Walking
<1>5. ASSUME HasAt(n, s, k) PROVE <<k, heap[n].vals[s + 1]>> \in Pairs
  <2>1. s + 1 \in 1 .. Len(Keys(n)) /\ Keys(n)[s + 1] = k
    BY <1>3, <1>5 DEF HasAt, Keys
  <2>2. <<k, heap[n].vals[s + 1]>> \in Items(n)
    BY <2>1 DEF Items, Couples, Keys
  <2> QED BY <1>2, <1>3, <2>2, PairsAre
<1>6. ASSUME ~HasAt(n, s, k), NEW p \in Pairs, p[1] = k PROVE FALSE
  <2>1. k \in Contents
    BY <1>2, <1>6, PairsAre
  <2>2. PICK m \in Leaves : k \in KeysOf(m)
    BY <1>2, <2>1, PairsAre
  <2>3. k \in span[m] /\ m \in Allocated /\ heap[m].level = 0
    BY <1>2, <2>2 DEF TreeOrd, NodeOrd, Leaves
  <2>4. m = n
    BY <1>2, <1>3, <1>4, <2>3 DEF TreeOrd
  <2>5. PICK i \in 1 .. Len(Keys(n)) : Keys(n)[i] = k
    BY <2>2, <2>4 DEF KeysOf, Keys
  <2>6. Ascends(Keys(n)) /\ Len(Keys(n)) \in Nat
    BY <1>2, <1>3 DEF TreeOrd, NodeOrd
  <2>7. FindLower(Keys(n), Keys(n)[i]) = i - 1
    BY <1>3, <2>5, <2>6, SlotOfKey
  <2>8. s = i - 1
    BY <2>5, <2>7 DEF SlotIn, Keys
  <2>9. s < Len(Keys(n)) /\ Keys(n)[s + 1] = k
    BY <2>5, <2>6, <2>8
  <2> QED BY <1>6, <2>9 DEF HasAt, Keys
<1>7. Present(t) <=> HasAt(n, s, k)
  BY DEF Present
<1> QED BY <1>3, <1>5, <1>6, <1>7

PairsExact == /\ Pairs = UNION {Items(n) : n \in Leaves}
              /\ \A p, q \in Pairs : p[1] = q[1] => p = q /\ p = <<p[1], p[2]>>

LEMMA PairsRight == IInv /\ OInv => PairsExact
BY Typed, PairsAre, OnePair DEF PairsExact, IInv

\* the leaves keep their items, and a new one has none
LEMMA ItemsStay ==
  ASSUME IInv, PairsExact, PairsExact', NEW t \in Threads, Step(t),
         \A n \in Leaves : n \notin Mine(t),
         \A n \in Allocated' \ Allocated : heap'[n].level # 0 \/ heap'[n].keys = <<>>
  PROVE  Pairs' = Pairs
<1>1. /\ \A n \in Allocated : heap'[n].level = heap[n].level /\ (n \notin Mine(t) => Same(n))
      /\ used \in Nat /\ used' \in Nat /\ used <= used'
  BY StepTree, Typed, InUse DEF TreeMoves, TreeStep, IInv
<1>2. Allocated \subseteq Allocated'
  BY <1>1 DEF Allocated
<1>3. ASSUME NEW n \in Leaves PROVE n \in Leaves' /\ Items(n)' = Items(n)
  BY <1>1, <1>2 DEF Leaves, Items, Same
<1>4. ASSUME NEW n \in Leaves', n \notin Leaves PROVE Items(n)' = {}
  <2>1. n \in Allocated' /\ heap'[n].level = 0
    BY DEF Leaves
  <2>2. n \notin Allocated
    BY <1>1, <1>4, <2>1 DEF Leaves
  <2>3. heap'[n].keys = <<>>
    BY <2>1, <2>2
  <2> QED BY <2>3 DEF Items, Couples
<1>5. UNION {Items(n)' : n \in Leaves'} = UNION {Items(n) : n \in Leaves}
  BY <1>3, <1>4
<1> QED BY <1>5 DEF PairsExact

\* the items of leaf n, with one more, are in it and in new
LEMMA ItemsPut ==
  ASSUME PairsExact, PairsExact', NEW n \in Leaves, NEW new, NEW x,
         Leaves' = Leaves \cup {new},
         Items(n)' \cup Items(new)' = Items(n) \cup {x},
         \A m \in Leaves \ {n} : Items(m)' = Items(m) /\ m # new
  PROVE  Pairs' = Pairs \cup {x}
<1>1. ASSUME NEW m \in Leaves', NEW p \in Items(m)' PROVE p \in (UNION {Items(i) : i \in Leaves}) \cup {x}
  <2>1. CASE m \in {n, new}
    BY <2>1
  <2>2. CASE m \notin {n, new}
    <3>1. m \in Leaves \ {n}
      BY <2>2
    <3> QED BY <3>1
  <2> QED BY <2>1, <2>2
<1>2. ASSUME NEW m \in Leaves, NEW p \in Items(m) PROVE p \in UNION {Items(i)' : i \in Leaves'}
  <2>1. m \in Leaves' /\ n \in Leaves' /\ new \in Leaves'
    OBVIOUS
  <2>2. CASE m = n
    <3>1. p \in Items(n)' \/ p \in Items(new)'
      BY <2>2
    <3> QED BY <2>1, <3>1
  <2>3. CASE m # n
    <3>1. p \in Items(m)'
      BY <2>3
    <3> QED BY <2>1, <3>1
  <2> QED BY <2>2, <2>3
<1>3. x \in UNION {Items(i)' : i \in Leaves'}
  <2>1. x \in Items(n)' \/ x \in Items(new)'
    OBVIOUS
  <2>2. n \in Leaves' /\ new \in Leaves'
    OBVIOUS
  <2> QED BY <2>1, <2>2
<1>4. UNION {Items(i)' : i \in Leaves'} = (UNION {Items(i) : i \in Leaves}) \cup {x}
  BY <1>1, <1>2, <1>3
<1> QED BY <1>4 DEF PairsExact

\* an item in a leaf with room
LEMMA ItemPut ==
  ASSUME IInv, OInv, PairsExact, PairsExact', NEW t \in Threads, Step(t), InLeaf(t),
         mode[t] # "read", ~Present(t), PutItem(t), UNCHANGED <<used, root>>
  PROVE  Pairs' = Pairs \cup {<<K(t), call[t].arg>>}
<1>1. PICK n, k, s, v : n = at[t] /\ k = K(t) /\ s = SlotIn(n, k) /\ v = call[t].arg
  OBVIOUS
<1>2. TypeOK /\ TreeTyped /\ TreeOK
  BY Parts
<1>3. /\ n \in Allocated /\ n \in Nodes /\ heap[n].level = 0 /\ heap[n] \in NodeType /\ LeafOK(n)
      /\ k \in Nat /\ v \in Nat
  BY <1>1, <1>2, AtLeaf, CallFacts
<1>4. heap'[n] = WithItem(heap[n], s, k, v) /\ \A m \in Nodes : m # n => heap'[m] = heap[m]
  BY <1>1, <1>2, <1>3 DEF PutItem, TypeOK
<1>5. PICK q, w, z : q = heap[n].keys /\ w = heap[n].vals /\ z = s + 1
  OBVIOUS
<1>6. q \in Seq(Nat) /\ w \in Seq(Nat) /\ Len(w) = Len(q) /\ z \in 1 .. Len(q) + 1
  <2>1. q \in Seq(Nat) /\ w \in Seq(Nat) /\ s \in 0 .. Len(q) /\ Len(w) = Len(q) /\ Len(q) \in Nat
    BY <1>1, <1>2, <1>3, <1>5, NodeFacts DEF LeafOK, Keys
  <2> QED BY <1>5, <2>1
<1>7. heap'[n].keys = InsertAt(q, z, k) /\ heap'[n].vals = InsertAt(w, z, v) /\ heap'[n].level = 0
  BY <1>3, <1>4, <1>5 DEF WithItem, NodeType
<1>8. Items(n)' = Items(n) \cup {<<k, v>>}
  <2>1. Items(n)' = Couples(InsertAt(q, z, k), InsertAt(w, z, v)) /\ Items(n) = Couples(q, w)
    BY <1>5, <1>7 DEF Items, Couples
  <2>2. Couples(InsertAt(q, z, k), InsertAt(w, z, v)) = Couples(q, w) \cup {<<k, v>>}
    BY <1>3, <1>6, CouplesWith
  <2> QED BY <2>1, <2>2
<1>9. Leaves' = Leaves /\ n \in Leaves
  BY <1>2, <1>3, <1>4, <1>7, InUse DEF Leaves, Allocated
<1>10. \A m \in Leaves \ {n} : Items(m)' = Items(m)
  BY <1>2, <1>4, InUse DEF Leaves, Items
<1>11. Pairs' = Pairs \cup {<<k, v>>}
  <2>1. PICK x, new : x = <<k, v>> /\ new = n
    OBVIOUS
  <2>2. /\ Leaves' = Leaves \cup {new} /\ Items(n)' \cup Items(new)' = Items(n) \cup {x}
        /\ \A m \in Leaves \ {n} : Items(m)' = Items(m) /\ m # new
    BY <1>8, <1>9, <1>10, <2>1
  <2> HIDE DEF Leaves, Items
  <2>3. Pairs' = Pairs \cup {x}
    BY <1>9, <2>2, ItemsPut
  <2> QED BY <2>1, <2>3
<1> QED BY <1>1, <1>11

\* an item in one half of a leaf that is split
LEMMA SplitPut ==
  ASSUME IInv, OInv, PairsExact, PairsExact', NEW t \in Threads, Step(t), SureSplit(t)
  PROVE  Pairs' = Pairs \cup {<<K(t), call[t].arg>>}
<1>1. PICK n, new, k, s, m, q : /\ n = at[t] /\ new = used + 1 /\ k = K(t) /\ s = SlotIn(n, k)
                                /\ m = LeafSlots \div 2 /\ q = heap[n].keys
  OBVIOUS
<1>2. PICK w, v : w = heap[n].vals /\ v = call[t].arg
  OBVIOUS
<1>3. LeafParted(t, n, new, k, s, m, q) /\ LeafValued(t, n, new, s, m, q)
  BY <1>1, LeafSplit
<1>4. TypeOK /\ TreeTyped /\ TreeOK /\ ThreadTyped
  BY Parts, Typed
<1>5. n \in Leaves /\ n \in Nodes /\ LeafOK(n) /\ k \in Nat /\ v \in Nat /\ Len(q) = LeafSlots
  BY <1>1, <1>2, <1>3, <1>4, CallFacts DEF LeafParted, Leaves, TreeOK
<1>6. q \in Seq(Nat) /\ w \in Seq(Nat) /\ Len(w) = Len(q) /\ s \in 0 .. Len(q)
  BY <1>1, <1>2, <1>4, <1>5, NodeFacts DEF LeafOK, Keys
<1>7. m \in Nat /\ 1 <= m /\ m < Len(q) /\ Len(q) \in Nat
  BY <1>1, <1>5, Constants
<1>8. PICK a, b, c, d : /\ a = SubSeq(q, 1, m) /\ b = SubSeq(q, m + 1, Len(q))
                        /\ c = SubSeq(w, 1, m) /\ d = SubSeq(w, m + 1, Len(q))
  OBVIOUS
<1>9. /\ a \in Seq(Nat) /\ b \in Seq(Nat) /\ c \in Seq(Nat) /\ d \in Seq(Nat)
      /\ Len(a) = m /\ Len(c) = m /\ Len(b) = Len(q) - m /\ Len(d) = Len(q) - m
  <2>1. /\ SubSeq(q, 1, m) \in Seq(Nat) /\ Len(SubSeq(q, 1, m)) = m
        /\ SubSeq(w, 1, m) \in Seq(Nat) /\ Len(SubSeq(w, 1, m)) = m
    BY <1>6, <1>7, Part, SMTT(30)
  <2>2. PICK l, y : l = Len(q) /\ y = m + 1
    OBVIOUS
  <2>3. l \in Int /\ y \in Int /\ 1 <= y /\ y <= l /\ l - y + 1 = l - m /\ l = Len(w)
    BY <1>6, <1>7, <2>2
  <2>4. /\ SubSeq(q, y, l) \in Seq(Nat) /\ Len(SubSeq(q, y, l)) = l - y + 1
        /\ SubSeq(w, y, l) \in Seq(Nat) /\ Len(SubSeq(w, y, l)) = l - y + 1
    <3>1. SubSeq(q, y, l) \in Seq(Nat)
      <4>1. q \in Seq(Nat) /\ y \in Int /\ l \in Int /\ 1 <= y /\ l <= Len(q)
        BY <1>6, <2>2, <2>3
      <4> QED BY <4>1, Part
    <3>2. Len(SubSeq(q, y, l)) = IF y <= l THEN l - y + 1 ELSE 0
      BY <1>6, <2>2, <2>3, Part
    <3>3. SubSeq(w, y, l) \in Seq(Nat)
      <4>1. w \in Seq(Nat) /\ y \in Int /\ l \in Int /\ 1 <= y /\ l <= Len(w)
        BY <1>6, <2>2, <2>3
      <4> QED BY <4>1, Part
    <3>4. Len(SubSeq(w, y, l)) = IF y <= l THEN l - y + 1 ELSE 0
      BY <1>6, <2>2, <2>3, Part
    <3> QED BY <2>3, <3>1, <3>2, <3>3, <3>4
  <2>5. b = SubSeq(q, y, l) /\ d = SubSeq(w, y, l)
    BY <1>6, <1>8, <2>2
  <2> QED BY <1>8, <2>1, <2>2, <2>3, <2>4, <2>5
<1>10. Items(n) = Couples(a, c) \cup Couples(b, d)
  <2>1. Items(n) = Couples(q, w)
    BY <1>1, <1>2 DEF Items
  <2> QED BY <1>6, <1>7, <1>8, <2>1, CouplesCut
<1>11. Items(n)' \cup Items(new)' = Items(n) \cup {<<k, v>>}
  <2>1. CASE s < m
    <3>1. PICK z : z = s + 1
      OBVIOUS
    <3>2. z \in 1 .. Len(a) + 1
      BY <1>6, <1>7, <1>9, <2>1, <3>1
    <3>3. /\ heap'[n].keys = InsertAt(a, z, k) /\ heap'[n].vals = InsertAt(c, z, v)
          /\ heap'[new].keys = b /\ heap'[new].vals = d
      BY <1>2, <1>3, <1>8, <2>1, <3>1 DEF LeafParted, LeafValued
    <3>4. Couples(InsertAt(a, z, k), InsertAt(c, z, v)) = Couples(a, c) \cup {<<k, v>>}
      BY <1>5, <1>9, <3>2, CouplesWith
    <3>5. Items(n)' = Couples(InsertAt(a, z, k), InsertAt(c, z, v)) /\ Items(new)' = Couples(b, d)
      BY <3>3 DEF Items, Couples
    <3> QED BY <1>10, <3>4, <3>5
  <2>2. CASE ~(s < m)
    <3>1. PICK z : z = s - m + 1
      OBVIOUS
    <3>2. z \in 1 .. Len(b) + 1 /\ Len(d) = Len(b)
      BY <1>6, <1>7, <1>9, <2>2, <3>1
    <3>3. /\ heap'[new].keys = InsertAt(b, z, k) /\ heap'[new].vals = InsertAt(d, z, v)
          /\ heap'[n].keys = a /\ heap'[n].vals = c
      BY <1>2, <1>3, <1>8, <2>2, <3>1 DEF LeafParted, LeafValued
    <3>4. Couples(InsertAt(b, z, k), InsertAt(d, z, v)) = Couples(b, d) \cup {<<k, v>>}
      BY <1>5, <1>9, <3>2, CouplesWith
    <3>5. Items(new)' = Couples(InsertAt(b, z, k), InsertAt(d, z, v)) /\ Items(n)' = Couples(a, c)
      BY <3>3 DEF Items, Couples
    <3> QED BY <1>10, <3>4, <3>5
  <2> QED BY <2>1, <2>2
<1>12. /\ \A z \in Allocated \ {n} : heap'[z].level = heap[z].level /\ heap'[z].keys = heap[z].keys
       /\ new \notin Allocated /\ heap'[n].level = 0 /\ heap'[new].level = 0 /\ used' = new
  BY <1>3 DEF LeafParted
<1>13. Allocated' = Allocated \cup {new}
  BY <1>1, <1>4, <1>12, InUse DEF Allocated
<1>14. Leaves' = Leaves \cup {new}
  BY <1>5, <1>12, <1>13 DEF Leaves
<1>15. ASSUME NEW z \in Leaves \ {n} PROVE Items(z)' = Items(z) /\ z # new
  <2>1. z \in Allocated \ {n}
    BY DEF Leaves
  <2>2. Mine(t) \subseteq {n}
    BY <1>1, <1>3 DEF LeafParted, Mine
  <2>3. Same(z)
    BY <2>1, <2>2, StepTree DEF TreeMoves, TreeStep
  <2> QED BY <1>12, <2>1, <2>3 DEF Same, Items
<1>16. Pairs' = Pairs \cup {<<k, v>>}
  <2>1. PICK x : x = <<k, v>>
    OBVIOUS
  <2>2. /\ Leaves' = Leaves \cup {new} /\ Items(n)' \cup Items(new)' = Items(n) \cup {x}
        /\ \A z \in Leaves \ {n} : Items(z)' = Items(z) /\ z # new
    BY <1>11, <1>14, <1>15, <2>1
  <2>3. n \in Leaves
    BY <1>5
  <2>4. /\ Leaves' = Leaves \cup {new} /\ Items(n)' \cup Items(new)' = Items(n) \cup {x}
        /\ \A i \in Leaves \ {n} : Items(i)' = Items(i) /\ i # new
    BY <2>2
  <2> HIDE DEF Leaves, Items
  <2>5. Pairs' = Pairs \cup {x}
    BY <2>3, <2>4, ItemsPut
  <2> QED BY <2>1, <2>5
<1> QED BY <1>1, <1>2, <1>16

Putting(t) == TryInsert(t) \/ SureInsert(t) \/ SureSplit(t)

\* the pairs after a step
LEMMA StepPairs ==
  ASSUME IInv, OInv, PairsExact, PairsExact', NEW t \in Threads, Step(t)
  PROVE  Pairs' = IF Putting(t) THEN Pairs \cup {<<K(t), call[t].arg>>} ELSE Pairs
<1>1. TypeOK /\ TreeTyped /\ TreeOK /\ ThreadTyped
  BY Parts, Typed
<1>2. CASE Putting(t)
  <2>1. CASE TryInsert(t) \/ SureInsert(t)
    <3>1. /\ InLeaf(t) /\ mode[t] # "read" /\ ~Present(t) /\ PutItem(t) /\ UNCHANGED <<used, root>>
      BY <2>1 DEF TryInsert, SureInsert, Inserting
    <3> QED BY <1>2, <3>1, ItemPut
  <2> QED BY <1>2, <2>1, SplitPut DEF Putting
<1>3. CASE ~Changing(t)
  <2>1. UNCHANGED tree
    BY <1>3, QuietSteps
  <2>2. Pairs' = Pairs
    BY <2>1 DEF tree, Pairs, Chained
  <2> QED BY <1>3, <2>2 DEF Putting, Changing
<1>4. CASE FirstLeaf(t)
  <2>1. Leaves = {} /\ ~Putting(t)
    <3>1. root = Null /\ pc[t] = "visit" /\ at[t] = Tree
      BY <1>4 DEF FirstLeaf, Visiting
    <3>2. used = 0
      BY <1>1, <3>1 DEF TreeOK
    <3> QED BY <3>1, <3>2, Constants DEF Leaves, Allocated, Putting, TryInsert, SureInsert, SureSplit,
       Inserting, InLeaf, IsLeaf
  <2>2. Allocated' = {used + 1} /\ heap'[used + 1].keys = <<>>
    <3>1. used = 0 /\ used' = 1 /\ heap' = [heap EXCEPT ![1] = EmptyLeaf] /\ 1 \in Nodes
      BY <1>1, <1>4, Constants DEF FirstLeaf, TreeOK, Nodes
    <3> QED BY <1>1, <3>1 DEF Allocated, EmptyLeaf, Blank, TypeOK
  <2> QED BY <2>1, <2>2, ItemsStay
<1>5. CASE ClimbInsert(t) \/ ClimbSplit(t) \/ NewRoot(t)
  <2>1. pc[t] = "climb" /\ carry[t] # NoChild
    BY <1>5 DEF ClimbInsert, ClimbSplit, NewRoot
  <2>2. ~Putting(t)
    BY <2>1 DEF Putting, TryInsert, SureInsert, SureSplit, Inserting, InLeaf
  <2>3. \A n \in Leaves : n \notin Mine(t)
    <3>1. Mine(t) \subseteq {Top(t).node}
      BY <2>1 DEF Mine
    <3>2. Top(t).node # Tree => heap[Top(t).node].level > 0
      BY <2>1, TopFacts
    <3> QED BY <1>1, <3>1, <3>2, InUse DEF Leaves
  <2>4. ASSUME NEW n \in Allocated', n \notin Allocated PROVE heap'[n].level # 0
    <3>1. CASE ClimbInsert(t)
      BY <2>4, <3>1 DEF ClimbInsert, Allocated
    <3>2. PICK new : new = used + 1
      OBVIOUS
    <3>3. ASSUME used' = new, used < MaxNodes PROVE n = new /\ n \in Nodes
      <4>1. used \in Nat /\ MaxNodes \in Nat
        BY <1>1, InUse, Constants
      <4> QED BY <2>4, <3>2, <3>3, <4>1 DEF Allocated, Nodes
    <3>4. CASE ClimbSplit(t)
      <4>1. PICK m, h : m = Top(t).node /\ h = Halves(heap[m], Top(t).slot, carry[t])
        OBVIOUS
      <4>2. /\ m # Tree /\ InnerFull(m) /\ used < MaxNodes /\ used' = new
            /\ heap' = [heap EXCEPT ![m] = h.left, ![new] = h.right]
        BY <3>2, <3>4, <4>1 DEF ClimbSplit
      <4>3. /\ m \in Nodes /\ heap[m].level > 0 /\ heap[m] \in NodeType /\ heap[m].level \in Int
            /\ Len(heap[m].keys) = InnerSlots /\ Len(heap[m].child) = InnerSlots + 1
            /\ Top(t).slot \in 0 .. InnerSlots /\ carry[t] \in [key : Nat, node : Nodes]
        BY <1>1, <2>1, <4>1, <4>2, TopFacts, ClimbFacts, NodeFacts DEF InnerFull
      <4>4. h.right.level = heap[m].level
        <5>1. PICK node, s, up : node = heap[m] /\ s = Top(t).slot /\ up = carry[t]
          OBVIOUS
        <5>2. Filled(Halves(node, s, up).right, node.level, ChildSet(node) \cup {up.node})
          BY <4>3, <5>1, SplitNode
        <5> QED BY <4>1, <5>1, <5>2 DEF Filled
      <4>5. n = new /\ n \in Nodes
        BY <3>3, <4>2
      <4>6. heap'[n] = h.right
        BY <1>1, <4>2, <4>5 DEF TypeOK
      <4> QED BY <4>3, <4>4, <4>6
    <3>5. CASE NewRoot(t)
      <4>1. used < MaxNodes /\ used' = new
            /\ heap' = [heap EXCEPT ![new] =
                 [Blank EXCEPT !.level = heap[root].level + 1, !.keys = <<carry[t].key>>,
                               !.child = <<root, carry[t].node>>]]
        BY <3>2, <3>5 DEF NewRoot
      <4>2. n = new /\ n \in Nodes
        BY <3>3, <4>1
      <4>3. heap'[n].level = heap[root].level + 1
        BY <1>1, <4>1, <4>2 DEF TypeOK, Blank
      <4>4. root \in Allocated
        BY <1>1, <2>1, ClimbFacts DEF TreeTyped
      <4>5. heap[root].level \in 0 .. used - 1
        BY <1>1, <4>4 DEF TreeOK
      <4> QED BY <4>3, <4>5
    <3> QED BY <1>5, <3>1, <3>4, <3>5
  <2> QED BY <2>2, <2>3, <2>4, ItemsStay
<1> QED BY <1>2, <1>3, <1>4, <1>5 DEF Changing, Putting

-------------------------------------------------------------------------------
(* The map                                                                 *)

\* 0 stands for "not there": nobody inserts it
ValuesGiven == \A c \in PlannedCalls : c.op = "insert" => c.arg # 0

\* MapSpec's calls, and what they saw
MapCall == [t \in Threads |-> IF Pending(t) THEN call[t] ELSE None]
MapSaw == [t \in Threads |->
             IF ~Pending(t) THEN {}
             ELSE IF K(t) \in Contents THEN {p[2] : p \in {q \in Pairs : q[1] = K(t)}}
             ELSE {0}]

\* a call sees the state of its key
SawExact == \A t \in Threads :
              MapSaw[t] = IF Pending(t) THEN {Abstract!State(K(t), Pairs)} ELSE {}

\* the calls are those of the rounds, and what is inserted is not 0
Planned == \A t \in Threads : todo[t] \subseteq PlannedCalls /\ call[t] \in PlannedCalls \cup {None}
Valued == \A p \in Pairs : p[2] # 0

\* the state of a key
LEMMA StateIs ==
  ASSUME PairsExact, NEW k
  PROVE  /\ \A v : <<k, v>> \in Pairs => Abstract!State(k, Pairs) = v
         /\ (\A p \in Pairs : p[1] # k) => Abstract!State(k, Pairs) = 0
<1>1. ASSUME NEW v, <<k, v>> \in Pairs PROVE Abstract!State(k, Pairs) = v
  <2>1. PICK c : c = CHOOSE p \in Pairs : p[1] = k
    OBVIOUS
  <2>2. PICK x : x = <<k, v>>
    OBVIOUS
  <2>3. x \in Pairs /\ x[1] = k /\ x[2] = v
    BY <1>1, <2>2
  <2>4. c \in Pairs /\ c[1] = k
    BY <2>1, <2>3
  <2>5. c = x
    BY <2>3, <2>4 DEF PairsExact
  <2>6. \E p \in Pairs : p[1] = k
    BY <2>3
  <2>7. Abstract!State(k, Pairs) = c[2]
    BY <2>1, <2>6 DEF Abstract!State
  <2> QED BY <2>3, <2>5, <2>7
<1>2. ASSUME \A p \in Pairs : p[1] # k PROVE Abstract!State(k, Pairs) = 0
  BY <1>2 DEF Abstract!State
<1> QED BY <1>1, <1>2

LEMMA SawIs == IInv /\ PairsExact => SawExact
<1> SUFFICES ASSUME IInv, PairsExact, NEW t \in Threads
             PROVE  MapSaw[t] = IF Pending(t) THEN {Abstract!State(K(t), Pairs)} ELSE {}
  BY DEF SawExact
<1>1. CASE ~Pending(t)
  BY <1>1 DEF MapSaw
<1>2. CASE Pending(t)
  <2>1. PICK k : k = K(t)
    OBVIOUS
  <2>2. k \in Contents <=> \E p \in Pairs : p[1] = k
    BY Typed, PairsAre DEF IInv
  <2>3. MapSaw[t] = IF k \in Contents THEN {p[2] : p \in {q \in Pairs : q[1] = k}} ELSE {0}
    BY <1>2, <2>1 DEF MapSaw
  <2>4. MapSaw[t] = {Abstract!State(k, Pairs)}
    <3>1. ASSUME NEW x \in Pairs, x[1] = k PROVE MapSaw[t] = {Abstract!State(k, Pairs)}
      <4>1. x = <<k, x[2]>>
        BY <3>1 DEF PairsExact
      <4>2. Abstract!State(k, Pairs) = x[2]
        BY <3>1, <4>1, StateIs
      <4>3. \A q \in Pairs : q[1] = k => q = x
        BY <3>1 DEF PairsExact
      <4>4. {q \in Pairs : q[1] = k} = {x}
        BY <3>1, <4>3
      <4>5. k \in Contents
        BY <2>2, <3>1
      <4> QED BY <2>3, <4>2, <4>4, <4>5
    <3>2. ASSUME \A p \in Pairs : p[1] # k PROVE MapSaw[t] = {Abstract!State(k, Pairs)}
      <4>1. Abstract!State(k, Pairs) = 0 /\ k \notin Contents
        BY <2>2, <3>2, StateIs
      <4> QED BY <2>3, <4>1
    <3> QED BY <3>1, <3>2
  <2> QED BY <1>2, <2>1, <2>4
<1> QED BY <1>1, <1>2

\* nobody comes to know more than the present
LEMMA MapWatch ==
  ASSUME SawExact'
  PROVE  Abstract!Watch
<1>1. ASSUME NEW t \in Threads
      PROVE  \/ MapSaw'[t] = {}
             \/ MapCall'[t] # None /\ MapSaw'[t] \subseteq
                  MapSaw[t] \cup {Abstract!State(MapCall'[t].key, Pairs')}
  <2>1. CASE ~Pending(t)'
    BY <2>1 DEF SawExact
  <2>2. CASE Pending(t)'
    <3>1. PICK k : k = K(t)'
      OBVIOUS
    <3>2. MapSaw'[t] = {Abstract!State(k, Pairs')}
      BY <2>2, <3>1 DEF SawExact
    <3>3. MapCall'[t] = call'[t]
      BY <2>2 DEF MapCall
    <3>4. MapCall'[t] # None /\ MapCall'[t].key = k
      BY <2>2, <3>1, <3>3 DEF Pending, K
    <3> QED BY <3>2, <3>4
  <2> QED BY <2>1, <2>2
<1> QED BY <1>1 DEF Abstract!Watch, MapCall, MapSaw

\* a step that leaves the calls and the pairs is not seen
LEMMA MapUnseen ==
  ASSUME SawExact, SawExact', MapCall' = MapCall, Pairs' = Pairs, ret' = ret
  PROVE  UNCHANGED Abstract!vars
<1>1. ASSUME NEW t \in Threads PROVE MapSaw'[t] = MapSaw[t]
  <2>1. MapCall[t] = (IF Pending(t) THEN call[t] ELSE None) /\ (Pending(t) => call[t] # None)
    BY DEF MapCall, Pending
  <2>2. MapCall'[t] = (IF Pending(t)' THEN call'[t] ELSE None) /\ (Pending(t)' => call'[t] # None)
    BY DEF MapCall, Pending
  <2>3. Pending(t)' <=> Pending(t)
    BY <2>1, <2>2
  <2>4. Pending(t) => K(t)' = K(t)
    BY <2>1, <2>2, <2>3 DEF K
  <2>5. CASE Pending(t)
    <3>1. PICK k : k = K(t)
      OBVIOUS
    <3>2. MapSaw[t] = {Abstract!State(k, Pairs)}
      BY <2>5, <3>1 DEF SawExact
    <3>3. MapSaw'[t] = {Abstract!State(k, Pairs')}
      BY <2>3, <2>4, <2>5, <3>1 DEF SawExact
    <3> QED BY <3>2, <3>3
  <2>6. CASE ~Pending(t)
    BY <2>3, <2>6 DEF SawExact
  <2> QED BY <2>5, <2>6
<1>2. MapSaw' = MapSaw
  BY <1>1 DEF MapSaw
<1> QED BY <1>2 DEF Abstract!vars, MapCall, MapSaw

\* the calls of the map after a step
LEMMA MapCalls ==
  ASSUME IInv, NEW t \in Threads, Step(t)
  PROVE  /\ MapCall' = [MapCall EXCEPT ![t] = IF Pending(t)' THEN call'[t] ELSE None]
         /\ MapCall[t] = IF Pending(t) THEN call[t] ELSE None
<1>1. \A u \in Threads : u # t => MapCall'[u] = MapCall[u]
  <2>1. \A u \in Threads : u # t => Alone(u)
    BY Typed, OthersAlone DEF IInv
  <2> QED BY <2>1 DEF Alone, MapCall, Pending, Scanning, Op
<1>2. MapCall'[t] = IF Pending(t)' THEN call'[t] ELSE None
  BY DEF MapCall
<1> QED BY <1>1, <1>2 DEF MapCall

\* a call of the map ends with result r
LEMMA MapAnswers ==
  ASSUME IInv, SawExact', NEW t \in Threads, Step(t), ~Pending(t)',
         NEW r, ret' = [ret EXCEPT ![t] = r]
  PROVE  Abstract!Answer(t, r)
<1>1. MapCall' = [MapCall EXCEPT ![t] = None]
  BY MapCalls
<1>2. Abstract!Watch
  BY MapWatch
<1> QED BY <1>1, <1>2 DEF Abstract!Answer, MapCall

-------------------------------------------------------------------------------
(* The calls                                                               *)

\* the calls of a round are planned
LEMMA RoundPlanned == \A i \in 1 .. Len(Work), t \in Threads : Work[i][t] \subseteq PlannedCalls
BY DEF PlannedCalls

LEMMA PlannedInit == Init => Planned
BY RoundPlanned, WorkAssumption DEF Init, Planned

\* a step begins a call, ends one or does neither
LEMMA CallMoves ==
  ASSUME NEW t \in Threads, Step(t)
  PROVE  \/ \E c \in todo[t] : call' = [call EXCEPT ![t] = c] /\ todo' = [todo EXCEPT ![t] = @ \ {c}]
         \/ (call' = call \/ call' = [call EXCEPT ![t] = None]) /\
              (todo' = todo \/ \E c \in todo[t] : todo' = [todo EXCEPT ![t] = @ \ {c}])
<1> USE DEF driver
<1>1. CASE Start(t) \/ ScanNothing(t)
  BY <1>1 DEF Start, ScanNothing, Take
<1>2. CASE ReadLock(t) \/ WriteLock(t) \/ Drain(t) \/ EnterTree(t) \/ FirstLeaf(t)
  BY <1>2 DEF ReadLock, WriteLock, Drain, EnterTree, FirstLeaf
<1>3. CASE ReadEmpty(t) \/ Lookup(t) \/ ScanEnd(t) \/ TryPresent(t) \/ TryInsert(t)
  <2>1. Forget(t)
    BY <1>3 DEF ReadEmpty, Lookup, ScanEnd, TryPresent, TryInsert, Return
  <2> QED BY <2>1 DEF Forget
<1>4. CASE TryEmpty(t) \/ TryRestart(t) \/ UpgradeLost(t)
  BY <1>4 DEF TryEmpty, TryRestart, UpgradeLost, Restart
<1>5. CASE Descend(t) \/ DescendSure(t) \/ ScanOn(t) \/ TryUpgrade(t) \/ UpgradeWon(t) \/ UpgradeDrain(t)
  BY <1>5 DEF Descend, DescendSure, ScanOn, TryUpgrade, UpgradeWon, UpgradeDrain
<1>6. CASE SurePresent(t) \/ SureInsert(t) \/ SureSplit(t)
  BY <1>6 DEF SurePresent, SureInsert, SureSplit, TurnBack
<1>7. CASE ClimbPast(t) \/ ClimbInsert(t) \/ ClimbSplit(t) \/ NewRoot(t)
  <2>1. PICK up : Pop(t, up)
    BY <1>7 DEF ClimbPast, ClimbInsert, ClimbSplit, NewRoot
  <2> QED BY <2>1 DEF Pop, Forget
<1> QED BY <1>1, <1>2, <1>3, <1>4, <1>5, <1>6, <1>7 DEF Step

LEMMA PlannedNext == IInv /\ Planned /\ [Next]_vars => Planned'
<1> SUFFICES ASSUME IInv, Planned, [Next]_vars PROVE Planned'
  OBVIOUS
<1>1. /\ call \in [Threads -> Calls \cup {None}] /\ todo \in [Threads -> SUBSET Calls]
      /\ round \in 1 .. Len(Work) /\ Len(Work) \in Nat
  BY WorkAssumption DEF IInv, TypeOK
<1>2. ASSUME NEW t \in Threads, Step(t) PROVE Planned'
  BY <1>1, <1>2, CallMoves DEF Planned
<1>3. CASE NextRound
  <2>1. round + 1 \in 1 .. Len(Work) /\ todo' = Work[round + 1] /\ call' = call
    BY <1>1, <1>3 DEF NextRound
  <2> QED BY <2>1, RoundPlanned DEF Planned
<1>4. CASE UNCHANGED vars
  BY <1>4 DEF vars, driver, Planned
<1> QED BY <1>2, <1>3, <1>4 DEF Next, Finished

\* an insert puts its pair
LEMMA PuttingInserts ==
  ASSUME IInv, NEW t \in Threads, Putting(t)
  PROVE  InLeaf(t) /\ ~Present(t) /\ Op(t) = "insert" /\ Pending(t) /\ ~Scanning(t)
<1>1. InLeaf(t) /\ mode[t] # "read" /\ ~Present(t)
  BY DEF Putting, TryInsert, SureInsert, SureSplit, Inserting
<1>2. Op(t) = "insert" /\ call[t] # None /\ ~Scanning(t) /\ pc[t] # "climb"
  BY <1>1, InsertMode DEF InLeaf
<1> QED BY <1>1, <1>2 DEF Pending

LEMMA ValuedInit == Init => Valued
BY DEF Init, Valued, Pairs, Chained, Blank

LEMMA ValuedNext ==
  ASSUME ValuesGiven, IInv, OInv, PairsExact, PairsExact', Planned, Valued, [Next]_vars
  PROVE  Valued'
<1>1. ASSUME NEW t \in Threads, Step(t) PROVE Valued'
  <2>1. CASE Putting(t)
    <3>1. Pairs' = Pairs \cup {<<K(t), call[t].arg>>}
      BY <1>1, <2>1, StepPairs
    <3>2. call[t] \in PlannedCalls /\ call[t].op = "insert"
      BY <2>1, PuttingInserts DEF Planned, Pending, Op
    <3>3. call[t].arg # 0
      BY <3>2 DEF ValuesGiven
    <3> QED BY <3>1, <3>3 DEF Valued
  <2>2. CASE ~Putting(t)
    BY <1>1, <2>2, StepPairs DEF Valued
  <2> QED BY <2>1, <2>2
<1>2. CASE NextRound \/ UNCHANGED vars
  BY <1>2 DEF NextRound, vars, tree, Valued, Pairs, Chained
<1> QED BY <1>1, <1>2 DEF Next, Finished

-------------------------------------------------------------------------------
(* The steps that the map sees                                             *)

Answers(t) == (ReadEmpty(t) /\ ~Scanning(t)) \/ Lookup(t) \/ TryPresent(t) \/ SurePresent(t) \/ Putting(t)

\* and those it does not
LEMMA NotSeen ==
  ASSUME IInv, NEW t \in Threads, Step(t), ~Start(t), ~Answers(t)
  PROVE  ret' = ret /\ MapCall' = MapCall
<1> USE DEF driver, place
<1>0. /\ ThreadTyped /\ PlaceOK(t)
      /\ call \in [Threads -> Calls \cup {None}] /\ pc \in [Threads -> Places]
  BY Typed, Parts DEF IInv, ThreadTyped
<1> DEFINE Goes == call' = call /\ pc[t] # "climb" /\ pc'[t] # "climb"
           Quiet == ~Pending(t) /\ ~Pending(t)'
<1>1. ret' = ret /\ (Goes \/ Quiet)
  <2>1. CASE ScanNothing(t)
    BY <2>1 DEF ScanNothing
  <2>2. CASE ReadLock(t) \/ WriteLock(t) \/ Drain(t)
    BY <1>0, <2>2 DEF ReadLock, WriteLock, Drain, Goto
  <2>3. CASE EnterTree(t) \/ FirstLeaf(t) \/ TryEmpty(t)
    BY <1>0, <2>3 DEF EnterTree, FirstLeaf, TryEmpty, Restart, Approach, Goto, Visiting
  <2>4. CASE ReadEmpty(t) \/ ScanEnd(t)
    <3>1. Forget(t) /\ Scanning(t) /\ ret' = ret
      BY <2>4 DEF ReadEmpty, ScanEnd, Answers
    <3> QED BY <1>0, <3>1 DEF Forget, Pending
  <2>5. CASE Descend(t) \/ DescendSure(t) \/ ScanOn(t)
    BY <1>0, <2>5 DEF Descend, DescendSure, ScanOn, Approach, Goto, InInner, InLeaf
  <2>6. CASE TryUpgrade(t) \/ TryRestart(t)
    BY <1>0, <2>6 DEF TryUpgrade, TryRestart, Restart, Approach, Goto, Inserting, InLeaf
  <2>7. CASE UpgradeLost(t) \/ UpgradeWon(t) \/ UpgradeDrain(t)
    BY <1>0, <2>7 DEF UpgradeLost, UpgradeWon, UpgradeDrain, Restart, Approach, Goto
  <2>8. CASE ClimbPast(t) \/ ClimbInsert(t) \/ ClimbSplit(t) \/ NewRoot(t)
    <3>1. PICK up : Pop(t, up)
      BY <2>8 DEF ClimbPast, ClimbInsert, ClimbSplit, NewRoot
    <3>2. pc[t] = "climb" /\ ret' = ret /\ (Forget(t) \/ UNCHANGED <<pc, call>>)
      BY <3>1 DEF Pop
    <3> QED BY <1>0, <3>2 DEF Forget, Pending
  <2> HIDE DEF Goes, Quiet
  <2> QED BY <2>1, <2>2, <2>3, <2>4, <2>5, <2>6, <2>7, <2>8 DEF Step, Answers, Putting
<1>2. MapCall'[t] = MapCall[t]
  <2>1. Goes => Pending(t)' = Pending(t) /\ call'[t] = call[t]
    BY DEF Pending, Scanning, Op
  <2> QED BY <1>1, <2>1 DEF MapCall
<1>3. MapCall' = [MapCall EXCEPT ![t] = MapCall'[t]]
  BY MapCalls DEF MapCall
<1>4. MapCall' = MapCall
  BY <1>2, <1>3 DEF MapCall
<1> QED BY <1>1, <1>4

MapInv == IInv /\ OInv /\ PairsExact /\ SawExact /\ Planned /\ Valued

\* a call of the map sees the state of its key
LEMMA MapSees ==
  ASSUME MapInv, NEW t \in Threads, Pending(t), NEW k, k = K(t)
  PROVE  /\ MapCall[t] = call[t] /\ MapCall[t].key = k /\ MapCall[t].op = Op(t)
         /\ MapSaw[t] = {Abstract!State(k, Pairs)}
BY DEF MapInv, SawExact, MapCall, K, Op

\* the pairs, after a step that puts none
LEMMA PairsStay ==
  ASSUME MapInv, MapInv', NEW t \in Threads, Step(t), ~Putting(t)
  PROVE  Pairs' = Pairs
BY StepPairs DEF MapInv

\* a call begins: that of a scan is not seen
LEMMA MapBegins ==
  ASSUME MapInv, MapInv', NEW t \in Threads, Step(t), Start(t)
  PROVE  Abstract!Next \/ UNCHANGED Abstract!vars
<1>1. /\ IInv /\ PlaceOK(t) /\ pc[t] = "idle" /\ call \in [Threads -> Calls \cup {None}]
      /\ pc \in [Threads -> Places] /\ todo \in [Threads -> SUBSET Calls]
  BY Parts DEF MapInv, Start, IInv, TypeOK
<1>2. PICK c \in todo[t] : call' = [call EXCEPT ![t] = c] /\ pc' = [pc EXCEPT ![t] = "lock"] /\ ret' = ret
  BY DEF Start, Approach, Goto
<1>3. Pairs' = Pairs
  <2>1. ~Putting(t)
    BY <1>1 DEF Putting, TryInsert, SureInsert, SureSplit, Inserting, InLeaf
  <2> QED BY <2>1, PairsStay
<1>4. c \in PlannedCalls /\ c \in Calls /\ call'[t] = c /\ pc'[t] = "lock"
  BY <1>1, <1>2 DEF MapInv, Planned
<1>5. ~Pending(t) /\ MapCall[t] = None
  BY <1>1 DEF PlaceOK, Pending, MapCall
<1>6. c # None
  BY <1>4 DEF Calls, Ops, None
<1>7. MapCall' = [MapCall EXCEPT ![t] = IF Pending(t)' THEN c ELSE None]
  BY <1>1, <1>4, MapCalls
<1>8. CASE Pending(t)'
  <2>1. MapSaw[t] = {}
    BY <1>5 DEF MapInv, SawExact
  <2>2. Abstract!Watch
    BY MapWatch DEF MapInv
  <2>3. Abstract!Invoke(t)
    BY <1>2, <1>3, <1>4, <1>5, <1>7, <1>8, <2>1, <2>2 DEF Abstract!Invoke, MapCall, MapSaw
  <2> QED BY <2>3 DEF Abstract!Next
<1>9. CASE ~Pending(t)'
  <2>1. MapCall' = MapCall
    BY <1>5, <1>7, <1>9 DEF MapCall
  <2> QED BY <1>2, <1>3, <2>1, MapUnseen DEF MapInv
<1> QED BY <1>8, <1>9

\* the answers, by the call they end
LEMMA AnswerEnds ==
  ASSUME MapInv, MapInv', NEW t \in Threads, Step(t)
  PROVE  /\ \A r : Return(t, r) => Abstract!Answer(t, r)
         /\ \A r, up : TurnBack(t, r, up) => Abstract!Answer(t, r)
<1>1. IInv /\ SawExact' /\ call \in [Threads -> Calls \cup {None}] /\ pc \in [Threads -> Places]
  BY DEF MapInv, IInv, TypeOK
<1>2. ASSUME NEW r, Return(t, r) PROVE Abstract!Answer(t, r)
  <2>1. ~Pending(t)' /\ ret' = [ret EXCEPT ![t] = r]
    BY <1>1, <1>2 DEF Return, Forget, Pending
  <2> QED BY <1>1, <2>1, MapAnswers
<1>3. ASSUME NEW r, NEW up, TurnBack(t, r, up) PROVE Abstract!Answer(t, r)
  <2>1. ~Pending(t)' /\ ret' = [ret EXCEPT ![t] = r]
    BY <1>1, <1>3 DEF TurnBack, Goto, Pending
  <2> QED BY <1>1, <2>1, MapAnswers
<1> QED BY <1>2, <1>3

\* an insert that finds its key
LEMMA MapFinds ==
  ASSUME MapInv, MapInv', NEW t \in Threads, Step(t), TryPresent(t) \/ SurePresent(t)
  PROVE  Abstract!Next
<1>1. /\ IInv /\ OInv /\ InLeaf(t) /\ Present(t) /\ mode[t] # "read"
      /\ Return(t, 0) \/ TurnBack(t, 0, NoChild)
  BY DEF MapInv, TryPresent, SurePresent, Inserting
<1>2. ~Scanning(t) /\ Op(t) = "insert" /\ Pending(t) /\ pc[t] = "visit"
  BY <1>1, InsertMode DEF InLeaf, Pending
<1>3. PICK n, k, s : n = at[t] /\ k = K(t) /\ s = SlotIn(n, k)
  OBVIOUS
<1>4. HasAt(n, s, k)
  BY <1>1, <1>3 DEF Present
<1>5. <<k, heap[n].vals[s + 1]>> \in Pairs
  BY <1>1, <1>2, <1>3, <1>4, AtItsItem
<1>6. Abstract!State(k, Pairs) # 0
  <2>1. PICK v : v = heap[n].vals[s + 1]
    OBVIOUS
  <2>2. Abstract!State(k, Pairs) = v
    BY <1>5, <2>1, StateIs DEF MapInv
  <2>3. PICK p : p = <<k, v>>
    OBVIOUS
  <2>4. p \in Pairs /\ p[2] = v
    BY <1>5, <2>1, <2>3
  <2> QED BY <2>2, <2>4 DEF MapInv, Valued
<1>7. MapCall[t].op = "insert" /\ MapSaw[t] \ {0} # {}
  BY <1>2, <1>3, <1>6, MapSees
<1>8. Abstract!Answer(t, 0)
  BY <1>1, AnswerEnds
<1>9. Pairs' = Pairs
  <2>1. ~Putting(t)
    BY <1>1 DEF Putting, TryInsert, SureInsert, SureSplit
  <2> QED BY <2>1, PairsStay
<1>10. Abstract!NotInserted(t)
  BY <1>7, <1>8, <1>9 DEF Abstract!NotInserted, MapCall, MapSaw
<1> QED BY <1>10 DEF Abstract!Next

\* an insert that puts its pair
LEMMA MapInserts ==
  ASSUME MapInv, MapInv', NEW t \in Threads, Step(t), Putting(t)
  PROVE  Abstract!Next
<1>1. IInv /\ OInv /\ InLeaf(t) /\ ~Present(t) /\ Op(t) = "insert" /\ Pending(t) /\ ~Scanning(t)
  BY PuttingInserts DEF MapInv
<1>2. Return(t, 1) \/ \E up : TurnBack(t, 1, up)
  BY DEF Putting, TryInsert, SureInsert, SureSplit
<1>3. PICK n, k, s, v : n = at[t] /\ k = K(t) /\ s = SlotIn(n, k) /\ v = call[t].arg
  OBVIOUS
<1>4. \A p \in Pairs : p[1] # k
  <2>1. ~HasAt(n, s, k)
    BY <1>1, <1>3 DEF Present
  <2> QED BY <1>1, <1>3, <2>1, AtItsItem
<1>5. Abstract!State(k, Pairs) = 0
  BY <1>4, StateIs DEF MapInv
<1>6. MapCall[t].op = "insert" /\ MapCall[t].key = k /\ MapCall[t].arg = v
  BY <1>1, <1>3, MapSees
<1>7. Pairs' = Pairs \cup {<<k, v>>}
  BY <1>3, StepPairs DEF MapInv
<1>8. Abstract!Answer(t, 1)
  BY <1>2, AnswerEnds
<1>9. Abstract!Insert(t)
  BY <1>5, <1>6, <1>7, <1>8 DEF Abstract!Insert, MapCall
<1> QED BY <1>9 DEF Abstract!Next

\* the result r of a lookup that sees x
Told(t, r, x) == (Op(t) = "value" /\ r = x) \/ (Op(t) = "exists" /\ r = IF x = 0 THEN 0 ELSE 1)

LEMMA MapTells ==
  ASSUME MapInv, MapInv', NEW t \in Threads, Step(t), Pending(t), ~Putting(t), NEW k, k = K(t),
         NEW r, Return(t, r), Told(t, r, Abstract!State(k, Pairs))
  PROVE  Abstract!Next
<1>1. Abstract!Answer(t, r)
  BY AnswerEnds
<1>2. PICK x : x = Abstract!State(k, Pairs)
  OBVIOUS
<1>3. MapSaw[t] = {x} /\ MapCall[t].op = Op(t) /\ Told(t, r, x)
  BY <1>2, MapSees
<1>4. Pairs' = Pairs
  BY PairsStay
<1>5. CASE Op(t) = "value"
  <2>1. r = x /\ x \in MapSaw[t]
    BY <1>3, <1>5 DEF Told
  <2>2. Abstract!Value(t)
    BY <1>1, <1>3, <1>4, <1>5, <2>1 DEF Abstract!Value, MapCall, MapSaw
  <2> QED BY <2>2 DEF Abstract!Next
<1>6. CASE Op(t) = "exists"
  <2>1. r = (IF x = 0 THEN 0 ELSE 1) /\ x \in MapSaw[t]
    BY <1>3, <1>6 DEF Told
  <2>2. Abstract!Exists(t)
    BY <1>1, <1>3, <1>4, <1>6, <2>1 DEF Abstract!Exists, MapCall, MapSaw
  <2> QED BY <2>2 DEF Abstract!Next
<1> QED BY <1>3, <1>5, <1>6 DEF Told

\* a lookup at its leaf
LEMMA MapLooksUp ==
  ASSUME MapInv, MapInv', ComparesSlots, NEW t \in Threads, Step(t), Lookup(t)
  PROVE  Abstract!Next
<1>1. IInv /\ OInv /\ InLeaf(t) /\ Op(t) \in {"exists", "value"} /\ TypeOK /\ PlaceOK(t)
  BY Parts DEF MapInv, Lookup
<1>2. ~Scanning(t) /\ Pending(t) /\ ~Putting(t)
  <2>1. ~Scanning(t) /\ pc[t] = "visit" /\ Op(t) # "insert"
    BY <1>1 DEF Scanning, InLeaf
  <2> QED BY <1>1, <2>1, PuttingInserts DEF Pending, PlaceOK
<1>3. PICK n, k, s : n = at[t] /\ k = K(t) /\ s = SlotIn(n, k)
  OBVIOUS
<1>4. PICK r \in IF Op(t) = "value" THEN ValueAt(n, s, k) ELSE ExistsAt(n, s, k) : Return(t, r)
  BY <1>3 DEF Lookup
<1>5. PICK x : x = Abstract!State(k, Pairs)
  OBVIOUS
<1>6. CASE HasAt(n, s, k)
  <2>1. PICK v : v = heap[n].vals[s + 1]
    OBVIOUS
  <2>2. <<k, v>> \in Pairs
    BY <1>1, <1>2, <1>3, <1>6, <2>1, AtItsItem
  <2>3. x = v
    BY <1>5, <2>2, StateIs DEF MapInv
  <2>4. v # 0
    <3>1. PICK p : p = <<k, v>>
      OBVIOUS
    <3>2. p \in Pairs /\ p[2] = v
      BY <2>2, <3>1
    <3> QED BY <3>2 DEF MapInv, Valued
  <2>5. (Op(t) = "value" => r = v) /\ (Op(t) = "exists" => r = 1)
    BY <1>4, <1>6, <2>1 DEF ValueAt, ExistsAt
  <2>6. Told(t, r, x)
    BY <1>1, <2>3, <2>4, <2>5 DEF Told
  <2> QED BY <1>2, <1>3, <1>4, <1>5, <2>6, MapTells
<1>7. CASE ~HasAt(n, s, k)
  <2>1. \A p \in Pairs : p[1] # k
    BY <1>1, <1>2, <1>3, <1>7, AtItsItem
  <2>2. x = 0
    BY <1>5, <2>1, StateIs DEF MapInv
  <2>3. Op(t) = "value" => s < LeafSlots
    BY <1>1, <1>3 DEF ComparesSlots
  <2>4. r = 0
    BY <1>1, <1>4, <1>7, <2>3 DEF ValueAt, ExistsAt
  <2>5. Told(t, r, x)
    BY <1>1, <2>2, <2>4 DEF Told
  <2> QED BY <1>2, <1>3, <1>4, <1>5, <2>5, MapTells
<1> QED BY <1>6, <1>7

\* a lookup of an empty tree
LEMMA MapFindsNothing ==
  ASSUME MapInv, MapInv', NEW t \in Threads, Step(t), ReadEmpty(t), ~Scanning(t)
  PROVE  Abstract!Next
<1>1. /\ IInv /\ TreeTyped /\ TreeOK /\ PlaceOK(t) /\ TypeOK
      /\ pc[t] = "visit" /\ at[t] = Tree /\ root = Null /\ mode[t] = "read" /\ Return(t, 0)
  BY Parts DEF MapInv, ReadEmpty, Visiting
<1>2. Pending(t) /\ ~Putting(t)
  <2>1. ~IsLeaf(at[t])
    BY <1>1, Constants DEF IsLeaf
  <2> QED BY <1>1, <2>1 DEF Pending, PlaceOK, Putting, TryInsert, SureInsert, SureSplit, Inserting,
       InLeaf
<1>3. Op(t) \in {"exists", "value"}
  <2>1. call[t] # None
    BY <1>2 DEF Pending
  <2>2. Op(t) \in Ops
    BY <1>1, <2>1, CallFacts DEF Op, Calls
  <2>3. Op(t) # "insert"
    BY <1>1, InsertMode
  <2> QED BY <2>2, <2>3 DEF Ops, Scanning
<1>4. PICK k : k = K(t)
  OBVIOUS
<1>5. Abstract!State(k, Pairs) = 0
  <2>1. used = 0
    BY <1>1 DEF TreeOK
  <2>2. Leaves = {}
    BY <2>1 DEF Leaves, Allocated
  <2>3. Pairs = {}
    BY <1>1, <2>2, PairsAre
  <2> QED BY <2>3, StateIs DEF MapInv
<1>6. Told(t, 0, Abstract!State(k, Pairs))
  BY <1>3, <1>5 DEF Told
<1> QED BY <1>1, <1>2, <1>4, <1>6, MapTells

\* every step is a step of MapSpec or stutters
LEMMA MapNext ==
  ASSUME MapInv, MapInv', ComparesSlots, [Next]_vars
  PROVE  Abstract!Next \/ UNCHANGED Abstract!vars
<1>1. ASSUME NEW t \in Threads, Step(t) PROVE Abstract!Next \/ UNCHANGED Abstract!vars
  <2>1. CASE Start(t)
    BY <1>1, <2>1, MapBegins
  <2>2. CASE Answers(t)
    BY <1>1, <2>2, MapFindsNothing, MapLooksUp, MapFinds, MapInserts DEF Answers
  <2>3. CASE ~Start(t) /\ ~Answers(t)
    <3>1. ret' = ret /\ MapCall' = MapCall
      BY <1>1, <2>3, NotSeen DEF MapInv
    <3>2. Pairs' = Pairs
      BY <1>1, <2>3, PairsStay DEF Answers
    <3> QED BY <3>1, <3>2, MapUnseen DEF MapInv
  <2> QED BY <2>1, <2>2, <2>3
<1>2. CASE NextRound \/ UNCHANGED vars
  <2>1. UNCHANGED <<tree, pc, call, ret>>
    BY <1>2 DEF NextRound, vars
  <2>2. Pairs' = Pairs /\ MapCall' = MapCall /\ ret' = ret
    BY <2>1 DEF tree, Pairs, Chained, MapCall, Pending, Scanning, Op
  <2> QED BY <2>2, MapUnseen DEF MapInv
<1> QED BY <1>1, <1>2 DEF Next, Finished

\* the empty tree is the empty map
LEMMA MapInit == Init => Abstract!Init
<1> SUFFICES ASSUME Init PROVE Abstract!Init
  OBVIOUS
<1>1. Pairs = {}
  BY DEF Init, Pairs, Chained, Blank
<1>2. \A t \in Threads : ~Pending(t)
  BY DEF Init, Pending
<1>3. MapCall = [t \in Threads |-> None] /\ MapSaw = [t \in Threads |-> {}]
      /\ ret = [t \in Threads |-> 0]
  BY <1>2 DEF Init, MapCall, MapSaw
<1> QED BY <1>1, <1>3 DEF Abstract!Init, MapCall, MapSaw

(* The B+ tree is a map, for any threads, calls and sizes of nodes: insert, *)
(* exists and value take effect at one moment each and answer with the      *)
(* state of that moment, through the splits that other inserts carry up and *)
(* their own second attempts - as long as value compares keys in the slots  *)
(* of its leaf only (that it does not is a finding) and nobody inserts 0,   *)
(* which stands for "not there".                                            *)
THEOREM MapRefined == ValuesGiven /\ Spec /\ []ComparesSlots => ImplementsMap
<1> SUFFICES ASSUME ValuesGiven PROVE Spec /\ []ComparesSlots => ImplementsMap
  OBVIOUS
<1>1. Spec => [](IInv /\ OInv)
  BY Inductive, OrderInductive, PTL
<1>2. IInv /\ OInv => PairsExact
  BY PairsRight
<1>3. IInv /\ PairsExact => SawExact
  BY SawIs
<1>4. Init => Planned /\ Valued
  BY PlannedInit, ValuedInit
<1>5. IInv /\ Planned /\ [Next]_vars => Planned'
  BY PlannedNext
<1>6. IInv /\ OInv /\ PairsExact /\ PairsExact' /\ Planned /\ Valued /\ [Next]_vars => Valued'
  BY ValuedNext
<1>7. Spec => []MapInv
  BY <1>1, <1>2, <1>3, <1>4, <1>5, <1>6, PTL DEF Spec, MapInv
<1>8. MapInv /\ MapInv' /\ ComparesSlots /\ [Next]_vars => [Abstract!Next]_(Abstract!vars)
  BY MapNext
<1> QED BY <1>7, <1>8, MapInit, PTL DEF Spec, ImplementsMap, Abstract!Spec

\* nobody asks for values
NoValues == \A c \in PlannedCalls : c.op # "value"

(* ... and with no hypothesis on its behaviour when nobody calls value: as *)
(* a set of keys, by insert and exists, it is right up to its last slots.   *)
THEOREM SetRefined == ValuesGiven /\ NoValues /\ Spec => ImplementsMap
<1> SUFFICES ASSUME ValuesGiven, NoValues PROVE Spec => ImplementsMap
  OBVIOUS
<1>1. Planned => ComparesSlots
  <2> SUFFICES ASSUME Planned, NEW t \in Threads, Op(t) = "value" PROVE FALSE
    BY DEF ComparesSlots
  <2>1. call[t] \in PlannedCalls
    BY DEF Planned, Op, None
  <2> QED BY <2>1 DEF NoValues, Op
<1>2. Init => Planned
  BY PlannedInit
<1>3. IInv /\ Planned /\ [Next]_vars => Planned'
  BY PlannedNext
<1>4. Spec => []Planned
  BY <1>2, <1>3, Inductive, PTL DEF Spec
<1>5. Spec /\ []ComparesSlots => ImplementsMap
  BY MapRefined
<1> QED BY <1>1, <1>4, <1>5, PTL
=============================================================================
