-------------------------------- MODULE BTree --------------------------------
(***************************************************************************)
(* The concurrent B+ tree of btree/tlx-plain/container/btree.hpp as a map: *)
(* insert, exists, value, map_range and map_range_length called by several *)
(* threads.  (erase is not modelled.)                                      *)
(*                                                                         *)
(* A lookup goes down hand over hand with read locks.  An insert first     *)
(* tries that too and locks only its leaf for writing; if the leaf is full *)
(* it lets it go and upgrades its lock on the leaf's parent, and if that   *)
(* fails or the parent is full as well it starts again with write locks on *)
(* the whole way down, held until the splits have come back up.            *)
(*                                                                         *)
(* Locks are the reader-writer locks of RWLockSpec without the names of    *)
(* their holders, one per node and one for root_ (Tree).  A step of a      *)
(* thread is a lock operation that can wait, or all it does up to the next *)
(* one or, on the way back up, up to the next unlock.                      *)
(***************************************************************************)
EXTENDS Integers, FiniteSets, Sequences, SequencesExt

CONSTANTS Threads,
          LeafSlots,    \* leaf_slotmax
          InnerSlots,   \* inner_slotmax
          Work,         \* the rounds: the calls each thread makes in a round
          MaxNodes      \* bound on the nodes allocated

ASSUME SlotsAssumption == /\ LeafSlots \in Nat /\ LeafSlots > 1
                          /\ InnerSlots \in Nat /\ InnerSlots > 1
ASSUME NodesAssumption == MaxNodes \in Nat
ASSUME ThreadsAssumption == IsFiniteSet(Threads)

Nodes == 1 .. MaxNodes
Tree == 0             \* the mutex of the tree
Null == -1

Ops == {"insert", "exists", "value", "range", "length"}
\* arg is the value to insert, the end of map_range, the length of map_range_length
Calls == [op : Ops, key : Nat \ {0}, arg : Nat]
None == [op |-> "none", key |-> 0, arg |-> 0]

ASSUME WorkAssumption == /\ Work \in Seq([Threads -> SUBSET Calls])
                         /\ Len(Work) > 0

VARIABLES heap,              \* the nodes
          used,              \* nodes 1 .. used are allocated
          root, head, tail,  \* root_, head_leaf_, tail_leaf_
          writer,            \* the writer flag of each lock
          readers,           \* the readers inside each lock
          pc,                \* idle, lock, drain, visit, upgrade, updrain or climb
          call,              \* the call a thread is in
          mode,              \* read, try (optimistic insert) or sure (pessimistic)
          at,                \* the node it locks or has just locked
          path,              \* locks it holds on the way there, with the slots taken
          carry,             \* newkey and newchild, for the parent
          seen,              \* what f was applied to, in order
          ret,               \* the last result: 0 for false and {}
          round, todo,
          must               \* history: keys in the leaves when a scan started

tree == <<heap, used, root, head, tail>>
locks == <<writer, readers>>
place == <<at, path>>
driver == <<round, todo>>
vars == <<tree, locks, pc, call, mode, place, carry, seen, ret, driver, must>>

Op(t) == call[t].op
K(t) == call[t].key
Scanning(t) == Op(t) \in {"range", "length"}

Blank == [level |-> -1, keys |-> <<>>, vals |-> <<>>, child |-> <<>>, next |-> Null, prev |-> Null]
EmptyLeaf == [Blank EXCEPT !.level = 0]
NoChild == [key |-> 0, node |-> Null]
Frame(n, s) == [node |-> n, slot |-> s]

IsLeaf(n) == n \in Nodes /\ heap[n].level = 0
LeafFull(n) == Len(heap[n].keys) = LeafSlots
InnerFull(n) == Len(heap[n].keys) = InnerSlots
Chained == {n \in Nodes : heap[n].level = 0 /\ heap[n].keys # <<>>}
KeysOf(n) == {heap[n].keys[i] : i \in 1 .. Len(heap[n].keys)}
Contents == UNION {KeysOf(n) : n \in Chained}

\* find_lower: the first slot whose key is not below k.  The slots of a node
\* are numbered from 0, the elements of a sequence from 1.
FindLower(keys, k) == Cardinality({i \in 1 .. Len(keys) : keys[i] < k})
SlotIn(n, k) == FindLower(heap[n].keys, k)
ChildAt(n, s) == heap[n].child[s + 1]
HasAt(n, s, k) == s < Len(heap[n].keys) /\ heap[n].keys[s + 1] = k

Init == /\ heap = [n \in Nodes |-> Blank]
        /\ used = 0
        /\ root = Null /\ head = Null /\ tail = Null
        /\ writer = [n \in Nodes \cup {Tree} |-> FALSE]
        /\ readers = [n \in Nodes \cup {Tree} |-> 0]
        /\ pc = [t \in Threads |-> "idle"]
        /\ call = [t \in Threads |-> None]
        /\ mode = [t \in Threads |-> "read"]
        /\ at = [t \in Threads |-> Null]
        /\ path = [t \in Threads |-> <<>>]
        /\ carry = [t \in Threads |-> NoChild]
        /\ seen = [t \in Threads |-> <<>>]
        /\ ret = [t \in Threads |-> 0]
        /\ round = 1
        /\ todo = Work[1]
        /\ must = [t \in Threads |-> {}]

-------------------------------------------------------------------------------
(* Locks                                                                   *)

ForWriting(t, n) == mode[t] = "sure" \/ (mode[t] = "try" /\ IsLeaf(n))

Goto(t, where) == pc' = [pc EXCEPT ![t] = where]

\* go and lock n, holding the locks of frames
Approach(t, n, frames) == /\ Goto(t, "lock")
                          /\ at' = [at EXCEPT ![t] = n]
                          /\ path' = [path EXCEPT ![t] = frames]

ReadLock(t) == /\ pc[t] = "lock"
               /\ ~ForWriting(t, at[t])
               /\ ~writer[at[t]]
               /\ readers' = [readers EXCEPT ![at[t]] = @ + 1]
               /\ Goto(t, "visit")
               /\ UNCHANGED <<tree, writer, call, mode, place, carry, seen, ret, driver, must>>

\* write_lock: take the flag ...
WriteLock(t) == /\ pc[t] = "lock"
                /\ ForWriting(t, at[t])
                /\ ~writer[at[t]]
                /\ writer' = [writer EXCEPT ![at[t]] = TRUE]
                /\ Goto(t, "drain")
                /\ UNCHANGED <<tree, readers, call, mode, place, carry, seen, ret, driver, must>>

\* ... and wait for the readers that are inside
Drain(t) == /\ pc[t] = "drain"
            /\ readers[at[t]] = 0
            /\ Goto(t, "visit")
            /\ UNCHANGED <<tree, locks, call, mode, place, carry, seen, ret, driver, must>>

\* the locks held on the way to at: of a thread in mode try or read at most one
Held(t) == {path[t][i].node : i \in 1 .. Len(path[t])}

\* read_unlock the locks in R, write_unlock those in W
Release(R, W) == /\ readers' = [n \in DOMAIN readers |-> readers[n] - IF n \in R THEN 1 ELSE 0]
                 /\ writer' = [n \in DOMAIN writer |-> writer[n] /\ n \notin W]

-------------------------------------------------------------------------------
(* Calls                                                                   *)

Forget(t) == /\ Goto(t, "idle")
             /\ call' = [call EXCEPT ![t] = None]
             /\ mode' = [mode EXCEPT ![t] = "read"]
             /\ at' = [at EXCEPT ![t] = Null]
             /\ path' = [path EXCEPT ![t] = <<>>]
             /\ must' = [must EXCEPT ![t] = {}]
             /\ UNCHANGED driver

Return(t, r) == /\ Forget(t)
                /\ ret' = [ret EXCEPT ![t] = r]
                /\ UNCHANGED <<carry, seen>>

\* insert_start<false>, after an attempt that has let go of all its locks
Restart(t) == /\ Approach(t, Tree, <<>>)
              /\ mode' = [mode EXCEPT ![t] = "sure"]
              /\ UNCHANGED <<call, carry, seen, ret, driver, must>>

\* map_range of an empty range and map_range_length of nothing do nothing
Vacuous(c) == \/ c.op = "range" /\ c.key = c.arg
              \/ c.op = "length" /\ c.arg = 0

Take(t, c) == c \in todo[t] /\ todo' = [todo EXCEPT ![t] = @ \ {c}]

Start(t) == \E c \in todo[t] :
  /\ pc[t] = "idle"
  /\ Take(t, c)
  /\ ~Vacuous(c)
  /\ call' = [call EXCEPT ![t] = c]
  /\ mode' = [mode EXCEPT ![t] = IF c.op = "insert" THEN "try" ELSE "read"]
  /\ seen' = [seen EXCEPT ![t] = <<>>]
  /\ must' = [must EXCEPT ![t] = IF c.op \in {"range", "length"} THEN Contents ELSE {}]
  /\ Approach(t, Tree, <<>>)
  /\ UNCHANGED <<tree, locks, carry, ret, round>>

ScanNothing(t) == \E c \in todo[t] :
  /\ pc[t] = "idle"
  /\ Take(t, c)
  /\ Vacuous(c)
  /\ seen' = [seen EXCEPT ![t] = <<>>]
  /\ UNCHANGED <<tree, locks, pc, call, mode, place, carry, ret, round, must>>

-------------------------------------------------------------------------------
(* The way down                                                            *)

Visiting(t, n) == pc[t] = "visit" /\ at[t] = n

EnterTree(t) == /\ Visiting(t, Tree)
                /\ root # Null
                /\ Approach(t, root, <<Frame(Tree, 0)>>)
                /\ UNCHANGED <<tree, locks, call, mode, carry, seen, ret, driver, must>>

\* there is no root: nothing to find
ReadEmpty(t) == /\ Visiting(t, Tree)
                /\ root = Null
                /\ mode[t] = "read"
                /\ Release({Tree}, {})
                /\ IF Scanning(t)
                   THEN Forget(t) /\ UNCHANGED <<carry, seen, ret>>
                   ELSE Return(t, 0)
                /\ UNCHANGED tree

\* (faulty variant: does not unlock)
TryEmptyKeepingLock(t) == /\ Visiting(t, Tree)
                          /\ root = Null
                          /\ mode[t] = "try"
                          /\ Restart(t)
                          /\ UNCHANGED <<tree, locks>>

\* ... an insert needs the lock for writing ...
TryEmpty(t) == /\ Visiting(t, Tree)
               /\ root = Null
               /\ mode[t] = "try"
               /\ Release({Tree}, {})
               /\ Restart(t)
               /\ UNCHANGED tree

\* ... and makes the first leaf
FirstLeaf(t) == /\ Visiting(t, Tree)
                /\ root = Null
                /\ mode[t] = "sure"
                /\ used < MaxNodes
                /\ used' = used + 1
                /\ heap' = [heap EXCEPT ![used + 1] = EmptyLeaf]
                /\ root' = used + 1 /\ head' = used + 1 /\ tail' = used + 1
                /\ Approach(t, used + 1, <<Frame(Tree, 0)>>)
                /\ UNCHANGED <<locks, call, mode, carry, seen, ret, driver, must>>

InInner(t) == pc[t] = "visit" /\ at[t] \in Nodes /\ heap[at[t]].level > 0
InLeaf(t) == pc[t] = "visit" /\ IsLeaf(at[t])

\* with read locks: release the parent, take the child the key is below
Descend(t) == LET n == at[t]
                  s == SlotIn(n, K(t))
              IN /\ InInner(t)
                 /\ mode[t] \in {"read", "try"}
                 /\ Release(Held(t), {})
                 /\ Approach(t, ChildAt(n, s), <<Frame(n, s)>>)
                 /\ UNCHANGED <<tree, call, mode, carry, seen, ret, driver, must>>

\* with write locks: keep them all
DescendSure(t) == LET n == at[t]
                      s == SlotIn(n, K(t))
                  IN /\ InInner(t)
                     /\ mode[t] = "sure"
                     /\ Approach(t, ChildAt(n, s), Append(path[t], Frame(n, s)))
                     /\ UNCHANGED <<tree, locks, call, mode, carry, seen, ret, driver, must>>

-------------------------------------------------------------------------------
(* Lookups and scans at the leaf                                           *)

Stray == -1   \* what may be found in memory behind the slots of a leaf

\* value compares the key in the slot found without asking whether there is one
\* (an unused slot holds key 0); behind the last slot the outcome is anything
ValueAt(n, s, k) == CASE HasAt(n, s, k) -> {heap[n].vals[s + 1]}
                      [] ~HasAt(n, s, k) /\ s < LeafSlots -> {0}
                      [] OTHER -> {0, Stray}

ExistsAt(n, s, k) == {IF HasAt(n, s, k) THEN 1 ELSE 0}

Lookup(t) == LET n == at[t]
                 s == SlotIn(n, K(t))
             IN /\ InLeaf(t)
                /\ Op(t) \in {"exists", "value"}
                /\ \E r \in (IF Op(t) = "value" THEN ValueAt(n, s, K(t)) ELSE ExistsAt(n, s, K(t))) :
                     Return(t, r)
                /\ Release(Held(t) \cup {n}, {})
                /\ UNCHANGED tree

\* (faulty variant: the end of map_range is one of its keys)
EndSlotInclusive(t, n) ==
  IF Op(t) = "range" THEN SlotIn(n, call[t].arg + 1)
  ELSE LET s == SlotIn(n, K(t)) + call[t].arg - Len(seen[t])
       IN IF s < Len(heap[n].keys) THEN s ELSE Len(heap[n].keys)

\* the slot a scan of leaf n ends before: map_range at the first key not below
\* its end, map_range_length when it has its length
EndSlot(t, n) ==
  IF Op(t) = "range" THEN SlotIn(n, call[t].arg)
  ELSE LET s == SlotIn(n, K(t)) + call[t].arg - Len(seen[t])
       IN IF s < Len(heap[n].keys) THEN s ELSE Len(heap[n].keys)

Apply(t, n) ==
  LET s == SlotIn(n, K(t)) IN
  seen' = [seen EXCEPT ![t] = @ \o [i \in 1 .. EndSlot(t, n) - s |->
             <<heap[n].keys[s + i], heap[n].vals[s + i]>>]]

MovesOn(t, n) == /\ EndSlot(t, n) = Len(heap[n].keys)
                 /\ heap[n].next # Null
                 /\ Op(t) = "length" =>
                      Len(seen[t]) + EndSlot(t, n) - SlotIn(n, K(t)) < call[t].arg

\* lock the next leaf before this one is released
ScanOn(t) == LET n == at[t] IN
             /\ InLeaf(t)
             /\ Scanning(t)
             /\ MovesOn(t, n)
             /\ Apply(t, n)
             /\ Release(Held(t), {})
             /\ Approach(t, heap[n].next, <<Frame(n, 0)>>)
             /\ UNCHANGED <<tree, call, mode, carry, ret, driver, must>>

ScanEnd(t) == LET n == at[t] IN
              /\ InLeaf(t)
              /\ Scanning(t)
              /\ ~MovesOn(t, n)
              /\ Apply(t, n)
              /\ Release(Held(t) \cup {n}, {})
              /\ Forget(t)
              /\ UNCHANGED <<tree, carry, ret>>

-------------------------------------------------------------------------------
(* insert at the leaf, optimistically                                      *)

\* copy_backward and the new item at slot s
WithItem(node, s, k, v) == [node EXCEPT !.keys = InsertAt(@, s + 1, k),
                                        !.vals = InsertAt(@, s + 1, v)]

Inserting(t, how) == InLeaf(t) /\ mode[t] = how
\* (faulty variant: a key absent at the first attempt is absent)
PresentAtFirst(t) == mode[t] = "try" /\ HasAt(at[t], SlotIn(at[t], K(t)), K(t))

Present(t) == HasAt(at[t], SlotIn(at[t], K(t)), K(t))
PutItem(t) == heap' = [heap EXCEPT ![at[t]] = WithItem(@, SlotIn(at[t], K(t)), K(t), call[t].arg)]
Parent(t) == path[t][Len(path[t])].node

\* (faulty variant: unlocks the leaf as a reader)
TryPresentAsReader(t) == /\ Inserting(t, "try")
                         /\ Present(t)
                         /\ Release(Held(t) \cup {at[t]}, {})
                         /\ Return(t, 0)
                         /\ UNCHANGED tree

TryPresent(t) == /\ Inserting(t, "try")
                 /\ Present(t)
                 /\ Release(Held(t), {at[t]})
                 /\ Return(t, 0)
                 /\ UNCHANGED tree

TryInsert(t) == /\ Inserting(t, "try")
                /\ ~Present(t)
                /\ ~LeafFull(at[t])
                /\ PutItem(t)
                /\ Release(Held(t), {at[t]})
                /\ Return(t, 1)
                /\ UNCHANGED <<used, root, head, tail>>

\* the leaf's parent is of level 1 and has room: keep it, let the leaf go
TryUpgrade(t) == /\ Inserting(t, "try")
                 /\ ~Present(t)
                 /\ LeafFull(at[t])
                 /\ Parent(t) # Tree /\ ~InnerFull(Parent(t))
                 /\ Release({}, {at[t]})
                 /\ Goto(t, "upgrade")
                 /\ UNCHANGED <<tree, call, mode, place, carry, seen, ret, driver, must>>

TryRestart(t) == /\ Inserting(t, "try")
                 /\ ~Present(t)
                 /\ LeafFull(at[t])
                 /\ Parent(t) # Tree => InnerFull(Parent(t))
                 /\ Release(Held(t), {at[t]})
                 /\ Restart(t)
                 /\ UNCHANGED tree

\* (faulty variant: keeps the read lock when it fails)
UpgradeLostKeepingLock(t) == /\ pc[t] = "upgrade"
                             /\ writer[Parent(t)]
                             /\ Restart(t)
                             /\ UNCHANGED <<tree, locks>>

\* try_upgrade_release_on_fail: another writer has announced itself ...
UpgradeLost(t) == /\ pc[t] = "upgrade"
                  /\ writer[Parent(t)]
                  /\ Release(Held(t), {})
                  /\ Restart(t)
                  /\ UNCHANGED tree

\* ... or take the flag, leave the readers ...
UpgradeWon(t) == /\ pc[t] = "upgrade"
                 /\ ~writer[Parent(t)]
                 /\ writer' = [writer EXCEPT ![Parent(t)] = TRUE]
                 /\ readers' = [readers EXCEPT ![Parent(t)] = @ - 1]
                 /\ mode' = [mode EXCEPT ![t] = "sure"]
                 /\ Goto(t, "updrain")
                 /\ UNCHANGED <<tree, call, place, carry, seen, ret, driver, must>>

\* (faulty variant: does not wait for them)
UpgradeDrainNobody(t) ==
  /\ pc[t] = "updrain"
  /\ Approach(t, ChildAt(Parent(t), path[t][1].slot), path[t])
  /\ UNCHANGED <<tree, locks, call, mode, carry, seen, ret, driver, must>>

\* ... wait for the others, and go to the child in the slot found before
UpgradeDrain(t) == /\ pc[t] = "updrain"
                   /\ readers[Parent(t)] = 0
                   /\ Approach(t, ChildAt(Parent(t), path[t][1].slot), path[t])
                   /\ UNCHANGED <<tree, locks, call, mode, carry, seen, ret, driver, must>>

-------------------------------------------------------------------------------
(* insert at the leaf with the locks above it                              *)

\* unlock the leaf and take the outcome up
TurnBack(t, r, up) == /\ Release({}, {at[t]})
                      /\ Goto(t, "climb")
                      /\ at' = [at EXCEPT ![t] = Null]
                      /\ carry' = [carry EXCEPT ![t] = up]
                      /\ ret' = [ret EXCEPT ![t] = r]
                      /\ UNCHANGED <<call, mode, path, seen, driver, must>>

SurePresent(t) == /\ Inserting(t, "sure")
                  /\ Present(t)
                  /\ TurnBack(t, 0, NoChild)
                  /\ UNCHANGED tree

SureInsert(t) == /\ Inserting(t, "sure")
                 /\ ~Present(t)
                 /\ ~LeafFull(at[t])
                 /\ PutItem(t)
                 /\ TurnBack(t, 1, NoChild)
                 /\ UNCHANGED <<used, root, head, tail>>

\* (faulty variant: the leaf behind keeps its back link)
RelinkedNot(n, new) == heap

\* the leaf behind n points back at new
Relinked(n, new) == [m \in Nodes |-> IF m = heap[n].next THEN [heap[m] EXCEPT !.prev = new]
                                     ELSE heap[m]]

\* split_leaf_node: the second half goes to a new leaf behind it, and the new
\* item to the half its slot is in
SureSplit(t) ==
  LET n == at[t]
      new == used + 1
      s == SlotIn(n, K(t))
      v == call[t].arg
      mid == LeafSlots \div 2
      left == [heap[n] EXCEPT !.keys = SubSeq(@, 1, mid), !.vals = SubSeq(@, 1, mid),
                              !.next = new]
      right == [heap[n] EXCEPT !.keys = SubSeq(@, mid + 1, LeafSlots),
                               !.vals = SubSeq(@, mid + 1, LeafSlots), !.prev = n]
  IN /\ Inserting(t, "sure")
     /\ ~Present(t)
     /\ LeafFull(n)
     /\ used < MaxNodes
     /\ used' = new
     /\ heap' = [Relinked(n, new) EXCEPT
                   ![n] = IF s < mid THEN WithItem(left, s, K(t), v) ELSE left,
                   ![new] = IF s < mid THEN right ELSE WithItem(right, s - mid, K(t), v)]
     /\ tail' = IF heap[n].next = Null THEN new ELSE tail
     /\ TurnBack(t, 1, [key |-> left.keys[mid], node |-> new])
     /\ UNCHANGED <<root, head>>

-------------------------------------------------------------------------------
(* The way back up                                                         *)

Top(t) == path[t][Len(path[t])]

\* unlock the last lock of the path; with the first one the call ends
Pop(t, up) == /\ pc[t] = "climb"
              /\ Release({}, {Top(t).node})
              /\ carry' = [carry EXCEPT ![t] = up]
              /\ IF Len(path[t]) = 1 THEN Forget(t)
                 ELSE /\ path' = [path EXCEPT ![t] = Front(@)]
                      /\ UNCHANGED <<pc, call, mode, at, driver, must>>
              /\ UNCHANGED <<seen, ret>>

ClimbPast(t) == /\ carry[t] = NoChild
                /\ Pop(t, NoChild)
                /\ UNCHANGED tree

\* (faulty variant: the new child in front of the one that was split)
WithChildInFront(node, s, up) == [node EXCEPT !.keys = InsertAt(@, s + 1, up.key),
                                              !.child = InsertAt(@, s + 1, up.node)]

\* key and child for slot s and the slot behind it
WithChild(node, s, up) == [node EXCEPT !.keys = InsertAt(@, s + 1, up.key),
                                       !.child = InsertAt(@, s + 2, up.node)]

ClimbInsert(t) == LET n == Top(t).node IN
                  /\ pc[t] = "climb" /\ carry[t] # NoChild /\ n # Tree
                  /\ ~InnerFull(n)
                  /\ heap' = [heap EXCEPT ![n] = WithChild(@, Top(t).slot, carry[t])]
                  /\ Pop(t, NoChild)
                  /\ UNCHANGED <<used, root, head, tail>>

\* (faulty variant: always in the middle)
MidForAny(s) == InnerSlots \div 2

\* where split_inner_node splits: one slot further left when the new child goes
\* to a left half that would be the larger one
MidFor(s) == LET mid == InnerSlots \div 2
             IN IF s <= mid /\ mid > InnerSlots - (mid + 1) THEN mid - 1 ELSE mid

\* the two halves of a full inner node, and the key between them
LeftOf(node, mid) == [node EXCEPT !.keys = SubSeq(@, 1, mid), !.child = SubSeq(@, 1, mid + 1)]
RightOf(node, mid) == [node EXCEPT !.keys = SubSeq(@, mid + 2, InnerSlots),
                                   !.child = SubSeq(@, mid + 2, InnerSlots + 1)]

\* what becomes of them and the key when up is inserted at slot s
Halves(node, s, up) ==
  LET mid == MidFor(s)
      left == LeftOf(node, mid)
      right == RightOf(node, mid)
      key == node.keys[mid + 1]
  IN CASE s <= mid -> [left |-> WithChild(left, s, up), right |-> right, key |-> key]
       [] s = mid + 1 /\ mid < Len(right.keys) ->
            \* the new key itself becomes the split key
            [left |-> [left EXCEPT !.keys = Append(@, key), !.child = Append(@, right.child[1])],
             right |-> [right EXCEPT !.child[1] = up.node],
             key |-> up.key]
       [] OTHER -> [left |-> left, right |-> WithChild(right, s - (mid + 1), up), key |-> key]

ClimbSplit(t) == LET n == Top(t).node
                     h == Halves(heap[n], Top(t).slot, carry[t])
                 IN /\ pc[t] = "climb" /\ carry[t] # NoChild /\ n # Tree
                    /\ InnerFull(n)
                    /\ used < MaxNodes
                    /\ used' = used + 1
                    /\ heap' = [heap EXCEPT ![n] = h.left, ![used + 1] = h.right]
                    /\ Pop(t, [key |-> h.key, node |-> used + 1])
                    /\ UNCHANGED <<root, head, tail>>

\* the root was split: a new one above the two halves
NewRoot(t) == /\ pc[t] = "climb" /\ carry[t] # NoChild /\ Top(t).node = Tree
              /\ used < MaxNodes
              /\ used' = used + 1
              /\ heap' = [heap EXCEPT ![used + 1] =
                   [Blank EXCEPT !.level = heap[root].level + 1, !.keys = <<carry[t].key>>,
                                 !.child = <<root, carry[t].node>>]]
              /\ root' = used + 1
              /\ Pop(t, NoChild)
              /\ UNCHANGED <<head, tail>>

-------------------------------------------------------------------------------
(* Threads and rounds                                                      *)

Step(t) == \/ Start(t) \/ ScanNothing(t)
           \/ ReadLock(t) \/ WriteLock(t) \/ Drain(t)
           \/ EnterTree(t) \/ ReadEmpty(t) \/ TryEmpty(t) \/ FirstLeaf(t)
           \/ Descend(t) \/ DescendSure(t)
           \/ Lookup(t) \/ ScanOn(t) \/ ScanEnd(t)
           \/ TryPresent(t) \/ TryInsert(t) \/ TryUpgrade(t) \/ TryRestart(t)
           \/ UpgradeLost(t) \/ UpgradeWon(t) \/ UpgradeDrain(t)
           \/ SurePresent(t) \/ SureInsert(t) \/ SureSplit(t)
           \/ ClimbPast(t) \/ ClimbInsert(t) \/ ClimbSplit(t) \/ NewRoot(t)

AllIdle == \A t \in Threads : pc[t] = "idle" /\ todo[t] = {}

\* parallel_for of the drivers joins its threads before the next one starts
NextRound == /\ AllIdle
             /\ round < Len(Work)
             /\ round' = round + 1
             /\ todo' = Work[round + 1]
             /\ UNCHANGED <<tree, locks, pc, call, mode, place, carry, seen, ret, must>>

Finished == /\ AllIdle
            /\ round = Len(Work)
            /\ UNCHANGED vars

Next == (\E t \in Threads : Step(t)) \/ NextRound \/ Finished

Spec == Init /\ [][Next]_vars

\* the operating system runs every thread, and a lock that stays free is taken
FairSpec == Spec /\ \A t \in Threads : WF_vars(Step(t))

-------------------------------------------------------------------------------
(* Properties                                                              *)

NodeType == [level : -1 .. MaxNodes, keys : Seq(Nat), vals : Seq(Nat), child : Seq(Nodes),
             next : Nodes \cup {Null}, prev : Nodes \cup {Null}]
Places == {"idle", "lock", "drain", "visit", "upgrade", "updrain", "climb"}

TypeOK == /\ heap \in [Nodes -> NodeType]
          /\ used \in 0 .. MaxNodes
          /\ {root, head, tail} \subseteq 1 .. used \cup {Null}
          /\ writer \in [Nodes \cup {Tree} -> BOOLEAN]
          /\ readers \in [Nodes \cup {Tree} -> Nat]
          /\ pc \in [Threads -> Places]
          /\ call \in [Threads -> Calls \cup {None}]
          /\ mode \in [Threads -> {"read", "try", "sure"}]
          /\ at \in [Threads -> Nodes \cup {Tree, Null}]
          /\ path \in [Threads -> Seq([node : Nodes \cup {Tree}, slot : Nat])]
          /\ carry \in [Threads -> [key : Nat, node : Nodes \cup {Null}]]
          /\ seen \in [Threads -> Seq(Nat \X Nat)]
          /\ ret \in [Threads -> Int]
          /\ round \in 1 .. Len(Work)
          /\ todo \in [Threads -> SUBSET Calls]
          /\ must \in [Threads -> SUBSET Nat]

Allocated == 1 .. used
Inners == {n \in Allocated : heap[n].level > 0}
Children(n) == {heap[n].child[i] : i \in 1 .. Len(heap[n].child)}

\* the links of the leaves, from head_leaf_ to tail_leaf_ and back
LinkedBothWays ==
  \A n \in Chained :
    LET m == heap[n].next IN
    /\ IF m = Null THEN tail = n ELSE heap[m].prev = n
    /\ (heap[n].prev = Null) <=> (head = n)
(* The leaves form one list in ascending order, linked both ways, from      *)
(* head_leaf_ to tail_leaf_ (verify_leaflinks) - also between a split and   *)
(* its unlock, and though a split sets the back link of a leaf it has not   *)
(* locked.                                                                  *)
LeavesLinked ==
  /\ LinkedBothWays
  /\ \A n \in Chained :
       LET m == heap[n].next IN
       /\ \A i, j \in 1 .. Len(heap[n].keys) : i < j => heap[n].keys[i] < heap[n].keys[j]
       /\ m # Null => \A j \in KeysOf(n), k \in KeysOf(m) : j < k

\* the leaves below a node
Below[n \in Nodes] == IF heap[n].level = 0 THEN {n}
                      ELSE UNION {Below[heap[n].child[i]] : i \in 1 .. Len(heap[n].child)}
KeysBelow(n) == UNION {KeysOf(m) : m \in Below[n]}

\* the threads whose split has not reached the parent yet
Climbing == {t \in Threads : pc[t] = "climb" /\ carry[t] # NoChild}
\* a node is settled when none of them can hold it or a node above or below it
Settled(n) == /\ ~writer[n]
              /\ \A t \in Climbing : Top(t).node \in Nodes =>
                   Below[Top(t).node] \cap Below[n] = {}

\* what verify_node asks of the sizes and the levels of nodes
NodesFilled ==
  /\ \A n \in Inners :
       /\ Len(heap[n].keys) <= InnerSlots
       /\ Len(heap[n].child) = Len(heap[n].keys) + 1
       /\ n # root => Len(heap[n].keys) >= InnerSlots \div 2
       /\ \A c \in Children(n) : heap[c].level = heap[n].level - 1
  /\ \A n \in Allocated \ Inners :
       /\ Len(heap[n].keys) = Len(heap[n].vals)
       /\ Len(heap[n].keys) <= LeafSlots
       /\ Cardinality(Allocated \ Inners) > 1 => Len(heap[n].keys) >= LeafSlots \div 2
(* The tree is as verify() wants it at every moment, not only between       *)
(* rounds, the counts of stats_ apart, which are not kept here: no node     *)
(* outgrows its slots and none but the root has less than half of them in   *)
(* use, whichever slot a split made room for; all leaves are on one level;  *)
(* and in every inner node no split is under way at, the key in a slot is   *)
(* the largest below the slot's child and smaller than everything below the *)
(* next one, as all searches rely on (verify_node).                         *)
TreeVerified ==
  /\ NodesFilled
  /\ \A n \in Inners : Settled(n) =>
       \A i \in 1 .. Len(heap[n].keys) :
         /\ heap[n].keys[i] \in KeysBelow(heap[n].child[i])
         /\ \A k \in KeysBelow(heap[n].child[i]) : k <= heap[n].keys[i]
         /\ \A k \in KeysBelow(heap[n].child[i + 1]) : k > heap[n].keys[i]

\* the locks a thread holds for reading, and the flags it has set
ReadHeld(t) ==
  IF mode[t] = "sure" THEN {}
  ELSE Held(t) \cup (IF pc[t] = "visit" /\ ~ForWriting(t, at[t]) THEN {at[t]} ELSE {})
WriteHeld(t) ==
  (IF mode[t] = "sure" THEN Held(t) ELSE {}) \cup
  (IF pc[t] \in {"drain", "visit"} /\ ForWriting(t, at[t]) THEN {at[t]} ELSE {})

(* No lock is lost or released twice on any of the ways out - found, full,  *)
(* upgraded, upgrade failed, restarted - and no flag is shared: each lock   *)
(* counts the threads that hold it.                                        *)
LocksExact ==
  \A n \in Nodes \cup {Tree} :
    /\ readers[n] = Cardinality({t \in Threads : n \in ReadHeld(t)})
    /\ Cardinality({t \in Threads : n \in WriteHeld(t)}) = IF writer[n] THEN 1 ELSE 0

(* What a thread read on its way down stays right while it holds the lock   *)
(* it read it under, through the leaf it lets go and the upgrade of the     *)
(* parent included: the slot is the one its key belongs to, and the node it *)
(* goes to lock is the child in that slot.                                  *)
SlotsStay ==
  \A t \in Threads : pc[t] \notin {"idle", "climb"} /\ ~Scanning(t) =>
    \A i \in 1 .. Len(path[t]) :
      LET n == path[t][i].node
          below == IF i < Len(path[t]) THEN path[t][i + 1].node ELSE at[t]
      IN IF n = Tree THEN below = root
         ELSE /\ path[t][i].slot = SlotIn(n, K(t))
              /\ pc[t] \notin {"upgrade", "updrain"} => below = ChildAt(n, path[t][i].slot)

Visited(s) == {s[i][1] : i \in 1 .. Len(s)}
\* the keys a scan of call c that visited s was bound to visit
Due(c, s, m) == {k \in m : /\ k >= c.key
                           /\ IF c.op = "range" THEN k < c.arg
                              ELSE Len(s) < c.arg \/ k <= s[Len(s)][1]}

(* A scan visits keys of its range in ascending order, none twice, and      *)
(* misses none that was there when it started, though leaves ahead of it    *)
(* and the leaf it comes from are split meanwhile.                          *)
ScansWhole ==
  [][\A t \in Threads : Scanning(t) /\ call'[t] = None =>
       LET s == seen'[t] IN
       /\ \A i, j \in 1 .. Len(s) : i < j => s[i][1] < s[j][1]
       /\ \A k \in Visited(s) : k >= K(t) /\ (Op(t) = "range" => k < call[t].arg)
       /\ Op(t) = "length" => Len(s) <= call[t].arg
       /\ Due(call[t], s, must[t]) \subseteq Visited(s)]_vars

(* Every call ends: no thread waits for ever for a lock, and no insert      *)
(* starts again for ever.                                                   *)
CallsEnd == \A t \in Threads : (call[t] # None) ~> (call[t] = None)

(* value compares keys in the slots of its leaf only (slotdata is declared  *)
(* with leaf_slotmax of them).                                              *)
ComparesSlots ==
  \A t \in Threads : InLeaf(t) /\ Op(t) = "value" => SlotIn(at[t], K(t)) < LeafSlots

PlannedCalls == UNION {UNION {Work[i][t] : t \in Threads} : i \in 1 .. Len(Work)}
Pairs == UNION {{<<heap[n].keys[i], heap[n].vals[i]>> : i \in 1 .. Len(heap[n].keys)} : n \in Chained}
Pending(t) == call[t] # None /\ ~Scanning(t) /\ pc[t] # "climb"

Abstract == INSTANCE MapSpec
  WITH Calls <- PlannedCalls, None <- None, map <- Pairs,
       call <- [t \in Threads |-> IF Pending(t) THEN call[t] ELSE None],
       saw <- [t \in Threads |->
                 IF ~Pending(t) THEN {}
                 ELSE IF K(t) \in Contents THEN {p[2] : p \in {q \in Pairs : q[1] = K(t)}}
                 ELSE {0}]

(* insert, exists and value take effect at one moment each, and answer with *)
(* the state of that moment (MapSpec).                                      *)
ImplementsMap == Abstract!Spec
===============================================================================
