------------------------------ MODULE BSkipNode ------------------------------
(***************************************************************************)
(* The arrays of one node of bskiplist/bskip.h and the operations on them. *)
(* A node has MAX_KEYS slots, of which the first num are live; what is     *)
(* behind them is whatever an earlier operation left there.  A leaf uses   *)
(* key and val (the structure-of-arrays of BSkipNodeLeaf), an internal     *)
(* node key and child.  Ranks count from 0.                                *)
(***************************************************************************)
EXTENDS Integers

CONSTANTS MaxKeys,   \* traits::MAX_KEYS
          Inf        \* std::numeric_limits<K>::max(), the key of the sentinels

ASSUME MaxKeysAssumption == MaxKeys \in Nat /\ MaxKeys >= 2
ASSUME InfAssumption == Inf \in Nat \ {0}

Slot == 0 .. MaxKeys - 1
Null == <<"null", 0, 0>>   \* of the shape of the node names of BSkip
AnyKey == 0 .. Inf

\* the nodes whose pointers are in Ptr, which holds Null
NodeType(Ptr) == [num : Nat, key : [Slot -> AnyKey], val : [Slot -> Nat],
                  child : [Slot -> Ptr], next : Ptr, next_header : AnyKey]

\* new BSkipNodeLeaf / new BSkipNodeInternal
Blank == [num |-> 0,
          key |-> [i \in Slot |-> 0],
          val |-> [i \in Slot |-> 0],
          child |-> [i \in Slot |-> Null],
          next |-> Null,
          next_header |-> Inf]

GetHeader(node) == node.key[0]
Live(node) == {i \in Slot : i < node.num}
Keys(node) == {node.key[i] : i \in Live(node)}

\* the leading keys that are not above k
Leading(node, k) == {i \in Live(node) : \A j \in 0 .. i : node.key[j] <= k}

\* r is the rank find_key returns: the last of them.  If there is none an
\* internal node returns 0, and so do we for a leaf, whose find_index_linear
\* would wrap around; SearchesStayLeft says that no search gets there.
IsRank(node, k, r) == \/ r \in Leading(node, k) /\ r + 1 \notin Leading(node, k)
                      \/ r = 0 /\ node.num > 0 /\ Leading(node, k) = {}

-------------------------------------------------------------------------------
(* Moving elements                                                         *)

\* write x at rank r after moving the elements r .. last - 1 up by one
ShiftIn(a, r, x, last) ==
  [i \in Slot |-> IF i = r THEN x ELSE IF i \in r + 1 .. last THEN a[i - 1] ELSE a[i]]

\* n elements of src from rank from, copied to dest at rank at
CopyTo(src, from, dest, at, n) ==
  [i \in Slot |-> IF i \in at .. at + n - 1 THEN src[from + i - at] ELSE dest[i]]

\* insert_elt_at_rank of a leaf and insert_key_at_rank of an internal node; the
\* caller increments num_elts
InsertEltAtRank(node, r, k, v) ==
  [node EXCEPT !.key = ShiftIn(@, r, k, node.num),
               !.val = ShiftIn(@, r, v, node.num)]

InsertKeyAtRank(node, r, k) == [node EXCEPT !.key = ShiftIn(@, r, k, node.num)]

\* flag is TRUE when the caller has counted the new element already
InsertChildAtRank(node, r, c, flag) ==
  [node EXCEPT !.child = ShiftIn(@, r, c, IF flag THEN node.num - 1 ELSE node.num)]

\* split_keys(dest, from, at), the effect on this node and on dest
SplitKeep(node, from) == [node EXCEPT !.num = from]

\* (faulty variant: the last element is left behind)
SplitGiveAllButLast(node, dest, from, at) ==
  LET n == IF node.num > from THEN node.num - from - 1 ELSE 0 IN
    [dest EXCEPT !.num = @ + n,
                 !.key = CopyTo(node.key, from, @, at, n),
                 !.val = CopyTo(node.val, from, @, at, n)]

\* (faulty variant: the values are left behind)
SplitGiveKeys(node, dest, from, at) ==
  [dest EXCEPT !.num = @ + (node.num - from),
               !.key = CopyTo(node.key, from, @, at, node.num - from)]

SplitGive(node, dest, from, at) ==
  [dest EXCEPT !.num = @ + (node.num - from),
               !.key = CopyTo(node.key, from, @, at, node.num - from),
               !.val = CopyTo(node.val, from, @, at, node.num - from)]

MoveChildren(node, dest, from, n, at) ==
  [dest EXCEPT !.child = CopyTo(node.child, from, @, at, n)]

\* blind_write of an element at any rank, live or not
BlindWrite(node, r, k, v) == [node EXCEPT !.key[r] = k, !.val[r] = v]
===============================================================================
