------------------------------- MODULE MCBTree -------------------------------
(***************************************************************************)
(* Small instances of BTree: the workloads of the runs.                    *)
(***************************************************************************)
EXTENDS BTree

CONSTANTS t1, t2, t3

Three == {t1, t2, t3}

Put(k) == [op |-> "insert", key |-> k, arg |-> 10 + k]
Get(k) == [op |-> "value", key |-> k, arg |-> 0]
Has(k) == [op |-> "exists", key |-> k, arg |-> 0]
Rng(lo, hi) == [op |-> "range", key |-> lo, arg |-> hi]
Length(lo, n) == [op |-> "length", key |-> lo, arg |-> n]

Round(a, b, c) == [t \in Three |-> CASE t = t1 -> a [] t = t2 -> b [] t = t3 -> c]
Alone(c) == Round({c}, {}, {})
Load(s) == [i \in 1 .. Len(s) |-> Alone(s[i])]

\* first an empty tree and its root leaf; then full leaves next to each other
\* below a parent with room; then full parents, split at each of their slots
SplitWork ==
  << Round({Put(5)}, {Put(9)}, {Has(9), Rng(1, 9)}),
     Round({Put(13)}, {Put(13), Put(3)}, {Rng(5, 5), Get(9)}),
     Round({Put(7)}, {Put(11)}, {Rng(3, 13)}),
     Round({Put(1)}, {Put(4)}, {Length(2, 4)}),
     Round({Put(6)}, {Put(15), Put(4)}, {Rng(1, 7)}) >>

\* value of a key above all, when the last leaf is full
BeyondWork == Load(<<Put(2), Put(4), Get(5)>>)
==============================================================================
