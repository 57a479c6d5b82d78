------------------------------- MODULE MCBSkip -------------------------------
(***************************************************************************)
(* Small instances of BSkip: the workloads of the runs.                    *)
(***************************************************************************)
EXTENDS BSkip, TLC

CONSTANTS t1, t2, t3

Two == {t1, t2}
Three == {t1, t2, t3}

Put(k, v) == [op |-> "insert", key |-> k, arg |-> v]
Get(k) == [op |-> "value", key |-> k, arg |-> 0]
Has(k) == [op |-> "exists", key |-> k, arg |-> 0]
Range(lo, hi) == [op |-> "range", key |-> lo, arg |-> hi]
Length(lo, n) == [op |-> "length", key |-> lo, arg |-> n]

\* a round in which t1 alone makes call c
Alone(T, c) == [t \in T |-> IF t = t1 THEN {c} ELSE {}]
Load(T, s) == [i \in 1 .. Len(s) |-> Alone(T, Put(s[i], 7))]

\* keys 2 and 4 reach level 1, key 3 level 2, the odd ones stay in the leaves
Levels3 == [k \in 0 .. Inf - 1 |-> CASE k \in {2, 4} -> 1 [] k = 3 -> 2 [] OTHER -> 0]

\* the number of nodes each thread's inserts may need, for MaxInserts
InsertsOf(work) ==
  [t \in DOMAIN work[1] |->
     Cardinality({p \in (1 .. Len(work)) \X {Put(k, v) : k \in 1 .. Inf - 1, v \in 7 .. 8} :
                    p[2] \in work[p[1]][t]})]

\* inserts next to each other on every level, with lookups of settled keys
InsertWork == Load(Three, <<1, 5>>) \o
  << [t \in Three |-> CASE t = t1 -> {Put(2, 8), Put(4, 8)}
                        [] t = t2 -> {Put(3, 8)}
                        [] t = t3 -> {Get(3), Has(5)}] >>
InsertBound == InsertsOf(InsertWork)

\* scans past inserts
ScanWork == Load(Three, <<2, 5>>) \o
  << [t \in Three |-> CASE t = t1 -> {Put(4, 8), Put(3, 8)}
                        [] t = t2 -> {Range(1, 4)}
                        [] t = t3 -> {Length(2, 3)}] >>
ScanBound == InsertsOf(ScanWork)

\* the rounds of test.cpp: insert and override, then lookups of a key that is
\* being inserted; key 0 is in too
RoundsWork ==
  << [t \in Three |-> CASE t = t1 -> {Put(2, 7), Put(5, 7)}
                        [] t = t2 -> {Put(3, 7), Put(0, 7)}
                        [] t = t3 -> {}],
     [t \in Three |-> CASE t = t1 -> {Put(5, 8)}
                        [] t = t2 -> {Put(3, 8)}
                        [] t = t3 -> {Get(3), Get(5)}],
     [t \in Three |-> CASE t = t1 -> {Put(4, 8)}
                        [] t = t2 -> {Has(4), Get(4)}
                        [] t = t3 -> {}] >>
RoundsBound == InsertsOf(RoundsWork)

\* a lookup with exists of a key that is not there, then an insert
AbsentWork == << Alone(Three, Has(2)), Alone(Three, Put(1, 7)) >>
AbsentBound == InsertsOf(AbsentWork)

\* an insert of a key that is there, next to an insert of a smaller one
OverrideWork == Load(Three, <<5>>) \o
  << [t \in Three |-> CASE t = t1 -> {Put(5, 8)} [] t = t2 -> {Put(1, 8)} [] t = t3 -> {}] >>
OverrideBound == InsertsOf(OverrideWork)

\* a range that starts at a key that is there
RangeWork == Load(Three, <<1, 5>>) \o << Alone(Three, Range(1, 5)) >>
RangeBound == InsertsOf(RangeWork)

\* a lookup of key 0 in an empty list
ZeroWork == << Alone(Three, Has(0)) >>
ZeroBound == InsertsOf(ZeroWork)
==============================================================================
