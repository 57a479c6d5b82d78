----------------------------- MODULE MCNoHotSpot -----------------------------
(***************************************************************************)
(* Small instances of NoHotSpot: the workloads of the runs.                *)
(***************************************************************************)
EXTENDS NoHotSpot

CONSTANTS t1, t2

Two == {t1, t2}

Put(k) == [op |-> "insert", key |-> k, arg |-> k]
Del(k) == [op |-> "delete", key |-> k, arg |-> 0]
Has(k) == [op |-> "exists", key |-> k, arg |-> 0]

Round(a, b) == [t \in Two |-> IF t = t1 THEN a ELSE b]
Load(s) == [i \in 1 .. Len(s) |-> Round({s[i]}, {})]
Never(s) == [i \in 1 .. Len(s) |-> 0]

\* seven nodes, and two loops of the background thread that put items over
\* nodes 2, 6 and 8, a second item over node 6, and a third level over both;
\* all are deleted and the next loop takes the lowest level away, with lookups
\* during the upkeep; then, around deleted nodes without items: inserts on both
\* sides of one while the background thread removes it, a delete and an insert
\* of one key, and an insert of a key while its node is removed or not
Fill == Load(<< Put(1), Put(2), Put(3), Put(6), Put(7), Put(8), Put(9) >>)
Clear == << Round({Del(1)}, {Del(1)}) >> \o
         Load(<< Del(2), Del(3), Del(6), Del(7), Del(8), Del(9) >>)
Look == << Round({}, {Has(7)}) >>
Race == << Round({Put(3)}, {Put(5)}), Round({Del(3)}, {Put(3)}), Round({Put(3)}, {}) >>
MainWork == Fill \o Look \o << Round({}, {}) >> \o Clear \o Look \o
            Load(<< Put(4), Del(4) >>) \o Race
MainLevels == [i \in 1 .. Len(MainWork) |-> IF i = 9 THEN 2 ELSE 0]
MainLoops == Never(Fill) \o <<1, 0>> \o Never(Clear) \o <<1>> \o <<0, 0, 1, 0, 1>>

\* three keys, an item over the second, all deleted, and the level with it gone
LevelsWork == Load(<< Put(1), Put(2), Put(3) >>) \o << Round({}, {}) >> \o
              Load(<< Del(1), Del(2), Del(3) >>) \o << Round({}, {}) >>
LevelsLevels == Never(LevelsWork)
LevelsLoops == <<0, 0, 0, 1, 0, 0, 0, 1>>
==============================================================================
