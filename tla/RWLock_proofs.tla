---------------------------- MODULE RWLock_proofs ----------------------------
(***************************************************************************)
(* Proofs about the reader-writer lock of RWLock, for any finite set of    *)
(* threads and any number of counter lines.                                *)
(***************************************************************************)
EXTENDS RWLock, FiniteSetTheorems, TLAPS

\* the writer flag is set exactly while one thread owns it
FlagOwned == /\ \A a \in Announced : writer
             /\ writer => Announced # {}
             /\ \A a, b \in Announced : a = b

\* a partial sum of counters, none of which is negative
SumsNatural == \A w \in Threads : pc[w] = "sum" => total[w] >= 0

\* The inductive invariant.  MutualExclusion alone is not inductive: that a
\* writer may enter after a sum of zero needs what the sum so far has shown
\* (SumMissesNobody), which needs that the counters count (CountersExact) and
\* that no reader enters while the flag is set (FlagOwned).
IInv == TypeOK /\ FlagOwned /\ CountersExact /\ SumsNatural /\ SumMissesNobody /\ MutualExclusion

-------------------------------------------------------------------------------
(* Type correctness                                                        *)

\* the counter lines, as the provers need them
LEMMA LinesType == /\ Lines \subseteq Int
                   /\ \A i \in Int : i \in Lines <=> 0 <= i /\ i < NumCounters
                   /\ \A i \in Int : i \in 0 .. NumCounters <=> 0 <= i /\ i <= NumCounters
                   /\ NumCounters \in Int /\ NumCounters > 0
BY CountersAssumption DEF Lines

\* the types hold at first
LEMMA TypeInit == Init => TypeOK
<1>1. 0 \in Lines /\ 0 \in 0 .. NumCounters /\ "idle" \in Places
  BY LinesType DEF Places
<1> SUFFICES ASSUME Init PROVE TypeOK
  OBVIOUS
<1>2. writer \in BOOLEAN
  BY DEF Init
<1>3. counter \in [Lines -> Int]
  BY DEF Init
<1>4. pc \in [Threads -> Places]
  BY <1>1 DEF Init
<1>5. line \in [Threads -> Lines]
  BY <1>1 DEF Init
<1>6. scan \in [Threads -> 0 .. NumCounters] /\ total \in [Threads -> Int]
  BY <1>1 DEF Init
<1> QED BY <1>2, <1>3, <1>4, <1>5, <1>6 DEF TypeOK

\* and every step keeps them
LEMMA TypeNext == TypeOK /\ [Next]_vars => TypeOK'
<1> SUFFICES ASSUME TypeOK, [Next]_vars PROVE TypeOK'
  OBVIOUS
<1>1. CASE UNCHANGED vars
  BY <1>1 DEF vars, TypeOK
<1>2. ASSUME NEW t \in Threads, Step(t) PROVE TypeOK'
  <2>1. pc' \in [Threads -> Places]
    BY <1>2 DEF TypeOK, Places, Goto, Step, ReadCall, ReadAdd, ReadEnter, ReadSeesWriter,
         ReadBackOff, ReadWake, ReadUnlock, WriteCall, SetFlag, FlagTaken, WriteWake, SumOneLine,
         SumAgain, WriteEnter, WriteUnlock, UpgradeSetFlag, UpgradeDrop, UpgradeSeesWriter,
         UpgradeFails
  <2>2. line' \in [Threads -> Lines]
    BY <1>2 DEF TypeOK, Step, ReadCall, ReadAdd, ReadEnter, ReadSeesWriter,
         ReadBackOff, ReadWake, ReadUnlock, WriteCall, SetFlag, FlagTaken, WriteWake, SumOneLine,
         SumAgain, WriteEnter, WriteUnlock, UpgradeSetFlag, UpgradeDrop, UpgradeSeesWriter,
         UpgradeFails
  <2>3. counter' \in [Lines -> Int]
    BY <1>2 DEF TypeOK, Add, Step, ReadCall, ReadAdd, ReadEnter, ReadSeesWriter,
         ReadBackOff, ReadWake, ReadUnlock, WriteCall, SetFlag, FlagTaken, WriteWake, SumOneLine,
         SumAgain, WriteEnter, WriteUnlock, UpgradeSetFlag, UpgradeDrop, UpgradeSeesWriter,
         UpgradeFails
  <2>4. writer' \in BOOLEAN
    BY <1>2 DEF TypeOK, Step, ReadCall, ReadAdd, ReadEnter, ReadSeesWriter,
         ReadBackOff, ReadWake, ReadUnlock, WriteCall, SetFlag, FlagTaken, WriteWake, SumOneLine,
         SumAgain, WriteEnter, WriteUnlock, UpgradeSetFlag, UpgradeDrop, UpgradeSeesWriter,
         UpgradeFails
  <2>5. scan' \in [Threads -> 0 .. NumCounters] /\ total' \in [Threads -> Int]
    <3>1. CASE SumOneLine(t)
      <4>1. scan[t] \in Lines /\ scan[t] + 1 \in 0 .. NumCounters
        BY <3>1, LinesType DEF TypeOK, SumOneLine
      <4>2. counter[scan[t]] \in Int
        BY <4>1 DEF TypeOK
      <4> QED BY <3>1, <4>1, <4>2 DEF TypeOK, SumOneLine
    <3>2. CASE SetFlag(t) \/ SumAgain(t) \/ UpgradeDrop(t)
      <4>1. 0 \in 0 .. NumCounters
        BY LinesType
      <4> QED BY <3>2, <4>1 DEF TypeOK, SetFlag, SumAgain, UpgradeDrop, StartSum
    <3> QED BY <1>2, <3>1, <3>2 DEF TypeOK, Step, ReadCall, ReadAdd, ReadEnter, ReadSeesWriter,
         ReadBackOff, ReadWake, ReadUnlock, WriteCall, FlagTaken, WriteWake, WriteEnter,
         WriteUnlock, UpgradeSetFlag, UpgradeSeesWriter, UpgradeFails
  <2> QED BY <2>1, <2>2, <2>3, <2>4, <2>5 DEF TypeOK
<1> QED BY <1>1, <1>2 DEF Next

(* The variables of the lock keep their types: in particular a thread's line *)
(* is always one of the counter lines (partitioned_counter).                 *)
THEOREM TypeCorrect == Spec => []TypeOK
BY TypeInit, TypeNext, PTL DEF Spec

-------------------------------------------------------------------------------
(* The counters                                                            *)

\* the readers counted on a line can be counted
LEMMA CountedFinite == \A i : IsFiniteSet(Counted(i)) /\ Cardinality(Counted(i)) \in Nat
<1> TAKE i
<1>1. Counted(i) \subseteq Threads
  BY DEF Counted
<1> QED BY <1>1, ThreadsAssumption, FS_Subset, FS_CardinalityType

\* so an exact counter is not negative
LEMMA CountersNatural == CountersExact => \A i \in Lines : counter[i] \in Nat
BY CountedFinite DEF CountersExact

\* a step that moves no thread in or out of the counted places
LEMMA CountersKept ==
  ASSUME CountersExact, counter' = counter, \A i \in Lines : Counted(i)' = Counted(i)
  PROVE CountersExact'
BY DEF CountersExact

\* a step that adds one thread, or takes one away, together with its count
LEMMA CountersUp ==
  ASSUME TypeOK, CountersExact, NEW t \in Threads, Add(t, 1), line' = line,
         t \notin Counted(line[t]), Counted(line[t])' = Counted(line[t]) \cup {t},
         \A i \in Lines : i # line[t] => Counted(i)' = Counted(i)
  PROVE CountersExact'
<1> SUFFICES ASSUME NEW i \in Lines PROVE counter'[i] = Cardinality(Counted(i)')
  BY DEF CountersExact
<1>1. CASE i # line[t]
  BY <1>1 DEF TypeOK, Add, CountersExact
<1>2. CASE i = line[t]
  <2>1. Cardinality(Counted(i) \cup {t}) = Cardinality(Counted(i)) + 1
    BY <1>2, CountedFinite, FS_AddElement
  <2> QED BY <1>2, <2>1 DEF TypeOK, Add, CountersExact
<1> QED BY <1>1, <1>2

\* a reader that leaves takes one from its line only
LEMMA CountersDown ==
  ASSUME TypeOK, CountersExact, NEW t \in Threads, Add(t, -1), line' = line,
         t \in Counted(line[t]), Counted(line[t])' = Counted(line[t]) \ {t},
         \A i \in Lines : i # line[t] => Counted(i)' = Counted(i)
  PROVE CountersExact'
<1> SUFFICES ASSUME NEW i \in Lines PROVE counter'[i] = Cardinality(Counted(i)')
  BY DEF CountersExact
<1>1. CASE i # line[t]
  BY <1>1 DEF TypeOK, Add, CountersExact
<1>2. CASE i = line[t]
  <2>1. Cardinality(Counted(i) \ {t}) = Cardinality(Counted(i)) - 1
    BY <1>2, CountedFinite, FS_RemoveElement
  <2> QED BY <1>2, <2>1, CountedFinite DEF TypeOK, Add, CountersExact
<1> QED BY <1>1, <1>2

\* every step keeps the counters exact
LEMMA CountersNext == TypeOK /\ CountersExact /\ [Next]_vars => CountersExact'
<1> SUFFICES ASSUME TypeOK, CountersExact, [Next]_vars PROVE CountersExact'
  OBVIOUS
<1>1. CASE UNCHANGED vars
  BY <1>1, CountersKept DEF vars, Counted
<1>2. ASSUME NEW t \in Threads, Step(t) PROVE CountersExact'
  <2>1. CASE ReadAdd(t)
    BY <2>1, CountersUp DEF ReadAdd, Counted, Goto, TypeOK
  <2>2. CASE ReadBackOff(t)
    BY <2>2, CountersDown DEF ReadBackOff, Counted, Goto, TypeOK
  <2>3. CASE ReadUnlock(t)
    BY <2>3, CountersDown DEF ReadUnlock, Counted, Goto, TypeOK
  <2>4. CASE UpgradeDrop(t)
    BY <2>4, CountersDown DEF UpgradeDrop, Counted, Goto, TypeOK
  <2>5. CASE UpgradeFails(t)
    BY <2>5, CountersDown DEF UpgradeFails, Counted, Goto, TypeOK
  <2>6. CASE ReadCall(t) \/ ReadEnter(t) \/ ReadSeesWriter(t) \/ ReadWake(t)
    BY <2>6, CountersKept DEF ReadCall, ReadEnter, ReadSeesWriter, ReadWake, Counted, Goto, TypeOK
  <2>7. CASE WriteCall(t) \/ SetFlag(t) \/ FlagTaken(t) \/ WriteWake(t)
    BY <2>7, CountersKept DEF WriteCall, SetFlag, FlagTaken, WriteWake, Counted, Goto, TypeOK
  <2>8. CASE SumOneLine(t) \/ SumAgain(t) \/ WriteEnter(t) \/ WriteUnlock(t)
    BY <2>8, CountersKept DEF SumOneLine, SumAgain, WriteEnter, WriteUnlock, Counted, Goto, TypeOK
  <2>9. CASE UpgradeSetFlag(t) \/ UpgradeSeesWriter(t)
    BY <2>9, CountersKept DEF UpgradeSetFlag, UpgradeSeesWriter, Counted, Goto, TypeOK
  <2> QED BY <1>2, <2>1, <2>2, <2>3, <2>4, <2>5, <2>6, <2>7, <2>8, <2>9 DEF Step
<1> QED BY <1>1, <1>2 DEF Next

-------------------------------------------------------------------------------
(* The flag and the sum                                                    *)

\* the set of announced threads after each kind of step
LEMMA AnnouncedNext ==
  ASSUME TypeOK, NEW t \in Threads, Step(t)
  PROVE  \/ Announced' = Announced /\ writer' = writer
         \/ ~writer /\ writer' = TRUE /\ Announced' = Announced \cup {t}
         \/ t \in Announced /\ writer' = FALSE /\ Announced' = Announced \ {t}
<1>1. CASE SetFlag(t)
  <2>1. Announced' = Announced \cup {t}
    BY <1>1 DEF TypeOK, Announced, SetFlag, Goto
  <2> QED BY <1>1, <2>1 DEF SetFlag
<1>2. CASE UpgradeSetFlag(t)
  <2>1. Announced' = Announced \cup {t}
    BY <1>2 DEF TypeOK, Announced, UpgradeSetFlag, Goto
  <2> QED BY <1>2, <2>1 DEF UpgradeSetFlag
<1>3. CASE WriteUnlock(t)
  <2>1. t \in Announced /\ Announced' = Announced \ {t}
    BY <1>3 DEF TypeOK, Announced, WriteUnlock, Goto
  <2> QED BY <1>3, <2>1 DEF WriteUnlock
<1>4. CASE ReadCall(t) \/ ReadAdd(t) \/ ReadEnter(t) \/ ReadSeesWriter(t) \/ ReadBackOff(t)
  <2>1. Announced' = Announced
    BY <1>4 DEF TypeOK, Announced, Goto, ReadCall, ReadAdd, ReadEnter, ReadSeesWriter, ReadBackOff
  <2> QED BY <1>4, <2>1 DEF ReadCall, ReadAdd, ReadEnter, ReadSeesWriter, ReadBackOff
<1>5. CASE ReadWake(t) \/ ReadUnlock(t) \/ WriteCall(t) \/ FlagTaken(t) \/ WriteWake(t)
  <2>1. Announced' = Announced
    BY <1>5 DEF TypeOK, Announced, Goto, ReadWake, ReadUnlock, WriteCall, FlagTaken, WriteWake
  <2> QED BY <1>5, <2>1 DEF ReadWake, ReadUnlock, WriteCall, FlagTaken, WriteWake
<1>6. CASE SumOneLine(t) \/ SumAgain(t) \/ WriteEnter(t)
  <2>1. Announced' = Announced
    BY <1>6 DEF TypeOK, Announced, Goto, SumOneLine, SumAgain, WriteEnter
  <2> QED BY <1>6, <2>1 DEF SumOneLine, SumAgain, WriteEnter
<1>7. CASE UpgradeDrop(t) \/ UpgradeSeesWriter(t) \/ UpgradeFails(t)
  <2>1. Announced' = Announced
    BY <1>7 DEF TypeOK, Announced, Goto, UpgradeDrop, UpgradeSeesWriter, UpgradeFails
  <2> QED BY <1>7, <2>1 DEF UpgradeDrop, UpgradeSeesWriter, UpgradeFails
<1> QED BY <1>1, <1>2, <1>3, <1>4, <1>5, <1>6, <1>7 DEF Step

\* every step keeps the flag with its owner
LEMMA FlagNext == TypeOK /\ FlagOwned /\ [Next]_vars => FlagOwned'
<1> SUFFICES ASSUME TypeOK, FlagOwned, [Next]_vars PROVE FlagOwned'
  OBVIOUS
<1>1. CASE UNCHANGED vars
  BY <1>1 DEF vars, FlagOwned, Announced
<1>2. ASSUME NEW t \in Threads, Step(t) PROVE FlagOwned'
  <2>1. CASE Announced' = Announced /\ writer' = writer
    BY <2>1 DEF FlagOwned
  <2>2. CASE ~writer /\ writer' = TRUE /\ Announced' = Announced \cup {t}
    BY <2>2 DEF FlagOwned
  <2>3. CASE t \in Announced /\ writer' = FALSE /\ Announced' = Announced \ {t}
    <3>1. Announced' = {}
      BY <2>3 DEF FlagOwned
    <3> QED BY <2>3, <3>1 DEF FlagOwned
  <2> QED BY <1>2, <2>1, <2>2, <2>3, AnnouncedNext
<1> QED BY <1>1, <1>2 DEF Next

\* no load makes a sum negative
LEMMA SumsNext == TypeOK /\ CountersExact /\ SumsNatural /\ [Next]_vars => SumsNatural'
<1> SUFFICES ASSUME TypeOK, CountersExact, SumsNatural, [Next]_vars,
                    NEW w \in Threads, pc'[w] = "sum"
             PROVE total'[w] >= 0
  BY DEF SumsNatural
<1>1. CASE UNCHANGED vars
  BY <1>1 DEF vars, SumsNatural
<1>2. ASSUME NEW t \in Threads, Step(t) PROVE total'[w] >= 0
  <2>1. CASE SumOneLine(t)
    <3>1. scan[t] \in Lines
      BY <2>1, LinesType DEF SumOneLine, TypeOK
    <3>2. counter[scan[t]] \in Nat
      BY <3>1, CountersNatural
    <3> QED BY <2>1, <3>2 DEF SumOneLine, TypeOK, SumsNatural
  <2>2. CASE SetFlag(t) \/ SumAgain(t) \/ UpgradeDrop(t)
    BY <2>2 DEF SetFlag, SumAgain, UpgradeDrop, StartSum, Goto, TypeOK, SumsNatural
  <2>3. CASE ReadCall(t) \/ ReadAdd(t) \/ ReadEnter(t) \/ ReadSeesWriter(t) \/ ReadBackOff(t)
    BY <2>3 DEF ReadCall, ReadAdd, ReadEnter, ReadSeesWriter, ReadBackOff, Goto, TypeOK, SumsNatural
  <2>4. CASE ReadWake(t) \/ ReadUnlock(t) \/ WriteCall(t) \/ FlagTaken(t) \/ WriteWake(t)
    BY <2>4 DEF ReadWake, ReadUnlock, WriteCall, FlagTaken, WriteWake, Goto, TypeOK, SumsNatural
  <2>5. CASE WriteEnter(t) \/ WriteUnlock(t) \/ UpgradeSetFlag(t) \/ UpgradeSeesWriter(t)
             \/ UpgradeFails(t)
    BY <2>5 DEF WriteEnter, WriteUnlock, UpgradeSetFlag, UpgradeSeesWriter, UpgradeFails, Goto,
                TypeOK, SumsNatural
  <2> QED BY <1>2, <2>1, <2>2, <2>3, <2>4, <2>5 DEF Step
<1> QED BY <1>1, <1>2 DEF Next

\* a reader comes in only while the flag is clear, and never changes its line
\* inside
LEMMA ReadingNext ==
  ASSUME TypeOK, NEW t \in Threads, Step(t), NEW r \in Reading'
  PROVE  line'[r] = line[r] /\ (r \in Reading \/ ReadEnter(t))
<1>1. CASE ReadCall(t) \/ ReadAdd(t) \/ ReadEnter(t) \/ ReadSeesWriter(t) \/ ReadBackOff(t)
  BY <1>1 DEF ReadCall, ReadAdd, ReadEnter, ReadSeesWriter, ReadBackOff, Goto, TypeOK, Reading
<1>2. CASE ReadWake(t) \/ ReadUnlock(t) \/ WriteCall(t) \/ FlagTaken(t) \/ WriteWake(t)
  BY <1>2 DEF ReadWake, ReadUnlock, WriteCall, FlagTaken, WriteWake, Goto, TypeOK, Reading
<1>3. CASE WriteEnter(t) \/ WriteUnlock(t) \/ UpgradeSetFlag(t) \/ UpgradeSeesWriter(t)
           \/ UpgradeFails(t)
  BY <1>3 DEF WriteEnter, WriteUnlock, UpgradeSetFlag, UpgradeSeesWriter, UpgradeFails, Goto,
              TypeOK, Reading
<1>4. CASE SumOneLine(t) \/ SetFlag(t) \/ SumAgain(t) \/ UpgradeDrop(t)
  BY <1>4 DEF SumOneLine, SetFlag, SumAgain, UpgradeDrop, Goto, TypeOK, Reading
<1> QED BY <1>1, <1>2, <1>3, <1>4 DEF Step

\* a sum that stays zero still misses nobody after a step
LEMMA SumNext ==
  TypeOK /\ FlagOwned /\ CountersExact /\ SumsNatural /\ SumMissesNobody /\ [Next]_vars
    => SumMissesNobody'
<1> SUFFICES ASSUME TypeOK, FlagOwned, CountersExact, SumsNatural, SumMissesNobody, [Next]_vars,
                    NEW w \in Threads, pc'[w] = "sum", total'[w] = 0, NEW r \in Reading'
             PROVE scan'[w] <= line'[r]
  BY DEF SumMissesNobody
<1>1. CASE UNCHANGED vars
  BY <1>1 DEF vars, SumMissesNobody, Reading
<1>2. ASSUME NEW t \in Threads, Step(t) PROVE scan'[w] <= line'[r]
  <2>1. line'[r] = line[r] /\ (r \in Reading \/ ReadEnter(t))
    BY <1>2, ReadingNext
  <2>2. r \in Threads /\ line[r] \in Int /\ 0 <= line[r]
    BY LinesType DEF Reading, TypeOK
  <2>3. CASE ReadEnter(t)
    <3>1. w \in Announced
      BY <2>3 DEF ReadEnter, Goto, TypeOK, Announced
    <3> QED BY <2>3, <3>1 DEF ReadEnter, FlagOwned
  <2>4. CASE SetFlag(t) \/ SumAgain(t) \/ UpgradeDrop(t)
    <3>1. CASE w = t
      <4>1. scan'[w] = 0
        BY <2>4, <3>1 DEF SetFlag, SumAgain, UpgradeDrop, StartSum, TypeOK
      <4> QED BY <2>1, <2>2, <4>1
    <3>2. CASE w # t
      <4>1. pc[w] = "sum" /\ total[w] = 0 /\ scan'[w] = scan[w] /\ r \in Reading
        BY <2>1, <2>4, <3>2
           DEF SetFlag, SumAgain, UpgradeDrop, StartSum, Goto, TypeOK, ReadEnter, Reading
      <4> QED BY <2>1, <4>1 DEF SumMissesNobody
    <3> QED BY <3>1, <3>2
  <2>5. CASE SumOneLine(t)
    <3>1. pc[w] = "sum" /\ r \in Reading
      BY <2>5 DEF SumOneLine, Reading
    <3>2. CASE w = t
      <4>1. scan[t] \in Lines /\ scan[t] \in Int /\ scan'[t] = scan[t] + 1
            /\ total'[t] = total[t] + counter[scan[t]]
        BY <2>5, LinesType DEF SumOneLine, TypeOK
      <4>2. counter[scan[t]] \in Nat
        BY <4>1, CountersNatural
      <4>3. total[t] = 0 /\ counter[scan[t]] = 0
        BY <3>1, <3>2, <4>1, <4>2 DEF SumsNatural, TypeOK
      <4>4. Counted(scan[t]) = {}
        BY <4>1, <4>3, CountedFinite, FS_EmptySet DEF CountersExact
      <4>5. line[r] # scan[t]
        BY <3>1, <4>4 DEF Reading, Counted
      <4>6. scan[t] <= line[r]
        BY <3>1, <3>2, <4>3 DEF SumMissesNobody
      <4> QED BY <2>1, <2>2, <3>2, <4>1, <4>5, <4>6
    <3>3. CASE w # t
      BY <2>1, <2>5, <3>1, <3>3 DEF SumOneLine, TypeOK, SumMissesNobody
    <3> QED BY <3>2, <3>3
  <2>6. CASE ReadCall(t) \/ ReadAdd(t) \/ ReadSeesWriter(t) \/ ReadBackOff(t)
    <3>1. pc[w] = "sum" /\ total[w] = 0 /\ scan'[w] = scan[w] /\ r \in Reading
      BY <2>6 DEF ReadCall, ReadAdd, ReadSeesWriter, ReadBackOff, Goto, TypeOK, Reading
    <3> QED BY <2>1, <3>1 DEF SumMissesNobody
  <2>7. CASE ReadWake(t) \/ ReadUnlock(t) \/ WriteCall(t) \/ FlagTaken(t) \/ WriteWake(t)
    <3>1. pc[w] = "sum" /\ total[w] = 0 /\ scan'[w] = scan[w] /\ r \in Reading
      BY <2>7 DEF ReadWake, ReadUnlock, WriteCall, FlagTaken, WriteWake, Goto, TypeOK, Reading
    <3> QED BY <2>1, <3>1 DEF SumMissesNobody
  <2>8. CASE WriteEnter(t) \/ WriteUnlock(t) \/ UpgradeSetFlag(t) \/ UpgradeSeesWriter(t)
             \/ UpgradeFails(t)
    <3>1. pc[w] = "sum" /\ total[w] = 0 /\ scan'[w] = scan[w] /\ r \in Reading
      BY <2>8 DEF WriteEnter, WriteUnlock, UpgradeSetFlag, UpgradeSeesWriter, UpgradeFails, Goto,
                  TypeOK, Reading
    <3> QED BY <2>1, <3>1 DEF SumMissesNobody
  <2> QED BY <1>2, <2>3, <2>4, <2>5, <2>6, <2>7, <2>8 DEF Step
<1> QED BY <1>1, <1>2 DEF Next

-------------------------------------------------------------------------------
(* The theorems                                                            *)

\* only a sum that has reached the end at zero lets a thread in to write
LEMMA WritingNext ==
  ASSUME TypeOK, NEW t \in Threads, Step(t), NEW w \in Writing'
  PROVE  w \in Writing \/ (w = t /\ WriteEnter(t))
<1>1. CASE ReadCall(t) \/ ReadAdd(t) \/ ReadEnter(t) \/ ReadSeesWriter(t) \/ ReadBackOff(t)
  BY <1>1 DEF ReadCall, ReadAdd, ReadEnter, ReadSeesWriter, ReadBackOff, Goto, TypeOK, Writing
<1>2. CASE ReadWake(t) \/ ReadUnlock(t) \/ WriteCall(t) \/ FlagTaken(t) \/ WriteWake(t)
  BY <1>2 DEF ReadWake, ReadUnlock, WriteCall, FlagTaken, WriteWake, Goto, TypeOK, Writing
<1>3. CASE WriteEnter(t) \/ WriteUnlock(t) \/ UpgradeSetFlag(t) \/ UpgradeSeesWriter(t)
           \/ UpgradeFails(t)
  BY <1>3 DEF WriteEnter, WriteUnlock, UpgradeSetFlag, UpgradeSeesWriter, UpgradeFails, Goto,
              TypeOK, Writing
<1>4. CASE SumOneLine(t) \/ SetFlag(t) \/ SumAgain(t) \/ UpgradeDrop(t)
  BY <1>4 DEF SumOneLine, SetFlag, SumAgain, UpgradeDrop, Goto, TypeOK, Writing
<1> QED BY <1>1, <1>2, <1>3, <1>4 DEF Step

\* a writer enters only when nobody is inside
LEMMA ExclusionNext ==
  TypeOK /\ FlagOwned /\ SumMissesNobody /\ MutualExclusion /\ [Next]_vars => MutualExclusion'
<1> SUFFICES ASSUME TypeOK, FlagOwned, SumMissesNobody, MutualExclusion, [Next]_vars,
                    NEW w \in Writing'
             PROVE Reading' = {} /\ Writing' = {w}
  BY DEF MutualExclusion
<1>1. CASE UNCHANGED vars
  BY <1>1 DEF vars, MutualExclusion, Reading, Writing
<1>2. ASSUME NEW t \in Threads, Step(t) PROVE Reading' = {} /\ Writing' = {w}
  <2>1. FlagOwned'
    BY FlagNext
  <2>2. Writing' \subseteq Announced'
    BY DEF Writing, Announced
  <2>3. Writing' = {w}
    BY <2>1, <2>2 DEF FlagOwned
  <2>4. w \in Writing \/ (w = t /\ WriteEnter(t))
    BY <1>2, WritingNext
  <2>5. w \in Announced
    BY <2>4 DEF Writing, Announced, WriteEnter
  <2>6. ASSUME NEW r \in Reading' PROVE FALSE
    <3>1. r \in Reading
      BY <1>2, <2>5, ReadingNext DEF ReadEnter, FlagOwned
    <3>2. CASE w \in Writing
      BY <3>1, <3>2 DEF MutualExclusion
    <3>3. CASE w = t /\ WriteEnter(t)
      <4>1. NumCounters <= line[r]
        BY <3>1, <3>3 DEF SumMissesNobody, WriteEnter
      <4>2. line[r] \in Lines
        BY <3>1 DEF Reading, TypeOK
      <4>3. line[r] \in Int /\ line[r] < NumCounters
        BY <4>2, LinesType
      <4> QED BY <4>1, <4>3, LinesType
    <3> QED BY <2>4, <3>2, <3>3
  <2> QED BY <2>3, <2>6
<1> QED BY <1>1, <1>2 DEF Next

\* the invariant holds at first
LEMMA InvInit == Init => IInv
<1> SUFFICES ASSUME Init PROVE IInv
  OBVIOUS
<1>1. TypeOK
  BY TypeInit
<1>2. \A t \in Threads : pc[t] = "idle"
  BY DEF Init
<1>3. Announced = {} /\ Writing = {} /\ \A i : Counted(i) = {}
  BY <1>2 DEF Announced, Writing, Counted
<1>4. FlagOwned
  BY <1>3 DEF FlagOwned, Init
<1>5. CountersExact
  BY <1>3, FS_EmptySet DEF CountersExact, Init
<1>6. SumsNatural /\ SumMissesNobody
  BY <1>2 DEF SumsNatural, SumMissesNobody
<1>7. MutualExclusion
  BY <1>3 DEF MutualExclusion
<1> QED BY <1>1, <1>4, <1>5, <1>6, <1>7 DEF IInv

\* and every step keeps it
LEMMA InvNext == IInv /\ [Next]_vars => IInv'
BY TypeNext, FlagNext, CountersNext, SumsNext, SumNext, ExclusionNext DEF IInv

(* The inductive invariant of the lock.                                    *)
THEOREM Inductive == Spec => []IInv
BY InvInit, InvNext, PTL DEF Spec

(* A writer is alone, for any number of threads and counter lines, though   *)
(* read_lock and the sum of write_lock run interleaved (Lock.hpp).          *)
THEOREM Exclusion == Spec => []MutualExclusion
<1>1. IInv => MutualExclusion
  BY DEF IInv
<1> QED BY <1>1, Inductive, PTL

(* The counter lines never drift from the readers that use them, through    *)
(* back-offs, unlocks and upgrades (partitioned_counter).                   *)
THEOREM NoDrift == Spec => []CountersExact
<1>1. IInv => CountersExact
  BY DEF IInv
<1> QED BY <1>1, Inductive, PTL

(* A sum that is still zero has overlooked no reader that is inside         *)
(* (readers.get() of write_lock).                                           *)
THEOREM NobodyMissed == Spec => []SumMissesNobody
<1>1. IInv => SumMissesNobody
  BY DEF IInv
<1> QED BY <1>1, Inductive, PTL

-------------------------------------------------------------------------------
(* Refinement                                                              *)

\* the initial state is one of the abstract lock
LEMMA AbstractInit == Init => Abstract!Init
<1> SUFFICES ASSUME Init PROVE Abstract!Init
  OBVIOUS
<1>1. \A t \in Threads : pc[t] = "idle"
  BY DEF Init
<1> QED BY <1>1 DEF Abstract!Init, Reading, Announced, Writing

\* every step is a step of the abstract lock or stutters
LEMMA AbstractNext == IInv /\ [Next]_vars => [Abstract!Next]_(Abstract!vars)
<1> SUFFICES ASSUME IInv, [Next]_vars PROVE [Abstract!Next]_(Abstract!vars)
  OBVIOUS
<1> USE DEF Abstract!vars
<1>1. CASE UNCHANGED vars
  BY <1>1 DEF vars, Reading, Announced, Writing
<1>2. ASSUME NEW t \in Threads, Step(t) PROVE [Abstract!Next]_(Abstract!vars)
  <2>1. TypeOK /\ FlagOwned /\ MutualExclusion /\ SumMissesNobody
    BY DEF IInv
  <2>2. CASE ReadEnter(t)
    <3>1. Announced = {} /\ t \notin Reading
      BY <2>1, <2>2 DEF ReadEnter, FlagOwned, Reading
    <3>2. Reading' = Reading \cup {t} /\ Announced' = Announced /\ Writing' = Writing
      BY <2>1, <2>2 DEF ReadEnter, Goto, TypeOK, Reading, Announced, Writing
    <3> QED BY <3>1, <3>2 DEF Abstract!Next, Abstract!EnterRead
  <2>3. CASE ReadUnlock(t) \/ UpgradeFails(t)
    <3>1. t \in Reading
      BY <2>3 DEF ReadUnlock, UpgradeFails, Reading
    <3>2. Reading' = Reading \ {t} /\ Announced' = Announced /\ Writing' = Writing
      BY <2>1, <2>3 DEF ReadUnlock, UpgradeFails, Goto, TypeOK, Reading, Announced, Writing
    <3> QED BY <3>1, <3>2 DEF Abstract!Next, Abstract!LeaveRead
  <2>4. CASE UpgradeDrop(t)
    <3>1. t \in Reading
      BY <2>4 DEF UpgradeDrop, Reading
    <3>2. Reading' = Reading \ {t} /\ Announced' = Announced /\ Writing' = Writing
      BY <2>1, <2>4 DEF UpgradeDrop, Goto, TypeOK, Reading, Announced, Writing
    <3> QED BY <3>1, <3>2 DEF Abstract!Next, Abstract!LeaveRead
  <2>5. CASE SetFlag(t) \/ UpgradeSetFlag(t)
    <3>1. Announced = {}
      BY <2>1, <2>5 DEF SetFlag, UpgradeSetFlag, FlagOwned
    <3>2. Reading' = Reading /\ Announced' = Announced \cup {t} /\ Writing' = Writing
      BY <2>1, <2>5 DEF SetFlag, UpgradeSetFlag, Goto, TypeOK, Reading, Announced, Writing
    <3> QED BY <3>1, <3>2 DEF Abstract!Next, Abstract!Announce
  <2>6. CASE WriteEnter(t)
    <3>1. t \in Announced /\ t \notin Writing
      BY <2>6 DEF WriteEnter, Announced, Writing
    <3>2. Writing = {}
      BY <2>1, <3>1 DEF FlagOwned, Writing, Announced
    <3>3. Reading' = Reading /\ Announced' = Announced /\ Writing' = Writing \cup {t}
      BY <2>1, <2>6 DEF WriteEnter, Goto, TypeOK, Reading, Announced, Writing
    <3>4. MutualExclusion'
      BY ExclusionNext, <2>1
    <3>5. Reading = {}
      BY <3>3, <3>4 DEF MutualExclusion
    <3> QED BY <3>1, <3>2, <3>3, <3>5 DEF Abstract!Next, Abstract!EnterWrite
  <2>7. CASE WriteUnlock(t)
    <3>1. t \in Writing /\ t \in Announced
      BY <2>7 DEF WriteUnlock, Writing, Announced
    <3>2. Reading' = Reading /\ Announced' = Announced \ {t} /\ Writing' = Writing \ {t}
      BY <2>1, <2>7 DEF WriteUnlock, Goto, TypeOK, Reading, Announced, Writing
    <3>3. Announced' = {} /\ Writing' = {}
      BY <2>1, <3>1, <3>2 DEF FlagOwned, MutualExclusion
    <3> QED BY <3>1, <3>2, <3>3 DEF Abstract!Next, Abstract!LeaveWrite
  <2>8. CASE ReadCall(t) \/ ReadAdd(t) \/ ReadSeesWriter(t) \/ ReadBackOff(t) \/ ReadWake(t)
             \/ WriteCall(t)
    <3>1. Reading' = Reading /\ Announced' = Announced /\ Writing' = Writing
      BY <2>1, <2>8 DEF ReadCall, ReadAdd, ReadSeesWriter, ReadBackOff, ReadWake, WriteCall, Goto,
           TypeOK, Reading, Announced, Writing
    <3> QED BY <3>1
  <2>9. CASE FlagTaken(t) \/ WriteWake(t) \/ SumOneLine(t) \/ SumAgain(t) \/ UpgradeSeesWriter(t)
    <3>1. Reading' = Reading /\ Announced' = Announced /\ Writing' = Writing
      BY <2>1, <2>9 DEF FlagTaken, WriteWake, SumOneLine, SumAgain, UpgradeSeesWriter, Goto,
           TypeOK, Reading, Announced, Writing
    <3> QED BY <3>1
  <2> QED BY <1>2, <2>2, <2>3, <2>4, <2>5, <2>6, <2>7, <2>8, <2>9 DEF Step
<1> QED BY <1>1, <1>2 DEF Next

(* The lock of Lock.hpp is the abstract reader-writer lock that BSkip.tla   *)
(* gives every node, for any number of threads and counter lines.           *)
THEOREM Refinement == Spec => ImplementsLock
BY Inductive, AbstractInit, AbstractNext, PTL DEF Spec, ImplementsLock, Abstract!Spec
===============================================================================
