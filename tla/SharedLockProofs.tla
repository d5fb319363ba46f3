--------------------------- MODULE SharedLockProofs ---------------------------
(***************************************************************************)
(* CSharedLock excludes whatever the number of threads.  The argument: the *)
(* counters are exact (the announced writer owns the critical section, so  *)
(* there is one at most), and of a reader and a writer that meet, the one  *)
(* whose test comes second sees the other counted.                         *)
(***************************************************************************)
EXTENDS SharedLock, FiniteSetTheorems, TLAPS

\* Which way a thread in the critical section is going.
GoalOK ==
  \A t \in Thread : /\ at[t] = "inside" => goal[t] = "shared"
                    /\ at[t] \in {"announcing", "disowning"} => goal[t] # "shared"

IInv ==
  TypeOK /\ GoalOK /\ CountsExact /\ Exclusion /\ OwnerExact /\ NoLostWakeup

\* The sets that the two counters count.
Readers == {t \in Thread : Counted(t)}
Writers == In(Announced)

\* The counted threads are finitely many, and a counter is zero exactly when
\* nobody is counted.
LEMMA CountersFinite ==
  /\ IsFiniteSet(Readers) /\ IsFiniteSet(Writers)
  /\ Cardinality(Readers) \in Nat /\ Cardinality(Writers) \in Nat
  /\ Cardinality(Readers) = 0 <=> Readers = {}
  /\ Cardinality(Writers) = 0 <=> Writers = {}
<1>1. Readers \subseteq Thread /\ Writers \subseteq Thread
  BY DEF Readers, Writers, In
<1>2. IsFiniteSet(Readers) /\ IsFiniteSet(Writers)
  BY <1>1, SharedLockAssumption, FS_Subset
<1> QED BY <1>2, FS_CardinalityType, FS_EmptySet

\* A thread that starts to be counted adds one.
LEMMA CountUp ==
  ASSUME NEW S, NEW T, NEW x, IsFiniteSet(S), x \notin S, T = S \cup {x}
  PROVE  Cardinality(T) = Cardinality(S) + 1
BY FS_AddElement

\* A thread that ends to be counted takes one away.
LEMMA CountDown ==
  ASSUME NEW S, NEW T, NEW x, IsFiniteSet(S), x \in S, T = S \ {x}
  PROVE  Cardinality(T) = Cardinality(S) - 1 /\ Cardinality(S) > 0
<1>1. Cardinality(T) = Cardinality(S) - 1
  BY FS_RemoveElement
<1>2. Cardinality(S) \in Nat /\ Cardinality(S) # 0
  BY FS_CardinalityType, FS_EmptySet
<1> QED BY <1>1, <1>2

\* What a thread may do, if it is right about what it holds: Unlock is one of
\* the other two.
LEMMA NextCases ==
  ASSUME OwnerExact, [Next]_vars
  PROVE  \/ UNCHANGED vars
         \/ \E t \in Thread :
              \/ LockShared(t) \/ LockExclusive(t) \/ ConvertToExclusive(t) \/ UnlockShared(t)
              \/ UnlockExclusive(t) \/ Enter(t) \/ SeekWriter(t) \/ BackOff(t)
              \/ CountInside(t) \/ Clear(t) \/ TestWriters(t) \/ Signal(t)
              \/ Announce(t) \/ CheckReaders(t) \/ Wait(t) \/ Own(t)
              \/ Disown(t) \/ Leave(t)
<1>1. ASSUME NEW t \in Thread, Unlock(t) PROVE UnlockShared(t) \/ UnlockExclusive(t)
  BY <1>1 DEF Unlock, OwnerExact, UnlockShared, UnlockExclusive
<1> QED BY <1>1 DEF Next, Release, Step

\* The types are kept; a reader that leaves was counted, so the counters stay
\* natural numbers.
LEMMA TypeStep ==
  ASSUME IInv, [Next]_vars PROVE TypeOK'
<1> USE DEF IInv, TypeOK, Stages, Goals
<1>1. ASSUME NEW t \in Thread, Counted(t) PROVE readers - 1 \in Nat
  <2>1. t \in Readers
    BY <1>1 DEF Readers
  <2>2. readers \in Nat /\ readers # 0
    BY <2>1, CountersFinite DEF CountsExact, Readers
  <2> QED BY <2>2
<1>2. ASSUME NEW t \in Thread, at[t] \in Announced PROVE writers - 1 \in Nat
  <2>1. t \in Writers
    BY <1>2 DEF Writers, In
  <2>2. writers \in Nat /\ writers # 0
    BY <2>1, CountersFinite DEF CountsExact, Writers
  <2> QED BY <2>2
<1>3. TypeOK'
  <2>0. CASE UNCHANGED vars
    BY <2>0 DEF vars
  <2>1. ASSUME NEW t \in Thread, LockShared(t) PROVE TypeOK'
    BY <2>1 DEF LockShared, To
  <2>2. ASSUME NEW t \in Thread, LockExclusive(t) PROVE TypeOK'
    BY <2>2 DEF LockExclusive, To
  <2>3. ASSUME NEW t \in Thread, ConvertToExclusive(t) PROVE TypeOK'
    BY <2>3, <1>1 DEF ConvertToExclusive, DropShared, To, After, Counted
  <2>4. ASSUME NEW t \in Thread, UnlockShared(t) PROVE TypeOK'
    BY <2>4, <1>1 DEF UnlockShared, DropShared, To, After, Counted
  <2>5. ASSUME NEW t \in Thread, UnlockExclusive(t) PROVE TypeOK'
    BY <2>5, <1>2 DEF UnlockExclusive, DropExclusive, To, Announced
  <2>6. ASSUME NEW t \in Thread, Enter(t) PROVE TypeOK'
    BY <2>6 DEF Enter, To
  <2>7. ASSUME NEW t \in Thread, SeekWriter(t) PROVE TypeOK'
    BY <2>7 DEF SeekWriter, To
  <2>8. ASSUME NEW t \in Thread, BackOff(t) PROVE TypeOK'
    BY <2>8, <1>1 DEF BackOff, To, Counted
  <2>9. ASSUME NEW t \in Thread, CountInside(t) PROVE TypeOK'
    BY <2>9 DEF CountInside, To
  <2>10. ASSUME NEW t \in Thread, Clear(t) PROVE TypeOK'
    BY <2>10 DEF Clear, To
  <2>11. ASSUME NEW t \in Thread, TestWriters(t) PROVE TypeOK'
    BY <2>11 DEF TestWriters, To, After
  <2>12. ASSUME NEW t \in Thread, Signal(t) PROVE TypeOK'
    BY <2>12 DEF Signal, To, After
  <2>13. ASSUME NEW t \in Thread, Announce(t) PROVE TypeOK'
    BY <2>13 DEF Announce, To
  <2>14. ASSUME NEW t \in Thread, CheckReaders(t) PROVE TypeOK'
    BY <2>14 DEF CheckReaders, To
  <2>15. ASSUME NEW t \in Thread, Wait(t) PROVE TypeOK'
    BY <2>15 DEF Wait, To
  <2>16. ASSUME NEW t \in Thread, Own(t) PROVE TypeOK'
    BY <2>16 DEF Own, To
  <2>17. ASSUME NEW t \in Thread, Disown(t) PROVE TypeOK'
    BY <2>17 DEF Disown, To
  <2>18. ASSUME NEW t \in Thread, Leave(t) PROVE TypeOK'
    BY <2>18 DEF Leave, To
  <2> QED
    BY <2>0, <2>1, <2>2, <2>3, <2>4, <2>5, <2>6, <2>7, <2>8, <2>9, <2>10, <2>11, <2>12, <2>13, <2>14, <2>15, <2>16, <2>17, <2>18, NextCases
<1> QED BY <1>3

\* The way of a thread in the critical section is kept.
LEMMA GoalStep ==
  ASSUME IInv, [Next]_vars PROVE GoalOK'
<1> USE DEF IInv, TypeOK, GoalOK
<1>1. GoalOK'
  <2>0. CASE UNCHANGED vars
    BY <2>0 DEF vars
  <2>1. ASSUME NEW t \in Thread, LockShared(t) PROVE GoalOK'
    BY <2>1 DEF LockShared, To
  <2>2. ASSUME NEW t \in Thread, LockExclusive(t) PROVE GoalOK'
    BY <2>2 DEF LockExclusive, To
  <2>3. ASSUME NEW t \in Thread, ConvertToExclusive(t) PROVE GoalOK'
    BY <2>3 DEF ConvertToExclusive, DropShared, To, After
  <2>4. ASSUME NEW t \in Thread, UnlockShared(t) PROVE GoalOK'
    BY <2>4 DEF UnlockShared, DropShared, To, After
  <2>5. ASSUME NEW t \in Thread, UnlockExclusive(t) PROVE GoalOK'
    BY <2>5 DEF UnlockExclusive, DropExclusive, To
  <2>6. ASSUME NEW t \in Thread, Enter(t) PROVE GoalOK'
    BY <2>6 DEF Enter, To
  <2>7. ASSUME NEW t \in Thread, SeekWriter(t) PROVE GoalOK'
    BY <2>7 DEF SeekWriter, To
  <2>8. ASSUME NEW t \in Thread, BackOff(t) PROVE GoalOK'
    BY <2>8 DEF BackOff, To
  <2>9. ASSUME NEW t \in Thread, CountInside(t) PROVE GoalOK'
    BY <2>9 DEF CountInside, To
  <2>10. ASSUME NEW t \in Thread, Clear(t) PROVE GoalOK'
    BY <2>10 DEF Clear, To
  <2>11. ASSUME NEW t \in Thread, TestWriters(t) PROVE GoalOK'
    BY <2>11 DEF TestWriters, To, After
  <2>12. ASSUME NEW t \in Thread, Signal(t) PROVE GoalOK'
    BY <2>12 DEF Signal, To, After
  <2>13. ASSUME NEW t \in Thread, Announce(t) PROVE GoalOK'
    BY <2>13 DEF Announce, To
  <2>14. ASSUME NEW t \in Thread, CheckReaders(t) PROVE GoalOK'
    BY <2>14 DEF CheckReaders, To
  <2>15. ASSUME NEW t \in Thread, Wait(t) PROVE GoalOK'
    BY <2>15 DEF Wait, To
  <2>16. ASSUME NEW t \in Thread, Own(t) PROVE GoalOK'
    BY <2>16 DEF Own, To
  <2>17. ASSUME NEW t \in Thread, Disown(t) PROVE GoalOK'
    BY <2>17 DEF Disown, To
  <2>18. ASSUME NEW t \in Thread, Leave(t) PROVE GoalOK'
    BY <2>18 DEF Leave, To
  <2> QED
    BY <2>0, <2>1, <2>2, <2>3, <2>4, <2>5, <2>6, <2>7, <2>8, <2>9, <2>10, <2>11, <2>12, <2>13, <2>14, <2>15, <2>16, <2>17, <2>18, NextCases
<1> QED BY <1>1

\* The readers are counted exactly: before they look for a writer, until they
\* back off or let the lock go.
LEMMA ReadersStep ==
  ASSUME IInv, [Next]_vars PROVE (readers = Cardinality(Readers))'
<1> USE DEF IInv, TypeOK, GoalOK
<1>1. readers = Cardinality(Readers)
  BY DEF CountsExact, Readers
<1>2. (readers = Cardinality(Readers))'
  <2> USE <1>1
  <2>0. CASE UNCHANGED vars
    BY <2>0 DEF vars, Readers, Counted
  <2>1. ASSUME NEW t \in Thread, LockShared(t) PROVE (readers = Cardinality(Readers))'
    <3>1. t \notin Readers /\ Readers' = Readers \cup {t} /\ readers' = readers + 1
      BY <2>1 DEF LockShared, To, Readers, Counted
    <3> QED BY <3>1, CountersFinite, CountUp
  <2>2. ASSUME NEW t \in Thread, LockExclusive(t) PROVE (readers = Cardinality(Readers))'
    <3>1. Readers' = Readers /\ readers' = readers
      BY <2>2 DEF LockExclusive, To, Readers, Counted
    <3> QED BY <3>1
  <2>3. ASSUME NEW t \in Thread, ConvertToExclusive(t) PROVE (readers = Cardinality(Readers))'
    <3>1. t \in Readers /\ Readers' = Readers \ {t} /\ readers' = readers - 1
      BY <2>3 DEF ConvertToExclusive, DropShared, To, After, Readers, Counted
    <3> QED BY <3>1, CountersFinite, CountDown
  <2>4. ASSUME NEW t \in Thread, UnlockShared(t) PROVE (readers = Cardinality(Readers))'
    <3>1. t \in Readers /\ Readers' = Readers \ {t} /\ readers' = readers - 1
      BY <2>4 DEF UnlockShared, DropShared, To, After, Readers, Counted
    <3> QED BY <3>1, CountersFinite, CountDown
  <2>5. ASSUME NEW t \in Thread, UnlockExclusive(t) PROVE (readers = Cardinality(Readers))'
    <3>1. Readers' = Readers /\ readers' = readers
      BY <2>5 DEF UnlockExclusive, DropExclusive, To, Readers, Counted
    <3> QED BY <3>1
  <2>6. ASSUME NEW t \in Thread, Enter(t) PROVE (readers = Cardinality(Readers))'
    <3>1. Readers' = Readers /\ readers' = readers
      BY <2>6 DEF Enter, To, Readers, Counted
    <3> QED BY <3>1
  <2>7. ASSUME NEW t \in Thread, SeekWriter(t) PROVE (readers = Cardinality(Readers))'
    <3>1. Readers' = Readers /\ readers' = readers
      BY <2>7 DEF SeekWriter, To, Readers, Counted
    <3> QED BY <3>1
  <2>8. ASSUME NEW t \in Thread, BackOff(t) PROVE (readers = Cardinality(Readers))'
    <3>1. t \in Readers /\ Readers' = Readers \ {t} /\ readers' = readers - 1
      BY <2>8 DEF BackOff, To, Readers, Counted
    <3> QED BY <3>1, CountersFinite, CountDown
  <2>9. ASSUME NEW t \in Thread, CountInside(t) PROVE (readers = Cardinality(Readers))'
    <3>1. t \notin Readers /\ Readers' = Readers \cup {t} /\ readers' = readers + 1
      BY <2>9 DEF CountInside, To, Readers, Counted
    <3> QED BY <3>1, CountersFinite, CountUp
  <2>10. ASSUME NEW t \in Thread, Clear(t) PROVE (readers = Cardinality(Readers))'
    <3>1. Readers' = Readers /\ readers' = readers
      BY <2>10 DEF Clear, To, Readers, Counted
    <3> QED BY <3>1
  <2>11. ASSUME NEW t \in Thread, TestWriters(t) PROVE (readers = Cardinality(Readers))'
    <3>1. Readers' = Readers /\ readers' = readers
      BY <2>11 DEF TestWriters, To, After, Readers, Counted
    <3> QED BY <3>1
  <2>12. ASSUME NEW t \in Thread, Signal(t) PROVE (readers = Cardinality(Readers))'
    <3>1. Readers' = Readers /\ readers' = readers
      BY <2>12 DEF Signal, To, After, Readers, Counted
    <3> QED BY <3>1
  <2>13. ASSUME NEW t \in Thread, Announce(t) PROVE (readers = Cardinality(Readers))'
    <3>1. Readers' = Readers /\ readers' = readers
      BY <2>13 DEF Announce, To, Readers, Counted
    <3> QED BY <3>1
  <2>14. ASSUME NEW t \in Thread, CheckReaders(t) PROVE (readers = Cardinality(Readers))'
    <3>1. Readers' = Readers /\ readers' = readers
      BY <2>14 DEF CheckReaders, To, Readers, Counted
    <3> QED BY <3>1
  <2>15. ASSUME NEW t \in Thread, Wait(t) PROVE (readers = Cardinality(Readers))'
    <3>1. Readers' = Readers /\ readers' = readers
      BY <2>15 DEF Wait, To, Readers, Counted
    <3> QED BY <3>1
  <2>16. ASSUME NEW t \in Thread, Own(t) PROVE (readers = Cardinality(Readers))'
    <3>1. Readers' = Readers /\ readers' = readers
      BY <2>16 DEF Own, To, Readers, Counted
    <3> QED BY <3>1
  <2>17. ASSUME NEW t \in Thread, Disown(t) PROVE (readers = Cardinality(Readers))'
    <3>1. Readers' = Readers /\ readers' = readers
      BY <2>17 DEF Disown, To, Readers, Counted
    <3> QED BY <3>1
  <2>18. ASSUME NEW t \in Thread, Leave(t) PROVE (readers = Cardinality(Readers))'
    <3>1. Readers' = Readers /\ readers' = readers
      BY <2>18 DEF Leave, To, Readers, Counted
    <3> QED BY <3>1
  <2> QED
    BY <2>0, <2>1, <2>2, <2>3, <2>4, <2>5, <2>6, <2>7, <2>8, <2>9, <2>10, <2>11, <2>12, <2>13, <2>14, <2>15, <2>16, <2>17, <2>18, NextCases
<1> QED BY <1>2

\* The announced writers are counted exactly.
LEMMA WritersStep ==
  ASSUME IInv, [Next]_vars PROVE (writers = Cardinality(Writers))'
<1> USE DEF IInv, TypeOK, GoalOK
<1>1. writers = Cardinality(Writers)
  BY DEF CountsExact, Writers
<1>2. (writers = Cardinality(Writers))'
  <2> USE <1>1
  <2>0. CASE UNCHANGED vars
    BY <2>0 DEF vars, Writers, In, Announced
  <2>1. ASSUME NEW t \in Thread, LockShared(t) PROVE (writers = Cardinality(Writers))'
    <3>1. Writers' = Writers /\ writers' = writers
      BY <2>1 DEF LockShared, To, Writers, In, Announced
    <3> QED BY <3>1
  <2>2. ASSUME NEW t \in Thread, LockExclusive(t) PROVE (writers = Cardinality(Writers))'
    <3>1. Writers' = Writers /\ writers' = writers
      BY <2>2 DEF LockExclusive, To, Writers, In, Announced
    <3> QED BY <3>1
  <2>3. ASSUME NEW t \in Thread, ConvertToExclusive(t) PROVE (writers = Cardinality(Writers))'
    <3>1. Writers' = Writers /\ writers' = writers
      BY <2>3 DEF ConvertToExclusive, DropShared, To, After, Writers, In, Announced
    <3> QED BY <3>1
  <2>4. ASSUME NEW t \in Thread, UnlockShared(t) PROVE (writers = Cardinality(Writers))'
    <3>1. Writers' = Writers /\ writers' = writers
      BY <2>4 DEF UnlockShared, DropShared, To, After, Writers, In, Announced
    <3> QED BY <3>1
  <2>5. ASSUME NEW t \in Thread, UnlockExclusive(t) PROVE (writers = Cardinality(Writers))'
    <3>1. t \in Writers /\ Writers' = Writers \ {t} /\ writers' = writers - 1
      BY <2>5 DEF UnlockExclusive, DropExclusive, To, Writers, In, Announced
    <3> QED BY <3>1, CountersFinite, CountDown
  <2>6. ASSUME NEW t \in Thread, Enter(t) PROVE (writers = Cardinality(Writers))'
    <3>1. Writers' = Writers /\ writers' = writers
      BY <2>6 DEF Enter, To, Writers, In, Announced
    <3> QED BY <3>1
  <2>7. ASSUME NEW t \in Thread, SeekWriter(t) PROVE (writers = Cardinality(Writers))'
    <3>1. Writers' = Writers /\ writers' = writers
      BY <2>7 DEF SeekWriter, To, Writers, In, Announced
    <3> QED BY <3>1
  <2>8. ASSUME NEW t \in Thread, BackOff(t) PROVE (writers = Cardinality(Writers))'
    <3>1. Writers' = Writers /\ writers' = writers
      BY <2>8 DEF BackOff, To, Writers, In, Announced
    <3> QED BY <3>1
  <2>9. ASSUME NEW t \in Thread, CountInside(t) PROVE (writers = Cardinality(Writers))'
    <3>1. Writers' = Writers /\ writers' = writers
      BY <2>9 DEF CountInside, To, Writers, In, Announced
    <3> QED BY <3>1
  <2>10. ASSUME NEW t \in Thread, Clear(t) PROVE (writers = Cardinality(Writers))'
    <3>1. Writers' = Writers /\ writers' = writers
      BY <2>10 DEF Clear, To, Writers, In, Announced
    <3> QED BY <3>1
  <2>11. ASSUME NEW t \in Thread, TestWriters(t) PROVE (writers = Cardinality(Writers))'
    <3>1. Writers' = Writers /\ writers' = writers
      BY <2>11 DEF TestWriters, To, After, Writers, In, Announced
    <3> QED BY <3>1
  <2>12. ASSUME NEW t \in Thread, Signal(t) PROVE (writers = Cardinality(Writers))'
    <3>1. Writers' = Writers /\ writers' = writers
      BY <2>12 DEF Signal, To, After, Writers, In, Announced
    <3> QED BY <3>1
  <2>13. ASSUME NEW t \in Thread, Announce(t) PROVE (writers = Cardinality(Writers))'
    <3>1. t \notin Writers /\ Writers' = Writers \cup {t} /\ writers' = writers + 1
      BY <2>13 DEF Announce, To, Writers, In, Announced
    <3> QED BY <3>1, CountersFinite, CountUp
  <2>14. ASSUME NEW t \in Thread, CheckReaders(t) PROVE (writers = Cardinality(Writers))'
    <3>1. Writers' = Writers /\ writers' = writers
      BY <2>14 DEF CheckReaders, To, Writers, In, Announced
    <3> QED BY <3>1
  <2>15. ASSUME NEW t \in Thread, Wait(t) PROVE (writers = Cardinality(Writers))'
    <3>1. Writers' = Writers /\ writers' = writers
      BY <2>15 DEF Wait, To, Writers, In, Announced
    <3> QED BY <3>1
  <2>16. ASSUME NEW t \in Thread, Own(t) PROVE (writers = Cardinality(Writers))'
    <3>1. Writers' = Writers /\ writers' = writers
      BY <2>16 DEF Own, To, Writers, In, Announced
    <3> QED BY <3>1
  <2>17. ASSUME NEW t \in Thread, Disown(t) PROVE (writers = Cardinality(Writers))'
    <3>1. Writers' = Writers /\ writers' = writers
      BY <2>17 DEF Disown, To, Writers, In, Announced
    <3> QED BY <3>1
  <2>18. ASSUME NEW t \in Thread, Leave(t) PROVE (writers = Cardinality(Writers))'
    <3>1. Writers' = Writers /\ writers' = writers
      BY <2>18 DEF Leave, To, Writers, In, Announced
    <3> QED BY <3>1
  <2> QED
    BY <2>0, <2>1, <2>2, <2>3, <2>4, <2>5, <2>6, <2>7, <2>8, <2>9, <2>10, <2>11, <2>12, <2>13, <2>14, <2>15, <2>16, <2>17, <2>18, NextCases
<1> QED BY <1>2

\* The critical section has one owner, who is inside.
LEMMA InsideStep ==
  ASSUME IInv, [Next]_vars PROVE (\A t \in Thread : at[t] \in Inside <=> lock = t)'
<1> USE DEF IInv, TypeOK
<1> DEFINE P == \A t \in Thread : at[t] \in Inside <=> lock = t
<1>1. P
  BY DEF CountsExact
<1> USE SharedLockAssumption DEF Inside, Announced
<1>2. P'
  <2> USE <1>1
  <2>0. CASE UNCHANGED vars
    BY <2>0 DEF vars
  <2>1. ASSUME NEW t \in Thread, LockShared(t) PROVE P'
    BY <2>1 DEF LockShared, To
  <2>2. ASSUME NEW t \in Thread, LockExclusive(t) PROVE P'
    BY <2>2 DEF LockExclusive, To
  <2>3. ASSUME NEW t \in Thread, ConvertToExclusive(t) PROVE P'
    BY <2>3 DEF ConvertToExclusive, DropShared, To, After
  <2>4. ASSUME NEW t \in Thread, UnlockShared(t) PROVE P'
    BY <2>4 DEF UnlockShared, DropShared, To, After
  <2>5. ASSUME NEW t \in Thread, UnlockExclusive(t) PROVE P'
    BY <2>5 DEF UnlockExclusive, DropExclusive, To
  <2>6. ASSUME NEW t \in Thread, Enter(t) PROVE P'
    BY <2>6 DEF Enter, To
  <2>7. ASSUME NEW t \in Thread, SeekWriter(t) PROVE P'
    BY <2>7 DEF SeekWriter, To
  <2>8. ASSUME NEW t \in Thread, BackOff(t) PROVE P'
    BY <2>8 DEF BackOff, To
  <2>9. ASSUME NEW t \in Thread, CountInside(t) PROVE P'
    BY <2>9 DEF CountInside, To
  <2>10. ASSUME NEW t \in Thread, Clear(t) PROVE P'
    BY <2>10 DEF Clear, To
  <2>11. ASSUME NEW t \in Thread, TestWriters(t) PROVE P'
    BY <2>11 DEF TestWriters, To, After
  <2>12. ASSUME NEW t \in Thread, Signal(t) PROVE P'
    BY <2>12 DEF Signal, To, After
  <2>13. ASSUME NEW t \in Thread, Announce(t) PROVE P'
    BY <2>13 DEF Announce, To
  <2>14. ASSUME NEW t \in Thread, CheckReaders(t) PROVE P'
    BY <2>14 DEF CheckReaders, To
  <2>15. ASSUME NEW t \in Thread, Wait(t) PROVE P'
    BY <2>15 DEF Wait, To
  <2>16. ASSUME NEW t \in Thread, Own(t) PROVE P'
    BY <2>16 DEF Own, To
  <2>17. ASSUME NEW t \in Thread, Disown(t) PROVE P'
    BY <2>17 DEF Disown, To
  <2>18. ASSUME NEW t \in Thread, Leave(t) PROVE P'
    BY <2>18 DEF Leave, To
  <2> QED
    BY <2>0, <2>1, <2>2, <2>3, <2>4, <2>5, <2>6, <2>7, <2>8, <2>9, <2>10, <2>11, <2>12, <2>13, <2>14, <2>15, <2>16, <2>17, <2>18, NextCases
<1> QED BY <1>2

\* The counters are exact in the next state.
LEMMA CountsStep ==
  ASSUME IInv, [Next]_vars PROVE CountsExact'
BY ReadersStep, WritersStep, InsideStep DEF CountsExact, Readers, Writers

\* What the counters mean for the tests: a reader that sees no writer has no
\* exclusive owner before it, and a writer that sees no readers is alone.
LEMMA TestsDecide ==
  ASSUME IInv
  PROVE  /\ writers = 0 => \A t \in Thread : at[t] \notin Announced
         /\ readers = 0 => \A t \in Thread : ~ Counted(t)
         /\ \A t, u \in Thread : at[t] \in Inside /\ at[u] \in Inside => t = u
<1>1. readers = Cardinality(Readers) /\ writers = Cardinality(Writers)
  BY DEF IInv, CountsExact, Readers, Writers
<1>2. (readers = 0 => Readers = {}) /\ (writers = 0 => Writers = {})
  BY <1>1, CountersFinite
<1>3. \A t, u \in Thread : at[t] \in Inside /\ at[u] \in Inside => t = u
  BY DEF IInv, CountsExact
<1> QED BY <1>2, <1>3 DEF Readers, Writers, In

\* Exclusion is kept.
LEMMA ExclusionStep ==
  ASSUME IInv, [Next]_vars PROVE Exclusion'
<1> USE TestsDecide DEF IInv, TypeOK, GoalOK, Exclusion
<1>1. Exclusion'
  <2>0. CASE UNCHANGED vars
    BY <2>0 DEF vars, Excludes, Shares
  <2>1. ASSUME NEW t \in Thread, LockShared(t) PROVE Exclusion'
    BY <2>1 DEF LockShared, To, Excludes, Shares
  <2>2. ASSUME NEW t \in Thread, LockExclusive(t) PROVE Exclusion'
    BY <2>2 DEF LockExclusive, To, Excludes, Shares
  <2>3. ASSUME NEW t \in Thread, ConvertToExclusive(t) PROVE Exclusion'
    BY <2>3 DEF ConvertToExclusive, DropShared, To, After, Excludes, Shares
  <2>4. ASSUME NEW t \in Thread, UnlockShared(t) PROVE Exclusion'
    BY <2>4 DEF UnlockShared, DropShared, To, After, Excludes, Shares
  <2>5. ASSUME NEW t \in Thread, UnlockExclusive(t) PROVE Exclusion'
    BY <2>5 DEF UnlockExclusive, DropExclusive, To, Excludes, Shares
  <2>6. ASSUME NEW t \in Thread, Enter(t) PROVE Exclusion'
    BY <2>6 DEF Enter, To, Excludes, Shares
  <2>7. ASSUME NEW t \in Thread, SeekWriter(t) PROVE Exclusion'
    BY <2>7 DEF SeekWriter, To, Excludes, Shares, Announced
  <2>8. ASSUME NEW t \in Thread, BackOff(t) PROVE Exclusion'
    BY <2>8 DEF BackOff, To, Excludes, Shares
  <2>9. ASSUME NEW t \in Thread, CountInside(t) PROVE Exclusion'
    BY <2>9 DEF CountInside, To, Excludes, Shares, Inside, Announced
  <2>10. ASSUME NEW t \in Thread, Clear(t) PROVE Exclusion'
    BY <2>10 DEF Clear, To, Excludes, Shares
  <2>11. ASSUME NEW t \in Thread, TestWriters(t) PROVE Exclusion'
    BY <2>11 DEF TestWriters, To, After, Excludes, Shares
  <2>12. ASSUME NEW t \in Thread, Signal(t) PROVE Exclusion'
    BY <2>12 DEF Signal, To, After, Excludes, Shares
  <2>13. ASSUME NEW t \in Thread, Announce(t) PROVE Exclusion'
    BY <2>13 DEF Announce, To, Excludes, Shares
  <2>14. ASSUME NEW t \in Thread, CheckReaders(t) PROVE Exclusion'
    BY <2>14 DEF CheckReaders, To, Excludes, Shares, Inside, Announced, Counted
  <2>15. ASSUME NEW t \in Thread, Wait(t) PROVE Exclusion'
    BY <2>15 DEF Wait, To, Excludes, Shares
  <2>16. ASSUME NEW t \in Thread, Own(t) PROVE Exclusion'
    BY <2>16 DEF Own, To, Excludes, Shares
  <2>17. ASSUME NEW t \in Thread, Disown(t) PROVE Exclusion'
    BY <2>17 DEF Disown, To, Excludes, Shares
  <2>18. ASSUME NEW t \in Thread, Leave(t) PROVE Exclusion'
    BY <2>18 DEF Leave, To, Excludes, Shares
  <2> QED
    BY <2>0, <2>1, <2>2, <2>3, <2>4, <2>5, <2>6, <2>7, <2>8, <2>9, <2>10, <2>11, <2>12, <2>13, <2>14, <2>15, <2>16, <2>17, <2>18, NextCases
<1> QED BY <1>1

\* Who is the owner is kept: only a thread that has the lock exclusively
\* becomes it, and whoever resets it does so with no such thread around.
LEMMA OwnerStep ==
  ASSUME IInv, [Next]_vars PROVE OwnerExact'
<1> USE TestsDecide, SharedLockAssumption DEF IInv, TypeOK, OwnerExact
<1>1. OwnerExact'
  <2>0. CASE UNCHANGED vars
    BY <2>0 DEF vars
  <2>1. ASSUME NEW t \in Thread, LockShared(t) PROVE OwnerExact'
    BY <2>1 DEF LockShared, To
  <2>2. ASSUME NEW t \in Thread, LockExclusive(t) PROVE OwnerExact'
    BY <2>2 DEF LockExclusive, To
  <2>3. ASSUME NEW t \in Thread, ConvertToExclusive(t) PROVE OwnerExact'
    BY <2>3 DEF ConvertToExclusive, DropShared, To, After
  <2>4. ASSUME NEW t \in Thread, UnlockShared(t) PROVE OwnerExact'
    BY <2>4 DEF UnlockShared, DropShared, To, After
  <2>5. ASSUME NEW t \in Thread, UnlockExclusive(t) PROVE OwnerExact'
    BY <2>5 DEF UnlockExclusive, DropExclusive, To
  <2>6. ASSUME NEW t \in Thread, Enter(t) PROVE OwnerExact'
    BY <2>6 DEF Enter, To
  <2>7. ASSUME NEW t \in Thread, SeekWriter(t) PROVE OwnerExact'
    BY <2>7 DEF SeekWriter, To
  <2>8. ASSUME NEW t \in Thread, BackOff(t) PROVE OwnerExact'
    BY <2>8 DEF BackOff, To
  <2>9. ASSUME NEW t \in Thread, CountInside(t) PROVE OwnerExact'
    BY <2>9 DEF CountInside, To
  <2>10. ASSUME NEW t \in Thread, Clear(t) PROVE OwnerExact'
    BY <2>10 DEF Clear, To, Exclusion, Excludes, Shares
  <2>11. ASSUME NEW t \in Thread, TestWriters(t) PROVE OwnerExact'
    BY <2>11 DEF TestWriters, To, After
  <2>12. ASSUME NEW t \in Thread, Signal(t) PROVE OwnerExact'
    BY <2>12 DEF Signal, To, After
  <2>13. ASSUME NEW t \in Thread, Announce(t) PROVE OwnerExact'
    BY <2>13 DEF Announce, To
  <2>14. ASSUME NEW t \in Thread, CheckReaders(t) PROVE OwnerExact'
    BY <2>14 DEF CheckReaders, To
  <2>15. ASSUME NEW t \in Thread, Wait(t) PROVE OwnerExact'
    BY <2>15 DEF Wait, To
  <2>16. ASSUME NEW t \in Thread, Own(t) PROVE OwnerExact'
    BY <2>16 DEF Own, To, Exclusion, Excludes, Shares
  <2>17. ASSUME NEW t \in Thread, Disown(t) PROVE OwnerExact'
    BY <2>17 DEF Disown, To, Inside, Announced
  <2>18. ASSUME NEW t \in Thread, Leave(t) PROVE OwnerExact'
    BY <2>18 DEF Leave, To
  <2> QED
    BY <2>0, <2>1, <2>2, <2>3, <2>4, <2>5, <2>6, <2>7, <2>8, <2>9, <2>10, <2>11, <2>12, <2>13, <2>14, <2>15, <2>16, <2>17, <2>18, NextCases
<1> QED BY <1>1

\* A waiting writer stays certain to be woken.
LEMMA WakeStep ==
  ASSUME IInv, [Next]_vars PROVE NoLostWakeup'
<1> USE DEF IInv, TypeOK, NoLostWakeup, In
<1>1. NoLostWakeup'
  <2>0. CASE UNCHANGED vars
    BY <2>0 DEF vars
  <2>1. ASSUME NEW t \in Thread, LockShared(t) PROVE NoLostWakeup'
    BY <2>1 DEF LockShared, To
  <2>2. ASSUME NEW t \in Thread, LockExclusive(t) PROVE NoLostWakeup'
    BY <2>2 DEF LockExclusive, To
  <2>3. ASSUME NEW t \in Thread, ConvertToExclusive(t) PROVE NoLostWakeup'
    BY <2>3 DEF ConvertToExclusive, DropShared, To, After
  <2>4. ASSUME NEW t \in Thread, UnlockShared(t) PROVE NoLostWakeup'
    BY <2>4 DEF UnlockShared, DropShared, To, After
  <2>5. ASSUME NEW t \in Thread, UnlockExclusive(t) PROVE NoLostWakeup'
    BY <2>5 DEF UnlockExclusive, DropExclusive, To
  <2>6. ASSUME NEW t \in Thread, Enter(t) PROVE NoLostWakeup'
    BY <2>6 DEF Enter, To
  <2>7. ASSUME NEW t \in Thread, SeekWriter(t) PROVE NoLostWakeup'
    BY <2>7 DEF SeekWriter, To
  <2>8. ASSUME NEW t \in Thread, BackOff(t) PROVE NoLostWakeup'
    BY <2>8 DEF BackOff, To
  <2>9. ASSUME NEW t \in Thread, CountInside(t) PROVE NoLostWakeup'
    BY <2>9 DEF CountInside, To
  <2>10. ASSUME NEW t \in Thread, Clear(t) PROVE NoLostWakeup'
    BY <2>10 DEF Clear, To
  <2>11. ASSUME NEW t \in Thread, TestWriters(t) PROVE NoLostWakeup'
    BY <2>11, TestsDecide DEF TestWriters, To, After, Announced
  <2>12. ASSUME NEW t \in Thread, Signal(t) PROVE NoLostWakeup'
    BY <2>12 DEF Signal, To, After
  <2>13. ASSUME NEW t \in Thread, Announce(t) PROVE NoLostWakeup'
    BY <2>13 DEF Announce, To
  <2>14. ASSUME NEW t \in Thread, CheckReaders(t) PROVE NoLostWakeup'
    BY <2>14 DEF CheckReaders, To
  <2>15. ASSUME NEW t \in Thread, Wait(t) PROVE NoLostWakeup'
    BY <2>15, TestsDecide DEF Wait, To, Inside, Announced
  <2>16. ASSUME NEW t \in Thread, Own(t) PROVE NoLostWakeup'
    BY <2>16 DEF Own, To
  <2>17. ASSUME NEW t \in Thread, Disown(t) PROVE NoLostWakeup'
    BY <2>17 DEF Disown, To
  <2>18. ASSUME NEW t \in Thread, Leave(t) PROVE NoLostWakeup'
    BY <2>18 DEF Leave, To
  <2> QED
    BY <2>0, <2>1, <2>2, <2>3, <2>4, <2>5, <2>6, <2>7, <2>8, <2>9, <2>10, <2>11, <2>12, <2>13, <2>14, <2>15, <2>16, <2>17, <2>18, NextCases
<1> QED BY <1>1

\* The invariant is inductive.
THEOREM Inductive == Spec => []IInv
<1>1. Init => IInv
  <2> SUFFICES ASSUME Init PROVE IInv
    OBVIOUS
  <2> USE DEF Init
  <2>1. TypeOK /\ GoalOK
    BY DEF TypeOK, GoalOK, Stages, Goals
  <2>2. Readers = {} /\ Writers = {}
    BY DEF Readers, Writers, Counted, In, Announced
  <2>3. CountsExact
    <3>1. readers = Cardinality(Readers) /\ writers = Cardinality(Writers)
      BY <2>2, FS_EmptySet
    <3>2. \A t \in Thread : at[t] \in Inside <=> lock = t
      BY SharedLockAssumption DEF Inside, Announced
    <3> QED BY <3>1, <3>2 DEF CountsExact, Readers, Writers
  <2>4. Exclusion /\ OwnerExact /\ NoLostWakeup
    BY SharedLockAssumption DEF Exclusion, Excludes, OwnerExact, NoLostWakeup
  <2> QED BY <2>1, <2>3, <2>4 DEF IInv
<1>2. IInv /\ [Next]_vars => IInv'
  <2> SUFFICES ASSUME IInv, [Next]_vars PROVE IInv'
    OBVIOUS
  <2>1. TypeOK' /\ GoalOK' /\ CountsExact' /\ Exclusion' /\ OwnerExact' /\ NoLostWakeup'
    BY TypeStep, GoalStep, CountsStep, ExclusionStep, OwnerStep, WakeStep
  <2> QED BY <2>1 DEF IInv
<1> QED BY <1>1, <1>2, PTL DEF Spec

\* CSharedLock: who has the lock exclusively has it alone, however many
\* threads there are and however their steps interleave.
THEOREM ExclusionHolds == Spec => []Exclusion
<1>1. IInv => Exclusion
  BY DEF IInv
<1> QED BY <1>1, Inductive, PTL

\* The counters, the event, the critical section and the owner of CSharedLock,
\* and the stages of its callers, keep their types.
THEOREM TypeOKHolds == Spec => []TypeOK
<1>1. IInv => TypeOK
  BY DEF IInv
<1> QED BY <1>1, Inductive, PTL

\* The counters of CSharedLock are exact, and its critical section has one
\* owner.
THEOREM CountsExactHolds == Spec => []CountsExact
<1>1. IInv => CountsExact
  BY DEF IInv
<1> QED BY <1>1, Inductive, PTL

\* The assertions of UnlockShared and UnlockExclusive hold, and Unlock lets go
\* what the thread has.
THEOREM OwnerExactHolds == Spec => []OwnerExact
<1>1. IInv => OwnerExact
  BY DEF IInv
<1> QED BY <1>1, Inductive, PTL

\* No wake-up of a waiting writer is lost.
THEOREM NoLostWakeupHolds == Spec => []NoLostWakeup
<1>1. IInv => NoLostWakeup
  BY DEF IInv
<1> QED BY <1>1, Inductive, PTL

\* A step of the lock that lets one thread in, or lets it go, is that step of
\* the promised lock; every other step is none.
LEMMA PromiseStep ==
  ASSUME IInv, [Next]_vars PROVE [Promise!Next]_(Promise!vars)
<1> USE TestsDecide DEF IInv, TypeOK, GoalOK, Mode, Excludes, Shares
<1>1. ASSUME Mode' = Mode PROVE [Promise!Next]_(Promise!vars)
  BY <1>1 DEF Promise!vars
<1>2. ASSUME NEW t \in Thread, Mode[t] # "none", Mode' = [Mode EXCEPT ![t] = "none"]
      PROVE  [Promise!Next]_(Promise!vars)
  BY <1>2 DEF Promise!Next, Promise!Release
<1>3. ASSUME NEW t \in Thread, Mode[t] = "none", Mode' = [Mode EXCEPT ![t] = "shared"],
             \A u \in Thread : Mode[u] # "exclusive"
      PROVE  [Promise!Next]_(Promise!vars)
  BY <1>3 DEF Promise!Next, Promise!AcquireShared
<1>4. ASSUME NEW t \in Thread, Mode[t] = "none", Mode' = [Mode EXCEPT ![t] = "exclusive"],
             \A u \in Thread : Mode[u] = "none"
      PROVE  [Promise!Next]_(Promise!vars)
  <2>1. Promise!Alone(t) /\ Promise!Overtake(t)
    BY <1>4 DEF Promise!Alone, Promise!Overtake
  <2> QED BY <1>4, <2>1 DEF Promise!Next, Promise!AcquireExclusive
<1>5. [Promise!Next]_(Promise!vars)
  <2>0. CASE UNCHANGED vars
    BY <2>0, <1>1 DEF vars
  <2>1. ASSUME NEW t \in Thread, LockShared(t) PROVE [Promise!Next]_(Promise!vars)
    BY <2>1, <1>1 DEF LockShared, To
  <2>2. ASSUME NEW t \in Thread, LockExclusive(t) PROVE [Promise!Next]_(Promise!vars)
    BY <2>2, <1>1 DEF LockExclusive, To
  <2>3. ASSUME NEW t \in Thread, ConvertToExclusive(t) PROVE [Promise!Next]_(Promise!vars)
    BY <2>3, <1>2 DEF ConvertToExclusive, DropShared, To, After
  <2>4. ASSUME NEW t \in Thread, UnlockShared(t) PROVE [Promise!Next]_(Promise!vars)
    BY <2>4, <1>2 DEF UnlockShared, DropShared, To, After
  <2>5. ASSUME NEW t \in Thread, UnlockExclusive(t) PROVE [Promise!Next]_(Promise!vars)
    BY <2>5, <1>2 DEF UnlockExclusive, DropExclusive, To
  <2>6. ASSUME NEW t \in Thread, Enter(t) PROVE [Promise!Next]_(Promise!vars)
    BY <2>6, <1>1 DEF Enter, To
  <2>7. ASSUME NEW t \in Thread, SeekWriter(t) PROVE [Promise!Next]_(Promise!vars)
    <3>1. CASE writers = 0
      <4>1. Mode[t] = "none" /\ Mode' = [Mode EXCEPT ![t] = "shared"]
        BY <2>7, <3>1 DEF SeekWriter, To
      <4>2. \A u \in Thread : Mode[u] # "exclusive"
        BY <3>1 DEF Announced
      <4> QED BY <1>3, <4>1, <4>2
    <3>2. CASE writers # 0
      BY <2>7, <3>2, <1>1 DEF SeekWriter, To
    <3> QED BY <3>1, <3>2
  <2>8. ASSUME NEW t \in Thread, BackOff(t) PROVE [Promise!Next]_(Promise!vars)
    BY <2>8, <1>1 DEF BackOff, To
  <2>9. ASSUME NEW t \in Thread, CountInside(t) PROVE [Promise!Next]_(Promise!vars)
    <3>1. Mode[t] = "none" /\ Mode' = [Mode EXCEPT ![t] = "shared"]
      BY <2>9 DEF CountInside, To
    <3>2. \A u \in Thread : Mode[u] # "exclusive"
      BY <2>9 DEF CountInside, Inside, Announced
    <3> QED BY <1>3, <3>1, <3>2
  <2>10. ASSUME NEW t \in Thread, Clear(t) PROVE [Promise!Next]_(Promise!vars)
    BY <2>10, <1>1 DEF Clear, To
  <2>11. ASSUME NEW t \in Thread, TestWriters(t) PROVE [Promise!Next]_(Promise!vars)
    BY <2>11, <1>1 DEF TestWriters, To, After
  <2>12. ASSUME NEW t \in Thread, Signal(t) PROVE [Promise!Next]_(Promise!vars)
    BY <2>12, <1>1 DEF Signal, To, After
  <2>13. ASSUME NEW t \in Thread, Announce(t) PROVE [Promise!Next]_(Promise!vars)
    BY <2>13, <1>1 DEF Announce, To
  <2>14. ASSUME NEW t \in Thread, CheckReaders(t) PROVE [Promise!Next]_(Promise!vars)
    <3>1. CASE readers = 0
      <4>1. Mode[t] = "none" /\ Mode' = [Mode EXCEPT ![t] = "exclusive"]
        BY <2>14, <3>1 DEF CheckReaders, To
      <4>2. \A u \in Thread : Mode[u] = "none"
        BY <2>14, <3>1 DEF CheckReaders, Counted, Inside, Announced
      <4> QED BY <1>4, <4>1, <4>2
    <3>2. CASE readers # 0
      BY <2>14, <3>2, <1>1 DEF CheckReaders, To
    <3> QED BY <3>1, <3>2
  <2>15. ASSUME NEW t \in Thread, Wait(t) PROVE [Promise!Next]_(Promise!vars)
    BY <2>15, <1>1 DEF Wait, To
  <2>16. ASSUME NEW t \in Thread, Own(t) PROVE [Promise!Next]_(Promise!vars)
    BY <2>16, <1>1 DEF Own, To
  <2>17. ASSUME NEW t \in Thread, Disown(t) PROVE [Promise!Next]_(Promise!vars)
    BY <2>17, <1>1 DEF Disown, To
  <2>18. ASSUME NEW t \in Thread, Leave(t) PROVE [Promise!Next]_(Promise!vars)
    BY <2>18, <1>1 DEF Leave, To
  <2> QED
    BY <2>0, <2>1, <2>2, <2>3, <2>4, <2>5, <2>6, <2>7, <2>8, <2>9, <2>10, <2>11, <2>12, <2>13, <2>14, <2>15, <2>16, <2>17, <2>18, NextCases
<1> QED BY <1>5

\* CSharedLock implements the lock that SWMRLock promises, without the
\* conversions: both keep one abstract specification.
THEOREM Implements == Spec => KeepsPromise
<1>1. Init => Promise!Init
  BY DEF Init, Promise!Init, Mode, Excludes, Shares
<1>2. IInv /\ [Next]_vars => [Promise!Next]_(Promise!vars)
  BY PromiseStep
<1> QED BY <1>1, <1>2, Inductive, PTL DEF Spec, KeepsPromise, Promise!Spec
=============================================================================
