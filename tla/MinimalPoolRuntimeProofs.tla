---------------------- MODULE MinimalPoolRuntimeProofs ----------------------
(***************************************************************************)
(* Proofs about the pool runtime, for any number of slots, any finite set  *)
(* of submit calls, any assignment of attempt ids to them and any number   *)
(* of shutdown calls.                                                      *)
(***************************************************************************)
EXTENDS MinimalPoolRuntime, FiniteSetTheorems, SequenceTheorems, TLAPS

USE RuntimeAssumption

SlotRecord == [call : Calls \cup {NoCall}, pc : Positions,
               result : Statuses \cup {"error"}, verdict : Statuses]

-----------------------------------------------------------------------------
(* The inductive invariant.                                                *)

\* No attempt id is pending twice: not at two places of the queue, not on two
\* slots, not on a slot and in the queue.
Distinct(q, sl) ==
  /\ \A k, l \in 1..Len(q) : JobOf[q[k]] = JobOf[q[l]] => k = l
  /\ \A i, j \in Slots :
       ~Idle(sl, i) /\ ~Idle(sl, j) /\ JobOf[sl[i].call] = JobOf[sl[j].call] => i = j
  /\ \A i \in Slots, k \in 1..Len(q) : ~Idle(sl, i) => JobOf[sl[i].call] # JobOf[q[k]]

\* The attempt ids in the queue, and those on slots at one of the positions.
PendingIn(q, sl, pcs, ids) ==
  /\ \A k \in 1..Len(q) : JobOf[q[k]] \in ids
  /\ \A i \in Slots : sl[i].pc \in pcs => JobOf[sl[i].call] \in ids

Busy == Positions \ {"free"}
BeforeLaunch == {"allocate", "persistAttempt", "launch"}
Unlaunched == {j \in Jobs : launches[j] = 0}

PendingDistinct == Distinct(queue, slots)

\* Whatever is pending or was launched has been admitted.
PendingAdmitted ==
  /\ PendingIn(queue, slots, Busy, admitted)
  /\ \A j \in Jobs : j \notin admitted => launches[j] = 0

\* What is queued, or on a slot that has not passed its launch, was not launched.
PendingUnlaunched == PendingIn(queue, slots, BeforeLaunch, Unlaunched)

\* A run holds a verdict as its result only once the table has it.
ResultStored ==
  \A i \in Slots : slots[i].result \in Statuses =>
    slots[i].pc = "end" /\ stored[jobOn(i)] = slots[i].result

\* The waiters are the shutdown calls that have not returned.
WaitersKnown ==
  /\ idleWaiters = {s \in Shutdowns : shutdowns[s] = "waiting"}
  /\ \A s \in Shutdowns : shutdowns[s] # "none" => shuttingDown

RuntimeInv ==
  /\ RuntimeTypeOK
  /\ StartsInOrder
  /\ PendingDistinct
  /\ PendingAdmitted
  /\ PendingUnlaunched
  /\ LaunchedOnce
  /\ ResultStored
  /\ AnswerMatchesStored
  /\ WaitersKnown
  /\ ShutdownDrained

-----------------------------------------------------------------------------
(* schedule.                                                               *)

\* A free slot's rank is positive and at most the number of free slots, and no
\* two free slots have the same.
LEMMA RankOfFree ==
  ASSUME NEW sl, NEW i \in Slots, Idle(sl, i)
  PROVE  /\ Rank(sl, i) \in Nat \ {0}
         /\ Cardinality({k \in Slots : Idle(sl, k)}) \in Nat
         /\ Rank(sl, i) <= Cardinality({k \in Slots : Idle(sl, k)})
         /\ \A j \in Slots : Idle(sl, j) /\ Rank(sl, i) = Rank(sl, j) => i = j
<1> DEFINE Upto(n) == {k \in 1..n : Idle(sl, k)}
           Free == {k \in Slots : Idle(sl, k)}
<1>1. ASSUME NEW n \in Nat
      PROVE  IsFiniteSet(Upto(n)) /\ Cardinality(Upto(n)) \in Nat
  <2>1. IsFiniteSet(1..n)
    BY FS_Interval
  <2>2. IsFiniteSet(Upto(n))
    BY <2>1, FS_Subset
  <2> QED
    BY <2>2, FS_CardinalityType
<1>2. i \in Nat /\ SlotCount \in Nat /\ i <= SlotCount
  BY DEF Slots
<1>3. Free = Upto(SlotCount)
  BY DEF Slots
<1>4. IsFiniteSet(Free) /\ Cardinality(Free) \in Nat
  BY <1>1, <1>2, <1>3
<1>5. Upto(i) \subseteq Free
  BY <1>2 DEF Slots
<1>6. Cardinality(Upto(i)) <= Cardinality(Free)
  BY <1>4, <1>5, FS_Subset
<1>7. Cardinality(Upto(i)) # 0
  <2>1. i \in Upto(i)
    BY <1>2 DEF Slots
  <2> QED
    BY <1>1, <1>2, <2>1, FS_EmptySet
<1>8. ASSUME NEW m \in Slots, NEW j \in Slots, Idle(sl, j), m < j
      PROVE  Cardinality(Upto(m)) # Cardinality(Upto(j))
  <2>1. j \in Upto(j) /\ j \notin Upto(m) /\ Upto(m) \subseteq Upto(j)
    BY <1>8 DEF Slots
  <2>2. m \in Nat /\ j \in Nat
    BY DEF Slots
  <2> HIDE DEF Upto
  <2>3. IsFiniteSet(Upto(j))
    BY <1>1, <2>2
  <2> QED
    BY <2>1, <2>3, FS_Subset
<1>9. ASSUME NEW j \in Slots, Idle(sl, j), Rank(sl, i) = Rank(sl, j) PROVE i = j
  <2>1. i \in Nat /\ j \in Nat
    BY DEF Slots
  <2>2. ~(i < j)
    BY <1>8, <1>9 DEF Rank
  <2>3. ~(j < i)
    BY <1>8, <1>9 DEF Rank
  <2> QED
    BY <2>1, <2>2, <2>3
<1> QED
  BY <1>1, <1>2, <1>4, <1>6, <1>7, <1>9 DEF Rank

\* schedule serves a prefix of the queue: the slots keep their runs or start a
\* job of that prefix, no two the same one, and a job is left in the queue only
\* if no slot is left free.
LEMMA ScheduleFair ==
  ASSUME NEW q \in Seq(Calls), NEW sl \in [Slots -> SlotRecord]
  PROVE  LET s == schedule(q, sl) IN
         /\ s.served \in 0..Len(q)
         /\ SubSeq(q, 1, s.served) \in Seq(Calls)
         /\ SubSeq(q, s.served + 1, Len(q)) \in Seq(Calls)
         /\ q = SubSeq(q, 1, s.served) \o SubSeq(q, s.served + 1, Len(q))
         /\ Len(SubSeq(q, s.served + 1, Len(q))) = Len(q) - s.served
         /\ \A k \in 1..(Len(q) - s.served) :
              SubSeq(q, s.served + 1, Len(q))[k] = q[s.served + k]
         /\ DOMAIN s.slots = Slots
         /\ \A i \in Slots :
              \/ s.slots[i] = sl[i] /\ (Idle(sl, i) => s.served = Len(q))
              \/ /\ Idle(sl, i)
                 /\ Rank(sl, i) \in 1..s.served
                 /\ s.slots[i] = StartedSlot(q[Rank(sl, i)])
<1> DEFINE s == schedule(q, sl)
           free == Cardinality({k \in Slots : Idle(sl, k)})
<1>1. Len(q) \in Nat
  OBVIOUS
<1>2. free \in Nat
  <2>1. IsFiniteSet(1..SlotCount)
    BY FS_Interval
  <2>2. IsFiniteSet({k \in Slots : Idle(sl, k)})
    BY <2>1, FS_Subset DEF Slots
  <2> QED
    BY <2>2, FS_CardinalityType
<1>3. s.served = IF free < Len(q) THEN free ELSE Len(q)
  BY DEF schedule
<1> HIDE DEF free
<1>4. s.served \in 0..Len(q)
  BY <1>1, <1>2, <1>3
<1>5. \A k \in 1..Len(q) : q[k] \in Calls
  OBVIOUS
<1>6. SubSeq(q, 1, s.served) \in Seq(Calls)
  BY <1>1, <1>4, <1>5, SubSeqProperties
<1>7. /\ SubSeq(q, s.served + 1, Len(q)) \in Seq(Calls)
      /\ Len(SubSeq(q, s.served + 1, Len(q))) = Len(q) - s.served
      /\ \A k \in 1..(Len(q) - s.served) :
           SubSeq(q, s.served + 1, Len(q))[k] = q[s.served + k]
  <2> DEFINE m == s.served + 1
  <2>1. m \in Nat /\ Len(q) - s.served = Len(q) - m + 1 /\ m <= Len(q) + 1
    BY <1>1, <1>4
  <2> HIDE DEF m
  <2>2. \A k \in m..Len(q) : q[k] \in Calls
    BY <1>1, <1>4, <1>5 DEF m
  <2>3. /\ SubSeq(q, m, Len(q)) \in Seq(Calls)
        /\ Len(SubSeq(q, m, Len(q))) = IF m <= Len(q) THEN Len(q) - m + 1 ELSE 0
        /\ \A k \in 1..(Len(q) - m + 1) : SubSeq(q, m, Len(q))[k] = q[m + k - 1]
    BY <1>1, <2>1, <2>2, SubSeqProperties
  <2>4. \A k \in 1..(Len(q) - m + 1) : m + k - 1 = s.served + k
    BY <1>1, <1>4 DEF m
  <2> HIDE DEF s
  <2> QED
    BY <1>1, <1>4, <2>1, <2>3, <2>4 DEF m
<1>8. q = SubSeq(q, 1, s.served) \o SubSeq(q, s.served + 1, Len(q))
  <2> DEFINE k == s.served
  <2>1. 1 \in 1..(Len(q) + 1) /\ k \in (1 - 1)..Len(q) /\ Len(q) \in k..Len(q)
    BY <1>1, <1>4
  <2> HIDE DEF s, k
  <2>2. SubSeq(q, 1, k) \o SubSeq(q, k + 1, Len(q)) = SubSeq(q, 1, Len(q))
    BY <2>1, ConcatAdjacentSubSeq
  <2> QED
    BY <2>2, SubSeqFull DEF k
<1>9. DOMAIN s.slots = Slots
  BY DEF schedule
<1>10. ASSUME NEW i \in Slots
       PROVE  \/ s.slots[i] = sl[i] /\ (Idle(sl, i) => s.served = Len(q))
              \/ /\ Idle(sl, i)
                 /\ Rank(sl, i) \in 1..s.served
                 /\ s.slots[i] = StartedSlot(q[Rank(sl, i)])
  <2>1. s.slots[i] = IF Idle(sl, i) /\ Rank(sl, i) <= Len(q)
                     THEN StartedSlot(q[Rank(sl, i)]) ELSE sl[i]
    BY DEF schedule
  <2>2. Idle(sl, i) => Rank(sl, i) \in Nat \ {0} /\ Rank(sl, i) <= free
    BY RankOfFree DEF free
  <2> HIDE DEF s
  <2> QED
    BY <1>1, <1>2, <1>3, <2>1, <2>2
<1> QED
  BY <1>4, <1>6, <1>7, <1>8, <1>9, <1>10

\* The slots as the type invariant has them.
SlotsOK(sl) ==
  /\ sl \in [Slots -> SlotRecord]
  /\ \A i \in Slots : Idle(sl, i) <=> sl[i].call = NoCall

LEMMA StartedSlotFields ==
  ASSUME NEW c \in Calls
  PROVE  /\ StartedSlot(c) \in SlotRecord
         /\ StartedSlot(c).call = c
         /\ StartedSlot(c).pc = "allocate"
         /\ StartedSlot(c).result = "error"
BY DEF StartedSlot, FreeSlot, SlotRecord, Positions, Statuses

\* What Schedule leaves of a queue and slots: types and order are kept, and
\* what is pending stays distinct, admitted and unlaunched.
LEMMA Scheduled ==
  ASSUME NEW q \in Seq(Calls), NEW sl, SlotsOK(sl), started \in Seq(Calls),
         Schedule(q, sl)
  PROVE  /\ queue' \in Seq(Calls)
         /\ started' \in Seq(Calls)
         /\ SlotsOK(slots')
         /\ started' \o queue' = started \o q
         /\ queue' # <<>> => \A i \in Slots : ~Idle(slots', i)
         /\ Distinct(q, sl) => Distinct(queue', slots')
         /\ \A ids, pcs : /\ "free" \notin pcs
                          /\ PendingIn(q, sl, pcs, ids)
                          => PendingIn(queue', slots', pcs, ids)
         /\ \A i \in Slots : \/ slots'[i] = sl[i]
                             \/ slots'[i].result = "error" /\ slots'[i].pc = "allocate"
         /\ \A i \in Slots : Idle(sl, i) /\ Rank(sl, i) <= Len(q) => ~Idle(slots', i)
         /\ q = <<>> => queue' = <<>> /\ slots' = sl
<1> DEFINE s == schedule(q, sl)
           n == s.served
<1>1. sl \in [Slots -> SlotRecord] /\ Len(q) \in Nat
  BY DEF SlotsOK
<1>2. slots' = s.slots /\ queue' = SubSeq(q, n + 1, Len(q))
      /\ started' = started \o SubSeq(q, 1, n)
  BY DEF Schedule
<1>3. /\ n \in 0..Len(q)
      /\ SubSeq(q, 1, n) \in Seq(Calls)
      /\ queue' \in Seq(Calls)
      /\ q = SubSeq(q, 1, n) \o queue'
      /\ Len(queue') = Len(q) - n
      /\ \A k \in 1..(Len(q) - n) : queue'[k] = q[n + k]
      /\ DOMAIN slots' = Slots
      /\ \A i \in Slots :
           \/ slots'[i] = sl[i] /\ (Idle(sl, i) => n = Len(q))
           \/ /\ Idle(sl, i)
              /\ Rank(sl, i) \in 1..n
              /\ slots'[i] = StartedSlot(q[Rank(sl, i)])
  BY <1>1, <1>2, ScheduleFair
<1>4. \A i \in Slots : Idle(sl, i) /\ Rank(sl, i) <= Len(q) => ~Idle(slots', i)
  <2> SUFFICES ASSUME NEW i \in Slots, Idle(sl, i), Rank(sl, i) <= Len(q)
               PROVE  ~Idle(slots', i)
    OBVIOUS
  <2>1. Rank(sl, i) \in 1..Len(q)
    <3>1. Rank(sl, i) \in Nat \ {0}
      BY RankOfFree
    <3> QED
      BY <1>1, <3>1
  <2>2. slots'[i] = StartedSlot(q[Rank(sl, i)])
    BY <1>2 DEF schedule
  <2>3. q[Rank(sl, i)] \in Calls
    BY <2>1
  <2> QED
    BY <2>2, <2>3, StartedSlotFields DEF Idle
<1> HIDE DEF s, n
<1>5. \A i \in Slots : \/ slots'[i] = sl[i]
                       \/ /\ Idle(sl, i)
                          /\ Rank(sl, i) \in 1..n /\ Rank(sl, i) \in 1..Len(q)
                          /\ q[Rank(sl, i)] \in Calls
                          /\ slots'[i] \in SlotRecord
                          /\ slots'[i].call = q[Rank(sl, i)]
                          /\ slots'[i].pc = "allocate"
                          /\ slots'[i].result = "error"
  <2> SUFFICES ASSUME NEW i \in Slots, slots'[i] # sl[i]
               PROVE  /\ Idle(sl, i)
                      /\ Rank(sl, i) \in 1..n /\ Rank(sl, i) \in 1..Len(q)
                      /\ q[Rank(sl, i)] \in Calls
                      /\ slots'[i] \in SlotRecord
                      /\ slots'[i].call = q[Rank(sl, i)]
                      /\ slots'[i].pc = "allocate"
                      /\ slots'[i].result = "error"
    OBVIOUS
  <2>1. Idle(sl, i) /\ Rank(sl, i) \in 1..n /\ slots'[i] = StartedSlot(q[Rank(sl, i)])
    BY <1>3
  <2>2. Rank(sl, i) \in 1..Len(q)
    BY <1>1, <1>3, <2>1
  <2>3. q[Rank(sl, i)] \in Calls
    BY <2>2
  <2> QED
    BY <2>1, <2>2, <2>3, StartedSlotFields
<1>6. started' \in Seq(Calls) /\ started' \o queue' = started \o q
  <2>1. started' \in Seq(Calls)
    BY <1>2, <1>3, ConcatProperties
  <2> DEFINE p == SubSeq(q, 1, n)
             u == queue'
  <2>2. p \in Seq(Calls) /\ u \in Seq(Calls) /\ started' = started \o p /\ q = p \o u
    BY <1>2, <1>3
  <2> HIDE DEF p, u
  <2>3. (started \o p) \o u = started \o (p \o u)
    BY <2>2, ConcatAssociative
  <2>4. started' \o u = started \o q
    BY <2>2, <2>3
  <2> QED
    BY <2>1, <2>4 DEF u
<1>7. SlotsOK(slots')
  <2>1. \A i \in Slots : slots'[i] \in SlotRecord
    BY <1>1, <1>5
  <2>2. slots' \in [Slots -> SlotRecord]
    <3>1. slots' = [i \in Slots |-> slots'[i]]
      BY <1>2 DEF s, schedule
    <3> QED
      BY <2>1, <3>1
  <2>3. \A i \in Slots : Idle(slots', i) <=> slots'[i].call = NoCall
    BY <1>5 DEF SlotsOK, Idle
  <2> QED
    BY <2>2, <2>3 DEF SlotsOK
<1>8. queue' # <<>> => \A i \in Slots : ~Idle(slots', i)
  <2> SUFFICES ASSUME queue' # <<>>, NEW i \in Slots PROVE ~Idle(slots', i)
    OBVIOUS
  <2>1. n # Len(q)
    <3>1. Len(queue') # 0
      BY <1>3, EmptySeq
    <3> QED
      BY <1>1, <1>3, <3>1
  <2>2. CASE slots'[i] = sl[i] /\ (Idle(sl, i) => n = Len(q))
    BY <2>1, <2>2 DEF Idle
  <2>3. CASE Idle(sl, i) /\ Rank(sl, i) \in 1..n
    <3>1. Rank(sl, i) <= Len(q)
      BY <1>1, <1>3, <2>3
    <3> QED
      BY <1>4, <2>3, <3>1
  <2> QED
    BY <1>3, <2>2, <2>3
<1>9. ASSUME Distinct(q, sl) PROVE Distinct(queue', slots')
  <2>1. \A k \in 1..Len(queue') : n + k \in 1..Len(q) /\ n + k > n /\ queue'[k] = q[n + k]
    BY <1>1, <1>3
  <2>2. ASSUME NEW k \in 1..Len(queue'), NEW l \in 1..Len(queue'),
               JobOf[queue'[k]] = JobOf[queue'[l]]
        PROVE  k = l
    <3>1. n + k = n + l
      BY <1>9, <2>1, <2>2 DEF Distinct
    <3> QED
      BY <1>1, <1>3, <3>1
  <2>3. ASSUME NEW i \in Slots, NEW j \in Slots, ~Idle(slots', i), ~Idle(slots', j),
               JobOf[slots'[i].call] = JobOf[slots'[j].call]
        PROVE  i = j
    <3>1. CASE slots'[i] = sl[i] /\ slots'[j] = sl[j]
      BY <1>9, <2>3, <3>1 DEF Distinct, Idle
    <3>2. CASE slots'[i] = sl[i] /\ slots'[j] # sl[j]
      BY <1>5, <1>9, <2>3, <3>2 DEF Distinct, Idle
    <3>3. CASE slots'[i] # sl[i] /\ slots'[j] = sl[j]
      BY <1>5, <1>9, <2>3, <3>3 DEF Distinct, Idle
    <3>4. CASE slots'[i] # sl[i] /\ slots'[j] # sl[j]
      <4>1. Rank(sl, i) = Rank(sl, j)
        BY <1>5, <1>9, <2>3, <3>4 DEF Distinct
      <4> QED
        BY <1>5, <3>4, <4>1, RankOfFree
    <3> QED
      BY <3>1, <3>2, <3>3, <3>4
  <2>4. ASSUME NEW i \in Slots, NEW k \in 1..Len(queue'), ~Idle(slots', i)
        PROVE  JobOf[slots'[i].call] # JobOf[queue'[k]]
    <3>1. CASE slots'[i] = sl[i]
      BY <1>9, <2>1, <2>4, <3>1 DEF Distinct, Idle
    <3>2. CASE slots'[i] # sl[i]
      <4>1. Rank(sl, i) \in 1..Len(q) /\ Rank(sl, i) <= n /\ n + k > n
            /\ slots'[i].call = q[Rank(sl, i)] /\ n \in Nat
        BY <1>1, <1>3, <1>5, <2>1, <3>2
      <4>2. Rank(sl, i) # n + k
        BY <4>1
      <4> QED
        BY <1>9, <2>1, <4>1, <4>2 DEF Distinct
    <3> QED
      BY <3>1, <3>2
  <2> QED
    BY <2>2, <2>3, <2>4 DEF Distinct
<1>10. ASSUME NEW ids, NEW pcs, "free" \notin pcs, PendingIn(q, sl, pcs, ids)
       PROVE  PendingIn(queue', slots', pcs, ids)
  <2>1. \A k \in 1..Len(queue') : n + k \in 1..Len(q) /\ queue'[k] = q[n + k]
    BY <1>1, <1>3
  <2> QED
    BY <1>5, <1>10, <2>1 DEF PendingIn
<1>11. ASSUME q = <<>> PROVE queue' = <<>> /\ slots' = sl
  <2>1. Len(q) = 0
    BY <1>11
  <2>2. queue' = <<>>
    BY <1>1, <1>3, <2>1
  <2>3. \A i \in Slots : slots'[i] = sl[i]
    BY <1>1, <1>5, <2>1
  <2>4. slots' \in [Slots -> SlotRecord]
    BY <1>7 DEF SlotsOK
  <2> QED
    BY <1>1, <2>2, <2>3, <2>4
<1>12. \A i \in Slots : \/ slots'[i] = sl[i]
                        \/ slots'[i].result = "error" /\ slots'[i].pc = "allocate"
  BY <1>5
<1> QED
  BY <1>3, <1>4, <1>6, <1>7, <1>8, <1>9, <1>10, <1>11, <1>12

-----------------------------------------------------------------------------
(* The steps of a run.                                                     *)

runStep(i) ==
  \/ Allocate(i) \/ PersistAttempt(i) \/ Launch(i) \/ Verify(i)
  \/ PersistResult(i) \/ PersistFailed(i)

\* Replacing a busy slot's record by another busy one for the same call.
LEMMA SlotUpdate ==
  ASSUME NEW sl, SlotsOK(sl), NEW i \in Slots, ~Idle(sl, i),
         NEW row \in SlotRecord, row.call = sl[i].call, row.pc # "free"
  PROVE  LET new == [sl EXCEPT ![i] = row] IN
         /\ SlotsOK(new)
         /\ \A j \in Slots : /\ new[j].call = sl[j].call
                             /\ Idle(new, j) <=> Idle(sl, j)
                             /\ j # i => new[j] = sl[j]
         /\ new[i] = row
BY DEF SlotsOK, Idle

\* The EXCEPTs of the run's steps, as replacements of the slot's record.
LEMMA RowUpdate ==
  ASSUME SlotsOK(slots), NEW i \in Slots, NEW p, NEW x
  PROVE  LET row == slots[i] IN
         /\ [slots EXCEPT ![i].pc = p]
              = [slots EXCEPT ![i] = [row EXCEPT !.pc = p]]
         /\ [slots EXCEPT ![i].pc = p, ![i].verdict = x]
              = [slots EXCEPT ![i] = [row EXCEPT !.pc = p, !.verdict = x]]
         /\ [slots EXCEPT ![i].pc = p, ![i].result = x]
              = [slots EXCEPT ![i] = [row EXCEPT !.pc = p, !.result = x]]
BY DEF SlotsOK

\* A step of a run touches its own slot alone, which stays busy with its call,
\* and leaves what the pool shares as it is.  A launch is counted only on the
\* way out of "launch"; a position before it is only reached from one before.
\* The table's row is written once, and a result is set only to what it says.
LEMMA RunStep ==
  ASSUME RuntimeTypeOK, NEW i \in Slots, runStep(i)
  PROVE  /\ UNCHANGED poolVars
         /\ ~Idle(slots, i)
         /\ SlotsOK(slots')
         /\ \A j \in Slots : /\ slots'[j].call = slots[j].call
                             /\ Idle(slots', j) <=> Idle(slots, j)
                             /\ j # i => slots'[j] = slots[j]
         /\ slots'[i].pc \in BeforeLaunch => slots[i].pc \in BeforeLaunch
         /\ \/ launches' = launches
            \/ /\ launches' = [launches EXCEPT ![jobOn(i)] = @ + 1]
               /\ slots[i].pc = "launch" /\ slots'[i].pc = "verify"
         /\ \/ stored' = stored
            \/ /\ stored[jobOn(i)] = "none"
               /\ \E v \in Statuses : stored' = [stored EXCEPT ![jobOn(i)] = v]
         /\ slots[i].pc # "end"
         /\ \/ slots'[i].result = slots[i].result
            \/ /\ slots'[i].pc = "end" /\ stored[jobOn(i)] = "none"
               /\ stored' = [stored EXCEPT ![jobOn(i)] = slots'[i].result]
<1>1. SlotsOK(slots)
  BY DEF RuntimeTypeOK, SlotsOK, SlotRecord
<1>2. /\ slots[i] \in SlotRecord
      /\ slots[i].result \in Statuses \cup {"error"} /\ slots[i].verdict \in Statuses
  BY <1>1 DEF SlotsOK, SlotRecord
<1>3. UNCHANGED poolVars /\ ~Idle(slots, i) /\ slots[i].pc # "end"
  BY DEF runStep, Allocate, PersistAttempt, Launch, Verify, PersistResult, PersistFailed,
         At, Idle
<1>4. ASSUME NEW p \in Busy, Goto(i, p)
      PROVE  /\ SlotsOK(slots')
             /\ \A j \in Slots : /\ slots'[j].call = slots[j].call
                                 /\ Idle(slots', j) <=> Idle(slots, j)
                                 /\ j # i => slots'[j] = slots[j]
             /\ slots'[i].pc = p /\ slots'[i].result = slots[i].result
  <2> DEFINE row == [slots[i] EXCEPT !.pc = p]
  <2>1. slots' = [slots EXCEPT ![i] = row]
    BY <1>1, <1>4, RowUpdate DEF Goto
  <2>2. /\ row \in SlotRecord /\ row.call = slots[i].call /\ row.pc = p
        /\ row.pc # "free" /\ row.result = slots[i].result
    BY <1>2 DEF Busy, SlotRecord
  <2> HIDE DEF row
  <2> QED
    BY <1>1, <1>3, <2>1, <2>2, SlotUpdate
<1>5. CASE Allocate(i)
  <2>1. \E p \in Busy : Goto(i, p) /\ p \in {"persistAttempt", "end"}
    BY <1>5 DEF Allocate, Busy, Positions
  <2> QED
    BY <1>3, <1>4, <1>5, <2>1 DEF Allocate, At, BeforeLaunch
<1>6. CASE PersistAttempt(i)
  <2>1. \E p \in Busy : Goto(i, p) /\ p \in {"launch", "exception"}
    BY <1>6 DEF PersistAttempt, Busy, Positions
  <2> QED
    BY <1>3, <1>4, <1>6, <2>1 DEF PersistAttempt, At, BeforeLaunch
<1>7. CASE Launch(i)
  <2>1. \E p \in Busy : /\ Goto(i, p) /\ p \in {"verify", "persistFailed", "exception"}
                        /\ \/ launches' = launches
                           \/ /\ launches' = [launches EXCEPT ![jobOn(i)] = @ + 1]
                              /\ p = "verify"
    BY <1>7 DEF Launch, Busy, Positions
  <2> QED
    BY <1>3, <1>4, <1>7, <2>1 DEF Launch, At, BeforeLaunch
<1>8. CASE Verify(i)
  <2>1. CASE Goto(i, "exception")
    BY <1>3, <1>4, <1>8, <2>1 DEF Verify, At, BeforeLaunch, Busy, Positions
  <2>2. ASSUME NEW v \in Statuses,
               slots' = [slots EXCEPT ![i].pc = "persistResult", ![i].verdict = v]
        PROVE  /\ SlotsOK(slots')
               /\ \A j \in Slots : /\ slots'[j].call = slots[j].call
                                   /\ Idle(slots', j) <=> Idle(slots, j)
                                   /\ j # i => slots'[j] = slots[j]
               /\ slots'[i].pc = "persistResult" /\ slots'[i].result = slots[i].result
    <3> DEFINE row == [slots[i] EXCEPT !.pc = "persistResult", !.verdict = v]
    <3>1. slots' = [slots EXCEPT ![i] = row]
      BY <1>1, <2>2, RowUpdate
    <3>2. /\ row \in SlotRecord /\ row.call = slots[i].call /\ row.pc = "persistResult"
          /\ row.result = slots[i].result
      BY <1>2 DEF Positions, SlotRecord
    <3> HIDE DEF row
    <3> QED
      BY <1>1, <1>3, <3>1, <3>2, SlotUpdate
  <2> QED
    BY <1>3, <1>8, <2>1, <2>2 DEF Verify, At, BeforeLaunch
<1>9. CASE PersistResult(i)
  <2>1. CASE Goto(i, "exception")
    BY <1>2, <1>3, <1>4, <1>9, <2>1 DEF PersistResult, At, BeforeLaunch, Busy, Positions
  <2>2. CASE /\ stored[jobOn(i)] = "none"
             /\ stored' = [stored EXCEPT ![jobOn(i)] = slots[i].verdict]
             /\ slots' = [slots EXCEPT ![i].pc = "end", ![i].result = slots[i].verdict]
    <3> DEFINE row == [slots[i] EXCEPT !.pc = "end", !.result = slots[i].verdict]
    <3>1. slots' = [slots EXCEPT ![i] = row]
      BY <1>1, <2>2, RowUpdate
    <3>2. /\ row \in SlotRecord /\ row.call = slots[i].call /\ row.pc = "end"
          /\ row.result = slots[i].verdict
      BY <1>2 DEF Positions, SlotRecord
    <3> HIDE DEF row
    <3>3. /\ SlotsOK(slots')
          /\ \A j \in Slots : /\ slots'[j].call = slots[j].call
                              /\ Idle(slots', j) <=> Idle(slots, j)
                              /\ j # i => slots'[j] = slots[j]
          /\ slots'[i].pc = "end" /\ slots'[i].result = slots[i].verdict
      BY <1>1, <1>3, <3>1, <3>2, SlotUpdate
    <3> QED
      BY <1>2, <1>3, <1>9, <2>2, <3>3 DEF PersistResult, BeforeLaunch
  <2> QED
    BY <1>9, <2>1, <2>2 DEF PersistResult
<1>10. CASE PersistFailed(i)
  <2>1. \E p \in Busy : /\ Goto(i, p) /\ p \in {"end", "exception"}
                        /\ \/ stored' = stored
                           \/ /\ stored[jobOn(i)] = "none"
                              /\ stored' = [stored EXCEPT ![jobOn(i)] = "failed"]
    BY <1>10 DEF PersistFailed, Busy, Positions
  <2> QED
    BY <1>3, <1>4, <1>10, <2>1 DEF PersistFailed, BeforeLaunch, Statuses
<1> QED
  BY <1>5, <1>6, <1>7, <1>8, <1>9, <1>10 DEF runStep

-----------------------------------------------------------------------------
(* The inductive invariant is kept.                                        *)

LEMMA TypedSlots == RuntimeTypeOK => SlotsOK(slots)
BY DEF RuntimeTypeOK, SlotsOK, SlotRecord

LEMMA RuntimeInit == Init => RuntimeInv
<1> SUFFICES ASSUME Init PROVE RuntimeInv
  OBVIOUS
<1> USE DEF Init
<1>1. FreeSlot \in SlotRecord /\ FreeSlot.pc = "free" /\ FreeSlot.call = NoCall
      /\ FreeSlot.result = "error"
  BY DEF FreeSlot, SlotRecord, Positions, Statuses
<1>2. Len(queue) = 0 /\ \A i \in Slots : slots[i] = FreeSlot
  OBVIOUS
<1>3. RuntimeTypeOK
  <2>1. slots \in [Slots -> SlotRecord] /\ \A i \in Slots : Idle(slots, i) /\ slots[i].call = NoCall
    BY <1>1 DEF Idle
  <2>2. slots \in [Slots -> [call : Calls \cup {NoCall}, pc : Positions,
                             result : Statuses \cup {"error"}, verdict : Statuses]]
    BY <2>1 DEF SlotRecord
  <2>3. queue \in Seq(Calls) /\ admissions \in Seq(Calls) /\ started \in Seq(Calls)
    OBVIOUS
  <2>4. /\ answer \in [Calls -> Answers] /\ launches \in [Jobs -> Nat]
        /\ shutdowns \in [Shutdowns -> {"none", "waiting", "done"}]
        /\ stored \in [Jobs -> Statuses \cup {"none"}]
    BY DEF Answers
  <2>5. admitted \subseteq Jobs /\ shuttingDown \in BOOLEAN /\ idleWaiters \subseteq Shutdowns
    OBVIOUS
  <2> HIDE DEF Init
  <2> QED
    BY <2>1, <2>2, <2>3, <2>4, <2>5 DEF RuntimeTypeOK
<1>4. StartsInOrder
  BY DEF StartsInOrder
<1>5. PendingDistinct
  BY <1>1, <1>2 DEF PendingDistinct, Distinct, Idle
<1>6. PendingAdmitted /\ PendingUnlaunched
  BY <1>1, <1>2 DEF PendingAdmitted, PendingUnlaunched, PendingIn, Busy, BeforeLaunch
<1>7. LaunchedOnce /\ AnswerMatchesStored
  BY DEF LaunchedOnce, AnswerMatchesStored, Statuses
<1>8. ResultStored
  BY <1>1, <1>2 DEF ResultStored, Statuses
<1>9. WaitersKnown /\ ShutdownDrained
  BY DEF WaitersKnown, ShutdownDrained
<1> QED
  BY <1>3, <1>4, <1>5, <1>6, <1>7, <1>8, <1>9 DEF RuntimeInv

\* A submit call that is admitted.
LEMMA AdmitKeepsInv ==
  ASSUME RuntimeInv, NEW c \in Calls, AdmitSubmit(c)
  PROVE  RuntimeInv'
<1> DEFINE q == Append(queue, c)
<1> USE DEF RuntimeInv
<1>1. q \in Seq(Calls) /\ started \in Seq(Calls) /\ queue \in Seq(Calls)
      /\ admissions \in Seq(Calls) /\ SlotsOK(slots) /\ JobOf[c] \in Jobs
  BY TypedSlots DEF RuntimeTypeOK
<1>2. /\ Len(q) = Len(queue) + 1 /\ Len(queue) \in Nat
      /\ \A k \in 1..Len(queue) : q[k] = queue[k]
      /\ q[Len(q)] = c
  BY <1>1
<1>3. \A k \in 1..Len(q) : k \in 1..Len(queue) \/ (q[k] = c /\ k = Len(q))
  <2> HIDE DEF q
  <2>1. \A k \in 1..Len(q) : k \in 1..Len(queue) \/ k = Len(q)
    BY <1>2
  <2>2. q[Len(q)] = c
    BY <1>2
  <2> QED
    BY <2>1, <2>2
<1>4. Schedule(q, slots) /\ JobOf[c] \notin admitted /\ admitted' = admitted \cup {JobOf[c]}
      /\ UNCHANGED <<shuttingDown, idleWaiters, answer, shutdowns, stored, launches>>
      /\ ~shuttingDown
  BY DEF AdmitSubmit
<1> HIDE DEF q
<1>5. \A i \in Slots : ~Idle(slots, i) => JobOf[slots[i].call] \in admitted
  BY <1>1 DEF PendingAdmitted, PendingIn, Busy, SlotsOK, SlotRecord, Idle
<1>6. \A k \in 1..Len(queue) : JobOf[queue[k]] \in admitted
  BY DEF PendingAdmitted, PendingIn
<1>7. Distinct(q, slots)
  BY <1>2, <1>3, <1>4, <1>5, <1>6 DEF PendingDistinct, Distinct
<1>8. PendingIn(q, slots, Busy, admitted')
  BY <1>2, <1>3, <1>4 DEF PendingAdmitted, PendingIn
<1>9. PendingIn(q, slots, BeforeLaunch, Unlaunched)
  BY <1>1, <1>2, <1>3, <1>4 DEF PendingAdmitted, PendingUnlaunched, PendingIn, Unlaunched
<1>10. /\ queue' \in Seq(Calls) /\ started' \in Seq(Calls) /\ SlotsOK(slots')
       /\ started' \o queue' = started \o q
       /\ queue' # <<>> => \A i \in Slots : ~Idle(slots', i)
       /\ Distinct(queue', slots')
       /\ \A ids, pcs : "free" \notin pcs /\ PendingIn(q, slots, pcs, ids)
                        => PendingIn(queue', slots', pcs, ids)
       /\ \A i \in Slots : \/ slots'[i] = slots[i]
                           \/ slots'[i].result = "error" /\ slots'[i].pc = "allocate"
  BY <1>1, <1>4, <1>7, Scheduled
<1>11. RuntimeTypeOK'
  <2>1. admissions' \in Seq(Calls)
    BY <1>1 DEF AdmitSubmit
  <2> QED
    BY <1>1, <1>4, <1>10, <2>1 DEF RuntimeTypeOK, SlotsOK, SlotRecord
<1>12. StartsInOrder'
  <2>1. admissions' = Append(started \o queue, c)
    BY DEF AdmitSubmit, StartsInOrder
  <2>2. started \o Append(queue, c) = Append(started \o queue, c)
    BY <1>1
  <2> QED
    BY <1>10, <2>1, <2>2 DEF StartsInOrder, q
<1>13. PendingDistinct'
  BY <1>10 DEF PendingDistinct
<1>14. PendingAdmitted'
  <2>1. PendingIn(queue', slots', Busy, admitted')
    BY <1>8, <1>10 DEF Busy
  <2> QED
    BY <1>4, <2>1 DEF PendingAdmitted
<1>15. PendingUnlaunched'
  <2>1. PendingIn(queue', slots', BeforeLaunch, Unlaunched)
    BY <1>9, <1>10 DEF BeforeLaunch
  <2> QED
    BY <1>4, <2>1 DEF PendingUnlaunched, Unlaunched
<1>16. LaunchedOnce' /\ AnswerMatchesStored' /\ WaitersKnown'
  BY <1>4 DEF LaunchedOnce, AnswerMatchesStored, WaitersKnown
<1>17. ResultStored'
  BY <1>4, <1>10 DEF ResultStored, Statuses, jobOn
<1>18. ShutdownDrained'
  BY <1>1, <1>4 DEF ShutdownDrained, WaitersKnown, RuntimeTypeOK
<1> QED
  BY <1>11, <1>12, <1>13, <1>14, <1>15, <1>16, <1>17, <1>18

\* A step of a run before its end.
LEMMA RunKeepsInv ==
  ASSUME RuntimeInv, NEW i \in Slots, runStep(i)
  PROVE  RuntimeInv'
<1> USE DEF RuntimeInv
<1>1. /\ UNCHANGED poolVars /\ ~Idle(slots, i) /\ SlotsOK(slots')
      /\ \A j \in Slots : /\ slots'[j].call = slots[j].call
                          /\ Idle(slots', j) <=> Idle(slots, j)
                          /\ j # i => slots'[j] = slots[j]
      /\ slots'[i].pc \in BeforeLaunch => slots[i].pc \in BeforeLaunch
      /\ \/ launches' = launches
         \/ /\ launches' = [launches EXCEPT ![jobOn(i)] = @ + 1]
            /\ slots[i].pc = "launch" /\ slots'[i].pc = "verify"
      /\ \/ stored' = stored
         \/ /\ stored[jobOn(i)] = "none"
            /\ \E v \in Statuses : stored' = [stored EXCEPT ![jobOn(i)] = v]
      /\ slots[i].pc # "end"
      /\ \/ slots'[i].result = slots[i].result
         \/ /\ slots'[i].pc = "end" /\ stored[jobOn(i)] = "none"
            /\ stored' = [stored EXCEPT ![jobOn(i)] = slots'[i].result]
  BY RunStep
<1>2. SlotsOK(slots)
  BY TypedSlots
<1>3. \A j \in Slots : ~Idle(slots, j) => slots[j].call \in Calls /\ JobOf[slots[j].call] \in Jobs
  BY <1>2 DEF SlotsOK, SlotRecord
<1>4. jobOn(i) \in Jobs
  BY <1>1, <1>3 DEF jobOn
<1>5. RuntimeTypeOK'
  <2>1. launches' \in [Jobs -> Nat]
    <3>1. launches \in [Jobs -> Nat]
      BY DEF RuntimeTypeOK
    <3>2. launches' = launches \/ launches' = [launches EXCEPT ![jobOn(i)] = @ + 1]
      BY <1>1
    <3> QED
      BY <1>4, <3>1, <3>2
  <2>2. stored' \in [Jobs -> Statuses \cup {"none"}]
    <3>1. stored \in [Jobs -> Statuses \cup {"none"}]
      BY DEF RuntimeTypeOK
    <3>2. stored' = stored \/ \E v \in Statuses : stored' = [stored EXCEPT ![jobOn(i)] = v]
      BY <1>1
    <3> QED
      BY <3>1, <3>2
  <2> QED
    BY <1>1, <2>1, <2>2 DEF RuntimeTypeOK, SlotsOK, SlotRecord, poolVars
<1>6. StartsInOrder'
  BY <1>1 DEF StartsInOrder, poolVars
<1>7. PendingDistinct'
  BY <1>1 DEF PendingDistinct, Distinct, poolVars
<1>8. PendingIn(queue, slots, Busy, admitted)'
  <2>1. \A j \in Slots : ~Idle(slots, j) => JobOf[slots[j].call] \in admitted
    BY <1>2 DEF PendingAdmitted, PendingIn, Busy, SlotsOK, SlotRecord, Idle
  <2>2. \A j \in Slots : slots'[j].pc \in Busy => ~Idle(slots', j)
    BY DEF Busy, Idle
  <2> QED
    BY <1>1, <2>1, <2>2 DEF PendingAdmitted, PendingIn, poolVars
<1>9. PendingAdmitted'
  <2>1. jobOn(i) \in admitted
    BY <1>1, <1>2 DEF PendingAdmitted, PendingIn, Busy, SlotsOK, SlotRecord, Idle, jobOn
  <2>2. \A j \in Jobs : j # jobOn(i) => launches'[j] = launches[j]
    BY <1>1 DEF RuntimeTypeOK
  <2> QED
    BY <1>1, <1>8, <2>1, <2>2 DEF PendingAdmitted, poolVars
<1>10. ASSUME launches' = launches
       PROVE  PendingUnlaunched' /\ LaunchedOnce'
  <2>1. PendingUnlaunched'
    BY <1>1, <1>10 DEF PendingUnlaunched, PendingIn, Unlaunched, poolVars
  <2>2. LaunchedOnce'
    BY <1>10 DEF LaunchedOnce
  <2> QED
    BY <2>1, <2>2
<1>11. ASSUME launches' = [launches EXCEPT ![jobOn(i)] = @ + 1],
              slots[i].pc = "launch", slots'[i].pc = "verify"
       PROVE  PendingUnlaunched' /\ LaunchedOnce'
  <2>1. launches[jobOn(i)] = 0
    BY <1>11 DEF PendingUnlaunched, PendingIn, BeforeLaunch, Unlaunched, jobOn
  <2>2. launches'[jobOn(i)] = 1 /\ \A j \in Jobs : j # jobOn(i) => launches'[j] = launches[j]
    BY <1>4, <1>11, <2>1 DEF RuntimeTypeOK
  <2>3. LaunchedOnce'
    BY <2>2 DEF LaunchedOnce
  <2>4. \A k \in 1..Len(queue) : JobOf[queue[k]] \in Unlaunched /\ JobOf[queue[k]] # jobOn(i)
    BY <1>1 DEF PendingUnlaunched, PendingIn, PendingDistinct, Distinct, jobOn
  <2>5. ASSUME NEW j \in Slots, slots'[j].pc \in BeforeLaunch
        PROVE  JobOf[slots'[j].call] \in Unlaunched /\ JobOf[slots'[j].call] # jobOn(i)
    <3>1. j # i /\ slots'[j] = slots[j]
      BY <1>1, <1>11, <2>5 DEF BeforeLaunch
    <3>2. ~Idle(slots, j)
      BY <2>5, <3>1 DEF Idle, BeforeLaunch
    <3> QED
      BY <1>1, <2>5, <3>1, <3>2 DEF PendingUnlaunched, PendingIn, PendingDistinct, Distinct, jobOn
  <2>6. PendingUnlaunched'
    BY <1>1, <2>2, <2>4, <2>5 DEF PendingUnlaunched, PendingIn, Unlaunched, poolVars
  <2> QED
    BY <2>3, <2>6
<1>12. \A j \in Jobs : stored[j] # "none" => stored'[j] = stored[j]
  BY <1>1, <1>4 DEF RuntimeTypeOK
<1>13. ResultStored'
  <2> SUFFICES ASSUME NEW j \in Slots, slots'[j].result \in Statuses
               PROVE  slots'[j].pc = "end" /\ stored'[JobOf[slots'[j].call]] = slots'[j].result
    BY DEF ResultStored, jobOn
  <2>1. CASE j = i
    BY <1>1, <1>4, <2>1 DEF ResultStored, jobOn, RuntimeTypeOK
  <2>2. CASE j # i
    <3>1. slots'[j] = slots[j] /\ slots[j].pc = "end"
          /\ stored[JobOf[slots[j].call]] = slots[j].result
      BY <1>1, <2>2 DEF ResultStored, jobOn
    <3>2. ~Idle(slots, j) /\ slots[j].result # "none"
      BY <3>1 DEF Idle, Statuses
    <3> QED
      BY <1>3, <1>12, <3>1, <3>2
  <2> QED
    BY <2>1, <2>2
<1>14. AnswerMatchesStored'
  <2>1. \A c \in Calls : JobOf[c] \in Jobs /\ "none" \notin Statuses
    BY DEF Statuses
  <2> QED
    BY <1>1, <1>12, <2>1 DEF AnswerMatchesStored, poolVars
<1>15. WaitersKnown' /\ ShutdownDrained'
  BY <1>1 DEF WaitersKnown, ShutdownDrained, Drained, poolVars
<1> QED
  BY <1>1, <1>5, <1>6, <1>7, <1>9, <1>10, <1>11, <1>13, <1>14, <1>15

\* The end of a run.
LEMMA FinishKeepsInv ==
  ASSUME RuntimeInv, NEW i \in Slots, FinishRun(i)
  PROVE  RuntimeInv'
<1> DEFINE freed == [slots EXCEPT ![i] = FreeSlot]
           woken == IF Drained(queue, freed) THEN idleWaiters ELSE {}
<1> USE DEF RuntimeInv
<1>1. queue \in Seq(Calls) /\ started \in Seq(Calls) /\ SlotsOK(slots)
  BY TypedSlots DEF RuntimeTypeOK
<1>2. /\ slots[i].pc = "end" /\ Schedule(queue, freed)
      /\ answer' = [answer EXCEPT ![slots[i].call] = slots[i].result]
      /\ idleWaiters' = idleWaiters \ woken
      /\ shutdowns' = [s \in Shutdowns |-> IF s \in woken THEN "done" ELSE shutdowns[s]]
      /\ UNCHANGED <<admitted, shuttingDown, stored, launches, admissions>>
  BY DEF FinishRun, At
<1>3. FreeSlot \in SlotRecord /\ FreeSlot.pc = "free" /\ FreeSlot.call = NoCall
      /\ FreeSlot.result = "error"
  BY DEF FreeSlot, SlotRecord, Positions, Statuses
<1>4. freed \in [Slots -> SlotRecord] /\ freed[i] = FreeSlot
      /\ \A j \in Slots : j # i => freed[j] = slots[j]
  BY <1>1, <1>3 DEF SlotsOK
<1>5. slots[i].call \in Calls /\ JobOf[slots[i].call] \in Jobs
  BY <1>1, <1>2 DEF SlotsOK, SlotRecord, Idle
<1> HIDE DEF freed, woken
<1>6. SlotsOK(freed) /\ Idle(freed, i) /\ \A j \in Slots : j # i => (Idle(freed, j) <=> Idle(slots, j))
  BY <1>1, <1>3, <1>4 DEF SlotsOK, Idle
<1>7. Distinct(queue, freed)
  BY <1>4, <1>6 DEF PendingDistinct, Distinct
<1>8. PendingIn(queue, freed, Busy, admitted) /\ PendingIn(queue, freed, BeforeLaunch, Unlaunched)
  BY <1>3, <1>4 DEF PendingAdmitted, PendingUnlaunched, PendingIn, Busy, BeforeLaunch
<1>9. /\ queue' \in Seq(Calls) /\ started' \in Seq(Calls) /\ SlotsOK(slots')
      /\ started' \o queue' = started \o queue
      /\ queue' # <<>> => \A j \in Slots : ~Idle(slots', j)
      /\ Distinct(queue', slots')
      /\ \A ids, pcs : "free" \notin pcs /\ PendingIn(queue, freed, pcs, ids)
                       => PendingIn(queue', slots', pcs, ids)
      /\ \A j \in Slots : \/ slots'[j] = freed[j]
                          \/ slots'[j].result = "error" /\ slots'[j].pc = "allocate"
      /\ \A j \in Slots : Idle(freed, j) /\ Rank(freed, j) <= Len(queue) => ~Idle(slots', j)
      /\ queue = <<>> => queue' = <<>> /\ slots' = freed
  BY <1>1, <1>2, <1>6, <1>7, Scheduled
<1>10. RuntimeTypeOK'
  <2>1. answer' \in [Calls -> Answers]
    <3>1. slots[i].result \in Answers
      BY <1>1 DEF SlotsOK, SlotRecord, Answers, Statuses
    <3> QED
      BY <1>2, <1>5, <3>1 DEF RuntimeTypeOK
  <2>2. shutdowns' \in [Shutdowns -> {"none", "waiting", "done"}]
    BY <1>2 DEF RuntimeTypeOK
  <2>3. idleWaiters' \subseteq Shutdowns
    BY <1>2 DEF RuntimeTypeOK
  <2> QED
    BY <1>2, <1>9, <2>1, <2>2, <2>3 DEF RuntimeTypeOK, SlotsOK, SlotRecord
<1>11. StartsInOrder'
  BY <1>2, <1>9 DEF StartsInOrder
<1>12. PendingDistinct'
  BY <1>9 DEF PendingDistinct
<1>13. PendingAdmitted'
  <2>1. PendingIn(queue', slots', Busy, admitted)
    BY <1>8, <1>9 DEF Busy
  <2> QED
    BY <1>2, <2>1 DEF PendingAdmitted
<1>14. PendingUnlaunched'
  <2>1. PendingIn(queue', slots', BeforeLaunch, Unlaunched)
    BY <1>8, <1>9 DEF BeforeLaunch
  <2> QED
    BY <1>2, <2>1 DEF PendingUnlaunched, Unlaunched
<1>15. LaunchedOnce'
  BY <1>2 DEF LaunchedOnce
<1>16. ResultStored'
  <2> SUFFICES ASSUME NEW j \in Slots, slots'[j].result \in Statuses
               PROVE  slots'[j].pc = "end" /\ stored'[JobOf[slots'[j].call]] = slots'[j].result
    BY DEF ResultStored, jobOn
  <2>1. slots'[j] = slots[j]
    BY <1>3, <1>4, <1>9 DEF Statuses
  <2> QED
    BY <1>2, <2>1 DEF ResultStored, jobOn
<1>17. AnswerMatchesStored'
  <2> SUFFICES ASSUME NEW c \in Calls, answer'[c] \in Statuses
               PROVE  stored'[JobOf[c]] = answer'[c]
    BY DEF AnswerMatchesStored
  <2>1. CASE c = slots[i].call
    <3>1. answer'[c] = slots[i].result
      BY <1>2, <2>1 DEF RuntimeTypeOK
    <3> QED
      BY <1>2, <2>1, <3>1 DEF ResultStored, jobOn
  <2>2. CASE c # slots[i].call
    BY <1>2, <2>2 DEF AnswerMatchesStored, RuntimeTypeOK
  <2> QED
    BY <2>1, <2>2
<1>18. WaitersKnown'
  <2>1. woken = {} \/ woken = idleWaiters
    BY DEF woken
  <2>2. \A s \in Shutdowns : shutdowns'[s] = IF s \in woken THEN "done" ELSE shutdowns[s]
    BY <1>2
  <2>3. idleWaiters' = {s \in Shutdowns : shutdowns'[s] = "waiting"}
    BY <1>2, <2>1, <2>2 DEF WaitersKnown
  <2>4. \A s \in Shutdowns : shutdowns'[s] # "none" => shuttingDown'
    BY <1>2, <2>1, <2>2 DEF WaitersKnown
  <2> QED
    BY <2>3, <2>4 DEF WaitersKnown
<1>19. ShutdownDrained'
  <2>1. \A s \in Shutdowns : shutdowns[s] # "done"
    BY <1>2 DEF ShutdownDrained, Drained, Idle
  <2>2. \A s \in Shutdowns : shutdowns'[s] = IF s \in woken THEN "done" ELSE shutdowns[s]
    BY <1>2
  <2>3. CASE Drained(queue, freed)
    <3>1. Drained(queue', slots')
      BY <1>9, <2>3 DEF Drained
    <3>2. \A s \in Shutdowns : shutdowns'[s] # "waiting"
      BY <2>2, <2>3 DEF woken, WaitersKnown
    <3> QED
      BY <3>1, <3>2 DEF ShutdownDrained, Drained
  <2>4. CASE ~Drained(queue, freed)
    <3>1. \A s \in Shutdowns : shutdowns'[s] # "done"
      BY <2>1, <2>2, <2>4 DEF woken
    <3>2. \E j \in Slots : ~Idle(slots', j)
      <4>1. CASE queue = <<>>
        BY <1>9, <2>4, <4>1 DEF Drained
      <4>2. CASE queue # <<>>
        <5>1. \A j \in Slots : j # i => ~Idle(freed, j)
          BY <1>6, <4>2 DEF StartsInOrder
        <5>2. {j \in 1..i : Idle(freed, j)} = {i}
          BY <1>6, <5>1 DEF Slots
        <5>3. Rank(freed, i) = 1
          BY <5>2, FS_Singleton DEF Rank
        <5>4. Len(queue) \in Nat \ {0}
          BY <1>1, <4>2, EmptySeq
        <5> QED
          BY <1>6, <1>9, <5>3, <5>4
      <4> QED
        BY <4>1, <4>2
    <3> QED
      BY <3>1, <3>2 DEF ShutdownDrained, Drained
  <2> QED
    BY <2>3, <2>4
<1> QED
  BY <1>10, <1>11, <1>12, <1>13, <1>14, <1>15, <1>16, <1>17, <1>18, <1>19

\* Every step of the runtime keeps the inductive invariant.
LEMMA RuntimeInvStep == RuntimeInv /\ [Next]_vars => RuntimeInv'
<1> SUFFICES ASSUME RuntimeInv, [Next]_vars PROVE RuntimeInv'
  OBVIOUS
<1>1. ASSUME NEW c \in Calls, RefuseSubmit(c) PROVE RuntimeInv'
  <2>1. /\ UNCHANGED <<queue, slots, admitted, shuttingDown, idleWaiters, shutdowns,
                       stored, launches, admissions, started>>
        /\ \/ answer' = [answer EXCEPT ![c] = "refused"]
           \/ answer' = [answer EXCEPT ![c] = "duplicate"]
    BY <1>1 DEF RefuseSubmit
  <2>2. RuntimeTypeOK'
    BY <2>1 DEF RuntimeInv, RuntimeTypeOK, Answers
  <2>3. AnswerMatchesStored'
    BY <2>1 DEF RuntimeInv, AnswerMatchesStored, RuntimeTypeOK, Statuses
  <2> QED
    BY <2>1, <2>2, <2>3 DEF RuntimeInv, StartsInOrder, PendingDistinct, PendingAdmitted,
      PendingUnlaunched, Unlaunched, LaunchedOnce, ResultStored, jobOn, WaitersKnown,
      ShutdownDrained
<1>2. ASSUME NEW s \in Shutdowns, Shutdown(s) PROVE RuntimeInv'
  <2>1. UNCHANGED <<queue, slots, admitted, answer, stored, launches, admissions, started>>
        /\ shuttingDown' = TRUE
    BY <1>2 DEF Shutdown
  <2>2. RuntimeTypeOK'
    BY <1>2, <2>1 DEF Shutdown, RuntimeInv, RuntimeTypeOK
  <2>3. WaitersKnown'
    BY <1>2, <2>1 DEF Shutdown, RuntimeInv, RuntimeTypeOK, WaitersKnown
  <2>4. ShutdownDrained'
    BY <1>2, <2>1 DEF Shutdown, RuntimeInv, RuntimeTypeOK, ShutdownDrained, Drained
  <2> QED
    BY <2>1, <2>2, <2>3, <2>4 DEF RuntimeInv, StartsInOrder, PendingDistinct, PendingAdmitted,
      PendingUnlaunched, Unlaunched, LaunchedOnce, ResultStored, jobOn, AnswerMatchesStored
<1>3. CASE UNCHANGED vars
  BY <1>3 DEF vars, RuntimeInv, RuntimeTypeOK, StartsInOrder, PendingDistinct,
    PendingAdmitted, PendingUnlaunched, Unlaunched, LaunchedOnce, ResultStored, jobOn,
    AnswerMatchesStored, WaitersKnown, ShutdownDrained
<1>4. ASSUME NEW i \in Slots, runSlot(i) PROVE RuntimeInv'
  <2>1. runStep(i) \/ FinishRun(i)
    BY <1>4 DEF runSlot, runStep
  <2> QED
    BY <2>1, RunKeepsInv, FinishKeepsInv
<1> QED
  BY <1>1, <1>2, <1>3, <1>4, AdmitKeepsInv DEF Next

LEMMA RuntimeInvariant == Spec => []RuntimeInv
BY RuntimeInit, RuntimeInvStep, PTL DEF Spec

-----------------------------------------------------------------------------
(* The properties.                                                         *)

\* The pool's structures keep their types; a slot is free exactly when it holds
\* no call.
THEOREM RuntimeTypeCorrect == Spec => []RuntimeTypeOK
<1>1. RuntimeInv => RuntimeTypeOK
  BY DEF RuntimeInv
<1> QED
  BY <1>1, RuntimeInvariant, PTL

\* However many slots there are, schedule starts the jobs in the order submit
\* admitted them, and leaves none queued beside a free slot.
THEOREM JobsStartInOrder == Spec => []StartsInOrder
<1>1. RuntimeInv => StartsInOrder
  BY DEF RuntimeInv
<1> QED
  BY <1>1, RuntimeInvariant, PTL

\* submit's memory of attempt ids keeps any id from being launched twice, also
\* when it is submitted again after its run has ended.
THEOREM AttemptsLaunchedOnce == Spec => []LaunchedOnce
<1>1. RuntimeInv => LaunchedOnce
  BY DEF RuntimeInv
<1> QED
  BY <1>1, RuntimeInvariant, PTL

\* shutdown returns from a drained pool only, and the end of the last run
\* leaves no shutdown call waiting.
THEOREM ShutdownWaitsForDrain == Spec => []ShutdownDrained
<1>1. RuntimeInv => ShutdownDrained
  BY DEF RuntimeInv
<1> QED
  BY <1>1, RuntimeInvariant, PTL

\* A verdict runOne answers is the one persistResult stored, whatever its
\* exception handlers tried to store.
THEOREM AnswersMatchTable == Spec => []AnswerMatchesStored
<1>1. RuntimeInv => AnswerMatchesStored
  BY DEF RuntimeInv
<1> QED
  BY <1>1, RuntimeInvariant, PTL
=============================================================================
