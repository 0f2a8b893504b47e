------------------------- MODULE MinimalPoolRuntime -------------------------
(***************************************************************************)
(* The process-local pool: a FIFO queue of submitted jobs in front of a    *)
(* fixed number of slots.  submit, shutdown and the end of a run are       *)
(* synchronous pieces of one event loop and so are atomic; a run gives     *)
(* way at each await (persistAttempt, launch, verify, persistResult).      *)
(*                                                                         *)
(* External: the adapters a run calls.  Any of them may throw; the result  *)
(* table behind persistResult takes one row per attempt and refuses a      *)
(* second one.                                                             *)
(***************************************************************************)
EXTENDS Naturals, Sequences, FiniteSets

CONSTANTS
  SlotCount,   \* number of slots
  Calls,       \* calls of submit
  Jobs,        \* attempt ids
  JobOf,       \* the attempt id a call submits; two calls may submit the same
  Shutdowns,   \* calls of shutdown
  NoCall       \* an idle slot

ASSUME RuntimeAssumption ==
  /\ SlotCount \in Nat \ {0}
  /\ JobOf \in [Calls -> Jobs]
  /\ NoCall \notin Calls
  /\ IsFiniteSet(Calls)

VARIABLES
  queue,         \* queued calls, oldest first
  slots,         \* slot -> the call it is busy with, its position and result
  admitted,      \* attempt ids ever admitted
  shuttingDown,
  idleWaiters,   \* shutdown calls that wait for the pool to drain
  answer,        \* what each submit call was answered; "none": not yet
  shutdowns,     \* state of each shutdown call
  stored,        \* result table: attempt -> status of its row, or "none"
  launches,      \* history: launches of an attempt
  admissions,    \* history: admitted calls, in order
  started        \* history: calls given to a slot, in order

vars == <<queue, slots, admitted, shuttingDown, idleWaiters, answer, shutdowns,
          stored, launches, admissions, started>>

Slots == 1..SlotCount
Statuses == {"passed", "failed"}
Answers == {"none", "passed", "failed", "error", "duplicate", "refused"}
Positions == {"free", "allocate", "persistAttempt", "launch", "verify",
              "persistResult", "persistFailed", "exception", "end"}

FreeSlot == [call |-> NoCall, pc |-> "free", result |-> "error", verdict |-> "failed"]
StartedSlot(c) == [FreeSlot EXCEPT !.call = c, !.pc = "allocate"]

Idle(sl, i) == sl[i].pc = "free"
jobOn(i) == JobOf[slots[i].call]

-----------------------------------------------------------------------------
\* Position of a free slot among the free slots, in the order of the slots.
Rank(sl, i) == Cardinality({j \in 1..i : Idle(sl, j)})

\* The free slots, in order, take jobs from the head of the queue until one of
\* the two runs out.
schedule(q, sl) ==
  LET free == Cardinality({i \in Slots : Idle(sl, i)}) IN
  [slots |-> [i \in Slots |-> IF Idle(sl, i) /\ Rank(sl, i) <= Len(q)
                              THEN StartedSlot(q[Rank(sl, i)]) ELSE sl[i]],
   served |-> IF free < Len(q) THEN free ELSE Len(q)]

\* Runs schedule on a queue and slots and writes what it leaves.
Schedule(q, sl) ==
  LET s == schedule(q, sl) IN
  /\ slots' = s.slots
  /\ queue' = SubSeq(q, s.served + 1, Len(q))
  /\ started' = started \o SubSeq(q, 1, s.served)

Drained(q, sl) == q = <<>> /\ \A i \in Slots : Idle(sl, i)

-----------------------------------------------------------------------------
(* submit                                                                  *)

\* Has the call been made?
Submitted(c) == answer[c] # "none" \/ \E k \in DOMAIN admissions : admissions[k] = c

RefuseSubmit(c) ==
  /\ ~Submitted(c)
  /\ shuttingDown \/ JobOf[c] \in admitted
  /\ answer' = [answer EXCEPT ![c] = IF shuttingDown THEN "refused" ELSE "duplicate"]
  /\ UNCHANGED <<queue, slots, admitted, shuttingDown, idleWaiters, shutdowns,
                 stored, launches, admissions, started>>

\* Mutant: attempt ids are admitted while the pool shuts down.
AdmitSubmit_Late(c) ==
  /\ ~Submitted(c)
  /\ JobOf[c] \notin admitted
  /\ admitted' = admitted \cup {JobOf[c]}
  /\ admissions' = Append(admissions, c)
  /\ Schedule(Append(queue, c), slots)
  /\ UNCHANGED <<shuttingDown, idleWaiters, answer, shutdowns, stored, launches>>

\* Mutant: the attempt id is not remembered.
AdmitSubmit_Forgets(c) ==
  /\ ~Submitted(c)
  /\ ~shuttingDown
  /\ JobOf[c] \notin admitted
  /\ admissions' = Append(admissions, c)
  /\ Schedule(Append(queue, c), slots)
  /\ UNCHANGED <<admitted, shuttingDown, idleWaiters, answer, shutdowns, stored, launches>>

AdmitSubmit(c) ==
  /\ ~Submitted(c)
  /\ ~shuttingDown
  /\ JobOf[c] \notin admitted
  /\ admitted' = admitted \cup {JobOf[c]}
  /\ admissions' = Append(admissions, c)
  /\ Schedule(Append(queue, c), slots)
  /\ UNCHANGED <<shuttingDown, idleWaiters, answer, shutdowns, stored, launches>>

-----------------------------------------------------------------------------
(* runOne                                                                  *)

\* The variables a step of a run leaves alone.
poolVars == <<queue, admitted, shuttingDown, idleWaiters, answer, shutdowns,
              admissions, started>>

At(i, pc) == slots[i].pc = pc
Goto(i, pc) == slots' = [slots EXCEPT ![i].pc = pc]

\* Resources are allocated, or the run ends with an error and stores nothing.
Allocate(i) ==
  /\ At(i, "allocate")
  /\ \/ Goto(i, "persistAttempt")
     \/ Goto(i, "end")
  /\ UNCHANGED <<poolVars, stored, launches>>

PersistAttempt(i) ==
  /\ At(i, "persistAttempt")
  /\ \/ Goto(i, "launch")
     \/ Goto(i, "exception")
  /\ UNCHANGED <<poolVars, stored, launches>>

\* The launcher is refused, fails to bind, or starts the worker.
Launch(i) ==
  /\ At(i, "launch")
  /\ \/ /\ launches' = [launches EXCEPT ![jobOn(i)] = @ + 1]
        /\ Goto(i, "verify")
     \/ /\ Goto(i, "persistFailed")
        /\ UNCHANGED launches
     \/ /\ Goto(i, "exception")
        /\ UNCHANGED launches
  /\ UNCHANGED <<poolVars, stored>>

Verify(i) ==
  /\ At(i, "verify")
  /\ \/ \E v \in Statuses :
          slots' = [slots EXCEPT ![i].pc = "persistResult", ![i].verdict = v]
     \/ Goto(i, "exception")
  /\ UNCHANGED <<poolVars, stored, launches>>

\* Mutant: a run that got a verdict counts as passed.
PersistResult_AssumesPassed(i) ==
  /\ At(i, "persistResult")
  /\ stored[jobOn(i)] = "none"
  /\ stored' = [stored EXCEPT ![jobOn(i)] = slots[i].verdict]
  /\ slots' = [slots EXCEPT ![i].pc = "end", ![i].result = "passed"]
  /\ UNCHANGED <<poolVars, launches>>

\* The verdict is stored, or storing it throws, before or after the row was
\* written (the store writes its audit entry after it has committed).
PersistResult(i) ==
  /\ At(i, "persistResult")
  /\ \/ /\ stored[jobOn(i)] = "none"
        /\ stored' = [stored EXCEPT ![jobOn(i)] = slots[i].verdict]
        /\ \/ slots' = [slots EXCEPT ![i].pc = "end", ![i].result = slots[i].verdict]
           \/ Goto(i, "exception")
     \/ /\ Goto(i, "exception")
        /\ UNCHANGED stored
  /\ UNCHANGED <<poolVars, launches>>

\* persistFailed: on the launch failure's own path a throw leads to the handler
\* of exceptions, which tries again and swallows a second throw (also the one
\* of a table that already has the attempt's row).  Either way the run ends
\* with an error.
PersistFailed(i) ==
  /\ slots[i].pc \in {"persistFailed", "exception"}
  /\ \/ /\ stored[jobOn(i)] = "none"
        /\ stored' = [stored EXCEPT ![jobOn(i)] = "failed"]
        /\ Goto(i, "end")
     \/ /\ Goto(i, IF At(i, "persistFailed") THEN "exception" ELSE "end")
        /\ UNCHANGED stored
  /\ UNCHANGED <<poolVars, launches>>

\* Mutant: the freed slot keeps its attempt.
FinishRun_KeepsCall(i) ==
  /\ At(i, "end")
  /\ answer' = [answer EXCEPT ![slots[i].call] = slots[i].result]
  /\ LET freed == [slots EXCEPT ![i].pc = "free"]
         woken == IF Drained(queue, freed) THEN idleWaiters ELSE {} IN
     /\ idleWaiters' = idleWaiters \ woken
     /\ shutdowns' = [s \in Shutdowns |-> IF s \in woken THEN "done" ELSE shutdowns[s]]
     /\ Schedule(queue, freed)
  /\ UNCHANGED <<admitted, shuttingDown, stored, launches, admissions>>

\* Mutant: the end of a run does not fill the slot again.
FinishRun_NoSchedule(i) ==
  /\ At(i, "end")
  /\ answer' = [answer EXCEPT ![slots[i].call] = slots[i].result]
  /\ slots' = [slots EXCEPT ![i] = FreeSlot]
  /\ UNCHANGED <<queue, started, idleWaiters, shutdowns, admitted, shuttingDown,
                 stored, launches, admissions>>

\* Mutant: the end of a run does not tell the waiters.
FinishRun_NoNotify(i) ==
  /\ At(i, "end")
  /\ answer' = [answer EXCEPT ![slots[i].call] = slots[i].result]
  /\ Schedule(queue, [slots EXCEPT ![i] = FreeSlot])
  /\ UNCHANGED <<idleWaiters, shutdowns, admitted, shuttingDown, stored, launches,
                 admissions>>

\* Resources are released (an error in it is swallowed), the caller is
\* answered, the slot is freed, the waiters are told if the pool has drained,
\* and the slots are filled again: one synchronous piece.
FinishRun(i) ==
  /\ At(i, "end")
  /\ answer' = [answer EXCEPT ![slots[i].call] = slots[i].result]
  /\ LET freed == [slots EXCEPT ![i] = FreeSlot]
         woken == IF Drained(queue, freed) THEN idleWaiters ELSE {} IN
     /\ idleWaiters' = idleWaiters \ woken
     /\ shutdowns' = [s \in Shutdowns |-> IF s \in woken THEN "done" ELSE shutdowns[s]]
     /\ Schedule(queue, freed)
  /\ UNCHANGED <<admitted, shuttingDown, stored, launches, admissions>>

-----------------------------------------------------------------------------
\* shutdown returns at once from an idle pool, and waits for it otherwise.
Shutdown(s) ==
  /\ shutdowns[s] = "none"
  /\ shuttingDown' = TRUE
  /\ \/ /\ Drained(queue, slots)
        /\ shutdowns' = [shutdowns EXCEPT ![s] = "done"]
        /\ UNCHANGED idleWaiters
     \/ /\ ~Drained(queue, slots)
        /\ shutdowns' = [shutdowns EXCEPT ![s] = "waiting"]
        /\ idleWaiters' = idleWaiters \cup {s}
  /\ UNCHANGED <<queue, slots, admitted, answer, stored, launches, admissions, started>>

Init ==
  /\ queue = <<>>
  /\ slots = [i \in Slots |-> FreeSlot]
  /\ admitted = {}
  /\ shuttingDown = FALSE
  /\ idleWaiters = {}
  /\ answer = [c \in Calls |-> "none"]
  /\ shutdowns = [s \in Shutdowns |-> "none"]
  /\ stored = [j \in Jobs |-> "none"]
  /\ launches = [j \in Jobs |-> 0]
  /\ admissions = <<>>
  /\ started = <<>>

runSlot(i) ==
  \/ Allocate(i) \/ PersistAttempt(i) \/ Launch(i) \/ Verify(i)
  \/ PersistResult(i) \/ PersistFailed(i) \/ FinishRun(i)

Next ==
  \/ \E c \in Calls : RefuseSubmit(c) \/ AdmitSubmit(c)
  \/ \E i \in Slots : runSlot(i)
  \/ \E s \in Shutdowns : Shutdown(s)

\* The event loop resumes a run whose adapter has settled, and every adapter
\* settles (launch and verification are bounded by timeouts); nobody has to
\* call submit or shutdown.
Spec == Init /\ [][Next]_vars
FairSpec == Spec /\ \A i \in Slots : WF_vars(runSlot(i))

-----------------------------------------------------------------------------
(* Properties.                                                             *)

\* The pool's structures have their types; a slot is free exactly when it
\* holds no call.
RuntimeTypeOK ==
  /\ queue \in Seq(Calls)
  /\ slots \in [Slots -> [call : Calls \cup {NoCall}, pc : Positions,
                          result : Statuses \cup {"error"}, verdict : Statuses]]
  /\ \A i \in Slots : Idle(slots, i) <=> slots[i].call = NoCall
  /\ admitted \subseteq Jobs
  /\ shuttingDown \in BOOLEAN
  /\ idleWaiters \subseteq Shutdowns
  /\ answer \in [Calls -> Answers]
  /\ shutdowns \in [Shutdowns -> {"none", "waiting", "done"}]
  /\ stored \in [Jobs -> Statuses \cup {"none"}]
  /\ launches \in [Jobs -> Nat]
  /\ admissions \in Seq(Calls)
  /\ started \in Seq(Calls)

\* Jobs start in the order they were admitted, each as soon as a slot is free, and
\* none is dropped or started twice: what has started, followed by what is
\* queued, is what was admitted, and no job is queued beside a free slot.
StartsInOrder ==
  /\ admissions = started \o queue
  /\ queue # <<>> => \A i \in Slots : ~Idle(slots, i)

\* A worker is launched at most once for an attempt id in the life of the
\* runtime, however often the id is submitted, even after its run has ended.
LaunchedOnce == \A j \in Jobs : launches[j] <= 1

\* shutdown returns only from a drained pool, which stays drained, and no call
\* of shutdown is left waiting on a drained pool: the last run to end wakes all.
ShutdownDrained ==
  \A s \in Shutdowns :
    /\ shutdowns[s] = "done" => Drained(queue, slots)
    /\ shutdowns[s] = "waiting" => ~Drained(queue, slots)

\* A caller that is told a verdict can read the same verdict in the result
\* table, whatever the exception handlers of its run tried to store.
AnswerMatchesStored ==
  \A c \in Calls : answer[c] \in Statuses => stored[JobOf[c]] = answer[c]

\* Every call of submit is answered, and every call of shutdown returns: again
\* and again no call is left unanswered.
CallsReturn ==
  []<>(/\ \A c \in Calls : Submitted(c) => answer[c] # "none"
       /\ \A s \in Shutdowns : shutdowns[s] # "waiting")
=============================================================================
