-------------------------- MODULE SyncRuntime_proofs --------------------------
(***************************************************************************)
(* Proofs about SyncRuntime, for any set of connections and tasks and any  *)
(* bounds.                                                                 *)
(*                                                                         *)
(* Every action does one of five things to the reservations: nothing, one  *)
(* task takes a free one, gives its own back, loses its own, or the        *)
(* restart clears them all (lemma ReservationSteps).  The inductive        *)
(* invariant and the refinement of the lease are argued over these five    *)
(* cases instead of over the twenty-odd actions.                           *)
(***************************************************************************)
EXTENDS SyncRuntime, TLAPS

USE TaskAssumption, BoundAssumption

(***************************************************************************)
(* Type correctness                                                        *)
(***************************************************************************)

\* A force_sync that still polls has attempts left.
AttemptsLeft == \A t \in Task : pc[t] = "poll" => polls[t] < MaxPolls

(* Init establishes the type invariant.                                    *)
LEMMA TypeInit == Init => TypeOK /\ AttemptsLeft
  BY DEF Init, TypeOK, AttemptsLeft, Task, Pc, HoldingPc

(* Every step of an automatic sync or a user refresh keeps the types.      *)
LEMMA TypeTask ==
  ASSUME TypeOK, AttemptsLeft, NEW t \in Task,
         AuthComplete(t) \/ SchedulerSpawn(t) \/ ForceStart(t) \/ TaskStep(t)
  PROVE  TypeOK' /\ AttemptsLeft'
<1> USE DEF TypeOK, AttemptsLeft, Pc, HoldingPc, Goto, dbVars, taskVars, obsVars
<1>0. Target[t] \in Conn
  BY DEF Task
<1>1. CASE AuthComplete(t)  BY <1>0, <1>1 DEF AuthComplete, Status
<1>2. CASE SchedulerSpawn(t)  BY <1>2 DEF SchedulerSpawn
<1>3. CASE ForceStart(t)  BY <1>3 DEF ForceStart
<1>4. CASE ReserveGate(t)  BY <1>4 DEF ReserveGate, Fault
<1>5. CASE ReserveTake(t)  BY <1>0, <1>5 DEF ReserveTake
<1>6. CASE ForceReserve(t)  BY <1>0, <1>6 DEF ForceReserve
<1>7. CASE ForceWait(t)  BY <1>7 DEF ForceWait
<1>8. CASE ForceConfirm(t)  BY <1>0, <1>8 DEF ForceConfirm, Fault
<1>9. CASE ForceReply(t)  BY <1>9 DEF ForceReply
<1>10. CASE SyncLoad(t)  BY <1>10 DEF SyncLoad
<1>11. CASE SyncMark(t)  BY <1>0, <1>11 DEF SyncMark, Fault, Status
<1>12. CASE SyncRefresh(t)  BY <1>0, <1>12 DEF SyncRefresh, Fault
<1>13. CASE SyncAnswer(t)  BY <1>13 DEF SyncAnswer
<1>14. CASE SyncCommit(t)
  BY <1>0, <1>14 DEF SyncCommit, StoreBatch, Status, Refreshing, Task
<1>15. CASE SyncCommitRefused(t)  BY <1>15 DEF SyncCommitRefused, Fault
<1>16. CASE SyncMarkError(t)
  BY <1>0, <1>16 DEF SyncMarkError, ErrorOutcome, Fault, Status
<1>17. CASE SyncRelease(t)  BY <1>17 DEF SyncRelease
<1> QED
  BY <1>1, <1>2, <1>3, <1>4, <1>5, <1>6, <1>7, <1>8, <1>9, <1>10, <1>11, <1>12,
     <1>13, <1>14, <1>15, <1>16, <1>17
  DEF TaskStep, ForceStep, SyncStep

(* So does every step of the environment.                                  *)
LEMMA TypeEnvironment ==
  ASSUME TypeOK, AttemptsLeft,
         (\E c \in Conn : ProxyCommit(c) \/ RemoveConnection(c) \/ TimeStep(c)) \/ Crash
  PROVE  TypeOK' /\ AttemptsLeft'
<1> USE DEF TypeOK, AttemptsLeft, Pc, HoldingPc, dbVars, taskVars, obsVars
<1>1. ASSUME NEW c \in Conn, ProxyCommit(c) PROVE TypeOK' /\ AttemptsLeft'
  BY <1>1 DEF ProxyCommit, Status, Refreshing, Task
<1>2. ASSUME NEW c \in Conn, RemoveConnection(c) PROVE TypeOK' /\ AttemptsLeft'
  BY <1>2 DEF RemoveConnection, Refreshing, Task
<1>3. ASSUME NEW c \in Conn, TimeStep(c) PROVE TypeOK' /\ AttemptsLeft'
  BY <1>3 DEF TimeStep, IntervalElapses, RetryTimeReached
<1>4. CASE Crash
  BY <1>4 DEF Crash
<1> QED BY <1>1, <1>2, <1>3, <1>4

LEMMA TypeStep == TypeOK /\ AttemptsLeft /\ [Next]_vars => TypeOK' /\ AttemptsLeft'
<1> SUFFICES ASSUME TypeOK, AttemptsLeft, [Next]_vars PROVE TypeOK' /\ AttemptsLeft'
  OBVIOUS
<1>1. CASE Next
  BY <1>1, TypeTask, TypeEnvironment DEF Next
<1>2. CASE UNCHANGED vars
  BY <1>2 DEF TypeOK, AttemptsLeft, vars, dbVars, taskVars, obsVars
<1> QED BY <1>1, <1>2

(* The rows, the reservation set and every task keep their types for ever. *)
THEOREM TypeCorrect == Spec => []TypeOK
  BY TypeInit, TypeStep, PTL DEF Spec

-----------------------------------------------------------------------------
(***************************************************************************)
(* What a step may do to the reservations                                  *)
(***************************************************************************)

Keeps == /\ UNCHANGED <<running, leaked>>
         /\ \A u \in Task : Holds(u)' <=> Holds(u)

Takes(t) == /\ Target[t] \notin running /\ ~Holds(t)
            /\ running' = running \cup {Target[t]} /\ leaked' = leaked
            /\ \A u \in Task : Holds(u)' <=> Holds(u) \/ u = t

LeavesOnly(t) == Holds(t) /\ \A u \in Task : Holds(u)' <=> Holds(u) /\ u # t

Gives(t) == /\ LeavesOnly(t)
            /\ running' = running \ {Target[t]} /\ leaked' = leaked

Loses(t) == /\ LeavesOnly(t)
            /\ running' = running /\ leaked' = leaked \cup {Target[t]}

Clears == running' = {} /\ leaked' = {} /\ \A u \in Task : ~Holds(u)'

(* A step of a task outside the reservation, or from one holding step to   *)
(* the next, keeps the reservations; the others take, give or lose one.    *)
LEMMA TaskReservations ==
  ASSUME TypeOK, NEW t \in Task,
         AuthComplete(t) \/ SchedulerSpawn(t) \/ ForceStart(t) \/ TaskStep(t)
  PROVE  Keeps \/ Takes(t) \/ Gives(t) \/ Loses(t)
<1> USE DEF TypeOK, Keeps, Takes, Gives, Loses, LeavesOnly, Holds, HoldingPc, Goto,
            dbVars, taskVars, obsVars
<1>1. CASE AuthComplete(t)  BY <1>1 DEF AuthComplete
<1>2. CASE SchedulerSpawn(t)  BY <1>2 DEF SchedulerSpawn
<1>3. CASE ForceStart(t)  BY <1>3 DEF ForceStart
<1>4. CASE ReserveGate(t)  BY <1>4 DEF ReserveGate
<1>5. CASE ReserveTake(t)  BY <1>5 DEF ReserveTake
<1>6. CASE ForceReserve(t)  BY <1>6 DEF ForceReserve
<1>7. CASE ForceWait(t)  BY <1>7 DEF ForceWait
<1>8. CASE ForceConfirm(t)  BY <1>8 DEF ForceConfirm
<1>9. CASE ForceReply(t)  BY <1>9 DEF ForceReply
<1>10. CASE SyncLoad(t)  BY <1>10 DEF SyncLoad
<1>11. CASE SyncMark(t)  BY <1>11 DEF SyncMark
<1>12. CASE SyncRefresh(t)  BY <1>12 DEF SyncRefresh
<1>13. CASE SyncAnswer(t)  BY <1>13 DEF SyncAnswer
<1>14. CASE SyncCommit(t)  BY <1>14 DEF SyncCommit, StoreBatch
<1>15. CASE SyncCommitRefused(t)  BY <1>15 DEF SyncCommitRefused
<1>16. CASE SyncMarkError(t)  BY <1>16 DEF SyncMarkError
<1>17. CASE SyncRelease(t)  BY <1>17 DEF SyncRelease
<1> QED
  BY <1>1, <1>2, <1>3, <1>4, <1>5, <1>6, <1>7, <1>8, <1>9, <1>10, <1>11, <1>12,
     <1>13, <1>14, <1>15, <1>16, <1>17
  DEF TaskStep, ForceStep, SyncStep

(* The environment leaves the reservations alone, a crash clears them.     *)
LEMMA ReservationSteps ==
  ASSUME TypeOK, [Next]_vars
  PROVE  Keeps \/ Clears \/ \E t \in Task : Takes(t) \/ Gives(t) \/ Loses(t)
<1>1. ASSUME NEW t \in Task,
             AuthComplete(t) \/ SchedulerSpawn(t) \/ ForceStart(t) \/ TaskStep(t)
      PROVE  Keeps \/ Takes(t) \/ Gives(t) \/ Loses(t)
  BY <1>1, TaskReservations
<1>2. ASSUME NEW c \in Conn, ProxyCommit(c) \/ RemoveConnection(c) \/ TimeStep(c)
      PROVE  Keeps
  BY <1>2 DEF ProxyCommit, RemoveConnection, TimeStep, IntervalElapses,
              RetryTimeReached, Keeps, Holds, taskVars, obsVars
<1>3. CASE Crash
  BY <1>3 DEF Crash, Clears, Holds, HoldingPc, TypeOK
<1>4. CASE UNCHANGED vars
  BY <1>4 DEF vars, taskVars, obsVars, Keeps, Holds
<1> QED BY <1>1, <1>2, <1>3, <1>4 DEF Next

-----------------------------------------------------------------------------
(***************************************************************************)
(* Mutual exclusion                                                        *)
(***************************************************************************)

OneHolder ==
  \A t, u \in Task : Holds(t) /\ Holds(u) /\ Target[t] = Target[u] => t = u

HolderReserved == \A t \in Task : Holds(t) => Target[t] \in running \ leaked

\* The inductive invariant: SingleFlight only speaks of two program counters,
\* but which task may move to them is decided by the reservation set.
ReservationInv ==
  OneHolder /\ HolderReserved /\ ReservationAccounted

LEMMA ReservationInit == Init => ReservationInv
  BY DEF Init, ReservationInv, OneHolder, HolderReserved, ReservationAccounted,
         Holds, HoldingPc

LEMMA ReservationStep ==
  TypeOK /\ ReservationInv /\ [Next]_vars => ReservationInv'
<1> SUFFICES ASSUME TypeOK, ReservationInv, [Next]_vars
             PROVE  ReservationInv'
  OBVIOUS
<1> USE DEF ReservationInv, OneHolder, HolderReserved, ReservationAccounted
<1>1. CASE Keeps
  BY <1>1 DEF Keeps
<1>2. CASE Clears
  BY <1>2 DEF Clears
<1>3. ASSUME NEW t \in Task, Takes(t)
      PROVE  ReservationInv'
  <2> Target[t] \in Conn
    BY DEF Task
  <2>1. \A u \in Task : Holds(u) => Target[u] # Target[t]
    BY <1>3 DEF Takes
  <2>2. OneHolder' /\ HolderReserved'
    BY <1>3, <2>1 DEF Takes
  <2>3. ReservationAccounted'
    BY <1>3 DEF Takes
  <2> QED BY <2>2, <2>3
<1>4. ASSUME NEW t \in Task, Gives(t) \/ Loses(t)
      PROVE  ReservationInv'
  <2> USE DEF Gives, Loses, LeavesOnly
  <2> Target[t] \in Conn
    BY DEF Task
  <2>1. OneHolder'
    BY <1>4
  <2>2. HolderReserved'
    BY <1>4
  <2>3. ReservationAccounted'
    BY <1>4
  <2> QED BY <2>1, <2>2, <2>3
<1> QED BY <1>1, <1>2, <1>3, <1>4, ReservationSteps

LEMMA ReservationCorrect == Spec => []ReservationInv
  BY ReservationInit, ReservationStep, TypeCorrect, PTL DEF Spec

(* However many tasks ask for it, no connection ever has two provider      *)
(* requests pending.                                                       *)
THEOREM SingleFlightHolds == Spec => []SingleFlight
<1>1. ReservationInv => SingleFlight
  BY DEF ReservationInv, OneHolder, SingleFlight, InFlight, Holds, HoldingPc
<1> QED BY <1>1, ReservationCorrect, PTL

(* A reservation is held by one task or was leaked by force_sync's failed  *)
(* read; no other path of the runtime forgets one.                         *)
THEOREM ReservationAccountedHolds == Spec => []ReservationAccounted
  BY ReservationCorrect, PTL DEF ReservationInv

-----------------------------------------------------------------------------
(***************************************************************************)
(* Rows and cursors under removal                                          *)
(***************************************************************************)

\* A task only works for a connection that has, or had, a row.
WorkIsForBorn == \A t \in Task : pc[t] # "idle" => status[Target[t]] # "unborn"

CursorInv == WorkIsForBorn /\ CommitOnCurrentCursor /\ RemovedLeavesNothing

LEMMA CursorInit == Init => CursorInv
  BY DEF Init, CursorInv, WorkIsForBorn, CommitOnCurrentCursor,
         RemovedLeavesNothing, Rows, Status

(* The cursor is written by the holder of the reservation only, and the    *)
(* other tasks that have read it hold the same reservation: they are none. *)
LEMMA CursorTask ==
  ASSUME TypeOK, OneHolder, CursorInv, NEW t \in Task,
         AuthComplete(t) \/ SchedulerSpawn(t) \/ ForceStart(t) \/ TaskStep(t)
  PROVE  CursorInv'
<1> USE DEF TypeOK, CursorInv, WorkIsForBorn, CommitOnCurrentCursor,
            RemovedLeavesNothing, Rows, Status, Goto, dbVars, taskVars, obsVars
<1>0. Target[t] \in Conn
  BY DEF Task
<1>1. CASE AuthComplete(t)  BY <1>0, <1>1 DEF AuthComplete
<1>2. CASE SchedulerSpawn(t)  BY <1>2 DEF SchedulerSpawn
<1>3. CASE ForceStart(t)  BY <1>3 DEF ForceStart
<1>4. CASE ReserveGate(t)  BY <1>4 DEF ReserveGate
<1>5. CASE ReserveTake(t)  BY <1>5 DEF ReserveTake
<1>6. CASE ForceReserve(t)  BY <1>6 DEF ForceReserve
<1>7. CASE ForceWait(t)  BY <1>7 DEF ForceWait
<1>8. CASE ForceConfirm(t)  BY <1>8 DEF ForceConfirm
<1>9. CASE ForceReply(t)  BY <1>9 DEF ForceReply
<1>10. CASE SyncLoad(t)  BY <1>10 DEF SyncLoad
<1>11. CASE SyncMark(t)  BY <1>0, <1>11 DEF SyncMark
<1>12. CASE SyncRefresh(t)  BY <1>0, <1>12 DEF SyncRefresh
<1>13. CASE SyncAnswer(t)  BY <1>13 DEF SyncAnswer
<1>14. CASE SyncCommit(t)
  <2> USE <1>0, <1>14 DEF SyncCommit, StoreBatch
  <2>1. \A u \in Task : u # t /\ Target[u] = Target[t]
                          => pc'[u] \notin {"request", "commit"}
    BY DEF OneHolder, Holds, HoldingPc
  <2>2. CommitOnCurrentCursor'
    BY <2>1
  <2>3. WorkIsForBorn' /\ RemovedLeavesNothing'
    OBVIOUS
  <2> QED BY <2>2, <2>3
<1>15. CASE SyncCommitRefused(t)  BY <1>15 DEF SyncCommitRefused
<1>16. CASE SyncMarkError(t)  BY <1>0, <1>16 DEF SyncMarkError, ErrorOutcome
<1>17. CASE SyncRelease(t)  BY <1>17 DEF SyncRelease
<1> QED
  BY <1>1, <1>2, <1>3, <1>4, <1>5, <1>6, <1>7, <1>8, <1>9, <1>10, <1>11, <1>12,
     <1>13, <1>14, <1>15, <1>16, <1>17
  DEF TaskStep, ForceStep, SyncStep

LEMMA CursorEnvironment ==
  ASSUME TypeOK, CursorInv,
         (\E c \in Conn : ProxyCommit(c) \/ RemoveConnection(c) \/ TimeStep(c)) \/ Crash
  PROVE  CursorInv'
<1> USE DEF TypeOK, CursorInv, WorkIsForBorn, CommitOnCurrentCursor,
            RemovedLeavesNothing, Rows, Status, dbVars, taskVars, obsVars
<1>1. ASSUME NEW c \in Conn, ProxyCommit(c) PROVE CursorInv'
  BY <1>1 DEF ProxyCommit
<1>2. ASSUME NEW c \in Conn, RemoveConnection(c) PROVE CursorInv'
  BY <1>2 DEF RemoveConnection
<1>3. ASSUME NEW c \in Conn, TimeStep(c) PROVE CursorInv'
  BY <1>3 DEF TimeStep, IntervalElapses, RetryTimeReached
<1>4. CASE Crash
  BY <1>4 DEF Crash
<1> QED BY <1>1, <1>2, <1>3, <1>4

LEMMA CursorCorrect == Spec => []CursorInv
<1>1. TypeOK /\ ReservationInv /\ CursorInv /\ [Next]_vars => CursorInv'
  <2> SUFFICES ASSUME TypeOK, ReservationInv, CursorInv, [Next]_vars PROVE CursorInv'
    OBVIOUS
  <2>1. CASE Next
    BY <2>1, CursorTask, CursorEnvironment DEF Next, ReservationInv
  <2>2. CASE UNCHANGED vars
    BY <2>2 DEF CursorInv, WorkIsForBorn, CommitOnCurrentCursor, RemovedLeavesNothing,
                Rows, vars, dbVars, taskVars
  <2> QED BY <2>1, <2>2
<1> QED BY <1>1, CursorInit, TypeCorrect, ReservationCorrect, PTL DEF Spec

(* Nobody moves the cursor between a sync's read of it and its commit.     *)
THEOREM CommitOnCurrentCursorHolds == Spec => []CommitOnCurrentCursor
  BY CursorCorrect, PTL DEF CursorInv

(* Syncs in flight cannot bring a removed connection back.                 *)
THEOREM RemovedLeavesNothingHolds == Spec => []RemovedLeavesNothing
  BY CursorCorrect, PTL DEF CursorInv

-----------------------------------------------------------------------------
(***************************************************************************)
(* What an answer to a refresh means                                       *)
(***************************************************************************)

Explained(t) ==
  t \in served \/ Target[t] \in proxied \/ status[Target[t]] = "removed"

\* A refresh accepts another sync's result because the time of success has
\* moved, so what moves it must be explained already then.
AnswerInv ==
  /\ \A t \in Task : pc[t] \in {"poll", "confirm", "ok"} => t \in ForceTask
  /\ \A t \in ForceTask : t \in moved \/ pc[t] \in {"succeed", "ok"} => Explained(t)

LEMMA AnswerInit == Init => AnswerInv
  BY DEF Init, AnswerInv, Task

LEMMA AnswerTask ==
  ASSUME TypeOK, AnswerInv, NEW t \in Task,
         AuthComplete(t) \/ SchedulerSpawn(t) \/ ForceStart(t) \/ TaskStep(t)
  PROVE  AnswerInv'
<1> USE DEF TypeOK, AnswerInv, Explained, Task, Rows, Status, Goto, dbVars, taskVars,
            obsVars
<1>0. Target[t] \in Conn
  OBVIOUS
<1>1. CASE AuthComplete(t)  BY <1>0, <1>1 DEF AuthComplete
<1>2. CASE SchedulerSpawn(t)  BY <1>0, <1>2 DEF SchedulerSpawn
<1>3. CASE ForceStart(t)  BY <1>0, <1>3 DEF ForceStart
<1>4. CASE ReserveGate(t)  BY <1>0, <1>4 DEF ReserveGate
<1>5. CASE ReserveTake(t)  BY <1>0, <1>5 DEF ReserveTake
<1>6. CASE ForceReserve(t)  BY <1>0, <1>6 DEF ForceReserve
<1>7. CASE ForceWait(t)  BY <1>0, <1>7 DEF ForceWait
<1>8. CASE ForceConfirm(t)  BY <1>0, <1>8 DEF ForceConfirm
<1>9. CASE ForceReply(t)  BY <1>0, <1>9 DEF ForceReply
<1>10. CASE SyncLoad(t)  BY <1>0, <1>10 DEF SyncLoad
<1>11. CASE SyncMark(t)  BY <1>0, <1>11 DEF SyncMark
<1>12. CASE SyncRefresh(t)  BY <1>0, <1>12 DEF SyncRefresh
<1>13. CASE SyncAnswer(t)  BY <1>0, <1>13 DEF SyncAnswer
<1>14. CASE SyncCommit(t)  BY <1>0, <1>14 DEF SyncCommit, StoreBatch, Refreshing
<1>15. CASE SyncCommitRefused(t)  BY <1>0, <1>15 DEF SyncCommitRefused
<1>16. CASE SyncMarkError(t)  BY <1>0, <1>16 DEF SyncMarkError, ErrorOutcome
<1>17. CASE SyncRelease(t)  BY <1>0, <1>17 DEF SyncRelease
<1> QED
  BY <1>1, <1>2, <1>3, <1>4, <1>5, <1>6, <1>7, <1>8, <1>9, <1>10, <1>11, <1>12,
     <1>13, <1>14, <1>15, <1>16, <1>17
  DEF TaskStep, ForceStep, SyncStep

LEMMA AnswerEnvironment ==
  ASSUME TypeOK, AnswerInv,
         (\E c \in Conn : ProxyCommit(c) \/ RemoveConnection(c) \/ TimeStep(c)) \/ Crash
  PROVE  AnswerInv'
<1> USE DEF TypeOK, AnswerInv, Explained, Task, Rows, Status, dbVars, taskVars, obsVars
<1>1. ASSUME NEW c \in Conn, ProxyCommit(c) PROVE AnswerInv'
  BY <1>1 DEF ProxyCommit, Refreshing
<1>2. ASSUME NEW c \in Conn, RemoveConnection(c) PROVE AnswerInv'
  BY <1>2 DEF RemoveConnection, Refreshing
<1>3. ASSUME NEW c \in Conn, TimeStep(c) PROVE AnswerInv'
  BY <1>3 DEF TimeStep, IntervalElapses, RetryTimeReached
<1>4. CASE Crash
  BY <1>4 DEF Crash
<1> QED BY <1>1, <1>2, <1>3, <1>4

(* Without a proxy, and while its connection exists, a refresh is answered *)
(* Ok only after a batch was committed during it.                          *)
THEOREM ForceAnswerExplainedHolds == Spec => []ForceAnswerExplained
<1>1. TypeOK /\ AnswerInv /\ [Next]_vars => AnswerInv'
  <2> SUFFICES ASSUME TypeOK, AnswerInv, [Next]_vars PROVE AnswerInv'
    OBVIOUS
  <2>1. CASE Next
    BY <2>1, AnswerTask, AnswerEnvironment DEF Next
  <2>2. CASE UNCHANGED vars
    BY <2>2 DEF AnswerInv, Explained, vars, dbVars, taskVars, obsVars
  <2> QED BY <2>1, <2>2
<1>2. AnswerInv => ForceAnswerExplained
  BY DEF AnswerInv, Explained, ForceAnswerExplained
<1> QED BY <1>1, <1>2, AnswerInit, TypeCorrect, PTL DEF Spec

-----------------------------------------------------------------------------
(***************************************************************************)
(* The status a sync works under                                           *)
(***************************************************************************)

SyncsPc == {"refresh", "request", "commit", "errored"}

\* Past its mark a sync finds the status it has written, which only a proxy or
\* a removal takes away.
MarkedInv ==
  \A t \in Task : pc[t] \in SyncsPc /\ Target[t] \notin proxied
                    => status[Target[t]] \in {"syncing", "removed"}

LEMMA MarkedInit == Init => MarkedInv
  BY DEF Init, MarkedInv, SyncsPc

LEMMA MarkedTask ==
  ASSUME TypeOK, OneHolder, WorkIsForBorn, MarkedInv, NEW t \in Task,
         AuthComplete(t) \/ SchedulerSpawn(t) \/ ForceStart(t) \/ TaskStep(t)
  PROVE  MarkedInv'
<1> USE DEF TypeOK, MarkedInv, SyncsPc, WorkIsForBorn, Rows, Status, Goto, dbVars,
            taskVars, obsVars
<1>0. Target[t] \in Conn
  BY DEF Task
<1>a. \A u \in Task : u # t /\ pc[t] \in SyncsPc /\ Target[u] = Target[t]
                        => pc[u] \notin SyncsPc
  BY DEF OneHolder, Holds, HoldingPc
<1>1. CASE AuthComplete(t)  BY <1>0, <1>1 DEF AuthComplete
<1>2. CASE SchedulerSpawn(t)  BY <1>0, <1>2 DEF SchedulerSpawn
<1>3. CASE ForceStart(t)  BY <1>0, <1>3 DEF ForceStart
<1>4. CASE ReserveGate(t)  BY <1>0, <1>4 DEF ReserveGate
<1>5. CASE ReserveTake(t)  BY <1>0, <1>5 DEF ReserveTake
<1>6. CASE ForceReserve(t)  BY <1>0, <1>6 DEF ForceReserve
<1>7. CASE ForceWait(t)  BY <1>0, <1>7 DEF ForceWait
<1>8. CASE ForceConfirm(t)  BY <1>0, <1>8 DEF ForceConfirm
<1>9. CASE ForceReply(t)  BY <1>0, <1>9 DEF ForceReply
<1>10. CASE SyncLoad(t)  BY <1>0, <1>10 DEF SyncLoad
<1>11. CASE SyncMark(t)  BY <1>0, <1>11 DEF SyncMark
<1>12. CASE SyncRefresh(t)  BY <1>0, <1>12 DEF SyncRefresh
<1>13. CASE SyncAnswer(t)  BY <1>0, <1>13 DEF SyncAnswer
<1>14. CASE SyncCommit(t)  BY <1>0, <1>a, <1>14 DEF SyncCommit, StoreBatch
<1>15. CASE SyncCommitRefused(t)  BY <1>0, <1>15 DEF SyncCommitRefused
<1>16. CASE SyncMarkError(t)  BY <1>0, <1>a, <1>16 DEF SyncMarkError
<1>17. CASE SyncRelease(t)  BY <1>0, <1>17 DEF SyncRelease
<1> QED
  BY <1>1, <1>2, <1>3, <1>4, <1>5, <1>6, <1>7, <1>8, <1>9, <1>10, <1>11, <1>12,
     <1>13, <1>14, <1>15, <1>16, <1>17
  DEF TaskStep, ForceStep, SyncStep

LEMMA MarkedEnvironment ==
  ASSUME TypeOK, MarkedInv,
         (\E c \in Conn : ProxyCommit(c) \/ RemoveConnection(c) \/ TimeStep(c)) \/ Crash
  PROVE  MarkedInv'
<1> USE DEF TypeOK, MarkedInv, SyncsPc, Rows, Status, dbVars, taskVars, obsVars
<1>1. ASSUME NEW c \in Conn, ProxyCommit(c) PROVE MarkedInv'
  BY <1>1 DEF ProxyCommit
<1>2. ASSUME NEW c \in Conn, RemoveConnection(c) PROVE MarkedInv'
  BY <1>2 DEF RemoveConnection
<1>3. ASSUME NEW c \in Conn, TimeStep(c) PROVE MarkedInv'
  BY <1>3 DEF TimeStep, IntervalElapses, RetryTimeReached
<1>4. CASE Crash
  BY <1>4 DEF Crash
<1> QED BY <1>1, <1>2, <1>3, <1>4

LEMMA MarkedCorrect == Spec => []MarkedInv
<1>1. TypeOK /\ ReservationInv /\ CursorInv /\ MarkedInv /\ [Next]_vars => MarkedInv'
  <2> SUFFICES ASSUME TypeOK, ReservationInv, CursorInv, MarkedInv, [Next]_vars
               PROVE  MarkedInv'
    OBVIOUS
  <2>1. CASE Next
    BY <2>1, MarkedTask, MarkedEnvironment DEF Next, ReservationInv, CursorInv
  <2>2. CASE UNCHANGED vars
    BY <2>2 DEF MarkedInv, vars, dbVars, taskVars
  <2> QED BY <2>1, <2>2
<1> QED BY <1>1, MarkedInit, TypeCorrect, ReservationCorrect, CursorCorrect, PTL DEF Spec

\* What ErrorsLeaveThroughSyncing says of a step.
ErrorStays ==
  \A c \in Conn \ proxied :
    status[c] \in {"auth_required", "rate_limited", "offline", "provider_error"}
      => status'[c] \in {status[c], "syncing", "removed"}

(* Only a commit, an error and an authentication write another status: the *)
(* first two find "syncing", the third no row.                             *)
LEMMA ErrorTask ==
  ASSUME TypeOK, MarkedInv, NEW t \in Task,
         AuthComplete(t) \/ SchedulerSpawn(t) \/ ForceStart(t) \/ TaskStep(t)
  PROVE  ErrorStays
<1> USE DEF TypeOK, MarkedInv, SyncsPc, ErrorStays, dbVars
<1>0. Target[t] \in Conn
  BY DEF Task
<1>1. CASE AuthComplete(t)  BY <1>0, <1>1 DEF AuthComplete
<1>2. CASE SchedulerSpawn(t)  BY <1>0, <1>2 DEF SchedulerSpawn
<1>3. CASE ForceStart(t)  BY <1>0, <1>3 DEF ForceStart
<1>4. CASE ReserveGate(t)  BY <1>0, <1>4 DEF ReserveGate
<1>5. CASE ReserveTake(t)  BY <1>0, <1>5 DEF ReserveTake
<1>6. CASE ForceReserve(t)  BY <1>0, <1>6 DEF ForceReserve
<1>7. CASE ForceWait(t)  BY <1>0, <1>7 DEF ForceWait
<1>8. CASE ForceConfirm(t)  BY <1>0, <1>8 DEF ForceConfirm
<1>9. CASE ForceReply(t)  BY <1>0, <1>9 DEF ForceReply
<1>10. CASE SyncLoad(t)  BY <1>0, <1>10 DEF SyncLoad
<1>11. CASE SyncMark(t)  BY <1>0, <1>11 DEF SyncMark
<1>12. CASE SyncRefresh(t)  BY <1>0, <1>12 DEF SyncRefresh
<1>13. CASE SyncAnswer(t)  BY <1>0, <1>13 DEF SyncAnswer
<1>14. CASE SyncCommit(t)  BY <1>0, <1>14 DEF SyncCommit, StoreBatch
<1>15. CASE SyncCommitRefused(t)  BY <1>0, <1>15 DEF SyncCommitRefused
<1>16. CASE SyncMarkError(t)  BY <1>0, <1>16 DEF SyncMarkError
<1>17. CASE SyncRelease(t)  BY <1>0, <1>17 DEF SyncRelease
<1> QED
  BY <1>1, <1>2, <1>3, <1>4, <1>5, <1>6, <1>7, <1>8, <1>9, <1>10, <1>11, <1>12,
     <1>13, <1>14, <1>15, <1>16, <1>17
  DEF TaskStep, ForceStep, SyncStep

LEMMA ErrorStep == TypeOK /\ MarkedInv /\ [Next]_vars => ErrorStays
<1> SUFFICES ASSUME TypeOK, MarkedInv, [Next]_vars PROVE ErrorStays
  OBVIOUS
<1>1. ASSUME NEW c \in Conn, ProxyCommit(c) \/ RemoveConnection(c) \/ TimeStep(c)
      PROVE  ErrorStays
  BY <1>1 DEF ProxyCommit, RemoveConnection, TimeStep, IntervalElapses,
              RetryTimeReached, ErrorStays, TypeOK
<1>2. CASE Crash
  BY <1>2 DEF Crash, ErrorStays, dbVars
<1>3. CASE UNCHANGED vars
  BY <1>3 DEF vars, dbVars, ErrorStays
<1> QED BY <1>1, <1>2, <1>3, ErrorTask DEF Next

(* No sync hides the error of another: without a proxy, an error leaves    *)
(* the row when a new sync marks it, or with the row.                      *)
THEOREM ErrorsLeaveThroughSyncingHolds == Spec => ErrorsLeaveThroughSyncing
<1>1. TypeOK /\ MarkedInv /\ [Next]_vars => [ErrorStays]_vars
  BY ErrorStep
<1> QED
  BY <1>1, TypeCorrect, MarkedCorrect, PTL DEF Spec, ErrorsLeaveThroughSyncing, ErrorStays

\* An instance in which nothing cuts a sync short or refuses its batch.
Undisturbed == MaxFaults = 0 /\ MaxCrashes = 0 /\ RejectConn = {}

LEMMA SyncingTask ==
  ASSUME Undisturbed, TypeOK, SyncingIsLive, NEW t \in Task,
         AuthComplete(t) \/ SchedulerSpawn(t) \/ ForceStart(t) \/ TaskStep(t)
  PROVE  SyncingIsLive'
<1> USE DEF Undisturbed, TypeOK, SyncingIsLive, Goto, Rows, Status, Fault, dbVars,
            taskVars, obsVars
<1>0. Target[t] \in Conn /\ ~(faults < MaxFaults)
  BY DEF Task
<1>1. CASE AuthComplete(t)  BY <1>0, <1>1 DEF AuthComplete
<1>2. CASE SchedulerSpawn(t)  BY <1>0, <1>2 DEF SchedulerSpawn
<1>3. CASE ForceStart(t)  BY <1>0, <1>3 DEF ForceStart
<1>4. CASE ReserveGate(t)  BY <1>0, <1>4 DEF ReserveGate
<1>5. CASE ReserveTake(t)  BY <1>0, <1>5 DEF ReserveTake
<1>6. CASE ForceReserve(t)  BY <1>0, <1>6 DEF ForceReserve
<1>7. CASE ForceWait(t)  BY <1>0, <1>7 DEF ForceWait
<1>8. CASE ForceConfirm(t)  BY <1>0, <1>8 DEF ForceConfirm
<1>9. CASE ForceReply(t)  BY <1>0, <1>9 DEF ForceReply
<1>10. CASE SyncLoad(t)  BY <1>0, <1>10 DEF SyncLoad
<1>11. CASE SyncMark(t)  BY <1>0, <1>11 DEF SyncMark
<1>12. CASE SyncRefresh(t)  BY <1>0, <1>12 DEF SyncRefresh
<1>13. CASE SyncAnswer(t)  BY <1>0, <1>13 DEF SyncAnswer
<1>14. CASE SyncCommit(t)  BY <1>0, <1>14 DEF SyncCommit, StoreBatch
<1>15. CASE SyncCommitRefused(t)  BY <1>0, <1>15 DEF SyncCommitRefused
<1>16. CASE SyncMarkError(t)  BY <1>0, <1>16 DEF SyncMarkError, ErrorOutcome
<1>17. CASE SyncRelease(t)  BY <1>0, <1>17 DEF SyncRelease
<1> QED
  BY <1>1, <1>2, <1>3, <1>4, <1>5, <1>6, <1>7, <1>8, <1>9, <1>10, <1>11, <1>12,
     <1>13, <1>14, <1>15, <1>16, <1>17
  DEF TaskStep, ForceStep, SyncStep

LEMMA SyncingEnvironment ==
  ASSUME Undisturbed, TypeOK, SyncingIsLive,
         (\E c \in Conn : ProxyCommit(c) \/ RemoveConnection(c) \/ TimeStep(c)) \/ Crash
  PROVE  SyncingIsLive'
<1> USE DEF TypeOK, SyncingIsLive, dbVars, taskVars, obsVars
<1>1. ASSUME NEW c \in Conn, ProxyCommit(c) PROVE SyncingIsLive'
  BY <1>1 DEF ProxyCommit
<1>2. ASSUME NEW c \in Conn, RemoveConnection(c) PROVE SyncingIsLive'
  BY <1>2 DEF RemoveConnection
<1>3. ASSUME NEW c \in Conn, TimeStep(c) PROVE SyncingIsLive'
  BY <1>3 DEF TimeStep, IntervalElapses, RetryTimeReached
<1>4. ~Crash
  BY DEF Crash, Undisturbed
<1> QED BY <1>1, <1>2, <1>3, <1>4

(* While the database works, the daemon stays up and no batch is refused,  *)
(* a row shows "syncing" only while some sync is at work for it.           *)
THEOREM SyncingIsLiveHolds ==
  ASSUME Undisturbed
  PROVE  Spec => []SyncingIsLive
<1>1. Init => SyncingIsLive
  BY DEF Init, SyncingIsLive
<1>2. TypeOK /\ SyncingIsLive /\ [Next]_vars => SyncingIsLive'
  <2> SUFFICES ASSUME TypeOK, SyncingIsLive, [Next]_vars PROVE SyncingIsLive'
    OBVIOUS
  <2>1. CASE Next
    BY <2>1, SyncingTask, SyncingEnvironment DEF Next
  <2>2. CASE UNCHANGED vars
    BY <2>2 DEF SyncingIsLive, vars, dbVars, taskVars
  <2> QED BY <2>1, <2>2
<1> QED BY <1>1, <1>2, TypeCorrect, PTL DEF Spec

-----------------------------------------------------------------------------
(***************************************************************************)
(* The runtime implements the lease                                        *)
(***************************************************************************)

\* What Holder's CHOOSE yields, thanks to OneHolder.
HolderFacts ==
  \A c \in Conn :
    /\ \A t \in Task : Target[t] = c /\ Holds(t) => Holder(c) = t
    /\ (\A t \in Task : Target[t] = c => ~Holds(t))
         => Holder(c) = IF c \in running THEN "lost" ELSE "free"

LEMMA HolderDetermined == OneHolder => HolderFacts
<1> SUFFICES ASSUME OneHolder, NEW c \in Conn
             PROVE  /\ \A t \in Task : Target[t] = c /\ Holds(t) => Holder(c) = t
                    /\ (\A t \in Task : Target[t] = c => ~Holds(t))
                         => Holder(c) = IF c \in running THEN "lost" ELSE "free"
  BY DEF HolderFacts
<1>1. ASSUME NEW t \in Task, Target[t] = c, Holds(t)
      PROVE  Holder(c) = t
  <2> DEFINE h == CHOOSE u \in Task : Target[u] = c /\ Holds(u)
  <2>1. h \in Task /\ Target[h] = c /\ Holds(h)
    BY <1>1
  <2>2. h = t
    BY <1>1, <2>1 DEF OneHolder
  <2> QED BY <1>1, <2>2 DEF Holder
<1>2. ASSUME \A t \in Task : Target[t] = c => ~Holds(t)
      PROVE  Holder(c) = IF c \in running THEN "lost" ELSE "free"
  BY <1>2 DEF Holder
<1> QED BY <1>1, <1>2

HolderMap == [c \in Conn |-> Holder(c)]

(* What the five kinds of step do to the holders the lease sees.           *)
LEMMA HolderSteps ==
  ASSUME ReservationInv, HolderFacts, HolderFacts', NEW t \in Task
  PROVE  /\ Keeps => HolderMap' = HolderMap
         /\ Takes(t) => /\ HolderMap[Target[t]] = "free"
                        /\ HolderMap' = [HolderMap EXCEPT ![Target[t]] = t]
         /\ Holds(t) => HolderMap[Target[t]] = t
         /\ Gives(t) => HolderMap' = [HolderMap EXCEPT ![Target[t]] = "free"]
         /\ Loses(t) => HolderMap' = [HolderMap EXCEPT ![Target[t]] = "lost"]
         /\ Clears => HolderMap' = [c \in Conn |-> "free"]
<1> USE DEF ReservationInv, OneHolder, HolderReserved, HolderMap
<1>0. Target[t] \in Conn
  BY DEF Task
<1>1. ASSUME Keeps, NEW c \in Conn PROVE Holder(c)' = Holder(c)
  <2>1. CASE \E u \in Task : Target[u] = c /\ Holds(u)
    BY <1>1, <2>1 DEF Keeps, HolderFacts
  <2>2. CASE \A u \in Task : Target[u] = c => ~Holds(u)
    BY <1>1, <2>2 DEF Keeps, HolderFacts
  <2> QED BY <2>1, <2>2
<1>2. ASSUME Takes(t) \/ Gives(t) \/ Loses(t), NEW c \in Conn, c # Target[t]
      PROVE  Holder(c)' = Holder(c)
  <2>1. CASE \E u \in Task : Target[u] = c /\ Holds(u)
    BY <1>2, <2>1 DEF Takes, Gives, Loses, LeavesOnly, HolderFacts
  <2>2. CASE \A u \in Task : Target[u] = c => ~Holds(u)
    BY <1>2, <2>2 DEF Takes, Gives, Loses, LeavesOnly, HolderFacts
  <2> QED BY <2>1, <2>2
<1>3. ASSUME Takes(t)
      PROVE  Holder(Target[t]) = "free" /\ Holder(Target[t])' = t
  BY <1>0, <1>3 DEF Takes, HolderFacts
<1>4. Holds(t) => Holder(Target[t]) = t
  BY <1>0 DEF HolderFacts
<1>5. ASSUME Gives(t) \/ Loses(t), NEW u \in Task, Target[u] = Target[t]
      PROVE  ~Holds(u)'
  BY <1>5 DEF Gives, Loses, LeavesOnly
<1>6. Gives(t) => Holder(Target[t])' = "free"
  BY <1>0, <1>5 DEF Gives, HolderFacts
<1>7. Loses(t) => Holder(Target[t])' = "lost"
  BY <1>0, <1>5 DEF Loses, LeavesOnly, HolderFacts
<1>8. ASSUME Clears, NEW c \in Conn PROVE Holder(c)' = "free"
  BY <1>8 DEF Clears, HolderFacts
<1> QED BY <1>0, <1>1, <1>2, <1>3, <1>4, <1>6, <1>7, <1>8

\* A task step that neither stores a batch nor ends a sync.
Quiet(t) ==
  /\ cursor' = cursor /\ Gone' = Gone
  /\ pc[t] # "succeed" /\ pc'[t] # "succeed"
  /\ \A u \in Task : u # t => pc'[u] = pc[u]

LEMMA QuietSteps ==
  ASSUME TypeOK, NEW t \in Task,
         AuthComplete(t) \/ SchedulerSpawn(t) \/ ForceStart(t) \/ TaskStep(t)
  PROVE  Quiet(t) \/ SyncCommit(t) \/ SyncRelease(t)
<1> USE DEF TypeOK, Quiet, Gone, Goto, Rows, Status, dbVars, taskVars, obsVars
<1>0. Target[t] \in Conn
  BY DEF Task
<1>1. CASE AuthComplete(t)  BY <1>0, <1>1 DEF AuthComplete
<1>2. CASE SchedulerSpawn(t)  BY <1>2 DEF SchedulerSpawn
<1>3. CASE ForceStart(t)  BY <1>3 DEF ForceStart
<1>4. CASE ReserveGate(t)  BY <1>4 DEF ReserveGate
<1>5. CASE ReserveTake(t)  BY <1>5 DEF ReserveTake
<1>6. CASE ForceReserve(t)  BY <1>6 DEF ForceReserve
<1>7. CASE ForceWait(t)  BY <1>7 DEF ForceWait
<1>8. CASE ForceConfirm(t)  BY <1>8 DEF ForceConfirm
<1>9. CASE ForceReply(t)  BY <1>9 DEF ForceReply
<1>10. CASE SyncLoad(t)  BY <1>10 DEF SyncLoad
<1>11. CASE SyncMark(t)  BY <1>0, <1>11 DEF SyncMark
<1>12. CASE SyncRefresh(t)  BY <1>12 DEF SyncRefresh
<1>13. CASE SyncAnswer(t)  BY <1>13 DEF SyncAnswer
<1>14. CASE SyncCommitRefused(t)  BY <1>14 DEF SyncCommitRefused
<1>15. CASE SyncMarkError(t)  BY <1>0, <1>15 DEF SyncMarkError, ErrorOutcome
<1> QED
  BY <1>1, <1>2, <1>3, <1>4, <1>5, <1>6, <1>7, <1>8, <1>9, <1>10, <1>11, <1>12,
     <1>13, <1>14, <1>15
  DEF TaskStep, ForceStep, SyncStep

(* Every task step is a step of the lease, or none: taking the reservation *)
(* acquires it, the commit publishes, the end of a sync or an accepted     *)
(* result relinquishes it, force_sync's failed read loses it.              *)
LEMMA LeaseTask ==
  ASSUME TypeOK, ReservationInv, HolderFacts, HolderFacts', CommitOnCurrentCursor,
         NEW t \in Task,
         AuthComplete(t) \/ SchedulerSpawn(t) \/ ForceStart(t) \/ TaskStep(t)
  PROVE  Lease!LeaseNext \/ UNCHANGED Lease!leaseVars
<1> DEFINE c == Target[t]
<1> USE DEF Lease!LeaseNext, Lease!leaseVars
<1>0. c \in Conn
  BY DEF Task
<1>1. CASE Quiet(t)
  <2>1. Published' = Published
    BY <1>1 DEF Quiet, Published
  <2>2. Holds(t) => c \notin Published
    BY <1>1 DEF Quiet, Published, ReservationInv, OneHolder, Holds, HoldingPc
  <2>3. CASE Keeps
    BY <1>1, <2>1, <2>3, HolderSteps DEF HolderMap, Quiet
  <2>4. CASE Takes(t)
    <3>1. Lease!Acquire(t)
      BY <1>1, <2>1, <2>4, HolderSteps DEF HolderMap, Quiet, Lease!Acquire
    <3> QED BY <3>1
  <2>5. CASE Gives(t) \/ Loses(t)
    <3>1. Holds(t)
      BY <2>5 DEF Gives, Loses, LeavesOnly
    <3>2. HolderMap[c] = t
      BY <3>1, HolderSteps
    <3>3. \/ HolderMap' = [HolderMap EXCEPT ![c] = "free"]
          \/ HolderMap' = [HolderMap EXCEPT ![c] = "lost"]
      BY <2>5, HolderSteps
    <3>4. /\ Published' = Published \ {c}
          /\ UNCHANGED <<Gone, cursor>>
      BY <1>1, <2>1, <2>2, <3>1 DEF Quiet
    <3>5. Lease!Relinquish(t)
      BY <2>2, <3>1, <3>2, <3>3, <3>4 DEF HolderMap, Lease!Relinquish
    <3> QED BY <3>5
  <2> QED BY <2>3, <2>4, <2>5, TaskReservations
<1>2. CASE SyncCommit(t)
  <2> USE <1>2 DEF SyncCommit, StoreBatch, Goto, TypeOK
  <2>1. Keeps
    BY DEF Keeps, Holds, HoldingPc, obsVars
  <2>2. Holds(t) /\ c \in Rows
    BY DEF Holds, HoldingPc
  <2>3. c \notin Published
    BY <2>2 DEF Published, ReservationInv, OneHolder, Holds, HoldingPc
  <2>4. Published' = Published \cup {c}
    BY <1>0 DEF Published
  <2>5. c \notin Gone /\ Gone' = Gone
    BY <1>0, <2>2 DEF Gone, Rows, Status
  <2>6. cursor' = [cursor EXCEPT ![c] = IF @ = 0 THEN 1 ELSE 0]
    <3>1. base[t] = cursor[c] /\ cursor' = [cursor EXCEPT ![c] = 1 - base[t]]
      BY <2>2 DEF CommitOnCurrentCursor
    <3>2. cursor[c] = 0 \/ cursor[c] = 1
      BY <1>0
    <3>3. 1 - cursor[c] = IF cursor[c] = 0 THEN 1 ELSE 0
      BY <3>2
    <3> QED BY <3>1, <3>3
  <2>7. HolderMap[c] = t /\ HolderMap' = HolderMap
    BY <2>1, <2>2, HolderSteps
  <2>8. Lease!Publish(t)
    BY <2>3, <2>4, <2>5, <2>6, <2>7 DEF HolderMap, Lease!Publish
  <2> QED BY <2>8
<1>3. CASE SyncRelease(t)
  <2> USE <1>3 DEF SyncRelease, Goto, TypeOK
  <2>1. Gives(t)
    BY DEF Gives, LeavesOnly, Holds, HoldingPc, obsVars
  <2>2. Holds(t)
    BY DEF Holds, HoldingPc
  <2>3. Published' = Published \ {c}
    BY <2>2 DEF Published, ReservationInv, OneHolder, Holds, HoldingPc
  <2>4. UNCHANGED <<Gone, cursor>>
    BY DEF Gone, dbVars
  <2>5. Lease!Relinquish(t)
    BY <2>1, <2>2, <2>3, <2>4, HolderSteps DEF HolderMap, Lease!Relinquish
  <2> QED BY <2>5
<1> QED BY <1>1, <1>2, <1>3, QuietSteps

(* A removal forgets the connection, a crash restarts the lease, and       *)
(* nothing else in the environment is visible to it.                       *)
LEMMA LeaseEnvironment ==
  ASSUME TypeOK, ReservationInv, HolderFacts, HolderFacts',
         (\E c \in Conn : ProxyCommit(c) \/ RemoveConnection(c) \/ TimeStep(c)) \/ Crash
  PROVE  Lease!LeaseNext \/ UNCHANGED Lease!leaseVars
<1> USE DEF Lease!LeaseNext, Lease!leaseVars
<1>1. ASSUME NEW c \in Conn, ProxyCommit(c) \/ TimeStep(c)
      PROVE  UNCHANGED Lease!leaseVars
  <2>1. UNCHANGED <<running, pc, Gone, cursor>>
    BY <1>1 DEF ProxyCommit, TimeStep, IntervalElapses, RetryTimeReached, taskVars,
                Gone, Rows, Status, TypeOK
  <2> QED BY <2>1 DEF Holder, Holds, Published
<1>2. ASSUME NEW c \in Conn, RemoveConnection(c)
      PROVE  Lease!Forget(c)
  BY <1>2 DEF RemoveConnection, Lease!Forget, Holder, Holds, Published, Gone, Rows,
              Status, TypeOK
<1>3. CASE Crash
  <2>1. Clears /\ Published' = {} /\ Gone' = Gone /\ cursor' = cursor
    BY <1>3 DEF Crash, Clears, Holds, HoldingPc, Published, Gone, dbVars, TypeOK
  <2>2. HolderMap' = [c \in Conn |-> "free"]
    BY <2>1, <1>3 DEF HolderFacts, HolderMap, Clears
  <2> QED BY <2>1, <2>2 DEF HolderMap, Lease!Restart
<1> QED BY <1>1, <1>2, <1>3

(* The daemon's reservations and cursors are an implementation of the      *)
(* lease.                                                                  *)
THEOREM LeaseRefinement == Spec => LeaseRefined
<1>1. Init => Lease!LeaseInit
  BY DEF Init, Lease!LeaseInit, Holder, Holds, HoldingPc, Published, Gone
<1>2. ReservationInv => HolderFacts
  BY HolderDetermined DEF ReservationInv
<1>3. TypeOK /\ ReservationInv /\ HolderFacts /\ HolderFacts' /\ CommitOnCurrentCursor
        /\ [Next]_vars => [Lease!LeaseNext]_Lease!leaseVars
  <2> SUFFICES ASSUME TypeOK, ReservationInv, HolderFacts, HolderFacts',
                      CommitOnCurrentCursor, [Next]_vars
               PROVE  Lease!LeaseNext \/ UNCHANGED Lease!leaseVars
    OBVIOUS
  <2>1. CASE Next
    BY <2>1, LeaseTask, LeaseEnvironment DEF Next
  <2>2. CASE UNCHANGED vars
    BY <2>2 DEF vars, dbVars, taskVars, Lease!leaseVars, Holder, Holds, Published, Gone
  <2> QED BY <2>1, <2>2
<1> QED
  BY <1>1, <1>2, <1>3, TypeCorrect, ReservationCorrect, CommitOnCurrentCursorHolds, PTL
  DEF Spec, LeaseRefined, Lease!LeaseSpec

=============================================================================
