----------------------------- MODULE SyncRuntime -----------------------------
(***************************************************************************)
(* The synchronisation runtime of the daemon: the scheduler's automatic    *)
(* syncs, user refreshes, the reservation set `running', the connection    *)
(* row and its "default" sync state in SQLite, and everything that can     *)
(* change the row under a sync in flight (a proxy's usage commit, a        *)
(* removal, the passing of time, a crash of the daemon).                   *)
(*                                                                         *)
(* A task is an asynchronous task of the daemon that may call the runtime  *)
(* for one connection.  The steps of a task are cut at its await points    *)
(* and at every acquisition of the `running' or the database mutex, so the *)
(* interleavings of the model are those of the multi-threaded executor.    *)
(***************************************************************************)
EXTENDS Naturals

CONSTANTS
  Conn,        \* connection identifiers
  RejectConn,  \* those whose provider may return a batch the store refuses
  AutoTask,    \* tasks spawned by Scheduler::run and by request_sync
  ForceTask,   \* IPC handlers running force_sync
  Target,      \* the connection each task works for
  MaxPolls,    \* attempts of force_sync to obtain the reservation (80)
  MaxFaults,   \* bound: database statements that fail with an I/O error
  MaxCrashes,  \* bound: crashes of the daemon
  MayRemove    \* whether users remove connections

Task == AutoTask \cup ForceTask

ASSUME TaskAssumption ==
  /\ AutoTask \cap ForceTask = {}
  /\ Target \in [Task -> Conn]
  /\ RejectConn \subseteq Conn

ASSUME BoundAssumption ==
  /\ MaxPolls \in Nat \ {0}
  /\ MaxFaults \in Nat
  /\ MaxCrashes \in Nat
  /\ MayRemove \in BOOLEAN

VARIABLES
  (* SQLite, table connections *)
  proxied,    \* connections of type openai_compatible_proxy
  status,     \* connections.status, or "unborn" / "removed" when there is no row
  succeeded,  \* connections whose last_success_at is not NULL
  fresh,      \* last_success_at is younger than the sync interval
  (* SQLite, table sync_states, stream "default" *)
  cursor,     \* which of two successive cursors is stored
  armed,      \* next_retry_at lies in the future
  (* memory of the process *)
  running,    \* ProviderRuntime::running
  pc,         \* where each task is
  polls,      \* failed reservation attempts of a force_sync
  dated,      \* force_syncs whose initial_success is not None
  moved,      \* force_syncs for which last_success_at differs from initial_success
  base,       \* the cursor a task has read
  (* observation only *)
  served,     \* force_syncs during which a "default" batch was committed
  leaked,     \* reservations whose owner returned without releasing them
  faults,     \* database errors so far
  crashes     \* crashes so far

dbVars   == <<proxied, status, succeeded, fresh, cursor, armed>>
taskVars == <<running, pc, polls, dated, moved, base>>
obsVars  == <<served, leaked, faults, crashes>>
vars     == <<dbVars, taskVars, obsVars>>

Status == {"ready", "syncing", "auth_required", "rate_limited", "offline",
           "provider_error"}

Rows == {c \in Conn : status[c] \in Status}

(***************************************************************************)
(* The program counter names what the task does next.                      *)
(***************************************************************************)
HoldingPc == {"confirm", "load", "mark", "refresh", "request", "commit",
              "errored", "succeed", "fail"}
Pc == {"idle", "gate", "take", "poll", "ok", "err"} \cup HoldingPc

Holds(t)      == pc[t] \in HoldingPc
InFlight(t)   == pc[t] \in {"refresh", "request"}   \* a provider call is pending
Goto(t, next) == pc' = [pc EXCEPT ![t] = next]

\* force_syncs that have read initial_success of connection c and not returned
Refreshing(c) == {t \in ForceTask : Target[t] = c /\ pc[t] \notin {"idle", "ok", "err"}}

\* A database statement fails.
Fault == faults < MaxFaults /\ faults' = faults + 1

Init ==
  /\ status = [c \in Conn |-> "unborn"]
  /\ proxied = {} /\ succeeded = {} /\ fresh = {} /\ armed = {}
  /\ cursor = [c \in Conn |-> 0]
  /\ running = {}
  /\ pc = [t \in Task |-> "idle"]
  /\ polls = [t \in Task |-> 0]
  /\ dated = {} /\ moved = {}
  /\ base = [t \in Task |-> 0]
  /\ served = {} /\ leaked = {}
  /\ faults = 0 /\ crashes = 0

-----------------------------------------------------------------------------
(***************************************************************************)
(* Automatic syncs: connections/auth/complete requests the first one, the  *)
(* scheduler the others.  The scheduler decides on the row it has listed;  *)
(* the spawned task runs later.                                            *)
(***************************************************************************)

\* complete_auth stores the connection, then dispatch calls request_sync
AuthComplete(t) ==
  /\ t \in AutoTask /\ pc[t] = "idle"
  /\ status[Target[t]] = "unborn"
  /\ status' = [status EXCEPT ![Target[t]] = "ready"]
  /\ proxied' \in {proxied, proxied \cup {Target[t]}}
  /\ Goto(t, "gate")
  /\ UNCHANGED <<succeeded, fresh, cursor, armed, running, polls, dated, moved,
                 base, obsVars>>

\* Variant: a failed connection is left to the user.
SchedulerSpawnHealthy(t) ==
  /\ t \in AutoTask /\ pc[t] = "idle"
  /\ status[Target[t]] = "ready" /\ Target[t] \notin fresh
  /\ Goto(t, "gate")
  /\ UNCHANGED <<dbVars, running, polls, dated, moved, base, obsVars>>

SchedulerSpawn(t) ==
  /\ t \in AutoTask /\ pc[t] = "idle"
  /\ Target[t] \in Rows
  /\ status[Target[t]] # "auth_required"
  /\ Target[t] \notin fresh
  /\ Goto(t, "gate")
  /\ UNCHANGED <<dbVars, running, polls, dated, moved, base, obsVars>>

\* reserve_sync reads next_retry_at ...
ReserveGate(t) ==
  /\ pc[t] = "gate"
  /\ \/ /\ Target[t] \notin armed
        /\ Goto(t, "take")
        /\ UNCHANGED faults
     \/ /\ Target[t] \in armed
        /\ Goto(t, "idle")
        /\ UNCHANGED faults
     \/ Fault /\ Goto(t, "idle")
  /\ UNCHANGED <<dbVars, running, polls, dated, moved, base, served, leaked, crashes>>

\* Variant: the result of running.insert is ignored.
ReserveTakeAnyway(t) ==
  /\ pc[t] = "take"
  /\ running' = running \cup {Target[t]}
  /\ Goto(t, "load")
  /\ UNCHANGED <<dbVars, polls, dated, moved, base, obsVars>>

\* ... and only then takes the reservation
ReserveTake(t) ==
  /\ pc[t] = "take"
  /\ IF Target[t] \in running
       THEN Goto(t, "idle") /\ UNCHANGED running
       ELSE Goto(t, "load") /\ running' = running \cup {Target[t]}
  /\ UNCHANGED <<dbVars, polls, dated, moved, base, obsVars>>

-----------------------------------------------------------------------------
(***************************************************************************)
(* User refreshes: force_sync.                                             *)
(***************************************************************************)

\* Reads initial_success.  The identifier may be that of a removed connection.
ForceStart(t) ==
  /\ t \in ForceTask /\ pc[t] = "idle"
  /\ status[Target[t]] # "unborn"
  /\ Goto(t, "poll")
  /\ polls' = [polls EXCEPT ![t] = 0]
  /\ dated' = IF Target[t] \in succeeded THEN dated \cup {t} ELSE dated
  /\ UNCHANGED <<dbVars, running, moved, base, obsVars>>

\* Variant: a user refresh does not wait for the sync in flight.
ForceReserveAnyway(t) ==
  /\ pc[t] = "poll"
  /\ running' = running \cup {Target[t]}
  /\ Goto(t, "confirm")
  /\ UNCHANGED <<dbVars, polls, dated, moved, base, obsVars>>

ForceReserve(t) ==
  /\ pc[t] = "poll"
  /\ Target[t] \notin running
  /\ running' = running \cup {Target[t]}
  /\ Goto(t, "confirm")
  /\ UNCHANGED <<dbVars, polls, dated, moved, base, obsVars>>

\* Variants: one attempt too many; attempts are not counted.
ForceWaitLate(t) ==
  /\ pc[t] = "poll" /\ Target[t] \in running
  /\ polls' = [polls EXCEPT ![t] = @ + 1]
  /\ Goto(t, IF polls[t] = MaxPolls THEN "err" ELSE "poll")
  /\ UNCHANGED <<dbVars, running, dated, moved, base, obsVars>>

ForceWaitUncounted(t) ==
  /\ pc[t] = "poll" /\ Target[t] \in running
  /\ polls' = [polls EXCEPT ![t] = 1]
  /\ UNCHANGED <<dbVars, running, pc, dated, moved, base, obsVars>>

ForceWait(t) ==
  /\ pc[t] = "poll"
  /\ Target[t] \in running
  /\ polls' = [polls EXCEPT ![t] = @ + 1]
  /\ Goto(t, IF polls'[t] = MaxPolls THEN "err" ELSE "poll")
  /\ UNCHANGED <<dbVars, running, dated, moved, base, obsVars>>

\* Variants: the accepting branch forgets the release; any wait is accepted.
ForceConfirmKeeping(t) ==
  /\ pc[t] = "confirm"
  /\ Goto(t, IF polls[t] > 0 /\ t \in moved THEN "ok" ELSE "load")
  /\ UNCHANGED <<dbVars, running, polls, dated, moved, base, obsVars>>

ForceConfirmAny(t) ==
  /\ pc[t] = "confirm"
  /\ running' = IF polls[t] > 0 THEN running \ {Target[t]} ELSE running
  /\ Goto(t, IF polls[t] > 0 THEN "ok" ELSE "load")
  /\ UNCHANGED <<dbVars, polls, dated, moved, base, obsVars>>

\* Reads current_success while holding the reservation.
ForceConfirm(t) ==
  /\ pc[t] = "confirm"
  /\ \/ /\ polls[t] > 0 /\ t \in moved          \* accept the other sync's result
        /\ running' = running \ {Target[t]}
        /\ Goto(t, "ok")
        /\ UNCHANGED <<leaked, faults>>
     \/ /\ ~ (polls[t] > 0 /\ t \in moved)
        /\ Goto(t, "load")
        /\ UNCHANGED <<running, leaked, faults>>
     \/ /\ Fault                                \* `?' returns past the release
        /\ leaked' = leaked \cup {Target[t]}
        /\ Goto(t, "err")
        /\ UNCHANGED running
  /\ UNCHANGED <<dbVars, polls, dated, moved, base, served, crashes>>

\* The client receives the answer of its refresh; the locals are gone.
ForceReply(t) ==
  /\ pc[t] \in {"ok", "err"}
  /\ Goto(t, "idle")
  /\ polls' = [polls EXCEPT ![t] = 0]
  /\ dated' = dated \ {t}
  /\ moved' = moved \ {t}
  /\ served' = served \ {t}
  /\ UNCHANGED <<dbVars, running, base, leaked, faults, crashes>>

-----------------------------------------------------------------------------
(***************************************************************************)
(* sync_reserved and sync_inner: one sync under the reservation.           *)
(***************************************************************************)

\* The row, its credential reference and the secret are read; the secret
\* store and the database may fail.
SyncLoad(t) ==
  /\ pc[t] = "load"
  /\ \/ Target[t] \in Rows /\ Goto(t, "mark")
     \/ Goto(t, "fail")
  /\ UNCHANGED <<dbVars, running, polls, dated, moved, base, obsVars>>

\* Variant: the status is left as it was.
SyncMarkSkipped(t) ==
  /\ pc[t] = "mark"
  /\ Goto(t, "refresh")
  /\ UNCHANGED <<dbVars, running, polls, dated, moved, base, obsVars>>

\* set_connection_status(Syncing); an UPDATE of a removed row changes nothing
SyncMark(t) ==
  /\ pc[t] = "mark"
  /\ \/ /\ status' = IF Target[t] \in Rows
                       THEN [status EXCEPT ![Target[t]] = "syncing"]
                       ELSE status
        /\ Goto(t, "refresh")
        /\ UNCHANGED faults
     \/ Fault /\ Goto(t, "fail") /\ UNCHANGED status
  /\ UNCHANGED <<proxied, succeeded, fresh, cursor, armed, running, polls, dated, moved,
                 base, served, leaked, crashes>>

\* A proxy connection's adapter makes no provider call and cannot fail.
CanFail(t) == Target[t] \notin proxied

\* refresh_credentials has returned; the cursor is read for adapter.sync
SyncRefresh(t) ==
  /\ pc[t] = "refresh"
  /\ \/ /\ base' = [base EXCEPT ![t] = cursor[Target[t]]]
        /\ Goto(t, "request")
        /\ UNCHANGED faults
     \/ CanFail(t) /\ Goto(t, "errored") /\ UNCHANGED <<base, faults>>
     \/ Fault /\ Goto(t, "errored") /\ UNCHANGED base
  /\ UNCHANGED <<dbVars, running, polls, dated, moved, served, leaked, crashes>>

\* adapter.sync answers, fails, or is cut off by the 90 s timeout
SyncAnswer(t) ==
  /\ pc[t] = "request"
  /\ \/ Goto(t, "commit")
     \/ CanFail(t) /\ Goto(t, "errored")
  /\ UNCHANGED <<dbVars, running, polls, dated, moved, base, obsVars>>

\* The transaction of commit_sync_batch: data, cursor, retry state and
\* connection row together.
StoreBatch(t) ==
  LET c == Target[t] IN
  /\ pc[t] = "commit"
  /\ cursor' = [cursor EXCEPT ![c] = 1 - base[t]]
  /\ status' = IF c \in Rows THEN [status EXCEPT ![c] = "ready"] ELSE status
  /\ succeeded' = succeeded \cup {c}
  /\ fresh' = fresh \cup {c}
  /\ armed' = armed \ {c}
  /\ moved' = moved \cup Refreshing(c)
  /\ served' = served \cup Refreshing(c)
  /\ base' = [base EXCEPT ![t] = 0]
  /\ Goto(t, "succeed")
  /\ UNCHANGED <<proxied, running, polls, dated, leaked, faults, crashes>>

\* The foreign keys of the tables it writes demand the connection's row.
SyncCommit(t) == Target[t] \in Rows /\ StoreBatch(t)

\* Variant: the statements are not one transaction.
SyncCommitTorn(t) ==
  /\ pc[t] = "commit"
  /\ Fault
  /\ cursor' = [cursor EXCEPT ![Target[t]] = 1 - base[t]]
  /\ base' = [base EXCEPT ![t] = 0]
  /\ Goto(t, "fail")
  /\ UNCHANGED <<proxied, status, succeeded, fresh, armed, running, polls, dated, moved,
                 served, leaked, crashes>>

\* The commit is rolled back: no row, a batch that fails validation, or an
\* I/O error.  sync_inner returns at once, past mark_sync_error.
SyncCommitRefused(t) ==
  /\ pc[t] = "commit"
  /\ \/ Target[t] \notin Rows /\ UNCHANGED faults
     \/ Target[t] \in RejectConn \ proxied /\ UNCHANGED faults
     \/ Fault
  /\ base' = [base EXCEPT ![t] = 0]
  /\ Goto(t, "fail")
  /\ UNCHANGED <<dbVars, running, polls, dated, moved, served, leaked, crashes>>

\* error_status: the status an error leads to, and whether next_retry_at is set
ErrorOutcome ==
  {<<"auth_required", FALSE>>,   \* AuthenticationRequired
   <<"rate_limited", TRUE>>,     \* RateLimited: Retry-After, or 300 s doubled
   <<"rate_limited", FALSE>>,    \* RateLimited with a Retry-After already past
   <<"offline", TRUE>>,          \* NetworkUnavailable, Timeout
   <<"provider_error", TRUE>>}   \* every other error

\* Variant: the error is only returned.
SyncMarkErrorLost(t) ==
  /\ pc[t] = "errored"
  /\ base' = [base EXCEPT ![t] = 0]
  /\ Goto(t, "fail")
  /\ UNCHANGED <<dbVars, running, polls, dated, moved, obsVars>>

\* mark_sync_error: also refused by the foreign key; its own failure is ignored
SyncMarkError(t) ==
  LET c == Target[t] IN
  /\ pc[t] = "errored"
  /\ \/ /\ c \in Rows
        /\ \E outcome \in ErrorOutcome :
             /\ CanFail(t) \/ outcome[1] = "provider_error"
             /\ status' = [status EXCEPT ![c] = outcome[1]]
             /\ armed' = IF outcome[2] THEN armed \cup {c} ELSE armed \ {c}
        /\ UNCHANGED faults
     \/ c \notin Rows /\ UNCHANGED <<status, armed, faults>>
     \/ Fault /\ UNCHANGED <<status, armed>>
  /\ base' = [base EXCEPT ![t] = 0]
  /\ Goto(t, "fail")
  /\ UNCHANGED <<proxied, succeeded, fresh, cursor, running, polls, dated, moved, served,
                 leaked, crashes>>

\* Variant: a failed sync keeps its reservation.
SyncReleaseSucceeded(t) ==
  /\ pc[t] \in {"succeed", "fail"}
  /\ running' = IF pc[t] = "succeed" THEN running \ {Target[t]} ELSE running
  /\ Goto(t, IF t \in AutoTask THEN "idle" ELSE IF pc[t] = "succeed" THEN "ok" ELSE "err")
  /\ UNCHANGED <<dbVars, polls, dated, moved, base, obsVars>>

\* sync_reserved gives the reservation back and returns the result
SyncRelease(t) ==
  /\ pc[t] \in {"succeed", "fail"}
  /\ running' = running \ {Target[t]}
  /\ Goto(t, IF t \in AutoTask THEN "idle" ELSE IF pc[t] = "succeed" THEN "ok" ELSE "err")
  /\ UNCHANGED <<dbVars, polls, dated, moved, base, obsVars>>

-----------------------------------------------------------------------------
(***************************************************************************)
(* What changes the row without the reservation.                           *)
(***************************************************************************)

\* The relay proxy commits the usage of one request on stream "proxy".
ProxyCommit(c) ==
  /\ c \in proxied \cap Rows
  /\ status' = [status EXCEPT ![c] = "ready"]
  /\ succeeded' = succeeded \cup {c}
  /\ fresh' = fresh \cup {c}
  /\ moved' = moved \cup Refreshing(c)
  /\ UNCHANGED <<proxied, cursor, armed, running, pc, polls, dated, base, obsVars>>

\* remove ends in remove_connection; the cascade deletes the sync state
RemoveConnection(c) ==
  /\ MayRemove /\ c \in Rows
  /\ status' = [status EXCEPT ![c] = "removed"]
  /\ moved' = (moved \ Refreshing(c)) \cup (dated \cap Refreshing(c))
  /\ succeeded' = succeeded \ {c}
  /\ fresh' = fresh \ {c}
  /\ armed' = armed \ {c}
  /\ cursor' = [cursor EXCEPT ![c] = 0]
  /\ UNCHANGED <<proxied, running, pc, polls, dated, base, obsVars>>

IntervalElapses(c) ==   \* the last success is older than interval_for
  /\ c \in fresh
  /\ fresh' = fresh \ {c}
  /\ UNCHANGED <<proxied, status, succeeded, cursor, armed, taskVars, obsVars>>

RetryTimeReached(c) ==  \* next_retry_at is past
  /\ c \in armed
  /\ armed' = armed \ {c}
  /\ UNCHANGED <<proxied, status, succeeded, fresh, cursor, taskVars, obsVars>>

\* The process dies and is started again: the memory is lost, SQLite is not.
Crash ==
  /\ crashes < MaxCrashes
  /\ crashes' = crashes + 1
  /\ pc' = [t \in Task |-> "idle"]
  /\ polls' = [t \in Task |-> 0]
  /\ base' = [t \in Task |-> 0]
  /\ running' = {} /\ dated' = {} /\ moved' = {} /\ served' = {} /\ leaked' = {}
  /\ UNCHANGED <<dbVars, faults>>

-----------------------------------------------------------------------------
SyncStep(t) ==
  \/ SyncLoad(t) \/ SyncMark(t) \/ SyncRefresh(t) \/ SyncAnswer(t)
  \/ SyncCommit(t) \/ SyncCommitRefused(t) \/ SyncMarkError(t) \/ SyncRelease(t)

ForceStep(t) == ForceReserve(t) \/ ForceWait(t) \/ ForceConfirm(t) \/ ForceReply(t)

TaskStep(t) == ReserveGate(t) \/ ReserveTake(t) \/ ForceStep(t) \/ SyncStep(t)

TimeStep(c) == IntervalElapses(c) \/ RetryTimeReached(c)

Next ==
  \/ \E t \in Task : AuthComplete(t) \/ SchedulerSpawn(t) \/ ForceStart(t) \/ TaskStep(t)
  \/ \E c \in Conn : ProxyCommit(c) \/ RemoveConnection(c) \/ TimeStep(c)
  \/ Crash

Spec == Init /\ [][Next]_vars

(***************************************************************************)
(* The executor runs every spawned task; the provider call has a 90 s      *)
(* timeout and the reservation loop a bounded number of attempts.  Time    *)
(* passes.  Every tick of the scheduler visits every connection that is    *)
(* due, so a connection is not starved by the model's finite pool of       *)
(* tasks.  Users, the proxy's clients and crashes owe nothing.             *)
(***************************************************************************)
Fairness ==
  /\ \A t \in Task : WF_vars(TaskStep(t))
  /\ \A c \in Conn : WF_vars(IntervalElapses(c)) /\ WF_vars(RetryTimeReached(c))
  /\ \A c \in Conn : SF_vars(\E t \in AutoTask : Target[t] = c /\ SchedulerSpawn(t))

FairSpec == Spec /\ Fairness

-----------------------------------------------------------------------------
(***************************************************************************)
(* Properties.                                                             *)
(***************************************************************************)

(* Type invariant of the database rows, the process memory and the         *)
(* observation variables.                                                  *)
TypeOK ==
  /\ status \in [Conn -> Status \cup {"unborn", "removed"}]
  /\ proxied \subseteq Conn /\ succeeded \subseteq Conn /\ fresh \subseteq Conn
  /\ armed \subseteq Conn
  /\ cursor \in [Conn -> {0, 1}]
  /\ running \subseteq Conn
  /\ pc \in [Task -> Pc]
  /\ polls \in [Task -> 0 .. MaxPolls]
  /\ dated \subseteq Task /\ moved \subseteq Task /\ served \subseteq Task
  /\ base \in [Task -> {0, 1}]
  /\ leaked \subseteq Conn
  /\ faults \in 0 .. MaxFaults /\ crashes \in 0 .. MaxCrashes

(* No two provider requests of one connection are ever pending at once,    *)
(* whatever mix of scheduler, authentication and user refreshes asks for   *)
(* them: the promise of the comment on force_sync.                         *)
SingleFlight ==
  \A t, u \in Task : InFlight(t) /\ InFlight(u) /\ Target[t] = Target[u] => t = u

(* A batch is committed over the very cursor it was fetched from: no other *)
(* sync has moved the cursor between sync_cursor and commit_sync_batch,    *)
(* which run under different acquisitions of the database mutex.           *)
CommitOnCurrentCursor ==
  \A t \in Task : pc[t] \in {"request", "commit"} /\ Target[t] \in Rows
                   => base[t] = cursor[Target[t]]

(* A removed connection leaves no row behind and gets none back, although  *)
(* remove does not take the reservation and syncs in flight go on to       *)
(* commit_sync_batch or mark_sync_error.                                   *)
RemovedLeavesNothing ==
  \A c \in Conn : status[c] = "removed" =>
                  c \notin succeeded \cup fresh \cup armed

(* Every reservation belongs to one task that will release it, except      *)
(* those force_sync lost to a failed database read.                        *)
ReservationAccounted ==
  \A c \in Conn : c \in running <=> c \in leaked \/ \E t \in Task : Target[t] = c /\ Holds(t)

(* The scheduler leaves a provider alone until the retry time it has been  *)
(* given: no automatic request is pending while next_retry_at is ahead.    *)
AutoRespectsBackoff ==
  \A t \in AutoTask : InFlight(t) => Target[t] \notin armed

(* "syncing" is shown only while a sync of the connection is in flight.    *)
SyncingIsLive ==
  \A c \in Conn : status[c] = "syncing" =>
    \E t \in Task : /\ Target[t] = c
                    /\ pc[t] \in {"refresh", "request", "commit", "errored"}

(* A refresh answered Ok without a default batch of its own time can only  *)
(* be one whose connection was removed, or has a proxy that committed      *)
(* usage, while it waited.                                                 *)
ForceAnswerExplained ==
  \A t \in Task : pc[t] = "ok" =>
    t \in served \/ Target[t] \in proxied \/ status[Target[t]] = "removed"

(* A force_sync that returns Ok has a default batch committed after it was *)
(* called, by itself or by the sync it waited for.                         *)
ForceHonest == \A t \in Task : pc[t] = "ok" => t \in served

(* An error status of a connection without a proxy disappears only because *)
(* a new sync starts or because the connection is removed.                 *)
ErrorsLeaveThroughSyncing ==
  [][\A c \in Conn \ proxied :
       status[c] \in {"auth_required", "rate_limited", "offline", "provider_error"}
         => status'[c] \in {status[c], "syncing", "removed"}]_vars

(* Every reservation is released.                                          *)
ReservationReleased == \A c \in Conn : c \in running ~> c \notin running

(* Every user refresh is answered.                                         *)
ForceReturns == \A t \in ForceTask : pc[t] = "poll" ~> pc[t] \in {"ok", "err", "idle"}

(* A connection that is due is attempted, unless it needs the user to      *)
(* authenticate or is removed.                                             *)
DueIsAttempted ==
  \A c \in Conn :
    c \in Rows /\ c \notin fresh
      ~> \/ \E t \in Task : Target[t] = c /\ pc[t] = "load"
         \/ c \in fresh \/ status[c] \in {"auth_required", "removed"}

(* The runtime implements the lease.                                       *)
Holder(c) ==
  IF \E t \in Task : Target[t] = c /\ Holds(t)
    THEN CHOOSE t \in Task : Target[t] = c /\ Holds(t)
    ELSE IF c \in running THEN "lost" ELSE "free"

Published == {c \in Conn : \E t \in Task : Target[t] = c /\ pc[t] = "succeed"}

Gone == {c \in Conn : status[c] = "removed"}

Lease == INSTANCE SyncLease WITH
           Free <- "free", Lost <- "lost",
           holder <- [c \in Conn |-> Holder(c)],
           published <- Published, gone <- Gone

LeaseRefined == Lease!LeaseSpec

=============================================================================
