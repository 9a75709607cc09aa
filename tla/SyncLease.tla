------------------------------ MODULE SyncLease ------------------------------
(***************************************************************************)
(* What the synchronisation runtime promises of one connection, without    *)
(* saying how: whoever synchronises a connection holds its lease alone,    *)
(* and the stored cursor advances only under the lease, at most once per   *)
(* lease, and never again once the connection is forgotten.  A lease may   *)
(* be lost (its holder is gone and nobody can take it again) until the     *)
(* daemon is restarted.                                                    *)
(***************************************************************************)
CONSTANTS Conn, Task, Target, Free, Lost

VARIABLES
  holder,     \* the task that holds the lease of a connection, Free or Lost
  published,  \* connections whose holder has stored its batch
  gone,       \* connections that have been forgotten
  cursor      \* which of two successive cursors is stored

leaseVars == <<holder, published, gone, cursor>>

LeaseInit ==
  /\ holder = [c \in Conn |-> Free]
  /\ published = {} /\ gone = {}
  /\ cursor = [c \in Conn |-> 0]

Acquire(t) ==
  /\ holder[Target[t]] = Free
  /\ holder' = [holder EXCEPT ![Target[t]] = t]
  /\ UNCHANGED <<published, gone, cursor>>

Publish(t) ==
  LET c == Target[t] IN
  /\ holder[c] = t /\ c \notin published \cup gone
  /\ published' = published \cup {c}
  /\ cursor' = [cursor EXCEPT ![c] = IF @ = 0 THEN 1 ELSE 0]
  /\ UNCHANGED <<holder, gone>>

Relinquish(t) ==
  LET c == Target[t] IN
  /\ holder[c] = t
  /\ \/ holder' = [holder EXCEPT ![c] = Free]
     \/ holder' = [holder EXCEPT ![c] = Lost] /\ c \notin published
  /\ published' = published \ {c}
  /\ UNCHANGED <<gone, cursor>>

Forget(c) ==
  /\ c \notin gone
  /\ gone' = gone \cup {c}
  /\ cursor' = [cursor EXCEPT ![c] = 0]
  /\ UNCHANGED <<holder, published>>

Restart ==
  /\ holder' = [c \in Conn |-> Free]
  /\ published' = {}
  /\ UNCHANGED <<gone, cursor>>

LeaseNext ==
  \/ \E t \in Task : Acquire(t) \/ Publish(t) \/ Relinquish(t)
  \/ \E c \in Conn : Forget(c)
  \/ Restart

LeaseSpec == LeaseInit /\ [][LeaseNext]_leaseVars
=============================================================================
