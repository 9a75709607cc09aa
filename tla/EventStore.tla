------------------------------ MODULE EventStore ------------------------------
(***************************************************************************)
(* What the ledger promises of the events delivered to it, without tables: *)
(* of every event of an open connection it has one version, as it was      *)
(* delivered, however often and in whatever company the event came.  Only  *)
(* another delivery for the same connection replaces it and only the end   *)
(* of the connection removes it; a connection that is closed has no events *)
(* and is never opened again.                                              *)
(***************************************************************************)
CONSTANTS
  Conn,     \* connections
  Key,      \* what tells the events of a connection apart
  Delivery  \* the sets of events that may be delivered together

VARIABLES
  opened,  \* connections that have ever been open
  open,    \* those that are
  latest   \* the version of each event of a connection: a singleton, or {}

storeVars == <<opened, open, latest>>

Nothing == [k \in Key |-> {}]

StoreInit == opened = {} /\ open = {} /\ latest = [c \in Conn |-> Nothing]

Open(c) ==
  /\ c \notin opened
  /\ opened' = opened \cup {c} /\ open' = open \cup {c}
  /\ UNCHANGED latest

VersionsOf(k, delivered) == {e \in delivered : e.key = k}

\* What a delivery may leave of an event: as it was, if the event does not come,
\* and otherwise one of the versions that come.
Outcomes(c, k, delivered) ==
  LET versions == VersionsOf(k, delivered) IN
  IF versions = {} THEN {latest[c][k]} ELSE {{v} : v \in versions}

Deliver(c) ==
  /\ c \in open
  /\ UNCHANGED <<opened, open>>
  /\ latest' = [latest EXCEPT ![c] = latest'[c]]
  /\ \E delivered \in Delivery :
       /\ \A e \in delivered : e.conn = c
       /\ \A k \in Key : latest'[c][k] \in Outcomes(c, k, delivered)

Close(c) ==
  /\ c \in open
  /\ open' = open \ {c}
  /\ latest' = [latest EXCEPT ![c] = Nothing]
  /\ UNCHANGED opened

StoreNext == \E c \in Conn : Open(c) \/ Deliver(c) \/ Close(c)

StoreSpec == StoreInit /\ [][StoreNext]_storeVars
=============================================================================
