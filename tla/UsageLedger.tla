------------------------------ MODULE UsageLedger ------------------------------
(***************************************************************************)
(* The usage tables of the repository: usage_events, and metric_samples,   *)
(* which holds both the samples providers report and the daily rollups the *)
(* repository derives from the events.  Synchronisations and the relay     *)
(* proxy commit batches in any order; events may be repeated, corrected or *)
(* moved to another day; retention prunes; connections are removed while   *)
(* batches for them are on their way.                                      *)
(*                                                                         *)
(* Every operation holds the database's mutex; a commit and a removal are  *)
(* one SQLite transaction, so a failing one changes nothing, and the       *)
(* statements of a prune, which are not, each delete some expired rows.    *)
(***************************************************************************)
EXTENDS Naturals, FiniteSets, FiniteSetsExt

CONSTANTS
  Conn,    \* connection identifiers
  Day,     \* UTC days
  Model,   \* model names
  None,    \* NULL: an event without a model or without a token count
  Event,   \* the events that batches may carry
  Sample,  \* the provider samples that batches may carry
  Batch    \* the batches: pairs of a set of events and a set of samples

(* An event has the key (source_event, external_id) within its connection. *)
ASSUME EventAssumption ==
  /\ None \notin Model \cup Nat
  /\ \A e \in Event :
       /\ e.conn \in Conn /\ e.day \in Day
       /\ e.model \in Model \cup {None} /\ e.tokens \in Nat \cup {None}

(* A sample's period is open or shorter than an hour ("point"), shorter    *)
(* than a day ("hour"), or a day.                                          *)
ASSUME SampleAssumption ==
  \A s \in Sample : /\ s.source = "provider" /\ s.conn \in Conn /\ s.day \in Day
                    /\ s.span \in {"point", "hour", "day"}

ASSUME BatchAssumption ==
  /\ Batch \subseteq [events : SUBSET Event, samples : SUBSET Sample]
  /\ \A batch \in Batch : IsFiniteSet(batch.events)

VARIABLES
  rows,     \* connections that have a row
  used,     \* identifiers that have been given to a connection
  events,   \* table usage_events
  metrics,  \* table metric_samples
  departed  \* observation: the days of a connection an event has been moved
            \* away from since they were last rebuilt

vars == <<rows, used, events, metrics, departed>>

Init == rows = {} /\ used = {} /\ events = {} /\ metrics = {} /\ departed = {}

-----------------------------------------------------------------------------
(***************************************************************************)
(* rebuild_daily_rollups                                                   *)
(***************************************************************************)
RollupSource == {"daily", "daily_model"}

EventsOn(c, d, table) == {e \in table : e.conn = c /\ e.day = d}

Tokens(group) == MapThenSumSet(LAMBDA e : e.tokens, group)

\* One metric per key that some event of the group carries; request_count is
\* never NULL.
Totals(c, d, source, model, group) ==
  LET row(key, value) ==
        [source |-> source, conn |-> c, day |-> d, span |-> "day",
         model |-> model, key |-> key, value |-> value]
      counted == {e \in group : e.tokens # None}
  IN (IF group = {} THEN {} ELSE {row("request_count", Cardinality(group))})
     \cup (IF counted = {} THEN {}
           ELSE {row("token_total", Tokens(counted))})

\* All events of the day, and those of each model seen on it.
RollupsOf(c, d, group) ==
  LET models == {e.model : e \in group} \ {None}
  IN Totals(c, d, "daily", None, group)
     \cup UNION {Totals(c, d, "daily_model", m, {e \in group : e.model = m}) : m \in models}

RollupRows(c, d, table) ==
  {r \in table : r.source \in RollupSource /\ r.conn = c /\ r.day = d}

\* Variant: rows are written over those of the same identity, never deleted.
RebuildOver(c, days, table, stored) ==
  LET new == UNION {RollupsOf(c, d, EventsOn(c, d, stored)) : d \in days}
  IN {r \in table : \A n \in new :
        r.source # n.source \/ r.conn # n.conn \/ r.day # n.day \/ r.model # n.model
          \/ r.key # n.key} \cup new

Rebuild(c, days, table, stored) ==
  (table \ UNION {RollupRows(c, d, table) : d \in days})
  \cup UNION {RollupsOf(c, d, EventsOn(c, d, stored)) : d \in days}

-----------------------------------------------------------------------------
SameKey(e, f) == e.conn = f.conn /\ e.key = f.key

\* insert_metric: ON CONFLICT(dedup_key), the digest of everything but the
\* value and the time of observation
SameSeries(r, s) ==
  /\ r.source = "provider" /\ s.source = "provider"
  /\ r.conn = s.conn /\ r.key = s.key /\ r.day = s.day /\ r.span = s.span

\* Of several records with one key in a batch the last remains.
LastOfKey(records, Same(_, _)) ==
  {kept \in SUBSET records :
     \A r \in records : \E k \in kept : /\ Same(r, k)
                                        /\ \A j \in kept : Same(r, j) => j = k}

\* Variant: the identifier is not remembered.
AddConnectionUnused(c) ==
  /\ c \notin used
  /\ rows' = rows \cup {c}
  /\ UNCHANGED <<used, events, metrics, departed>>

AddConnection(c) ==
  /\ c \notin used
  /\ used' = used \cup {c} /\ rows' = rows \cup {c}
  /\ UNCHANGED <<events, metrics, departed>>

\* commit_sync_batch(c, batch), with a table of usage_events left by Upsert.
Commit(c, batch, kept, samples, stored) ==
  LET days == {e.day : e \in batch.events}
      replaced == {e \in events : \E k \in kept : SameKey(e, k)}
      unsampled == {r \in metrics : \A s \in samples : ~SameSeries(r, s)}
  IN /\ events' = stored
     /\ metrics' = Rebuild(c, days, unsampled \cup samples, stored)
     /\ departed' = (departed \cup {<<e.conn, e.day>> : e \in replaced})
                      \ {<<c, d>> : d \in days}
     /\ UNCHANGED <<rows, used>>

\* ON CONFLICT(connection_id, source_event, external_id) DO UPDATE
Upsert(kept) == {e \in events : \A k \in kept : ~SameKey(e, k)} \cup kept

Own(c, batch) == \A r \in batch.events \cup batch.samples : r.conn = c

\* Variants: events are appended; the batch's connections are not compared; the
\* connection's row is not required.
CommitSyncBatchAppending(c) ==
  \E batch \in Batch :
    /\ c \in rows /\ Own(c, batch)
    /\ \E kept \in LastOfKey(batch.events, SameKey),
          samples \in LastOfKey(batch.samples, SameSeries) :
         Commit(c, batch, kept, samples, events \cup kept)

CommitSyncBatchForeign(c) ==
  \E batch \in Batch :
    /\ c \in rows
    /\ \E kept \in LastOfKey(batch.events, SameKey),
          samples \in LastOfKey(batch.samples, SameSeries) :
         Commit(c, batch, kept, samples, Upsert(kept))

CommitSyncBatchGhost(c) ==
  \E batch \in Batch :
    /\ c \in used /\ Own(c, batch)
    /\ \E kept \in LastOfKey(batch.events, SameKey),
          samples \in LastOfKey(batch.samples, SameSeries) :
         Commit(c, batch, kept, samples, Upsert(kept))

\* A batch with a record of another connection is refused, and so is one for a
\* connection without a row (foreign keys); a refusal changes nothing.
CommitSyncBatch(c) ==
  \E batch \in Batch :
    /\ c \in rows /\ Own(c, batch)
    /\ \E kept \in LastOfKey(batch.events, SameKey),
          samples \in LastOfKey(batch.samples, SameSeries) :
         Commit(c, batch, kept, samples, Upsert(kept))

\* Variant: the second deletion has no upper bound on the period.
PruneHours ==
  \E expired \in SUBSET {r \in metrics : r.span \in {"point", "hour", "day"}} :
    /\ metrics' = metrics \ expired
    /\ UNCHANGED <<rows, used, events, departed>>

\* Any row may have grown older than its retention; those of a day or longer
\* have none.
Prune ==
  \E expired \in SUBSET {r \in metrics : r.span \in {"point", "hour"}} :
    /\ metrics' = metrics \ expired
    /\ UNCHANGED <<rows, used, events, departed>>

\* The cascades of DELETE FROM connections.
RemoveConnection(c) ==
  /\ c \in rows
  /\ rows' = rows \ {c}
  /\ events' = {e \in events : e.conn # c}
  /\ metrics' = {r \in metrics : r.conn # c}
  /\ departed' = {p \in departed : p[1] # c}
  /\ UNCHANGED used

Next ==
  \/ \E c \in Conn : AddConnection(c) \/ CommitSyncBatch(c) \/ RemoveConnection(c)
  \/ Prune

Spec == Init /\ [][Next]_vars

-----------------------------------------------------------------------------
(***************************************************************************)
(* Properties.                                                             *)
(***************************************************************************)
TypeOK ==
  /\ rows \subseteq used /\ used \subseteq Conn
  /\ events \subseteq Event
  /\ \A r \in metrics : r \in Sample \/ r.source \in RollupSource
  /\ departed \subseteq Conn \X Day

(* The rollups of a day are those of its events, however often and in      *)
(* whatever order its events were committed, corrected or repeated, and    *)
(* however much was pruned; a day an event was moved away from is the      *)
(* exception, until it is rebuilt.                                         *)
RollupsExact ==
  \A c \in Conn, d \in Day :
    <<c, d>> \in departed \/ RollupRows(c, d, metrics) = RollupsOf(c, d, EventsOn(c, d, events))

(* A corrected event leaves no day with the rollups of its old value.      *)
RollupsAlwaysExact ==
  \A c \in Conn, d \in Day :
    RollupRows(c, d, metrics) = RollupsOf(c, d, EventsOn(c, d, events))

(* A repeated event is counted once: the table holds one per key.          *)
EventsDistinct == \A e, f \in events : SameKey(e, f) => e = f

(* Nothing of a removed connection remains or comes back, whatever batch   *)
(* was under way.                                                          *)
NothingWithoutConnection == \A r \in events \cup metrics : r.conn \in rows

(* Long-term data survive: what a provider said of a day is replaced by a  *)
(* newer value of the same series or removed with the connection, but      *)
(* neither pruned nor swept away by a rebuild of that day.                 *)
DailySamplesKept ==
  [][\A r \in metrics :
       r.source = "provider" /\ r.span = "day" /\ r.conn \in rows'
         => \E s \in metrics' : SameSeries(r, s)]_vars

(* The models of a day never add up to more requests than the day has,     *)
(* even on a day that has not been rebuilt since an event left it.         *)
ModelsWithinDay ==
  LET requests(source, c, d) ==
        MapThenSumSet(LAMBDA r : r.value,
          {r \in RollupRows(c, d, metrics) : r.source = source /\ r.key = "request_count"})
  IN \A c \in Conn, d \in Day : requests("daily_model", c, d) <= requests("daily", c, d)

-----------------------------------------------------------------------------
(* What the table has of each event of a connection.                       *)
EventKey  == {e.key : e \in Event}
Delivered == {batch.events : batch \in Batch}
Latest(c) == [k \in EventKey |-> {e \in events : e.conn = c /\ e.key = k}]

Store == INSTANCE EventStore WITH
           Key <- EventKey, Delivery <- Delivered, opened <- used, open <- rows,
           latest <- [c \in Conn |-> Latest(c)]

(* The table implements EventStore: of every event it has one version, as  *)
(* it was committed and for its own connection; no commit for another, no  *)
(* retention and no rebuild takes it away before the connection is removed *)
(* (storage lib.rs:284-409, 484-540, 920-923).                             *)
StoreRefined == Store!StoreSpec

=============================================================================
