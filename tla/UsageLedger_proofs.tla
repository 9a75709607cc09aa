--------------------------- MODULE UsageLedger_proofs --------------------------
(***************************************************************************)
(* Proofs about UsageLedger for any events, batches and connections.       *)
(*                                                                         *)
(* What the rollups of a day should be is a function of the set of events  *)
(* of that day and connection alone (RollupsOf), so most arguments add     *)
(* nothing up: a commit either rebuilds a day, or leaves the set of its    *)
(* events as it was, or records that the day has been departed from.       *)
(***************************************************************************)
EXTENDS UsageLedger, FoldTheorems, TLAPS

USE EventAssumption, SampleAssumption, BatchAssumption

(* Every row the rebuild writes is a day-long rollup row of the connection *)
(* and the day it is asked for.                                            *)
LEMMA RollupShape ==
  ASSUME NEW c, NEW d, NEW group, NEW r \in RollupsOf(c, d, group)
  PROVE  /\ r.source \in RollupSource /\ r.conn = c /\ r.day = d
         /\ r.span = "day"
<1>1. ASSUME NEW source, NEW m, NEW g, NEW q \in Totals(c, d, source, m, g)
      PROVE  q.source = source /\ q.conn = c /\ q.day = d /\ q.span = "day"
  BY <1>1 DEF Totals
<1>2. CASE r \in Totals(c, d, "daily", None, group)
  BY <1>1, <1>2 DEF RollupSource
<1>3. CASE \E m \in {e.model : e \in group} \ {None} :
             r \in Totals(c, d, "daily_model", m, {e \in group : e.model = m})
  BY <1>1, <1>3 DEF RollupSource
<1> QED BY <1>2, <1>3 DEF RollupsOf

(* A day without events has no rollups.                                    *)
LEMMA NoEventsNoRollups ==
  ASSUME NEW c, NEW d
  PROVE  RollupsOf(c, d, {}) = {}
<1>1. Totals(c, d, "daily", None, {}) = {}
  BY DEF Totals
<1>2. {e.model : e \in {}} \ {None} = {}
  OBVIOUS
<1> QED BY <1>1, <1>2 DEF RollupsOf

(* Rebuilding writes exactly the wanted rows of the rebuilt days, whatever *)
(* the table held, and touches no other rollup row.                        *)
LEMMA RebuildRows ==
  ASSUME NEW c, NEW days, NEW table, NEW stored, NEW x, NEW d
  PROVE  RollupRows(x, d, Rebuild(c, days, table, stored)) =
           IF x = c /\ d \in days THEN RollupsOf(c, d, EventsOn(c, d, stored))
                                  ELSE RollupRows(x, d, table)
<1> DEFINE new == UNION {RollupsOf(c, y, EventsOn(c, y, stored)) : y \in days}
           old == UNION {RollupRows(c, y, table) : y \in days}
<1>1. Rebuild(c, days, table, stored) = (table \ old) \cup new
  BY DEF Rebuild
<1>2. \A r \in new : \E y \in days : r \in RollupsOf(c, y, EventsOn(c, y, stored))
  OBVIOUS
<1>3. \A r \in new : r.source \in RollupSource /\ r.conn = c /\ r.day \in days
  BY <1>2, RollupShape
<1>4. \A r \in old : r.conn = c /\ r.day \in days
  BY DEF RollupRows
<1>5. CASE x = c /\ d \in days
  <2>1. RollupRows(c, d, table) \subseteq old
    BY <1>5
  <2>2. RollupRows(c, d, table \ old) = {}
    BY <2>1 DEF RollupRows
  <2>3. \A r \in new : r.day = d => r \in RollupsOf(c, d, EventsOn(c, d, stored))
    BY <1>2, RollupShape
  <2>4. RollupsOf(c, d, EventsOn(c, d, stored)) \subseteq new
    BY <1>5
  <2>5. \A r \in RollupsOf(c, d, EventsOn(c, d, stored)) :
           r.source \in RollupSource /\ r.conn = c /\ r.day = d
    BY RollupShape
  <2> HIDE DEF new, old
  <2>6. RollupRows(c, d, (table \ old) \cup new) = RollupsOf(c, d, EventsOn(c, d, stored))
    BY <2>2, <2>3, <2>4, <2>5 DEF RollupRows
  <2> QED BY <1>1, <1>5, <2>6
<1>6. CASE ~(x = c /\ d \in days)
  <2> HIDE DEF new, old
  <2>1. RollupRows(x, d, (table \ old) \cup new) = RollupRows(x, d, table)
    BY <1>3, <1>4, <1>6 DEF RollupRows
  <2> QED BY <1>1, <1>6, <2>1
<1> QED BY <1>5, <1>6

-----------------------------------------------------------------------------
(***************************************************************************)
(* The inductive invariant                                                 *)
(***************************************************************************)

\* Retention tells rows by their period, so exactness rests on the period of
\* every rollup row.
RollupSpans == \A r \in metrics : r.source \in RollupSource => r.span = "day"

LedgerInv ==
  TypeOK /\ EventsDistinct /\ NothingWithoutConnection /\ RollupSpans /\ RollupsExact

LEMMA LedgerInit == Init => LedgerInv
<1> SUFFICES ASSUME Init PROVE LedgerInv
  OBVIOUS
<1>1. RollupsExact
  BY NoEventsNoRollups DEF Init, RollupsExact, RollupRows, EventsOn
<1> QED
  BY <1>1 DEF Init, LedgerInv, TypeOK, EventsDistinct, NothingWithoutConnection,
              RollupSpans

(* A committed batch: what it stores, for any choice of the last records.  *)
LEMMA CommitStep ==
  ASSUME LedgerInv, NEW c \in Conn, NEW batch \in Batch,
         NEW kept \in LastOfKey(batch.events, SameKey),
         NEW samples \in LastOfKey(batch.samples, SameSeries),
         c \in rows, Own(c, batch), Commit(c, batch, kept, samples, Upsert(kept))
  PROVE  LedgerInv'
<1> DEFINE days == {e.day : e \in batch.events}
           replaced == {e \in events : \E k \in kept : SameKey(e, k)}
           unsampled == {r \in metrics : \A s \in samples : ~SameSeries(r, s)}
           stored == Upsert(kept)
           table == unsampled \cup samples
<1>1. /\ kept \subseteq batch.events /\ samples \subseteq batch.samples
      /\ batch.events \subseteq Event /\ batch.samples \subseteq Sample
      /\ \A r \in kept \cup samples : r.conn = c
  BY DEF LastOfKey, Own
<1>2. /\ events' = stored /\ metrics' = Rebuild(c, days, table, stored)
      /\ departed' = (departed \cup {<<e.conn, e.day>> : e \in replaced})
                       \ {<<c, d>> : d \in days}
      /\ rows' = rows /\ used' = used
  BY DEF Commit
<1>3. \A e, f \in kept : SameKey(e, f) => e = f
  <2> SUFFICES ASSUME NEW e \in kept, NEW f \in kept, SameKey(e, f) PROVE e = f
    OBVIOUS
  <2>1. PICK k \in kept : SameKey(e, k) /\ \A j \in kept : SameKey(e, j) => j = k
    BY <1>1 DEF LastOfKey
  <2>2. SameKey(e, e)
    BY DEF SameKey
  <2> QED BY <2>1, <2>2
<1>4. EventsDistinct'
  BY <1>2, <1>3 DEF LedgerInv, EventsDistinct, Upsert, SameKey
<1>5. \A r \in metrics' : \/ r \in table
                          \/ /\ r.source \in RollupSource /\ r.conn = c
                             /\ r.day \in days /\ r.span = "day"
  <2>1. \A r \in metrics' : r \in table \/ \E d \in days :
                              r \in RollupsOf(c, d, EventsOn(c, d, stored))
    BY <1>2 DEF Rebuild
  <2> QED BY <2>1, RollupShape
<1>6. RollupSpans'
  BY <1>1, <1>5 DEF LedgerInv, RollupSpans, RollupSource
<1>7. NothingWithoutConnection'
  BY <1>1, <1>2, <1>5 DEF LedgerInv, NothingWithoutConnection, Upsert
<1>8. TypeOK'
  <2>1. rows' \subseteq used' /\ used' \subseteq Conn
    BY <1>2 DEF LedgerInv, TypeOK
  <2>2. events' \subseteq Event
    BY <1>1, <1>2 DEF LedgerInv, TypeOK, Upsert
  <2>3. \A r \in metrics' : r \in Sample \/ r.source \in RollupSource
    BY <1>1, <1>5 DEF LedgerInv, TypeOK
  <2>4. \A e \in replaced : <<e.conn, e.day>> \in Conn \X Day
    BY EventAssumption DEF LedgerInv, TypeOK
  <2>5. departed' \subseteq Conn \X Day
    BY <1>2, <2>4 DEF LedgerInv, TypeOK
  <2> QED BY <2>1, <2>2, <2>3, <2>5 DEF TypeOK
<1>9. ASSUME NEW x \in Conn, NEW d \in Day
      PROVE  \/ <<x, d>> \in departed'
             \/ RollupRows(x, d, metrics') = RollupsOf(x, d, EventsOn(x, d, events'))
  <2>1. CASE x = c /\ d \in days
    BY <1>2, <2>1, RebuildRows
  <2>2. CASE ~(x = c /\ d \in days)
    <3>1. RollupRows(x, d, metrics') = RollupRows(x, d, metrics)
      <4>1. RollupRows(x, d, metrics') = RollupRows(x, d, table)
        BY <1>2, <2>2, RebuildRows
      <4>2. RollupRows(x, d, table) = RollupRows(x, d, metrics)
        BY <1>1 DEF RollupRows, RollupSource, SameSeries
      <4> QED BY <4>1, <4>2
    <3>2. CASE \E e \in replaced : e.conn = x /\ e.day = d
      BY <1>2, <2>2, <3>2
    <3>3. CASE \A e \in replaced : ~(e.conn = x /\ e.day = d)
      <4>1. EventsOn(x, d, events') = EventsOn(x, d, events)
        BY <1>1, <1>2, <2>2, <3>3 DEF EventsOn, Upsert
      <4>2. <<x, d>> \in departed => <<x, d>> \in departed'
        BY <1>2, <2>2
      <4> QED BY <3>1, <4>1, <4>2 DEF LedgerInv, RollupsExact
    <3> QED BY <3>2, <3>3
  <2> QED BY <2>1, <2>2
<1>10. RollupsExact'
  BY <1>9 DEF RollupsExact
<1> QED BY <1>4, <1>6, <1>7, <1>8, <1>10 DEF LedgerInv

(* Retention deletes no rollup row: each has the period of a day.          *)
LEMMA PruneStep == LedgerInv /\ Prune => LedgerInv'
<1> SUFFICES ASSUME LedgerInv, Prune PROVE LedgerInv'
  OBVIOUS
<1>1. \A c \in Conn, d \in Day : RollupRows(c, d, metrics') = RollupRows(c, d, metrics)
  BY DEF Prune, LedgerInv, RollupSpans, RollupRows
<1>2. RollupsExact'
  BY <1>1 DEF LedgerInv, RollupsExact, Prune
<1> QED
  BY <1>2 DEF Prune, LedgerInv, TypeOK, EventsDistinct, NothingWithoutConnection,
              RollupSpans

(* A removal leaves the other connections' rows, and none of its own.      *)
LEMMA RemoveStep ==
  ASSUME LedgerInv, NEW c \in Conn, RemoveConnection(c)
  PROVE  LedgerInv'
<1>1. ASSUME NEW x \in Conn, NEW d \in Day, <<x, d>> \notin departed'
      PROVE  RollupRows(x, d, metrics') = RollupsOf(x, d, EventsOn(x, d, events'))
  <2>1. CASE x = c
    <3>1. RollupRows(x, d, metrics') = {} /\ EventsOn(x, d, events') = {}
      BY <2>1 DEF RemoveConnection, RollupRows, EventsOn
    <3> QED BY <3>1, NoEventsNoRollups
  <2>2. CASE x # c
    <3>1. /\ RollupRows(x, d, metrics') = RollupRows(x, d, metrics)
          /\ EventsOn(x, d, events') = EventsOn(x, d, events)
          /\ <<x, d>> \notin departed
      BY <1>1, <2>2 DEF RemoveConnection, RollupRows, EventsOn
    <3> QED BY <3>1 DEF LedgerInv, RollupsExact
  <2> QED BY <2>1, <2>2
<1>2. RollupsExact'
  BY <1>1 DEF RollupsExact
<1> QED
  BY <1>2 DEF RemoveConnection, LedgerInv, TypeOK, EventsDistinct,
              NothingWithoutConnection, RollupSpans

LEMMA LedgerStep == LedgerInv /\ [Next]_vars => LedgerInv'
<1> SUFFICES ASSUME LedgerInv, [Next]_vars PROVE LedgerInv'
  OBVIOUS
<1>1. ASSUME NEW c \in Conn, AddConnection(c) PROVE LedgerInv'
  BY <1>1 DEF AddConnection, LedgerInv, TypeOK, EventsDistinct,
              NothingWithoutConnection, RollupSpans, RollupsExact
<1>2. ASSUME NEW c \in Conn, CommitSyncBatch(c) PROVE LedgerInv'
  BY <1>2, CommitStep DEF CommitSyncBatch
<1>3. ASSUME NEW c \in Conn, RemoveConnection(c) PROVE LedgerInv'
  BY <1>3, RemoveStep
<1>4. CASE Prune
  BY <1>4, PruneStep
<1>5. CASE UNCHANGED vars
  BY <1>5 DEF vars, LedgerInv, TypeOK, EventsDistinct, NothingWithoutConnection,
              RollupSpans, RollupsExact
<1> QED BY <1>1, <1>2, <1>3, <1>4, <1>5 DEF Next

LEMMA LedgerCorrect == Spec => []LedgerInv
  BY LedgerInit, LedgerStep, PTL DEF Spec

(* The rollups of every day are those of its events, except on a day an    *)
(* event was moved away from: for any batches in any order.                *)
THEOREM RollupsExactHolds == Spec => []RollupsExact
  BY LedgerCorrect, PTL DEF LedgerInv

(* However often an event is delivered, it is stored once.                 *)
THEOREM EventsDistinctHolds == Spec => []EventsDistinct
  BY LedgerCorrect, PTL DEF LedgerInv

(* Nothing is stored for a connection that has no row.                     *)
THEOREM NothingWithoutConnectionHolds == Spec => []NothingWithoutConnection
  BY LedgerCorrect, PTL DEF LedgerInv

(* Rows, keys and days stay within what the batches may carry.             *)
THEOREM LedgerTypeCorrect == Spec => []TypeOK
  BY LedgerCorrect, PTL DEF LedgerInv

-----------------------------------------------------------------------------
(***************************************************************************)
(* Retention                                                               *)
(***************************************************************************)

\* What DailySamplesKept says of a step.
DaySampleStays ==
  \A r \in metrics : r.source = "provider" /\ r.span = "day" /\ r.conn \in rows'
                       => \E s \in metrics' : SameSeries(r, s)

(* A commit keeps a sample or stores a newer one of its series; rebuilding *)
(* deletes only rollup rows.                                               *)
LEMMA CommitKeepsSamples ==
  ASSUME NEW c \in Conn, NEW batch \in Batch,
         NEW samples \in LastOfKey(batch.samples, SameSeries),
         NEW kept, Commit(c, batch, kept, samples, Upsert(kept))
  PROVE  DaySampleStays
<1> DEFINE days == {e.day : e \in batch.events}
           unsampled == {r \in metrics : \A s \in samples : ~SameSeries(r, s)}
           table == unsampled \cup samples
<1>1. metrics' = Rebuild(c, days, table, Upsert(kept))
  BY DEF Commit
<1>2. \A r \in table : r.source = "provider" => r \in metrics'
  BY <1>1 DEF Rebuild, RollupRows, RollupSource
<1>3. \A s \in samples : s.source = "provider"
  BY DEF LastOfKey
<1> SUFFICES ASSUME NEW r \in metrics, r.source = "provider"
             PROVE  \E s \in metrics' : SameSeries(r, s)
  BY DEF DaySampleStays
<1>4. CASE r \in unsampled
  BY <1>2, <1>4 DEF SameSeries
<1>5. CASE \E s \in samples : SameSeries(r, s)
  BY <1>2, <1>3, <1>5
<1> QED BY <1>4, <1>5

LEMMA SamplesStep == [Next]_vars => DaySampleStays
<1> SUFFICES ASSUME [Next]_vars PROVE DaySampleStays
  OBVIOUS
<1>1. ASSUME NEW c \in Conn, CommitSyncBatch(c) PROVE DaySampleStays
  BY <1>1, CommitKeepsSamples DEF CommitSyncBatch
<1>2. ASSUME NEW c \in Conn, AddConnection(c) PROVE DaySampleStays
  BY <1>2 DEF AddConnection, DaySampleStays, SameSeries
<1>3. ASSUME NEW c \in Conn, RemoveConnection(c) PROVE DaySampleStays
  BY <1>3 DEF RemoveConnection, DaySampleStays, SameSeries
<1>4. CASE Prune
  BY <1>4 DEF Prune, DaySampleStays, SameSeries
<1>5. CASE UNCHANGED vars
  BY <1>5 DEF vars, DaySampleStays, SameSeries
<1> QED BY <1>1, <1>2, <1>3, <1>4, <1>5 DEF Next

(* What a provider said of a day is neither pruned nor swept away by a     *)
(* rebuild: it goes with its connection or for a newer value.              *)
THEOREM DailySamplesKeptHolds == Spec => DailySamplesKept
<1>1. [Next]_vars => [DaySampleStays]_vars
  BY SamplesStep
<1> QED BY <1>1, PTL DEF Spec, DailySamplesKept, DaySampleStays

-----------------------------------------------------------------------------
(***************************************************************************)
(* Models within the day                                                   *)
(***************************************************************************)

ModelsOf(g)     == {e.model : e \in g} \ {None}
OfModels(g, ms) == {e \in g : e.model \in ms}

\* The row of the requests of one model, and of all.
ModelRow(c, d, m, g) ==
  [source |-> "daily_model", conn |-> c, day |-> d, span |-> "day",
   model |-> m, key |-> "request_count", value |-> Cardinality(OfModels(g, {m}))]
DayRow(c, d, g) ==
  [source |-> "daily", conn |-> c, day |-> d, span |-> "day",
   model |-> None, key |-> "request_count", value |-> Cardinality(g)]

Values(S)  == MapThenSumSet(LAMBDA r : r.value, S)
Counts(source, table) == {r \in table : r.source = source /\ r.key = "request_count"}

(* A sum of values is a sum over a function.                               *)
LEMMA ValuesAreSums ==
  ASSUME NEW S, IsFiniteSet(S), \A r \in S : r.value \in Nat
  PROVE  Values(S) = SumFunctionOnSet([r \in S |-> r.value], S)
<1> DEFINE f == [r \in S |-> r.value]
           Sums(it) == it = [s \in SUBSET S |->
                               IF s = {} THEN 0
                               ELSE (CHOOSE x \in s : TRUE).value + it[s \ {CHOOSE x \in s : TRUE}]]
           jt == CHOOSE it : Sums(it)
<1>1. \A x \in S : f[x] = x.value /\ f[x] \in Nat
  OBVIOUS
<1>2. \A s \in SUBSET S : s # {} => AnyOf(s) \in S
  BY DEF AnyOf
<1> HIDE DEF f
<1>3. ASSUME NEW it
      PROVE  SumsOf(it, f, S) <=> Sums(it)
  <2>1. \A s \in SUBSET S : s # {} => f[AnyOf(s)] = AnyOf(s).value
    BY <1>1, <1>2
  <2>2. [s \in SUBSET S |-> IF s = {} THEN 0 ELSE f[AnyOf(s)] + it[s \ {AnyOf(s)}]]
        = [s \in SUBSET S |-> IF s = {} THEN 0 ELSE AnyOf(s).value + it[s \ {AnyOf(s)}]]
    BY <2>1
  <2> QED BY <2>2, Zenon DEF SumsOf, AnyOf
<1>4. PICK it : SumsOf(it, f, S) /\ SumFunctionOnSet(f, S) = it[S]
  BY <1>1, SumOverSums
<1>5. SumsOf(jt, f, S)
  <2>1. Sums(it)
    BY <1>3, <1>4
  <2>2. Sums(jt)
    <3> HIDE DEF Sums
    <3> QED BY <2>1, Zenon
  <2> QED BY <1>3, <2>2, Zenon
<1>6. Values(S) = jt[S]
  BY Zenon DEF Values, MapThenSumSet, MapThenFoldSet
<1> HIDE DEF jt
<1>7. S \in SUBSET (S \cap S)
  OBVIOUS
<1>8. it[S] = jt[S]
  BY <1>4, <1>5, <1>7, SumsAgree
<1> QED BY <1>4, <1>6, <1>8 DEF f

(* Adding a row adds its value.                                            *)
LEMMA ValuesRemove ==
  ASSUME NEW S, IsFiniteSet(S), \A r \in S : r.value \in Nat, NEW r \in S
  PROVE  Values(S) = r.value + Values(S \ {r})
<1> DEFINE f == [x \in S |-> x.value]
           g == [x \in S \ {r} |-> x.value]
<1>1. IsFiniteSet(S \ {r}) /\ \A x \in S \ {r} : x.value \in Nat
  BY FS_RemoveElement
<1>2. Values(S) = SumFunctionOnSet(f, S) /\ Values(S \ {r}) = SumFunctionOnSet(g, S \ {r})
  BY <1>1, ValuesAreSums
<1>3. /\ \A x \in S : f[x] \in Nat /\ f[x] = x.value
      /\ \A x \in S \ {r} : f[x] \in Nat /\ f[x] = g[x]
  OBVIOUS
<1> HIDE DEF f, g
<1>4. SumFunctionOnSet(f, S \ {r}) = SumFunctionOnSet(g, S \ {r})
  BY <1>1, <1>3, SumOverAgree
<1>5. SumFunctionOnSet(f, S) = f[r] + SumFunctionOnSet(f, S \ {r})
  BY <1>3, SumOverRemove
<1> QED BY <1>2, <1>3, <1>4, <1>5

\* The empty sum of values.
LEMMA ValuesEmpty == Values({}) = 0
<1> DEFINE f == [r \in {} |-> r.value]
<1>1. Values({}) = SumFunctionOnSet(f, {})
  BY ValuesAreSums, FS_EmptySet
<1> HIDE DEF f
<1> QED BY <1>1, SumOverEmpty

(* The requests of the models of a set of events are the events that have  *)
(* one of these models.                                                    *)
LEMMA ModelsAddUp ==
  ASSUME NEW c, NEW d, NEW g, IsFiniteSet(g)
  PROVE  Values({ModelRow(c, d, m, g) : m \in ModelsOf(g)}) = Cardinality(OfModels(g, ModelsOf(g)))
<1> DEFINE Row(m)   == ModelRow(c, d, m, g)
           Rows(ms) == {Row(m) : m \in ms}
           F == {ms \in SUBSET ModelsOf(g) : Values(Rows(ms)) = Cardinality(OfModels(g, ms))}
<1>1. IsFiniteSet(ModelsOf(g))
  <2> DEFINE f == [e \in g |-> e.model]
  <2>1. {f[e] : e \in g} = {e.model : e \in g}
    OBVIOUS
  <2> HIDE DEF f
  <2>2. IsFiniteSet({f[e] : e \in g})
    BY ImageFinite
  <2>3. IsFiniteSet({e.model : e \in g})
    BY <2>1, <2>2
  <2>4. ModelsOf(g) \subseteq {e.model : e \in g}
    BY DEF ModelsOf
  <2> QED BY <2>3, <2>4, FS_Subset
<1>2. \A ms : IsFiniteSet(OfModels(g, ms)) /\ Cardinality(OfModels(g, ms)) \in Nat
  <2>1. \A ms : OfModels(g, ms) \subseteq g
    BY DEF OfModels
  <2> QED BY <2>1, FS_Subset, FS_CardinalityType
<1>3. /\ \A m : Row(m).value = Cardinality(OfModels(g, {m}))
      /\ \A m, n : Row(m) = Row(n) => m = n
  BY DEF ModelRow
<1> HIDE DEF Row
<1>4. ASSUME NEW ms \in SUBSET ModelsOf(g)
      PROVE  IsFiniteSet(Rows(ms)) /\ \A r \in Rows(ms) : r.value \in Nat
  <2> DEFINE f == [m \in ms |-> Row(m)]
  <2>1. IsFiniteSet(ms)
    BY <1>1, FS_Subset
  <2>2. {f[m] : m \in ms} = Rows(ms)
    OBVIOUS
  <2> HIDE DEF f
  <2>3. IsFiniteSet({f[m] : m \in ms})
    BY <2>1, ImageFinite
  <2>4. \A m : Row(m).value \in Nat
    BY <1>2, <1>3
  <2>5. \A r \in Rows(ms) : r.value \in Nat
    BY <2>4
  <2> QED BY <2>2, <2>3, <2>5
<1>5. ASSUME NEW ms \in SUBSET ModelsOf(g), \A m \in ms : ms \ {m} \in F
      PROVE  ms \in F
  <2>1. CASE ms = {}
    <3>1. Rows(ms) = {} /\ OfModels(g, ms) = {}
      BY <2>1 DEF OfModels
    <3> HIDE DEF Rows
    <3>2. Values(Rows(ms)) = 0 /\ Cardinality(OfModels(g, ms)) = 0
      BY <3>1, ValuesEmpty, FS_EmptySet
    <3> QED BY <3>2
  <2>2. CASE ms # {}
    <3>1. PICK m \in ms : TRUE
      BY <2>2
    <3> DEFINE less == ms \ {m}
               one  == OfModels(g, {m})
               rest == OfModels(g, less)
    <3>2. Rows(less) = Rows(ms) \ {Row(m)} /\ Row(m) \in Rows(ms)
      BY <1>3, <3>1
    <3>3. Values(Rows(ms)) = Row(m).value + Values(Rows(ms) \ {Row(m)})
      <4> HIDE DEF Rows
      <4> QED BY <1>4, <3>2, ValuesRemove
    <3>4. Values(Rows(less)) = Cardinality(rest)
      BY <1>5, <3>1
    <3>5. OfModels(g, ms) = one \cup rest /\ one \cap rest = {}
      BY <3>1 DEF OfModels
    <3> HIDE DEF Rows, less, one, rest
    <3>6. /\ IsFiniteSet(one) /\ IsFiniteSet(rest)
          /\ Cardinality(one) \in Nat /\ Cardinality(rest) \in Nat
      BY <1>2 DEF one, rest
    <3>7. Cardinality(one \cap rest) = 0
      BY <3>5, FS_EmptySet
    <3>8. Cardinality(one \cup rest) = Cardinality(one) + Cardinality(rest) - Cardinality(one \cap rest)
      BY <3>6, FS_Union
    <3>9. Values(Rows(ms)) = Cardinality(one) + Cardinality(rest)
      BY <1>3, <3>2, <3>3, <3>4 DEF one
    <3>10. Cardinality(OfModels(g, ms)) = Cardinality(one) + Cardinality(rest)
      BY <3>5, <3>6, <3>7, <3>8
    <3> QED BY <3>9, <3>10 DEF Rows
  <2> QED BY <2>1, <2>2
<1> HIDE DEF F
<1>6. SUBSET ModelsOf(g) \subseteq F
  <2> DEFINE all == ModelsOf(g)
  <2>1. IsFiniteSet(all) /\ \A ms \in SUBSET all : (\A m \in ms : ms \ {m} \in F) => ms \in F
    BY <1>1, <1>5
  <2> HIDE DEF all
  <2>2. SUBSET all \subseteq F
    BY <2>1, SubsetInduction
  <2> QED BY <2>2 DEF all
<1> QED BY <1>6 DEF F, Rows, Row

(* What is counted of the rollups of a set of events.                      *)
LEMMA CountsOfRollups ==
  ASSUME NEW c, NEW d, NEW g
  PROVE  /\ Counts("daily_model", RollupsOf(c, d, g)) = {ModelRow(c, d, m, g) : m \in ModelsOf(g)}
         /\ Counts("daily", RollupsOf(c, d, g)) = IF g = {} THEN {} ELSE {DayRow(c, d, g)}
<1> DEFINE OfModel(m) == {e \in g : e.model = m}
<1>1. ASSUME NEW source, NEW m, NEW group
      PROVE  /\ \A r \in Totals(c, d, source, m, group) : r.source = source
             /\ Counts(source, Totals(c, d, source, m, group)) =
                  IF group = {} THEN {}
                  ELSE {[source |-> source, conn |-> c, day |-> d, span |-> "day",
                         model |-> m, key |-> "request_count", value |-> Cardinality(group)]}
  BY DEF Totals, Counts
<1>2. \A m : OfModel(m) = OfModels(g, {m})
  BY DEF OfModels
<1>3. \A m \in ModelsOf(g) : OfModel(m) # {}
  BY DEF ModelsOf
<1>4. RollupsOf(c, d, g) = Totals(c, d, "daily", None, g)
        \cup UNION {Totals(c, d, "daily_model", m, OfModel(m)) : m \in ModelsOf(g)}
  BY DEF RollupsOf, ModelsOf
<1> HIDE DEF OfModel
<1>5. /\ \A r \in Totals(c, d, "daily", None, g) : r.source = "daily"
      /\ \A m : \A r \in Totals(c, d, "daily_model", m, OfModel(m)) : r.source = "daily_model"
  BY <1>1
<1>6. Counts("daily", RollupsOf(c, d, g)) = Counts("daily", Totals(c, d, "daily", None, g))
  BY <1>4, <1>5 DEF Counts
<1>7. Counts("daily_model", RollupsOf(c, d, g)) =
        UNION {Counts("daily_model", Totals(c, d, "daily_model", m, OfModel(m))) : m \in ModelsOf(g)}
  BY <1>4, <1>5 DEF Counts
<1>8. \A m \in ModelsOf(g) :
         Counts("daily_model", Totals(c, d, "daily_model", m, OfModel(m))) = {ModelRow(c, d, m, g)}
  BY <1>1, <1>2, <1>3 DEF ModelRow
<1>9. Counts("daily_model", RollupsOf(c, d, g)) = {ModelRow(c, d, m, g) : m \in ModelsOf(g)}
  BY <1>7, <1>8
<1>10. Counts("daily", RollupsOf(c, d, g)) = IF g = {} THEN {} ELSE {DayRow(c, d, g)}
  BY <1>1, <1>6 DEF DayRow
<1> QED BY <1>9, <1>10

(* The models of the rollups of any events are within their day.           *)
LEMMA RollupsWithinDay ==
  ASSUME NEW c, NEW d, NEW g, IsFiniteSet(g)
  PROVE  Values(Counts("daily_model", RollupsOf(c, d, g))) <= Values(Counts("daily", RollupsOf(c, d, g)))
<1>1. OfModels(g, ModelsOf(g)) \subseteq g
  BY DEF OfModels
<1>2. /\ Cardinality(OfModels(g, ModelsOf(g))) <= Cardinality(g)
      /\ Cardinality(OfModels(g, ModelsOf(g))) \in Nat /\ Cardinality(g) \in Nat
  BY <1>1, FS_Subset, FS_CardinalityType
<1>3. Values(Counts("daily_model", RollupsOf(c, d, g))) = Cardinality(OfModels(g, ModelsOf(g)))
  BY CountsOfRollups, ModelsAddUp
<1>4. Values(IF g = {} THEN {} ELSE {DayRow(c, d, g)}) = Cardinality(g)
  <2>1. CASE g = {}
    BY <2>1, ValuesEmpty, FS_EmptySet
  <2>2. CASE g # {}
    <3> DEFINE row == DayRow(c, d, g)
    <3>1. row.value = Cardinality(g)
      BY DEF DayRow
    <3> HIDE DEF row
    <3>2. IsFiniteSet({row}) /\ {row} \ {row} = {}
      BY FS_Singleton
    <3>3. Values({row}) = row.value + Values({row} \ {row})
      BY <1>2, <3>1, <3>2, ValuesRemove
    <3>4. Values({row}) = Cardinality(g)
      BY <1>2, <3>1, <3>2, <3>3, ValuesEmpty
    <3> QED BY <2>2, <3>4 DEF row
  <2> QED BY <2>1, <2>2
<1> QED BY <1>2, <1>3, <1>4, CountsOfRollups

-----------------------------------------------------------------------------
\* The rollups of a day are those of some events, if not of the ones it has.
DaysRolledUp ==
  /\ IsFiniteSet(events)
  /\ \A c \in Conn, d \in Day :
       \E g : IsFiniteSet(g) /\ RollupRows(c, d, metrics) = RollupsOf(c, d, g)

\* No step takes a day's rollups away from being those of one set of events.
LEMMA RolledUpStep ==
  ASSUME LedgerInv, DaysRolledUp, [Next]_vars
  PROVE  DaysRolledUp'
<1>1. ASSUME events' \subseteq events,
             \A c \in Conn, d \in Day :
               \/ RollupRows(c, d, metrics') = RollupRows(c, d, metrics)
               \/ RollupRows(c, d, metrics') = {}
      PROVE  DaysRolledUp'
  <2>1. IsFiniteSet(events')
    BY <1>1, FS_Subset DEF DaysRolledUp
  <2>2. IsFiniteSet({})
    BY FS_EmptySet
  <2> QED BY <1>1, <2>1, <2>2, NoEventsNoRollups DEF DaysRolledUp
<1>2. CASE Prune
  <2>1. \A c \in Conn, d \in Day : RollupRows(c, d, metrics') = RollupRows(c, d, metrics)
    BY <1>2 DEF Prune, LedgerInv, RollupSpans, RollupRows
  <2> QED BY <1>1, <1>2, <2>1 DEF Prune
<1>3. ASSUME NEW x \in Conn, RemoveConnection(x) PROVE DaysRolledUp'
  <2>1. events' \subseteq events
    BY <1>3 DEF RemoveConnection
  <2>2. \A c \in Conn, d \in Day :
          RollupRows(c, d, metrics') = IF c = x THEN {} ELSE RollupRows(c, d, metrics)
    BY <1>3 DEF RemoveConnection, RollupRows
  <2> QED BY <1>1, <2>1, <2>2
<1>4. CASE UNCHANGED vars \/ \E c \in Conn : AddConnection(c)
  <2>1. events' = events /\ metrics' = metrics
    BY <1>4 DEF vars, AddConnection
  <2> QED BY <1>1, <2>1
<1>5. ASSUME NEW x \in Conn, CommitSyncBatch(x) PROVE DaysRolledUp'
  <2>0. PICK batch \in Batch :
          \E kept \in LastOfKey(batch.events, SameKey), samples \in LastOfKey(batch.samples, SameSeries) :
            Commit(x, batch, kept, samples, Upsert(kept))
    BY <1>5 DEF CommitSyncBatch
  <2>1. PICK kept \in LastOfKey(batch.events, SameKey), samples \in LastOfKey(batch.samples, SameSeries) :
          Commit(x, batch, kept, samples, Upsert(kept))
    BY <2>0
  <2> DEFINE days == {e.day : e \in batch.events}
             table == {r \in metrics : \A s \in samples : ~SameSeries(r, s)} \cup samples
             stored == Upsert(kept)
  <2>2. events' = stored /\ metrics' = Rebuild(x, days, table, stored)
    BY <2>1 DEF Commit
  <2>3. IsFiniteSet(stored)
    <3>1. kept \subseteq batch.events /\ IsFiniteSet(batch.events) /\ IsFiniteSet(events)
      BY <2>1, BatchAssumption DEF LastOfKey, DaysRolledUp
    <3>2. {e \in events : \A k \in kept : ~SameKey(e, k)} \subseteq events
      OBVIOUS
    <3>3. IsFiniteSet(kept) /\ IsFiniteSet({e \in events : \A k \in kept : ~SameKey(e, k)})
      BY <3>1, <3>2, FS_Subset
    <3> QED BY <3>3, FS_Union DEF Upsert
  <2>4. ASSUME NEW c \in Conn, NEW d \in Day
        PROVE  \E g : IsFiniteSet(g) /\ RollupRows(c, d, metrics') = RollupsOf(c, d, g)
    <3>1. CASE c = x /\ d \in days
      <4>1. RollupRows(c, d, metrics') = RollupsOf(c, d, EventsOn(c, d, stored))
        BY <2>2, <3>1, RebuildRows
      <4>2. EventsOn(c, d, stored) \subseteq stored
        BY DEF EventsOn
      <4>3. IsFiniteSet(EventsOn(c, d, stored))
        BY <2>3, <4>2, FS_Subset
      <4> QED BY <4>1, <4>3
    <3>2. CASE ~(c = x /\ d \in days)
      <4>1. RollupRows(c, d, metrics') = RollupRows(c, d, table)
        BY <2>2, <3>2, RebuildRows
      <4>2. \A s \in samples : s.source = "provider"
        BY <2>1 DEF LastOfKey
      <4>3. RollupRows(c, d, table) = RollupRows(c, d, metrics)
        BY <4>2 DEF RollupRows, RollupSource, SameSeries
      <4> QED BY <4>1, <4>3 DEF DaysRolledUp
    <3> QED BY <3>1, <3>2
  <2>5. \A c \in Conn, d \in Day :
          \E g : IsFiniteSet(g) /\ RollupRows(c, d, metrics') = RollupsOf(c, d, g)
    BY <2>4
  <2>6. IsFiniteSet(events')
    BY <2>2, <2>3
  <2> QED BY <2>5, <2>6 DEF DaysRolledUp
<1> QED BY <1>2, <1>3, <1>4, <1>5 DEF Next

(* The requests of the models of a day never exceed the day's, also on a   *)
(* day that was not rebuilt since an event left it: its rollups are still  *)
(* of one set of events.                                                   *)
THEOREM ModelsWithinDayHolds == Spec => []ModelsWithinDay
<1>1. Init => DaysRolledUp
  <2> SUFFICES ASSUME Init PROVE DaysRolledUp
    OBVIOUS
  <2>1. \A c \in Conn, d \in Day : RollupRows(c, d, metrics) = {}
    BY DEF Init, RollupRows
  <2>2. IsFiniteSet(events) /\ IsFiniteSet({})
    BY FS_EmptySet DEF Init
  <2> QED BY <2>1, <2>2, NoEventsNoRollups DEF DaysRolledUp
<1>2. LedgerInv /\ DaysRolledUp /\ [Next]_vars => DaysRolledUp'
  BY RolledUpStep
<1>3. DaysRolledUp => ModelsWithinDay
  <2> SUFFICES ASSUME DaysRolledUp, NEW c \in Conn, NEW d \in Day
               PROVE  Values(Counts("daily_model", RollupRows(c, d, metrics)))
                        <= Values(Counts("daily", RollupRows(c, d, metrics)))
    BY Zenon DEF ModelsWithinDay, Values, Counts
  <2>1. PICK g : IsFiniteSet(g) /\ RollupRows(c, d, metrics) = RollupsOf(c, d, g)
    BY DEF DaysRolledUp
  <2> QED BY <2>1, RollupsWithinDay
<1> QED BY <1>1, <1>2, <1>3, LedgerCorrect, PTL DEF Spec

-----------------------------------------------------------------------------
(***************************************************************************)
(* The refinement of EventStore: a commit leaves of every event of its     *)
(* connection what a delivery may leave, and of the others what there was. *)
(***************************************************************************)

\* What a commit keeps of the events of a batch.
LEMMA CommitDelivers ==
  ASSUME NEW c \in Conn, NEW batch \in Batch, \A e \in batch.events : e.conn = c,
         NEW kept \in LastOfKey(batch.events, SameKey), events' = Upsert(kept),
         NEW k \in EventKey
  PROVE  Latest(c)'[k] \in Store!Outcomes(c, k, batch.events)
<1> DEFINE versions == {e \in batch.events : e.key = k}
<1>1. kept \subseteq batch.events
  BY DEF LastOfKey
<1>2. Latest(c)'[k] = {e \in Upsert(kept) : e.conn = c /\ e.key = k}
  BY DEF Latest
<1>3. CASE versions = {}
  <2>1. \A e \in kept : e.key # k
    BY <1>1, <1>3
  <2>2. {e \in Upsert(kept) : e.conn = c /\ e.key = k} = {e \in events : e.conn = c /\ e.key = k}
    BY <2>1 DEF Upsert, SameKey
  <2> QED BY <1>2, <1>3, <2>2 DEF Store!Outcomes, Store!VersionsOf, Latest
<1>4. CASE versions # {}
  <2>1. PICK r \in batch.events : r.key = k
    BY <1>4
  <2>2. PICK v \in kept : SameKey(r, v) /\ \A j \in kept : SameKey(r, j) => j = v
    BY <2>1 DEF LastOfKey
  <2>3. v \in versions
    BY <1>1, <2>1, <2>2 DEF SameKey
  <2>4. {e \in Upsert(kept) : e.conn = c /\ e.key = k} = {v}
    BY <1>1, <2>1, <2>2, <2>3 DEF Upsert, SameKey
  <2> QED BY <1>2, <1>4, <2>3, <2>4 DEF Store!Outcomes, Store!VersionsOf
<1> QED BY <1>3, <1>4

\* A commit leaves the events of other connections alone.
LEMMA CommitKeepsOthers ==
  ASSUME NEW c \in Conn, NEW batch \in Batch, \A e \in batch.events : e.conn = c,
         NEW kept \in LastOfKey(batch.events, SameKey), events' = Upsert(kept),
         NEW d \in Conn \ {c}
  PROVE  Latest(d)' = Latest(d)
<1>1. \A e \in kept : e.conn = c
  BY DEF LastOfKey
<1>2. \A k \in EventKey : {e \in Upsert(kept) : e.conn = d /\ e.key = k}
                           = {e \in events : e.conn = d /\ e.key = k}
  BY <1>1 DEF Upsert, SameKey
<1> QED BY <1>2 DEF Latest

(* For any events, batches and connections the table of events implements  *)
(* EventStore: it has one version of an event, as it was committed, until  *)
(* another is committed or the connection is removed (storage              *)
(* lib.rs:284-409, 484-540, 920-923).                                      *)
THEOREM StoreRefinement == Spec => StoreRefined
<1> DEFINE stored == [c \in Conn |-> Latest(c)]
<1>1. Init => Store!StoreInit
  BY DEF Init, Store!StoreInit, Store!Nothing, Latest
<1>2. [Next]_vars => [Store!StoreNext]_Store!storeVars
  <2>1. ASSUME NEW c \in Conn, AddConnection(c) PROVE Store!Open(c)
    BY <2>1 DEF AddConnection, Store!Open, Latest
  <2>2. ASSUME NEW c \in Conn, RemoveConnection(c) PROVE Store!Close(c)
    <3>1. \A d \in Conn : Latest(d)' = IF d = c THEN Store!Nothing ELSE Latest(d)
      <4>1. \A d \in Conn, k \in EventKey :
              {e \in events' : e.conn = d /\ e.key = k}
                = IF d = c THEN {} ELSE {e \in events : e.conn = d /\ e.key = k}
        BY <2>2 DEF RemoveConnection
      <4> QED BY <4>1 DEF Latest, Store!Nothing
    <3> QED BY <2>2, <3>1 DEF RemoveConnection, Store!Close
  <2>3. ASSUME NEW c \in Conn, CommitSyncBatch(c) PROVE Store!Deliver(c)
    <3>1. PICK batch \in Batch :
            /\ c \in rows /\ Own(c, batch)
            /\ \E kept \in LastOfKey(batch.events, SameKey),
                  samples \in LastOfKey(batch.samples, SameSeries) :
                 Commit(c, batch, kept, samples, Upsert(kept))
      BY <2>3 DEF CommitSyncBatch
    <3>2. PICK kept \in LastOfKey(batch.events, SameKey) :
            events' = Upsert(kept) /\ UNCHANGED <<rows, used>>
      BY <3>1 DEF Commit
    <3>3. \A e \in batch.events : e.conn = c
      BY <3>1 DEF Own
    <3>4. batch.events \in Delivered
      BY DEF Delivered
    <3>5. \A k \in EventKey : Latest(c)'[k] \in Store!Outcomes(c, k, batch.events)
      BY <3>2, <3>3, CommitDelivers
    <3>6. \A d \in Conn \ {c} : Latest(d)' = Latest(d)
      BY <3>2, <3>3, CommitKeepsOthers
    <3>7. stored' = [stored EXCEPT ![c] = stored'[c]]
      BY <3>6
    <3>8. c \in rows /\ UNCHANGED <<used, rows>>
      BY <3>1, <3>2
    <3> QED BY <3>3, <3>4, <3>5, <3>7, <3>8 DEF Store!Deliver
  <2>4. ASSUME Prune \/ UNCHANGED vars PROVE UNCHANGED Store!storeVars
    BY <2>4 DEF Prune, vars, Store!storeVars, Latest
  <2> QED BY <2>1, <2>2, <2>3, <2>4 DEF Next, Store!StoreNext
<1> QED BY <1>1, <1>2, PTL DEF Spec, StoreRefined, Store!StoreSpec
=============================================================================
