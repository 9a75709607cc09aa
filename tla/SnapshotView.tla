------------------------------ MODULE SnapshotView -----------------------------
(***************************************************************************)
(* What a snapshot and the bar show.  A snapshot reads the rows of all     *)
(* connections, then, of one connection after another, its metrics, its    *)
(* quota windows, the summary of its reset credits and the credits, each   *)
(* under a lock of its own; commits, errors and removals come in between.  *)
(* A commit replaces the figures its batch carries and leaves the others   *)
(* as older commits have stored them.  The bar shows the quota that is     *)
(* nearest its end, the gravest status and a trend of the last days.       *)
(*                                                                         *)
(* A figure is the remaining ratio of a quota window, in thousandths, or   *)
(* the tokens of a day, with the number of the commit that has stored it.  *)
(***************************************************************************)
EXTENDS Integers, Sequences, FiniteSets, FiniteSetsExt, SequencesExt

CONSTANTS
  LastConn,   \* how many connections there are
  Window,     \* the quota windows a provider may report
  ShownDays,  \* how many days the trend has
  Batch,      \* what a synchronisation may bring: the figures of some windows and
              \* days, some ratios out of range, and the reset credits or not
  MaxCommits  \* bound: commits, errors and removals

Day      == 1..ShownDays
FigureId == Window \cup Day

ASSUME ViewAssumption ==
  /\ LastConn \in Nat /\ ShownDays \in Nat /\ MaxCommits \in Nat
  /\ \A w \in Window : w \notin Day
  /\ \A b \in Batch :
       /\ DOMAIN b.figures \subseteq FigureId /\ b.credits \in BOOLEAN
       /\ \A k \in DOMAIN b.figures : /\ b.figures[k] \in Int
                                      /\ k \in Day => b.figures[k] \in Nat

Conn == 1..LastConn  \* in the order they were created

VARIABLES
  row,      \* table connections: status, whether last_success_at is set and long ago;
            \* and, an observation, the commits of the figures when it was set
  figures,  \* metric_samples and quota_windows
  summary,  \* rate_limit_reset_credit_summaries: the commit
  credits,  \* rate_limit_reset_credits: the commit
  commits,  \* commits, errors and removals so far
  reading,  \* what the snapshot reads next
  shown     \* what it has read

viewVars == <<row, figures, summary, credits, commits, reading, shown>>

Problem == {"auth_required", "rate_limited", "offline", "provider_error"}
NoRow   == [status |-> "none", success |-> FALSE, old |-> FALSE, held |-> [k \in FigureId |-> 0]]
NoData  == [k \in FigureId |-> [commit |-> 0, value |-> 0]]

Nothing == [c \in Conn |-> [row |-> NoRow, figures |-> NoData, summary |-> 0, credits |-> 0]]

ViewInit ==
  /\ row = [c \in Conn |-> [NoRow EXCEPT !.status = "ready"]]
  /\ figures = [c \in Conn |-> NoData]
  /\ summary = [c \in Conn |-> 0] /\ credits = [c \in Conn |-> 0]
  /\ commits = 0 /\ reading = <<>>
  /\ shown = Nothing

-----------------------------------------------------------------------------
(* Synchronisations.                                                       *)

Exists(c) == row[c].status # "none"
Changes(c) == Exists(c) /\ commits < MaxCommits /\ commits' = commits + 1

\* QuotaWindow::normalize: a ratio out of range fails the commit as a whole.
InRange(ratio) == ratio \in 0..1000

\* insert_metric, insert_quota: ON CONFLICT DO UPDATE
Upserted(table, given, commit) ==
  [k \in FigureId |-> IF k \in DOMAIN given THEN [commit |-> commit, value |-> given[k]]
                     ELSE table[k]]

\* commit_sync_batch, one transaction; what is not in the batch is neither written nor
\* deleted.
Commit(c) ==
  \E b \in Batch :
    LET stored == Upserted(figures[c], b.figures, commits + 1)
    IN /\ Changes(c) /\ \A w \in DOMAIN b.figures \cap Window : InRange(b.figures[w])
       /\ row' = [row EXCEPT ![c] = [status |-> "ready", success |-> TRUE, old |-> FALSE,
                                     held |-> [k \in FigureId |-> stored[k].commit]]]
       /\ figures' = [figures EXCEPT ![c] = stored]
       /\ summary' = [summary EXCEPT ![c] = IF b.credits THEN commits + 1 ELSE @]
       /\ credits' = [credits EXCEPT ![c] = IF b.credits THEN commits + 1 ELSE @]
       /\ UNCHANGED <<reading, shown>>

\* mark_sync_error; the figures stay.
SyncError(c) ==
  \E status \in Problem :
    /\ Changes(c) /\ row' = [row EXCEPT ![c].status = status]
    /\ UNCHANGED <<figures, summary, credits, reading, shown>>

\* No success for longer than stale_after.
GrowOld(c) ==
  /\ Changes(c) /\ row[c].success /\ ~row[c].old /\ row' = [row EXCEPT ![c].old = TRUE]
  /\ UNCHANGED <<figures, summary, credits, reading, shown>>

\* remove_connection, and the cascades.
RemoveRow(c) ==
  /\ Changes(c) /\ row' = [row EXCEPT ![c] = NoRow]
  /\ figures' = [figures EXCEPT ![c] = NoData]
  /\ summary' = [summary EXCEPT ![c] = 0] /\ credits' = [credits EXCEPT ![c] = 0]
  /\ UNCHANGED <<reading, shown>>

-----------------------------------------------------------------------------
(* build.                                                                  *)

\* The order in which it reads: the rows, and then one connection after another.
\* Variant: the rows come last.
PartsOf  == <<"metrics", "quotas", "summary", "credits">>
AllParts == [i \in 1..(4 * LastConn) |-> <<PartsOf[((i - 1) % 4) + 1], ((i - 1) \div 4) + 1>>]

RowsLast(parts)  == Append(parts, <<"rows", 0>>)
RowsFirst(parts) == <<<<"rows", 0>>>> \o parts

BeginSnapshot ==
  /\ reading = <<>> /\ reading' = RowsFirst(AllParts) /\ shown' = Nothing
  /\ UNCHANGED <<row, figures, summary, credits, commits>>

\* list_connections: one query.
ReadRows ==
  /\ reading # <<>> /\ Head(reading)[1] = "rows" /\ reading' = Tail(reading)
  /\ shown' = [c \in Conn |-> [shown[c] EXCEPT !.row = row[c]]]
  /\ UNCHANGED <<row, figures, summary, credits, commits>>

\* metrics; quotas; rate_limit_reset_credits, in two acquisitions of the lock; of a
\* connection that has gone nothing is found.
ReadPart ==
  /\ reading # <<>> /\ Head(reading)[1] # "rows" /\ reading' = Tail(reading)
  /\ LET part  == Head(reading)[1]
         c     == Head(reading)[2]
         found == CASE part = "metrics" -> Day [] part = "quotas" -> Window [] OTHER -> {}
     IN shown' = [shown EXCEPT ![c] =
          [row     |-> @.row,
           figures |-> [k \in FigureId |-> IF k \in found THEN figures[c][k] ELSE @.figures[k]],
           summary |-> IF part = "summary" THEN summary[c] ELSE @.summary,
           credits |-> IF part = "credits" /\ @.summary > 0 THEN credits[c] ELSE @.credits]]
  /\ UNCHANGED <<row, figures, summary, credits, commits>>

ViewNext ==
  \/ BeginSnapshot \/ ReadRows \/ ReadPart
  \/ \E c \in Conn : Commit(c) \/ SyncError(c) \/ GrowOld(c) \/ RemoveRow(c)

ViewSpec == ViewInit /\ [][ViewNext]_viewVars

-----------------------------------------------------------------------------
(* render_waybar.                                                          *)

Listed   == {c \in Conn : shown[c].row.status # "none"}
Quotas   == {q \in Listed \X Window : shown[q[1]].figures[q[2]].commit > 0}
Troubled == {c \in Listed : shown[c].row.status \in Problem}
Stale(c) == shown[c].row.status = "offline" \/ shown[c].row.old

\* Decimal::round: to the even neighbour from the middle.
Rounded(n, d) ==
  LET q == n \div d
      r == n % d
  IN IF 2 * r < d \/ (2 * r = d /\ q % 2 = 0) THEN q ELSE q + 1

Ratio(q)    == shown[q[1]].figures[q[2]].value
Least       == Min({Ratio(q) : q \in Quotas})
Percent     == Rounded(Least, 10)
QuotaClass  ==
  IF Quotas = {} THEN IF Troubled = {} /\ Listed # {} THEN {"quota-ok"} ELSE {}
  ELSE IF Percent = 0 THEN {"quota-exhausted"}
  ELSE IF Percent < 20 THEN {"quota-critical"}
  ELSE IF Percent <= 50 THEN {"quota-warning"} ELSE {"quota-ok"}

StatusClass ==
  (IF Troubled = {} THEN {} ELSE {shown[Min(Troubled)].row.status})
  \cup (IF \E c \in Listed : Stale(c) THEN {"sync-stale"} ELSE {})

Bar == QuotaClass \cup StatusClass \cup (IF Listed = {} THEN {"empty"} ELSE {})

\* token_sparkline, sparkline: days of all connections together, in eighths of the
\* greatest.
Days      == [d \in Day |-> MapThenSumSet(LAMBDA c : shown[c].figures[d].value, Listed)]
Trend     == LET most == Max({0} \cup {Days[i] : i \in DOMAIN Days})
             IN IF most = 0 THEN <<>> ELSE [i \in DOMAIN Days |-> Rounded(7 * Days[i], most)]

-----------------------------------------------------------------------------
SnapshotDone == reading = <<>> /\ Listed # {}

\* A snapshot never dates figures later than they are: it shows each figure of a
\* connection as it was when the last_success_at it shows was set, or as a later commit
\* has stored it, unless the connection has gone meanwhile, and a list of credits is no
\* older than its summary.  A figure that was not in that commit's batch is as old as
\* it was then: nothing deletes a window the provider no longer reports.
FiguresAreCurrent ==
  \A c \in Listed : Exists(c) =>
    /\ \A k \in FigureId : shown[c].figures[k].commit >= shown[c].row.held[k]
    /\ shown[c].credits >= shown[c].summary

\* No quota of which less than 19.5 percent remain, which is rounded to less than 20,
\* goes without a warning, nor a connection in trouble without its class, and a day with
\* more tokens is never drawn lower.
BarWarns ==
  /\ \A q \in Quotas : Ratio(q) < 195 => Bar \cap {"quota-critical", "quota-exhausted"} # {}
  /\ Troubled # {} => Bar \cap Problem # {}
  /\ \A i, j \in DOMAIN Trend : Days[i] <= Days[j] => Trend[i] <= Trend[j] /\ Trend[j] <= 7

\* What a complete snapshot shows is current, and the bar warns of it, whatever the
\* synchronisations commit while it is read (snapshot.rs:43-96, 112-175, 233-313,
\* storage lib.rs:612-741).
ShowsWhatIs == SnapshotDone => FiguresAreCurrent /\ BarWarns
=============================================================================
