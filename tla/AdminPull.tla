------------------------------- MODULE AdminPull -------------------------------
(***************************************************************************)
(* The pull of an organisation's usage and costs by the OpenAI admin       *)
(* adapter.  Both reports are daily buckets, fetched page by page from a   *)
(* start that the stored cursor and an overlap of two days decide, while   *)
(* the provider goes on counting the current day and corrects earlier      *)
(* ones.  A pull that fails anywhere leaves nothing; one that succeeds is  *)
(* committed with the time it began as the new cursor.                     *)
(*                                                                         *)
(* A bucket is abstracted to the version of its contents - a group that    *)
(* has been in it stays in it -, time to days.                             *)
(***************************************************************************)
EXTENDS Integers, FiniteSets

CONSTANTS
  LastDay,     \* bound: the last day of the run
  MaxVersion,  \* bound: versions of a bucket
  MaxBuckets,  \* bound: buckets the provider ever changes
  HistoryDays,     \* days fetched when there is no cursor (31)
  Overlap,     \* days before the current one that every pull fetches (2)
  PageDays,    \* buckets of a page (31 and 180)
  PageCap,     \* pages of one report at most (100)
  NoCursor     \* the connection has not been pulled yet

PullDay == 0..LastDay
Report  == {"usage", "costs"}

\* A hundred pages of 31 days reach further back than any cursor; without one
\* more days are fetched than with one.
ASSUME PullAssumption ==
  /\ LastDay \in Nat /\ MaxVersion \in Nat /\ MaxBuckets \in Nat
  /\ HistoryDays \in Nat /\ Overlap \in Nat
  /\ PageDays \in Nat \ {0} /\ PageCap \in Nat /\ NoCursor \notin Int
  /\ PageCap * PageDays > LastDay + HistoryDays /\ Overlap <= HistoryDays

VARIABLES
  today,
  reported,  \* the provider: the version of each report's bucket of each day
  bucket,    \* metric_samples: the version stored of it, 0 when there is none
  cursor,    \* sync_state.cursor: the day the last committed pull began
  pull,      \* the pull under way
  covered,   \* observation: the day the last committed pull of a bucket began
  begun      \* observation: what the provider reported when the pull began

pullVars == <<today, reported, bucket, cursor, pull, covered, begun>>

NoPull == [at |-> "idle", now |-> 0, start |-> 0, next |-> 0, pages |-> 0,
           batch |-> [r \in Report |-> [d \in {} |-> 0]]]

PullInit ==
  /\ today = 0 /\ reported = [r \in Report |-> [d \in PullDay |-> 0]]
  /\ bucket = reported /\ begun = reported
  /\ cursor = NoCursor /\ pull = NoPull
  /\ covered = [r \in Report |-> [d \in PullDay |-> NoCursor]]

Earlier(a, b) == IF a < b THEN a ELSE b

\* Variant: the overlap is left out.
StartAtCursor(c, now) == IF c = NoCursor THEN now - HistoryDays ELSE c

\* cursor_start.min(now - 2 days)
PullStart(c, now) == Earlier(IF c = NoCursor THEN now - HistoryDays ELSE c, now - Overlap)

\* sync: `now` is read once, before the first request.
BeginPull ==
  LET start == PullStart(cursor, today)
  IN /\ pull.at = "idle"
     /\ pull' = [NoPull EXCEPT !.at = "usage", !.now = today, !.start = start, !.next = start]
     /\ begun' = reported
     /\ UNCHANGED <<today, reported, bucket, cursor, covered>>

\* One request of fetch_usage or fetch_costs.  Pages follow one another until
\* one has no successor, or the cap is reached; days without a report have
\* empty buckets.
Page(r, from) ==
  [d \in (from..(from + PageDays - 1)) \cap (0..today) |-> reported[r][d]]

AddPage(buckets, page) ==
  [d \in DOMAIN buckets \cup DOMAIN page |->
     IF d \in DOMAIN page THEN page[d] ELSE buckets[d]]

FetchPage(r) ==
  LET more == pull.next + PageDays <= today /\ pull.pages + 1 < PageCap
  IN /\ pull.at = r
     /\ pull' = [pull EXCEPT
          !.batch[r] = AddPage(@, Page(r, pull.next)),
          !.at    = IF more THEN r ELSE IF r = "usage" THEN "costs" ELSE "probe",
          !.next  = IF more THEN @ + PageDays ELSE pull.start,
          !.pages = IF more THEN @ + 1 ELSE 0]
     /\ UNCHANGED <<today, reported, bucket, cursor, covered, begun>>

\* probe_capabilities, the last request
Probe ==
  /\ pull.at = "probe" /\ pull' = [pull EXCEPT !.at = "commit"]
  /\ UNCHANGED <<today, reported, bucket, cursor, covered, begun>>

\* A request is refused, is not answered in time or has an answer that cannot
\* be decoded: the pull ends, and with it what it has fetched.
PullFails ==
  /\ pull.at \in {"usage", "costs", "probe"}
  /\ pull' = NoPull
  /\ UNCHANGED <<today, reported, bucket, cursor, covered, begun>>

\* Variant: the cursor is the time of the commit.
CursorAtCommit(p) == today
NextCursor(p) == p.now

\* commit_sync_batch: every sample of the batch replaces the one with its
\* dedup key, in one transaction with the cursor.
CommitPull ==
  /\ pull.at = "commit"
  /\ bucket' = [r \in Report |-> [d \in PullDay |->
       IF d \in DOMAIN pull.batch[r] THEN pull.batch[r][d] ELSE bucket[r][d]]]
  /\ covered' = [r \in Report |-> [d \in PullDay |->
       IF d \in DOMAIN pull.batch[r] THEN pull.now ELSE covered[r][d]]]
  /\ cursor' = NextCursor(pull) /\ pull' = NoPull
  /\ UNCHANGED <<today, reported, begun>>

\* The provider counts on the current day, or corrects a day.
ProviderCounts ==
  \E r \in Report, d \in 0..today :
    /\ reported[r][d] < MaxVersion
    /\ Cardinality({b \in Report \X PullDay : reported[b[1]][b[2]] > 0}
                    \cup {<<r, d>>}) <= MaxBuckets
    /\ reported' = [reported EXCEPT ![r][d] = @ + 1]
    /\ UNCHANGED <<today, bucket, cursor, pull, covered, begun>>

\* A day passes, with a pull under way or with none for as long as the machine
\* is off.
DayPasses ==
  /\ today < LastDay /\ today' = today + 1
  /\ UNCHANGED <<reported, bucket, cursor, pull, covered, begun>>

PullNext ==
  \/ BeginPull \/ (\E r \in Report : FetchPage(r)) \/ Probe \/ PullFails \/ CommitPull
  \/ ProviderCounts \/ DayPasses

PullSpec == PullInit /\ [][PullNext]_pullVars

-----------------------------------------------------------------------------
\* No day is left unfinished: a day the next pull will not fetch any more was
\* fetched by a pull that began after it had ended, or is older than all that
\* was ever fetched - although pulls fail, come days late, and cross midnight
\* (platform.rs:127-132, 232).
NoDaySkipped ==
  \A r \in Report, d \in PullDay :
    cursor # NoCursor /\ d < PullStart(cursor, today) /\ d >= 0 =>
      \/ covered[r][d] # NoCursor /\ covered[r][d] > d
      \/ \A e \in 0..d : covered[r][e] = NoCursor

\* A pull brings what the provider reported when it began, or newer, for every
\* day of the overlap and every day from the cursor on, in both reports, and
\* never puts an older version back (platform.rs:132-134, storage lib.rs:1099).
PullIsFresh ==
  [][CommitPull => \A r \in Report, d \in PullDay :
       /\ bucket'[r][d] >= bucket[r][d]
       /\ (d \in 0..pull.now /\ (d >= pull.now - Overlap \/ (cursor # NoCursor /\ d >= cursor)))
            => bucket'[r][d] >= begun[r][d]]_pullVars
=============================================================================
