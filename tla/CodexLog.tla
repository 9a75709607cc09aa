------------------------------- MODULE CodexLog --------------------------------
(***************************************************************************)
(* The local Codex monitor.  Codex processes append to their session logs; *)
(* snapshots, taken by the monitor and by ipc's refresh, find the logs     *)
(* worth reading, then hold the cache's mutex while they read, one log     *)
(* after another, the lines that have been completed since the last one,   *)
(* and add up the tokens per day and model.                                *)
(*                                                                         *)
(* The offset of the code counts bytes; here it counts lines.              *)
(***************************************************************************)
EXTENDS Integers, Sequences, SequencesExt, FiniteSets, FiniteSetsExt, Functions

CONSTANTS
  Session,    \* the session logs; all are of day 0
  Snapshot,   \* the tasks that take snapshots
  CodexModel, \* models a turn_context names
  ReportDays,    \* days a report goes back (6)
  Recent,     \* days back of which the directories are listed (8)
  LastDate,   \* bound: the last day
  MaxLogLines,   \* bound: lines of a log
  Total,      \* the cumulative totals a token_count may give
  Unknown,    \* no model yet, no total yet
  Partial,    \* a line without its end
  NoEntry     \* the cache has no entry for a log

ASSUME CodexAssumption ==
  /\ ReportDays \in Nat /\ Recent \in Nat /\ LastDate \in Nat
  /\ MaxLogLines \in Nat /\ Total \subseteq Nat
  /\ Unknown \notin CodexModel \cup Nat \cup Snapshot /\ IsFiniteSet(Session)

Date     == 0..LastDate
ModelKey == CodexModel \cup {Unknown}
Context(m)  == <<"turn_context", m>>
Count(t, d) == <<"token_count", t, d>>
IsCount(l)  == l[1] = "token_count"
LogLine     == {Context(m) : m \in CodexModel} \cup {Count(t, d) : t \in Total, d \in Date}

\* SessionCursor and its events: an entry of the cache.
Entry == [offset : Nat, model : ModelKey, previous : Total \cup {Unknown},
          days : [Date \X ModelKey -> Nat]]

ASSUME CodexValues == Partial \notin LogLine /\ NoEntry \notin Entry

VARIABLES
  log,      \* the lines of each session's file
  running,  \* the sessions that a codex process holds open
  current,    \* the current day
  cache,    \* CACHE: an entry for each log, or NoEntry
  holder,   \* the task that holds the cache's mutex, or Unknown
  snap,     \* what each snapshot has found and has still to read; from observes
            \* how many lines of each log it must count
  replaced  \* observation: logs replaced, which the cache has not noticed

codexVars == <<log, running, current, cache, holder, snap, replaced>>

EmptyEntry == [offset |-> 0, model |-> Unknown, previous |-> Unknown,
               days |-> [k \in Date \X ModelKey |-> 0]]
Idle == [at |-> "idle", date |-> 0, tracked |-> {}, todo |-> {},
         from |-> [f \in Session |-> 0]]
Complete(lines) == IF lines # <<>> /\ Last(lines) = Partial THEN Front(lines) ELSE lines

CodexInit ==
  /\ log = [f \in Session |-> <<>>] /\ running = Session /\ current = 0
  /\ cache = [f \in Session |-> NoEntry] /\ holder = Unknown
  /\ snap = [t \in Snapshot |-> Idle]
  /\ replaced = {}

-----------------------------------------------------------------------------
(* The environment: Codex, its files and the calendar.                     *)

\* A session begins or ends a line.
WriteLine(f) ==
  \E line \in {Partial} \cup {Context(m) : m \in CodexModel}
              \cup {Count(t, current) : t \in Total} :
    /\ f \in running /\ (line = Partial => Complete(log[f]) = log[f])
    /\ Len(Complete(log[f])) < MaxLogLines
    /\ log' = [log EXCEPT ![f] = Append(Complete(@), line)]
    /\ UNCHANGED <<running, current, cache, holder, snap, replaced>>

\* A log is truncated, or another file takes its name.
ReplaceLog(f) ==
  /\ f \in running /\ log[f] # <<>> /\ log' = [log EXCEPT ![f] = <<>>]
  /\ replaced' = IF cache[f] # NoEntry /\ cache[f].offset > 0
                 THEN replaced \cup {f} ELSE replaced
  /\ snap' = [t \in Snapshot |-> [snap[t] EXCEPT !.from[f] = 0]]
  /\ UNCHANGED <<running, current, cache, holder>>

EndProcess(f) ==
  /\ f \in running /\ running' = running \ {f}
  /\ UNCHANGED <<log, current, cache, holder, snap, replaced>>

NextDate ==
  /\ current < LastDate /\ current' = current + 1
  /\ UNCHANGED <<log, running, cache, holder, snap, replaced>>

-----------------------------------------------------------------------------
(* snapshot().                                                             *)

\* active_session_files, recent_session_files: before the mutex is taken.
TrackedFiles == running \cup (IF current <= Recent THEN Session ELSE {})

Discover(t) ==
  /\ snap[t].at = "idle"
  /\ snap' = [snap EXCEPT ![t] =
       [at |-> "found", date |-> current, tracked |-> TrackedFiles, todo |-> TrackedFiles,
        from |-> [f \in Session |->
                    IF f \in TrackedFiles THEN Len(Complete(log[f]))
                    ELSE IF cache[f] = NoEntry \/ f \in replaced THEN 0 ELSE cache[f].offset]]]
  /\ UNCHANGED <<log, running, current, cache, holder, replaced>>

\* The mutex, and cache.files.retain.
\* Variant: a log that is no longer tracked is dropped.
RetainTracked(s) == {f \in Session : f \in s.tracked}
Retain(s) ==
  {f \in Session : \/ f \in s.tracked
                   \/ /\ cache[f] # NoEntry
                      /\ \E k \in DOMAIN cache[f].days :
                           k[1] >= s.date - ReportDays /\ cache[f].days[k] > 0}

LockCache(t) ==
  /\ snap[t].at = "found" /\ holder = Unknown /\ holder' = t
  /\ cache' = [f \in Session |-> IF f \in Retain(snap[t]) THEN cache[f] ELSE NoEntry]
  /\ replaced' = replaced \cap Retain(snap[t])
  /\ snap' = [snap EXCEPT ![t].at = "reading"]
  /\ UNCHANGED <<log, running, current>>

\* consume_token_count: totals are cumulative, and begin anew when they fall.
\* Variant: every total is a difference.
DeltaNoReset(previous, total) == IF previous = Unknown THEN total ELSE total - previous
Delta(previous, total) ==
  IF previous = Unknown \/ total < previous THEN total ELSE total - previous

ConsumeTokenCount(entry, total, day) ==
  [offset |-> entry.offset, model |-> entry.model, previous |-> total,
   days |-> [entry.days EXCEPT ![<<day, entry.model>>] = @ + Delta(entry.previous, total)]]

ConsumeEvent(entry, line) ==
  IF IsCount(line) THEN ConsumeTokenCount(entry, line[2], line[3])
                   ELSE [entry EXCEPT !.model = line[2]]

\* read_appended: whole lines only; one without its end is read again.
ReadAppended(entry, lines) ==
  LET whole == Complete(lines)
      new   == SubSeq(whole, entry.offset + 1, Len(whole))
  IN [FoldLeft(ConsumeEvent, entry, new) EXCEPT !.offset = Len(whole)]

\* A file shorter than the offset has been replaced: its entry begins anew.
Refreshed(entry, lines) ==
  LET known == IF entry = NoEntry \/ Len(Complete(lines)) < entry.offset
               THEN EmptyEntry ELSE entry
  IN ReadAppended(known, lines)

ReadLog(t) ==
  \E f \in snap[t].todo :
    /\ snap[t].at = "reading"
    /\ cache' = [cache EXCEPT ![f] = Refreshed(@, log[f])]
    /\ replaced' = IF cache[f] # NoEntry /\ Len(Complete(log[f])) < cache[f].offset
                   THEN replaced \ {f} ELSE replaced
    /\ snap' = [snap EXCEPT ![t].todo = @ \ {f}]
    /\ UNCHANGED <<log, running, current, holder>>

\* A file that cannot be opened or read is passed over (its entry is made).
ReadFails(t) ==
  \E f \in snap[t].todo :
    /\ snap[t].at = "reading"
    /\ cache' = [cache EXCEPT ![f] = IF @ = NoEntry THEN EmptyEntry ELSE @]
    /\ snap' = [snap EXCEPT ![t] = [at |-> @.at, date |-> @.date, tracked |-> @.tracked,
                                    todo |-> @.todo \ {f}, from |-> [@.from EXCEPT ![f] = 0]]]
    /\ UNCHANGED <<log, running, current, holder, replaced>>

\* daily_usage: every entry of the cache, for the days of the history.
DailyUsage(date) ==
  [k \in Date \X ModelKey |->
     IF k[1] \notin (date - ReportDays)..date THEN 0
     ELSE LET entries == {f \in Session : cache[f] # NoEntry}
          IN SumFunctionOnSet([f \in entries |-> cache[f].days[k]], entries)]

\* The last read done, the snapshot is DailyUsage; the mutex is given back.
GiveReport(t) ==
  /\ snap[t].at = "reading" /\ snap[t].todo = {}
  /\ holder' = Unknown /\ snap' = [snap EXCEPT ![t] = Idle]
  /\ UNCHANGED <<log, running, current, cache, replaced>>

CodexNext ==
  \/ \E f \in Session : WriteLine(f) \/ ReplaceLog(f) \/ EndProcess(f)
  \/ NextDate
  \/ \E t \in Snapshot : \/ Discover(t) \/ LockCache(t) \/ ReadLog(t)
                         \/ ReadFails(t) \/ GiveReport(t)

CodexSpec == CodexInit /\ [][CodexNext]_codexVars

-----------------------------------------------------------------------------
(* What lines say: each token_count adds what its total has grown by since *)
(* the one before it, or all of it when it has fallen, to its day and to   *)
(* the model of the last turn_context before it.                           *)
CountsBefore(lines, i) == {j \in 1..(i - 1) : IsCount(lines[j])}
Grown(lines, i) ==
  LET before == CountsBefore(lines, i)
      last   == IF before = {} THEN 0 ELSE lines[Max(before)][2]
  IN IF lines[i][2] < last THEN lines[i][2] ELSE lines[i][2] - last
ModelOf(lines, i) ==
  LET contexts == 1..(i - 1) \ CountsBefore(lines, i)
  IN IF contexts = {} THEN Unknown ELSE lines[Max(contexts)][2]
Said(lines, k) ==
  SumFunctionOnSet([i \in DOMAIN lines |-> Grown(lines, i)],
    {i \in DOMAIN lines : /\ IsCount(lines[i]) /\ lines[i][3] = k[1]
                          /\ ModelOf(lines, i) = k[2]})
SaidFirst(f, n, k) == Said(SubSeq(Complete(log[f]), 1, n), k)

\* What the cache holds of a log is what the log's first offset lines say, each
\* counted once, whatever cut the reads: no half line, no line twice, none missed
\* (local_codex.rs:137-147, 350-376, 409-457), except of a file replaced and
\* grown past the offset between two reads, which line 140 cannot see.
CacheIsReplay ==
  \A f \in Session \ replaced :
    cache[f] # NoEntry =>
      /\ cache[f].offset <= Len(log[f])
      /\ \A k \in Date \X ModelKey :
           cache[f].days[k] = SaidFirst(f, cache[f].offset, k)

\* A report counts at least what the logs it tracks said when it looked for them,
\* with what had been read of the others, and at most what all logs say now,
\* although other snapshots drop entries and sessions write and end meanwhile
\* (local_codex.rs:113-147, 206-227).
ReportIsFresh ==
  \A t \in Snapshot :
    /\ snap[t].at = "reading" /\ snap[t].todo = {} /\ snap[t].date = current
    /\ replaced = {}
    => \A k \in (Date \cap (snap[t].date - ReportDays)..snap[t].date) \X ModelKey :
         LET given == DailyUsage(snap[t].date)[k] IN
         /\ given >= SumFunctionOnSet([f \in Session |-> SaidFirst(f, snap[t].from[f], k)], Session)
         /\ given <= SumFunctionOnSet([f \in Session |-> Said(Complete(log[f]), k)], Session)
=============================================================================
