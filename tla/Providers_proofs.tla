-------------------------- MODULE Providers_proofs --------------------------
(***************************************************************************)
(* Proofs about the adapters: AdminPull, RelayPull, AppServer and          *)
(* KimiLogin, for any values of their constants.                           *)
(***************************************************************************)
EXTENDS AdminPull, RelayPull, AppServer, KimiLogin, FiniteSetTheorems, FoldTheorems, TLAPS

-----------------------------------------------------------------------------
(***************************************************************************)
(* Proofs about AdminPull for any overlap, page size and number of days.   *)
(*                                                                         *)
(* The cursor is the day a pull began, the pull fetched every day from its *)
(* start to that day, and its start is not after the cursor before: every  *)
(* day before the cursor was fetched after it had ended.                   *)
(***************************************************************************)

PullTypeOK ==
  /\ today \in Nat /\ today <= LastDay
  /\ cursor # NoCursor => cursor \in Nat /\ cursor <= today
  /\ covered = [r \in Report |-> [d \in PullDay |-> covered[r][d]]]
  /\ pull = [at |-> pull.at, now |-> pull.now, start |-> pull.start, next |-> pull.next,
             pages |-> pull.pages, batch |-> [r \in Report |-> pull.batch[r]]]
  /\ pull.at \in {"idle", "usage", "costs", "probe", "commit"}
  /\ pull.now \in Nat /\ pull.now <= today
  /\ pull.start \in Int /\ pull.next \in Int /\ pull.pages \in Nat

\* The days from the start up to, not with, this one have been fetched.
Fetched(r, day) ==
  \A d \in 0..pull.now : pull.start <= d /\ d < day => d \in DOMAIN pull.batch[r]

UnderWay ==
  /\ pull.at # "idle" => pull.start = PullStart(cursor, pull.now)
  /\ \A r \in Report : \A d \in DOMAIN pull.batch[r] : d \in Int /\ pull.start <= d
  /\ pull.at \in Report =>
       pull.next = pull.start + pull.pages * PageDays /\ pull.pages < PageCap
  /\ pull.at = "usage" => Fetched("usage", pull.next)
  /\ pull.at = "costs" => Fetched("costs", pull.next)
  /\ pull.at \in {"costs", "probe", "commit"} => Fetched("usage", pull.now + 1)
  /\ pull.at \in {"probe", "commit"} => Fetched("costs", pull.now + 1)

\* What a day before the cursor has seen
Settled(r, d) ==
  \/ covered[r][d] # NoCursor /\ covered[r][d] > d
  \/ \A e \in 0..d : covered[r][e] = NoCursor

BeforeCursor ==
  /\ cursor = NoCursor => \A r \in Report, d \in PullDay : covered[r][d] = NoCursor
  /\ cursor # NoCursor => \A r \in Report, d \in PullDay : d < cursor => Settled(r, d)

PullInv == PullTypeOK /\ UnderWay /\ BeforeCursor

-----------------------------------------------------------------------------
LEMMA NextPage ==
  ASSUME NEW a \in Nat, NEW b \in Nat
  PROVE  (a + 1) * b = a * b + b
OBVIOUS

LEMMA PageConstants ==
  /\ PageDays \in Nat /\ PageCap \in Nat /\ 0 < PageDays /\ 0 < PageCap
  /\ Overlap \in Nat /\ HistoryDays \in Nat /\ LastDay \in Nat /\ Overlap <= HistoryDays
  /\ PageCap * PageDays > LastDay + HistoryDays /\ NoCursor \notin Int
<1>1. PageDays \in Nat /\ PageCap \in Nat
  BY PullAssumption
<1>2. 0 * PageDays = 0
  BY <1>1
<1>3. PageCap # 0
  BY <1>2, PullAssumption
<1> QED BY <1>1, <1>3, PullAssumption

LEMMA StartBounds ==
  ASSUME NEW now \in Nat, NEW c, c # NoCursor => c \in Nat
  PROVE  /\ PullStart(c, now) \in Int /\ PullStart(c, now) >= 0 - HistoryDays
         /\ c # NoCursor => PullStart(c, now) <= c
<1>1. CASE c = NoCursor
  <2>1. PullStart(c, now) \in {now - HistoryDays, now - Overlap}
    BY <1>1 DEF PullStart, Earlier
  <2> QED BY <1>1, <2>1, PageConstants
<1>2. CASE c # NoCursor
  <2>1. PullStart(c, now) = IF c < now - Overlap THEN c ELSE now - Overlap
    BY <1>2 DEF PullStart, Earlier
  <2> QED BY <1>2, <2>1, PageConstants
<1> QED BY <1>1, <1>2

LEMMA InitPullInv == PullInit => PullInv
<1> SUFFICES ASSUME PullInit PROVE PullInv
  OBVIOUS
<1>1. PullTypeOK
  BY PageConstants DEF PullInit, PullTypeOK, NoPull
<1>2. UnderWay
  BY DEF PullInit, UnderWay, NoPull, Report
<1>3. BeforeCursor
  BY DEF PullInit, BeforeCursor
<1> QED BY <1>1, <1>2, <1>3 DEF PullInv

LEMMA PullBegins ==
  ASSUME PullInv, BeginPull
  PROVE  PullInv'
<1> DEFINE start == PullStart(cursor, today)
<1> USE DEF PullInv
<1>1. /\ pull' = [at |-> "usage", now |-> today, start |-> start, next |-> start, pages |-> 0,
                  batch |-> [r \in Report |-> [d \in {} |-> 0]]]
      /\ UNCHANGED <<today, cursor, covered>>
  BY DEF BeginPull, NoPull
<1>2. start \in Int
  BY StartBounds DEF PullTypeOK
<1> HIDE DEF start
<1>3. PullTypeOK'
  BY <1>1, <1>2 DEF PullTypeOK
<1>4. UnderWay'
  <2>1. start = start + 0 * PageDays
    BY <1>2, PageConstants
  <2>2. Fetched("usage", pull.next)'
    BY <1>1, <1>2 DEF Fetched, PullTypeOK
  <2>3. \A r \in Report : DOMAIN pull'.batch[r] = {}
    BY <1>1
  <2>4. pull'.at = "usage" /\ pull'.pages = 0 /\ pull'.next = start /\ pull'.start = start
        /\ pull'.now = today
    BY <1>1
  <2> QED BY <1>1, <2>1, <2>2, <2>3, <2>4, PageConstants DEF UnderWay, start
<1>5. BeforeCursor'
  BY <1>1 DEF BeforeCursor, Settled
<1> QED BY <1>3, <1>4, <1>5

LEMMA PageFetched ==
  ASSUME PullInv, NEW r \in Report, FetchPage(r)
  PROVE  PullInv'
<1> USE DEF PullInv
<1> DEFINE more == pull.next + PageDays <= today /\ pull.pages + 1 < PageCap
           page == Page(r, pull.next)
<1>1. /\ pull.at = r
      /\ pull' = [pull EXCEPT
           !.batch[r] = AddPage(@, page),
           !.at    = IF more THEN r ELSE IF r = "usage" THEN "costs" ELSE "probe",
           !.next  = IF more THEN @ + PageDays ELSE pull.start,
           !.pages = IF more THEN @ + 1 ELSE 0]
      /\ UNCHANGED <<today, cursor, covered>>
  BY DEF FetchPage
<1>2. DOMAIN page = (pull.next..(pull.next + PageDays - 1)) \cap (0..today)
  BY DEF Page
<1> HIDE DEF page
<1>3. /\ pull'.at = IF more THEN r ELSE IF r = "usage" THEN "costs" ELSE "probe"
      /\ pull'.now = pull.now /\ pull'.start = pull.start
      /\ pull'.next = IF more THEN pull.next + PageDays ELSE pull.start
      /\ pull'.pages = IF more THEN pull.pages + 1 ELSE 0
      /\ DOMAIN pull'.batch[r] = DOMAIN pull.batch[r] \cup DOMAIN page
      /\ \A s \in Report \ {r} : pull'.batch[s] = pull.batch[s]
  BY <1>1 DEF PullTypeOK, AddPage
<1>4. pull' = [at |-> pull'.at, now |-> pull'.now, start |-> pull'.start, next |-> pull'.next,
               pages |-> pull'.pages, batch |-> [s \in Report |-> pull'.batch[s]]]
  <2> DEFINE longer == [s \in Report |-> IF s = r THEN AddPage(pull.batch[r], page)
                                       ELSE pull.batch[s]]
  <2>1. pull.batch = [s \in Report |-> pull.batch[s]]
    BY DEF PullTypeOK
  <2>2. [pull.batch EXCEPT ![r] = AddPage(@, page)] = longer
    BY <2>1
  <2>3. pull' = [pull EXCEPT !.batch = longer, !.at = pull'.at, !.next = pull'.next,
                             !.pages = pull'.pages]
    BY <1>1, <1>3, <2>2
  <2>4. longer = [s \in Report |-> longer[s]]
    OBVIOUS
  <2> HIDE DEF longer
  <2>5. pull' = [at |-> pull'.at, now |-> pull.now, start |-> pull.start, next |-> pull'.next,
                 pages |-> pull'.pages, batch |-> longer]
    BY <2>3 DEF PullTypeOK
  <2>6. pull'.batch = longer
    BY <2>5
  <2> QED BY <1>3, <2>4, <2>5, <2>6
<1>5. PullTypeOK'
  BY <1>1, <1>3, <1>4, PageConstants DEF PullTypeOK, Report
<1>6. /\ pull.next = pull.start + pull.pages * PageDays /\ pull.pages < PageCap
      /\ pull.start = PullStart(cursor, pull.now)
      /\ \A d \in DOMAIN pull.batch[r] : d \in Int /\ pull.start <= d
  BY <1>1 DEF UnderWay, Report
<1>7. pull.pages * PageDays \in Nat
  BY PageConstants DEF PullTypeOK
<1>8. \A s \in Report : \A d \in DOMAIN pull'.batch[s] : d \in Int /\ pull'.start <= d
  <2>1. \A d \in DOMAIN page : d \in Int /\ pull.start <= d
    BY <1>2, <1>6, <1>7, PageConstants DEF PullTypeOK
  <2> QED BY <1>3, <1>6, <2>1 DEF UnderWay
<1>9. Fetched(r, pull.next) /\ (r = "costs" => Fetched("usage", pull.now + 1))
  BY <1>1 DEF UnderWay, Report
<1>10. \A d \in 0..pull.now : pull.start <= d /\ d < pull.next + PageDays =>
         d \in DOMAIN pull'.batch[r]
  BY <1>2, <1>3, <1>9, PageConstants DEF Fetched, PullTypeOK
<1>11. ~more => pull.now < pull.next + PageDays
  <2>1. CASE pull.next + PageDays > today
    BY <2>1, PageConstants DEF PullTypeOK
  <2>2. CASE pull.pages + 1 = PageCap
    <3>1. PageCap * PageDays = pull.pages * PageDays + PageDays
      BY <2>2, NextPage, PageConstants DEF PullTypeOK
    <3>2. pull.start >= 0 - HistoryDays
      BY <1>6, StartBounds DEF PullTypeOK
    <3>3. PageCap * PageDays \in Nat
      BY PageConstants
    <3> QED BY <1>6, <1>7, <3>1, <3>2, <3>3, PageConstants DEF PullTypeOK
  <2>3. ~more => pull.next + PageDays > today \/ pull.pages + 1 = PageCap
    <3>1. pull.pages < PageCap /\ pull.pages \in Nat
      BY <1>6 DEF PullTypeOK
    <3>2. PageCap \in Nat /\ PageDays \in Nat
      BY PageConstants
    <3>3. pull.next \in Int /\ today \in Nat
      BY DEF PullTypeOK
    <3>4. ~(pull.pages + 1 < PageCap) => pull.pages + 1 = PageCap
      BY <3>1, <3>2
    <3>5. ~(pull.next + PageDays <= today) => pull.next + PageDays > today
      BY <3>2, <3>3
    <3> QED BY <3>4, <3>5
  <2> QED BY <2>1, <2>2, <2>3
<1>12. \A s \in Report \ {r} : \A day : Fetched(s, day) => Fetched(s, day)'
  BY <1>3 DEF Fetched
<1>13. UnderWay'
  <2>1. CASE more
    <3>1. pull'.next = pull'.start + pull'.pages * PageDays /\ pull'.pages < PageCap
      BY <1>3, <1>6, <2>1, NextPage, <1>7, PageConstants DEF PullTypeOK
    <3>2. Fetched(r, pull.next)'
      BY <1>3, <1>10, <2>1 DEF Fetched
    <3>3. r = "costs" => Fetched("usage", pull.now + 1)'
      BY <1>3, <1>9, <1>12 DEF Report, Fetched
    <3> QED BY <1>1, <1>3, <1>6, <1>8, <2>1, <3>1, <3>2, <3>3 DEF UnderWay, Report
  <2>2. CASE ~more
    <3>1. pull'.next = pull'.start + pull'.pages * PageDays /\ pull'.pages < PageCap
      BY <1>3, <1>6, <2>2, PageConstants DEF PullTypeOK
    <3>2. Fetched(r, pull.now + 1)'
      BY <1>3, <1>10, <1>11, <2>2, PageConstants DEF Fetched, PullTypeOK
    <3>3. r = "costs" => Fetched("usage", pull.now + 1)'
      BY <1>3, <1>9, <1>12 DEF Report, Fetched
    <3>4. Fetched("costs", pull.start)'
      BY <1>3 DEF Fetched, PullTypeOK
    <3> QED BY <1>1, <1>3, <1>6, <1>8, <2>2, <3>1, <3>2, <3>3, <3>4 DEF UnderWay, Report
  <2> QED BY <2>1, <2>2
<1>14. BeforeCursor'
  BY <1>1 DEF BeforeCursor, Settled
<1> QED BY <1>5, <1>13, <1>14

LEMMA PullCommitted ==
  ASSUME PullInv, CommitPull
  PROVE  PullInv'
<1> USE DEF PullInv
<1>1. /\ pull.at = "commit" /\ cursor' = pull.now /\ pull' = NoPull /\ UNCHANGED today
      /\ covered' = [r \in Report |-> [d \in PullDay |->
           IF d \in DOMAIN pull.batch[r] THEN pull.now ELSE covered[r][d]]]
  BY DEF CommitPull, NextCursor
<1>2. PullTypeOK'
  BY <1>1, PageConstants DEF PullTypeOK, NoPull
<1>3. UnderWay'
  BY <1>1 DEF UnderWay, NoPull, Report
<1>4. /\ pull.start = PullStart(cursor, pull.now)
      /\ \A r \in Report : \A d \in DOMAIN pull.batch[r] : d \in Int /\ pull.start <= d
      /\ \A r \in Report : Fetched(r, pull.now + 1)
  BY <1>1 DEF UnderWay, Report
<1>5. ASSUME NEW r \in Report, NEW d \in PullDay, d < pull.now
      PROVE  Settled(r, d)'
  <2>1. d \in Nat /\ pull.now \in Nat /\ pull.start \in Int /\ 0..d \subseteq PullDay
    BY PageConstants DEF PullDay, PullTypeOK
  <2>2. CASE pull.start <= d
    <3>1. d \in DOMAIN pull.batch[r]
      BY <1>4, <1>5, <2>1, <2>2 DEF Fetched
    <3>2. covered'[r][d] = pull.now
      BY <1>1, <3>1
    <3> QED BY <1>5, <2>1, <3>2, PageConstants DEF Settled
  <2>3. CASE d < pull.start
    <3>1. \A e \in 0..d : covered'[r][e] = covered[r][e]
      BY <1>1, <1>4, <2>1, <2>3
    <3>2. cursor # NoCursor => d < cursor
      BY <1>4, <2>1, <2>3, StartBounds DEF PullTypeOK
    <3>3. cursor = NoCursor => \A e \in 0..d : covered[r][e] = NoCursor
      BY <2>1 DEF BeforeCursor
    <3>4. Settled(r, d)
      BY <3>2, <3>3 DEF BeforeCursor, Settled
    <3>5. covered'[r][d] = covered[r][d]
      BY <2>1, <3>1
    <3> QED BY <3>1, <3>4, <3>5 DEF Settled
  <2> QED BY <2>1, <2>2, <2>3
<1>6. cursor' # NoCursor
  BY <1>1, PageConstants DEF PullTypeOK
<1>7. BeforeCursor'
  BY <1>1, <1>5, <1>6 DEF BeforeCursor
<1> QED BY <1>2, <1>3, <1>7

LEMMA PullStep ==
  ASSUME PullInv, [PullNext]_pullVars
  PROVE  PullInv'
<1>1. CASE BeginPull
  BY <1>1, PullBegins
<1>2. ASSUME NEW r \in Report, FetchPage(r) PROVE PullInv'
  BY <1>2, PageFetched
<1>3. CASE Probe
  <2>1. pull.at = "probe" /\ pull' = [pull EXCEPT !.at = "commit"]
        /\ UNCHANGED <<today, cursor, covered>>
    BY <1>3 DEF Probe
  <2>2. PullTypeOK'
    BY <2>1 DEF PullInv, PullTypeOK
  <2>3. /\ pull'.at = "commit" /\ pull'.now = pull.now /\ pull'.start = pull.start
        /\ pull'.batch = pull.batch
    BY <2>1 DEF PullInv, PullTypeOK
  <2>4. UnderWay'
    BY <2>1, <2>3 DEF PullInv, UnderWay, Fetched, Report
  <2>5. BeforeCursor'
    BY <2>1 DEF PullInv, BeforeCursor, Settled
  <2> QED BY <2>2, <2>4, <2>5 DEF PullInv
<1>4. CASE PullFails
  <2>1. pull' = NoPull /\ UNCHANGED <<today, cursor, covered>>
    BY <1>4 DEF PullFails
  <2>2. PullTypeOK'
    BY <2>1 DEF PullInv, PullTypeOK, NoPull
  <2>3. UnderWay'
    BY <2>1 DEF UnderWay, NoPull, Report
  <2>4. BeforeCursor'
    BY <2>1 DEF PullInv, BeforeCursor, Settled
  <2> QED BY <2>2, <2>3, <2>4 DEF PullInv
<1>5. CASE CommitPull
  BY <1>5, PullCommitted
<1>6. CASE ProviderCounts \/ DayPasses \/ UNCHANGED pullVars
  <2>1. /\ UNCHANGED <<cursor, covered, pull>>
        /\ today' = today \/ (today < LastDay /\ today' = today + 1)
    <3>1. CASE ProviderCounts
      BY <3>1 DEF ProviderCounts
    <3>2. CASE DayPasses
      BY <3>2 DEF DayPasses
    <3>3. CASE UNCHANGED pullVars
      BY <3>3 DEF pullVars
    <3> QED BY <1>6, <3>1, <3>2, <3>3
  <2>2. PullTypeOK'
    BY <2>1, PageConstants DEF PullInv, PullTypeOK
  <2>3. UnderWay' /\ BeforeCursor'
    BY <2>1 DEF PullInv, UnderWay, Fetched, BeforeCursor, Settled
  <2> QED BY <2>2, <2>3 DEF PullInv
<1> QED BY <1>1, <1>2, <1>3, <1>4, <1>5, <1>6 DEF PullNext

-----------------------------------------------------------------------------
(***************************************************************************)
(* For any overlap, page size and run of days: a day the next pull will    *)
(* not fetch any more was fetched by a pull that began after it had ended, *)
(* or is older than all that was ever fetched (platform.rs:127-132, 232).  *)
(***************************************************************************)
THEOREM NoDaySkippedHolds == PullSpec => []NoDaySkipped
<1>1. PullInit => PullInv
  BY InitPullInv
<1>2. PullInv /\ [PullNext]_pullVars => PullInv'
  BY PullStep
<1>3. PullInv => NoDaySkipped
  <2> SUFFICES ASSUME PullInv, NEW r \in Report, NEW d \in PullDay,
                      cursor # NoCursor, d < PullStart(cursor, today)
               PROVE  Settled(r, d)
    BY DEF NoDaySkipped, Settled
  <2>1. d \in Nat /\ cursor \in Nat /\ today \in Nat
    BY PageConstants DEF PullDay, PullInv, PullTypeOK
  <2>2. PullStart(cursor, today) \in Int /\ PullStart(cursor, today) <= cursor
    BY <2>1, StartBounds
  <2>3. d < cursor
    BY <2>1, <2>2
  <2> QED BY <2>3 DEF PullInv, BeforeCursor
<1> QED BY <1>1, <1>2, <1>3, PTL DEF PullSpec

-----------------------------------------------------------------------------
(***************************************************************************)
(* Versions only grow.  What a pull has fetched of a bucket lies between   *)
(* what was stored, or reported when the pull began, and what is reported  *)
(* now; so a commit never puts an older version back.                      *)
(***************************************************************************)
Versions == [Report -> [PullDay -> Nat]]

VersionsOK ==
  /\ reported \in Versions /\ bucket \in Versions /\ begun \in Versions
  /\ \A r \in Report, d \in PullDay : bucket[r][d] <= reported[r][d] /\ begun[r][d] <= reported[r][d]

BatchBetween ==
  \A r \in Report : \A d \in DOMAIN pull.batch[r] :
    /\ d \in PullDay /\ pull.batch[r][d] \in Nat
    /\ bucket[r][d] <= pull.batch[r][d] /\ begun[r][d] <= pull.batch[r][d]
    /\ pull.batch[r][d] <= reported[r][d]

FreshInv == VersionsOK /\ BatchBetween

\* A page brings what was reported when the pull began, or newer.
LEMMA FreshPage ==
  ASSUME PullInv, FreshInv, NEW r \in Report, FetchPage(r)
  PROVE  FreshInv'
<1> DEFINE page == Page(r, pull.next)
<1>1. /\ UNCHANGED <<today, reported, bucket, begun>>
      /\ pull'.batch = [pull.batch EXCEPT ![r] = AddPage(@, page)]
  BY DEF FetchPage, PullInv, PullTypeOK
<1>2. VersionsOK'
  BY <1>1 DEF FreshInv, VersionsOK
<1>3. /\ DOMAIN page = (pull.next..(pull.next + PageDays - 1)) \cap (0..today)
      /\ \A d \in DOMAIN page : page[d] = reported[r][d]
  BY DEF Page
<1>4. \A d \in DOMAIN page : d \in PullDay
  BY <1>3, PageConstants DEF PullDay, PullInv, PullTypeOK
<1> HIDE DEF page
<1> DEFINE new == AddPage(pull.batch[r], page)
<1>5. /\ DOMAIN new = DOMAIN pull.batch[r] \cup DOMAIN page
      /\ \A d \in DOMAIN new : new[d] = IF d \in DOMAIN page THEN page[d] ELSE pull.batch[r][d]
  BY DEF AddPage
<1> HIDE DEF new
<1>6. pull'.batch[r] = new /\ \A s \in Report \ {r} : pull'.batch[s] = pull.batch[s]
  BY <1>1 DEF PullInv, PullTypeOK, new
<1>7. ASSUME NEW d \in DOMAIN new
      PROVE  /\ d \in PullDay /\ new[d] \in Nat /\ bucket[r][d] <= new[d] /\ begun[r][d] <= new[d]
             /\ new[d] <= reported[r][d]
  <2>1. CASE d \in DOMAIN page
    <3>1. d \in PullDay /\ new[d] = reported[r][d]
      BY <1>3, <1>4, <1>5, <2>1
    <3> QED BY <3>1 DEF FreshInv, VersionsOK, Versions
  <2>2. CASE d \notin DOMAIN page
    BY <1>5, <2>2 DEF FreshInv, BatchBetween
  <2> QED BY <2>1, <2>2
<1>8. BatchBetween'
  BY <1>1, <1>6, <1>7 DEF FreshInv, BatchBetween
<1> QED BY <1>2, <1>8 DEF FreshInv

\* A commit puts no older version in place, and brings all its pages hold.
LEMMA FreshCommit ==
  ASSUME FreshInv, CommitPull
  PROVE  /\ FreshInv'
         /\ \A r \in Report, d \in PullDay : bucket[r][d] <= bucket'[r][d]
         /\ \A r \in Report : \A d \in DOMAIN pull.batch[r] : begun[r][d] <= bucket'[r][d]
<1>1. /\ bucket' = [r \in Report |-> [d \in PullDay |->
           IF d \in DOMAIN pull.batch[r] THEN pull.batch[r][d] ELSE bucket[r][d]]]
      /\ pull' = NoPull /\ UNCHANGED <<reported, begun>>
  BY DEF CommitPull
<1>2. /\ bucket \in Versions /\ begun \in Versions /\ reported \in Versions
      /\ \A r \in Report, d \in PullDay :
           bucket[r][d] <= reported[r][d] /\ begun[r][d] <= reported[r][d]
  BY DEF FreshInv, VersionsOK
<1>3. ASSUME NEW r \in Report, NEW d \in PullDay
      PROVE  /\ bucket'[r][d] \in Nat /\ bucket[r][d] <= bucket'[r][d]
             /\ bucket'[r][d] <= reported[r][d]
             /\ d \in DOMAIN pull.batch[r] => begun[r][d] <= bucket'[r][d]
  <2>1. bucket'[r][d] = IF d \in DOMAIN pull.batch[r] THEN pull.batch[r][d] ELSE bucket[r][d]
    BY <1>1
  <2>2. bucket[r][d] \in Nat /\ bucket[r][d] <= bucket[r][d] /\ bucket[r][d] <= reported[r][d]
    BY <1>2 DEF Versions
  <2> QED BY <2>1, <2>2 DEF FreshInv, BatchBetween
<1>4. bucket' \in Versions
  BY <1>1, <1>3 DEF Versions
<1>5. VersionsOK'
  BY <1>1, <1>2, <1>3, <1>4 DEF VersionsOK
<1>6. BatchBetween'
  BY <1>1 DEF BatchBetween, NoPull
<1>7. \A r \in Report : \A d \in DOMAIN pull.batch[r] : begun[r][d] <= bucket'[r][d]
  BY <1>3 DEF FreshInv, BatchBetween
<1> QED BY <1>3, <1>5, <1>6, <1>7 DEF FreshInv

\* What a pull has fetched stays as new as the report it began with.
LEMMA FreshStep ==
  ASSUME PullInv, FreshInv, [PullNext]_pullVars
  PROVE  FreshInv'
<1>1. CASE BeginPull
  <2>1. pull'.batch = [r \in Report |-> [d \in {} |-> 0]] /\ begun' = reported
        /\ UNCHANGED <<reported, bucket>>
    BY <1>1 DEF BeginPull, NoPull
  <2>2. VersionsOK'
    BY <2>1 DEF FreshInv, VersionsOK, Versions
  <2>3. BatchBetween'
    BY <2>1 DEF BatchBetween
  <2> QED BY <2>2, <2>3 DEF FreshInv
<1>2. ASSUME NEW r \in Report, FetchPage(r) PROVE FreshInv'
  BY <1>2, FreshPage
<1>3. CASE Probe
  <2>1. pull'.batch = pull.batch /\ UNCHANGED <<reported, bucket, begun>>
    BY <1>3 DEF Probe, PullInv, PullTypeOK
  <2> QED BY <2>1 DEF FreshInv, VersionsOK, BatchBetween
<1>4. CASE PullFails
  <2>1. pull' = NoPull /\ UNCHANGED <<reported, bucket, begun>>
    BY <1>4 DEF PullFails
  <2>2. BatchBetween'
    BY <2>1 DEF BatchBetween, NoPull
  <2> QED BY <2>1, <2>2 DEF FreshInv, VersionsOK
<1>5. CASE CommitPull
  BY <1>5, FreshCommit
<1>6. CASE ProviderCounts
  <2>1. PICK r \in Report, d \in 0..today :
          /\ reported' = [reported EXCEPT ![r][d] = @ + 1]
          /\ UNCHANGED <<bucket, pull, begun>>
    BY <1>6 DEF ProviderCounts
  <2>2. d \in PullDay
    BY PageConstants DEF PullDay, PullInv, PullTypeOK
  <2>3. reported \in Versions /\ bucket \in Versions /\ begun \in Versions
    BY DEF FreshInv, VersionsOK
  <2>4. reported' = [reported EXCEPT ![r] = [reported[r] EXCEPT ![d] = reported[r][d] + 1]]
    BY <2>1
  <2>5. reported' \in Versions
    <3>1. [reported[r] EXCEPT ![d] = reported[r][d] + 1] \in [PullDay -> Nat]
      BY <2>2, <2>3 DEF Versions
    <3> QED BY <2>3, <2>4, <3>1 DEF Versions
  <2>6. \A s \in Report, e \in PullDay : reported[s][e] <= reported'[s][e]
    BY <2>2, <2>3, <2>4 DEF Versions
  <2>7. \A s \in Report, e \in PullDay :
          reported[s][e] \in Nat /\ reported'[s][e] \in Nat /\ bucket[s][e] \in Nat /\ begun[s][e] \in Nat
    BY <2>3, <2>5 DEF Versions
  <2>8. VersionsOK'
    BY <2>1, <2>3, <2>5, <2>6, <2>7 DEF FreshInv, VersionsOK
  <2>9. BatchBetween'
    BY <2>1, <2>6, <2>7 DEF FreshInv, BatchBetween
  <2> QED BY <2>8, <2>9 DEF FreshInv
<1>7. CASE DayPasses \/ UNCHANGED pullVars
  <2>1. UNCHANGED <<reported, bucket, pull, begun>>
    BY <1>7 DEF DayPasses, pullVars
  <2> QED BY <2>1 DEF FreshInv, VersionsOK, BatchBetween
<1> QED BY <1>1, <1>2, <1>3, <1>4, <1>5, <1>6, <1>7 DEF PullNext

\* A pull starts at the overlap or before it.
LEMMA StartBeforeOverlap ==
  ASSUME NEW now \in Nat, NEW c, c # NoCursor => c \in Nat
  PROVE  PullStart(c, now) <= now - Overlap
<1>1. CASE c = NoCursor
  BY <1>1, PageConstants DEF PullStart, Earlier
<1>2. CASE c # NoCursor
  BY <1>2, PageConstants DEF PullStart, Earlier
<1> QED BY <1>1, <1>2

(***************************************************************************)
(* For any overlap, page size and run of days: a pull brings what the      *)
(* provider reported when it began, or newer, for every day of the overlap *)
(* and every day from the cursor on, and puts no older version back        *)
(* (platform.rs:132-134, storage lib.rs:1099).                             *)
(***************************************************************************)
THEOREM PullIsFreshHolds == PullSpec => PullIsFresh
<1> DEFINE Fresh == CommitPull => \A r \in Report, d \in PullDay :
             /\ bucket'[r][d] >= bucket[r][d]
             /\ (d \in 0..pull.now /\ (d >= pull.now - Overlap \/ (cursor # NoCursor /\ d >= cursor)))
                  => bucket'[r][d] >= begun[r][d]
<1>1. PullInit => PullInv /\ FreshInv
  <2>1. ASSUME PullInit PROVE FreshInv
    <3>1. /\ reported = [r \in Report |-> [d \in PullDay |-> 0]] /\ bucket = reported
          /\ begun = reported /\ pull.batch = [r \in Report |-> [d \in {} |-> 0]]
      BY <2>1 DEF PullInit, NoPull
    <3>2. VersionsOK
      BY <3>1 DEF VersionsOK, Versions
    <3>3. BatchBetween
      BY <3>1 DEF BatchBetween
    <3> QED BY <3>2, <3>3 DEF FreshInv
  <2> QED BY <2>1, InitPullInv
<1>2. PullInv /\ FreshInv /\ [PullNext]_pullVars => (PullInv /\ FreshInv)'
  BY PullStep, FreshStep
<1>3. PullInv /\ FreshInv /\ [PullNext]_pullVars => [Fresh]_pullVars
  <2> SUFFICES ASSUME PullInv, FreshInv, CommitPull, NEW r \in Report, NEW d \in PullDay
               PROVE  /\ bucket'[r][d] >= bucket[r][d]
                      /\ (d \in 0..pull.now /\ (d >= pull.now - Overlap \/ (cursor # NoCursor /\ d >= cursor)))
                           => bucket'[r][d] >= begun[r][d]
    OBVIOUS
  <2>1. /\ bucket'[r][d] \in Nat /\ bucket[r][d] \in Nat /\ begun[r][d] \in Nat
        /\ bucket[r][d] <= bucket'[r][d]
    <3>1. bucket' \in Versions /\ bucket \in Versions /\ begun \in Versions
      BY FreshCommit DEF FreshInv, VersionsOK
    <3>2. bucket[r][d] <= bucket'[r][d]
      BY FreshCommit
    <3> QED BY <3>1, <3>2 DEF Versions
  <2>2. ASSUME d \in 0..pull.now, d >= pull.now - Overlap \/ (cursor # NoCursor /\ d >= cursor)
        PROVE  begun[r][d] <= bucket'[r][d]
    <3>1. pull.at = "commit" /\ pull.start = PullStart(cursor, pull.now)
      BY DEF CommitPull, PullInv, UnderWay
    <3>2. /\ pull.now \in Nat /\ (cursor # NoCursor => cursor \in Nat)
          /\ pull.start \in Int /\ Overlap \in Nat
      BY PageConstants DEF PullInv, PullTypeOK
    <3>3. pull.start <= pull.now - Overlap /\ (cursor # NoCursor => pull.start <= cursor)
      BY <3>1, <3>2, StartBounds, StartBeforeOverlap
    <3>4. pull.start <= d /\ d < pull.now + 1
      <4>1. d \in Int /\ d <= pull.now
        BY <2>2, <3>2
      <4>2. CASE d >= pull.now - Overlap
        BY <3>2, <3>3, <4>1, <4>2
      <4>3. CASE cursor # NoCursor /\ d >= cursor
        BY <3>2, <3>3, <4>1, <4>3
      <4> QED BY <2>2, <4>2, <4>3
    <3>5. Fetched(r, pull.now + 1)
      BY <3>1 DEF PullInv, UnderWay, Report
    <3>6. d \in DOMAIN pull.batch[r]
      BY <2>2, <3>4, <3>5 DEF Fetched
    <3> QED BY <3>6, FreshCommit
  <2> QED BY <2>1, <2>2
<1>4. PullSpec => [][Fresh]_pullVars
  BY <1>1, <1>2, <1>3, PTL DEF PullSpec
<1> QED BY <1>4 DEF PullIsFresh

-----------------------------------------------------------------------------
(***************************************************************************)
(* RelayPull. A row's key is the request's identifier, or the fingerprint  *)
(* of its fields; the adapter collects distinct keys and the store         *)
(* replaces a row of the same key, so a request is in at most one row, and *)
(* an identified one in a row of its own.                                  *)
(***************************************************************************)

Requests == [ident : Ident \cup {NoIdent}, shape : Shape, kind : {"use", "top-up", "bad"}]
Uses     == {i \in DOMAIN served : served[i].kind = "use"}
Named(i) == served[i].ident # NoIdent

ListsOK ==
  /\ served \in Seq(Requests) /\ batch \subseteq Uses /\ seen \subseteq Uses
  /\ profile # "new_api" /\ profile # "openrouter" => served = <<>>
  /\ profile = "openrouter" => \A i \in DOMAIN served : ~Named(i) /\ served[i].kind = "use"
  /\ profile = "openrouter" /\ fetch = "read" => seen \subseteq batch
  /\ \A i, j \in DOMAIN served : Named(i) /\ served[i].ident = served[j].ident => i = j

RowsOK ==
  /\ \A k \in PullKey : IsInjective(ledger[k]) /\ \A i \in ToSet(ledger[k]) : i \in seen /\ KeyOf(i) = k
  /\ \A i \in seen : Named(i) \/ profile = "openrouter" => i \in ToSet(ledger[KeyOf(i)])
  /\ profile # "openrouter" => \A k \in PullKey : Len(ledger[k]) <= 1

RelayInv == ListsOK /\ RowsOK

\* A row is kept under an identifier or a fingerprint.
LEMMA KeysOK ==
  ASSUME served \in Seq(Requests), NEW i \in DOMAIN served
  PROVE  KeyOf(i) \in PullKey
<1>1. served[i] \in Requests
  OBVIOUS
<1> QED BY <1>1 DEF KeyOf, PullKey, Requests

\* A request with an identifier shares its key with no other.
LEMMA NamedKeys ==
  ASSUME ListsOK, NEW i \in DOMAIN served, Named(i), NEW j \in DOMAIN served, KeyOf(i) = KeyOf(j)
  PROVE  i = j
<1>1. served[i] \in Requests /\ served[j] \in Requests
  BY DEF ListsOK
<1>2. served[i].ident \in Ident /\ KeyOf(i) = served[i].ident
  BY <1>1 DEF Requests, Named, KeyOf
<1>3. CASE Named(j)
  <2>1. KeyOf(j) = served[j].ident
    BY <1>3 DEF Named, KeyOf
  <2> QED BY <1>2, <2>1 DEF ListsOK
<1>4. CASE ~Named(j)
  <2>1. KeyOf(j) = served[j].shape /\ served[j].shape \in Shape
    BY <1>1, <1>4 DEF Named, KeyOf, Requests
  <2> QED BY <1>2, <2>1, RelayAssumption
<1> QED BY <1>3, <1>4

\* A request served after others leaves them as they were.
LEMMA ServedMore ==
  ASSUME ListsOK, RowsOK, Serve
  PROVE  ListsOK' /\ RowsOK'
<1>1. PICK r \in Requests :
        /\ served' = Append(served, r) /\ (profile = "new_api" \/ profile = "openrouter")
        /\ r.ident # NoIdent => \A i \in DOMAIN served : served[i].ident # r.ident
        /\ profile = "openrouter" => r.ident = NoIdent /\ r.kind = "use"
  <2>1. PICK ident \in Ident \cup {NoIdent}, shape \in Shape, kind \in {"use", "top-up", "bad"} :
          /\ profile \in {"new_api", "openrouter"} /\ Len(served) < MaxUses
          /\ ident # NoIdent => \A i \in DOMAIN served : served[i].ident # ident
          /\ profile = "openrouter" => ident = NoIdent /\ kind = "use"
          /\ served' = Append(served, [ident |-> ident, shape |-> shape, kind |-> kind])
    BY DEF Serve
  <2>2. [ident |-> ident, shape |-> shape, kind |-> kind] \in Requests
    BY DEF Requests
  <2> QED BY <2>1, <2>2
<1>2. UNCHANGED <<profile, fetch, batch, ledger, seen>>
  BY DEF Serve
<1>3. served \in Seq(Requests)
  BY DEF ListsOK
<1>4. /\ served' \in Seq(Requests) /\ DOMAIN served' = DOMAIN served \cup {Len(served) + 1}
      /\ served'[Len(served) + 1] = r /\ Len(served) + 1 \notin DOMAIN served
      /\ \A i \in DOMAIN served : served'[i] = served[i]
  BY <1>1, <1>3
<1> DEFINE last == Len(served) + 1
<1>5. /\ served' \in Seq(Requests) /\ DOMAIN served' = DOMAIN served \cup {last}
      /\ served'[last] = r /\ \A i \in DOMAIN served : served'[i] = served[i]
  BY <1>4
<1> HIDE DEF last
<1>6. /\ \A i \in DOMAIN served : (Named(i)' <=> Named(i)) /\ KeyOf(i)' = KeyOf(i)
      /\ Uses \subseteq Uses'
  BY <1>5 DEF Named, KeyOf, Uses
<1>7. ListsOK'
  <2>1. \A i, j \in DOMAIN served' : Named(i)' /\ served'[i].ident = served'[j].ident => i = j
    BY <1>1, <1>5 DEF ListsOK, Named
  <2>2. profile = "openrouter" => \A i \in DOMAIN served' : ~Named(i)' /\ served'[i].kind = "use"
    BY <1>1, <1>5 DEF ListsOK, Named
  <2> QED BY <1>1, <1>2, <1>5, <1>6, <2>1, <2>2 DEF ListsOK
<1>8. RowsOK'
  <2>1. \A i \in seen : i \in DOMAIN served
    BY DEF ListsOK, Uses
  <2>2. PullKey' = PullKey
    BY DEF PullKey
  <2> QED BY <1>2, <1>6, <2>1, <2>2 DEF RowsOK, ToSet
<1> QED BY <1>7, <1>8

\* A commit adds the requests listed to their rows, once each.
LEMMA RowsCommitted ==
  ASSUME ListsOK, RowsOK, CommitRows
  PROVE  ListsOK' /\ RowsOK'
<1>1. /\ fetch = "read" /\ fetch' = "idle" /\ batch' = {}
      /\ ledger' = Upsert(ledger, batch) /\ seen' = seen \cup batch
      /\ UNCHANGED <<profile, served>>
  BY DEF CommitRows
<1>2. ListsOK'
  BY <1>1 DEF ListsOK, Uses, Named
<1>3. \A i \in seen' : i \in DOMAIN served /\ KeyOf(i) \in PullKey /\ KeyOf(i)' = KeyOf(i)
                       /\ (Named(i)' <=> Named(i))
  <2>1. seen' \subseteq DOMAIN served /\ served \in Seq(Requests)
    BY <1>1 DEF ListsOK, Uses
  <2>2. \A i \in DOMAIN served : KeyOf(i) \in PullKey
    BY <2>1, KeysOK
  <2> QED BY <1>1, <2>1, <2>2 DEF KeyOf, Named
<1>4. ASSUME NEW k \in PullKey
      PROVE  /\ IsInjective(ledger'[k]) /\ \A i \in ToSet(ledger'[k]) : i \in seen' /\ KeyOf(i) = k
             /\ profile # "openrouter" => Len(ledger'[k]) <= 1
             /\ profile = "openrouter" => \A i \in batch : KeyOf(i) = k => i \in ToSet(ledger'[k])
             /\ \A i \in seen' : Named(i) /\ KeyOf(i) = k => i \in ToSet(ledger'[k])
  <2> DEFINE rows == Mine(k, batch)
  <2>1. ledger'[k] = IF rows = {} THEN ledger[k]
                     ELSE IF profile = "openrouter" THEN SetToSeq(rows)
                     ELSE <<CHOOSE i \in rows : TRUE>>
    BY <1>1 DEF Upsert
  <2>2. \A i : i \in rows <=> i \in batch /\ KeyOf(i) = k
    BY DEF Mine
  <2>3. IsFiniteSet(rows)
    <3>1. served \in Seq(Requests) /\ rows \subseteq DOMAIN served
      BY <2>2 DEF ListsOK, Uses
    <3>2. DOMAIN served = 1..Len(served) /\ Len(served) \in Nat
      BY <3>1
    <3>3. IsFiniteSet(DOMAIN served)
      BY <3>2, FS_Interval
    <3> QED BY <3>1, <3>3, FS_Subset
  <2> HIDE DEF rows
  <2>4. CASE rows = {}
    <3>1. ledger'[k] = ledger[k]
      BY <2>1, <2>4
    <3>2. \A i \in batch : KeyOf(i) # k
      BY <2>2, <2>4
    <3>3. \A i \in seen : Named(i) /\ KeyOf(i) = k => i \in ToSet(ledger[k])
      BY DEF RowsOK
    <3> QED BY <1>1, <3>1, <3>2, <3>3 DEF RowsOK
  <2>5. CASE rows # {} /\ profile = "openrouter"
    <3>1. IsInjective(ledger'[k]) /\ ToSet(ledger'[k]) = rows
      BY <2>1, <2>3, <2>5, SetToSeqIsAll
    <3>2. \A i \in seen' : ~Named(i)
      BY <1>3, <2>5 DEF ListsOK
    <3> QED BY <1>1, <2>2, <2>5, <3>1, <3>2
  <2>6. CASE rows # {} /\ profile # "openrouter"
    <3> DEFINE c == CHOOSE i \in rows : TRUE
    <3>1. ledger'[k] = <<c>> /\ c \in rows
      BY <2>1, <2>6
    <3> HIDE DEF c
    <3>2. Len(<<c>>) = 1 /\ ToSet(<<c>>) = {c} /\ IsInjective(<<c>>)
      BY DEF ToSet, IsInjective
    <3>3. c \in batch /\ KeyOf(c) = k /\ c \in seen' /\ c \in DOMAIN served
      BY <1>1, <1>3, <2>2, <3>1
    <3>4. \A i \in seen' : Named(i) /\ KeyOf(i) = k => i = c
      BY <1>3, <3>3, NamedKeys
    <3> QED BY <2>6, <3>1, <3>2, <3>3, <3>4
  <2> QED BY <2>4, <2>5, <2>6
<1>5. profile = "openrouter" => seen' = batch
  BY <1>1 DEF ListsOK
<1>6. RowsOK'
  <2>1. \A k \in PullKey : IsInjective(ledger'[k]) /\ \A i \in ToSet(ledger'[k]) : i \in seen' /\ KeyOf(i)' = k
    BY <1>3, <1>4
  <2>2. \A i \in seen' : Named(i)' \/ profile' = "openrouter" => i \in ToSet(ledger'[KeyOf(i)'])
    BY <1>1, <1>3, <1>4, <1>5
  <2>3. profile' # "openrouter" => \A k \in PullKey : Len(ledger'[k]) <= 1
    BY <1>1, <1>4
  <2> QED BY <2>1, <2>2, <2>3 DEF RowsOK, PullKey, ToSet
<1> QED BY <1>2, <1>6

(***************************************************************************)
(* For any requests, identified or not, and any pulls that fail, overlap   *)
(* or come again: a request listed is counted, once, under its own key;    *)
(* requests that nothing tells apart share one row (provider-relay         *)
(* lib.rs:218-232, 256-268, 453-475).                                      *)
(***************************************************************************)
THEOREM CountsEachOnceHolds == RelaySpec => []CountsEachOnce
<1>1. RelayInit => RelayInv
  <2> SUFFICES ASSUME RelayInit PROVE RelayInv
    OBVIOUS
  <2>1. /\ profile = "none" /\ served = <<>> /\ batch = {} /\ seen = {}
        /\ \A k \in PullKey : ledger[k] = <<>>
    BY DEF RelayInit
  <2>2. ListsOK
    BY <2>1 DEF ListsOK, Uses
  <2>3. IsInjective(<<>>) /\ ToSet(<<>>) = {}
    BY DEF IsInjective, ToSet
  <2>4. RowsOK
    BY <2>1, <2>3 DEF RowsOK
  <2> QED BY <2>2, <2>4 DEF RelayInv
<1>2. RelayInv /\ [RelayNext]_relayVars => RelayInv'
  <2> SUFFICES ASSUME ListsOK, RowsOK, [RelayNext]_relayVars PROVE RelayInv'
    BY DEF RelayInv
  <2>0. ASSUME UNCHANGED <<served, ledger, seen>>
        PROVE  /\ Uses' = Uses /\ PullKey' = PullKey /\ DOMAIN served' = DOMAIN served
               /\ \A i : (Named(i)' <=> Named(i)) /\ KeyOf(i)' = KeyOf(i)
               /\ profile' = profile => RowsOK'
    BY <2>0 DEF Uses, PullKey, Named, KeyOf, RowsOK, ToSet
  <2>1. CASE Connect
    <3>1. profile = "none" /\ UNCHANGED <<served, fetch, batch, ledger, seen>>
      BY <2>1 DEF Connect
    <3>2. served = <<>> /\ seen = {} /\ batch = {}
      BY <3>1 DEF ListsOK, Uses
    <3>3. ListsOK'
      BY <2>0, <3>1, <3>2 DEF ListsOK
    <3>4. \A k \in PullKey : Len(ledger[k]) <= 1
      BY <3>1 DEF RowsOK
    <3>5. RowsOK'
      BY <2>0, <3>1, <3>2, <3>4 DEF RowsOK
    <3> QED BY <3>3, <3>5 DEF RelayInv
  <2>2. CASE Serve
    BY <2>2, ServedMore DEF RelayInv
  <2>3. CASE ReadList
    <3>1. /\ Decodes(List) /\ batch' = Events(List) /\ UNCHANGED <<profile, served, ledger, seen>>
      BY <2>3 DEF ReadList
    <3>2. List \subseteq DOMAIN served /\ (profile = "openrouter" => List = DOMAIN served)
      BY DEF List
    <3>3. batch' \subseteq Uses
      <4>1. \A i \in Events(List) : i \in List /\ served[i].kind # "top-up" /\ served[i].kind # "bad"
        BY <3>1 DEF Events, Decodes
      <4>2. \A i \in DOMAIN served : served[i].kind \in {"use", "top-up", "bad"}
        <5>1. \A i \in DOMAIN served : served[i] \in Requests
          BY DEF ListsOK
        <5> QED BY <5>1 DEF Requests
      <4> QED BY <3>1, <3>2, <4>1, <4>2 DEF Uses
    <3>4. profile = "openrouter" => seen \subseteq batch'
      <4>1. \A i \in seen : i \in DOMAIN served /\ served[i].kind = "use"
        BY DEF ListsOK, Uses
      <4> QED BY <3>1, <3>2, <4>1 DEF Events
    <3>5. ListsOK'
      BY <2>0, <3>1, <3>3, <3>4 DEF ListsOK
    <3> QED BY <2>0, <3>1, <3>5 DEF RelayInv
  <2>4. CASE CommitRows
    BY <2>4, RowsCommitted DEF RelayInv
  <2>5. CASE AskUsage \/ PullNothing \/ FetchFails
    <3>1. /\ UNCHANGED <<profile, served, ledger, seen>>
          /\ \/ batch' = batch /\ fetch' = "asked"
             \/ batch' = {} /\ profile = "generic"
             \/ batch' = {} /\ fetch' = "idle"
      BY <2>5 DEF AskUsage, PullNothing, FetchFails
    <3>2. profile = "generic" => seen = {}
      BY DEF ListsOK, Uses
    <3>3. ListsOK'
      BY <2>0, <3>1, <3>2 DEF ListsOK
    <3> QED BY <2>0, <3>1, <3>3 DEF RelayInv
  <2>6. CASE UNCHANGED relayVars
    <3>1. UNCHANGED <<profile, served, fetch, batch, ledger, seen>>
      BY <2>6 DEF relayVars
    <3>2. ListsOK'
      BY <2>0, <3>1 DEF ListsOK
    <3> QED BY <2>0, <3>1, <3>2 DEF RelayInv
  <2> QED BY <2>1, <2>2, <2>3, <2>4, <2>5, <2>6 DEF RelayNext
<1>3. RelayInv => CountsEachOnce
  <2> SUFFICES ASSUME ListsOK, RowsOK PROVE CountsEachOnce
    BY DEF RelayInv
  <2>1. \A k, l \in PullKey : k # l => ToSet(ledger[k]) \cap ToSet(ledger[l]) = {}
    BY DEF RowsOK
  <2>2. \A i \in seen : i \in DOMAIN served /\ served[i].kind = "use" /\ KeyOf(i) \in PullKey
    <3>1. served \in Seq(Requests) /\ seen \subseteq Uses
      BY DEF ListsOK
    <3> QED BY <3>1, KeysOK DEF Uses
  <2>3. \A i \in seen : served[i].ident # NoIdent \/ profile = "openrouter" => i \in Counted
    BY <2>2 DEF RowsOK, Counted, Named
  <2>4. \A i \in Counted : i \in seen
    BY DEF RowsOK, Counted
  <2> QED BY <2>1, <2>2, <2>3, <2>4 DEF CountsEachOnce, RowsOK
<1> QED BY <1>1, <1>2, <1>3, PTL DEF RelaySpec

-----------------------------------------------------------------------------
(***************************************************************************)
(* Proofs about AppServer for any amount of noise.                         *)
(*                                                                         *)
(* While a request is read its answer is still to come, and the answer to  *)
(* the start of a login comes before the notification that it has ended:   *)
(* what is passed over on the way to the answer is not that notification.  *)
(***************************************************************************)

Client  == {"asks", "reads", "challenged", "waits", "done", "failed"}
Method  == {Asked(f)[n] : f \in Flow, n \in Nat}
Request == [id : Nat, of : Method]
Line    == [kind : {"answer", "note", "garbage"}, id : Nat,
            of : Method \cup {"success", "failure", "other", "none"}]

AppTypeOK ==
  /\ flow \in Flow /\ client \in Client /\ id \in Nat
  /\ inbox \in Seq(Request) /\ pipe \in Seq(Line) /\ got \in Seq(Method \cup {"failed"})
  /\ user \in {"none", "success", "failure"}

\* Requests and answers are those of this conversation.
Answering ==
  /\ \A i \in DOMAIN inbox : inbox[i].of = Asked(flow)[inbox[i].id]
  /\ \A i \in DOMAIN pipe :
       pipe[i].kind = "answer" => pipe[i].of = Asked(flow)[pipe[i].id]

\* A list of the answers taken, one for each request
Taken ==
  /\ Len(got) = IF client = "reads" THEN id - 1 ELSE id
  /\ \A n \in DOMAIN got : got[n] \in {Asked(flow)[n], "failed"}

\* The answer that is read for is in the pipe, or the request not answered.
AnswerComes ==
  client = "reads" => \/ \E i \in DOMAIN inbox : inbox[i].id = id
                      \/ \E i \in DOMAIN pipe : pipe[i].kind = "answer" /\ pipe[i].id = id

\* The login: its challenge, and its end.
Stages ==
  /\ client \in {"challenged", "waits"} => flow = "login" /\ id = 2
  /\ user # "none" => flow = "login" /\ id >= 2
  /\ \A i \in DOMAIN pipe : pipe[i] = Note("success") => user = "success"
  /\ flow = "login" /\ client = "asks" /\ id = 2 => user = "success"
  /\ flow = "login" /\ id > 2 => user = "success"
  /\ flow = "login" /\ client = "done" => id > 2

EndFollows ==
  /\ client = "reads" /\ id = 2 /\ user # "none" =>
       \E i, j \in DOMAIN pipe : /\ i < j /\ pipe[i].kind = "answer" /\ pipe[i].id = 2
                                 /\ pipe[j] = Note(user)
  /\ client \in {"challenged", "waits"} /\ user # "none" =>
       \E j \in DOMAIN pipe : pipe[j] = Note(user)

AppInv == AppTypeOK /\ Answering /\ Taken /\ AnswerComes /\ Stages /\ EndFollows

-----------------------------------------------------------------------------
LEMMA Empty ==
  ASSUME NEW S
  PROVE  <<>> \in Seq(S) /\ Len(<<>>) = 0 /\ DOMAIN <<>> = {}
<1>1. <<>> \in Seq(S)
  OBVIOUS
<1>2. Len(<<>>) = 0
  OBVIOUS
<1>3. DOMAIN <<>> = {}
  OBVIOUS
<1> QED BY <1>1, <1>2, <1>3

LEMMA Joined ==
  ASSUME NEW S, NEW s \in Seq(S), NEW t \in Seq(S)
  PROVE  Len(s \o t) = Len(s) + Len(t)
OBVIOUS

LEMMA LoginAsks == Len(Must("login")) = 3 /\ Len(Asked("login")) = 3
<1> DEFINE S == {"initialize", "login/start", "account/read"}
<1>1. Must("login") = <<"initialize", "login/start", "account/read">>
  BY DEF Must
<1>2. \A a, b, c \in S : <<a, b, c>> \in Seq(S)
  OBVIOUS
<1>3. Must("login") \in Seq(S)
  BY <1>1, <1>2
<1>4. Len(Must("login")) = 3
  BY <1>1
<1>5. May("login") = <<>>
  BY DEF May
<1>6. May("login") \in Seq(S) /\ Len(May("login")) = 0
  BY <1>5, Empty
<1>7. Len(Must("login") \o May("login")) = 3 + 0
  BY <1>3, <1>4, <1>6, Joined
<1> QED BY <1>4, <1>7 DEF Asked

\* What Append and Tail do to what is in a sequence.
LEMMA Appended ==
  ASSUME NEW S, NEW s \in Seq(S), NEW x \in S
  PROVE  /\ Append(s, x) \in Seq(S) /\ Len(Append(s, x)) = Len(s) + 1
         /\ DOMAIN Append(s, x) = DOMAIN s \cup {Len(s) + 1}
         /\ Append(s, x)[Len(s) + 1] = x
         /\ \A i \in DOMAIN s : Append(s, x)[i] = s[i] /\ i < Len(s) + 1
OBVIOUS

LEMMA Shortened ==
  ASSUME NEW S, NEW s \in Seq(S), s # <<>>
  PROVE  /\ Tail(s) \in Seq(S) /\ Head(s) = s[1] /\ 1 \in DOMAIN s /\ Head(s) \in S
         /\ \A i \in DOMAIN Tail(s) : i + 1 \in DOMAIN s /\ Tail(s)[i] = s[i + 1]
         /\ \A i \in DOMAIN s : i # 1 => i - 1 \in DOMAIN Tail(s) /\ Tail(s)[i - 1] = s[i]
         /\ \A i \in DOMAIN s : i \in Nat /\ i >= 1
OBVIOUS

LEMMA InitAppInv == AppInit => AppInv
<1> SUFFICES ASSUME AppInit PROVE AppInv
  OBVIOUS
<1>1. /\ inbox = <<>> /\ pipe = <<>> /\ got = <<>> /\ client = "asks" /\ id = 0
      /\ user = "none" /\ flow \in Flow
  BY DEF AppInit
<1>2. AppTypeOK
  BY <1>1, Empty DEF AppTypeOK, Client
<1>3. Len(got) = 0 /\ DOMAIN got = {} /\ DOMAIN inbox = {} /\ DOMAIN pipe = {}
  BY <1>1, Empty
<1> QED BY <1>1, <1>2, <1>3 DEF AppInv, Answering, Taken, AnswerComes, Stages, EndFollows

-----------------------------------------------------------------------------
(* A line is read: the stream loses its first line.                        *)

Reads ==
  /\ pipe # <<>> /\ pipe' = Tail(pipe) /\ UNCHANGED <<flow, id, inbox, user>>

LEMMA LineRead ==
  ASSUME AppInv, Reads
  PROVE  /\ pipe' \in Seq(Line) /\ 1 \in DOMAIN pipe /\ NextLine = pipe[1]
         /\ \A i \in DOMAIN pipe' : i + 1 \in DOMAIN pipe /\ pipe'[i] = pipe[i + 1]
         /\ \A i \in DOMAIN pipe : i \in Nat /\ i >= 1
         /\ \A i \in DOMAIN pipe : i # 1 => i - 1 \in DOMAIN pipe' /\ pipe'[i - 1] = pipe[i]
         /\ Answering'
         /\ \A i \in DOMAIN pipe' : pipe'[i] = Note("success") => user = "success"
<1>1. /\ pipe' \in Seq(Line) /\ 1 \in DOMAIN pipe /\ NextLine = pipe[1]
      /\ \A i \in DOMAIN pipe' : i + 1 \in DOMAIN pipe /\ pipe'[i] = pipe[i + 1]
      /\ \A i \in DOMAIN pipe : i # 1 => i - 1 \in DOMAIN pipe' /\ pipe'[i - 1] = pipe[i]
      /\ \A i \in DOMAIN pipe : i \in Nat /\ i >= 1
  BY Shortened DEF AppInv, AppTypeOK, Reads, NextLine
<1>2. Answering'
  BY <1>1 DEF AppInv, Answering, Reads
<1>3. \A i \in DOMAIN pipe' : pipe'[i] = Note("success") => user = "success"
  BY <1>1 DEF AppInv, Stages
<1> QED BY <1>1, <1>2, <1>3

LEMMA AfterRequestIs ==
  ASSUME AppInv
  PROVE  /\ AfterRequest(id) \in {"challenged", "asks", "done"}
         /\ AfterRequest(id) = "challenged" <=> flow = "login" /\ id = 2
         /\ flow = "login" /\ AfterRequest(id) = "done" => id = 3
BY LoginAsks DEF AfterRequest

LEMMA AnswerTaken ==
  ASSUME AppInv, ReadAnswer
  PROVE  AppInv'
<1> USE DEF AppInv
<1>1. /\ client = "reads" /\ NextLine.kind = "answer" /\ NextLine.id = id
      /\ got' = Append(got, NextLine.of) /\ pipe' = Tail(pipe) /\ client' = AfterRequest(id)
      /\ UNCHANGED <<flow, id, inbox, user>>
  BY DEF ReadAnswer, IsAnswer
<1>2. pipe # <<>> /\ Reads
  BY <1>1 DEF NextLine, Silence, Reads
<1>3. NextLine \in Line /\ NextLine.of = Asked(flow)[id] /\ NextLine.of \in Method
  BY <1>1, <1>2, LineRead DEF AppTypeOK, Answering, Method
<1>4. /\ got' \in Seq(Method \cup {"failed"}) /\ Len(got') = Len(got) + 1
      /\ DOMAIN got' = DOMAIN got \cup {Len(got) + 1} /\ got'[Len(got) + 1] = NextLine.of
      /\ \A n \in DOMAIN got : got'[n] = got[n]
  BY <1>1, <1>3, Appended DEF AppTypeOK
<1>5. AppTypeOK'
  BY <1>1, <1>2, <1>4, LineRead, AfterRequestIs DEF AppTypeOK, Client
<1>6. Taken'
  <2>1. Len(got) = id - 1 /\ id \in Nat /\ client' # "reads"
    BY <1>1, AfterRequestIs DEF Taken, AppTypeOK
  <2> QED BY <1>1, <1>3, <1>4, <2>1 DEF Taken
<1>7. AnswerComes'
  BY <1>1, AfterRequestIs DEF AnswerComes
<1>8. Stages'
  BY <1>1, <1>2, LineRead, AfterRequestIs DEF Stages
<1>9. EndFollows'
  <2>1. ASSUME flow = "login", id = 2, user # "none"
        PROVE  \E j \in DOMAIN pipe' : pipe'[j] = Note(user)
    <3>1. PICK i, j \in DOMAIN pipe : i < j /\ pipe[j] = Note(user)
      BY <1>1, <2>1 DEF EndFollows
    <3>2. j # 1
      BY <1>2, <3>1, LineRead
    <3> QED BY <1>2, <3>1, <3>2, LineRead
  <2> QED BY <1>1, <2>1, AfterRequestIs DEF EndFollows, Note
<1> QED BY <1>2, <1>5, <1>6, <1>7, <1>8, <1>9, LineRead

LEMMA LineSkipped ==
  ASSUME AppInv, SkipLine
  PROVE  AppInv'
<1> USE DEF AppInv
<1>1. /\ client = "reads" /\ ~(NextLine.kind = "answer" /\ NextLine.id = id)
      /\ NextLine.kind # "silence" /\ pipe' = Tail(pipe)
      /\ UNCHANGED <<flow, client, id, inbox, got, user>>
  BY DEF SkipLine, IsAnswer
<1>2. pipe # <<>> /\ Reads
  BY <1>1 DEF NextLine, Silence, Reads
<1>3. AppTypeOK' /\ Taken'
  BY <1>1, <1>2, LineRead DEF AppTypeOK, Taken
<1>4. AnswerComes'
  <2>1. CASE \E i \in DOMAIN inbox : inbox[i].id = id
    BY <1>1, <2>1 DEF AnswerComes
  <2>2. ASSUME NEW i \in DOMAIN pipe, pipe[i].kind = "answer", pipe[i].id = id
        PROVE  AnswerComes'
    <3>1. i # 1
      BY <1>1, <1>2, <2>2, LineRead
    <3>2. i - 1 \in DOMAIN pipe' /\ pipe'[i - 1] = pipe[i]
      BY <1>2, <3>1, LineRead
    <3> QED BY <1>1, <2>2, <3>2 DEF AnswerComes
  <2> QED BY <1>1, <2>1, <2>2 DEF AnswerComes
<1>5. Stages'
  BY <1>1, <1>2, LineRead DEF Stages
<1>6. EndFollows'
  <2>1. ASSUME id = 2, user # "none"
        PROVE  \E i, j \in DOMAIN pipe' : /\ i < j /\ pipe'[i].kind = "answer"
                                          /\ pipe'[i].id = 2 /\ pipe'[j] = Note(user)
    <3>1. PICK i, j \in DOMAIN pipe : /\ i < j /\ pipe[i].kind = "answer" /\ pipe[i].id = 2
                                      /\ pipe[j] = Note(user)
      BY <1>1, <2>1 DEF EndFollows
    <3>2. i # 1 /\ j # 1 /\ i \in Nat /\ j \in Nat
      BY <1>1, <1>2, <2>1, <3>1, LineRead
    <3>3. /\ i - 1 \in DOMAIN pipe' /\ pipe'[i - 1] = pipe[i]
          /\ j - 1 \in DOMAIN pipe' /\ pipe'[j - 1] = pipe[j] /\ i - 1 < j - 1
      BY <1>2, <3>1, <3>2, LineRead
    <3> QED BY <3>1, <3>3
  <2> QED BY <1>1, <2>1 DEF EndFollows, Note
<1> QED BY <1>2, <1>3, <1>4, <1>5, <1>6, LineRead

LEMMA RequestGivenUp ==
  ASSUME AppInv, RequestFails
  PROVE  AppInv'
<1> USE DEF AppInv
<1>1. /\ client = "reads" /\ got' = Append(got, "failed")
      /\ client' = IF id <= Len(Must(flow)) THEN "failed" ELSE AfterRequest(id)
      /\ UNCHANGED <<flow, id, inbox, user>>
      /\ pipe' = pipe \/ Reads
  BY DEF RequestFails, Reads
<1>2. client' \in {"failed", "challenged", "asks", "done"}
  BY <1>1, AfterRequestIs
<1>3. flow = "login" => (client' = "failed" \/ id > 2) /\ client' # "challenged"
  <2>1. id \in Nat /\ (flow = "login" => Len(Must(flow)) = 3)
    BY LoginAsks DEF AppTypeOK
  <2>2. AfterRequest(id) = "challenged" => id = 2
    BY AfterRequestIs
  <2> QED BY <1>1, <2>1, <2>2
<1>4. client' # "challenged"
  BY <1>1, <1>3, AfterRequestIs
<1>5. /\ got' \in Seq(Method \cup {"failed"}) /\ Len(got') = Len(got) + 1
      /\ DOMAIN got' = DOMAIN got \cup {Len(got) + 1} /\ got'[Len(got) + 1] = "failed"
      /\ \A n \in DOMAIN got : got'[n] = got[n]
  BY <1>1, Appended DEF AppTypeOK
<1>6. pipe' \in Seq(Line) /\ Answering'
  BY <1>1, LineRead DEF AppTypeOK, Answering
<1>7. \A i \in DOMAIN pipe' : pipe'[i] = Note("success") => user = "success"
  BY <1>1, LineRead DEF Stages
<1>8. AppTypeOK'
  BY <1>1, <1>2, <1>5, <1>6 DEF AppTypeOK, Client
<1>9. Taken'
  <2>1. Len(got) = id - 1 /\ id \in Nat
    BY <1>1 DEF Taken, AppTypeOK
  <2> QED BY <1>1, <1>2, <1>5, <2>1 DEF Taken
<1>10. Stages'
  BY <1>1, <1>2, <1>3, <1>4, <1>7 DEF Stages
<1>11. AnswerComes' /\ EndFollows'
  BY <1>2, <1>4 DEF AnswerComes, EndFollows
<1> QED BY <1>6, <1>8, <1>9, <1>10, <1>11

LEMMA LoginWaits ==
  ASSUME AppInv, WaitLogin
  PROVE  AppInv'
<1> USE DEF AppInv
<1>1. /\ client = "waits" /\ pipe # <<>> /\ Reads /\ UNCHANGED got
      /\ flow = "login" /\ id = 2
      /\ client' = IF NextLine = Note("success") THEN "asks"
                   ELSE IF NextLine.kind = "garbage" \/ NextLine = Note("failure")
                        THEN "failed" ELSE "waits"
  BY DEF WaitLogin, Reads, Stages
<1>2. client' \in {"asks", "failed", "waits"}
  BY <1>1
<1>3. AppTypeOK' /\ Taken'
  BY <1>1, <1>2, LineRead DEF AppTypeOK, Taken, Client, Reads
<1>4. Stages'
  <2>1. client' = "asks" => user = "success"
    BY <1>1, LineRead DEF Stages
  <2> QED BY <1>1, <1>2, <2>1, LineRead DEF Stages, Reads
<1>5. EndFollows'
  <2>1. ASSUME client' = "waits", user # "none"
        PROVE  \E j \in DOMAIN pipe' : pipe'[j] = Note(user)
    <3>1. PICK j \in DOMAIN pipe : pipe[j] = Note(user)
      BY <1>1, <2>1 DEF EndFollows
    <3>2. user \in {"success", "failure"}
      BY <2>1 DEF AppTypeOK
    <3>3. j # 1
      BY <1>1, <2>1, <3>1, <3>2, LineRead
    <3> QED BY <1>1, <3>1, <3>3, LineRead
  <2> QED BY <1>1, <1>2, <2>1 DEF EndFollows, Note, Reads
<1>6. AnswerComes'
  BY <1>2 DEF AnswerComes
<1> QED BY <1>1, <1>3, <1>4, <1>5, <1>6, LineRead

-----------------------------------------------------------------------------
LEMMA AppStep ==
  ASSUME AppInv, [AppNext]_appVars
  PROVE  AppInv'
<1> USE DEF AppInv
<1>1. CASE ServerAnswers
  <2>1. /\ inbox # <<>> /\ inbox' = Tail(inbox)
        /\ pipe' = Append(pipe, AnswerTo(Head(inbox).id, Head(inbox).of))
        /\ UNCHANGED <<flow, client, id, got, user>>
    BY <1>1 DEF ServerAnswers
  <2> DEFINE line == AnswerTo(Head(inbox).id, Head(inbox).of)
  <2>2. /\ inbox \in Seq(Request) /\ pipe \in Seq(Line) /\ Head(inbox) = inbox[1]
        /\ 1 \in DOMAIN inbox /\ Head(inbox) \in Request
    BY <2>1, Shortened DEF AppTypeOK
  <2>3. line \in Line /\ line.kind = "answer" /\ line.id = inbox[1].id /\ line.of = inbox[1].of
    BY <2>2 DEF AnswerTo, Request, Line
  <2> HIDE DEF line
  <2>4. /\ pipe' \in Seq(Line) /\ DOMAIN pipe' = DOMAIN pipe \cup {Len(pipe) + 1}
        /\ pipe'[Len(pipe) + 1] = line
        /\ \A i \in DOMAIN pipe : pipe'[i] = pipe[i]
    BY <2>1, <2>2, <2>3, Appended DEF line
  <2>5. /\ inbox' \in Seq(Request)
        /\ \A i \in DOMAIN inbox' : i + 1 \in DOMAIN inbox /\ inbox'[i] = inbox[i + 1]
        /\ \A i \in DOMAIN inbox : i # 1 => i - 1 \in DOMAIN inbox' /\ inbox'[i - 1] = inbox[i]
    BY <2>1, <2>2, Shortened
  <2>6. AppTypeOK'
    BY <2>1, <2>4, <2>5 DEF AppTypeOK
  <2>7. Answering'
    BY <2>1, <2>2, <2>3, <2>4, <2>5 DEF Answering
  <2>8. Taken'
    BY <2>1 DEF Taken
  <2>9. AnswerComes'
    <3>1. ASSUME client = "reads", NEW i \in DOMAIN inbox, inbox[i].id = id
          PROVE  AnswerComes'
      <4>1. CASE i = 1
        BY <2>1, <2>3, <2>4, <3>1, <4>1 DEF AnswerComes
      <4>2. CASE i # 1
        <5>1. i - 1 \in DOMAIN inbox' /\ inbox'[i - 1].id = id
          BY <2>5, <3>1, <4>2
        <5> QED BY <2>1, <5>1 DEF AnswerComes
      <4> QED BY <4>1, <4>2
    <3>2. ASSUME client = "reads", NEW i \in DOMAIN pipe, pipe[i].kind = "answer", pipe[i].id = id
          PROVE  AnswerComes'
      BY <2>1, <2>4, <3>2 DEF AnswerComes
    <3> QED BY <2>1, <3>1, <3>2 DEF AnswerComes
  <2>10. Stages'
    BY <2>1, <2>3, <2>4 DEF Stages, Note
  <2>11. EndFollows'
    BY <2>1, <2>4 DEF EndFollows, Note
  <2> QED BY <2>6, <2>7, <2>8, <2>9, <2>10, <2>11
<1>2. CASE ServerTalks
  <2>1. PICK line \in {Note("other"), Garbage} :
          pipe' = Append(pipe, line) /\ UNCHANGED <<flow, client, id, inbox, got, user>>
    BY <1>2 DEF ServerTalks
  <2>2. line \in Line /\ line.kind # "answer" /\ line # Note("success")
    BY DEF Note, Garbage, Line
  <2>3. /\ pipe' \in Seq(Line) /\ DOMAIN pipe' = DOMAIN pipe \cup {Len(pipe) + 1}
        /\ pipe'[Len(pipe) + 1] = line
        /\ \A i \in DOMAIN pipe : pipe'[i] = pipe[i]
    BY <2>1, <2>2, Appended DEF AppTypeOK
  <2>4. (AppTypeOK /\ Taken)'
    BY <2>1, <2>3 DEF AppTypeOK, Taken
  <2>5. Answering'
    BY <2>1, <2>2, <2>3 DEF Answering
  <2>6. AnswerComes'
    BY <2>1, <2>3 DEF AnswerComes
  <2>7. Stages'
    BY <2>1, <2>2, <2>3 DEF Stages
  <2>8. EndFollows'
    BY <2>1, <2>3 DEF EndFollows, Note
  <2> QED BY <2>4, <2>5, <2>6, <2>7, <2>8
<1>3. CASE UserFinishes
  <2>1. PICK outcome \in {"success", "failure"} :
          /\ flow = "login" /\ user = "none" /\ id >= 2 /\ inbox = <<>>
          /\ user' = outcome /\ pipe' = Append(pipe, Note(outcome))
          /\ UNCHANGED <<flow, client, id, inbox, got>>
    BY <1>3 DEF UserFinishes
  <2>2. /\ Note(outcome) \in Line /\ Note(outcome).kind # "answer"
        /\ Note(outcome) = Note("success") => outcome = "success"
    BY DEF Note, Line
  <2>3. /\ pipe' \in Seq(Line) /\ DOMAIN pipe' = DOMAIN pipe \cup {Len(pipe) + 1}
        /\ pipe'[Len(pipe) + 1] = Note(outcome)
        /\ \A i \in DOMAIN pipe : pipe'[i] = pipe[i] /\ i < Len(pipe) + 1
    BY <2>1, <2>2, Appended DEF AppTypeOK
  <2>4. AppTypeOK' /\ Taken'
    BY <2>1, <2>3 DEF AppTypeOK, Taken
  <2>5. Answering'
    BY <2>1, <2>2, <2>3 DEF Answering
  <2>6. AnswerComes'
    BY <2>1, <2>3 DEF AnswerComes
  <2>7. Stages'
    <3>1. client # "asks" \/ id # 2
      BY <2>1 DEF Stages
    <3>2. ~(id > 2)
      BY <2>1 DEF Stages
    <3>3. \A i \in DOMAIN pipe' : pipe'[i] = Note("success") => outcome = "success"
      BY <2>1, <2>2, <2>3 DEF Stages
    <3> QED BY <2>1, <3>1, <3>2, <3>3 DEF Stages
  <2>8. EndFollows'
    <3>1. ASSUME client = "reads", id = 2
          PROVE  \E i, j \in DOMAIN pipe' : /\ i < j /\ pipe'[i].kind = "answer"
                                            /\ pipe'[i].id = 2 /\ pipe'[j] = Note(user')
      <4>1. PICK i \in DOMAIN pipe : pipe[i].kind = "answer" /\ pipe[i].id = 2
        BY <2>1, <3>1, Empty DEF AnswerComes
      <4> QED BY <2>1, <2>3, <4>1
    <3>2. \E j \in DOMAIN pipe' : pipe'[j] = Note(user')
      BY <2>1, <2>3
    <3> QED BY <2>1, <3>1, <3>2 DEF EndFollows
  <2> QED BY <2>4, <2>5, <2>6, <2>7, <2>8
<1>4. CASE Ask
  <2>1. /\ client = "asks" /\ client' = "reads" /\ id' = id + 1
        /\ inbox' = Append(inbox, [id |-> id + 1, of |-> Asked(flow)[id + 1]])
        /\ UNCHANGED <<flow, pipe, got, user>>
    BY <1>4 DEF Ask
  <2> DEFINE request == [id |-> id + 1, of |-> Asked(flow)[id + 1]]
  <2>2. request \in Request /\ request.id = id + 1 /\ request.of = Asked(flow)[request.id]
    BY DEF AppTypeOK, Request, Method
  <2> HIDE DEF request
  <2>3. /\ inbox' \in Seq(Request) /\ DOMAIN inbox' = DOMAIN inbox \cup {Len(inbox) + 1}
        /\ inbox'[Len(inbox) + 1] = request
        /\ \A i \in DOMAIN inbox : inbox'[i] = inbox[i]
    BY <2>1, <2>2, Appended DEF AppTypeOK, request
  <2>4. AppTypeOK'
    BY <2>1, <2>3 DEF AppTypeOK, Client
  <2>5. Answering'
    BY <2>1, <2>2, <2>3 DEF Answering
  <2>6. Taken'
    BY <2>1 DEF Taken, AppTypeOK
  <2>7. AnswerComes'
    BY <2>1, <2>2, <2>3 DEF AnswerComes
  <2>8. Stages'
    <3>1. flow = "login" /\ id + 1 > 2 => user = "success"
      BY <2>1 DEF Stages, AppTypeOK
    <3>2. user # "none" => flow = "login" /\ id + 1 >= 2
      BY <2>1 DEF Stages, AppTypeOK
    <3> QED BY <2>1, <3>1, <3>2 DEF Stages
  <2>9. EndFollows'
    BY <2>1 DEF Stages, EndFollows, AppTypeOK
  <2> QED BY <2>4, <2>5, <2>6, <2>7, <2>8, <2>9
<1>5. CASE ReadAnswer \/ SkipLine \/ RequestFails
  BY <1>5, AnswerTaken, LineSkipped, RequestGivenUp
<1>6. CASE CompleteAuth
  <2>1. /\ client = "challenged" /\ client' = "waits"
        /\ UNCHANGED <<flow, id, inbox, pipe, got, user>>
    BY <1>6 DEF CompleteAuth
  <2>2. AppTypeOK' /\ Answering' /\ AnswerComes'
    BY <2>1 DEF AppTypeOK, Answering, AnswerComes, Client
  <2>3. Taken' /\ Stages' /\ EndFollows'
    BY <2>1 DEF Taken, Stages, EndFollows
  <2> QED BY <2>2, <2>3
<1>7. CASE WaitLogin
  BY <1>7, LoginWaits
<1>8. CASE WaitFails
  <2>1. client = "waits" /\ client' = "failed" /\ UNCHANGED <<flow, id, inbox, pipe, got, user>>
    BY <1>8 DEF WaitFails
  <2>2. AppTypeOK' /\ Answering' /\ AnswerComes'
    BY <2>1 DEF AppTypeOK, Answering, AnswerComes, Client
  <2>3. Taken' /\ Stages' /\ EndFollows'
    BY <2>1 DEF Taken, Stages, EndFollows
  <2> QED BY <2>2, <2>3
<1>9. CASE UNCHANGED appVars
  BY <1>9 DEF appVars, AppTypeOK, Answering, Taken, AnswerComes, Stages, EndFollows, Note
<1> QED BY <1>1, <1>2, <1>3, <1>4, <1>5, <1>6, <1>7, <1>8, <1>9 DEF AppNext

-----------------------------------------------------------------------------
LEMMA InvImpliesHears == AppInv => HearsItsServer
<1> SUFFICES ASSUME AppInv PROVE HearsItsServer
  OBVIOUS
<1> USE DEF AppInv
<1>1. \A n \in DOMAIN got : got[n] \in {Asked(flow)[n], "failed"}
  BY DEF Taken
<1>2. client \in {"challenged", "waits"} /\ user # "none" => Contains(pipe, Note(user))
  <2>1. DOMAIN pipe = 1..Len(pipe)
    BY DEF AppTypeOK
  <2> QED BY <2>1 DEF EndFollows, Contains
<1>3. flow = "login" /\ client = "done" => user = "success"
  BY DEF Stages
<1> QED BY <1>1, <1>2, <1>3 DEF HearsItsServer

(***************************************************************************)
(* For any noise: each answer taken answers the request it is taken for,   *)
(* late answers to requests given up notwithstanding, and the end of a     *)
(* login is not passed over before the call that waits for it reads it     *)
(* (subscription.rs:86-105, 352-398).                                      *)
(***************************************************************************)
THEOREM HearsItsServerHolds == AppSpec => []HearsItsServer
<1>1. AppInit => AppInv
  BY InitAppInv
<1>2. AppInv /\ [AppNext]_appVars => AppInv'
  BY AppStep
<1>3. AppInv => HearsItsServer
  BY InvImpliesHears
<1> QED BY <1>1, <1>2, <1>3, PTL DEF AppSpec

-----------------------------------------------------------------------------
(***************************************************************************)
(* Proofs about KimiLogin for any number of codes and calls.               *)
(*                                                                         *)
(* A code is in the adapter's memory or with one call, never both, and its *)
(* tokens are given only to a call: that call is alone with them.          *)
(***************************************************************************)

USE LoginAssumption

GrantState == {"none", "asked", "allowed", "denied", "expired", "redeemed"}
LiveStage  == {"poll", "sleep", "store", "connected", "failed"}

LoginTypeOK ==
  /\ time \in Nat /\ until \in [Code -> Nat] /\ pending \subseteq Code
  /\ grant \in [Code -> GrantState] /\ vault \in [Code -> Nat] /\ missed \subseteq Code
  /\ caller \in [Caller -> [at : LiveStage \cup {"idle", "refused"}, code : Code \cup {NoCode}]]

Live(k) == caller[k].at \in LiveStage

\* A call that polls has a code that was begun, and has it alone.
CodesHeld ==
  /\ \A k \in Caller : Live(k) => caller[k].code \in Code /\ grant[caller[k].code] # "none"
  /\ \A j, k \in Caller : Live(j) /\ Live(k) /\ caller[j].code = caller[k].code => j = k

\* A code in the memory has no call and has given no tokens.
Remembered ==
  \A c \in pending :
    /\ grant[c] \notin {"none", "redeemed"}
    /\ \A k \in Caller : Live(k) => caller[k].code # c

\* Tokens come to a call, which has put them into one entry or is about to.
TokensHeld ==
  /\ \A k \in Caller :
       /\ caller[k].at = "store" =>
            grant[caller[k].code] = "redeemed" /\ vault[caller[k].code] = 0
       /\ caller[k].at = "connected" =>
            grant[caller[k].code] = "redeemed" /\ vault[caller[k].code] = 1
  /\ \A c \in Code :
       /\ grant[c] # "redeemed" => vault[c] = 0
       /\ grant[c] = "redeemed" /\ c \notin missed =>
            \E k \in Caller : caller[k].at \in {"store", "connected"} /\ caller[k].code = c

LoginInv == LoginTypeOK /\ CodesHeld /\ Remembered /\ TokensHeld

-----------------------------------------------------------------------------
LEMMA InitLoginInv == LoginInit => LoginInv
<1> SUFFICES ASSUME LoginInit PROVE LoginInv
  OBVIOUS
<1> QED
  BY DEF LoginInit, LoginInv, LoginTypeOK, CodesHeld, Remembered, TokensHeld, CallAt,
         GrantState, LiveStage, Live

LEMMA LoginTypeStep ==
  ASSUME LoginInv, [LoginNext]_loginVars
  PROVE  LoginTypeOK'
<1> USE DEF LoginInv, LoginTypeOK, CodesHeld, GrantState, LiveStage, Live
<1>1. CASE Wait
  BY <1>1 DEF Wait
<1>2. ASSUME NEW c \in Code, BeginLogin(c) PROVE LoginTypeOK'
  BY <1>2 DEF BeginLogin, RequestCode
<1>3. ASSUME NEW c \in Code, UserAnswers(c) PROVE LoginTypeOK'
  BY <1>3 DEF UserAnswers
<1>4. ASSUME NEW k \in Caller, CompleteLogin(k) PROVE LoginTypeOK'
  BY <1>4 DEF CompleteLogin, TakePending, CallAt
<1>5. ASSUME NEW k \in Caller,
             PollAgain(k) \/ EndSleep(k) \/ PollFails(k) \/ PollEnds(k)
      PROVE  LoginTypeOK'
  BY <1>5 DEF PollAgain, EndSleep, PollFails, PollEnds, PollDue
<1>6. ASSUME NEW k \in Caller, PollRedeems(k) PROVE LoginTypeOK'
  BY <1>6 DEF PollRedeems, PollDue
<1>7. ASSUME NEW k \in Caller, StoreTokens(k) PROVE LoginTypeOK'
  BY <1>7 DEF StoreTokens
<1>8. CASE UNCHANGED loginVars
  BY <1>8 DEF loginVars
<1> QED BY <1>1, <1>2, <1>3, <1>4, <1>5, <1>6, <1>7, <1>8 DEF LoginNext

LEMMA LoginInvStep ==
  ASSUME LoginInv, [LoginNext]_loginVars
  PROVE  LoginInv'
<1> USE DEF LoginInv
<1>0. LoginTypeOK' BY LoginTypeStep
<1>1. CASE Wait
  BY <1>0, <1>1 DEF Wait, CodesHeld, Remembered, TokensHeld, Live
<1>2. ASSUME NEW c \in Code, BeginLogin(c) PROVE LoginInv'
  <2>1. /\ grant[c] = "none" /\ grant' = [grant EXCEPT ![c] = "asked"]
        /\ pending' = pending \cup {c} /\ UNCHANGED <<caller, vault, missed>>
    BY <1>2 DEF BeginLogin, RequestCode
  <2>2. CodesHeld'
    BY <2>1 DEF CodesHeld, Live, LoginTypeOK
  <2>3. Remembered'
    BY <2>1 DEF CodesHeld, Remembered, Live, LoginTypeOK
  <2>4. TokensHeld'
    BY <2>1 DEF CodesHeld, TokensHeld, Live, LiveStage, LoginTypeOK
  <2> QED BY <1>0, <2>2, <2>3, <2>4
<1>3. ASSUME NEW c \in Code, UserAnswers(c) PROVE LoginInv'
  <2>1. PICK answer \in {"allowed", "denied", "expired"} :
          /\ grant[c] \in {"asked", "allowed"} /\ grant' = [grant EXCEPT ![c] = answer]
          /\ UNCHANGED <<caller, pending, vault, missed>>
    BY <1>3 DEF UserAnswers
  <2>2. CodesHeld'
    BY <2>1 DEF CodesHeld, Live, LoginTypeOK
  <2>3. Remembered'
    BY <2>1 DEF Remembered, Live, LoginTypeOK
  <2>4. TokensHeld'
    BY <2>1 DEF CodesHeld, TokensHeld, Live, LiveStage, LoginTypeOK
  <2> QED BY <1>0, <2>2, <2>3, <2>4
<1>4. ASSUME NEW k \in Caller, CompleteLogin(k) PROVE LoginInv'
  <2>1. PICK c \in Code :
          /\ caller[k].at = "idle" /\ grant[c] # "none"
          /\ caller' = [caller EXCEPT ![k] = IF c \in pending THEN [at |-> "poll", code |-> c]
                                             ELSE [at |-> "refused", code |-> c]]
          /\ pending' = pending \ {c} /\ UNCHANGED <<grant, vault, missed>>
    BY <1>4 DEF CompleteLogin, TakePending, CallAt
  <2>2. CodesHeld'
    BY <2>1 DEF CodesHeld, Remembered, Live, LiveStage, LoginTypeOK
  <2>3. Remembered'
    BY <2>1 DEF Remembered, Live, LiveStage, LoginTypeOK
  <2>4. TokensHeld'
    BY <2>1 DEF TokensHeld, LoginTypeOK
  <2> QED BY <1>0, <2>2, <2>3, <2>4
<1>5. ASSUME NEW k \in Caller, PollAgain(k) \/ EndSleep(k) \/ PollFails(k) \/ PollEnds(k)
      PROVE  LoginInv'
  <2>1. PICK stage \in {"poll", "sleep", "failed"} :
          /\ caller[k].at \in {"poll", "sleep"} /\ caller' = [caller EXCEPT ![k].at = stage]
          /\ UNCHANGED <<pending, grant, vault, missed>>
    BY <1>5 DEF PollAgain, EndSleep, PollFails, PollEnds, PollDue
  <2>2. CodesHeld'
    BY <2>1 DEF CodesHeld, Live, LiveStage, LoginTypeOK
  <2>3. Remembered'
    BY <2>1 DEF Remembered, Live, LiveStage, LoginTypeOK
  <2>4. TokensHeld'
    BY <2>1 DEF TokensHeld, LoginTypeOK
  <2> QED BY <1>0, <2>2, <2>3, <2>4
<1>6. ASSUME NEW k \in Caller, PollRedeems(k) PROVE LoginInv'
  <2> DEFINE c == caller[k].code
  <2>1. PICK stage \in {"store", "failed", "sleep"} :
          /\ caller[k].at = "poll" /\ grant[c] = "allowed"
          /\ grant' = [grant EXCEPT ![c] = "redeemed"]
          /\ caller' = [caller EXCEPT ![k].at = stage]
          /\ missed' = IF stage = "store" THEN missed ELSE missed \cup {c}
          /\ UNCHANGED <<pending, vault>>
    BY <1>6 DEF PollRedeems, PollDue
  <2>2. c \in Code /\ \A j \in Caller \ {k} : Live(j) => caller[j].code # c
    BY <2>1 DEF CodesHeld, Live, LiveStage
  <2>3. CodesHeld'
    BY <2>1, <2>2 DEF CodesHeld, Live, LiveStage, LoginTypeOK
  <2>4. Remembered'
    BY <2>1, <2>2 DEF Remembered, Live, LiveStage, LoginTypeOK
  <2>5. TokensHeld'
    BY <2>1, <2>2 DEF TokensHeld, Live, LiveStage, LoginTypeOK
  <2> QED BY <1>0, <2>3, <2>4, <2>5
<1>7. ASSUME NEW k \in Caller, StoreTokens(k) PROVE LoginInv'
  <2> DEFINE c == caller[k].code
  <2>1. /\ caller[k].at = "store" /\ UNCHANGED <<pending, grant>>
        /\ \/ /\ vault' = [vault EXCEPT ![c] = @ + 1]
              /\ caller' = [caller EXCEPT ![k].at = "connected"] /\ UNCHANGED missed
           \/ /\ missed' = missed \cup {c}
              /\ caller' = [caller EXCEPT ![k].at = "failed"] /\ UNCHANGED vault
    BY <1>7 DEF StoreTokens
  <2>2. /\ c \in Code /\ grant[c] = "redeemed" /\ vault[c] = 0
        /\ \A j \in Caller \ {k} : Live(j) => caller[j].code # c
    BY <2>1 DEF CodesHeld, TokensHeld, Live, LiveStage
  <2>3. CodesHeld'
    BY <2>1 DEF CodesHeld, Live, LiveStage, LoginTypeOK
  <2>4. Remembered'
    BY <2>1 DEF Remembered, Live, LiveStage, LoginTypeOK
  <2>5. TokensHeld'
    BY <2>1, <2>2 DEF TokensHeld, CodesHeld, Live, LiveStage, LoginTypeOK
  <2> QED BY <1>0, <2>3, <2>4, <2>5
<1>8. CASE UNCHANGED loginVars
  BY <1>0, <1>8 DEF loginVars, CodesHeld, Remembered, TokensHeld, Live
<1> QED BY <1>1, <1>2, <1>3, <1>4, <1>5, <1>6, <1>7, <1>8 DEF LoginNext

-----------------------------------------------------------------------------
LEMMA LoginInvImpliesReached == LoginInv => TokensReachTheirCall
<1> SUFFICES ASSUME LoginInv, NEW c \in Code
             PROVE  LET with == {k \in Caller : caller[k].code = c
                                                 /\ caller[k].at \notin {"refused", "idle"}}
                    IN /\ Cardinality(with) <= 1
                       /\ grant[c] = "redeemed" /\ c \notin missed =>
                            vault[c] = (IF \E k \in with : caller[k].at = "store"
                                        THEN 0 ELSE 1)
                       /\ grant[c] # "redeemed" => vault[c] = 0
  BY DEF TokensReachTheirCall
<1> DEFINE with == {k \in Caller : caller[k].code = c
                                   /\ caller[k].at \notin {"refused", "idle"}}
<1>1. \A j, k \in with : j = k
  BY DEF LoginInv, CodesHeld, LoginTypeOK, Live
<1>2. Cardinality(with) <= 1
  <2>1. CASE with = {}
    BY <2>1, FS_EmptySet
  <2>2. ASSUME NEW k \in with PROVE Cardinality(with) <= 1
    <3>1. with = {k} BY <1>1, <2>2
    <3> HIDE DEF with
    <3> QED BY <3>1, FS_Singleton
  <2> QED BY <2>1, <2>2
<1>3. grant[c] # "redeemed" => vault[c] = 0
  BY DEF LoginInv, TokensHeld
<1>4. ASSUME NEW k \in with, caller[k].at = "store" PROVE vault[c] = 0
  BY <1>4 DEF LoginInv, TokensHeld
<1>5. ASSUME grant[c] = "redeemed", c \notin missed, ~\E k \in with : caller[k].at = "store"
      PROVE  vault[c] = 1
  BY <1>5 DEF LoginInv, TokensHeld
<1> QED BY <1>2, <1>3, <1>4, <1>5

(***************************************************************************)
(* For any codes and any number of calls: a code is polled for by one call *)
(* at most, and the tokens given for it are with that call, in one entry   *)
(* of the secret store, or were lost on the way (subscription.rs:188).     *)
(***************************************************************************)
THEOREM TokensReachTheirCallHolds == LoginSpec => []TokensReachTheirCall
<1>1. LoginInit => LoginInv
  BY InitLoginInv
<1>2. LoginInv /\ [LoginNext]_loginVars => LoginInv'
  BY LoginInvStep
<1>3. LoginInv => TokensReachTheirCall
  BY LoginInvImpliesReached
<1> QED BY <1>1, <1>2, <1>3, PTL DEF LoginSpec
=============================================================================
