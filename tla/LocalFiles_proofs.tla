------------------------- MODULE LocalFiles_proofs --------------------------
(***************************************************************************)
(* Proofs about what is read and written of local files: CodexLog,         *)
(* DesktopSetup and LegacyMigration, for any values of their constants.    *)
(***************************************************************************)
EXTENDS CodexLog, DesktopSetup, LegacyMigration, SequenceTheorems, FoldTheorems, TLAPS

-----------------------------------------------------------------------------
(***************************************************************************)
(* CodexLog.  What a log has said so far is defined by its lines alone, so *)
(* an entry that agrees with its first offset lines still does after the   *)
(* next line, after any number of them, and while the log grows.           *)
(***************************************************************************)

Key == Date \X ModelKey

\* The total of the last token_count before line i.
TotalBefore(lines, i) ==
  LET before == CountsBefore(lines, i) IN IF before = {} THEN Unknown ELSE lines[Max(before)][2]

GrownIn(lines) == [i \in DOMAIN lines |-> Grown(lines, i)]
CountedIn(lines, n, k) ==
  {i \in 1..n : IsCount(lines[i]) /\ lines[i][3] = k[1] /\ ModelOf(lines, i) = k[2]}
\* What the first n lines say.
SaidIn(lines, n, k) == SumFunctionOnSet(GrownIn(lines), CountedIn(lines, n, k))

\* The entry is what the first n lines make of it.
Replayed(e, lines, n) ==
  /\ e.model = ModelOf(lines, n + 1) /\ e.previous = TotalBefore(lines, n + 1)
  /\ \A k \in Key : e.days[k] = SaidIn(lines, n, k)

-----------------------------------------------------------------------------
\* A line is a total of a day, or names a model.
LEMMA LineKinds ==
  ASSUME NEW l \in LogLine
  PROVE  /\ IsCount(l) => l[2] \in Total /\ l[2] \in Nat /\ l[3] \in Date
         /\ ~IsCount(l) => l[2] \in CodexModel /\ l[2] \in ModelKey
<1>1. CASE \E m \in CodexModel : l = Context(m)
  BY <1>1 DEF Context, IsCount, ModelKey
<1>2. CASE \E t \in Total, d \in Date : l = Count(t, d)
  BY <1>2, CodexAssumption DEF Count, IsCount
<1> QED BY <1>1, <1>2 DEF LogLine

\* The lines before a line, and the last of some of them.
LEMMA LinesBefore ==
  ASSUME NEW lines \in Seq(LogLine), NEW i \in 1..(Len(lines) + 1)
  PROVE  /\ CountsBefore(lines, i) \subseteq 1..(i - 1)
         /\ 1..(i - 1) \subseteq DOMAIN lines
         /\ \A s \in SUBSET (1..(i - 1)) : s # {} => Max(s) \in s
<1>1. i - 1 \in Nat /\ DOMAIN lines = 1..Len(lines) /\ Len(lines) \in Nat /\ i - 1 <= Len(lines)
  OBVIOUS
<1>2. IsFiniteSet(1..(i - 1)) /\ 1..(i - 1) \subseteq Int
  BY <1>1, FS_Interval
<1>3. \A s \in SUBSET (1..(i - 1)) : IsFiniteSet(s) /\ s \in SUBSET Int
  BY <1>2, FS_Subset
<1>4. \A s \in SUBSET (1..(i - 1)) : s # {} => Max(s) \in s
  BY <1>3, MaxIsGreatest
<1>5. 1..(i - 1) \subseteq DOMAIN lines
  BY <1>1
<1> QED BY <1>4, <1>5 DEF CountsBefore

\* The model and the total that hold at a line are what an entry may keep.
LEMMA ModelBefore ==
  ASSUME NEW lines \in Seq(LogLine), NEW i \in 1..(Len(lines) + 1)
  PROVE  ModelOf(lines, i) \in ModelKey /\ TotalBefore(lines, i) \in Total \cup {Unknown}
<1> DEFINE before   == CountsBefore(lines, i)
           contexts == (1..(i - 1)) \ before
<1>1. /\ before \subseteq DOMAIN lines /\ contexts \subseteq DOMAIN lines
      /\ before # {} => Max(before) \in before
      /\ contexts # {} => Max(contexts) \in contexts
  BY LinesBefore
<1>2. /\ \A j \in before : IsCount(lines[j])
      /\ \A j \in contexts : ~IsCount(lines[j])
  BY DEF CountsBefore
<1>3. \A j \in DOMAIN lines : lines[j] \in LogLine
  OBVIOUS
<1>4. before # {} => lines[Max(before)][2] \in Total
  BY <1>1, <1>2, <1>3, LineKinds
<1>5. contexts # {} => lines[Max(contexts)][2] \in ModelKey
  BY <1>1, <1>2, <1>3, LineKinds
<1>6. TotalBefore(lines, i) = IF before = {} THEN Unknown ELSE lines[Max(before)][2]
  BY DEF TotalBefore
<1>7. ModelOf(lines, i) = IF contexts = {} THEN Unknown ELSE lines[Max(contexts)][2]
  BY DEF ModelOf
<1> QED BY <1>4, <1>5, <1>6, <1>7 DEF ModelKey

\* consume_token_count: what a total adds, from the total before it.
LEMMA GrownIsDelta ==
  ASSUME NEW lines \in Seq(LogLine), NEW i \in 1..Len(lines), IsCount(lines[i])
  PROVE  /\ Grown(lines, i) = Delta(TotalBefore(lines, i), lines[i][2])
         /\ Grown(lines, i) \in Nat
<1> DEFINE before == CountsBefore(lines, i)
           total  == lines[i][2]
           last   == lines[Max(before)][2]
<1>1. i \in 1..(Len(lines) + 1) /\ lines[i] \in LogLine
  OBVIOUS
<1>2. total \in Nat
  BY <1>1, LineKinds
<1>3. TotalBefore(lines, i) \in Total \cup {Unknown}
  BY <1>1, ModelBefore
<1>4. TotalBefore(lines, i) = IF before = {} THEN Unknown ELSE last
  BY DEF TotalBefore
<1>5. Grown(lines, i) = IF total < (IF before = {} THEN 0 ELSE last) THEN total
                        ELSE total - (IF before = {} THEN 0 ELSE last)
  BY DEF Grown
<1>6. before # {} => last \in Total /\ last \in Nat /\ last # Unknown
  <2> SUFFICES ASSUME before # {} PROVE last \in Total
    BY CodexAssumption
  <2>1. Max(before) \in before /\ before \subseteq DOMAIN lines
    BY <1>1, LinesBefore
  <2>2. lines[Max(before)] \in LogLine /\ IsCount(lines[Max(before)])
    BY <2>1 DEF CountsBefore
  <2> QED BY <2>2, LineKinds
<1> HIDE DEF before, total, last
<1>7. Delta(TotalBefore(lines, i), total) =
        IF TotalBefore(lines, i) = Unknown \/ total < TotalBefore(lines, i) THEN total
        ELSE total - TotalBefore(lines, i)
  BY DEF Delta
<1>8. CASE before = {}
  <2>1. Grown(lines, i) = total
    BY <1>2, <1>5, <1>8
  <2> QED BY <1>2, <1>4, <1>7, <1>8, <2>1 DEF total
<1>9. CASE before # {}
  <2>1. TotalBefore(lines, i) = last /\ last \in Nat /\ last # Unknown
    BY <1>4, <1>6, <1>9
  <2>2. Grown(lines, i) = IF total < last THEN total ELSE total - last
    BY <1>5, <1>9
  <2> QED BY <1>2, <1>7, <2>1, <2>2 DEF total
<1> QED BY <1>8, <1>9

\* What is known of a line depends on the lines up to it.
LEMMA LinesAgree ==
  ASSUME NEW lines \in Seq(LogLine), NEW more \in Seq(LogLine), NEW n \in Nat,
         n <= Len(lines), n <= Len(more), \A i \in 1..n : lines[i] = more[i],
         NEW i \in 1..(n + 1)
  PROVE  /\ CountsBefore(lines, i) = CountsBefore(more, i)
         /\ ModelOf(lines, i) = ModelOf(more, i) /\ TotalBefore(lines, i) = TotalBefore(more, i)
         /\ i <= n => Grown(lines, i) = Grown(more, i)
<1>1. /\ i \in 1..(Len(lines) + 1) /\ \A j \in 1..(i - 1) : j \in 1..n
      /\ i <= n => i \in 1..n
  OBVIOUS
<1>2. CountsBefore(lines, i) = CountsBefore(more, i)
  BY <1>1 DEF CountsBefore
<1> DEFINE before   == CountsBefore(lines, i)
           contexts == (1..(i - 1)) \ before
<1>3. /\ before # {} => Max(before) \in 1..n
      /\ contexts # {} => Max(contexts) \in 1..n
  <2>1. before \subseteq 1..(i - 1) /\ contexts \subseteq 1..(i - 1)
    BY <1>1, LinesBefore
  <2>2. \A s \in SUBSET (1..(i - 1)) : s # {} => Max(s) \in s
    BY <1>1, LinesBefore
  <2> HIDE DEF before, contexts
  <2> QED BY <1>1, <2>1, <2>2
<1>4. /\ before # {} => lines[Max(before)] = more[Max(before)]
      /\ contexts # {} => lines[Max(contexts)] = more[Max(contexts)]
      /\ i <= n => lines[i] = more[i]
  BY <1>1, <1>3
<1>5. ModelOf(lines, i) = ModelOf(more, i)
  BY <1>2, <1>4 DEF ModelOf
<1>6. TotalBefore(lines, i) = TotalBefore(more, i)
  BY <1>2, <1>4 DEF TotalBefore
<1>7. i <= n => Grown(lines, i) = Grown(more, i)
  BY <1>2, <1>4 DEF Grown
<1> QED BY <1>2, <1>5, <1>6, <1>7

\* What is summed: finitely many naturals.
LEMMA CountedLines ==
  ASSUME NEW lines \in Seq(LogLine), NEW n \in Nat, n <= Len(lines), NEW k
  PROVE  /\ IsFiniteSet(CountedIn(lines, n, k))
         /\ \A i \in CountedIn(lines, n, k) :
              /\ i \in 1..n /\ i \in DOMAIN lines /\ GrownIn(lines)[i] \in Nat
              /\ GrownIn(lines)[i] = Grown(lines, i)
<1>1. CountedIn(lines, n, k) \subseteq 1..n /\ 1..n \subseteq DOMAIN lines /\ DOMAIN lines = 1..Len(lines)
  BY DEF CountedIn
<1>2. IsFiniteSet(1..n)
  BY FS_Interval
<1>3. \A i \in CountedIn(lines, n, k) : IsCount(lines[i])
  BY DEF CountedIn
<1>4. \A i \in CountedIn(lines, n, k) : Grown(lines, i) \in Nat
  BY <1>1, <1>3, GrownIsDelta
<1>5. \A i \in DOMAIN lines : GrownIn(lines)[i] = Grown(lines, i)
  BY DEF GrownIn
<1> QED BY <1>1, <1>2, <1>4, <1>5, FS_Subset

\* What lines say is a number of tokens,
LEMMA SaidNat ==
  ASSUME NEW lines \in Seq(LogLine), NEW n \in Nat, n <= Len(lines), NEW k
  PROVE  SaidIn(lines, n, k) \in Nat
BY CountedLines, SumOverNat DEF SaidIn

\* given by those lines alone.
LEMMA SaidAgrees ==
  ASSUME NEW lines \in Seq(LogLine), NEW more \in Seq(LogLine), NEW n \in Nat,
         n <= Len(lines), n <= Len(more), \A i \in 1..n : lines[i] = more[i], NEW k
  PROVE  SaidIn(lines, n, k) = SaidIn(more, n, k)
<1>1. \A i \in 1..n : /\ ModelOf(lines, i) = ModelOf(more, i) /\ Grown(lines, i) = Grown(more, i)
                      /\ lines[i] = more[i]
  <2> SUFFICES ASSUME NEW i \in 1..n
               PROVE  ModelOf(lines, i) = ModelOf(more, i) /\ Grown(lines, i) = Grown(more, i)
    OBVIOUS
  <2>1. i \in 1..(n + 1) /\ i <= n
    OBVIOUS
  <2> QED BY <2>1, LinesAgree
<1>2. CountedIn(lines, n, k) = CountedIn(more, n, k)
  BY <1>1 DEF CountedIn
<1>3. /\ \A i \in CountedIn(lines, n, k) : GrownIn(lines)[i] \in Nat /\ GrownIn(lines)[i] = GrownIn(more)[i]
      /\ IsFiniteSet(CountedIn(lines, n, k))
  BY <1>1, <1>2, CountedLines
<1>4. SumFunctionOnSet(GrownIn(lines), CountedIn(lines, n, k))
      = SumFunctionOnSet(GrownIn(more), CountedIn(lines, n, k))
  BY <1>3, SumOverAgree
<1> QED BY <1>2, <1>4 DEF SaidIn

\* What CacheIsReplay and ReportIsFresh say of a log's first lines.
LEMMA SaidOfFirst ==
  ASSUME NEW lines \in Seq(LogLine), NEW n \in Nat, n <= Len(lines), NEW k
  PROVE  Said(SubSeq(lines, 1, n), k) = SaidIn(lines, n, k)
<1> DEFINE first == SubSeq(lines, 1, n)
<1>1. first \in Seq(LogLine) /\ Len(first) = n /\ \A i \in 1..n : first[i] = lines[i]
  OBVIOUS
<1> HIDE DEF first
<1>2. SaidIn(first, n, k) = SaidIn(lines, n, k)
  BY <1>1, SaidAgrees
<1>3. DOMAIN first = 1..n
  BY <1>1
<1>4. Said(first, k) = SaidIn(first, n, k)
  BY <1>3 DEF Said, SaidIn, GrownIn, CountedIn
<1> QED BY <1>2, <1>4 DEF first

\* What the last line leaves is what all lines say.
LEMMA SaidOfAll ==
  ASSUME NEW lines \in Seq(LogLine), NEW k
  PROVE  Said(lines, k) = SaidIn(lines, Len(lines), k)
<1>1. DOMAIN lines = 1..Len(lines)
  OBVIOUS
<1> QED BY <1>1 DEF Said, SaidIn, GrownIn, CountedIn

\* More lines say no less.
LEMMA SaidGrows ==
  ASSUME NEW lines \in Seq(LogLine), NEW n \in Nat, NEW m \in Nat, n <= m, m <= Len(lines), NEW k
  PROVE  SaidIn(lines, n, k) <= SaidIn(lines, m, k)
<1>1. CountedIn(lines, n, k) \subseteq CountedIn(lines, m, k)
  BY DEF CountedIn
<1>2. /\ IsFiniteSet(CountedIn(lines, m, k))
      /\ \A i \in CountedIn(lines, m, k) : GrownIn(lines)[i] \in Nat
  BY CountedLines
<1> QED BY <1>1, <1>2, SumOverLarger DEF SaidIn

\* The next line adds what its total has grown by, to its day and model.
LEMMA SaidNext ==
  ASSUME NEW lines \in Seq(LogLine), NEW n \in Nat, n + 1 <= Len(lines), NEW k
  PROVE  SaidIn(lines, n + 1, k) =
           IF IsCount(lines[n + 1]) /\ lines[n + 1][3] = k[1] /\ ModelOf(lines, n + 1) = k[2]
           THEN SaidIn(lines, n, k) + Grown(lines, n + 1) ELSE SaidIn(lines, n, k)
<1> DEFINE now    == CountedIn(lines, n + 1, k)
           before == CountedIn(lines, n, k)
           counts == IsCount(lines[n + 1]) /\ lines[n + 1][3] = k[1] /\ ModelOf(lines, n + 1) = k[2]
<1>1. 1..(n + 1) = (1..n) \cup {n + 1} /\ n + 1 \notin 1..n
  OBVIOUS
<1>2. now = IF counts THEN before \cup {n + 1} ELSE before
  BY <1>1 DEF CountedIn
<1>3. n + 1 \notin before
  BY <1>1 DEF CountedIn
<1>4. /\ IsFiniteSet(now)
      /\ \A i \in now : GrownIn(lines)[i] \in Nat /\ GrownIn(lines)[i] = Grown(lines, i)
  BY CountedLines
<1>5. SaidIn(lines, n, k) \in Nat
  BY SaidNat
<1> HIDE DEF now, before, counts
<1>6. CASE counts
  <2>1. n + 1 \in now /\ now \ {n + 1} = before
    BY <1>2, <1>3, <1>6
  <2>2. SumFunctionOnSet(GrownIn(lines), now)
        = GrownIn(lines)[n + 1] + SumFunctionOnSet(GrownIn(lines), now \ {n + 1})
    BY <1>4, <2>1, SumOverRemove
  <2>3. SaidIn(lines, n + 1, k) = Grown(lines, n + 1) + SaidIn(lines, n, k) /\ Grown(lines, n + 1) \in Nat
    BY <1>4, <2>1, <2>2 DEF SaidIn, now, before
  <2>4. SaidIn(lines, n + 1, k) = SaidIn(lines, n, k) + Grown(lines, n + 1)
    BY <1>5, <2>3
  <2> QED BY <1>6, <2>4 DEF counts
<1>7. CASE ~counts
  BY <1>2, <1>7 DEF SaidIn, now, before, counts
<1> QED BY <1>6, <1>7

\* What the next line does to the model and the total.
LEMMA AfterNext ==
  ASSUME NEW lines \in Seq(LogLine), NEW n \in Nat, n + 1 <= Len(lines)
  PROVE  /\ ModelOf(lines, n + 2) = IF IsCount(lines[n + 1]) THEN ModelOf(lines, n + 1) ELSE lines[n + 1][2]
         /\ TotalBefore(lines, n + 2) = IF IsCount(lines[n + 1]) THEN lines[n + 1][2] ELSE TotalBefore(lines, n + 1)
<1> DEFINE counts == CountsBefore(lines, n + 1)
           others == (1..n) \ counts
           Counts == CountsBefore(lines, n + 2)
           Others == (1..(n + 1)) \ Counts
<1>1. /\ (n + 1) - 1 = n /\ (n + 2) - 1 = n + 1 /\ n + 1 \notin 1..n
      /\ 1..(n + 1) = (1..n) \cup {n + 1}
  OBVIOUS
<1>2. /\ IsCount(lines[n + 1]) => Counts = counts \cup {n + 1} /\ Others = others
      /\ ~IsCount(lines[n + 1]) => Counts = counts /\ Others = others \cup {n + 1}
  BY <1>1 DEF CountsBefore
<1>3. /\ ModelOf(lines, n + 1) = IF others = {} THEN Unknown ELSE lines[Max(others)][2]
      /\ ModelOf(lines, n + 2) = IF Others = {} THEN Unknown ELSE lines[Max(Others)][2]
  BY <1>1 DEF ModelOf
<1>4. /\ TotalBefore(lines, n + 1) = IF counts = {} THEN Unknown ELSE lines[Max(counts)][2]
      /\ TotalBefore(lines, n + 2) = IF Counts = {} THEN Unknown ELSE lines[Max(Counts)][2]
  BY DEF TotalBefore
<1>5. ASSUME NEW s \in SUBSET (1..n)
      PROVE  Max(s \cup {n + 1}) = n + 1
  <2> DEFINE all == s \cup {n + 1}
  <2>1. all \in SUBSET (1..(n + 1)) /\ all \in SUBSET Int /\ all # {} /\ n + 1 \in all
    BY <1>1
  <2>2. IsFiniteSet(1..(n + 1))
    BY FS_Interval
  <2>3. IsFiniteSet(all)
    BY <2>1, <2>2, FS_Subset
  <2> HIDE DEF all
  <2>4. Max(all) \in all /\ n + 1 <= Max(all)
    BY <2>1, <2>3, MaxIsGreatest
  <2>5. Max(all) \in 1..(n + 1)
    BY <2>1, <2>4
  <2>6. Max(all) = n + 1
    BY <2>4, <2>5
  <2> QED BY <2>6 DEF all
<1>6. counts \in SUBSET (1..n) /\ others \in SUBSET (1..n)
  BY <1>1 DEF CountsBefore
<1> HIDE DEF counts, others, Counts, Others
<1>7. Max(counts \cup {n + 1}) = n + 1 /\ Max(others \cup {n + 1}) = n + 1
  BY <1>5, <1>6
<1>8. CASE IsCount(lines[n + 1])
  BY <1>2, <1>3, <1>4, <1>7, <1>8
<1>9. CASE ~IsCount(lines[n + 1])
  <2>1. Counts = counts /\ Others = others \cup {n + 1}
    BY <1>2, <1>9
  <2>2. TotalBefore(lines, n + 2) = TotalBefore(lines, n + 1)
    BY <1>4, <2>1
  <2>3. Others # {} /\ Max(Others) = n + 1
    BY <1>7, <2>1
  <2>4. ModelOf(lines, n + 2) = lines[n + 1][2]
    BY <1>3, <2>3
  <2> QED BY <1>9, <2>2, <2>4
<1> QED BY <1>8, <1>9

-----------------------------------------------------------------------------
\* An event leaves an entry one, and where it was.
LEMMA ConsumeEventOK ==
  ASSUME NEW e \in Entry, NEW l \in LogLine
  PROVE  /\ ConsumeEvent(e, l) \in Entry /\ ConsumeEvent(e, l).offset = e.offset
         /\ ConsumeEvent(e, l).model = IF IsCount(l) THEN e.model ELSE l[2]
         /\ ConsumeEvent(e, l).previous = IF IsCount(l) THEN l[2] ELSE e.previous
         /\ \A k \in Key : ConsumeEvent(e, l).days[k] =
               IF IsCount(l) /\ l[3] = k[1] /\ e.model = k[2]
               THEN e.days[k] + Delta(e.previous, l[2]) ELSE e.days[k]
<1>1. /\ e.offset \in Nat /\ e.model \in ModelKey /\ e.previous \in Total \cup {Unknown}
      /\ e.days \in [Key -> Nat]
      /\ e = [offset |-> e.offset, model |-> e.model, previous |-> e.previous, days |-> e.days]
  BY DEF Entry, Key
<1>2. CASE IsCount(l)
  <2>1. l[2] \in Total /\ l[2] \in Nat /\ l[3] \in Date
    BY <1>2, LineKinds
  <2>2. Delta(e.previous, l[2]) \in Nat
    <3>1. CASE e.previous = Unknown \/ l[2] < e.previous
      BY <2>1, <3>1 DEF Delta
    <3>2. CASE ~(e.previous = Unknown \/ l[2] < e.previous)
      <4>1. e.previous \in Nat
        BY <1>1, <3>2, CodexAssumption
      <4>2. Delta(e.previous, l[2]) = l[2] - e.previous
        BY <3>2 DEF Delta
      <4> QED BY <2>1, <3>2, <4>1, <4>2
    <3> QED BY <3>1, <3>2
  <2> DEFINE delta == Delta(e.previous, l[2])
             key   == <<l[3], e.model>>
             days  == [e.days EXCEPT ![key] = @ + delta]
  <2>3. ConsumeEvent(e, l) = [offset |-> e.offset, model |-> e.model, previous |-> l[2], days |-> days]
    BY <1>2 DEF ConsumeEvent, ConsumeTokenCount
  <2>4. key \in Key
    BY <1>1, <2>1 DEF Key
  <2>5. \A k \in Key : k = key <=> l[3] = k[1] /\ e.model = k[2]
    BY DEF Key
  <2> HIDE DEF delta, key
  <2>6. days \in [Key -> Nat] /\ \A k \in Key : days[k] = IF k = key THEN e.days[k] + delta ELSE e.days[k]
    BY <1>1, <2>2, <2>4 DEF delta
  <2> HIDE DEF days
  <2>7. /\ ConsumeEvent(e, l).offset = e.offset /\ ConsumeEvent(e, l).model = e.model
        /\ ConsumeEvent(e, l).previous = l[2] /\ ConsumeEvent(e, l).days = days
    BY <2>3
  <2>8. ConsumeEvent(e, l) \in Entry
    BY <1>1, <2>1, <2>3, <2>6 DEF Entry, Key
  <2> QED BY <1>2, <2>5, <2>6, <2>7, <2>8 DEF delta
<1>3. CASE ~IsCount(l)
  <2>1. l[2] \in ModelKey
    BY <1>3, LineKinds
  <2>2. ConsumeEvent(e, l) = [offset |-> e.offset, model |-> l[2], previous |-> e.previous, days |-> e.days]
    BY <1>1, <1>3 DEF ConsumeEvent
  <2>3. ConsumeEvent(e, l) \in Entry
    BY <1>1, <2>1, <2>2 DEF Entry, Key
  <2> QED BY <1>3, <2>2, <2>3
<1> QED BY <1>2, <1>3

\* An entry that is the replay of n lines, and consumes the next, is that of n
\* + 1.
LEMMA ReplayStep ==
  ASSUME NEW lines \in Seq(LogLine), NEW n \in Nat, n + 1 <= Len(lines),
         NEW e \in Entry, Replayed(e, lines, n)
  PROVE  Replayed(ConsumeEvent(e, lines[n + 1]), lines, n + 1)
<1> DEFINE l == lines[n + 1]
           x == ConsumeEvent(e, l)
<1>1. l \in LogLine /\ n + 1 \in 1..Len(lines) /\ (n + 1) + 1 = n + 2
  OBVIOUS
<1>2. /\ x.model = IF IsCount(l) THEN e.model ELSE l[2]
      /\ x.previous = IF IsCount(l) THEN l[2] ELSE e.previous
      /\ \A k \in Key : x.days[k] = IF IsCount(l) /\ l[3] = k[1] /\ e.model = k[2]
                                   THEN e.days[k] + Delta(e.previous, l[2]) ELSE e.days[k]
  BY <1>1, ConsumeEventOK
<1>3. IsCount(l) => Grown(lines, n + 1) = Delta(TotalBefore(lines, n + 1), l[2])
  BY <1>1, GrownIsDelta
<1>4. \A k \in Key : SaidIn(lines, n + 1, k) =
           IF IsCount(l) /\ l[3] = k[1] /\ ModelOf(lines, n + 1) = k[2]
           THEN SaidIn(lines, n, k) + Grown(lines, n + 1) ELSE SaidIn(lines, n, k)
  BY SaidNext
<1>5. /\ ModelOf(lines, n + 2) = IF IsCount(l) THEN ModelOf(lines, n + 1) ELSE l[2]
      /\ TotalBefore(lines, n + 2) = IF IsCount(l) THEN l[2] ELSE TotalBefore(lines, n + 1)
  BY AfterNext
<1> HIDE DEF l, x
<1>6. /\ e.model = ModelOf(lines, n + 1) /\ e.previous = TotalBefore(lines, n + 1)
      /\ \A k \in Key : e.days[k] = SaidIn(lines, n, k)
  BY DEF Replayed
<1>7. \A k \in Key : x.days[k] = SaidIn(lines, n + 1, k)
  BY <1>2, <1>3, <1>4, <1>6
<1>8. x.model = ModelOf(lines, n + 2) /\ x.previous = TotalBefore(lines, n + 2)
  BY <1>2, <1>5, <1>6
<1>9. Replayed(x, lines, n + 1)
  BY <1>1, <1>7, <1>8 DEF Replayed
<1> QED BY <1>9 DEF x, l

\* later is what comes after the first n lines.
LinesAfter(later, lines, n) ==
  /\ n \in Nat /\ n <= Len(lines) /\ later \in Seq(LogLine) /\ Len(later) = Len(lines) - n
  /\ \A i \in 1..Len(later) : later[i] = lines[n + i]

\* read_appended: the lines after the offset.
LEMMA AppendedLines ==
  ASSUME NEW lines \in Seq(LogLine), NEW n \in Nat, n <= Len(lines)
  PROVE  LinesAfter(SubSeq(lines, n + 1, Len(lines)), lines, n)
BY DEF LinesAfter

\* The lines appended since an entry's offset, consumed one after another.
LEMMA FoldReplays ==
  ASSUME NEW lines \in Seq(LogLine), NEW e \in Entry, NEW later, LinesAfter(later, lines, e.offset)
  PROVE  /\ FoldLeft(ConsumeEvent, e, later) \in Entry
         /\ Replayed(e, lines, e.offset) => Replayed(FoldLeft(ConsumeEvent, e, later), lines, Len(lines))
<1> DEFINE o  == e.offset
           op == [p \in Entry \X LogLine |-> ConsumeEvent(p[1], p[2])]
           Sol(it) == it = [s \in SUBSET DOMAIN later |->
                              IF s = {} THEN e ELSE ConsumeEvent(it[s \ {Max(s)}], later[Max(s)])]
           jt == CHOOSE it : Sol(it)
<1>1. o \in Nat /\ o <= Len(lines) /\ Len(lines) \in Nat
  BY DEF LinesAfter
<1>2. later \in Seq(LogLine) /\ Len(later) = Len(lines) - o /\ \A i \in 1..Len(later) : later[i] = lines[o + i]
  BY DEF LinesAfter
<1>3. op \in [Entry \X LogLine -> Entry]
  BY ConsumeEventOK
<1>4. \A x \in Entry, l \in LogLine : op[<<x, l>>] = ConsumeEvent(x, l)
  OBVIOUS
<1>5. \A s \in SUBSET DOMAIN later : s # {} => s \ {Max(s)} \in SUBSET DOMAIN later /\ later[Max(s)] \in LogLine
  BY <1>2, LastPlace
<1> HIDE DEF op, o
<1>6. FoldArgs(LogLine, Entry, later, e, op)
  BY <1>2, <1>3 DEF FoldArgs
<1>7. PICK it : LeftFoldOf(it, LogLine, Entry, later, e, op)
  BY <1>6, LeftFoldExists
<1>8. Sol(it)
  <2>1. /\ it = [s \in SUBSET DOMAIN later |-> it[s]]
        /\ \A s \in SUBSET DOMAIN later : it[s] \in Entry
        /\ \A s \in SUBSET DOMAIN later :
             it[s] = IF s = {} THEN e ELSE op[<<it[s \ {Max(s)}], later[Max(s)]>>]
    BY <1>7 DEF LeftFoldOf
  <2>2. \A s \in SUBSET DOMAIN later :
          it[s] = IF s = {} THEN e ELSE ConsumeEvent(it[s \ {Max(s)}], later[Max(s)])
    BY <1>4, <1>5, <2>1
  <2> QED BY <2>1, <2>2
<1>9. Sol(jt)
  <2> HIDE DEF Sol
  <2> QED BY <1>8, Zenon
<1>10. FoldLeft(ConsumeEvent, e, later) = jt[DOMAIN later]
  BY Zenon DEF FoldLeft, MapThenFoldSet
<1> HIDE DEF jt
<1>11. FoldsLeft(jt, Entry, later, e, op)
  <2>1. \A s \in SUBSET DOMAIN later :
          jt[s] = IF s = {} THEN e ELSE ConsumeEvent(jt[s \ {Max(s)}], later[Max(s)])
    BY <1>9
  <2>2. ASSUME NEW s \in SUBSET DOMAIN later, s # {}, NEW v \in Entry, jt[s \ {Max(s)}] = v
        PROVE  jt[s] = op[<<v, later[Max(s)]>>]
    BY <1>4, <1>5, <2>1, <2>2
  <2>3. {} \in SUBSET DOMAIN later => jt[{}] = e
    BY <2>1
  <2> QED BY <2>2, <2>3 DEF FoldsLeft
<1>12. PICK g : PrefixFold(g, Entry, later, e, op) /\ AllOf(jt, later) = g[Len(later)]
  BY <1>6, <1>11, LeftFoldPrefixes
<1>13. /\ g[0] = e /\ \A n \in 0..Len(later) : g[n] \in Entry
       /\ \A n \in 1..Len(later) : g[n] = op[<<g[n - 1], later[n]>>]
  BY <1>12 DEF PrefixFold
<1> DEFINE F == {n \in Nat : n <= Len(later) => Replayed(g[n], lines, o + n)}
<1>14. ASSUME Replayed(e, lines, o)
       PROVE  Nat \subseteq F
  <2>1. 0 \in F
    <3>1. o + 0 = o
      BY <1>1
    <3> QED BY <1>13, <1>14, <3>1
  <2>2. ASSUME NEW n \in Nat, n \in F PROVE n + 1 \in F
    <3> SUFFICES ASSUME n + 1 <= Len(later) PROVE Replayed(g[n + 1], lines, o + (n + 1))
      OBVIOUS
    <3>1. n + 1 \in 1..Len(later) /\ n \in 0..Len(later) /\ (n + 1) - 1 = n /\ n <= Len(later)
      BY <1>2
    <3>2. /\ o + n \in Nat /\ (o + n) + 1 <= Len(lines) /\ (o + n) + 1 = o + (n + 1)
          /\ later[n + 1] = lines[(o + n) + 1] /\ later[n + 1] \in LogLine
      <4>1. Len(later) = Len(lines) - o /\ n + 1 <= Len(later)
        BY <1>2
      <4>2. o + n \in Nat /\ (o + n) + 1 <= Len(lines) /\ (o + n) + 1 = o + (n + 1)
        BY <1>1, <4>1
      <4>3. later[n + 1] = lines[o + (n + 1)] /\ later[n + 1] \in LogLine
        BY <1>2, <3>1
      <4> QED BY <4>2, <4>3
    <3>3. g[n] \in Entry /\ Replayed(g[n], lines, o + n)
      BY <1>13, <2>2, <3>1
    <3>4. g[n + 1] = ConsumeEvent(g[n], lines[(o + n) + 1])
      BY <1>4, <1>13, <3>1, <3>2, <3>3
    <3>5. Replayed(ConsumeEvent(g[n], lines[(o + n) + 1]), lines, (o + n) + 1)
      BY <3>2, <3>3, ReplayStep
    <3> QED BY <3>2, <3>4, <3>5
  <2> HIDE DEF F
  <2> QED BY <2>1, <2>2, Induction
<1>15. Len(later) \in Nat /\ Len(later) \in 0..Len(later) /\ o + Len(later) = Len(lines)
  BY <1>1, <1>2
<1>16. FoldLeft(ConsumeEvent, e, later) = g[Len(later)]
  BY <1>10, <1>12 DEF AllOf
<1>17. Replayed(e, lines, o) => Replayed(g[Len(later)], lines, Len(lines))
  BY <1>14, <1>15
<1> QED BY <1>13, <1>15, <1>16, <1>17 DEF o

\* Before the first line nothing is said, and the entry is empty.
LEMMA ReplayedNothing ==
  ASSUME NEW lines
  PROVE  /\ EmptyEntry \in Entry /\ EmptyEntry.offset = 0 /\ Replayed(EmptyEntry, lines, 0)
         /\ \A k : SaidIn(lines, 0, k) = 0
<1>1. 1..0 = {} /\ 0 + 1 = 1 /\ 1 - 1 = 0
  OBVIOUS
<1>2. CountsBefore(lines, 1) = {} /\ \A k : CountedIn(lines, 0, k) = {}
  BY <1>1 DEF CountsBefore, CountedIn
<1>3. \A k : SaidIn(lines, 0, k) = 0
  BY <1>2, SumOverEmpty DEF SaidIn
<1>4. ModelOf(lines, 1) = Unknown /\ TotalBefore(lines, 1) = Unknown
  BY <1>1, <1>2 DEF ModelOf, TotalBefore
<1>5. EmptyEntry \in Entry
  BY DEF EmptyEntry, Entry, ModelKey
<1>6. /\ EmptyEntry.offset = 0 /\ EmptyEntry.model = Unknown /\ EmptyEntry.previous = Unknown
      /\ \A k \in Key : EmptyEntry.days[k] = 0
  BY DEF EmptyEntry, Key
<1> QED BY <1>1, <1>3, <1>4, <1>5, <1>6 DEF Replayed

\* A read leaves the replay of all complete lines, unless the entry was of a
\* file replaced unnoticed.
LEMMA RefreshedReplays ==
  ASSUME NEW file, NEW whole \in Seq(LogLine), whole = Complete(file),
         NEW e, e # NoEntry => e \in Entry
  PROVE  /\ Refreshed(e, file) \in Entry /\ Refreshed(e, file).offset = Len(whole)
         /\ e = NoEntry \/ Len(whole) < e.offset \/ Replayed(e, whole, e.offset)
              => Replayed(Refreshed(e, file), whole, Len(whole))
<1> DEFINE anew  == e = NoEntry \/ Len(whole) < e.offset
           known == IF anew THEN EmptyEntry ELSE e
           later   == SubSeq(whole, known.offset + 1, Len(whole))
           fold  == FoldLeft(ConsumeEvent, known, later)
<1>1. /\ known \in Entry /\ known.offset <= Len(whole)
      /\ anew \/ Replayed(e, whole, e.offset) => Replayed(known, whole, known.offset)
  <2>1. CASE anew
    BY <2>1, ReplayedNothing
  <2>2. CASE ~anew
    <3>1. e.offset \in Nat /\ Len(whole) \in Nat /\ ~(Len(whole) < e.offset)
      BY <2>2 DEF Entry
    <3>2. e.offset <= Len(whole)
      BY <3>1
    <3> QED BY <2>2, <3>2
  <2> QED BY <2>1, <2>2
<1>2. Refreshed(e, file) = [fold EXCEPT !.offset = Len(whole)]
  BY DEF Refreshed, ReadAppended
<1> HIDE DEF known
<1>3. /\ fold \in Entry
      /\ Replayed(known, whole, known.offset) => Replayed(fold, whole, Len(whole))
  <2>1. LinesAfter(later, whole, known.offset)
    BY <1>1, AppendedLines DEF Entry
  <2> HIDE DEF later
  <2> QED BY <1>1, <2>1, FoldReplays
<1> HIDE DEF fold, anew
<1> DEFINE r == [offset |-> Len(whole), model |-> fold.model, previous |-> fold.previous,
                 days |-> fold.days]
<1>4. [fold EXCEPT !.offset = Len(whole)] = r
  BY <1>3 DEF Entry
<1>5. r \in Entry
  BY <1>3 DEF Entry
<1>6. Replayed(fold, whole, Len(whole)) => Replayed(r, whole, Len(whole))
  BY DEF Replayed
<1>7. r.offset = Len(whole)
  OBVIOUS
<1> HIDE DEF r
<1>8. e = NoEntry \/ Len(whole) < e.offset \/ Replayed(e, whole, e.offset) => Replayed(r, whole, Len(whole))
  BY <1>1, <1>3, <1>6 DEF anew
<1> QED BY <1>2, <1>4, <1>5, <1>7, <1>8

-----------------------------------------------------------------------------
Whole(f) == Complete(log[f])

LogsOK ==
  /\ log = [f \in Session |-> log[f]]
  /\ \A f \in Session : Whole(f) \in Seq(LogLine) /\ log[f] \in {Whole(f), Append(Whole(f), Partial)}

\* An entry agrees with its log, unless that was replaced unnoticed.
EntriesOK ==
  /\ cache = [f \in Session |-> cache[f]]
  /\ \A f \in Session :
       cache[f] # NoEntry =>
         /\ cache[f] \in Entry
         /\ f \notin replaced => /\ cache[f].offset <= Len(Whole(f))
                                /\ Replayed(cache[f], Whole(f), cache[f].offset)

\* A line without its end is not among the complete ones.
LEMMA CompleteOf ==
  ASSUME NEW lines \in Seq(LogLine)
  PROVE  Complete(lines) = lines /\ Complete(Append(lines, Partial)) = lines
<1>1. lines # <<>> => Last(lines) # Partial
  <2> SUFFICES ASSUME lines # <<>> PROVE lines[Len(lines)] \in LogLine
    BY CodexValues DEF Last
  <2> QED OBVIOUS
<1>2. Complete(Append(lines, Partial)) = lines
  <2> DEFINE more == Append(lines, Partial)
  <2>1. more # <<>> /\ Len(more) = Len(lines) + 1 /\ more[Len(lines) + 1] = Partial
        /\ more \in Seq(LogLine \cup {Partial}) /\ \A i \in 1..Len(lines) : more[i] = lines[i]
    OBVIOUS
  <2> HIDE DEF more
  <2>2. Complete(more) = SubSeq(more, 1, (Len(lines) + 1) - 1)
    BY <2>1 DEF Complete, Last, Front
  <2>3. (Len(lines) + 1) - 1 = Len(lines) /\ Len(lines) \in Nat
    OBVIOUS
  <2>4. /\ SubSeq(more, 1, Len(lines)) \in Seq(LogLine \cup {Partial})
        /\ Len(SubSeq(more, 1, Len(lines))) = Len(lines)
        /\ \A i \in 1..Len(lines) : SubSeq(more, 1, Len(lines))[i] = lines[i]
    BY <2>1, <2>3
  <2>5. lines \in Seq(LogLine \cup {Partial})
    OBVIOUS
  <2>6. SubSeq(more, 1, Len(lines)) = lines
    BY <2>4, <2>5, SeqEqual
  <2> QED BY <2>2, <2>3, <2>6 DEF more
<1> QED BY <1>1, <1>2 DEF Complete

\* The log of f may have become longer; the others are as they were.
Longer(lines, more) ==
  /\ lines \in Seq(LogLine) /\ more \in Seq(LogLine) /\ Len(lines) <= Len(more)
  /\ \A i \in 1..Len(lines) : lines[i] = more[i]

\* A session only lengthens its log.
LEMMA LineWritten ==
  ASSUME LogsOK, NEW f \in Session, WriteLine(f), current \in Date
  PROVE  LogsOK' /\ \A g \in Session : Longer(Whole(g), Whole(g)')
<1>1. PICK line \in {Partial} \cup LogLine : log' = [log EXCEPT ![f] = Append(Complete(@), line)]
  <2>1. PICK line \in {Partial} \cup {Context(m) : m \in CodexModel}
                     \cup {Count(t, current) : t \in Total} :
          log' = [log EXCEPT ![f] = Append(Complete(@), line)]
    BY DEF WriteLine
  <2>2. line \in {Partial} \cup LogLine
    BY DEF LogLine
  <2> QED BY <2>1, <2>2
<1>2. /\ log' = [g \in Session |-> log'[g]] /\ log'[f] = Append(Whole(f), line)
      /\ \A g \in Session : g # f => log'[g] = log[g]
  BY <1>1 DEF LogsOK, Whole
<1>3. Whole(f) \in Seq(LogLine) /\ Whole(f)' = Complete(Append(Whole(f), line))
  BY <1>2 DEF LogsOK, Whole
<1> DEFINE earlier == Whole(f)
<1>4. \A g \in Session : g # f => Whole(g)' = Whole(g) /\ log'[g] \in {Whole(g), Append(Whole(g), Partial)}
  BY <1>2 DEF LogsOK, Whole
<1>5. \/ Whole(f)' = earlier /\ log'[f] = Append(earlier, Partial)
      \/ Whole(f)' = log'[f] /\ line \in LogLine
  <2>1. CASE line = Partial
    <3>1. Complete(Append(Whole(f), Partial)) = Whole(f)
      BY <1>3, CompleteOf
    <3> QED BY <1>2, <1>3, <2>1, <3>1
  <2>2. CASE line \in LogLine
    <3>1. Append(earlier, line) \in Seq(LogLine)
      BY <1>3, <2>2
    <3> QED BY <1>2, <1>3, <2>2, <3>1, CompleteOf
  <2> QED BY <2>1, <2>2
<1> HIDE DEF earlier
<1>6. Longer(earlier, Whole(f)')
  <2>1. earlier \in Seq(LogLine)
    BY <1>3 DEF earlier
  <2>2. Longer(earlier, earlier)
    BY <2>1 DEF Longer
  <2>3. line \in LogLine => Longer(earlier, Append(earlier, line))
    BY <2>1 DEF Longer
  <2> QED BY <1>2, <1>5, <2>2, <2>3 DEF earlier
<1>7. \A g \in Session : Longer(Whole(g), Whole(g)')
  <2>1. \A g \in Session : Whole(g) \in Seq(LogLine)
    BY DEF LogsOK
  <2>2. \A g \in Session : g # f => Longer(Whole(g), Whole(g)')
    BY <1>4, <2>1 DEF Longer
  <2> QED BY <1>6, <2>2 DEF earlier
<1>8. \A g \in Session : Whole(g)' \in Seq(LogLine) /\ log'[g] \in {Whole(g)', Append(Whole(g)', Partial)}
  <2>1. \A g \in Session : Whole(g)' \in Seq(LogLine)
    BY <1>7 DEF Longer
  <2>2. log'[f] \in {Whole(f)', Append(Whole(f)', Partial)}
    BY <1>5
  <2>3. \A g \in Session : g # f => log'[g] \in {Whole(g)', Append(Whole(g)', Partial)}
    BY <1>4
  <2> QED BY <2>1, <2>2, <2>3
<1>9. LogsOK'
  BY <1>2, <1>8 DEF LogsOK
<1> QED BY <1>7, <1>9

\* What the first lines say is the same in a longer log.
LEMMA ReplayedLonger ==
  ASSUME NEW lines, NEW more, Longer(lines, more), NEW n \in Nat, n <= Len(lines), NEW e
  PROVE  /\ n <= Len(more)
         /\ Replayed(e, lines, n) => Replayed(e, more, n)
         /\ \A k : SaidIn(more, n, k) = SaidIn(lines, n, k)
<1>1. /\ lines \in Seq(LogLine) /\ more \in Seq(LogLine) /\ n <= Len(more)
      /\ \A i \in 1..n : lines[i] = more[i]
  BY DEF Longer
<1>2. n + 1 \in 1..(n + 1)
  OBVIOUS
<1>3. ModelOf(lines, n + 1) = ModelOf(more, n + 1) /\ TotalBefore(lines, n + 1) = TotalBefore(more, n + 1)
  BY <1>1, <1>2, LinesAgree
<1>4. \A k : SaidIn(more, n, k) = SaidIn(lines, n, k)
  BY <1>1, SaidAgrees
<1> QED BY <1>1, <1>3, <1>4 DEF Replayed

CodexInv == current \in Date /\ LogsOK /\ EntriesOK

\* At the start no log has an entry.
LEMMA EntriesBegin ==
  ASSUME CodexInit
  PROVE  CodexInv
<1>1. /\ log = [f \in Session |-> <<>>] /\ current = 0 /\ cache = [f \in Session |-> NoEntry]
  BY DEF CodexInit
<1>2. <<>> \in Seq(LogLine) /\ Complete(<<>>) = <<>>
  <2>1. <<>> \in Seq(LogLine)
    OBVIOUS
  <2> QED BY <2>1, CompleteOf
<1>3. LogsOK
  BY <1>1, <1>2 DEF LogsOK, Whole
<1>4. EntriesOK
  BY <1>1 DEF EntriesOK
<1>5. current \in Date
  BY <1>1, CodexAssumption DEF Date
<1> QED BY <1>3, <1>4, <1>5 DEF CodexInv

\* No step takes an entry away from the replay of its log, unless that is
\* replaced unnoticed.
LEMMA EntriesStep ==
  ASSUME CodexInv, [CodexNext]_codexVars
  PROVE  CodexInv'
<1>0. current \in Date /\ LogsOK /\ EntriesOK
  BY DEF CodexInv
<1>1. ASSUME log' = log PROVE LogsOK' /\ \A f \in Session : Whole(f)' = Whole(f)
  BY <1>0, <1>1 DEF LogsOK, Whole
<1>2. ASSUME NEW f \in Session, WriteLine(f) PROVE CodexInv'
  <2>1. LogsOK' /\ \A g \in Session : Longer(Whole(g), Whole(g)')
    BY <1>0, <1>2, LineWritten
  <2>2. UNCHANGED <<current, cache, replaced>>
    BY <1>2 DEF WriteLine
  <2>3. EntriesOK'
    <3> SUFFICES ASSUME NEW g \in Session, cache[g] # NoEntry
                 PROVE  /\ cache[g] \in Entry
                        /\ g \notin replaced => /\ cache[g].offset <= Len(Whole(g)')
                                               /\ Replayed(cache[g], Whole(g)', cache[g].offset)
      BY <1>0, <2>2 DEF EntriesOK
    <3>1. /\ cache[g] \in Entry
          /\ g \notin replaced => /\ cache[g].offset <= Len(Whole(g))
                                 /\ Replayed(cache[g], Whole(g), cache[g].offset)
      BY <1>0 DEF EntriesOK
    <3>2. cache[g].offset \in Nat
      BY <3>1 DEF Entry
    <3>3. ASSUME g \notin replaced
          PROVE  cache[g].offset <= Len(Whole(g)') /\ Replayed(cache[g], Whole(g)', cache[g].offset)
      <4> DEFINE earlier == Whole(g)
                 more == Whole(g)'
                 e   == cache[g]
                 n   == e.offset
      <4>1. Longer(earlier, more) /\ n \in Nat /\ n <= Len(earlier) /\ Replayed(e, earlier, n)
        BY <2>1, <3>1, <3>2, <3>3
      <4> HIDE DEF earlier, more, e, n
      <4>2. n <= Len(more) /\ Replayed(e, more, n)
        BY <4>1, ReplayedLonger
      <4> QED BY <4>2 DEF n, e, more
    <3> QED BY <3>1, <3>3
  <2> QED BY <1>0, <2>1, <2>2, <2>3 DEF CodexInv
<1>3. ASSUME NEW f \in Session, ReplaceLog(f) PROVE CodexInv'
  <2>1. /\ log' = [log EXCEPT ![f] = <<>>] /\ UNCHANGED <<current, cache>>
        /\ replaced' = IF cache[f] # NoEntry /\ cache[f].offset > 0 THEN replaced \cup {f} ELSE replaced
    BY <1>3 DEF ReplaceLog
  <2>2. <<>> \in Seq(LogLine) /\ Complete(<<>>) = <<>>
    <3>1. <<>> \in Seq(LogLine)
      OBVIOUS
    <3> QED BY <3>1, CompleteOf
  <2>3. /\ log' = [g \in Session |-> log'[g]] /\ log'[f] = <<>> /\ Whole(f)' = <<>>
        /\ \A g \in Session : g # f => log'[g] = log[g] /\ Whole(g)' = Whole(g)
    BY <1>0, <2>1, <2>2 DEF LogsOK, Whole
  <2>4. LogsOK'
    BY <1>0, <2>2, <2>3 DEF LogsOK
  <2>5. EntriesOK'
    <3>1. ASSUME NEW g \in Session, cache[g] # NoEntry, g # f
          PROVE  /\ cache[g] \in Entry
                 /\ g \notin replaced' => /\ cache[g].offset <= Len(Whole(g)')
                                         /\ Replayed(cache[g], Whole(g)', cache[g].offset)
      BY <1>0, <2>1, <2>3, <3>1 DEF EntriesOK
    <3>2. ASSUME cache[f] # NoEntry
          PROVE  /\ cache[f] \in Entry
                 /\ f \notin replaced' => /\ cache[f].offset <= Len(Whole(f)')
                                         /\ Replayed(cache[f], Whole(f)', cache[f].offset)
      <4>1. cache[f] \in Entry /\ cache[f].offset \in Nat
        BY <1>0, <3>2 DEF EntriesOK, Entry
      <4> SUFFICES ASSUME f \notin replaced'
                   PROVE  /\ cache[f].offset <= Len(Whole(f)')
                          /\ Replayed(cache[f], Whole(f)', cache[f].offset)
        BY <4>1
      <4>2. f \notin replaced /\ ~(cache[f].offset > 0)
        BY <2>1, <3>2
      <4>3. cache[f].offset = 0 /\ Len(<<>>) = 0
        BY <4>1, <4>2
      <4>4. Replayed(cache[f], Whole(f), 0)
        BY <1>0, <3>2, <4>2, <4>3 DEF EntriesOK
      <4>5. Longer(<<>>, Whole(f)) /\ 0 <= Len(<<>>) /\ <<>> \in Seq(LogLine)
        BY <1>0 DEF Longer, LogsOK
      <4>6. ModelOf(<<>>, 1) = ModelOf(Whole(f), 1) /\ TotalBefore(<<>>, 1) = TotalBefore(Whole(f), 1)
            /\ \A k : SaidIn(<<>>, 0, k) = SaidIn(Whole(f), 0, k)
        <5>1. Replayed(EmptyEntry, <<>>, 0) /\ Replayed(EmptyEntry, Whole(f), 0) /\ 0 + 1 = 1
          BY ReplayedNothing
        <5>2. \A k : SaidIn(<<>>, 0, k) = 0 /\ SaidIn(Whole(f), 0, k) = 0
          BY ReplayedNothing
        <5> QED BY <5>1, <5>2 DEF Replayed
      <4>7. Replayed(cache[f], <<>>, 0)
        BY <4>4, <4>6 DEF Replayed
      <4> QED BY <2>3, <4>3, <4>7
    <3>3. cache' = [g \in Session |-> cache'[g]]
      BY <1>0, <2>1 DEF EntriesOK
    <3> QED BY <2>1, <3>1, <3>2, <3>3 DEF EntriesOK
  <2> QED BY <1>0, <2>1, <2>4, <2>5 DEF CodexInv
<1>4. ASSUME UNCHANGED <<log, cache, replaced>>, current' \in Date PROVE CodexInv'
  <2>1. EntriesOK'
    BY <1>0, <1>1, <1>4 DEF EntriesOK
  <2> QED BY <1>1, <1>4, <2>1 DEF CodexInv
<1>5. CASE NextDate
  <2>1. current < LastDate /\ current' = current + 1 /\ UNCHANGED <<log, cache, replaced>>
    BY <1>5 DEF NextDate
  <2>2. current' \in Date
    BY <1>0, <2>1, CodexAssumption DEF Date
  <2> QED BY <1>4, <2>1, <2>2
<1>6. ASSUME \/ \E f \in Session : EndProcess(f)
             \/ \E t \in Snapshot : Discover(t) \/ GiveReport(t)
             \/ UNCHANGED codexVars
      PROVE  CodexInv'
  <2>1. UNCHANGED <<log, cache, replaced, current>>
    BY <1>6 DEF EndProcess, Discover, GiveReport, codexVars
  <2> QED BY <1>0, <1>4, <2>1
<1>7. ASSUME NEW t \in Snapshot, LockCache(t) PROVE CodexInv'
  <2> DEFINE kept == Retain(snap[t])
  <2>1. /\ cache' = [f \in Session |-> IF f \in kept THEN cache[f] ELSE NoEntry]
        /\ replaced' = replaced \cap kept /\ UNCHANGED <<log, current>>
    BY <1>7 DEF LockCache
  <2> HIDE DEF kept
  <2>2. EntriesOK'
    <3>1. \A f \in Session : cache'[f] # NoEntry => cache'[f] = cache[f] /\ f \in kept
      BY <2>1
    <3>2. \A f \in kept : f \notin replaced' => f \notin replaced
      BY <2>1
    <3>3. cache' = [f \in Session |-> cache'[f]]
      BY <2>1
    <3> QED BY <1>0, <1>1, <2>1, <3>1, <3>2, <3>3 DEF EntriesOK
  <2> QED BY <1>0, <1>1, <2>1, <2>2 DEF CodexInv
<1>8. ASSUME NEW t \in Snapshot, ReadLog(t) PROVE CodexInv'
  <2>1. PICK f \in snap[t].todo :
          /\ cache' = [cache EXCEPT ![f] = Refreshed(@, log[f])]
          /\ replaced' = IF cache[f] # NoEntry /\ Len(Complete(log[f])) < cache[f].offset
                         THEN replaced \ {f} ELSE replaced
          /\ UNCHANGED <<log, current>>
    BY <1>8 DEF ReadLog
  <2>2. CASE f \in Session
    <3>1. /\ cache' = [g \in Session |-> cache'[g]] /\ cache'[f] = Refreshed(cache[f], log[f])
          /\ \A g \in Session : g # f => cache'[g] = cache[g] /\ (g \in replaced' <=> g \in replaced)
      BY <1>0, <2>1, <2>2 DEF EntriesOK
    <3>2. /\ Whole(f) \in Seq(LogLine) /\ Whole(f) = Complete(log[f])
          /\ cache[f] # NoEntry => cache[f] \in Entry
      BY <1>0, <2>2 DEF LogsOK, EntriesOK, Whole
    <3>3. /\ cache'[f] \in Entry /\ cache'[f].offset = Len(Whole(f))
          /\ cache[f] = NoEntry \/ Len(Whole(f)) < cache[f].offset \/ Replayed(cache[f], Whole(f), cache[f].offset)
               => Replayed(cache'[f], Whole(f), Len(Whole(f)))
      BY <3>1, <3>2, RefreshedReplays
    <3>4. f \notin replaced' => \/ cache[f] = NoEntry \/ Len(Whole(f)) < cache[f].offset
                               \/ Replayed(cache[f], Whole(f), cache[f].offset)
      BY <1>0, <2>1, <2>2, <3>2 DEF EntriesOK
    <3>5. Whole(f)' = Whole(f) /\ Len(Whole(f)) <= Len(Whole(f))
      BY <1>1, <2>1, <2>2, <3>2
    <3>6. EntriesOK'
      BY <1>0, <1>1, <2>1, <3>1, <3>3, <3>4, <3>5 DEF EntriesOK
    <3> QED BY <1>0, <1>1, <2>1, <3>6 DEF CodexInv
  <2>3. CASE f \notin Session
    <3>1. cache' = cache /\ \A g \in Session : g \in replaced' <=> g \in replaced
      BY <1>0, <2>1, <2>3 DEF EntriesOK
    <3>2. EntriesOK'
      BY <1>0, <1>1, <2>1, <3>1 DEF EntriesOK
    <3> QED BY <1>0, <1>1, <2>1, <3>2 DEF CodexInv
  <2> QED BY <2>2, <2>3
<1>9. ASSUME NEW t \in Snapshot, ReadFails(t) PROVE CodexInv'
  <2>1. PICK f \in snap[t].todo :
          /\ cache' = [cache EXCEPT ![f] = IF @ = NoEntry THEN EmptyEntry ELSE @]
          /\ UNCHANGED <<log, current, replaced>>
    BY <1>9 DEF ReadFails
  <2>2. /\ cache' = [g \in Session |-> cache'[g]]
        /\ \A g \in Session : \/ cache'[g] = cache[g]
                              \/ cache'[g] = EmptyEntry
    BY <1>0, <2>1 DEF EntriesOK
  <2>3. \A g \in Session : Whole(g)' = Whole(g) /\ 0 <= Len(Whole(g))
    BY <1>0, <1>1, <2>1 DEF LogsOK
  <2>4. EntriesOK'
    BY <1>0, <2>1, <2>2, <2>3, ReplayedNothing DEF EntriesOK
  <2> QED BY <1>0, <1>1, <2>1, <2>4 DEF CodexInv
<1> QED BY <1>2, <1>3, <1>5, <1>6, <1>7, <1>8, <1>9 DEF CodexNext

(***************************************************************************)
(* For any logs, models, totals and snapshots: what the cache holds of a   *)
(* log is what the log's first offset lines say, each counted once,        *)
(* however the reads were cut (local_codex.rs:137-147, 350-376, 409-457),  *)
(* except of a file replaced and grown past the offset between two reads.  *)
(***************************************************************************)
THEOREM CacheIsReplayHolds == CodexSpec => []CacheIsReplay
<1>1. CodexInit => CodexInv
  BY EntriesBegin
<1>2. CodexInv /\ [CodexNext]_codexVars => CodexInv'
  BY EntriesStep
<1>3. CodexInv => CacheIsReplay
  <2> SUFFICES ASSUME CodexInv, NEW f \in Session, f \notin replaced, cache[f] # NoEntry
               PROVE  /\ cache[f].offset <= Len(log[f])
                      /\ \A k \in Key : cache[f].days[k] = SaidFirst(f, cache[f].offset, k)
    BY DEF CacheIsReplay, Key
  <2> DEFINE n == cache[f].offset
  <2>1. /\ cache[f] \in Entry /\ n <= Len(Whole(f)) /\ Replayed(cache[f], Whole(f), n)
        /\ Whole(f) \in Seq(LogLine) /\ log[f] \in {Whole(f), Append(Whole(f), Partial)}
    BY DEF CodexInv, LogsOK, EntriesOK
  <2>2. n \in Nat /\ Len(Append(Whole(f), Partial)) = Len(Whole(f)) + 1 /\ Len(Whole(f)) \in Nat
    <3>1. Whole(f) \in Seq(LogLine \cup {Partial})
      BY <2>1
    <3> QED BY <2>1, <3>1 DEF Entry
  <2>3. \A k : SaidFirst(f, n, k) = SaidIn(Whole(f), n, k)
    BY <2>1, <2>2, SaidOfFirst DEF SaidFirst, Whole
  <2>4. n <= Len(log[f])
    BY <2>1, <2>2
  <2> QED BY <2>1, <2>3, <2>4 DEF Replayed
<1> QED BY <1>1, <1>2, <1>3, PTL DEF CodexSpec
-----------------------------------------------------------------------------
\* What is read of f since s looked for it: at least the lines s must count;
\* or, while the day is the same, they say nothing of the days it gives.
Covered(s, f) ==
  \/ cache[f] # NoEntry /\ s.from[f] <= cache[f].offset
  \/ s.date = current =>
       \A k \in Key : k[1] >= s.date - ReportDays => SaidIn(Whole(f), s.from[f], k) = 0

SnapTyped(s) ==
  /\ s = [at |-> s.at, date |-> s.date, tracked |-> s.tracked, todo |-> s.todo, from |-> s.from]
  /\ s.date \in Nat /\ s.date <= current
  /\ s.tracked \subseteq Session /\ s.todo \subseteq s.tracked /\ s.from \in [Session -> Nat]
  /\ s.at # "reading" => s.todo = s.tracked
LogCovered(s, f) ==
  /\ s.from[f] <= Len(Whole(f))
  /\ f \in replaced /\ f \notin s.tracked => s.from[f] = 0
  /\ f \notin s.todo => Covered(s, f)
SnapOK(s) == SnapTyped(s) /\ \A f \in Session : LogCovered(s, f)

SnapsOK ==
  /\ snap = [t \in Snapshot |-> snap[t]] /\ running \subseteq Session
  /\ \A t \in Snapshot : SnapOK(snap[t]) /\ (snap[t].at = "reading" => holder = t)

ReportInv == CodexInv /\ SnapsOK

\* A snapshot that has nothing to count of f.
LEMMA NothingToCount ==
  ASSUME NEW s, NEW f, s.from[f] = 0
  PROVE  Covered(s, f) /\ Covered(s, f)'
BY ReplayedNothing DEF Covered

\* A task without a snapshot has nothing to count.
LEMMA IdleOK ==
  ASSUME CodexInv
  PROVE  SnapOK(Idle) /\ Idle.at = "idle"
<1>1. /\ Idle.at = "idle" /\ Idle.date = 0 /\ Idle.tracked = {} /\ Idle.todo = {}
      /\ Idle.from = [f \in Session |-> 0]
      /\ Idle = [at |-> Idle.at, date |-> Idle.date, tracked |-> Idle.tracked, todo |-> Idle.todo,
                 from |-> Idle.from]
  BY DEF Idle
<1>2. 0 <= current
  BY CodexAssumption DEF CodexInv, Date
<1>3. SnapTyped(Idle)
  BY <1>1, <1>2 DEF SnapTyped
<1>4. ASSUME NEW f \in Session PROVE LogCovered(Idle, f)
  <2>1. Idle.from[f] = 0 /\ Len(Whole(f)) \in Nat
    BY <1>1 DEF CodexInv, LogsOK
  <2> QED BY <2>1, NothingToCount DEF LogCovered
<1> QED BY <1>1, <1>3, <1>4 DEF SnapOK

\* While logs grow and entries with them, a snapshot's remains good.
Grows(f) ==
  /\ Longer(Whole(f), Whole(f)')
  /\ f \in replaced' => f \in replaced
  /\ cache[f] # NoEntry => /\ cache'[f] # NoEntry
                           /\ cache'[f] = cache[f] \/ cache'[f].offset = Len(Whole(f))

\* Of one log: what is read of it stays enough,
LEMMA CoveredKept ==
  ASSUME CodexInv, NEW s, SnapTyped(s), NEW f \in Session, LogCovered(s, f), Grows(f),
         current' \in Nat, current <= current'
  PROVE  LogCovered(s, f)'
<1>1. /\ Whole(f) \in Seq(LogLine) /\ Whole(f)' \in Seq(LogLine) /\ Len(Whole(f)) <= Len(Whole(f)')
      /\ Longer(Whole(f), Whole(f)')
  BY DEF Grows, Longer
<1>2. s.from[f] \in Nat /\ s.from[f] <= Len(Whole(f)) /\ current \in Int /\ s.date <= current /\ s.date \in Nat
  BY CodexAssumption DEF SnapTyped, LogCovered, CodexInv, Date
<1>3. \A k : SaidIn(Whole(f)', s.from[f], k) = SaidIn(Whole(f), s.from[f], k)
  <2> DEFINE earlier == Whole(f)
             more == Whole(f)'
             n == s.from[f]
  <2>1. Longer(earlier, more) /\ n \in Nat /\ n <= Len(earlier)
    BY <1>1, <1>2
  <2> HIDE DEF earlier, more, n
  <2>2. \A k : SaidIn(more, n, k) = SaidIn(earlier, n, k)
    BY <2>1, ReplayedLonger
  <2> QED BY <2>2 DEF earlier, more, n
<1>4. Covered(s, f) => Covered(s, f)'
  <2>1. CASE cache[f] # NoEntry /\ s.from[f] <= cache[f].offset
    BY <1>2, <2>1 DEF Grows, Covered
  <2>2. CASE s.date = current => \A k \in Key : k[1] >= s.date - ReportDays => SaidIn(Whole(f), s.from[f], k) = 0
    <3>1. s.date = current' => s.date = current
      BY <1>2
    <3> QED BY <1>3, <2>2, <3>1 DEF Covered
  <2> QED BY <2>1, <2>2 DEF Covered
<1>5. s.from[f] <= Len(Whole(f)')
  BY <1>1, <1>2
<1> QED BY <1>4, <1>5 DEF LogCovered, Grows

\* and so of all of them.
LEMMA SnapKept ==
  ASSUME CodexInv, NEW s, SnapOK(s), \A f \in Session : Grows(f), current' \in Nat, current <= current'
  PROVE  SnapOK(s)'
<1>1. SnapTyped(s) /\ \A f \in Session : LogCovered(s, f)
  BY DEF SnapOK
<1>2. SnapTyped(s)'
  <2>1. s.date \in Nat /\ s.date <= current /\ current \in Int
    BY <1>1, CodexAssumption DEF SnapTyped, CodexInv, Date
  <2>2. s.date <= current'
    BY <2>1
  <2> QED BY <1>1, <2>2 DEF SnapTyped
<1>3. \A f \in Session : LogCovered(s, f)'
  BY <1>1, CoveredKept
<1> QED BY <1>2, <1>3 DEF SnapOK

\* What an unchanged log, entry and mark of a replaced one mean.
LEMMA GrowsByNothing ==
  ASSUME CodexInv, NEW f \in Session, log' = log, cache'[f] = cache[f], f \in replaced' => f \in replaced
  PROVE  Grows(f)
<1>1. Whole(f)' = Whole(f) /\ Whole(f) \in Seq(LogLine)
  BY DEF CodexInv, LogsOK, Whole
<1> QED BY <1>1 DEF Grows, Longer

\* The step of a snapshot t: the others keep what they hold.
LEMMA OthersKept ==
  ASSUME ReportInv, NEW t \in Snapshot, NEW later, snap' = [snap EXCEPT ![t] = later],
         \A f \in Session : Grows(f), current' = current, running' = running,
         SnapOK(later)', later.at = "reading" => holder' = t,
         holder' = holder \/ holder = t \/ holder = Unknown
  PROVE  SnapsOK'
<1>1. /\ snap' = [u \in Snapshot |-> snap'[u]] /\ snap'[t] = later
      /\ \A u \in Snapshot : u # t => snap'[u] = snap[u]
  BY DEF ReportInv, SnapsOK
<1>2. \A u \in Snapshot : SnapOK(snap[u]) /\ (snap[u].at = "reading" => holder = u)
  BY DEF ReportInv, SnapsOK
<1>3. current' \in Nat /\ current <= current'
  BY CodexAssumption DEF ReportInv, CodexInv, Date
<1>4. ASSUME NEW u \in Snapshot
      PROVE  SnapOK(snap[u])' /\ (snap'[u].at = "reading" => holder' = u)
  <2>1. CASE u = t
    BY <1>1, <2>1
  <2>2. CASE u # t
    <3>1. PICK s : s = snap[u] /\ s = snap'[u]
      BY <1>1, <2>2
    <3>2. SnapOK(s) /\ CodexInv
      BY <1>2, <3>1 DEF ReportInv
    <3>3. s.at = "reading" => holder' = u
      BY <1>2, <2>2, <3>1, CodexAssumption
    <3>4. SnapOK(s)'
      BY <1>3, <3>2, SnapKept
    <3> QED BY <3>1, <3>3, <3>4
  <2> QED BY <2>1, <2>2
<1>5. running' \subseteq Session
  BY DEF ReportInv, SnapsOK
<1> QED BY <1>1, <1>4, <1>5 DEF SnapsOK

\* A step of the logs, the processes or the calendar.
LEMMA AllKept ==
  ASSUME ReportInv, UNCHANGED <<snap, holder>>, running' \subseteq running,
         \A f \in Session : Grows(f), current' \in Nat, current <= current'
  PROVE  SnapsOK'
<1>1. ASSUME NEW u \in Snapshot PROVE SnapOK(snap[u])'
  <2>1. PICK s : s = snap[u] /\ s = snap'[u]
    OBVIOUS
  <2>2. SnapOK(s) /\ CodexInv
    BY <2>1 DEF ReportInv, SnapsOK
  <2>3. SnapOK(s)'
    BY <2>2, SnapKept
  <2> QED BY <2>1, <2>3
<1> QED BY <1>1 DEF ReportInv, SnapsOK

\* Another from, or fewer logs to read, of a snapshot.
LEMMA SnapChanged ==
  ASSUME NEW s, NEW f \in Session, SnapTyped(s)',
         \A g \in Session : g # f => LogCovered(s, g)',
         NEW todo, s.at = "reading" \/ todo = s.todo, todo \subseteq s.todo, s.todo \ {f} \subseteq todo,
         NEW from \in [Session -> Nat], \A g \in Session : g # f => from[g] = s.from[g],
         NEW later, later = [at |-> s.at, date |-> s.date, tracked |-> s.tracked, todo |-> todo, from |-> from],
         LogCovered(later, f)'
  PROVE  SnapOK(later)' /\ later.at = s.at
<1>1. /\ later.at = s.at /\ later.date = s.date /\ later.tracked = s.tracked /\ later.todo = todo /\ later.from = from
      /\ later = [at |-> later.at, date |-> later.date, tracked |-> later.tracked, todo |-> later.todo, from |-> later.from]
  OBVIOUS
<1>2. SnapTyped(later)'
  BY <1>1 DEF SnapTyped
<1>3. ASSUME NEW g \in Session, g # f PROVE LogCovered(later, g)'
  BY <1>1, <1>3 DEF LogCovered, Covered
<1> QED BY <1>1, <1>2, <1>3 DEF SnapOK

\* A snapshot that has found its logs: those tracked are all to be read.
LEMMA ReportDiscover ==
  ASSUME ReportInv, NEW t \in Snapshot, Discover(t)
  PROVE  SnapsOK'
<1>1. PICK later : later =
        [at |-> "found", date |-> current, tracked |-> TrackedFiles, todo |-> TrackedFiles,
         from |-> [f \in Session |->
                     IF f \in TrackedFiles THEN Len(Complete(log[f]))
                     ELSE IF cache[f] = NoEntry \/ f \in replaced THEN 0 ELSE cache[f].offset]]
  OBVIOUS
<1>2. /\ later.at = "found" /\ later.date = current /\ later.tracked = TrackedFiles /\ later.todo = TrackedFiles
      /\ later.from = [f \in Session |->
                     IF f \in TrackedFiles THEN Len(Whole(f))
                     ELSE IF cache[f] = NoEntry \/ f \in replaced THEN 0 ELSE cache[f].offset]
      /\ later = [at |-> later.at, date |-> later.date, tracked |-> later.tracked, todo |-> later.todo, from |-> later.from]
  BY <1>1 DEF Whole
<1>3. /\ snap' = [snap EXCEPT ![t] = later]
      /\ UNCHANGED <<log, running, current, cache, holder, replaced>>
  BY <1>1 DEF Discover
<1>4. /\ current \in Nat /\ TrackedFiles \subseteq Session /\ \A f \in Session : Len(Whole(f)) \in Nat
      /\ \A f \in Session : cache[f] # NoEntry =>
           /\ cache[f].offset \in Nat
           /\ f \notin replaced => cache[f].offset <= Len(Whole(f))
  BY CodexAssumption DEF ReportInv, SnapsOK, CodexInv, Date, TrackedFiles, LogsOK, EntriesOK, Entry
<1>5. ASSUME NEW f \in Session PROVE later.from[f] \in Nat /\ LogCovered(later, f)
  <2>1. CASE f \in TrackedFiles
    BY <1>2, <1>4, <2>1 DEF LogCovered
  <2>2. CASE f \notin TrackedFiles /\ (cache[f] = NoEntry \/ f \in replaced)
    <3>1. later.from[f] = 0
      BY <1>2, <2>2
    <3> QED BY <1>4, <3>1, NothingToCount DEF LogCovered
  <2>3. CASE f \notin TrackedFiles /\ cache[f] # NoEntry /\ f \notin replaced
    BY <1>2, <1>4, <2>3 DEF LogCovered, Covered
  <2> QED BY <2>1, <2>2, <2>3
<1>6. SnapTyped(later)
  BY <1>2, <1>4, <1>5 DEF SnapTyped
<1>7. SnapOK(later)
  BY <1>5, <1>6 DEF SnapOK
<1>8. \A f \in Session : Grows(f)
  BY <1>3, GrowsByNothing DEF ReportInv
<1>9. SnapOK(later)'
  BY <1>3, <1>4, <1>7, <1>8, SnapKept DEF ReportInv
<1> QED BY <1>2, <1>3, <1>8, <1>9, OthersKept

\* The report given, its task is idle.
LEMMA ReportGiven ==
  ASSUME ReportInv, NEW t \in Snapshot, GiveReport(t)
  PROVE  SnapsOK'
<1>1. /\ snap' = [snap EXCEPT ![t] = Idle] /\ holder' = Unknown /\ holder = t
      /\ UNCHANGED <<log, running, current, cache, replaced>>
  BY DEF GiveReport, ReportInv, SnapsOK
<1>2. \A f \in Session : Grows(f)
  BY <1>1, GrowsByNothing DEF ReportInv
<1>3. PICK later : later = Idle
  OBVIOUS
<1>4. SnapOK(later) /\ later.at = "idle" /\ current \in Nat /\ current <= current
  BY <1>3, IdleOK, CodexAssumption DEF ReportInv, CodexInv, Date
<1>5. SnapOK(later)'
  BY <1>1, <1>2, <1>4, SnapKept DEF ReportInv
<1> QED BY <1>1, <1>2, <1>3, <1>4, <1>5, OthersKept

\* Of a log that begins anew, nothing is to be counted.
LEMMA ReportReplace ==
  ASSUME ReportInv, CodexInv', NEW f \in Session, ReplaceLog(f)
  PROVE  SnapsOK'
<1>1. /\ log' = [log EXCEPT ![f] = <<>>]
      /\ \A g \in Session : g # f => (g \in replaced' => g \in replaced)
      /\ snap' = [t \in Snapshot |-> [snap[t] EXCEPT !.from[f] = 0]]
      /\ UNCHANGED <<running, current, cache, holder>>
  BY DEF ReplaceLog
<1>2. ASSUME NEW g \in Session, g # f PROVE Grows(g)
  <2>1. Whole(g)' = Whole(g) /\ Whole(g) \in Seq(LogLine)
    BY <1>1, <1>2 DEF ReportInv, CodexInv, LogsOK, Whole
  <2> QED BY <1>1, <1>2, <2>1 DEF Grows, Longer
<1>3. ASSUME NEW t \in Snapshot
      PROVE  SnapOK(snap[t])' /\ (snap'[t].at = "reading" => holder' = t)
  <2>1. PICK s : s = snap[t]
    OBVIOUS
  <2>2. SnapTyped(s) /\ (\A g \in Session : LogCovered(s, g)) /\ (s.at = "reading" => holder = t)
    BY <2>1 DEF ReportInv, SnapsOK, SnapOK
  <2> DEFINE from == [g \in Session |-> IF g = f THEN 0 ELSE s.from[g]]
  <2>3. PICK later : later = [at |-> s.at, date |-> s.date, tracked |-> s.tracked, todo |-> s.todo, from |-> from]
    OBVIOUS
  <2>4. snap'[t] = later
    <3>1. snap'[t] = [s EXCEPT !.from[f] = 0]
      BY <1>1, <2>1
    <3>2. [s.from EXCEPT ![f] = 0] = from
      BY <2>2 DEF SnapTyped
    <3> QED BY <2>2, <2>3, <3>1, <3>2 DEF SnapTyped
  <2>5. SnapTyped(s)' /\ current \in Nat
    BY <1>1, <2>2, CodexAssumption DEF SnapTyped, ReportInv, CodexInv, Date
  <2>6. \A g \in Session : g # f => LogCovered(s, g)'
    BY <1>1, <1>2, <2>2, <2>5, CoveredKept DEF ReportInv
  <2>7. LogCovered(later, f)'
    <3>1. later.from[f] = 0 /\ Len(Whole(f)') \in Nat
      BY <2>3 DEF CodexInv, LogsOK
    <3> QED BY <3>1, NothingToCount DEF LogCovered
  <2>8. from \in [Session -> Nat] /\ \A g \in Session : g # f => from[g] = s.from[g]
    BY <2>2 DEF SnapTyped
  <2> HIDE DEF from
  <2>9. SnapOK(later)' /\ later.at = s.at
    BY <2>3, <2>5, <2>6, <2>7, <2>8, SnapChanged
  <2> QED BY <1>1, <2>2, <2>4, <2>9
<1> QED BY <1>1, <1>3 DEF SnapsOK, ReportInv

\* A log read is covered by its entry.
LEMMA ReportRead ==
  ASSUME ReportInv, CodexInv', NEW t \in Snapshot, ReadLog(t)
  PROVE  SnapsOK'
<1>1. PICK s : s = snap[t]
  OBVIOUS
<1>2. PICK f \in s.todo :
        /\ s.at = "reading" /\ cache' = [cache EXCEPT ![f] = Refreshed(@, log[f])]
        /\ replaced' = IF cache[f] # NoEntry /\ Len(Complete(log[f])) < cache[f].offset
                       THEN replaced \ {f} ELSE replaced
        /\ snap' = [snap EXCEPT ![t].todo = @ \ {f}]
        /\ UNCHANGED <<log, running, current, holder>>
  BY <1>1 DEF ReadLog
<1>3. SnapOK(s) /\ SnapTyped(s) /\ f \in Session /\ current \in Nat /\ holder = t
  BY <1>1, <1>2, CodexAssumption DEF ReportInv, SnapsOK, SnapOK, SnapTyped, CodexInv, Date
<1>4. /\ cache'[f] = Refreshed(cache[f], log[f]) /\ \A g \in Session : g # f => cache'[g] = cache[g]
      /\ \A g \in Session : Whole(g)' = Whole(g) /\ Whole(g) \in Seq(LogLine)
  BY <1>2, <1>3 DEF ReportInv, CodexInv, LogsOK, EntriesOK, Whole
<1>5. cache'[f] # NoEntry /\ cache'[f].offset = Len(Whole(f))
  <2>1. Whole(f) = Complete(log[f]) /\ (cache[f] # NoEntry => cache[f] \in Entry)
    BY <1>3 DEF ReportInv, CodexInv, EntriesOK, Whole
  <2>2. Refreshed(cache[f], log[f]) \in Entry /\ Refreshed(cache[f], log[f]).offset = Len(Whole(f))
    BY <1>4, <2>1, <1>3, RefreshedReplays
  <2> QED BY <1>4, <2>2, CodexValues
<1>6. \A g \in Session : Grows(g)
  BY <1>2, <1>4, <1>5 DEF Grows, Longer
<1>7. SnapOK(s)'
  BY <1>2, <1>3, <1>6, SnapKept DEF ReportInv
<1> DEFINE todo == s.todo \ {f}
<1>8. PICK later : later = [at |-> s.at, date |-> s.date, tracked |-> s.tracked, todo |-> todo, from |-> s.from]
  OBVIOUS
<1>9. snap' = [snap EXCEPT ![t] = later]
  <2>1. snap' = [snap EXCEPT ![t] = [s EXCEPT !.todo = todo]]
    BY <1>1, <1>2
  <2>2. [s EXCEPT !.todo = todo] = later
    BY <1>3, <1>8 DEF SnapTyped
  <2> QED BY <2>1, <2>2
<1>10. LogCovered(later, f)'
  <2>1. LogCovered(s, f)' /\ later.from = s.from /\ later.tracked = s.tracked
    BY <1>3, <1>7, <1>8 DEF SnapOK
  <2>2. Covered(later, f)'
    BY <1>4, <1>5, <1>3, <2>1 DEF Covered, LogCovered
  <2> QED BY <2>1, <2>2 DEF LogCovered
<1>11. SnapTyped(s)' /\ (\A g \in Session : LogCovered(s, g)') /\ s.from \in [Session -> Nat]
  BY <1>3, <1>7 DEF SnapOK, SnapTyped
<1>12. todo \subseteq s.todo /\ s.todo \ {f} \subseteq todo
  OBVIOUS
<1> HIDE DEF todo
<1>13. SnapOK(later)' /\ later.at = s.at
  BY <1>2, <1>3, <1>8, <1>10, <1>11, <1>12, SnapChanged
<1> QED BY <1>2, <1>3, <1>6, <1>9, <1>13, OthersKept

\* A log that cannot be read is not to be counted.
LEMMA ReportFails ==
  ASSUME ReportInv, CodexInv', NEW t \in Snapshot, ReadFails(t)
  PROVE  SnapsOK'
<1>1. PICK s : s = snap[t]
  OBVIOUS
<1>2. PICK f \in s.todo :
        /\ s.at = "reading" /\ cache' = [cache EXCEPT ![f] = IF @ = NoEntry THEN EmptyEntry ELSE @]
        /\ snap' = [snap EXCEPT ![t] = [at |-> @.at, date |-> @.date, tracked |-> @.tracked,
                                        todo |-> @.todo \ {f}, from |-> [@.from EXCEPT ![f] = 0]]]
        /\ UNCHANGED <<log, running, current, holder, replaced>>
  BY <1>1 DEF ReadFails
<1>3. SnapOK(s) /\ SnapTyped(s) /\ f \in Session /\ current \in Nat /\ holder = t
  BY <1>1, <1>2, CodexAssumption DEF ReportInv, SnapsOK, SnapOK, SnapTyped, CodexInv, Date
<1>4. /\ \A g \in Session : cache[g] # NoEntry => cache'[g] = cache[g]
      /\ \A g \in Session : Whole(g)' = Whole(g) /\ Whole(g) \in Seq(LogLine)
  BY <1>2, <1>3 DEF ReportInv, CodexInv, LogsOK, EntriesOK, Whole
<1>6. \A g \in Session : Grows(g)
  BY <1>2, <1>4 DEF Grows, Longer
<1>7. SnapOK(s)'
  BY <1>2, <1>3, <1>6, SnapKept DEF ReportInv
<1> DEFINE todo == s.todo \ {f}
           from == [s.from EXCEPT ![f] = 0]
<1>8. PICK later : later = [at |-> s.at, date |-> s.date, tracked |-> s.tracked, todo |-> todo, from |-> from]
  OBVIOUS
<1>9. snap' = [snap EXCEPT ![t] = later]
  BY <1>1, <1>2, <1>8
<1>10. from \in [Session -> Nat] /\ from[f] = 0 /\ \A g \in Session : g # f => from[g] = s.from[g]
  BY <1>3 DEF SnapTyped
<1>11. LogCovered(later, f)'
  <2>1. later.from[f] = 0 /\ Len(Whole(f)') \in Nat
    BY <1>3, <1>8, <1>10, <1>4
  <2> QED BY <2>1, NothingToCount DEF LogCovered
<1>12. SnapTyped(s)' /\ (\A g \in Session : LogCovered(s, g)')
  BY <1>3, <1>7 DEF SnapOK
<1>13. todo \subseteq s.todo /\ s.todo \ {f} \subseteq todo
  OBVIOUS
<1> HIDE DEF todo, from
<1>14. SnapOK(later)' /\ later.at = s.at
  BY <1>2, <1>3, <1>8, <1>10, <1>11, <1>12, <1>13, SnapChanged
<1> QED BY <1>2, <1>3, <1>6, <1>9, <1>14, OthersKept

\* retain: what it drops says nothing of the days that any snapshot of today gives.
LEMMA DroppedSaysNothing ==
  ASSUME ReportInv, NEW t \in Snapshot, NEW s, SnapTyped(s), s.date = current,
         NEW f \in Session, LogCovered(s, f), f \notin Retain(snap[t]), f \notin replaced,
         cache[f] # NoEntry, s.from[f] <= cache[f].offset,
         NEW k \in Key, k[1] >= s.date - ReportDays
  PROVE  SaidIn(Whole(f), s.from[f], k) = 0
<1> DEFINE e == cache[f]
<1>1. /\ e \in Entry /\ e.offset <= Len(Whole(f)) /\ Replayed(e, Whole(f), e.offset)
      /\ Whole(f) \in Seq(LogLine)
  BY DEF ReportInv, CodexInv, EntriesOK, LogsOK
<1>2. /\ e.offset \in Nat /\ DOMAIN e.days = Key /\ e.days[k] \in Nat /\ k[1] \in Int
      /\ s.from[f] \in Nat /\ s.from[f] <= e.offset
  BY <1>1 DEF Entry, Key, SnapTyped, Date
<1>3. snap[t].date \in Nat /\ snap[t].date <= current /\ current \in Nat /\ ReportDays \in Nat
  BY CodexAssumption DEF ReportInv, SnapsOK, SnapOK, SnapTyped, CodexInv, Date
<1>4. k[1] >= snap[t].date - ReportDays
  BY <1>2, <1>3
<1>5. ~(e.days[k] > 0)
  BY <1>2, <1>4 DEF Retain
<1>6. SaidIn(Whole(f), e.offset, k) = 0
  BY <1>1, <1>2, <1>5 DEF Replayed
<1>7. /\ SaidIn(Whole(f), s.from[f], k) \in Nat
      /\ SaidIn(Whole(f), s.from[f], k) <= SaidIn(Whole(f), e.offset, k)
  <2> HIDE DEF e
  <2>1. s.from[f] <= Len(Whole(f)) /\ Len(Whole(f)) \in Nat
    BY <1>1 DEF LogCovered
  <2> QED BY <1>1, <1>2, <2>1, SaidNat, SaidGrows
<1> QED BY <1>6, <1>7

\* retain, for the other snapshots as for its own.
LEMMA ReportLock ==
  ASSUME ReportInv, NEW t \in Snapshot, LockCache(t)
  PROVE  SnapsOK'
<1> DEFINE kept == Retain(snap[t])
<1>1. /\ snap[t].at = "found" /\ holder = Unknown /\ holder' = t
      /\ cache' = [f \in Session |-> IF f \in kept THEN cache[f] ELSE NoEntry]
      /\ replaced' = replaced \cap kept
      /\ snap' = [snap EXCEPT ![t].at = "reading"]
      /\ UNCHANGED <<log, running, current>>
  BY DEF LockCache
<1>2. \A f \in Session : Whole(f)' = Whole(f)
  BY <1>1 DEF Whole
<1>3. ASSUME NEW s, SnapOK(s), s.at # "reading", NEW f \in Session PROVE LogCovered(s, f)'
  <2>1. SnapTyped(s) /\ LogCovered(s, f) /\ s.todo = s.tracked
    BY <1>3 DEF SnapOK, SnapTyped
  <2>2. ASSUME f \notin s.todo PROVE Covered(s, f)'
    <3>1. CASE f \in kept
      BY <1>1, <1>2, <2>1, <2>2, <3>1 DEF Covered, LogCovered
    <3>2. CASE f \in replaced
      <4>1. s.from[f] = 0
        BY <2>1, <2>2, <3>2 DEF LogCovered
      <4> QED BY <4>1, NothingToCount
    <3>3. CASE f \notin kept /\ f \notin replaced
      <4>1. ASSUME s.date = current, NEW k \in Key, k[1] >= s.date - ReportDays
            PROVE  SaidIn(Whole(f), s.from[f], k) = 0
        <5>1. CASE cache[f] # NoEntry /\ s.from[f] <= cache[f].offset
          BY <2>1, <3>3, <4>1, <5>1, DroppedSaysNothing
        <5>2. CASE ~(cache[f] # NoEntry /\ s.from[f] <= cache[f].offset)
          BY <2>1, <2>2, <4>1, <5>2 DEF LogCovered, Covered
        <5> QED BY <5>1, <5>2
      <4> QED BY <1>1, <1>2, <4>1 DEF Covered
    <3> QED BY <3>1, <3>2, <3>3
  <2> QED BY <1>1, <1>2, <2>1, <2>2 DEF LogCovered
<1> HIDE DEF kept
<1>4. ASSUME NEW u \in Snapshot
      PROVE  SnapOK(snap[u])' /\ (snap'[u].at = "reading" => holder' = u)
  <2>1. PICK s : s = snap[u]
    OBVIOUS
  <2>2. SnapOK(s) /\ s.at # "reading"
    BY <1>1, <2>1, CodexAssumption DEF ReportInv, SnapsOK
  <2>3. \A f \in Session : LogCovered(s, f)'
    BY <1>3, <2>2
  <2>4. SnapTyped(s)'
    BY <1>1, <2>2 DEF SnapOK, SnapTyped
  <2>5. CASE u # t
    <3>1. snap'[u] = s
      BY <1>1, <2>1, <2>5
    <3> QED BY <2>2, <2>3, <2>4, <3>1 DEF SnapOK
  <2>6. CASE u = t
    <3>1. PICK later : later = [at |-> "reading", date |-> s.date, tracked |-> s.tracked, todo |-> s.todo,
                            from |-> s.from]
      OBVIOUS
    <3>2. snap'[t] = later
      <4>1. snap'[t] = [s EXCEPT !.at = "reading"]
        BY <1>1, <2>1, <2>6 DEF ReportInv, SnapsOK
      <4> QED BY <2>4, <3>1, <4>1 DEF SnapTyped
    <3>3. /\ later.at = "reading" /\ later.date = s.date /\ later.tracked = s.tracked /\ later.todo = s.todo
          /\ later.from = s.from
          /\ later = [at |-> later.at, date |-> later.date, tracked |-> later.tracked, todo |-> later.todo,
                    from |-> later.from]
      BY <3>1
    <3>4. SnapTyped(later)'
      BY <2>4, <3>3 DEF SnapTyped
    <3>5. \A f \in Session : LogCovered(later, f)'
      BY <2>3, <3>3 DEF LogCovered, Covered
    <3>6. SnapOK(later)'
      BY <3>4, <3>5 DEF SnapOK
    <3> QED BY <1>1, <2>6, <3>2, <3>6
  <2> QED BY <2>5, <2>6
<1> QED BY <1>1, <1>4 DEF SnapsOK, ReportInv

\* Every step keeps what the snapshots under way rely on.
LEMMA ReportStep ==
  ASSUME ReportInv, [CodexNext]_codexVars
  PROVE  ReportInv'
<1>1. CodexInv /\ CodexInv'
  BY EntriesStep DEF ReportInv
<1>2. current \in Nat /\ current' \in Nat
  BY <1>1, CodexAssumption DEF CodexInv, Date
<1>3. ASSUME NEW f \in Session, WriteLine(f) PROVE SnapsOK'
  <2>1. UNCHANGED <<snap, holder, running, current, cache, replaced>>
    BY <1>3 DEF WriteLine
  <2>2. \A g \in Session : Grows(g)
    BY <1>1, <1>3, <2>1, LineWritten DEF Grows, CodexInv
  <2> QED BY <1>2, <2>1, <2>2, AllKept
<1>4. ASSUME \/ \E f \in Session : EndProcess(f)
             \/ NextDate
             \/ UNCHANGED codexVars
      PROVE  SnapsOK'
  <2>1. /\ UNCHANGED <<snap, holder, log, cache, replaced>> /\ running' \subseteq running
        /\ current' = current \/ current' = current + 1
    BY <1>4 DEF EndProcess, NextDate, codexVars
  <2>2. \A g \in Session : Grows(g)
    BY <1>1, <2>1, GrowsByNothing
  <2> QED BY <1>2, <2>1, <2>2, AllKept
<1>5. ASSUME NEW f \in Session, ReplaceLog(f) PROVE SnapsOK'
  BY <1>1, <1>5, ReportReplace
<1>6. ASSUME NEW t \in Snapshot, Discover(t) \/ LockCache(t) \/ ReadLog(t) \/ ReadFails(t) \/ GiveReport(t)
      PROVE  SnapsOK'
  BY <1>1, <1>6, ReportDiscover, ReportLock, ReportRead, ReportFails, ReportGiven
<1> QED BY <1>1, <1>3, <1>4, <1>5, <1>6 DEF CodexNext, ReportInv

\* Every entry read, a report lies between what its snapshot must count and all
\* that is said.
LEMMA ReportBetween ==
  ASSUME CodexInv, replaced = {}, NEW s, SnapOK(s), s.todo = {}, s.date = current,
         NEW k \in Key, k[1] >= s.date - ReportDays, NEW entries, entries = {f \in Session : cache[f] # NoEntry}
  PROVE  LET given == SumFunctionOnSet([f \in entries |-> cache[f].days[k]], entries)
         IN /\ given >= SumFunctionOnSet([f \in Session |-> SaidFirst(f, s.from[f], k)], Session)
            /\ given <= SumFunctionOnSet([f \in Session |-> Said(Complete(log[f]), k)], Session)
<1> DEFINE least == [f \in Session |-> SaidFirst(f, s.from[f], k)]
           most  == [f \in Session |-> Said(Complete(log[f]), k)]
           days  == [f \in Session |-> IF f \in entries THEN cache[f].days[k] ELSE 0]
           given == [f \in entries |-> cache[f].days[k]]
<1>1. ASSUME NEW f \in Session
      PROVE  /\ least[f] = SaidIn(Whole(f), s.from[f], k) /\ most[f] = SaidIn(Whole(f), Len(Whole(f)), k)
             /\ least[f] \in Nat /\ most[f] \in Nat /\ least[f] <= most[f]
  <2>1. /\ Whole(f) \in Seq(LogLine) /\ Len(Whole(f)) \in Nat /\ s.from[f] \in Nat
        /\ s.from[f] <= Len(Whole(f))
    BY DEF CodexInv, LogsOK, SnapOK, SnapTyped, LogCovered
  <2>2. /\ SaidIn(Whole(f), s.from[f], k) \in Nat /\ SaidIn(Whole(f), Len(Whole(f)), k) \in Nat
        /\ SaidIn(Whole(f), s.from[f], k) <= SaidIn(Whole(f), Len(Whole(f)), k)
    BY <2>1, SaidNat, SaidGrows
  <2>3. least[f] = SaidIn(Whole(f), s.from[f], k) /\ most[f] = SaidIn(Whole(f), Len(Whole(f)), k)
    BY <2>1, SaidOfFirst, SaidOfAll DEF SaidFirst, Whole
  <2> QED BY <2>2, <2>3
<1>2. ASSUME NEW f \in Session
      PROVE  least[f] \in Nat /\ most[f] \in Nat /\ days[f] \in Nat /\ least[f] <= days[f] /\ days[f] <= most[f]
  <2>1. Covered(s, f)
    BY DEF SnapOK, LogCovered
  <2>2. CASE f \in entries
    <3>1. /\ cache[f] \in Entry /\ Replayed(cache[f], Whole(f), cache[f].offset)
          /\ cache[f].offset <= Len(Whole(f)) /\ Whole(f) \in Seq(LogLine)
      BY <2>2 DEF CodexInv, EntriesOK, LogsOK
    <3>2. /\ cache[f].offset \in Nat /\ Len(Whole(f)) \in Nat
          /\ days[f] = SaidIn(Whole(f), cache[f].offset, k)
          /\ s.from[f] \in Nat
      BY <2>2, <3>1 DEF Entry, Replayed, SnapOK, SnapTyped
    <3>3. days[f] \in Nat /\ days[f] <= SaidIn(Whole(f), Len(Whole(f)), k)
      BY <3>1, <3>2, SaidNat, SaidGrows
    <3>4. SaidIn(Whole(f), s.from[f], k) <= days[f]
      <4>1. CASE s.from[f] <= cache[f].offset
        BY <3>1, <3>2, <4>1, SaidGrows
      <4>2. CASE SaidIn(Whole(f), s.from[f], k) = 0
        BY <3>3, <4>2
      <4> QED BY <2>1, <4>1, <4>2 DEF Covered
    <3> HIDE DEF days, least, most
    <3> QED BY <1>1, <3>3, <3>4
  <2>3. CASE f \notin entries
    <3>1. SaidIn(Whole(f), s.from[f], k) = 0 /\ days[f] = 0
      BY <2>1, <2>3 DEF Covered
    <3> HIDE DEF days, least, most
    <3> QED BY <1>1, <3>1
  <2> QED BY <2>2, <2>3
<1>3. IsFiniteSet(Session) /\ IsFiniteSet(entries) /\ entries \subseteq Session
  BY CodexAssumption, FS_Subset
<1>4. \A f \in entries : given[f] = days[f] /\ given[f] \in Nat
  BY <1>2, <1>3
<1>5. \A f \in Session \ entries : days[f] = 0
  OBVIOUS
<1> HIDE DEF least, most, days, given
<1>6. SumFunctionOnSet(given, entries) = SumFunctionOnSet(days, entries)
  BY <1>3, <1>4, SumOverAgree
<1>7. SumFunctionOnSet(days, entries) = SumFunctionOnSet(days, Session)
  BY <1>2, <1>3, <1>5, SumOverLarger
<1>8. SumFunctionOnSet(least, Session) <= SumFunctionOnSet(days, Session)
  BY <1>2, <1>3, SumOverMonotone
<1>9. SumFunctionOnSet(days, Session) <= SumFunctionOnSet(most, Session)
  BY <1>2, <1>3, SumOverMonotone
<1>10. /\ SumFunctionOnSet(least, Session) \in Nat /\ SumFunctionOnSet(days, Session) \in Nat
  BY <1>2, <1>3, SumOverNat
<1> QED BY <1>6, <1>7, <1>8, <1>9, <1>10 DEF least, most, given

(***************************************************************************)
(* For any number of logs and snapshots: a report counts at least what the *)
(* logs it tracks said when it looked for them, with what had been read of *)
(* the others, and at most what all logs say now, whatever other snapshots *)
(* drop and sessions write meanwhile (local_codex.rs:113-147, 206-227).    *)
(***************************************************************************)
THEOREM ReportIsFreshHolds == CodexSpec => []ReportIsFresh
<1>1. CodexInit => ReportInv
  <2> SUFFICES ASSUME CodexInit PROVE ReportInv
    OBVIOUS
  <2>1. CodexInv
    BY EntriesBegin
  <2>2. snap = [t \in Snapshot |-> Idle] /\ running = Session
    BY DEF CodexInit
  <2> QED BY <2>1, <2>2, IdleOK DEF ReportInv, SnapsOK
<1>2. ReportInv /\ [CodexNext]_codexVars => ReportInv'
  BY ReportStep
<1>3. ReportInv => ReportIsFresh
  <2> SUFFICES ASSUME ReportInv, NEW t \in Snapshot, snap[t].todo = {}, snap[t].date = current, replaced = {},
                      NEW k \in (Date \cap (snap[t].date - ReportDays)..snap[t].date) \X ModelKey
               PROVE  LET given == DailyUsage(snap[t].date)[k]
                      IN /\ given >= SumFunctionOnSet([f \in Session |-> SaidFirst(f, snap[t].from[f], k)], Session)
                         /\ given <= SumFunctionOnSet([f \in Session |-> Said(Complete(log[f]), k)], Session)
    BY Zenon DEF ReportIsFresh
  <2>1. PICK s : s = snap[t]
    OBVIOUS
  <2>2. SnapOK(s) /\ CodexInv /\ s.todo = {} /\ s.date = current
    BY <2>1 DEF ReportInv, SnapsOK
  <2>3. PICK entries : entries = {f \in Session : cache[f] # NoEntry}
    OBVIOUS
  <2>4. k \in Key /\ k[1] \in (s.date - ReportDays)..s.date
    BY <2>1 DEF Key
  <2>5. s.date \in Nat /\ ReportDays \in Nat
    BY <2>2, CodexAssumption DEF SnapOK, SnapTyped
  <2>6. k[1] >= s.date - ReportDays
    BY <2>4, <2>5
  <2>7. DailyUsage(s.date)[k] = SumFunctionOnSet([f \in entries |-> cache[f].days[k]], entries)
    BY <2>3, <2>4 DEF DailyUsage, Key
  <2>8. LET given == SumFunctionOnSet([f \in entries |-> cache[f].days[k]], entries)
        IN /\ given >= SumFunctionOnSet([f \in Session |-> SaidFirst(f, s.from[f], k)], Session)
           /\ given <= SumFunctionOnSet([f \in Session |-> Said(Complete(log[f]), k)], Session)
    BY <2>2, <2>3, <2>4, <2>6, ReportBetween
  <2> QED BY <2>1, <2>7, <2>8
<1> QED BY <1>1, <1>2, <1>3, PTL DEF CodexSpec

-----------------------------------------------------------------------------
(***************************************************************************)
(* DesktopSetup: a command's steps left are the end of its list, so their  *)
(* number says which files are as it wants them.  What it writes is of the *)
(* version installed, and the widgets it read have the user's among them.  *)
(***************************************************************************)

Step    == {"status", "rules", "root", "read", "assets", "settings", "plugins", "unit",
            "reload", "enable", "disable", "restart"}
Widget  == {Ours, Legacy, Other}
Widgets == {list \in Seq(Widget) : Contains(list, Other)}

StepsOf(kind) ==
  IF kind = "setup" THEN SetupSteps
  ELSE IF kind = "update" THEN UpdateSteps
  ELSE IF kind = "autostart on" THEN EnableSteps
  ELSE IF kind = "autostart off" THEN <<"disable">> ELSE <<>>
Installs      == command.kind \in {"setup", "update"}
Left          == Len(command.todo)

\* the end of a list of steps
EndOf(todo, steps) ==
  /\ Len(todo) \in 0..Len(steps)
  /\ todo = [i \in 1..Len(todo) |-> steps[Len(steps) - Len(todo) + i]]

SetupTypeOK ==
  /\ version \in Nat /\ required \in {0, 1} /\ active \in BOOLEAN /\ enabled \in BOOLEAN
  /\ unit = [file |-> unit.file, loaded |-> unit.loaded]
  /\ widgets \in Widgets
  /\ command = [kind |-> command.kind, todo |-> command.todo, saw |-> command.saw,
                wasActive |-> command.wasActive]
  /\ command.wasActive \in BOOLEAN
  /\ command.kind \in {"setup", "update", "autostart on", "autostart off", "none"}

StepsInOrder == EndOf(command.todo, StepsOf(command.kind))

\* Ours is in front, and nowhere else.
Shown(list) ==
  /\ list \in Widgets /\ list[1] = Ours
  /\ \A i \in 2..Len(list) : list[i] = Other

SoFar ==
  Installs =>
    /\ Left <= 8 => rules = version
    /\ Left <= 7 => required = 1
    /\ Left <= 6 => command.saw \in Widgets
    /\ Left <= 5 => assets = version
    /\ Left <= 4 /\ ~shared => Shown(widgets)
    /\ Left <= 3 /\ ~shared => plugin
    /\ Left <= 2 => unit.file = version
    /\ Left <= 1 => unit.loaded = version
    /\ Left = 0 /\ ~shared /\ command.kind = "setup" => enabled /\ active
    /\ Left <= 9 /\ ~shared /\ command.kind = "update" => active = command.wasActive

SetupInv == SetupTypeOK /\ StepsInOrder /\ SoFar

-----------------------------------------------------------------------------
\* update_widgets: one widget of ours, none of the legacy, and the others as
\* they were.
LEMMA WithWidgetShows ==
  ASSUME NEW list \in Widgets
  PROVE  Shown(WithWidget(list))
<1> DEFINE V    == {kept \in Seq(Widget) : /\ kept # <<>> /\ kept[1] = Ours
                                           /\ \A i \in 2..Len(kept) : kept[i] = Other}
           base == <<Ours>>
           op   == [p \in V \X Widget |-> IF p[2] \in {Ours, Legacy} THEN p[1] ELSE Append(p[1], p[2])]
           Sol(it) == it = [s \in SUBSET DOMAIN list |->
                              IF s = {} THEN <<Ours>>
                              ELSE IF list[Max(s)] \in {Ours, Legacy} THEN it[s \ {Max(s)}]
                                   ELSE Append(it[s \ {Max(s)}], list[Max(s)])]
           jt   == CHOOSE it : Sol(it)
<1>1. list \in Seq(Widget) /\ base \in V
  BY DEF Widgets, Widget
<1>2. ASSUME NEW kept \in V
      PROVE  Append(kept, Other) \in V /\ Append(kept, Other)[Len(kept) + 1] = Other
  <2>1. kept \in Seq(Widget) /\ Other \in Widget /\ Len(kept) > 0
    BY DEF Widget
  <2>2. /\ Append(kept, Other) \in Seq(Widget) /\ Len(Append(kept, Other)) = Len(kept) + 1
        /\ Append(kept, Other)[Len(kept) + 1] = Other
        /\ \A i \in 1..Len(kept) : Append(kept, Other)[i] = kept[i]
    BY <2>1
  <2> DEFINE more == Append(kept, Other)
  <2>3. more[1] = Ours /\ more # <<>>
    BY <2>1, <2>2
  <2>4. \A i \in 2..Len(more) : more[i] = Other
    <3> SUFFICES ASSUME NEW i \in 2..(Len(kept) + 1) PROVE more[i] = Other
      BY <2>2
    <3>1. i = Len(kept) + 1 \/ i \in 2..Len(kept)
      BY <2>1
    <3> QED BY <2>1, <2>2, <3>1
  <2> QED BY <2>2, <2>3, <2>4
<1>3. op \in [V \X Widget -> V]
  BY <1>2 DEF Widget
<1>4. \A kept \in V, w \in Widget :
        op[<<kept, w>>] = IF w \in {Ours, Legacy} THEN kept ELSE Append(kept, w)
  OBVIOUS
<1>5. \A s \in SUBSET DOMAIN list : s # {} => s \ {Max(s)} \in SUBSET DOMAIN list /\ list[Max(s)] \in Widget
  BY <1>1, LastPlace
<1> HIDE DEF V, op, base
<1>6. FoldArgs(Widget, V, list, base, op)
  BY <1>1, <1>3 DEF FoldArgs
<1>7. PICK it : LeftFoldOf(it, Widget, V, list, base, op)
  BY <1>6, LeftFoldExists
<1>8. Sol(it)
  <2>1. /\ it = [s \in SUBSET DOMAIN list |-> it[s]]
        /\ \A s \in SUBSET DOMAIN list : it[s] \in V
        /\ \A s \in SUBSET DOMAIN list :
             it[s] = IF s = {} THEN base ELSE op[<<it[s \ {Max(s)}], list[Max(s)]>>]
    BY <1>7 DEF LeftFoldOf
  <2>2. \A s \in SUBSET DOMAIN list :
          it[s] = IF s = {} THEN <<Ours>>
                  ELSE IF list[Max(s)] \in {Ours, Legacy} THEN it[s \ {Max(s)}]
                       ELSE Append(it[s \ {Max(s)}], list[Max(s)])
    BY <1>4, <1>5, <2>1 DEF base
  <2> QED BY <2>1, <2>2
<1>9. Sol(jt)
  BY <1>8, Zenon
<1>10. WithWidget(list) = jt[DOMAIN list]
  BY Zenon DEF WithWidget, FoldLeft, MapThenFoldSet
<1> HIDE DEF jt
<1>11. FoldsLeft(jt, V, list, base, op)
  <2>1. \A s \in SUBSET DOMAIN list :
          jt[s] = IF s = {} THEN <<Ours>>
                  ELSE IF list[Max(s)] \in {Ours, Legacy} THEN jt[s \ {Max(s)}]
                       ELSE Append(jt[s \ {Max(s)}], list[Max(s)])
    BY <1>9
  <2>2. ASSUME NEW s \in SUBSET DOMAIN list, s # {}, NEW v \in V, jt[s \ {Max(s)}] = v
        PROVE  jt[s] = op[<<v, list[Max(s)]>>]
    BY <1>4, <1>5, <2>1, <2>2
  <2>3. {} \in SUBSET DOMAIN list => jt[{}] = base
    BY <2>1 DEF base
  <2> QED BY <2>2, <2>3 DEF FoldsLeft
<1>12. PICK g : PrefixFold(g, V, list, base, op) /\ AllOf(jt, list) = g[Len(list)]
  BY <1>11, <1>6, LeftFoldPrefixes
<1>13. /\ g[0] = base /\ \A n \in 0..Len(list) : g[n] \in V
       /\ \A n \in 1..Len(list) : g[n] = op[<<g[n - 1], list[n]>>]
  BY <1>12 DEF PrefixFold
<1> DEFINE F == {n \in Nat : n <= Len(list) /\ (\E i \in 1..n : list[i] = Other) =>
                                Contains(g[n], Other)}
<1>14. Nat \subseteq F
  <2>1. 0 \in F
    OBVIOUS
  <2>2. ASSUME NEW n \in Nat, n \in F PROVE n + 1 \in F
    <3> SUFFICES ASSUME n + 1 <= Len(list), NEW i \in 1..(n + 1), list[i] = Other
                 PROVE  Contains(g[n + 1], Other)
      OBVIOUS
    <3> DEFINE kept == g[n]
               w    == list[n + 1]
    <3>1. n + 1 \in 1..Len(list) /\ n \in 0..Len(list) /\ (n + 1) - 1 = n
      BY <1>1
    <3>2. kept \in V /\ w \in Widget /\ g[n + 1] = op[<<kept, w>>]
      BY <1>1, <1>13, <3>1
    <3> HIDE DEF kept, w
    <3>3. g[n + 1] = IF w \in {Ours, Legacy} THEN kept ELSE Append(kept, w)
      BY <1>4, <3>2
    <3>4. CASE w = Other
      <4>1. g[n + 1] = Append(kept, Other)
        BY <3>3, <3>4 DEF Ours, Legacy, Other
      <4>2. kept \in Seq(Widget) /\ Append(kept, Other)[Len(kept) + 1] = Other
            /\ Len(Append(kept, Other)) = Len(kept) + 1
        BY <1>2, <3>2 DEF V
      <4>3. Len(kept) + 1 \in 1..(Len(kept) + 1)
        BY <4>2
      <4> QED BY <4>1, <4>2, <4>3 DEF Contains
    <3>5. CASE w # Other
      <4>1. i \in 1..n
        BY <3>5 DEF w
      <4>2. Contains(kept, Other)
        BY <2>2, <3>1, <4>1 DEF kept
      <4>3. g[n + 1] = kept
        BY <3>2, <3>3, <3>5 DEF Widget
      <4> QED BY <4>2, <4>3
    <3> QED BY <3>4, <3>5
  <2> HIDE DEF F
  <2> QED BY <2>1, <2>2, Induction
<1>15. Len(list) \in Nat /\ \E i \in 1..Len(list) : list[i] = Other
  BY <1>1 DEF Widgets, Contains
<1>16. Contains(g[Len(list)], Other) /\ g[Len(list)] \in V
  BY <1>13, <1>14, <1>15
<1>17. WithWidget(list) = g[Len(list)]
  BY <1>10, <1>12 DEF AllOf
<1> QED BY <1>16, <1>17 DEF Shown, Widgets, V

\* That is what the property asks of the widgets.
LEMMA ShownOnce ==
  ASSUME NEW list, Shown(list)
  PROVE  /\ Cardinality({i \in DOMAIN list : list[i] = Ours}) = 1
         /\ ~Contains(list, Legacy) /\ Contains(list, Other)
<1>1. list \in Seq(Widget) /\ Contains(list, Other) /\ DOMAIN list = 1..Len(list) /\ Len(list) \in Nat
  BY DEF Shown, Widgets
<1>2. Len(list) > 0
  BY <1>1 DEF Contains
<1>3. \A i \in 1..Len(list) : i = 1 \/ i \in 2..Len(list)
  BY <1>1
<1>4. {i \in DOMAIN list : list[i] = Ours} = {1}
  BY <1>1, <1>2, <1>3 DEF Shown, Ours, Other
<1>5. Cardinality({1}) = 1
  BY FS_Singleton
<1>6. ~Contains(list, Legacy)
  BY <1>1, <1>3 DEF Shown, Contains, Ours, Other, Legacy
<1> QED BY <1>1, <1>4, <1>5, <1>6

\* Tail, by its places.
LEMMA TailOfSeq ==
  ASSUME NEW P, NEW s \in Seq(P), s # <<>>
  PROVE  Tail(s) = [i \in 1..(Len(s) - 1) |-> s[i + 1]]
<1>1. /\ Tail(s) \in Seq(P) /\ Len(Tail(s)) = Len(s) - 1
      /\ \A i \in 1..(Len(s) - 1) : Tail(s)[i] = s[i + 1]
  OBVIOUS
<1>2. /\ [i \in 1..(Len(s) - 1) |-> s[i + 1]] \in Seq(P)
      /\ Len([i \in 1..(Len(s) - 1) |-> s[i + 1]]) = Len(s) - 1
  OBVIOUS
<1> QED BY <1>1, <1>2, SeqEqual

\* The end of a list of steps, a step further.
LEMMA EndOfTail ==
  ASSUME NEW E, NEW steps \in Seq(E), NEW todo, EndOf(todo, steps), todo # <<>>
  PROVE  /\ Len(todo) \in 1..Len(steps) /\ Head(todo) = steps[Len(steps) - Len(todo) + 1]
         /\ EndOf(Tail(todo), steps) /\ Len(Tail(todo)) = Len(todo) - 1
<1> DEFINE m == Len(steps)
           n == Len(todo)
<1>1. m \in Nat /\ n \in 0..m /\ todo = [i \in 1..n |-> steps[m - n + i]]
  BY DEF EndOf
<1>2. todo \in Seq(E)
  <2>1. \A i \in 1..n : m - n + i \in 1..m
    BY <1>1
  <2>2. \A i \in 1..n : steps[m - n + i] \in E
    BY <2>1
  <2> QED BY <1>1, <2>2
<1>3. n \in 1..m /\ Head(todo) = todo[1]
  BY <1>1, <1>2
<1>4. Tail(todo) = [i \in 1..(n - 1) |-> todo[i + 1]] /\ Len(Tail(todo)) = n - 1
  BY <1>2, TailOfSeq
<1>5. \A i \in 1..(n - 1) : todo[i + 1] = steps[m - (n - 1) + i]
  <2> SUFFICES ASSUME NEW i \in 1..(n - 1) PROVE todo[i + 1] = steps[m - (n - 1) + i]
    OBVIOUS
  <2>1. i + 1 \in 1..n /\ m - n + (i + 1) = m - (n - 1) + i
    BY <1>1, <1>3
  <2> QED BY <1>1, <2>1
<1>6. Tail(todo) = [i \in 1..(n - 1) |-> steps[m - (n - 1) + i]] /\ n - 1 \in 0..m
  BY <1>1, <1>3, <1>4, <1>5
<1> QED BY <1>1, <1>3, <1>4, <1>6 DEF EndOf

\* How many steps a command has, of which kinds.
LEMMA StepLists ==
  /\ SetupSteps \in Seq(Step) /\ Len(SetupSteps) = 9
  /\ UpdateSteps \in Seq(Step) /\ Len(UpdateSteps) = 10
  /\ EnableSteps \in Seq(Step) /\ Len(EnableSteps) = 3
  /\ <<"disable">> \in Seq(Step) /\ Len(<<"disable">>) = 1
  /\ <<>> \in Seq(Step) /\ Len(<<>>) = 0
<1>1. SetupSteps \in Seq(Step) /\ Len(SetupSteps) = 9
  BY DEF SetupSteps, Step
<1>2. UpdateSteps \in Seq(Step) /\ Len(UpdateSteps) = 10
  BY DEF UpdateSteps, Step
<1>3. EnableSteps \in Seq(Step) /\ Len(EnableSteps) = 3
  BY DEF EnableSteps, Step
<1>4. <<"disable">> \in Seq(Step) /\ Len(<<"disable">>) = 1 /\ <<>> \in Seq(Step) /\ Len(<<>>) = 0
  BY DEF Step
<1> QED BY <1>1, <1>2, <1>3, <1>4

\* A list is the end of itself.
LEMMA EndOfSelf ==
  ASSUME NEW E, NEW steps \in Seq(E)
  PROVE  EndOf(steps, steps)
<1>1. \A i \in 1..Len(steps) : Len(steps) - Len(steps) + i = i
  OBVIOUS
<1>2. steps = [i \in 1..Len(steps) |-> steps[i]]
  OBVIOUS
<1>3. steps = [i \in 1..Len(steps) |-> steps[Len(steps) - Len(steps) + i]]
  BY <1>1, <1>2
<1>4. Len(steps) \in 0..Len(steps)
  OBVIOUS
<1> QED BY <1>3, <1>4 DEF EndOf

\* The lists of steps of the commands, and their lengths.
LEMMA StepsOfKinds ==
  ASSUME NEW kind
  PROVE  /\ StepsOf(kind) \in Seq(Step) /\ Len(StepsOf(kind)) \in 0..10
         /\ kind = "setup" => Len(StepsOf(kind)) = 9
         /\ kind = "update" => Len(StepsOf(kind)) = 10
         /\ EndOf(StepsOf(kind), StepsOf(kind))
<1> DEFINE steps == StepsOf(kind)
<1>1. /\ kind = "setup" => steps = SetupSteps
      /\ kind = "update" => steps = UpdateSteps
      /\ steps \in {SetupSteps, UpdateSteps, EnableSteps, <<"disable">>, <<>>}
  BY DEF StepsOf
<1> HIDE DEF steps
<1>2. steps \in Seq(Step) /\ Len(steps) \in {9, 10, 3, 1, 0}
  BY <1>1, StepLists, Zenon
<1>3. EndOf(steps, steps)
  BY <1>2, EndOfSelf
<1>4. /\ kind = "setup" => Len(steps) = 9
      /\ kind = "update" => Len(steps) = 10
  BY <1>1, StepLists, Zenon
<1>5. Len(steps) \in 0..10
  <2> DEFINE n == Len(steps)
  <2>1. n \in {9, 10, 3, 1, 0}
    BY <1>2
  <2> HIDE DEF n
  <2>2. n \in 0..10
    BY <2>1
  <2> QED BY <2>2 DEF n
<1> QED BY <1>2, <1>3, <1>4, <1>5 DEF steps

\* What is the next step says how many are left.
LEMMA StepsLeft ==
  ASSUME SetupTypeOK, StepsInOrder, command.todo # <<>>
  PROVE  /\ Left \in 1..10 /\ Len(Tail(command.todo)) = Left - 1
         /\ EndOf(Tail(command.todo), StepsOf(command.kind))
         /\ At("status") => Left = 10 /\ command.kind = "update"
         /\ At("rules") => Left = 9 /\ Installs
         /\ At("root") => Left = 8 /\ Installs
         /\ At("read") => Left = 7 /\ Installs
         /\ At("assets") => Left = 6 /\ Installs
         /\ At("settings") => Left = 5 /\ Installs
         /\ At("plugins") => Left = 4 /\ Installs
         /\ At("unit") => Left = 3
         /\ At("reload") => Left = 2
         /\ At("enable") => Left = 1 /\ command.kind # "update"
         /\ At("disable") => Left = 1 /\ ~Installs
         /\ At("restart") => Left = 1 /\ command.kind = "update"
<1> DEFINE steps == StepsOf(command.kind)
<1>1. steps \in Seq(Step) /\ Len(steps) \in 0..10
  BY StepsOfKinds DEF SetupTypeOK
<1>2. /\ Left \in 1..Len(steps) /\ Head(command.todo) = steps[Len(steps) - Left + 1]
      /\ EndOf(Tail(command.todo), steps) /\ Len(Tail(command.todo)) = Left - 1
  <2> HIDE DEF steps
  <2>1. EndOf(command.todo, steps)
    BY DEF steps, StepsInOrder
  <2> QED BY <1>1, <2>1, EndOfTail DEF Left
<1> DEFINE head == steps[Len(steps) - Left + 1]
           n    == Left
<1>3. n \in 1..10 /\ n \in 1..Len(steps)
  <2> DEFINE m == Len(steps)
  <2>1. m \in 0..10 /\ n \in 1..m
    BY <1>1, <1>2
  <2> HIDE DEF m, n
  <2>2. n \in 1..10
    BY <2>1
  <2> QED BY <2>1, <2>2 DEF m
<1> HIDE DEF n
<1>4. CASE command.kind = "setup"
  <2>1. steps = SetupSteps /\ Len(steps) = 9
    BY <1>4 DEF StepsOf, SetupSteps
  <2>2. n \in 1..9 /\ head = SetupSteps[10 - n]
    BY <1>3, <2>1 DEF n
  <2>3. /\ n = 9 => head = "rules"
        /\ n = 8 => head = "root"
        /\ n = 7 => head = "read"
        /\ n = 6 => head = "assets"
        /\ n = 5 => head = "settings"
        /\ n = 4 => head = "plugins"
        /\ n = 3 => head = "unit"
        /\ n = 2 => head = "reload"
        /\ n = 1 => head = "enable"
    BY <2>2 DEF SetupSteps
  <2> HIDE DEF head
  <2> QED BY <1>2, <1>4, <2>2, <2>3 DEF head, n, At, Installs
<1>5. CASE command.kind = "update"
  <2>1. steps = UpdateSteps /\ Len(steps) = 10
    BY <1>5 DEF StepsOf, UpdateSteps
  <2>2. n \in 1..10 /\ head = UpdateSteps[11 - n]
    BY <1>3, <2>1 DEF n
  <2>3. /\ n = 10 => head = "status"
        /\ n = 9 => head = "rules"
        /\ n = 8 => head = "root"
        /\ n = 7 => head = "read"
        /\ n = 6 => head = "assets"
        /\ n = 5 => head = "settings"
        /\ n = 4 => head = "plugins"
        /\ n = 3 => head = "unit"
        /\ n = 2 => head = "reload"
        /\ n = 1 => head = "restart"
    BY <2>2 DEF UpdateSteps
  <2> HIDE DEF head
  <2> QED BY <1>2, <1>5, <2>2, <2>3 DEF head, n, At, Installs
<1>6. CASE command.kind = "autostart on"
  <2>1. steps = EnableSteps /\ Len(steps) = 3
    BY <1>6 DEF StepsOf, EnableSteps
  <2>2. n \in 1..3 /\ head = EnableSteps[4 - n]
    BY <1>3, <2>1 DEF n
  <2>3. /\ n = 3 => head = "unit"
        /\ n = 2 => head = "reload"
        /\ n = 1 => head = "enable"
    BY <2>2 DEF EnableSteps
  <2> HIDE DEF head
  <2>4. \A x : At(x) => head = x
    BY <1>2 DEF head, At
  <2>5. /\ ~At("status") /\ ~At("rules") /\ ~At("root") /\ ~At("read") /\ ~At("assets")
        /\ ~At("settings") /\ ~At("plugins") /\ ~At("restart")
    BY <2>2, <2>3, <2>4
  <2>6. /\ ~At("disable")
        /\ At("unit") => n = 3
        /\ At("reload") => n = 2
        /\ At("enable") => n = 1
    BY <2>2, <2>3, <2>4
  <2>7. ~Installs /\ command.kind # "update"
    BY <1>6 DEF Installs
  <2> QED BY <1>2, <1>3, <2>3, <2>5, <2>6, <2>7 DEF n
<1>7. CASE command.kind = "autostart off"
  <2>1. steps = <<"disable">> /\ Len(steps) = 1
    BY <1>7 DEF StepsOf
  <2>2. n \in 1..1 /\ head = <<"disable">>[2 - n]
    BY <1>3, <2>1 DEF n
  <2>3. n = 1 /\ head = "disable"
    BY <2>2
  <2> HIDE DEF head
  <2>4. \A x : At(x) => head = x
    BY <1>2 DEF head, At
  <2>5. /\ ~At("status") /\ ~At("rules") /\ ~At("root") /\ ~At("read") /\ ~At("assets")
        /\ ~At("settings") /\ ~At("plugins") /\ ~At("restart")
    BY <2>2, <2>3, <2>4
  <2>6. /\ ~At("unit") /\ ~At("reload") /\ ~At("enable")
    BY <2>2, <2>3, <2>4
  <2>7. ~Installs /\ command.kind # "update"
    BY <1>7 DEF Installs
  <2> QED BY <1>2, <1>3, <2>3, <2>5, <2>6, <2>7 DEF n
<1>8. CASE command.kind = "none"
  <2>1. Len(steps) = 0
    BY <1>8 DEF StepsOf
  <2> QED BY <1>3, <2>1
<1> QED BY <1>4, <1>5, <1>6, <1>7, <1>8 DEF SetupTypeOK

-----------------------------------------------------------------------------
(* Steps that take the next one off keep the rest in order.                *)
LEMMA Advances ==
  ASSUME SetupInv, command.todo # <<>>, NEW saw, NEW was \in BOOLEAN,
         command' = [kind |-> command.kind, todo |-> Tail(command.todo), saw |-> saw, wasActive |-> was]
  PROVE  /\ StepsInOrder' /\ Left \in 1..10 /\ Left' = Left - 1 /\ Installs' = Installs
         /\ command' = [kind |-> command'.kind, todo |-> command'.todo, saw |-> command'.saw,
                         wasActive |-> command'.wasActive]
         /\ command'.kind = command.kind /\ command'.saw = saw /\ command'.wasActive = was
<1>1. /\ command'.kind = command.kind /\ command'.todo = Tail(command.todo)
      /\ command'.saw = saw /\ command'.wasActive = was
  OBVIOUS
<1>2. /\ Left \in 1..10 /\ Len(Tail(command.todo)) = Left - 1
      /\ EndOf(Tail(command.todo), StepsOf(command.kind))
  BY StepsLeft DEF SetupInv
<1>3. StepsInOrder'
  BY <1>1, <1>2 DEF StepsInOrder, EndOf, StepsOf, SetupSteps, UpdateSteps, EnableSteps
<1>4. Left' = Left - 1 /\ Installs' = Installs
  BY <1>1, <1>2 DEF Left, Installs
<1> QED BY <1>1, <1>2, <1>3, <1>4

\* A step taken is the first of those left.
LEMMA AdvanceKeeps ==
  ASSUME SetupInv, command.todo # <<>>, Advance
  PROVE  /\ StepsInOrder' /\ Left \in 1..10 /\ Left' = Left - 1 /\ Installs' = Installs
         /\ command' = [kind |-> command'.kind, todo |-> command'.todo, saw |-> command'.saw,
                         wasActive |-> command'.wasActive]
         /\ command'.kind = command.kind /\ command'.saw = command.saw
         /\ command'.wasActive = command.wasActive
<1>1. command' = [kind |-> command.kind, todo |-> Tail(command.todo), saw |-> command.saw,
                  wasActive |-> command.wasActive]
  BY DEF Advance, SetupInv, SetupTypeOK
<1>2. command.wasActive \in BOOLEAN
  BY DEF SetupInv, SetupTypeOK
<1> QED BY <1>1, <1>2, Advances

\* Each step leaves what the steps before it have put in place, and adds its
\* own.
LEMMA StepTaken ==
  ASSUME SetupInv,
         \/ ReadStatus \/ WriteRules \/ RequireRules \/ ReadSettings \/ WriteAssets
         \/ WriteSettings \/ EnablePlugin \/ WriteUnit \/ ReloadManager \/ SwitchService
         \/ RestartService
  PROVE  SetupInv'
<1>0. SetupTypeOK /\ StepsInOrder /\ SoFar
  BY DEF SetupInv
<1>1. CASE ReadStatus
  <2>1. /\ At("status") /\ command.todo # <<>>
        /\ command' = [kind |-> command.kind, todo |-> Tail(command.todo), saw |-> command.saw,
                        wasActive |-> active]
        /\ UNCHANGED <<version, rules, required, assets, widgets, plugin, unit, enabled, active, shared>>
    BY <1>0, <1>1 DEF ReadStatus, At, SetupTypeOK, files, manager
  <2>2. /\ StepsInOrder' /\ Left' = Left - 1 /\ Installs' = Installs
        /\ command' = [kind |-> command'.kind, todo |-> command'.todo, saw |-> command'.saw,
                        wasActive |-> command'.wasActive]
        /\ command'.kind = command.kind /\ command'.saw = command.saw /\ command'.wasActive = active
    BY <1>0, <2>1, Advances DEF SetupTypeOK
  <2>3. Left = 10
    BY <1>0, <2>1, StepsLeft
  <2>4. SetupTypeOK'
    BY <1>0, <2>1, <2>2 DEF SetupTypeOK
  <2>5. SoFar'
    BY <1>0, <2>1, <2>2, <2>3 DEF SoFar
  <2> QED BY <2>2, <2>4, <2>5 DEF SetupInv
<1>2. CASE WriteRules
  <2>1. At("rules") /\ command.todo # <<>> /\ Advance /\ rules' = version
        /\ UNCHANGED <<version, required, assets, widgets, plugin, unit, enabled, active, shared>>
    BY <1>0, <1>2 DEF WriteRules, At, files, manager
  <2>2. Left = 9 /\ SetupTypeOK' /\ StepsInOrder'
    BY <1>0, <2>1, StepsLeft, AdvanceKeeps DEF SetupTypeOK
  <2>9. /\ Left' = Left - 1 /\ Installs' = Installs /\ command'.kind = command.kind
        /\ command'.saw = command.saw /\ command'.wasActive = command.wasActive
    BY <2>1, AdvanceKeeps
  <2>3. SoFar'
    BY <1>0, <2>1, <2>2, <2>9 DEF SoFar
  <2> QED BY <2>2, <2>3 DEF SetupInv
<1>3. CASE RequireRules
  <2>0. AppendOnce(required) = 1
    <3>1. required = 0 \/ required = 1
      BY <1>0 DEF SetupTypeOK
    <3> QED BY <3>1 DEF AppendOnce
  <2>1. At("root") /\ command.todo # <<>> /\ Advance /\ required' = 1
        /\ UNCHANGED <<version, rules, assets, widgets, plugin, unit, enabled, active, shared>>
    BY <1>3, <2>0 DEF RequireRules, At, files, manager
  <2>2. Left = 8 /\ SetupTypeOK' /\ StepsInOrder'
    BY <1>0, <2>1, StepsLeft, AdvanceKeeps DEF SetupTypeOK
  <2>9. /\ Left' = Left - 1 /\ Installs' = Installs /\ command'.kind = command.kind
        /\ command'.saw = command.saw /\ command'.wasActive = command.wasActive
    BY <2>1, AdvanceKeeps
  <2>3. SoFar'
    BY <1>0, <2>1, <2>2, <2>9 DEF SoFar
  <2> QED BY <2>2, <2>3 DEF SetupInv
<1>4. CASE ReadSettings
  <2>1. /\ At("read") /\ command.todo # <<>>
        /\ command' = [kind |-> command.kind, todo |-> Tail(command.todo), saw |-> widgets,
                        wasActive |-> command.wasActive]
        /\ UNCHANGED <<version, rules, required, assets, widgets, plugin, unit, enabled, active, shared>>
    BY <1>0, <1>4 DEF ReadSettings, At, SetupTypeOK, files, manager
  <2>2. /\ StepsInOrder' /\ Left' = Left - 1 /\ Installs' = Installs
        /\ command' = [kind |-> command'.kind, todo |-> command'.todo, saw |-> command'.saw,
                        wasActive |-> command'.wasActive]
        /\ command'.kind = command.kind /\ command'.saw = widgets
        /\ command'.wasActive = command.wasActive
    BY <1>0, <2>1, Advances DEF SetupTypeOK
  <2>3. Left = 7
    BY <1>0, <2>1, StepsLeft
  <2>4. SetupTypeOK'
    BY <1>0, <2>1, <2>2 DEF SetupTypeOK
  <2>5. widgets \in Widgets
    BY <1>0 DEF SetupTypeOK
  <2>6. SoFar'
    BY <1>0, <2>1, <2>2, <2>3, <2>5 DEF SoFar
  <2> QED BY <2>2, <2>4, <2>6 DEF SetupInv
<1>5. CASE WriteAssets
  <2>1. At("assets") /\ command.todo # <<>> /\ Advance /\ assets' = version
        /\ UNCHANGED <<version, rules, required, widgets, plugin, unit, enabled, active, shared>>
    BY <1>0, <1>5 DEF WriteAssets, At, files, manager
  <2>2. Left = 6 /\ SetupTypeOK' /\ StepsInOrder'
    BY <1>0, <2>1, StepsLeft, AdvanceKeeps DEF SetupTypeOK
  <2>9. /\ Left' = Left - 1 /\ Installs' = Installs /\ command'.kind = command.kind
        /\ command'.saw = command.saw /\ command'.wasActive = command.wasActive
    BY <2>1, AdvanceKeeps
  <2>3. SoFar'
    BY <1>0, <2>1, <2>2, <2>9 DEF SoFar
  <2> QED BY <2>2, <2>3 DEF SetupInv
<1>6. CASE WriteSettings
  <2>1. At("settings") /\ command.todo # <<>> /\ Advance /\ widgets' = WithWidget(command.saw)
        /\ UNCHANGED <<version, rules, required, assets, plugin, unit, enabled, active, shared>>
    BY <1>0, <1>6 DEF WriteSettings, At, manager
  <2>2. Left = 5 /\ Installs
    BY <1>0, <2>1, StepsLeft
  <2>3. Shown(widgets')
    BY <1>0, <2>1, <2>2, WithWidgetShows DEF SoFar
  <2>4. SetupTypeOK' /\ StepsInOrder'
    BY <1>0, <2>1, <2>3, AdvanceKeeps DEF SetupTypeOK, Shown
  <2>9. /\ Left' = Left - 1 /\ Installs' = Installs /\ command'.kind = command.kind
        /\ command'.saw = command.saw /\ command'.wasActive = command.wasActive
    BY <2>1, AdvanceKeeps
  <2>5. SoFar'
    BY <1>0, <2>1, <2>2, <2>3, <2>9 DEF SoFar, Shown
  <2> QED BY <2>4, <2>5 DEF SetupInv
<1>7. CASE EnablePlugin
  <2>1. At("plugins") /\ command.todo # <<>> /\ Advance /\ plugin' = TRUE
        /\ UNCHANGED <<version, rules, required, assets, widgets, unit, enabled, active, shared>>
    BY <1>0, <1>7 DEF EnablePlugin, At, files, manager
  <2>2. Left = 4 /\ SetupTypeOK' /\ StepsInOrder'
    BY <1>0, <2>1, StepsLeft, AdvanceKeeps DEF SetupTypeOK
  <2>9. /\ Left' = Left - 1 /\ Installs' = Installs /\ command'.kind = command.kind
        /\ command'.saw = command.saw /\ command'.wasActive = command.wasActive
    BY <2>1, AdvanceKeeps
  <2>3. SoFar'
    BY <1>0, <2>1, <2>2, <2>9 DEF SoFar
  <2> QED BY <2>2, <2>3 DEF SetupInv
<1>8. CASE WriteUnit
  <2>1. At("unit") /\ command.todo # <<>> /\ Advance /\ unit' = [file |-> version, loaded |-> unit.loaded]
        /\ UNCHANGED <<version, rules, required, assets, widgets, plugin, enabled, active, shared>>
    BY <1>0, <1>8 DEF WriteUnit, SetupTypeOK, At, files
  <2>2. Left = 3 /\ SetupTypeOK' /\ StepsInOrder'
    BY <1>0, <2>1, StepsLeft, AdvanceKeeps DEF SetupTypeOK
  <2>9. /\ Left' = Left - 1 /\ Installs' = Installs /\ command'.kind = command.kind
        /\ command'.saw = command.saw /\ command'.wasActive = command.wasActive
    BY <2>1, AdvanceKeeps
  <2>3. SoFar'
    BY <1>0, <2>1, <2>2, <2>9 DEF SoFar
  <2> QED BY <2>2, <2>3 DEF SetupInv
<1>9. CASE ReloadManager
  <2>1. At("reload") /\ command.todo # <<>> /\ Advance /\ unit' = [file |-> unit.file, loaded |-> unit.file]
        /\ UNCHANGED <<version, rules, required, assets, widgets, plugin, enabled, active, shared>>
    BY <1>0, <1>9 DEF ReloadManager, SetupTypeOK, At, files
  <2>2. Left = 2 /\ SetupTypeOK' /\ StepsInOrder'
    BY <1>0, <2>1, StepsLeft, AdvanceKeeps DEF SetupTypeOK
  <2>9. /\ Left' = Left - 1 /\ Installs' = Installs /\ command'.kind = command.kind
        /\ command'.saw = command.saw /\ command'.wasActive = command.wasActive
    BY <2>1, AdvanceKeeps
  <2>3. SoFar'
    BY <1>0, <2>1, <2>2, <2>9 DEF SoFar
  <2> QED BY <2>2, <2>3 DEF SetupInv
<1>10. CASE SwitchService
  <2>1. PICK on \in BOOLEAN : /\ At(IF on THEN "enable" ELSE "disable") /\ Advance
                              /\ enabled' = on /\ active' = on
                              /\ UNCHANGED <<version, rules, required, assets, widgets, plugin, unit, shared>>
    BY <1>0, <1>10 DEF SwitchService, files
  <2>2. command.todo # <<>> /\ Left = 1 /\ (on => command.kind # "update") /\ (~on => ~Installs)
    BY <1>0, <2>1, StepsLeft DEF At
  <2>3. SetupTypeOK' /\ StepsInOrder'
    BY <1>0, <2>1, <2>2, AdvanceKeeps DEF SetupTypeOK
  <2>9. /\ Left' = Left - 1 /\ Installs' = Installs /\ command'.kind = command.kind
        /\ command'.saw = command.saw /\ command'.wasActive = command.wasActive
    BY <2>1, <2>2, AdvanceKeeps
  <2>4. SoFar'
    BY <1>0, <2>1, <2>2, <2>9 DEF SoFar
  <2> QED BY <2>3, <2>4 DEF SetupInv
<1>11. CASE RestartService
  <2>1. At("restart") /\ command.todo # <<>> /\ Advance /\ active' = (active \/ command.wasActive)
        /\ UNCHANGED <<version, rules, required, assets, widgets, plugin, unit, enabled, shared>>
    BY <1>0, <1>11 DEF RestartService, At, files
  <2>2. Left = 1 /\ command.kind = "update"
    BY <1>0, <2>1, StepsLeft
  <2>3. SetupTypeOK' /\ StepsInOrder'
    BY <1>0, <2>1, <2>2, AdvanceKeeps DEF SetupTypeOK
  <2>9. /\ Left' = Left - 1 /\ Installs' = Installs /\ command'.kind = command.kind
        /\ command'.saw = command.saw /\ command'.wasActive = command.wasActive
    BY <2>1, AdvanceKeeps
  <2>4. SoFar'
    BY <1>0, <2>1, <2>2, <2>9 DEF SoFar, SetupTypeOK
  <2> QED BY <2>3, <2>4 DEF SetupInv
<1> QED BY <1>1, <1>2, <1>3, <1>4, <1>5, <1>6, <1>7, <1>8, <1>9, <1>10, <1>11

\* At its first step a command has done nothing of what SoFar counts.
LEMMA Untouched ==
  /\ \A n \in {9, 10} : ~(n <= 8) /\ ~(n <= 7) /\ ~(n <= 6) /\ ~(n <= 5) /\ ~(n <= 4)
                         /\ ~(n <= 3) /\ ~(n <= 2) /\ ~(n <= 1) /\ n # 0
  /\ ~(10 <= 9)
OBVIOUS

\* Beginning, ending and aborting a command, and the user's edits.
LEMMA CommandBeginsOrEnds ==
  ASSUME SetupInv, BeginSetup \/ BeginUpdate \/ BeginSwitch \/ EndCommand \/ Abort \/ Edit
  PROVE  SetupInv'
<1>0. SetupTypeOK /\ StepsInOrder /\ SoFar
  BY DEF SetupInv
<1>1. ASSUME NEW kind \in {"setup", "update", "autostart on", "autostart off", "none"},
             command' = [kind |-> kind, todo |-> StepsOf(kind), saw |-> <<>>, wasActive |-> FALSE],
             UNCHANGED <<rules, required, assets, widgets, plugin, unit, enabled, active>>,
             version' \in Nat
      PROVE  SetupInv'
  <2>1. /\ command'.kind = kind /\ command'.todo = StepsOf(kind) /\ command'.saw = <<>>
        /\ command'.wasActive = FALSE
    BY <1>1
  <2>2. SetupTypeOK'
    BY <1>0, <1>1, <2>1 DEF SetupTypeOK
  <2>3. /\ EndOf(StepsOf(kind), StepsOf(kind))
        /\ kind = "setup" => Len(StepsOf(kind)) = 9
        /\ kind = "update" => Len(StepsOf(kind)) = 10
    BY StepsOfKinds
  <2>4. StepsInOrder'
    <3>1. StepsInOrder' <=> EndOf(command'.todo, StepsOf(command'.kind))
      BY DEF StepsInOrder, EndOf, StepsOf, SetupSteps, UpdateSteps, EnableSteps
    <3> QED BY <2>1, <2>3, <3>1
  <2>5. SoFar'
    <3>1. Left' = Len(StepsOf(kind)) /\ (Installs' <=> kind \in {"setup", "update"})
      BY <2>1 DEF Installs, Left
    <3>2. Installs' => Left' \in {9, 10} /\ (command'.kind = "update" => Left' = 10)
      BY <2>1, <2>3, <3>1
    <3>3. Installs' => /\ ~(Left' <= 8) /\ ~(Left' <= 7) /\ ~(Left' <= 6) /\ ~(Left' <= 5)
                       /\ ~(Left' <= 4) /\ ~(Left' <= 3) /\ ~(Left' <= 2) /\ ~(Left' <= 1)
                       /\ Left' # 0 /\ (command'.kind = "update" => ~(Left' <= 9))
      BY <3>2, Untouched, Zenon
    <3> QED BY <3>3, Zenon DEF SoFar
  <2> QED BY <2>2, <2>4, <2>5 DEF SetupInv
<1>2. StepsOf("none") = <<>> /\ NoCommand = [kind |-> "none", todo |-> <<>>, saw |-> <<>>, wasActive |-> FALSE]
  BY DEF StepsOf, NoCommand
<1>3. CASE BeginSetup \/ BeginUpdate \/ BeginSwitch
  <2>1. version \in Nat /\ (version' = version \/ version' = version + 1)
    BY <1>3 DEF BeginSetup, BeginUpdate, BeginSwitch, SetupInv, SetupTypeOK
  <2>2. version' \in Nat
    BY <2>1
  <2>3. PICK kind \in {"setup", "update", "autostart on", "autostart off"} : Begin(kind, StepsOf(kind))
    BY <1>3 DEF BeginSetup, BeginUpdate, BeginSwitch, StepsOf
  <2>4. /\ command' = [kind |-> kind, todo |-> StepsOf(kind), saw |-> <<>>, wasActive |-> FALSE]
        /\ UNCHANGED <<rules, required, assets, widgets, plugin, unit, enabled, active>>
    BY <2>3 DEF Begin, NoCommand, files, manager
  <2> QED BY <1>1, <2>2, <2>4
<1>4. CASE EndCommand \/ Abort
  <2>1. command' = NoCommand /\ version' = version
        /\ UNCHANGED <<rules, required, assets, widgets, plugin, unit, enabled, active>>
    BY <1>4 DEF EndCommand, Abort, files, manager
  <2>2. version \in Nat
    BY DEF SetupInv, SetupTypeOK
  <2> QED BY <1>1, <1>2, <2>1, <2>2
<1>5. CASE Edit
  <2>1. /\ shared' = (shared \/ command # NoCommand)
        /\ UNCHANGED <<version, rules, required, assets, unit, enabled, command>>
        /\ widgets' \in {widgets, <<Other, Other>>, <<Other, Ours>>, <<Other>>}
        /\ active' \in {active, FALSE}
    BY <1>5 DEF Edit
  <2>2. widgets' \in Widgets
    <3>1. <<Other, Other>> \in Seq(Widget) /\ <<Other, Ours>> \in Seq(Widget) /\ <<Other>> \in Seq(Widget)
      BY DEF Widget
    <3>2. Contains(<<Other, Other>>, Other) /\ Contains(<<Other, Ours>>, Other) /\ Contains(<<Other>>, Other)
      BY DEF Contains
    <3> QED BY <1>0, <2>1, <3>1, <3>2 DEF Widgets, SetupTypeOK
  <2>3. SetupTypeOK'
    BY <1>0, <2>1, <2>2 DEF SetupTypeOK
  <2>4. StepsInOrder' /\ Installs' = Installs /\ Left' = Left
    BY <1>0, <2>1 DEF StepsInOrder, EndOf, StepsOf, SetupSteps, UpdateSteps, EnableSteps, Installs, Left
  <2>5. Installs => shared'
    <3>1. NoCommand.kind = "none"
      BY <1>2
    <3> QED BY <2>1, <3>1 DEF Installs
  <2>6. SoFar'
    BY <1>0, <2>1, <2>4, <2>5 DEF SoFar
  <2> QED BY <2>3, <2>4, <2>6 DEF SetupInv
<1> QED BY <1>3, <1>4, <1>5

(***************************************************************************)
(* For any number of commands, aborts and edits: a setup or an update that *)
(* reaches its end leaves everything of the installed version in place,    *)
(* once, the user's widgets where they are, and the autostart as the       *)
(* command is to leave it (setup.rs:48-150, 262-475).                      *)
(***************************************************************************)
THEOREM CommandsConvergeHolds == SetupSpec => []CommandsConverge
<1>1. SetupInit => SetupInv
  <2> SUFFICES ASSUME SetupInit PROVE SetupInv
    OBVIOUS
  <2>1. /\ command = [kind |-> "none", todo |-> <<>>, saw |-> <<>>, wasActive |-> FALSE]
        /\ widgets \in {<<Other>>, <<Other, Legacy>>}
    BY DEF SetupInit, NoCommand
  <2>2. widgets \in Widgets
    <3>1. <<Other>> \in Seq(Widget) /\ <<Other, Legacy>> \in Seq(Widget)
      BY DEF Widget
    <3>2. Contains(<<Other>>, Other) /\ Contains(<<Other, Legacy>>, Other)
      BY DEF Contains
    <3> QED BY <2>1, <3>1, <3>2 DEF Widgets
  <2>3. command.kind = "none" /\ command.todo = <<>> /\ command.saw = <<>> /\ command.wasActive = FALSE
    BY <2>1
  <2>4. SetupTypeOK
    BY <2>1, <2>2, <2>3 DEF SetupInit, SetupTypeOK
  <2>5. StepsInOrder
    BY <2>3 DEF StepsInOrder, StepsOf, EndOf
  <2>6. SoFar
    BY <2>3 DEF SoFar, Installs
  <2> QED BY <2>4, <2>5, <2>6 DEF SetupInv
<1>2. SetupInv /\ [SetupNext]_setupVars => SetupInv'
  <2> SUFFICES ASSUME SetupInv, [SetupNext]_setupVars PROVE SetupInv'
    OBVIOUS
  <2>1. CASE UNCHANGED setupVars
    <3>1. UNCHANGED <<version, rules, required, assets, widgets, plugin, unit, enabled, active,
                      command, shared>>
      BY <2>1 DEF setupVars, files, manager
    <3>2. SetupTypeOK'
      BY <3>1 DEF SetupInv, SetupTypeOK
    <3>4. SoFar'
      BY <3>1 DEF SetupInv, SoFar, Installs, Left
    <3>3. StepsInOrder'
      BY <3>1 DEF SetupInv, StepsInOrder, EndOf, StepsOf, SetupSteps, UpdateSteps, EnableSteps
    <3> QED BY <3>2, <3>3, <3>4 DEF SetupInv
  <2>2. CASE SetupNext
    BY <2>2, StepTaken, CommandBeginsOrEnds DEF SetupNext
  <2> QED BY <2>1, <2>2
<1>3. SetupInv => CommandsConverge
  <2> SUFFICES ASSUME SetupInv, Installs, command.todo = <<>>, ~shared
               PROVE  /\ rules = version /\ assets = version /\ required = 1 /\ plugin
                      /\ Cardinality({i \in DOMAIN widgets : widgets[i] = Ours}) = 1
                      /\ ~Contains(widgets, Legacy) /\ Contains(widgets, Other)
                      /\ unit = [file |-> version, loaded |-> version]
                      /\ command.kind = "setup" => enabled /\ active
                      /\ command.kind = "update" => active = command.wasActive
    BY DEF CommandsConverge, Installs
  <2>1. Left = 0
    BY DEF Left
  <2>2. Shown(widgets)
    BY <2>1 DEF SetupInv, SoFar
  <2>3. unit = [file |-> unit.file, loaded |-> unit.loaded]
    BY DEF SetupInv, SetupTypeOK
  <2> QED BY <2>1, <2>2, <2>3, ShownOnce DEF SetupInv, SoFar
<1> QED BY <1>1, <1>2, <1>3, PTL DEF SetupSpec

-----------------------------------------------------------------------------
(***************************************************************************)
(* Proofs about LegacyMigration for any number of starts.                  *)
(*                                                                         *)
(* The database is moved first, so a log in the home has its database      *)
(* there; and unless a copy is under way no file is in both layouts, so a  *)
(* start that finds nothing to move has left nothing behind.               *)
(***************************************************************************)

USE MigrationAssumption

MigrationTypeOK ==
  /\ old \in [File -> {"none", "whole"}]
  /\ new \in [File -> {"none", "cut", "whole", "own"}]
  /\ oneDisk \in BOOLEAN /\ torn \in BOOLEAN /\ moving \in File
  /\ step \in {"down", "move", "copy", "remove", "open", "up"}

\* A file is in both layouts, or cut in the new one, only while it is copied.
OnePlace ==
  \A f \in File :
    /\ new[f] = "cut" => step = "copy" /\ moving = f
    /\ old[f] = "whole" /\ new[f] # "none" => step \in {"copy", "remove"} /\ moving = f

\* What is copied is whole where it comes from.
CopyHasSource ==
  /\ step = "copy" => new[moving] = "cut" /\ old[moving] = "whole"
  /\ step = "remove" => new[moving] = "whole" /\ old[moving] = "whole"

\* The log never goes before its database.
LogFollows ==
  /\ old[Wal] = "whole" => old[Database] = "whole" \/ new[Database] = "whole"
  /\ new[Wal] \in {"cut", "whole"} => new[Database] = "whole"

\* What has been looked for in the old layout is not there any more.
NothingBehind == step \in {"open", "up"} => \A f \in File : old[f] = "none"

MoveInv == ~torn => OnePlace /\ CopyHasSource /\ LogFollows /\ NothingBehind

MigrationInv == MigrationTypeOK /\ MoveInv

-----------------------------------------------------------------------------
(* The next file to move is one that can be moved, and none before it can. *)
LEMMA NextMoveIsFirst ==
  ASSUME Movable # {}
  PROVE  /\ NextMove \in Movable /\ NextMove \in File
         /\ \A g \in Movable : NextMove <= g
<1>1. \E f \in Movable : \A g \in Movable : f <= g
  BY DEF Movable, File
<1>2. NextMove \in Movable /\ \A g \in Movable : NextMove <= g
  BY <1>1 DEF NextMove
<1> QED BY <1>2 DEF Movable

LEMMA MigrationTypeStep ==
  ASSUME MigrationTypeOK, [MigrationNext]_migrationVars
  PROVE  MigrationTypeOK'
<1> USE DEF MigrationTypeOK
<1>1. CASE StartDaemon
  BY <1>1 DEF StartDaemon
<1>2. CASE Rename
  BY <1>2, NextMoveIsFirst DEF Rename
<1>3. CASE BeginCopy
  BY <1>3, NextMoveIsFirst DEF BeginCopy
<1>4. CASE EndCopy
  BY <1>4 DEF EndCopy
<1>5. CASE RemoveSource
  BY <1>5 DEF RemoveSource
<1>6. CASE EndMigration
  BY <1>6 DEF EndMigration
<1>7. CASE OpenDatabase
  BY <1>7 DEF OpenDatabase
<1>8. CASE CloseDatabase
  BY <1>8 DEF CloseDatabase
<1>9. CASE Interrupt
  BY <1>9 DEF Interrupt
<1>10. CASE UNCHANGED migrationVars
  BY <1>10 DEF migrationVars
<1> QED BY <1>1, <1>2, <1>3, <1>4, <1>5, <1>6, <1>7, <1>8, <1>9, <1>10 DEF MigrationNext

(* Moving: before a file is moved, its database is where it goes.          *)
LEMMA MoveStep ==
  ASSUME MigrationTypeOK, MoveInv, ~torn, Rename \/ BeginCopy
  PROVE  OnePlace' /\ CopyHasSource' /\ LogFollows' /\ NothingBehind'
<1>1. /\ Movable # {} /\ step = "move" /\ old[NextMove] = "whole" /\ new[NextMove] = "none"
      /\ NextMove \in File /\ \A g \in Movable : NextMove <= g
  BY NextMoveIsFirst DEF Rename, BeginCopy, Movable
<1>2. OnePlace /\ LogFollows
  BY DEF MoveInv
<1>3. NextMove = Wal => new[Database] = "whole"
  <2>1. Database \in File /\ ~(Wal <= Database)
    BY DEF File, Wal, Database
  <2>2. NextMove = Wal => Database \notin Movable
    BY <1>1, <2>1
  <2> QED BY <1>1, <1>2, <2>1, <2>2 DEF OnePlace, LogFollows, Movable, MigrationTypeOK
<1>4. NextMove = Database => new[Wal] \notin {"cut", "whole"}
  BY <1>1, <1>2 DEF LogFollows
<1>5. Database \in File /\ Wal \in File /\ Database # Wal
  BY DEF File, Wal, Database
<1>6. CASE Rename
  BY <1>1, <1>2, <1>3, <1>4, <1>5, <1>6
  DEF Rename, MigrationTypeOK, OnePlace, CopyHasSource, LogFollows, NothingBehind
<1>7. CASE BeginCopy
  BY <1>1, <1>2, <1>3, <1>4, <1>5, <1>7
  DEF BeginCopy, MigrationTypeOK, OnePlace, CopyHasSource, LogFollows, NothingBehind
<1> QED BY <1>6, <1>7

LEMMA MigrationStep ==
  ASSUME MigrationTypeOK, MoveInv, [MigrationNext]_migrationVars
  PROVE  MoveInv'
<1> SUFFICES ASSUME ~torn'
             PROVE  OnePlace' /\ CopyHasSource' /\ LogFollows' /\ NothingBehind'
  BY DEF MoveInv
<1>1. ~torn
  BY DEF MigrationTypeOK, MigrationNext, migrationVars, StartDaemon, Rename, BeginCopy,
         EndCopy, RemoveSource, EndMigration, OpenDatabase, CloseDatabase, Interrupt
<1>2. OnePlace /\ CopyHasSource /\ LogFollows /\ NothingBehind
  BY <1>1 DEF MoveInv
<1>3. Database \in File /\ Wal \in File /\ Database # Wal /\ Config # Database /\ Config # Wal
  BY DEF File, Wal, Database, Config
<1> USE <1>1, <1>2, <1>3
        DEF MigrationTypeOK, OnePlace, CopyHasSource, LogFollows, NothingBehind
<1>4. CASE StartDaemon
  BY <1>4 DEF StartDaemon
<1>5. CASE Rename \/ BeginCopy
  BY <1>5, MoveStep DEF MoveInv
<1>6. CASE EndCopy
  BY <1>6 DEF EndCopy
<1>7. CASE RemoveSource
  BY <1>7 DEF RemoveSource
<1>8. CASE EndMigration
  BY <1>8 DEF EndMigration, Movable
<1>9. CASE OpenDatabase
  BY <1>9 DEF OpenDatabase
<1>10. CASE CloseDatabase
  BY <1>10 DEF CloseDatabase
<1>11. CASE Interrupt
  BY <1>11 DEF Interrupt
<1>12. CASE UNCHANGED migrationVars
  BY <1>12 DEF migrationVars
<1> QED BY <1>4, <1>5, <1>6, <1>7, <1>8, <1>9, <1>10, <1>11, <1>12 DEF MigrationNext

(* Wherever the daemon was stopped before, the database it opens is whole  *)
(* and has the log it was left with (runner.rs:161-207).                   *)
THEOREM OpensWithItsLogHolds == MigrationSpec => []OpensWithItsLog
<1>1. MigrationInit => MigrationInv
  <2> SUFFICES ASSUME MigrationInit PROVE MigrationInv
    OBVIOUS
  <2>1. Database \in File /\ Wal \in File
    BY DEF File, Wal, Database
  <2>2. MigrationTypeOK
    BY <2>1 DEF MigrationInit, MigrationTypeOK
  <2>3. MoveInv
    BY <2>1 DEF MigrationInit, MoveInv, OnePlace, CopyHasSource, LogFollows, NothingBehind
  <2> QED BY <2>2, <2>3 DEF MigrationInv
<1>2. MigrationInv /\ [MigrationNext]_migrationVars => MigrationInv'
  BY MigrationTypeStep, MigrationStep DEF MigrationInv
<1>3. MigrationInv => OpensWithItsLog
  <2> SUFFICES ASSUME MigrationInv, step = "up", ~torn
               PROVE  /\ \A f \in File : new[f] # "cut"
                      /\ old[Database] = "none" /\ old[Wal] = "none"
                      /\ new[Wal] = "whole" => new[Database] = "whole"
    BY DEF OpensWithItsLog
  <2>1. Database \in File /\ Wal \in File
    BY DEF File, Wal, Database
  <2> QED BY <2>1 DEF MigrationInv, MoveInv, OnePlace, LogFollows, NothingBehind
<1> QED BY <1>1, <1>2, <1>3, PTL DEF MigrationSpec
=============================================================================
