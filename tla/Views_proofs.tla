---------------------------- MODULE Views_proofs ----------------------------
(***************************************************************************)
(* Proofs about what is shown: RelayStream and SnapshotView, for any       *)
(* values of their constants.                                              *)
(***************************************************************************)
EXTENDS RelayStream, SnapshotView, SequenceTheorems, FoldTheorems, TLAPS

-----------------------------------------------------------------------------
(***************************************************************************)
(* RelayStream: the row of a named answer is, after every chunk, what the  *)
(* lines so far parsed at once give, because the last usage of two pieces  *)
(* is that of the second, if it has one, and otherwise that of the first.  *)
(***************************************************************************)
Stored(lines) == IF ParseSse(lines) = NoEvent THEN <<>> ELSE <<ParseSse(lines)>>

NoneBad(lines) == \A i \in DOMAIN lines : lines[i] # Bad

StreamTypeOK ==
  /\ req \in [Request -> ReqState] /\ named \in [Request -> BOOLEAN]
  /\ answer \in [Request -> Seq(Line)] /\ rows = [r \in Request |-> rows[r]]

RowsFollow ==
  \A r \in Request :
    /\ req[r] \in {"idle", "allowed"} => answer[r] = <<>> /\ rows[r] = <<>>
    /\ (req[r] \in {"streaming", "done"} /\ named[r] /\ r \notin lost /\ NoneBad(answer[r]))
         => rows[r] = Stored(answer[r])

StreamInv == StreamTypeOK /\ RowsFollow

\* What lines and events are not.
LEMMA LineKinds ==
  /\ NoEvent \notin Line /\ Cut \notin Line /\ Plain # NoEvent
  /\ \A l \in Line : l # Bad => EventOf(l) = l /\ l # NoEvent
<1> DEFINE kinds == <<Plain, Null, Bad, Cut, NoEvent>>
<1>1. \A i, j \in 1..5 : kinds[i] = kinds[j] => i = j
  BY StreamAssumption DEF IsInjective
<1>2. NoEvent \notin {Plain, Null, Bad} /\ Cut \notin {Plain, Null, Bad}
  BY <1>1
<1>3. NoEvent \notin Nat /\ Cut \notin Nat
  BY StreamAssumption
<1> QED BY <1>2, <1>3, StreamAssumption DEF Line, EventOf

\* The last line with a usage.
LEMMA LastUsage ==
  ASSUME NEW lines \in Seq(Line), UsageLines(lines) # {}
  PROVE  /\ Max(UsageLines(lines)) \in UsageLines(lines)
         /\ \A i \in UsageLines(lines) : i <= Max(UsageLines(lines))
<1>1. UsageLines(lines) \subseteq 1..Len(lines) /\ Len(lines) \in Nat
  BY DEF UsageLines
<1>2. IsFiniteSet(1..Len(lines))
  BY <1>1, FS_Interval
<1>3. IsFiniteSet(UsageLines(lines)) /\ UsageLines(lines) \in SUBSET Int
  BY <1>1, <1>2, FS_Subset
<1> QED BY <1>3, MaxIsGreatest

\* Two pieces of an answer parsed as one.
LEMMA ParseOfPieces ==
  ASSUME NEW a \in Seq(Line), NEW b \in Seq(Line)
  PROVE  ParseSse(a \o b) = IF UsageLines(b) = {} THEN ParseSse(a) ELSE ParseSse(b)
<1> DEFINE ab == a \o b
<1>1. /\ ab \in Seq(Line) /\ Len(ab) = Len(a) + Len(b)
      /\ \A i \in 1..Len(a) : ab[i] = a[i]
      /\ \A i \in 1..Len(b) : ab[Len(a) + i] = b[i]
      /\ Len(a) \in Nat /\ Len(b) \in Nat
  OBVIOUS
<1> HIDE DEF ab
<1>2. \A i \in 1..Len(a) : i \in UsageLines(ab) <=> i \in UsageLines(a)
  BY <1>1 DEF UsageLines
<1>3. \A i \in 1..Len(b) : Len(a) + i \in UsageLines(ab) <=> i \in UsageLines(b)
  BY <1>1 DEF UsageLines
<1>4. \A i \in UsageLines(ab) :
        \/ i \in UsageLines(a)
        \/ i - Len(a) \in UsageLines(b) /\ i - Len(a) \in 1..Len(b)
  <2> SUFFICES ASSUME NEW i \in UsageLines(ab), i \notin 1..Len(a)
               PROVE  i - Len(a) \in UsageLines(b) /\ i - Len(a) \in 1..Len(b)
    BY <1>2
  <2>1. i \in 1..(Len(a) + Len(b))
    BY <1>1 DEF UsageLines
  <2>2. i - Len(a) \in 1..Len(b) /\ Len(a) + (i - Len(a)) = i
    BY <1>1, <2>1
  <2> QED BY <1>3, <2>2
<1>5. UsageLines(a) \subseteq 1..Len(a) /\ UsageLines(b) \subseteq 1..Len(b)
  BY DEF UsageLines
<1>6. CASE UsageLines(b) = {}
  <2>1. UsageLines(ab) = UsageLines(a)
    BY <1>2, <1>4, <1>5, <1>6
  <2>2. UsageLines(a) # {} => ab[Max(UsageLines(a))] = a[Max(UsageLines(a))]
    BY <1>1, <1>5, LastUsage
  <2> QED BY <1>6, <2>1, <2>2 DEF ParseSse, ab
<1>7. CASE UsageLines(b) # {}
  <2> DEFINE m == Max(UsageLines(b))
             n == Max(UsageLines(ab))
  <2>1. m \in UsageLines(b) /\ \A i \in UsageLines(b) : i <= m
    BY <1>7, LastUsage
  <2>2. m \in 1..Len(b) /\ Len(a) + m \in UsageLines(ab)
    BY <1>3, <1>5, <2>1
  <2>3. n \in UsageLines(ab) /\ \A i \in UsageLines(ab) : i <= n
    BY <1>1, <2>2, LastUsage
  <2> HIDE DEF m, n
  <2>4. n \in 1..(Len(a) + Len(b))
    BY <1>1, <2>3 DEF UsageLines
  <2>5. Len(a) + m <= n
    BY <2>2, <2>3
  <2>6. n - Len(a) \in UsageLines(b)
    BY <1>1, <1>4, <1>5, <2>2, <2>3, <2>4, <2>5
  <2>7. n = Len(a) + m
    <3>1. n - Len(a) <= m
      BY <2>1, <2>6
    <3> QED BY <1>1, <2>2, <2>4, <2>5, <3>1
  <2>8. ab[n] = b[m]
    BY <1>1, <2>2, <2>7
  <2> QED BY <1>7, <2>2, <2>8 DEF ParseSse, m, n, ab
<1> QED BY <1>6, <1>7

LEMMA InitStreamInv == StreamInit => StreamInv
  BY DEF StreamInit, StreamInv, StreamTypeOK, RowsFollow, ReqState

\* What Store makes of a row that followed its answer
LEMMA StoreFollows ==
  ASSUME StreamInv, NEW r \in Request, NEW event, Store(r, event)
  PROVE  /\ rows' = [q \in Request |-> rows'[q]]
         /\ \A q \in Request \ {r} : rows'[q] = rows[q] /\ (q \in lost' => q \in lost)
         /\ \A q \in Request : q \notin lost' => q \notin lost
         /\ (named[r] /\ r \notin lost') =>
              rows'[r] = IF event = NoEvent THEN rows[r] ELSE <<event>>
  BY DEF Store, UpsertEvent, StreamInv, StreamTypeOK

LEMMA StreamStep ==
  ASSUME StreamInv, [StreamNext]_streamVars
  PROVE  StreamInv'
<1> USE DEF StreamInv
<1>1. ASSUME NEW r \in Request, Chunk(r) PROVE StreamInv'
  <2>0. PICK n \in 0..ChunkLines : \E lines \in [1..n -> Line], ends \in BOOLEAN :
          /\ req[r] = "streaming"
          /\ answer' = [answer EXCEPT ![r] = @ \o lines]
          /\ Store(r, IF n = 0 THEN NoEvent ELSE Consume(open[r], lines))
          /\ UNCHANGED <<token, req, named>>
    BY <1>1 DEF Chunk
  <2>1. PICK lines \in [1..n -> Line] :
          /\ req[r] = "streaming"
          /\ answer' = [answer EXCEPT ![r] = @ \o lines]
          /\ Store(r, IF n = 0 THEN NoEvent ELSE Consume(open[r], lines))
          /\ UNCHANGED <<token, req, named>>
    BY <2>0
  <2> DEFINE event == IF n = 0 THEN NoEvent ELSE ParseSse(lines)
  <2>2. n \in Nat /\ lines \in Seq(Line) /\ Len(lines) = n
    BY StreamAssumption
  <2>3. Store(r, event)
    BY <2>1 DEF Consume
  <2> HIDE DEF event
  <2>4. answer[r] \in Seq(Line) /\ answer[r] \o lines \in Seq(Line)
        /\ answer'[r] = answer[r] \o lines
        /\ \A q \in Request \ {r} : answer'[q] = answer[q]
    BY <2>1, <2>2 DEF StreamTypeOK
  <2>5. StreamTypeOK'
    BY <2>1, <2>3, <2>4, StoreFollows DEF StreamTypeOK
  <2>6. ASSUME named[r], r \notin lost', NoneBad(answer'[r])
        PROVE  rows'[r] = Stored(answer'[r])
    <3>1. NoneBad(answer[r]) /\ NoneBad(lines)
      <4> DEFINE a == answer[r]
                 ab == a \o lines
      <4>1. /\ \A i \in 1..Len(a) : i \in 1..Len(ab) /\ ab[i] = a[i]
            /\ \A i \in 1..Len(lines) : Len(a) + i \in 1..Len(ab) /\ ab[Len(a) + i] = lines[i]
            /\ DOMAIN a = 1..Len(a) /\ DOMAIN lines = 1..Len(lines) /\ DOMAIN ab = 1..Len(ab)
        BY <2>2, <2>4
      <4>2. \A i \in 1..Len(ab) : ab[i] # Bad
        BY <2>4, <2>6, <4>1 DEF NoneBad
      <4> HIDE DEF a, ab
      <4>3. NoneBad(a) /\ NoneBad(lines)
        BY <4>1, <4>2 DEF NoneBad
      <4> QED BY <4>3 DEF a
    <3>2. rows[r] = Stored(answer[r])
      BY <2>1, <2>3, <2>6, <3>1, StoreFollows DEF RowsFollow
    <3>3. rows'[r] = IF event = NoEvent THEN rows[r] ELSE <<event>>
      BY <2>3, <2>6, StoreFollows
    <3>4. ParseSse(answer'[r]) = IF UsageLines(lines) = {} THEN ParseSse(answer[r])
                                 ELSE ParseSse(lines)
      BY <2>2, <2>4, ParseOfPieces
    <3>5. n = 0 => UsageLines(lines) = {}
      BY <2>2 DEF UsageLines
    <3>6. UsageLines(lines) = {} => event = NoEvent
      BY DEF event, ParseSse
    <3>7. UsageLines(lines) # {} => event = ParseSse(lines) /\ ParseSse(lines) # NoEvent
      <4> SUFFICES ASSUME UsageLines(lines) # {}
                   PROVE  event = ParseSse(lines) /\ ParseSse(lines) # NoEvent
        OBVIOUS
      <4>1. Max(UsageLines(lines)) \in DOMAIN lines
        BY <2>2, LastUsage DEF UsageLines
      <4>2. lines[Max(UsageLines(lines))] \in Line /\ lines[Max(UsageLines(lines))] # Bad
        BY <2>2, <3>1, <4>1 DEF NoneBad
      <4> QED BY <3>5, <4>2, LineKinds DEF event, ParseSse
    <3> QED BY <3>2, <3>3, <3>4, <3>6, <3>7 DEF Stored
  <2>7. RowsFollow'
    BY <2>1, <2>3, <2>4, <2>6, StoreFollows DEF RowsFollow
  <2> QED BY <2>5, <2>7
<1>2. ASSUME NEW r \in Request, WholeAnswer(r) PROVE StreamInv'
  <2>1. PICK line \in Line, b \in BOOLEAN :
          /\ req[r] = "allowed" /\ req' = [req EXCEPT ![r] = "done"]
          /\ named' = [named EXCEPT ![r] = b] /\ answer' = [answer EXCEPT ![r] = <<line>>]
          /\ Store(r, ParseSse(<<line>>))
    BY <1>2 DEF WholeAnswer
  <2> DEFINE event == ParseSse(<<line>>)
  <2> HIDE DEF event
  <2>2. StreamTypeOK'
    <3>1. rows' = [q \in Request |-> rows'[q]]
      BY <2>1, StoreFollows
    <3>2. <<line>> \in Seq(Line)
      OBVIOUS
    <3> QED BY <2>1, <3>1, <3>2 DEF StreamTypeOK, ReqState
  <2>3. Store(r, event) /\ answer'[r] = <<line>>
    BY <2>1 DEF event, StreamTypeOK
  <2>4. \/ event = NoEvent /\ UNCHANGED rows
        \/ event # NoEvent /\ rows' = [rows EXCEPT ![r] = UpsertEvent(r, @, event)]
        \/ r \in lost'
    BY <2>3 DEF Store
  <2>5. rows[r] = <<>>
    BY <2>1 DEF RowsFollow
  <2>6. r \notin lost' => rows'[r] = Stored(<<line>>)
    BY <2>4, <2>5 DEF Stored, event, UpsertEvent, StreamTypeOK
  <2>7. \A q \in Request \ {r} : /\ req'[q] = req[q] /\ named'[q] = named[q]
                                 /\ answer'[q] = answer[q]
    BY <2>1 DEF StreamTypeOK
  <2>8. req'[r] = "done"
    BY <2>1 DEF StreamTypeOK
  <2>9. RowsFollow'
    BY <2>3, <2>6, <2>7, <2>8, StoreFollows DEF RowsFollow
  <2> QED BY <2>2, <2>9
<1>3. ASSUME UNCHANGED <<answer, rows, lost>>, NEW r \in Request,
             NEW next \in ReqState, req' = [req EXCEPT ![r] = next],
             next \in {"idle", "allowed"} => req[r] = "idle",
             \/ next \in {"streaming", "done"} /\ req[r] = "allowed"
             \/ next = "done" /\ req[r] = "streaming" /\ UNCHANGED named
             \/ next \notin {"streaming", "done"} /\ UNCHANGED named,
             named' \in [Request -> BOOLEAN],
             \A q \in Request \ {r} : named'[q] = named[q]
      PROVE  StreamInv'
  <2>1. StreamTypeOK'
    BY <1>3 DEF StreamTypeOK
  <2>2. req'[r] = next /\ \A q \in Request \ {r} : req'[q] = req[q]
    BY <1>3 DEF StreamTypeOK
  <2>3. Stored(<<>>) = <<>>
    BY DEF Stored, ParseSse, UsageLines
  <2>4. RowsFollow'
    BY <1>3, <2>2, <2>3 DEF RowsFollow
  <2> QED BY <2>1, <2>4
<1>4. ASSUME NEW r \in Request, Authenticate(r) \/ ForwardFails(r) \/ RelayOnly(r)
      PROVE  StreamInv'
  <2>1. PICK next \in {"allowed", "refused", "failed", "relayed"} :
          /\ req' = [req EXCEPT ![r] = next] /\ (next = "allowed" => req[r] = "idle")
          /\ UNCHANGED <<named, answer, rows, lost>>
    BY <1>4 DEF Authenticate, ForwardFails, RelayOnly
  <2>2. next \in ReqState /\ next \notin {"idle", "streaming", "done"}
    BY DEF ReqState
  <2>3. named' \in [Request -> BOOLEAN] /\ \A q \in Request \ {r} : named'[q] = named[q]
    BY <2>1 DEF StreamTypeOK
  <2> QED BY <1>3, <2>1, <2>2, <2>3
<1>5. ASSUME NEW r \in Request, StartStream(r) PROVE StreamInv'
  <2>1. /\ req[r] = "allowed" /\ req' = [req EXCEPT ![r] = "streaming"]
        /\ \E b \in BOOLEAN : named' = [named EXCEPT ![r] = b]
        /\ UNCHANGED <<answer, rows, lost>>
    BY <1>5 DEF StartStream
  <2>2. named' \in [Request -> BOOLEAN] /\ \A q \in Request \ {r} : named'[q] = named[q]
    BY <2>1 DEF StreamTypeOK
  <2> QED BY <1>3, <2>1, <2>2 DEF ReqState
<1>6. ASSUME NEW r \in Request, EndStream(r) PROVE StreamInv'
  <2>1. \E next \in {"cut off", "done"} :
          /\ req' = [req EXCEPT ![r] = next] /\ req[r] = "streaming"
          /\ UNCHANGED <<named, answer, rows, lost>>
    BY <1>6 DEF EndStream
  <2>2. PICK next \in {"cut off", "done"} :
          /\ req' = [req EXCEPT ![r] = next] /\ req[r] = "streaming"
          /\ UNCHANGED <<named, answer, rows, lost>>
    BY <2>1, Zenon
  <2>3. next \in ReqState /\ next \notin {"idle", "allowed", "streaming"}
    BY DEF ReqState
  <2>4. \/ next = "done" /\ req[r] = "streaming" /\ UNCHANGED named
        \/ next \notin {"streaming", "done"} /\ UNCHANGED named
    BY <2>2
  <2>5. named' \in [Request -> BOOLEAN] /\ \A q \in Request \ {r} : named'[q] = named[q]
    BY <2>2 DEF StreamTypeOK
  <2> QED BY <1>3, <2>2, <2>3, <2>4, <2>5
<1>7. CASE CreateToken \/ DisableToken \/ UNCHANGED streamVars
  <2>1. UNCHANGED <<req, named, answer, rows, lost>>
    BY <1>7 DEF CreateToken, DisableToken, streamVars
  <2> QED BY <2>1 DEF StreamTypeOK, RowsFollow
<1> QED BY <1>1, <1>2, <1>4, <1>5, <1>6, <1>7 DEF StreamNext

(***************************************************************************)
(* However the network cuts a streamed answer with an id, the row it       *)
(* leaves is the one its body parsed whole would give, for any lines and   *)
(* any chunks (relay-proxy lib.rs:129-149, 226-240).                       *)
(***************************************************************************)
THEOREM StreamedAsWholeHolds == StreamSpec => []StreamedAsWhole
<1>1. StreamInit => StreamInv
  BY InitStreamInv
<1>2. StreamInv /\ [StreamNext]_streamVars => StreamInv'
  BY StreamStep
<1>3. StreamInv => StreamedAsWhole
  BY DEF StreamInv, RowsFollow, StreamedAsWhole, NoneBad, Stored
<1> QED BY <1>1, <1>2, <1>3, PTL DEF StreamSpec

-----------------------------------------------------------------------------
(***************************************************************************)
(* SnapshotView: what is still to be read is the end of the one list, so   *)
(* the number of parts left says what has been read.  A row is read before *)
(* the figures, a summary before its credits; and no figure that is stored *)
(* goes back to an older commit while the connection is there.             *)
(***************************************************************************)
ARow    == [status : Problem \cup {"none", "ready"}, success : BOOLEAN, old : BOOLEAN,
            held : [FigureId -> Nat]]
AFigure == [commit : Nat, value : Nat]
Figures == {f \in [FigureId -> AFigure] : \A w \in Window : f[w].value \in 0..1000}
Status  == [row : ARow, figures : Figures, summary : Nat, credits : Nat]

ViewTypeOK ==
  /\ row \in [Conn -> ARow] /\ figures \in [Conn -> Figures]
  /\ summary \in [Conn -> Nat] /\ credits \in [Conn -> Nat] /\ commits \in Nat
  /\ shown \in [Conn -> Status]

AllReads == 4 * LastConn + 1
Order    == RowsFirst(AllParts)

ReadsRest ==
  /\ reading = [i \in 1..Len(reading) |-> reading[i]] /\ Len(reading) \in 0..AllReads
  /\ \A i \in 1..Len(reading) : reading[i] = Order[AllReads - Len(reading) + i]

\* Of the figures of K, none is of an older commit than held says.
NoOlder(figs, held, K) == \A k \in K : held[k] <= figs[k].commit

StoredTogether ==
  \A c \in Conn :
    /\ NoOlder(figures[c], row[c].held, FigureId) /\ summary[c] <= credits[c]
    /\ \A k \in FigureId : figures[c][k].commit <= commits
    /\ credits[c] <= commits

\* parts of the reading that are left when a connection has been read
Behind(c) == 4 * (LastConn - c)

SeenInOrder ==
  \A c \in Conn : Exists(c) =>
    /\ NoOlder(figures[c], shown[c].row.held, FigureId)
    /\ shown[c].summary <= credits[c]
    /\ Len(reading) <= Behind(c) + 3 => NoOlder(shown[c].figures, shown[c].row.held, Day)
    /\ Len(reading) <= Behind(c) + 2 => NoOlder(shown[c].figures, shown[c].row.held, Window)
    /\ Len(reading) <= Behind(c) => shown[c].summary <= shown[c].credits

ViewInv == ViewTypeOK /\ ReadsRest /\ StoredTogether /\ SeenInOrder

\* The parts of a snapshot: the rows, then of each connection its metrics, quota
\* windows, summary and credits.
LEMMA OrderOfParts ==
  /\ Order \in Seq({"rows", "metrics", "quotas", "summary", "credits"} \X Nat)
  /\ Len(Order) = AllReads /\ Order[1] = <<"rows", 0>>
  /\ \A c \in Conn : \A k \in 1..4 : Order[4 * c - 3 + k] = <<PartsOf[k], c>>
<1> DEFINE P == {"rows", "metrics", "quotas", "summary", "credits"} \X Nat
<1>1. LastConn \in Nat
  BY ViewAssumption
<1>2. \A i \in 1..(4 * LastConn) : /\ ((i - 1) % 4) + 1 \in 1..4 /\ ((i - 1) \div 4) + 1 \in Nat
  BY <1>1
<1>3. \A k \in 1..4 : PartsOf[k] \in {"metrics", "quotas", "summary", "credits"}
  BY DEF PartsOf
<1>4. AllParts \in Seq(P) /\ Len(AllParts) = 4 * LastConn
  <2>1. AllParts \in [1..(4 * LastConn) -> P]
    BY <1>2, <1>3 DEF AllParts
  <2> QED BY <1>1, <2>1
<1>5. <<<<"rows", 0>>>> \in Seq(P) /\ Len(<<<<"rows", 0>>>>) = 1
  OBVIOUS
<1> HIDE DEF P
<1>6. Order \in Seq(P) /\ Len(Order) = AllReads /\ Order[1] = <<"rows", 0>>
  BY <1>1, <1>4, <1>5 DEF Order, RowsFirst, AllReads
<1>7. \A i \in 1..(4 * LastConn) : Order[i + 1] = AllParts[i]
  BY <1>1, <1>4, <1>5 DEF Order, RowsFirst
<1>8. ASSUME NEW c \in Conn, NEW k \in 1..4
      PROVE  Order[4 * c - 3 + k] = <<PartsOf[k], c>>
  <2> DEFINE i == 4 * c - 4 + k
  <2>1. c \in Nat /\ 1 <= c /\ c <= LastConn
    BY <1>1 DEF Conn
  <2>2. i \in 1..(4 * LastConn) /\ i + 1 = 4 * c - 3 + k
    BY <1>1, <2>1
  <2>3. ((i - 1) % 4) + 1 = k /\ ((i - 1) \div 4) + 1 = c
    BY <2>1
  <2>4. AllParts[i] = <<PartsOf[((i - 1) % 4) + 1], ((i - 1) \div 4) + 1>>
    BY <2>2 DEF AllParts
  <2>5. Order[i + 1] = AllParts[i]
    BY <1>7, <2>2
  <2> QED BY <2>2, <2>3, <2>4, <2>5
<1> QED BY <1>6, <1>8 DEF P

\* What is left of a sequence without its first element
LEMMA TailOfSeq ==
  ASSUME NEW P, NEW s \in Seq(P), s # <<>>
  PROVE  Tail(s) = [i \in 1..(Len(s) - 1) |-> s[i + 1]]
<1>1. /\ Tail(s) \in Seq(P) /\ Len(Tail(s)) = Len(s) - 1
      /\ \A i \in 1..(Len(s) - 1) : Tail(s)[i] = s[i + 1]
  OBVIOUS
<1>2. /\ [i \in 1..(Len(s) - 1) |-> s[i + 1]] \in Seq(P)
      /\ Len([i \in 1..(Len(s) - 1) |-> s[i + 1]]) = Len(s) - 1
  OBVIOUS
<1> QED BY <1>1, <1>2, SeqEqual

\* The part read next tells how many are left.
LEMMA HeadOfRest ==
  ASSUME ReadsRest, reading # <<>>
  PROVE  /\ Len(reading) \in Nat /\ Len(reading) > 0
         /\ Head(reading) = reading[1] /\ Head(reading) = Order[AllReads - Len(reading) + 1]
         /\ Len(Tail(reading)) = Len(reading) - 1
         /\ Tail(reading) = [i \in 1..(Len(reading) - 1) |-> reading[i + 1]]
         /\ \/ Head(reading) = <<"rows", 0>> /\ Len(reading) = AllReads
            \/ \E c \in Conn, k \in 1..4 :
                 Head(reading) = <<PartsOf[k], c>> /\ Len(reading) = Behind(c) + 5 - k
<1>1. LastConn \in Nat /\ AllReads = 4 * LastConn + 1
  BY ViewAssumption DEF AllReads
<1>2. /\ Len(reading) \in 1..AllReads /\ reading[1] = Order[AllReads - Len(reading) + 1]
      /\ Head(reading) = reading[1] /\ Len(Tail(reading)) = Len(reading) - 1
      /\ Tail(reading) = [i \in 1..(Len(reading) - 1) |-> reading[i + 1]]
  <2> DEFINE P == {"rows", "metrics", "quotas", "summary", "credits"} \X Nat
  <2>1. Order \in Seq(P) /\ Len(Order) = AllReads
    BY OrderOfParts
  <2> HIDE DEF P
  <2>2. \A i \in 1..Len(reading) : reading[i] \in P
    <3> SUFFICES ASSUME NEW i \in 1..Len(reading) PROVE reading[i] \in P
      OBVIOUS
    <3>1. AllReads - Len(reading) + i \in 1..AllReads
      BY <1>1 DEF ReadsRest
    <3>2. Order[AllReads - Len(reading) + i] \in P
      BY <2>1, <3>1
    <3> QED BY <3>2 DEF ReadsRest
  <2>3. reading \in Seq(P)
    BY <2>2 DEF ReadsRest
  <2>4. Len(reading) \in Nat /\ Len(reading) > 0 /\ Head(reading) = reading[1]
        /\ Len(Tail(reading)) = Len(reading) - 1
    BY <2>3
  <2>5. Tail(reading) = [i \in 1..(Len(reading) - 1) |-> reading[i + 1]]
    BY <2>3, TailOfSeq
  <2> QED BY <2>4, <2>5 DEF ReadsRest
<1> DEFINE j == AllReads - Len(reading) + 1
<1>3. j \in 1..AllReads /\ Len(reading) = 4 * LastConn + 2 - j /\ Head(reading) = Order[j]
  BY <1>1, <1>2
<1> HIDE DEF j
<1>4. CASE j = 1
  BY <1>1, <1>2, <1>3, <1>4, OrderOfParts
<1>5. CASE j # 1
  <2> DEFINE c == (j + 2) \div 4
             k == ((j + 2) % 4) + 1
  <2>1. j \in 2..(4 * LastConn + 1)
    BY <1>1, <1>3, <1>5
  <2>2. c \in 1..LastConn /\ k \in 1..4 /\ j = 4 * c - 3 + k
    BY <1>1, <2>1
  <2> HIDE DEF c, k
  <2>3. c \in Conn /\ Head(reading) = <<PartsOf[k], c>>
    BY <1>3, <2>2, OrderOfParts DEF Conn
  <2>4. Len(reading) = Behind(c) + 5 - k
    BY <1>1, <1>3, <2>2 DEF Behind
  <2> QED BY <1>2, <1>3, <2>2, <2>3, <2>4 DEF j
<1> QED BY <1>4, <1>5

\* What is there before the first commit, and of a connection that has gone
LEMMA NothingYet ==
  /\ NoData \in Figures /\ NoRow \in ARow /\ NoRow.status = "none"
  /\ \A k \in FigureId : NoData[k].commit = 0 /\ NoRow.held[k] = 0
  /\ Nothing \in [Conn -> Status]
  /\ \A c \in Conn : Nothing[c].row = NoRow /\ Nothing[c].summary = 0
<1>1. NoData \in Figures
  BY DEF NoData, Figures, AFigure, FigureId
<1>2. NoRow \in ARow
  BY DEF NoRow, ARow
<1>3. Nothing \in [Conn -> Status]
  BY <1>1, <1>2 DEF Nothing, Status
<1> QED BY <1>1, <1>2, <1>3 DEF NoData, NoRow, Nothing

LEMMA InitViewInv == ViewInit => ViewInv
<1> SUFFICES ASSUME ViewInit PROVE ViewInv
  OBVIOUS
<1> DEFINE fresh == [NoRow EXCEPT !.status = "ready"]
<1>1. fresh \in ARow /\ fresh.held = NoRow.held
  BY DEF NoRow, ARow
<1> HIDE DEF fresh
<1>2. ViewTypeOK
  BY <1>1, NothingYet DEF ViewInit, ViewTypeOK, fresh
<1>3. LastConn \in Nat
  BY ViewAssumption
<1>4. ReadsRest
  BY <1>3 DEF ViewInit, ReadsRest, AllReads
<1>5. \A c \in Conn : /\ row[c].held = NoRow.held /\ figures[c] = NoData /\ summary[c] = 0
                      /\ credits[c] = 0 /\ commits = 0
                      /\ shown[c].row = NoRow /\ shown[c].summary = 0
                      /\ shown[c].figures = NoData /\ shown[c].credits = 0
  BY <1>1 DEF ViewInit, Nothing, fresh
<1>6. StoredTogether
  BY <1>5, NothingYet DEF StoredTogether, NoOlder
<1>7. SeenInOrder
  BY <1>5, NothingYet DEF SeenInOrder, NoOlder, FigureId
<1> QED BY <1>2, <1>4, <1>6, <1>7 DEF ViewInv

\* What a table of figures and a row hold
LEMMA FigureTypes ==
  ASSUME NEW f \in Figures
  PROVE  /\ \A k \in FigureId : f[k] \in AFigure /\ f[k].commit \in Nat /\ f[k].value \in Nat
         /\ \A w \in Window : f[w].value \in 0..1000
<1>1. f \in [FigureId -> AFigure] /\ \A w \in Window : f[w].value \in 0..1000
  BY DEF Figures
<1>2. \A k \in FigureId : f[k] \in AFigure
  BY <1>1
<1> QED BY <1>1, <1>2 DEF AFigure

LEMMA RowTypes ==
  ASSUME NEW r \in ARow, NEW k \in FigureId
  PROVE  r.held[k] \in Nat
BY DEF ARow

\* and the numbers of commits everywhere
LEMMA Counts ==
  ASSUME ViewTypeOK, NEW c \in Conn
  PROVE  /\ summary[c] \in Nat /\ credits[c] \in Nat /\ commits \in Nat
         /\ shown[c].summary \in Nat /\ shown[c].credits \in Nat
         /\ \A k \in FigureId : /\ figures[c][k].commit \in Nat /\ row[c].held[k] \in Nat
                               /\ shown[c].figures[k].commit \in Nat
                               /\ shown[c].row.held[k] \in Nat
<1>1. shown[c] \in Status /\ row[c] \in ARow /\ figures[c] \in Figures
      /\ summary[c] \in Nat /\ credits[c] \in Nat /\ commits \in Nat
  BY DEF ViewTypeOK
<1>2. /\ shown[c].row \in ARow /\ shown[c].figures \in Figures
      /\ shown[c].summary \in Nat /\ shown[c].credits \in Nat
  BY <1>1 DEF Status
<1>3. \A k \in FigureId : row[c].held[k] \in Nat /\ shown[c].row.held[k] \in Nat
  BY <1>1, <1>2, RowTypes
<1>4. \A k \in FigureId : figures[c][k].commit \in Nat /\ shown[c].figures[k].commit \in Nat
  BY <1>1, <1>2, FigureTypes
<1> QED BY <1>1, <1>2, <1>3, <1>4

\* What a change of what is stored has to keep
LEMMA StoreChanges ==
  ASSUME ViewInv, UNCHANGED <<reading, shown>>, ViewTypeOK', StoredTogether',
         \A c \in Conn : Exists(c)' =>
           /\ Exists(c) /\ credits[c] <= credits'[c]
           /\ \A k \in FigureId : figures[c][k].commit <= figures'[c][k].commit
  PROVE  ViewInv'
<1>1. ReadsRest'
  BY DEF ViewInv, ReadsRest
<1>2. SeenInOrder'
  <2> SUFFICES ASSUME NEW c \in Conn, Exists(c)'
               PROVE  /\ \A k \in FigureId : shown[c].row.held[k] <= figures'[c][k].commit
                      /\ shown[c].summary <= credits'[c]
                      /\ Len(reading) <= Behind(c) + 3 =>
                           NoOlder(shown[c].figures, shown[c].row.held, Day)
                      /\ Len(reading) <= Behind(c) + 2 =>
                           NoOlder(shown[c].figures, shown[c].row.held, Window)
                      /\ Len(reading) <= Behind(c) => shown[c].summary <= shown[c].credits
    BY DEF SeenInOrder, Behind, NoOlder
  <2>1. /\ \A k \in FigureId : /\ shown[c].row.held[k] <= figures[c][k].commit
                               /\ figures[c][k].commit <= figures'[c][k].commit
        /\ shown[c].summary <= credits[c] /\ credits[c] <= credits'[c]
        /\ Len(reading) <= Behind(c) + 3 => NoOlder(shown[c].figures, shown[c].row.held, Day)
        /\ Len(reading) <= Behind(c) + 2 => NoOlder(shown[c].figures, shown[c].row.held, Window)
        /\ Len(reading) <= Behind(c) => shown[c].summary <= shown[c].credits
    BY DEF ViewInv, SeenInOrder, NoOlder
  <2>2. /\ \A k \in FigureId : /\ shown[c].row.held[k] \in Nat /\ figures[c][k].commit \in Nat
                               /\ figures'[c][k].commit \in Nat
        /\ shown[c].summary \in Nat /\ credits[c] \in Nat /\ credits'[c] \in Nat
    <3>1. figures'[c] \in Figures /\ credits'[c] \in Nat
      BY DEF ViewTypeOK
    <3>2. \A k \in FigureId : figures'[c][k].commit \in Nat
      BY <3>1, FigureTypes
    <3> QED BY <3>1, <3>2, Counts DEF ViewInv
  <2> QED BY <2>1, <2>2
<1> QED BY <1>1, <1>2 DEF ViewInv

\* What a commit stores of a connection's figures
LEMMA UpsertedFigures ==
  ASSUME NEW figs \in Figures, NEW b \in Batch, NEW n \in Nat,
         \A w \in DOMAIN b.figures \cap Window : InRange(b.figures[w])
  PROVE  /\ Upserted(figs, b.figures, n) \in Figures
         /\ \A k \in FigureId : Upserted(figs, b.figures, n)[k].commit \in {n, figs[k].commit}
<1> DEFINE new == Upserted(figs, b.figures, n)
<1>1. new = [k \in FigureId |-> IF k \in DOMAIN b.figures
                               THEN [commit |-> n, value |-> b.figures[k]] ELSE figs[k]]
  BY DEF Upserted
<1>2. ASSUME NEW k \in FigureId
      PROVE  /\ new[k] \in AFigure /\ new[k].commit \in {n, figs[k].commit}
             /\ k \in Window => new[k].value \in 0..1000
  <2>1. CASE k \in DOMAIN b.figures
    <3>1. new[k] = [commit |-> n, value |-> b.figures[k]]
      BY <1>1, <2>1
    <3>2. k \in Window => b.figures[k] \in 0..1000
      BY <2>1 DEF InRange
    <3>3. b.figures[k] \in Nat
      BY <2>1, <3>2, ViewAssumption DEF FigureId
    <3> HIDE DEF new
    <3> QED BY <3>1, <3>2, <3>3 DEF AFigure
  <2>2. CASE k \notin DOMAIN b.figures
    <3>1. new[k] = figs[k]
      BY <1>1, <2>2
    <3> HIDE DEF new
    <3> QED BY <3>1 DEF Figures
  <2> QED BY <2>1, <2>2
<1> HIDE DEF new
<1>3. new \in [FigureId -> AFigure] /\ \A w \in Window : new[w].value \in 0..1000
  BY <1>1, <1>2 DEF FigureId
<1> QED BY <1>2, <1>3 DEF Figures, new

LEMMA StoreStep ==
  ASSUME ViewInv, NEW c \in Conn, Commit(c) \/ SyncError(c) \/ GrowOld(c) \/ RemoveRow(c)
  PROVE  ViewInv'
<1> USE DEF ViewInv
<1>1. CASE Commit(c)
  <2>1. PICK b \in Batch :
          LET stored == Upserted(figures[c], b.figures, commits + 1)
          IN /\ Changes(c) /\ \A w \in DOMAIN b.figures \cap Window : InRange(b.figures[w])
             /\ row' = [row EXCEPT ![c] = [status |-> "ready", success |-> TRUE, old |-> FALSE,
                                           held |-> [k \in FigureId |-> stored[k].commit]]]
             /\ figures' = [figures EXCEPT ![c] = stored]
             /\ summary' = [summary EXCEPT ![c] = IF b.credits THEN commits + 1 ELSE @]
             /\ credits' = [credits EXCEPT ![c] = IF b.credits THEN commits + 1 ELSE @]
             /\ UNCHANGED <<reading, shown>>
    BY <1>1 DEF Commit
  <2> DEFINE stored == Upserted(figures[c], b.figures, commits + 1)
             new    == [status |-> "ready", success |-> TRUE, old |-> FALSE,
                        held |-> [k \in FigureId |-> stored[k].commit]]
  <2>2. Exists(c) /\ commits \in Nat /\ commits' = commits + 1
    BY <2>1 DEF Changes, ViewTypeOK
  <2>3. /\ stored \in Figures
        /\ \A k \in FigureId : stored[k].commit \in {commits + 1, figures[c][k].commit}
    <3>1. figures[c] \in Figures /\ commits + 1 \in Nat
      BY <2>2 DEF ViewTypeOK
    <3> QED BY <2>1, <3>1, UpsertedFigures
  <2>4. /\ row' = [row EXCEPT ![c] = new] /\ figures' = [figures EXCEPT ![c] = stored]
        /\ summary' = [summary EXCEPT ![c] = IF b.credits THEN commits + 1 ELSE @]
        /\ credits' = [credits EXCEPT ![c] = IF b.credits THEN commits + 1 ELSE @]
        /\ UNCHANGED <<reading, shown>>
    BY <2>1
  <2> HIDE DEF stored
  <2>5. new \in ARow
    BY <2>3 DEF ARow, Figures, AFigure
  <2>6. new.held = [k \in FigureId |-> stored[k].commit]
    OBVIOUS
  <2> HIDE DEF new
  <2>7. ViewTypeOK'
    BY <2>2, <2>3, <2>4, <2>5 DEF ViewTypeOK
  <2>8. \A d \in Conn \ {c} : row'[d] = row[d] /\ figures'[d] = figures[d] /\ summary'[d] = summary[d]
                             /\ credits'[d] = credits[d]
    BY <2>4 DEF ViewTypeOK
  <2>9. /\ row'[c].held = [k \in FigureId |-> stored[k].commit] /\ figures'[c] = stored
        /\ summary'[c] = (IF b.credits THEN commits + 1 ELSE summary[c])
        /\ credits'[c] = (IF b.credits THEN commits + 1 ELSE credits[c])
    BY <2>4, <2>6 DEF ViewTypeOK
  <2>10. \A d \in Conn : /\ \A k \in FigureId : figures[d][k].commit \in Nat /\ figures[d][k].commit <= commits
                        /\ summary[d] \in Nat /\ credits[d] \in Nat /\ credits[d] <= commits
                        /\ summary[d] <= credits[d]
                        /\ \A k \in FigureId : row[d].held[k] <= figures[d][k].commit
    BY Counts DEF StoredTogether, NoOlder
  <2>11. ASSUME NEW k \in FigureId
         PROVE  /\ stored[k].commit \in Nat /\ stored[k].commit <= commits + 1
                /\ figures[c][k].commit <= stored[k].commit
    <3>1. figures[c][k].commit \in Nat /\ figures[c][k].commit <= commits
      BY <2>10
    <3> QED BY <2>2, <2>3, <3>1
  <2>12. StoredTogether'
    <3>1. ASSUME NEW d \in Conn
          PROVE  /\ \A k \in FigureId : row'[d].held[k] <= figures'[d][k].commit
                 /\ summary'[d] <= credits'[d]
                 /\ \A k \in FigureId : figures'[d][k].commit <= commits + 1
                 /\ credits'[d] <= commits + 1
      <4>1. CASE d = c
        BY <2>2, <2>9, <2>10, <2>11, <4>1
      <4>2. CASE d # c
        BY <2>2, <2>8, <2>10, <4>2
      <4> QED BY <4>1, <4>2
    <3> QED BY <2>2, <3>1 DEF StoredTogether, NoOlder
  <2>13. \A d \in Conn : Exists(d)' =>
          /\ Exists(d) /\ credits[d] <= credits'[d]
          /\ \A k \in FigureId : figures[d][k].commit <= figures'[d][k].commit
    <3> SUFFICES ASSUME NEW d \in Conn, Exists(d)'
                 PROVE  /\ Exists(d) /\ credits[d] <= credits'[d]
                        /\ \A k \in FigureId : figures[d][k].commit <= figures'[d][k].commit
      OBVIOUS
    <3>1. CASE d = c
      BY <2>2, <2>9, <2>10, <2>11, <3>1
    <3>2. CASE d # c
      BY <2>8, <2>10, <3>2 DEF Exists
    <3> QED BY <3>1, <3>2
  <2> QED BY <2>4, <2>7, <2>12, <2>13, StoreChanges
<1>2. CASE SyncError(c) \/ GrowOld(c)
  <2>1. /\ Exists(c) /\ commits' = commits + 1 /\ commits \in Nat
        /\ \/ \E status \in Problem : row' = [row EXCEPT ![c].status = status]
           \/ row' = [row EXCEPT ![c].old = TRUE]
        /\ UNCHANGED <<figures, summary, credits, reading, shown>>
    BY <1>2 DEF SyncError, GrowOld, Changes, ViewTypeOK
  <2>2. row' \in [Conn -> ARow] /\ \A d \in Conn : row'[d].held = row[d].held
    <3> DEFINE new == row'[c]
    <3>1. row[c] \in ARow
      BY DEF ViewTypeOK
    <3>2. new \in ARow /\ new.held = row[c].held
      <4>1. CASE \E status \in Problem : row' = [row EXCEPT ![c].status = status]
        <5>1. PICK status \in Problem : row' = [row EXCEPT ![c].status = status]
          BY <4>1
        <5>2. new = [row[c] EXCEPT !.status = status]
          BY <5>1 DEF ViewTypeOK
        <5> QED BY <3>1, <5>2 DEF ARow
      <4>2. CASE row' = [row EXCEPT ![c].old = TRUE]
        <5>1. new = [row[c] EXCEPT !.old = TRUE]
          BY <4>2 DEF ViewTypeOK
        <5> QED BY <3>1, <5>1 DEF ARow
      <4> QED BY <2>1, <4>1, <4>2
    <3>3. \A d \in Conn \ {c} : row'[d] = row[d]
      BY <2>1 DEF ViewTypeOK
    <3>4. row' = [d \in Conn |-> row'[d]]
      BY <2>1 DEF ViewTypeOK
    <3> HIDE DEF new
    <3>5. \A d \in Conn : row'[d] \in ARow /\ row'[d].held = row[d].held
      BY <3>2, <3>3 DEF ViewTypeOK, new
    <3> QED BY <3>4, <3>5
  <2>3. \A d \in Conn \ {c} : row'[d] = row[d]
    BY <2>1 DEF ViewTypeOK
  <2>4. ViewTypeOK'
    BY <2>1, <2>2 DEF ViewTypeOK
  <2>5. \A d \in Conn : /\ credits[d] \in Nat /\ credits[d] <= commits
                       /\ \A k \in FigureId : figures[d][k].commit \in Nat /\ figures[d][k].commit <= commits
    BY Counts DEF StoredTogether
  <2>6. StoredTogether'
    <3>1. \A d \in Conn : /\ credits[d] <= commits + 1
                         /\ \A k \in FigureId : figures[d][k].commit <= commits + 1
      BY <2>1, <2>5
    <3> QED BY <2>1, <2>2, <3>1 DEF StoredTogether, NoOlder
  <2>7. \A d \in Conn : Exists(d)' =>
          /\ Exists(d) /\ credits[d] <= credits'[d]
          /\ \A k \in FigureId : figures[d][k].commit <= figures'[d][k].commit
    BY <2>1, <2>3, <2>5 DEF Exists
  <2> QED BY <2>1, <2>4, <2>6, <2>7, StoreChanges
<1>3. CASE RemoveRow(c)
  <2>1. /\ commits' = commits + 1 /\ row' = [row EXCEPT ![c] = NoRow]
        /\ figures' = [figures EXCEPT ![c] = NoData]
        /\ summary' = [summary EXCEPT ![c] = 0] /\ credits' = [credits EXCEPT ![c] = 0]
        /\ UNCHANGED <<reading, shown>>
    BY <1>3 DEF RemoveRow, Changes
  <2>2. ViewTypeOK'
    <3>1. /\ row' \in [Conn -> ARow] /\ figures' \in [Conn -> Figures]
          /\ summary' \in [Conn -> Nat] /\ credits' \in [Conn -> Nat] /\ commits' \in Nat
      BY <2>1, NothingYet DEF ViewTypeOK
    <3> QED BY <2>1, <3>1 DEF ViewTypeOK
  <2>3. \A d \in Conn \ {c} : row'[d] = row[d] /\ figures'[d] = figures[d] /\ summary'[d] = summary[d]
                             /\ credits'[d] = credits[d]
    BY <2>1 DEF ViewTypeOK
  <2>4. row'[c] = NoRow /\ figures'[c] = NoData /\ summary'[c] = 0 /\ credits'[c] = 0
    BY <2>1 DEF ViewTypeOK
  <2>5. \A d \in Conn : /\ \A k \in FigureId : figures[d][k].commit \in Nat /\ figures[d][k].commit <= commits
                       /\ credits[d] \in Nat /\ credits[d] <= commits /\ summary[d] <= credits[d]
                       /\ \A k \in FigureId : row[d].held[k] <= figures[d][k].commit
                       /\ commits \in Nat
    BY Counts DEF StoredTogether, NoOlder
  <2>6. StoredTogether'
    <3>1. ASSUME NEW d \in Conn
          PROVE  /\ \A k \in FigureId : row'[d].held[k] <= figures'[d][k].commit
                 /\ summary'[d] <= credits'[d]
                 /\ \A k \in FigureId : figures'[d][k].commit <= commits + 1
                 /\ credits'[d] <= commits + 1
      <4>1. CASE d = c
        <5>1. commits \in Nat
          BY DEF ViewTypeOK
        <5> QED BY <2>4, <4>1, <5>1, NothingYet
      <4>2. CASE d # c
        <5>1. ASSUME NEW k \in FigureId PROVE figures[d][k].commit <= commits + 1
          <6> DEFINE n == figures[d][k].commit
          <6>1. n \in Nat /\ commits \in Nat
            BY Counts
          <6>2. n <= commits
            BY DEF StoredTogether
          <6> HIDE DEF n
          <6>3. n <= commits + 1
            BY <6>1, <6>2
          <6> QED BY <6>3 DEF n
        <5>2. credits[d] <= commits + 1
          <6>1. credits[d] \in Nat /\ commits \in Nat
            BY Counts
          <6>2. credits[d] <= commits
            BY DEF StoredTogether
          <6> QED BY <6>1, <6>2
        <5>3. /\ row'[d] = row[d] /\ figures'[d] = figures[d] /\ summary'[d] = summary[d]
              /\ credits'[d] = credits[d]
          BY <2>3, <4>2
        <5> QED BY <2>5, <5>1, <5>2, <5>3
      <4> QED BY <4>1, <4>2
    <3> QED BY <2>1, <3>1 DEF StoredTogether, NoOlder
  <2>7. \A d \in Conn : Exists(d)' =>
          /\ Exists(d) /\ credits[d] <= credits'[d]
          /\ \A k \in FigureId : figures[d][k].commit <= figures'[d][k].commit
    BY <2>3, <2>4, <2>5, NothingYet DEF Exists
  <2> QED BY <2>1, <2>2, <2>6, <2>7, StoreChanges
<1> QED BY <1>1, <1>2, <1>3

LEMMA ReadStep ==
  ASSUME ViewInv, BeginSnapshot \/ ReadRows \/ ReadPart
  PROVE  ViewInv'
<1> USE DEF ViewInv
<1>1. UNCHANGED <<row, figures, summary, credits, commits>>
  BY DEF BeginSnapshot, ReadRows, ReadPart
<1>2. StoredTogether' /\ \A c \in Conn : Exists(c)' = Exists(c)
  BY <1>1 DEF StoredTogether, Exists, NoOlder
<1>3. \A c \in Conn : /\ c \in Nat /\ 1 <= c /\ c <= LastConn /\ Behind(c) = 4 * LastConn - 4 * c
                      /\ Behind(c) \in Nat /\ Behind(c) + 4 <= 4 * LastConn
  BY ViewAssumption DEF Behind, Conn
<1>4. LastConn \in Nat /\ AllReads = 4 * LastConn + 1
  BY ViewAssumption DEF AllReads
<1>6. CASE BeginSnapshot
  <2>1. reading' = Order /\ shown' = Nothing
    BY <1>6 DEF BeginSnapshot, Order
  <2>2. Len(reading') = AllReads /\ reading' = [i \in 1..Len(reading') |-> reading'[i]]
    BY <2>1, OrderOfParts
  <2>3. ReadsRest'
    <3>1. \A i \in 1..AllReads : AllReads - AllReads + i = i
      BY <1>4
    <3> QED BY <1>4, <2>1, <2>2, <3>1 DEF ReadsRest
  <2>4. ViewTypeOK'
    BY <1>1, <2>1, NothingYet DEF ViewTypeOK
  <2>5. ASSUME NEW c \in Conn
        PROVE  /\ shown'[c].row = NoRow /\ shown'[c].figures = NoData
               /\ shown'[c].summary = 0 /\ shown'[c].credits = 0
    BY <2>1 DEF Nothing
  <2>6. \A c \in Conn : credits[c] \in Nat /\ \A k \in FigureId : figures[c][k].commit \in Nat
    BY Counts
  <2>7. ASSUME NEW c \in Conn
        PROVE  /\ NoOlder(figures[c], NoRow.held, FigureId) /\ 0 <= credits[c]
               /\ NoOlder(NoData, NoRow.held, Day) /\ NoOlder(NoData, NoRow.held, Window)
    BY <2>6, NothingYet DEF NoOlder, FigureId
  <2>8. SeenInOrder'
    <3> SUFFICES ASSUME NEW c \in Conn
                 PROVE  /\ NoOlder(figures'[c], shown'[c].row.held, FigureId)
                        /\ shown'[c].summary <= credits'[c]
                        /\ NoOlder(shown'[c].figures, shown'[c].row.held, Day)
                        /\ NoOlder(shown'[c].figures, shown'[c].row.held, Window)
                        /\ shown'[c].summary <= shown'[c].credits
      BY DEF SeenInOrder
    <3> QED BY <1>1, <2>5, <2>7
  <2> QED BY <1>2, <2>3, <2>4, <2>8
<1>7. ASSUME reading # <<>>, reading' = Tail(reading)
      PROVE  ReadsRest' /\ Len(reading') = Len(reading) - 1
  <2>1. Len(reading) \in 1..AllReads /\ Len(reading') = Len(reading) - 1
    BY <1>4, <1>7, HeadOfRest DEF ReadsRest
  <2>2. reading' = [i \in 1..(Len(reading) - 1) |-> reading[i + 1]]
    BY <1>7, HeadOfRest
  <2>3. \A i \in 1..Len(reading') : reading'[i] = Order[AllReads - Len(reading') + i]
    <3> SUFFICES ASSUME NEW i \in 1..Len(reading')
                 PROVE  reading'[i] = Order[AllReads - Len(reading') + i]
      OBVIOUS
    <3>1. i + 1 \in 1..Len(reading) /\ reading'[i] = reading[i + 1]
      BY <1>4, <2>1, <2>2
    <3>2. AllReads - Len(reading) + (i + 1) = AllReads - Len(reading') + i
      BY <1>4, <2>1
    <3> QED BY <3>1, <3>2 DEF ReadsRest
  <2>4. Len(reading') \in 0..AllReads /\ reading' = [i \in 1..Len(reading') |-> reading'[i]]
    BY <1>4, <2>1, <2>2
  <2>5. Order' = Order /\ AllReads' = AllReads
    BY DEF Order, AllReads, RowsFirst, AllParts
  <2> QED BY <2>1, <2>3, <2>4, <2>5 DEF ReadsRest
<1>8. CASE ReadRows
  <2>1. /\ reading # <<>> /\ Head(reading)[1] = "rows" /\ reading' = Tail(reading)
        /\ shown' = [c \in Conn |-> [shown[c] EXCEPT !.row = row[c]]]
    BY <1>8 DEF ReadRows
  <2>2. ReadsRest' /\ Len(reading') = 4 * LastConn
    <3>1. \A k \in 1..4 : PartsOf[k] # "rows"
      BY DEF PartsOf
    <3>2. Len(reading) = AllReads
      BY <2>1, <3>1, HeadOfRest
    <3> QED BY <1>4, <1>7, <2>1, <3>2
  <2>3. \A c \in Conn : shown'[c] = [row |-> row[c], figures |-> shown[c].figures,
                                      summary |-> shown[c].summary, credits |-> shown[c].credits]
    BY <2>1 DEF ViewTypeOK, Status
  <2>4. ViewTypeOK'
    BY <1>1, <2>1, <2>3 DEF ViewTypeOK, Status
  <2>5. SeenInOrder'
    <3> SUFFICES ASSUME NEW c \in Conn, Exists(c)'
                 PROVE  /\ NoOlder(figures'[c], shown'[c].row.held, FigureId)
                        /\ shown'[c].summary <= credits'[c]
                        /\ ~(Len(reading') <= Behind(c) + 3) /\ ~(Len(reading') <= Behind(c) + 2)
                        /\ ~(Len(reading') <= Behind(c))
      BY DEF SeenInOrder, Behind
    <3>1. shown'[c].row.held = row[c].held /\ shown'[c].summary = shown[c].summary
      <4> DEFINE seen == [row |-> row[c], figures |-> shown[c].figures,
                          summary |-> shown[c].summary, credits |-> shown[c].credits]
      <4>1. seen.row = row[c] /\ seen.summary = shown[c].summary
        OBVIOUS
      <4>2. shown'[c] = seen
        BY <2>3, Zenon
      <4> QED BY <4>1, <4>2, Zenon
    <3>2. NoOlder(figures[c], row[c].held, FigureId) /\ shown[c].summary <= credits[c]
      BY <1>2 DEF StoredTogether, SeenInOrder
    <3>3. /\ ~(Len(reading') <= Behind(c) + 3) /\ ~(Len(reading') <= Behind(c) + 2)
          /\ ~(Len(reading') <= Behind(c))
      BY <1>3, <1>4, <2>2
    <3> QED BY <1>1, <3>1, <3>2, <3>3
  <2> QED BY <1>2, <2>2, <2>4, <2>5
<1>9. CASE ReadPart
  <2>1. reading # <<>> /\ Head(reading)[1] # "rows" /\ reading' = Tail(reading)
    BY <1>9 DEF ReadPart
  <2>2. ReadsRest' /\ Len(reading') = Len(reading) - 1 /\ Len(reading) \in Nat
    BY <1>7, <2>1, HeadOfRest
  <2>3. PICK c \in Conn, n \in 1..4 : Head(reading) = <<PartsOf[n], c>> /\ Len(reading) = Behind(c) + 5 - n
    <3>1. Head(reading) # <<"rows", 0>>
      BY <2>1
    <3> QED BY <2>1, <3>1, HeadOfRest
  <2> DEFINE part  == PartsOf[n]
             found == CASE part = "metrics" -> Day [] part = "quotas" -> Window [] OTHER -> {}
             figs  == [k \in FigureId |-> IF k \in found THEN figures[c][k] ELSE shown[c].figures[k]]
             now   == [row     |-> shown[c].row,
                       figures |-> figs,
                       summary |-> IF part = "summary" THEN summary[c] ELSE shown[c].summary,
                       credits |-> IF part = "credits" /\ shown[c].summary > 0
                                   THEN credits[c] ELSE shown[c].credits]
  <2>4. shown' = [shown EXCEPT ![c] = now]
    <3>1. Head(reading)[1] = part /\ Head(reading)[2] = c
      BY <2>3
    <3> HIDE DEF part
    <3> QED BY <1>9, <3>1 DEF ReadPart
  <2>5. /\ n = 1 => part = "metrics" /\ found = Day
        /\ n = 2 => part = "quotas" /\ found = Window
        /\ n = 3 => part = "summary" /\ found = {}
        /\ n = 4 => part = "credits" /\ found = {}
    BY DEF PartsOf
  <2>6. figs \in Figures
    <3>1. figures[c] \in Figures /\ shown[c].figures \in Figures
      BY DEF ViewTypeOK, Status
    <3> HIDE DEF found
    <3>2. \A k \in FigureId : figs[k] \in {figures[c][k], shown[c].figures[k]}
      OBVIOUS
    <3>3. \A k \in FigureId : figs[k] \in AFigure
      BY <3>1, <3>2, FigureTypes
    <3>4. ASSUME NEW w \in Window PROVE figs[w].value \in 0..1000
      <4>1. figs[w] = figures[c][w] \/ figs[w] = shown[c].figures[w]
        BY <3>2 DEF FigureId
      <4>2. figures[c][w].value \in 0..1000 /\ shown[c].figures[w].value \in 0..1000
        <5>1. \A f \in Figures : f[w].value \in 0..1000
          BY FigureTypes
        <5> QED BY <3>1, <5>1
      <4> HIDE DEF figs
      <4> QED BY <4>1, <4>2
    <3> QED BY <3>3, <3>4 DEF Figures
  <2>7. now \in Status
    <3> HIDE DEF figs, part
    <3> QED BY <2>6 DEF ViewTypeOK, Status
  <2>8. ViewTypeOK'
    <3> HIDE DEF now
    <3> QED BY <1>1, <2>4, <2>7 DEF ViewTypeOK
  <2>9. /\ now.row = shown[c].row /\ now.figures = figs
        /\ now.summary = (IF n = 3 THEN summary[c] ELSE shown[c].summary)
        /\ now.credits = (IF n = 4 /\ shown[c].summary > 0 THEN credits[c] ELSE shown[c].credits)
    <3>1. (part = "summary" <=> n = 3) /\ (part = "credits" <=> n = 4)
      BY <2>5
    <3> HIDE DEF figs, part
    <3> QED BY <3>1
  <2>10. \A k \in FigureId : figs[k] = IF k \in found THEN figures[c][k] ELSE shown[c].figures[k]
    OBVIOUS
  <2>11. shown'[c] = now /\ \A d \in Conn \ {c} : shown'[d] = shown[d]
    <3> HIDE DEF now
    <3> QED BY <2>4 DEF ViewTypeOK
  <2> HIDE DEF now, figs, found, part
  <2>12. ASSUME NEW d \in Conn, Exists(d)
         PROVE  /\ NoOlder(figures[d], shown'[d].row.held, FigureId)
                /\ shown'[d].summary <= credits[d]
                /\ Len(reading') <= Behind(d) + 3 => NoOlder(shown'[d].figures, shown'[d].row.held, Day)
                /\ Len(reading') <= Behind(d) + 2 => NoOlder(shown'[d].figures, shown'[d].row.held, Window)
                /\ Len(reading') <= Behind(d) => shown'[d].summary <= shown'[d].credits
    <3>1. /\ NoOlder(figures[d], shown[d].row.held, FigureId)
          /\ shown[d].summary <= credits[d]
          /\ Len(reading) <= Behind(d) + 3 => NoOlder(shown[d].figures, shown[d].row.held, Day)
          /\ Len(reading) <= Behind(d) + 2 => NoOlder(shown[d].figures, shown[d].row.held, Window)
          /\ Len(reading) <= Behind(d) => shown[d].summary <= shown[d].credits
          /\ summary[d] <= credits[d]
      BY <2>12 DEF SeenInOrder, StoredTogether
    <3>2. Behind(d) \in Nat /\ Behind(c) \in Nat
      BY <1>3
    <3>3. CASE d = c
      <4>1. NoOlder(figures[c], shown'[c].row.held, FigureId) /\ shown'[c].row = shown[c].row
        BY <2>9, <2>11, <3>1, <3>3
      <4>2. /\ shown[c].summary \in Nat /\ shown[c].credits \in Nat
            /\ summary[c] \in Nat /\ credits[c] \in Nat
        BY Counts
      <4>3. shown'[c].summary <= credits[c]
        BY <2>9, <2>11, <3>1, <3>3
      <4>4. Len(reading') <= Behind(c) => shown'[c].summary <= shown'[c].credits
        <5> SUFFICES ASSUME Len(reading') <= Behind(c)
                     PROVE  shown'[c].summary <= shown'[c].credits
          OBVIOUS
        <5>1. n = 4
          BY <2>2, <2>3, <3>2
        <5>2. /\ shown'[c].summary = shown[c].summary
              /\ shown'[c].credits = IF shown[c].summary > 0 THEN credits[c] ELSE shown[c].credits
          BY <2>9, <2>11, <5>1
        <5> QED BY <3>1, <3>3, <4>2, <5>2
      <4>5. Len(reading') <= Behind(c) + 3 => NoOlder(shown'[c].figures, shown'[c].row.held, Day)
        <5>1. CASE n = 1
          BY <2>5, <2>9, <2>10, <2>11, <4>1, <5>1 DEF NoOlder, FigureId
        <5>2. CASE n # 1
          <6>1. Len(reading) <= Behind(c) + 3
            BY <2>3, <3>2, <5>2
          <6>2. NoOlder(shown[c].figures, shown[c].row.held, Day)
            BY <3>1, <3>3, <6>1
          <6> QED BY <2>9, <2>10, <2>11, <3>1, <3>3, <6>2 DEF NoOlder, FigureId
        <5> QED BY <5>1, <5>2
      <4>6. Len(reading') <= Behind(c) + 2 => NoOlder(shown'[c].figures, shown'[c].row.held, Window)
        <5>1. CASE n = 2
          BY <2>5, <2>9, <2>10, <2>11, <4>1, <5>1 DEF NoOlder, FigureId
        <5>2. CASE n # 2
          <6> SUFFICES ASSUME Len(reading') <= Behind(c) + 2
                       PROVE  NoOlder(shown'[c].figures, shown'[c].row.held, Window)
            OBVIOUS
          <6>1. Len(reading) <= Behind(c) + 2 \/ n = 1
            BY <2>3, <3>2, <5>2
          <6>2. n # 1
            BY <2>2, <2>3, <3>2
          <6>3. NoOlder(shown[c].figures, shown[c].row.held, Window)
            BY <3>1, <3>3, <6>1, <6>2
          <6> QED BY <2>9, <2>10, <2>11, <3>1, <3>3, <6>3 DEF NoOlder, FigureId
        <5> QED BY <5>1, <5>2
      <4> QED BY <3>3, <4>1, <4>3, <4>4, <4>5, <4>6
    <3>4. CASE d # c
      <4>1. /\ Behind(c) = 4 * LastConn - 4 * c /\ Behind(d) = 4 * LastConn - 4 * d
            /\ c \in Nat /\ d \in Nat
        BY <1>3
      <4>2. \A m \in {0, 2, 3} : Len(reading') <= Behind(d) + m => Len(reading) <= Behind(d) + m
        BY <1>4, <2>2, <2>3, <3>4, <4>1
      <4>3. /\ Len(reading') <= Behind(d) + 3 => Len(reading) <= Behind(d) + 3
            /\ Len(reading') <= Behind(d) + 2 => Len(reading) <= Behind(d) + 2
            /\ Len(reading') <= Behind(d) => Len(reading) <= Behind(d)
        BY <3>2, <4>2
      <4> QED BY <2>11, <3>1, <3>4, <4>3
    <3> QED BY <3>3, <3>4
  <2>13. SeenInOrder'
    <3>1. \A d \in Conn : Behind(d)' = Behind(d)
      BY DEF Behind
    <3> QED BY <1>1, <1>2, <2>12, <3>1 DEF SeenInOrder, NoOlder
  <2> QED BY <1>2, <2>2, <2>8, <2>13
<1> QED BY <1>6, <1>8, <1>9

-----------------------------------------------------------------------------
(* What the bar shows of it.                                               *)

\* Division with remainder,
LEMMA Quotient ==
  ASSUME NEW n \in Nat, NEW d \in Nat, d > 0
  PROVE  /\ n \div d \in Nat /\ n % d \in Nat /\ n % d < d
         /\ n = d * (n \div d) + (n % d)
<1>1. n \div d \in Int /\ n % d \in Nat /\ n % d < d
  OBVIOUS
<1>2. n = d * (n \div d) + (n % d)
  OBVIOUS
<1>3. n \div d >= 0
  BY <1>1, <1>2
<1> QED BY <1>1, <1>2, <1>3

\* which is monotone,
LEMMA QuotientMonotone ==
  ASSUME NEW m \in Nat, NEW n \in Nat, m <= n, NEW d \in Nat, d > 0
  PROVE  \/ m \div d < n \div d
         \/ m \div d = n \div d /\ m % d <= n % d
<1> DEFINE p == m \div d
           q == n \div d
<1>1. /\ p \in Nat /\ m % d \in Nat /\ m % d < d /\ m = d * p + (m % d)
      /\ q \in Nat /\ n % d \in Nat /\ n % d < d /\ n = d * q + (n % d)
  BY Quotient
<1> HIDE DEF p, q
<1>2. CASE p < q
  BY <1>2 DEF p, q
<1>3. CASE p = q
  <2>1. d * p = d * q
    BY <1>3
  <2>2. m % d <= n % d
    BY <1>1, <2>1
  <2> QED BY <1>3, <2>2 DEF p, q
<1>4. CASE q < p
  <2>1. PICK k \in Nat : p = q + 1 + k
    <3>1. p - q - 1 \in Nat /\ p = q + 1 + (p - q - 1)
      BY <1>1, <1>4
    <3> QED BY <3>1
  <2>2. d * p = d * q + d + d * k /\ d * k \in Nat
    BY <1>1, <2>1
  <2> QED BY <1>1, <2>2
<1> QED BY <1>1, <1>2, <1>3, <1>4

\* and so is rounding to the nearest,
LEMMA RoundedMonotone ==
  ASSUME NEW m \in Nat, NEW n \in Nat, m <= n, NEW d \in Nat, d > 0
  PROVE  Rounded(m, d) <= Rounded(n, d)
<1> DEFINE p == m \div d
           q == n \div d
           r == m % d
           s == n % d
<1>1. p \in Nat /\ q \in Nat /\ r \in Nat /\ s \in Nat
  BY Quotient
<1>2. p < q \/ (p = q /\ r <= s)
  BY QuotientMonotone
<1>3. /\ Rounded(m, d) = IF 2 * r < d \/ (2 * r = d /\ p % 2 = 0) THEN p ELSE p + 1
      /\ Rounded(n, d) = IF 2 * s < d \/ (2 * s = d /\ q % 2 = 0) THEN q ELSE q + 1
  BY DEF Rounded
<1> HIDE DEF p, q, r, s
<1> QED BY <1>1, <1>2, <1>3

\* within the bounds the bar uses.
LEMMA RoundedBounds ==
  /\ \A n \in 0..194 : Rounded(n, 10) < 20
  /\ \A n, d \in Nat : d > 0 /\ n <= d => Rounded(7 * n, d) <= 7
<1>1. ASSUME NEW n \in 0..194 PROVE Rounded(n, 10) < 20
  BY DEF Rounded
<1>2. ASSUME NEW n \in Nat, NEW d \in Nat, d > 0, n <= d PROVE Rounded(7 * n, d) <= 7
  <2>1. Rounded(7 * n, d) <= Rounded(7 * d, d)
    <3>1. 7 * n \in Nat /\ 7 * d \in Nat /\ 7 * n <= 7 * d
      BY <1>2
    <3> QED BY <1>2, <3>1, RoundedMonotone
  <2>2. (7 * d) \div d = 7 /\ (7 * d) % d = 0
    BY <1>2
  <2>3. Rounded(7 * d, d) = 7
    BY <1>2, <2>2 DEF Rounded
  <2> QED BY <2>1, <2>3
<1> QED BY <1>1, <1>2

\* A quota that is nearly or all used is shown as such.
LEMMA QuotaWarns ==
  ASSUME ViewTypeOK, NEW p \in Quotas, Ratio(p) < 195
  PROVE  Bar \cap {"quota-critical", "quota-exhausted"} # {}
<1> DEFINE Ratios == {Ratio(q) : q \in Quotas}
<1>1. ASSUME NEW q \in Quotas PROVE Ratio(q) \in 0..1000
  <2>1. PICK d \in Conn, w \in Window : q = <<d, w>>
    BY DEF Quotas, Listed
  <2>2. shown[d].figures \in Figures
    BY DEF ViewTypeOK, Status
  <2>3. Ratio(q) = shown[d].figures[w].value
    BY <2>1 DEF Ratio
  <2>4. \A f \in Figures : f[w].value \in 0..1000
    BY <2>1, FigureTypes
  <2>5. shown[d].figures[w].value \in 0..1000
    BY <2>2, <2>4
  <2> QED BY <2>3, <2>5
<1>2. Ratios \subseteq 0..1000 /\ Ratio(p) \in Ratios
  BY <1>1
<1> HIDE DEF Ratios
<1>3. Ratios \in SUBSET Nat
  BY <1>2
<1> DEFINE ratio == Ratio(p)
<1>4. Min(Ratios) \in Ratios /\ \A n \in Ratios : Min(Ratios) <= n
  <2>1. Ratios # {}
    BY <1>2
  <2> QED BY <1>3, <2>1, MinIsLeast
<1>5. Least \in 0..194
  <2>1. Least = Min(Ratios)
    BY DEF Least, Ratios
  <2>2. ratio \in Ratios /\ ratio < 195
    BY <1>2
  <2> HIDE DEF ratio
  <2>3. Min(Ratios) \in 0..1000 /\ ratio \in 0..1000 /\ Min(Ratios) <= ratio
    <3>1. \A n \in Ratios : n \in 0..1000
      BY <1>2
    <3>2. Min(Ratios) \in 0..1000
      BY <1>4, <3>1, Zenon
    <3>3. ratio \in 0..1000
      BY <2>2, <3>1, Zenon
    <3>4. Min(Ratios) <= ratio
      BY <1>4, <2>2, Zenon
    <3> QED BY <3>2, <3>3, <3>4, Zenon
  <2> QED BY <2>1, <2>2, <2>3
<1>6. Percent < 20
  BY <1>5, RoundedBounds DEF Percent
<1>7. QuotaClass = {"quota-exhausted"} \/ QuotaClass = {"quota-critical"}
  BY <1>6 DEF QuotaClass
<1> QED BY <1>7 DEF Bar

\* A connection in trouble is shown as such.
LEMMA TroubleShows ==
  ASSUME Troubled # {}
  PROVE  Bar \cap Problem # {}
<1>1. Troubled \in SUBSET Nat
  BY ViewAssumption DEF Troubled, Listed, Conn
<1>2. Min(Troubled) \in Troubled
  BY <1>1, MinIsLeast
<1>3. shown[Min(Troubled)].row.status \in Problem /\ shown[Min(Troubled)].row.status \in StatusClass
  BY <1>2 DEF Troubled, StatusClass
<1> QED BY <1>3 DEF Bar

\* The days of the trend.
LEMMA DaysAreCounts ==
  ASSUME ViewTypeOK
  PROVE  ShownDays \in Nat /\ DOMAIN Days = 1..ShownDays /\ \A i \in 1..ShownDays : Days[i] \in Nat
<1>1. LastConn \in Nat /\ ShownDays \in Nat
  BY ViewAssumption
<1>2. IsFiniteSet(Listed)
  <2>1. IsFiniteSet(1..LastConn) /\ Listed \subseteq 1..LastConn
    BY <1>1, FS_Interval DEF Listed, Conn
  <2> QED BY <2>1, FS_Subset
<1>3. ASSUME NEW i \in 1..ShownDays PROVE Days[i] \in Nat
  <2> DEFINE f == [c \in Listed |-> shown[c].figures[i].value]
  <2>1. \A c \in Listed : f[c] \in Nat
    <3> SUFFICES ASSUME NEW c \in Listed PROVE shown[c].figures[i].value \in Nat
      OBVIOUS
    <3>1. shown[c].figures \in Figures
      BY DEF ViewTypeOK, Status, Listed
    <3>2. i \in FigureId
      BY DEF FigureId, Day
    <3> QED BY <3>1, <3>2, FigureTypes
  <2>2. MapThenSumSet(LAMBDA c : shown[c].figures[i].value, Listed) = SumFunctionOnSet(f, Listed)
    BY <1>2, Zenon DEF SumFunctionOnSet, FoldFunctionOnSet, MapThenSumSet, MapThenFoldSet
  <2>3. SumFunctionOnSet(f, Listed) \in Nat
    BY <1>2, <2>1, SumOverNat
  <2>4. Days[i] = MapThenSumSet(LAMBDA c : shown[c].figures[i].value, Listed)
    BY DEF Days, Day
  <2> QED BY <2>2, <2>3, <2>4
<1> QED BY <1>1, <1>3 DEF Days, Day

\* A day with more has the higher column, of eight heights.
LEMMA TrendRises ==
  ASSUME ViewTypeOK
  PROVE  \A i, j \in DOMAIN Trend : Days[i] <= Days[j] => Trend[i] <= Trend[j] /\ Trend[j] <= 7
<1> DEFINE n == ShownDays
<1>1. n \in Nat /\ DOMAIN Days = 1..n /\ \A i \in 1..n : Days[i] \in Nat
  BY DaysAreCounts
<1> DEFINE S == {0} \cup {Days[i] : i \in DOMAIN Days}
           most == Max(S)
<1>2. S \in SUBSET Int /\ S # {} /\ IsFiniteSet(S)
  <2>1. IsFiniteSet(1..n)
    BY <1>1, FS_Interval
  <2>2. IsFiniteSet({Days[i] : i \in 1..n})
    BY <2>1, ImageFinite
  <2>3. IsFiniteSet({0})
    BY FS_Singleton
  <2>4. IsFiniteSet(S)
    BY <1>1, <2>2, <2>3, FS_Union
  <2> QED BY <1>1, <2>4
<1>3. most \in S /\ \A x \in S : x <= most
  BY <1>2, MaxIsGreatest
<1>4. most \in Nat /\ \A i \in DOMAIN Days : Days[i] <= most
  BY <1>1, <1>3
<1>5. Trend = IF most = 0 THEN <<>> ELSE [i \in DOMAIN Days |-> Rounded(7 * Days[i], most)]
  BY DEF Trend
<1> HIDE DEF S, most
<1>6. CASE most = 0
  BY <1>5, <1>6
<1>7. CASE most # 0
  <2> SUFFICES ASSUME NEW i \in DOMAIN Trend, NEW j \in DOMAIN Trend, Days[i] <= Days[j]
               PROVE  Trend[i] <= Trend[j] /\ Trend[j] <= 7
    OBVIOUS
  <2>1. /\ Days[i] \in Nat /\ Days[j] \in Nat /\ Days[j] <= most
        /\ Trend[i] = Rounded(7 * Days[i], most) /\ Trend[j] = Rounded(7 * Days[j], most)
    BY <1>1, <1>4, <1>5, <1>7
  <2>2. 7 * Days[i] \in Nat /\ 7 * Days[j] \in Nat /\ 7 * Days[i] <= 7 * Days[j] /\ most > 0
    BY <1>4, <1>7, <2>1
  <2>3. Rounded(7 * Days[i], most) <= Rounded(7 * Days[j], most)
    BY <1>4, <2>2, RoundedMonotone
  <2>4. Rounded(7 * Days[j], most) <= 7
    BY <1>4, <2>1, <2>2, RoundedBounds
  <2> QED BY <2>1, <2>3, <2>4
<1> QED BY <1>6, <1>7

(***************************************************************************)
(* For any number of connections, windows and days and whatever the        *)
(* batches bring: a complete snapshot shows each figure as it was when the *)
(* last_success_at it shows was set, or newer, and the bar warns of what   *)
(* it shows, whatever the synchronisations commit while it is read         *)
(* (snapshot.rs:43-96, 112-175, 233-313, storage lib.rs:284-409, 612-741). *)
(***************************************************************************)
THEOREM ShowsWhatIsHolds == ViewSpec => []ShowsWhatIs
<1>1. ViewInit => ViewInv
  BY InitViewInv
<1>2. ViewInv /\ [ViewNext]_viewVars => ViewInv'
  <2> SUFFICES ASSUME ViewInv, [ViewNext]_viewVars PROVE ViewInv'
    OBVIOUS
  <2>1. CASE BeginSnapshot \/ ReadRows \/ ReadPart
    BY <2>1, ReadStep
  <2>2. CASE \E c \in Conn : Commit(c) \/ SyncError(c) \/ GrowOld(c) \/ RemoveRow(c)
    BY <2>2, StoreStep
  <2>3. CASE UNCHANGED viewVars
    BY <2>3 DEF viewVars, ViewInv, ViewTypeOK, ReadsRest, StoredTogether, SeenInOrder, Exists,
                Order, AllReads, Behind, NoOlder
  <2> QED BY <2>1, <2>2, <2>3 DEF ViewNext
<1>3. ViewInv => ShowsWhatIs
  <2> SUFFICES ASSUME ViewInv, SnapshotDone PROVE FiguresAreCurrent /\ BarWarns
    BY DEF ShowsWhatIs
  <2>1. FiguresAreCurrent
    <3> SUFFICES ASSUME NEW c \in Conn, Exists(c)
                 PROVE  /\ \A k \in FigureId : shown[c].figures[k].commit >= shown[c].row.held[k]
                        /\ shown[c].credits >= shown[c].summary
      BY DEF FiguresAreCurrent, Listed
    <3>1. Len(reading) <= Behind(c) + 3 /\ Len(reading) <= Behind(c) + 2 /\ Len(reading) <= Behind(c)
      BY ViewAssumption DEF SnapshotDone, Behind, Conn
    <3>2. /\ NoOlder(shown[c].figures, shown[c].row.held, Day)
          /\ NoOlder(shown[c].figures, shown[c].row.held, Window)
          /\ shown[c].summary <= shown[c].credits
      BY <3>1 DEF ViewInv, SeenInOrder
    <3>3. ViewTypeOK
      BY DEF ViewInv
    <3> QED BY <3>2, <3>3, Counts DEF NoOlder, FigureId
  <2>2. ViewTypeOK
    BY DEF ViewInv
  <2>3. BarWarns
    BY <2>2, QuotaWarns, TroubleShows, TrendRises DEF BarWarns
  <2> QED BY <2>1, <2>3
<1> QED BY <1>1, <1>2, <1>3, PTL DEF ViewSpec
=============================================================================
