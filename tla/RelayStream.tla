------------------------------ MODULE RelayStream ------------------------------
(***************************************************************************)
(* The relay proxy's handling of requests: a client's token is checked,    *)
(* the request is forwarded, and the usage a successful answer reports is  *)
(* stored while the answer passes through.  A streamed answer is relayed   *)
(* chunk by chunk as the network cuts it, and each chunk may store usage;  *)
(* an answer with a length is parsed once, whole.  The store may fail, and *)
(* that is nobody's error.                                                 *)
(*                                                                         *)
(* An answer is a sequence of lines; of a line only its usage counts.      *)
(***************************************************************************)
EXTENDS Naturals, Sequences, SequencesExt, FiniteSets

CONSTANTS
  Request,    \* requests of clients
  MaxTokens,  \* bound: tokens of a line's usage
  MaxLines,   \* bound: lines of an answer
  ChunkLines, \* bound: lines that end within one chunk
  Plain,      \* a line that says nothing of usage: text, [DONE], no JSON
  Null,       \* a line whose usage is null, and the row of such an event
  Bad,        \* a line whose usage UsageEvent::validate refuses
  Cut,        \* the end of a line that has lost its beginning
  NoEvent     \* a parse that gives no event

ASSUME StreamAssumption ==
  /\ MaxTokens \in Nat /\ MaxLines \in Nat /\ ChunkLines \in Nat
  /\ IsInjective(<<Plain, Null, Bad, Cut, NoEvent>>)
  /\ {Plain, Null, Bad, Cut, NoEvent} \cap Nat = {}

Line == {Plain, Null, Bad} \cup 0..MaxTokens

VARIABLES
  token,   \* the client's token in proxy_credentials: "none", "active" or "disabled"
  req,     \* what each request does next
  named,   \* whether its answer has an id, the external_id of its events
  answer,  \* the complete lines of its answer so far
  open,    \* whether the chunks so far end within a line: SseUsageCollector.pending
  rows,    \* usage_events: the tokens stored for each request, by external_id
  lost     \* observation: requests of whose events the store refused one

streamVars == <<token, req, named, answer, open, rows, lost>>

ReqState == {"idle", "allowed", "streaming", "relayed", "refused", "failed", "done", "cut off"}

StreamInit ==
  /\ token = "none"
  /\ req = [r \in Request |-> "idle"] /\ named = [r \in Request |-> FALSE]
  /\ answer = [r \in Request |-> <<>>] /\ open = [r \in Request |-> FALSE]
  /\ rows = [r \in Request |-> <<>>] /\ lost = {}

\* proxy/credentials/create: a name and 24 characters are enough.
CreateToken ==
  /\ token = "none" /\ token' = "active"
  /\ UNCHANGED <<req, named, answer, open, rows, lost>>

\* authenticate_proxy_credential: the list of credentials is read under one lock,
\* the use of the one that matches noted under another.
Admits == token = "active"

\* forward, authenticate
Authenticate(r) ==
  /\ req[r] = "idle"
  /\ req' = [req EXCEPT ![r] = IF Admits THEN "allowed" ELSE "refused"]
  /\ UNCHANGED <<token, named, answer, open, rows, lost>>

\* proxy/credentials/disable
DisableToken ==
  /\ token = "active" /\ token' = "disabled"
  /\ UNCHANGED <<req, named, answer, open, rows, lost>>

\* The body is too large, or the relay cannot be reached: 413, 502.
ForwardFails(r) ==
  /\ req[r] = "allowed" /\ req' = [req EXCEPT ![r] = "failed"]
  /\ UNCHANGED <<token, named, answer, open, rows, lost>>

\* An answer that is no success, or not of a statistical path, passes unread.
RelayOnly(r) ==
  /\ req[r] = "allowed" /\ req' = [req EXCEPT ![r] = "relayed"]
  /\ UNCHANGED <<token, named, answer, open, rows, lost>>

-----------------------------------------------------------------------------
\* usage_event: a null usage is an event without counts; what the ledger would
\* refuse is none.
EventOf(line) == IF line = Bad THEN NoEvent ELSE line

\* parse_sse, then usage_event: the last line whose value has a usage, be it null.
UsageLines(lines) == {i \in DOMAIN lines : lines[i] \notin {Plain, Cut}}

ParseSse(lines) ==
  IF UsageLines(lines) = {} THEN NoEvent ELSE EventOf(lines[Max(UsageLines(lines))])

\* commit_usage: ON CONFLICT(connection, source_event, external_id) DO UPDATE;
\* an answer without an id makes a new id for each of its events.
UpsertEvent(r, table, event) == IF named[r] THEN <<event>> ELSE Append(table, event)

Store(r, event) ==
  \/ event = NoEvent /\ UNCHANGED <<rows, lost>>
  \/ /\ event # NoEvent
     /\ rows' = [rows EXCEPT ![r] = UpsertEvent(r, @, event)] /\ UNCHANGED lost
  \/ event # NoEvent /\ lost' = lost \cup {r} /\ UNCHANGED rows

StartStream(r) ==
  /\ req[r] = "allowed" /\ req' = [req EXCEPT ![r] = "streaming"]
  /\ \E b \in BOOLEAN : named' = [named EXCEPT ![r] = b]
  /\ UNCHANGED <<token, answer, open, rows, lost>>

\* SseUsageCollector::consume: a chunk that ends no line is kept; else the
\* lines it ends are parsed, the kept beginning in front of the first.
\* Variant: nothing is kept of a chunk that ends within a line.
ConsumeChunk(kept, lines) == ParseSse(IF kept THEN <<Cut>> \o Tail(lines) ELSE lines)
Consume(kept, lines) == ParseSse(lines)

Chunk(r) ==
  \E n \in 0..ChunkLines : \E lines \in [1..n -> Line], ends \in BOOLEAN :
    /\ req[r] = "streaming" /\ Len(answer[r]) + n <= MaxLines
    /\ n = 0 => ends # open[r] /\ ~open[r]
    /\ answer' = [answer EXCEPT ![r] = @ \o lines]
    /\ open' = [open EXCEPT ![r] = ends]
    /\ Store(r, IF n = 0 THEN NoEvent ELSE Consume(open[r], lines))
    /\ UNCHANGED <<token, req, named>>

\* The stream ends after a line or within one, the relay's connection breaks or
\* the client goes away: what the collector keeps is dropped.
EndStream(r) ==
  /\ req[r] = "streaming"
  /\ req' = [req EXCEPT ![r] = IF open[r] THEN "cut off" ELSE "done"]
  /\ UNCHANGED <<token, named, answer, open, rows, lost>>

\* An answer with a length: parse_usage on the whole body.
WholeAnswer(r) ==
  \E line \in Line, b \in BOOLEAN :
    /\ req[r] = "allowed" /\ req' = [req EXCEPT ![r] = "done"]
    /\ named' = [named EXCEPT ![r] = b] /\ answer' = [answer EXCEPT ![r] = <<line>>]
    /\ Store(r, ParseSse(<<line>>))
    /\ UNCHANGED <<token, open>>

StreamNext ==
  \/ CreateToken \/ DisableToken
  \/ \E r \in Request : \/ Authenticate(r) \/ ForwardFails(r) \/ RelayOnly(r)
                        \/ StartStream(r) \/ Chunk(r) \/ EndStream(r) \/ WholeAnswer(r)

StreamSpec == StreamInit /\ [][StreamNext]_streamVars

-----------------------------------------------------------------------------
\* However the network cuts a streamed answer with an id, it leaves one row, the
\* one its body parsed whole would give, unless it ended within a line, the store
\* refused an event or a line's usage was refused (relay-proxy lib.rs:129-149,
\* 226-240: the chunks keep the earlier event, the whole body would give none).
StreamedAsWhole ==
  \A r \in Request :
    /\ req[r] = "done" /\ named[r] /\ r \notin lost
    /\ \A i \in DOMAIN answer[r] : answer[r][i] # Bad
    => rows[r] = IF ParseSse(answer[r]) = NoEvent THEN <<>> ELSE <<ParseSse(answer[r])>>
=============================================================================
