------------------------------- MODULE AppServer -------------------------------
(***************************************************************************)
(* The conversation of the OpenAI subscription adapter with one Codex      *)
(* app-server: requests with rising identifiers written to its input, and  *)
(* a single stream of lines back, in which the answers stand among         *)
(* notifications.  A login asks for a challenge, and later waits for the   *)
(* notification that the user has finished; a probe, a synchronisation and *)
(* a disconnection ask a fixed list of things.  A request gives up after a while, but only *)
(* the probe goes on then, and may read the late answer.                   *)
(***************************************************************************)
EXTENDS Naturals, Sequences, SequencesExt

CONSTANTS
  MaxNoise \* bound: notifications, and lines that are no JSON, the server sends unasked

ASSUME AppServerAssumption == MaxNoise \in Nat

\* What each flow asks for.  The requests of the second list may fail.
Flow == {"login", "probe", "sync", "logout"}
Must(flow) == IF flow = "login" THEN <<"initialize", "login/start", "account/read">>
              ELSE IF flow = "probe" THEN <<"initialize", "account/read">>
              ELSE IF flow = "logout" THEN <<"initialize", "logout">>
              ELSE <<"initialize", "account/read", "rateLimits/read", "usage/read">>
May(flow)  == IF flow = "probe" THEN <<"rateLimits/read", "usage/read">> ELSE <<>>
Asked(flow) == Must(flow) \o May(flow)

VARIABLES
  flow,   \* what this server was started for
  client, \* "asks", "reads", "challenged" (the login waits in the adapter's map),
          \* "waits" (wait_login), "done" or "failed"
  id,     \* AppServer.id: the requests sent
  inbox,  \* the requests the server has not answered
  pipe,   \* the lines the client has not read
  got,    \* the answers taken, by request
  user,   \* of the login: "none", "success" or "failure"
  noise   \* lines sent unasked

appVars == <<flow, client, id, inbox, pipe, got, user, noise>>

AnswerTo(n, m) == [kind |-> "answer", id |-> n, of |-> m]
Note(m)      == [kind |-> "note", id |-> 0, of |-> m]
Garbage      == [kind |-> "garbage", id |-> 0, of |-> "none"]
Silence      == [kind |-> "silence", id |-> 0, of |-> "none"]

AppInit ==
  /\ flow \in Flow /\ client = "asks" /\ id = 0
  /\ inbox = <<>> /\ pipe = <<>> /\ got = <<>> /\ user = "none" /\ noise = 0

-----------------------------------------------------------------------------
(* The server, and the user.                                               *)

ServerAnswers ==
  /\ inbox # <<>> /\ inbox' = Tail(inbox)
  /\ pipe' = Append(pipe, AnswerTo(Head(inbox).id, Head(inbox).of))
  /\ UNCHANGED <<flow, client, id, got, user, noise>>

\* A notification, an answer that is an error, or a line that is no JSON.
ServerTalks ==
  \E line \in {Note("other"), Garbage} :
    /\ noise < MaxNoise /\ client \notin {"done", "failed"}
    /\ noise' = noise + 1 /\ pipe' = Append(pipe, line)
    /\ UNCHANGED <<flow, client, id, inbox, got, user>>

\* account/login/completed, once the login has been started.
UserFinishes ==
  \E outcome \in {"success", "failure"} :
    /\ flow = "login" /\ user = "none" /\ id >= 2 /\ inbox = <<>>
    /\ client \notin {"done", "failed"}
    /\ user' = outcome /\ pipe' = Append(pipe, Note(outcome))
    /\ UNCHANGED <<flow, client, id, inbox, got, noise>>

-----------------------------------------------------------------------------
(* The client.                                                             *)

\* request: the next one of the list.
Ask ==
  /\ client = "asks" /\ id < Len(Asked(flow)) /\ client' = "reads" /\ id' = id + 1
  /\ inbox' = Append(inbox, [id |-> id + 1, of |-> Asked(flow)[id + 1]])
  /\ UNCHANGED <<flow, pipe, got, user, noise>>

\* What follows a request, or a request of May that has failed.
AfterRequest(n) ==
  IF flow = "login" /\ n = 2 THEN "challenged"
  ELSE IF n = Len(Asked(flow)) THEN "done" ELSE "asks"

NextLine == IF pipe = <<>> THEN Silence ELSE Head(pipe)

\* The line that answers a request.
\* Variant: the first answer does.
AnyAnswer(line, n) == line.kind = "answer"
IsAnswer(line, n)  == line.kind = "answer" /\ line.id = n

ReadAnswer ==
  /\ client = "reads" /\ IsAnswer(NextLine, id)
  /\ got' = Append(got, NextLine.of) /\ pipe' = Tail(pipe) /\ client' = AfterRequest(id)
  /\ UNCHANGED <<flow, id, inbox, user, noise>>

\* Lines of others are passed over.
SkipLine ==
  /\ client = "reads" /\ ~IsAnswer(NextLine, id)
  /\ NextLine.kind \notin {"garbage", "silence"} /\ pipe' = Tail(pipe)
  /\ UNCHANGED <<flow, client, id, inbox, got, user, noise>>

\* A line that is no JSON, an error, or no line for 30 seconds: the request fails,
\* and with it the flow and its server, unless it is one of May.
RequestFails ==
  /\ client = "reads" /\ (NextLine.kind \in {"garbage", "silence"} \/ IsAnswer(NextLine, id))
  /\ pipe' = IF pipe = <<>> THEN pipe ELSE Tail(pipe)
  /\ got' = Append(got, "failed")
  /\ client' = IF id <= Len(Must(flow)) THEN "failed" ELSE AfterRequest(id)
  /\ UNCHANGED <<flow, id, inbox, user, noise>>

\* complete_auth, which takes the server out of the map.
CompleteAuth ==
  /\ client = "challenged" /\ client' = "waits"
  /\ UNCHANGED <<flow, id, inbox, pipe, got, user, noise>>

\* wait_login: other lines are passed over.
WaitLogin ==
  /\ client = "waits" /\ pipe # <<>> /\ pipe' = Tail(pipe)
  /\ client' = IF NextLine = Note("success") THEN "asks"
               ELSE IF NextLine.kind = "garbage" \/ NextLine = Note("failure")
                    THEN "failed" ELSE "waits"
  /\ UNCHANGED <<flow, id, inbox, got, user, noise>>

\* No line for 900 seconds, or the process has ended.
WaitFails ==
  /\ client = "waits" /\ pipe = <<>> /\ client' = "failed"
  /\ UNCHANGED <<flow, id, inbox, pipe, got, user, noise>>

AppNext ==
  \/ ServerAnswers \/ ServerTalks \/ UserFinishes
  \/ Ask \/ ReadAnswer \/ SkipLine \/ RequestFails
  \/ CompleteAuth \/ WaitLogin \/ WaitFails

AppSpec == AppInit /\ [][AppNext]_appVars

-----------------------------------------------------------------------------
\* Each answer taken answers the request it is taken for, though earlier requests
\* were given up and answered late; and the end of a login is heard, however early
\* the user finishes: until the call for it reads it, its notification is in the
\* stream (subscription.rs:86-105, 352-398).
HearsItsServer ==
  /\ \A n \in DOMAIN got : got[n] \in {Asked(flow)[n], "failed"}
  /\ client \in {"challenged", "waits"} /\ user # "none" => Contains(pipe, Note(user))
  /\ flow = "login" /\ client = "done" => user = "success"
=============================================================================
