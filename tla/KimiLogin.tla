------------------------------- MODULE KimiLogin -------------------------------
(***************************************************************************)
(* The device-code login of the Kimi adapter.  begin_auth asks for a code  *)
(* and remembers it; complete_auth takes the code out of that memory and   *)
(* polls the authority until the user has answered, the code has run out   *)
(* or a poll fails, and puts the tokens into the secret store.  The calls  *)
(* run side by side, the user answers whenever he likes, and the authority *)
(* gives the tokens of a code once.                                        *)
(***************************************************************************)
EXTENDS Naturals, FiniteSets

CONSTANTS
  Code,       \* device codes
  Caller,     \* complete_auth calls
  NoCode,     \* the code of a call that has none
  TimeToLive, \* how long the adapter polls for a code (expires_in)
  MaxTime     \* bound: the adapter's clock

ASSUME LoginAssumption == TimeToLive \in Nat /\ MaxTime \in Nat /\ NoCode \notin Code

VARIABLES
  time,    \* the adapter's clock, in poll intervals
  until,   \* PendingDevice.expires_at of the codes begun
  pending, \* the codes in SubscriptionAdapter.pending
  grant,   \* what the authority holds of a code: "none", "asked", "allowed",
           \* "denied", "expired" or "redeemed"
  caller,  \* what each complete_auth call does next, and for which code
  vault,   \* the tokens in the secret store, by code
  missed     \* observation: codes whose tokens were given and did not get there

loginVars == <<time, until, pending, grant, caller, vault, missed>>

CallAt(stage, code) == [at |-> stage, code |-> code]

LoginInit ==
  /\ time = 0 /\ until = [c \in Code |-> 0] /\ pending = {}
  /\ grant = [c \in Code |-> "none"] /\ caller = [k \in Caller |-> CallAt("idle", NoCode)]
  /\ vault = [c \in Code |-> 0] /\ missed = {}

\* request_device_authorization: the authority makes a code.
RequestCode(c) == grant[c] = "none" /\ grant' = [grant EXCEPT ![c] = "asked"]

\* begin_auth: a request that fails leaves nothing.
BeginLogin(c) ==
  /\ RequestCode(c)
  /\ until' = [until EXCEPT ![c] = time + TimeToLive] /\ pending' = pending \cup {c}
  /\ UNCHANGED <<time, caller, vault, missed>>

\* The user, at the authority; and the authority's own clock.
UserAnswers(c) ==
  \E answer \in {"allowed", "denied", "expired"} :
    /\ grant[c] \in {"asked", "allowed"} /\ (grant[c] = "allowed" => answer = "expired")
    /\ grant' = [grant EXCEPT ![c] = answer]
    /\ UNCHANGED <<time, until, pending, caller, vault, missed>>

Wait == /\ time < MaxTime /\ time' = time + 1
        /\ UNCHANGED <<until, pending, grant, caller, vault, missed>>

\* complete_auth: the code leaves the memory before the first poll.
\* Variant: it is read there, and stays.
TakeCopy(codes, c)    == codes
TakePending(codes, c) == codes \ {c}

CompleteLogin(k) ==
  \E c \in Code :
    /\ caller[k].at = "idle" /\ grant[c] # "none"
    /\ caller' = [caller EXCEPT ![k] = IF c \in pending THEN CallAt("poll", c)
                                                        ELSE CallAt("refused", c)]
    /\ pending' = TakePending(pending, c)
    /\ UNCHANGED <<time, until, grant, vault, missed>>

\* poll_token.
PollDue(k) == caller[k].at = "poll" /\ time < until[caller[k].code]

\* authorization_pending and slow_down alike: sleep for the interval, poll again.
PollAgain(k) ==
  /\ PollDue(k) /\ grant[caller[k].code] = "asked"
  /\ caller' = [caller EXCEPT ![k].at = "sleep"]
  /\ UNCHANGED <<time, until, pending, grant, vault, missed>>

EndSleep(k) ==
  /\ caller[k].at = "sleep" /\ caller' = [caller EXCEPT ![k].at = "poll"]
  /\ UNCHANGED <<time, until, pending, grant, vault, missed>>

\* The tokens are given: they arrive, the answer is lost, or it lacks the refresh
\* token or the lifetime, which is taken for no answer yet.
PollRedeems(k) ==
  \E stage \in {"store", "failed", "sleep"} :
    /\ PollDue(k) /\ grant[caller[k].code] = "allowed"
    /\ grant' = [grant EXCEPT ![caller[k].code] = "redeemed"]
    /\ caller' = [caller EXCEPT ![k].at = stage]
    /\ missed' = IF stage = "store" THEN missed ELSE missed \cup {caller[k].code}
    /\ UNCHANGED <<time, until, pending, vault>>

\* denied, expired or redeemed already; or the network fails, or an answer is none.
PollFails(k) ==
  /\ PollDue(k) /\ caller' = [caller EXCEPT ![k].at = "failed"]
  /\ UNCHANGED <<time, until, pending, grant, vault, missed>>

PollEnds(k) ==
  /\ caller[k].at = "poll" /\ ~PollDue(k) /\ caller' = [caller EXCEPT ![k].at = "failed"]
  /\ UNCHANGED <<time, until, pending, grant, vault, missed>>

\* store_credentials: a new entry for each login.
StoreTokens(k) ==
  /\ caller[k].at = "store"
  /\ \/ /\ vault' = [vault EXCEPT ![caller[k].code] = @ + 1]
        /\ caller' = [caller EXCEPT ![k].at = "connected"] /\ UNCHANGED missed
     \/ /\ missed' = missed \cup {caller[k].code}
        /\ caller' = [caller EXCEPT ![k].at = "failed"] /\ UNCHANGED vault
  /\ UNCHANGED <<time, until, pending, grant>>

LoginNext ==
  \/ Wait
  \/ \E c \in Code : BeginLogin(c) \/ UserAnswers(c)
  \/ \E k \in Caller : \/ CompleteLogin(k) \/ PollAgain(k) \/ EndSleep(k) \/ PollRedeems(k)
                       \/ PollFails(k) \/ PollEnds(k) \/ StoreTokens(k)

LoginSpec == LoginInit /\ [][LoginNext]_loginVars

-----------------------------------------------------------------------------
\* The tokens the authority gives for a code reach the call that is to have them:
\* two calls never poll for one code, so that none is refused what the other has
\* spent, and tokens given are with their call, in one entry of the secret store,
\* or were lost on the way (subscription.rs:188-212, 404-437).
TokensReachTheirCall ==
  \A c \in Code :
    LET with == {k \in Caller : caller[k].code = c /\ caller[k].at \notin {"refused", "idle"}}
    IN /\ Cardinality(with) <= 1
       /\ grant[c] = "redeemed" /\ c \notin missed =>
            vault[c] = (IF \E k \in with : caller[k].at = "store" THEN 0 ELSE 1)
       /\ grant[c] # "redeemed" => vault[c] = 0
=============================================================================
