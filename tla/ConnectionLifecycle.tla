-------------------------- MODULE ConnectionLifecycle --------------------------
(***************************************************************************)
(* What a connection owns outside its usage data: a row in SQLite, a       *)
(* credential in the system's keyring, and, for a local relay, a proxy     *)
(* task.  The three are created, renewed and deleted by handlers that run  *)
(* concurrently and take no common lock: the completion of an              *)
(* authentication, the token refresh of a sync, start_proxy, stop_proxy    *)
(* and remove.  A handler is cut at its awaits and at each acquisition of  *)
(* the database or the proxy table.                                        *)
(*                                                                         *)
(* A connection gets its identifier from the handler that completes its    *)
(* authentication, so Conn also names those handlers.  One sync at a time  *)
(* works for a connection (SyncRuntime, SingleFlight).                     *)
(***************************************************************************)
EXTENDS Naturals

CONSTANTS
  Conn,         \* connections, and the handlers that may create them
  Challenge,    \* authentication challenges
  ChallengeOf,  \* the challenge each handler completes
  Caller,       \* callers of start_proxy and remove, each at most once at a time
  MaxToken,     \* bound: refresh tokens the provider issues to a connection
  MaxFaults,    \* bound: calls of the keyring or the database that fail
  MaxCrashes    \* bound: crashes of the daemon

ASSUME LifecycleAssumption ==
  /\ ChallengeOf \in [Conn -> Challenge]
  /\ MaxToken \in Nat \ {0} /\ MaxFaults \in Nat /\ MaxCrashes \in Nat

VARIABLES
  kind,        \* the connection type asked for in a challenge, "new" before
  pendingAuth, \* ProviderRuntime::pending_auth
  auth,        \* where complete_auth is, for each handler
  rows,        \* SQLite: connections, with their credential_refs
  secret,      \* keyring: the token stored for a connection, 0 when none
  token,       \* provider: the refresh token it accepts, 0 before the first
  sync,        \* where the credential part of sync_inner is
  held,        \* the token the sync has read
  writes,      \* keyring writes handed to a blocking thread
  start,       \* where each caller's start_proxy of a connection is
  proxy,       \* ProviderRuntime::proxies: "none", "serving" or "finished"
  boot,        \* proxies the starting daemon has still to start
  rem,         \* where each caller's remove of a connection is
  strayed,     \* observation: secrets a failed or cut call left behind
  bereft,      \* observation: rows whose removal was cut after their secret
  cut,         \* observation: rotations cut before the keyring had the token
  overlapped,  \* observation: connections with a start during a removal
  faults, crashes

authVars  == <<kind, pendingAuth, auth>>
syncVars  == <<sync, held, writes, token>>
proxyVars == <<start, proxy, boot>>
obsVars   == <<strayed, bereft, cut, overlapped>>
vars == <<authVars, rows, secret, syncVars, proxyVars, rem, obsVars, faults, crashes>>

(* "key": an API key.  "oauth": a token pair the provider renews (Kimi).   *)
(* "proxy": the upstream key of a local relay.                             *)
Kind == {"key", "oauth", "proxy"}
KindOf(c) == kind[ChallengeOf[c]]

\* Where each handler is between two of its steps.
AuthStage  == {"idle", "exchange", "insert", "undo", "done", "failed"}
SyncStage  == {"idle", "refresh", "await"}
StartStage == {"idle", "get", "check", "spawn"}
RemStage   == {"idle", "disconnect", "forget"}

Init ==
  /\ kind = [h \in Challenge |-> "new"] /\ pendingAuth = {}
  /\ auth = [c \in Conn |-> "idle"]
  /\ rows = {} /\ secret = [c \in Conn |-> 0] /\ token = [c \in Conn |-> 0]
  /\ sync = [c \in Conn |-> "idle"] /\ held = [c \in Conn |-> 0] /\ writes = {}
  /\ start = [c \in Conn |-> [u \in Caller |-> "idle"]] /\ proxy = [c \in Conn |-> "none"] /\ boot = {}
  /\ rem = [c \in Conn |-> [u \in Caller |-> "idle"]]
  /\ strayed = {} /\ bereft = {} /\ cut = {} /\ overlapped = {}
  /\ faults = 0 /\ crashes = 0

(* The IPC server and the scheduler start after the proxies.               *)
Up == boot = {}

Fault == faults < MaxFaults /\ faults' = faults + 1

\* The token stored for c becomes v, 0 for a deletion.
Store(c, v) == secret' = [secret EXCEPT ![c] = v]

-----------------------------------------------------------------------------
(***************************************************************************)
(* Authentication                                                          *)
(***************************************************************************)
BeginAuth(h) ==
  /\ Up /\ kind[h] = "new"
  /\ \E k \in Kind : kind' = [kind EXCEPT ![h] = k]
  /\ pendingAuth' = pendingAuth \cup {h}
  /\ UNCHANGED <<auth, rows, secret, syncVars, proxyVars, rem, obsVars, faults, crashes>>

AuthGoto(c, stage) == auth' = [auth EXCEPT ![c] = stage]

\* Variant: the challenge is looked up and stays.
AuthTakeShared(c) ==
  /\ Up /\ auth[c] = "idle" /\ KindOf(c) # "new"
  /\ AuthGoto(c, IF ChallengeOf[c] \in pendingAuth THEN "exchange" ELSE "failed")
  /\ UNCHANGED <<kind, pendingAuth, rows, secret, syncVars, proxyVars, rem, obsVars,
                 faults, crashes>>

\* complete_auth takes the challenge; a second completion finds none.
AuthTake(c) ==
  /\ Up /\ auth[c] = "idle" /\ KindOf(c) # "new"
  /\ AuthGoto(c, IF ChallengeOf[c] \in pendingAuth THEN "exchange" ELSE "failed")
  /\ pendingAuth' = pendingAuth \ {ChallengeOf[c]}
  /\ UNCHANGED <<kind, rows, secret, syncVars, proxyVars, rem, obsVars, faults, crashes>>

\* The adapter obtains or checks the credential and stores it under a new key.
AuthStore(c) ==
  /\ auth[c] = "exchange"
  /\ \/ /\ Store(c, 1) /\ token' = [token EXCEPT ![c] = 1]
        /\ AuthGoto(c, "insert")
     \/ AuthGoto(c, "failed") /\ UNCHANGED <<secret, token>>
  /\ UNCHANGED <<kind, pendingAuth, rows, sync, held, writes, proxyVars, rem, obsVars,
                 faults, crashes>>

\* Variants: a failed insertion leaves the secret; the secret is deleted in any case.
AuthInsertBare(c) ==
  /\ auth[c] = "insert"
  /\ \/ rows' = rows \cup {c} /\ AuthGoto(c, "done") /\ UNCHANGED faults
     \/ Fault /\ AuthGoto(c, "failed") /\ UNCHANGED rows
  /\ UNCHANGED <<kind, pendingAuth, secret, syncVars, proxyVars, rem, obsVars, crashes>>

AuthInsertUndone(c) ==
  /\ auth[c] = "insert"
  /\ \/ rows' = rows \cup {c} /\ AuthGoto(c, "undo") /\ UNCHANGED faults
     \/ Fault /\ AuthGoto(c, "undo") /\ UNCHANGED rows
  /\ UNCHANGED <<kind, pendingAuth, secret, syncVars, proxyVars, rem, obsVars, crashes>>

AuthInsert(c) ==
  /\ auth[c] = "insert"
  /\ \/ rows' = rows \cup {c} /\ AuthGoto(c, "done") /\ UNCHANGED faults
     \/ Fault /\ AuthGoto(c, "undo") /\ UNCHANGED rows
  /\ UNCHANGED <<kind, pendingAuth, secret, syncVars, proxyVars, rem, obsVars, crashes>>

\* The result of the deletion is ignored.
AuthUndo(c) ==
  /\ auth[c] = "undo"
  /\ AuthGoto(c, "failed")
  /\ \/ Store(c, 0) /\ UNCHANGED <<strayed, faults>>
     \/ Fault /\ strayed' = strayed \cup {c} /\ UNCHANGED secret
  /\ UNCHANGED <<kind, pendingAuth, rows, syncVars, proxyVars, rem, bereft, cut,
                 overlapped, crashes>>

-----------------------------------------------------------------------------
(***************************************************************************)
(* Token refresh: the credential part of sync_inner, under its timeout     *)
(***************************************************************************)
SyncGoto(c, stage) == sync' = [sync EXCEPT ![c] = stage]

\* A connection without a secret fails here, before its status is touched.
SyncLoad(c) ==
  /\ Up /\ sync[c] = "idle" /\ c \in rows /\ secret[c] # 0
  /\ held' = [held EXCEPT ![c] = secret[c]]
  /\ SyncGoto(c, "refresh")
  /\ UNCHANGED <<authVars, rows, secret, token, writes, proxyVars, rem, obsVars, faults, crashes>>

\* The credential needs no refresh, or the provider refuses or is not reached:
\* the rest of the sync writes no credential.
SyncWithout(c) ==
  /\ sync[c] = "refresh"
  /\ SyncGoto(c, "idle")
  /\ UNCHANGED <<authVars, rows, secret, held, token, writes, proxyVars, rem, obsVars,
                 faults, crashes>>

\* The provider replaces the token it is shown, which it accepts no longer.
Rotates(c) == KindOf(c) = "oauth" /\ held[c] = token[c] /\ token[c] < MaxToken

\* Variants: the new token is not stored; the next refresh of the same sync
\* shows the token the sync holds.
SyncRotateKept(c) ==
  /\ sync[c] = "refresh" /\ Rotates(c)
  /\ token' = [token EXCEPT ![c] = @ + 1] /\ held' = [held EXCEPT ![c] = token'[c]]
  /\ SyncGoto(c, "idle")
  /\ UNCHANGED <<authVars, rows, secret, writes, proxyVars, rem, obsVars, faults, crashes>>

SyncRotateTwice(c) ==
  /\ sync[c] = "refresh" /\ Rotates(c)
  /\ token' = [token EXCEPT ![c] = @ + 1] /\ held' = [held EXCEPT ![c] = token'[c]]
  /\ writes' = writes \cup {<<c, token'[c]>>}
  /\ \/ SyncGoto(c, "await")
     \/ UNCHANGED sync
  /\ UNCHANGED <<authVars, rows, secret, proxyVars, rem, obsVars, faults, crashes>>

\* The new token is handed to the keyring's blocking thread.
SyncRotate(c) ==
  /\ sync[c] = "refresh" /\ Rotates(c)
  /\ token' = [token EXCEPT ![c] = @ + 1] /\ held' = [held EXCEPT ![c] = token'[c]]
  /\ writes' = writes \cup {<<c, token'[c]>>}
  /\ SyncGoto(c, "await")
  /\ UNCHANGED <<authVars, rows, secret, proxyVars, rem, obsVars, faults, crashes>>

\* The timeout passes, or the connection breaks, before the answer arrives.
SyncRotateLost(c) ==
  /\ sync[c] = "refresh" /\ Rotates(c)
  /\ token' = [token EXCEPT ![c] = @ + 1]
  /\ cut' = cut \cup {c}
  /\ SyncGoto(c, "idle")
  /\ UNCHANGED <<authVars, rows, secret, held, writes, proxyVars, rem, strayed, bereft,
                 overlapped, faults, crashes>>

\* The timeout drops the sync, not the blocking thread.
SyncTimeout(c) ==
  /\ sync[c] = "await"
  /\ SyncGoto(c, "idle")
  /\ UNCHANGED <<authVars, rows, secret, held, token, writes, proxyVars, rem, obsVars,
                 faults, crashes>>

\* put creates the entry when there is none.
WriteLands(c, v) ==
  /\ <<c, v>> \in writes
  /\ writes' = writes \ {<<c, v>>}
  /\ \/ Store(c, v) /\ UNCHANGED <<cut, faults>>
     \/ Fault /\ cut' = cut \cup {c} /\ UNCHANGED secret
  /\ IF sync[c] = "await" /\ held[c] = v THEN SyncGoto(c, "idle") ELSE UNCHANGED sync
  /\ UNCHANGED <<authVars, rows, held, token, proxyVars, rem, strayed, bereft, overlapped, crashes>>

-----------------------------------------------------------------------------
(***************************************************************************)
(* start_proxy and stop_proxy                                              *)
(***************************************************************************)
StartGoto(c, u, stage) == start' = [start EXCEPT ![c][u] = stage]

\* Variant: the starting daemon is not let go on.
StartEndsWaiting(c, u) == StartGoto(c, u, "idle") /\ UNCHANGED boot

\* A start that ends, in whatever way, lets the starting daemon go on.
StartEnds(c, u) == StartGoto(c, u, "idle") /\ boot' = boot \ {c}

Starting(c) == \E u \in Caller : start[c][u] # "idle"
Removing(c) == \E u \in Caller : rem[c][u] # "idle"

Overlapping(c, other) ==
  overlapped' = IF other THEN overlapped \cup {c} ELSE overlapped

StartProxy(c, u) ==
  /\ Up /\ start[c][u] = "idle" /\ c \in rows /\ KindOf(c) = "proxy"
  /\ StartGoto(c, u, "get")
  /\ Overlapping(c, Removing(c))
  /\ UNCHANGED <<authVars, rows, secret, syncVars, proxy, boot, rem, strayed, bereft,
                 cut, faults, crashes>>

\* It awaits the upstream key from the keyring ...
StartGet(c, u) ==
  /\ start[c][u] = "get"
  /\ \/ secret[c] # 0 /\ StartGoto(c, u, "check") /\ UNCHANGED <<boot, faults>>
     \/ secret[c] = 0 /\ StartEnds(c, u) /\ UNCHANGED faults
     \/ Fault /\ StartEnds(c, u)
  /\ UNCHANGED <<authVars, rows, secret, syncVars, proxy, rem, obsVars, crashes>>

\* ... makes a local credential when there is none, which needs the row ...
StartCheck(c, u) ==
  /\ start[c][u] = "check"
  /\ IF c \in rows THEN StartGoto(c, u, "spawn") /\ UNCHANGED boot ELSE StartEnds(c, u)
  /\ UNCHANGED <<authVars, rows, secret, syncVars, proxy, rem, obsVars, faults, crashes>>

\* ... and spawns the proxy, which may end at once: its port may be taken.
\* A handle that is there, finished or not, makes the start a no-op.
StartSpawn(c, u) ==
  /\ start[c][u] = "spawn"
  /\ StartEnds(c, u)
  /\ IF proxy[c] = "none"
       THEN \E state \in {"serving", "finished"} : proxy' = [proxy EXCEPT ![c] = state]
       ELSE UNCHANGED proxy
  /\ UNCHANGED <<authVars, rows, secret, syncVars, rem, obsVars, faults, crashes>>

StopProxy(c) ==
  /\ Up
  /\ proxy' = [proxy EXCEPT ![c] = "none"]
  /\ UNCHANGED <<authVars, rows, secret, syncVars, start, boot, rem, obsVars, faults, crashes>>

-----------------------------------------------------------------------------
(***************************************************************************)
(* remove: no reservation is taken, no sync is waited for                  *)
(***************************************************************************)
RemGoto(c, u, stage) == rem' = [rem EXCEPT ![c][u] = stage]

\* Variant: the proxy is left running.
RemoveBeginServing(c, u) ==
  /\ Up /\ rem[c][u] = "idle" /\ c \in rows
  /\ \/ RemGoto(c, u, "disconnect") /\ UNCHANGED <<strayed, faults>>
     \/ Fault /\ strayed' = strayed \cup {c} /\ RemGoto(c, u, "forget")
  /\ Overlapping(c, Starting(c))
  /\ UNCHANGED <<authVars, rows, secret, syncVars, proxyVars, bereft, cut, crashes>>

\* The proxy is stopped whether or not there is a row.  When the credential's
\* row cannot be read, disconnect has nothing to delete.
RemoveBegin(c, u) ==
  /\ Up /\ rem[c][u] = "idle"
  /\ proxy' = [proxy EXCEPT ![c] = "none"]
  /\ \/ c \in rows /\ RemGoto(c, u, "disconnect") /\ UNCHANGED <<strayed, faults>>
     \/ c \in rows /\ Fault /\ strayed' = strayed \cup {c} /\ RemGoto(c, u, "forget")
     \/ c \notin rows /\ UNCHANGED <<rem, strayed, faults>>
  /\ Overlapping(c, Starting(c))
  /\ UNCHANGED <<authVars, rows, secret, syncVars, start, boot, bereft, cut, crashes>>

\* To delete an entry that is missing is an error of the keyring.
RemoveSecret(c, u) ==
  /\ rem[c][u] = "disconnect"
  /\ \/ secret[c] # 0 /\ Store(c, 0) /\ RemGoto(c, u, "forget") /\ UNCHANGED faults
     \/ secret[c] = 0 /\ RemGoto(c, u, "idle") /\ UNCHANGED <<secret, faults>>
     \/ Fault /\ RemGoto(c, u, "idle") /\ UNCHANGED secret
  /\ UNCHANGED <<authVars, rows, syncVars, proxyVars, obsVars, crashes>>

RemoveRow(c, u) ==
  /\ rem[c][u] = "forget"
  /\ RemGoto(c, u, "idle")
  /\ \/ rows' = rows \ {c} /\ UNCHANGED <<bereft, faults>>
     \/ Fault /\ bereft' = bereft \cup {c} /\ UNCHANGED rows
  /\ UNCHANGED <<authVars, secret, syncVars, proxyVars, strayed, cut, overlapped, crashes>>

-----------------------------------------------------------------------------
\* Memory is lost, a keyring write under way is done or not, and the next
\* daemon first starts the proxies of the rows it finds.
Crash ==
  /\ crashes < MaxCrashes /\ crashes' = crashes + 1
  /\ pendingAuth' = {}
  /\ auth' = [c \in Conn |-> IF auth[c] \in {"idle", "done"} THEN auth[c] ELSE "failed"]
  /\ \E done \in SUBSET writes :
       /\ secret' = [c \in Conn |->
                       IF \E v \in 1..MaxToken : <<c, v>> \in done
                         THEN CHOOSE v \in 1..MaxToken : <<c, v>> \in done
                         ELSE secret[c]]
       /\ cut' = cut \cup {c \in Conn : \E v \in 1..MaxToken : <<c, v>> \in writes \ done}
  /\ writes' = {} /\ sync' = [c \in Conn |-> "idle"]
  /\ boot' = {c \in rows : KindOf(c) = "proxy"}
  /\ \E u \in Caller :
       start' = [c \in Conn |-> [w \in Caller |->
                   IF c \in boot' /\ w = u THEN "get" ELSE "idle"]]
  /\ proxy' = [c \in Conn |-> "none"]
  /\ rem' = [c \in Conn |-> [u \in Caller |-> "idle"]]
  /\ strayed' = strayed \cup {c \in Conn : auth[c] \in {"insert", "undo"}}
  /\ bereft' = bereft \cup {c \in Conn : \E u \in Caller : rem[c][u] = "forget"}
  /\ UNCHANGED <<kind, rows, held, token, overlapped, faults>>

AuthStep(c) == AuthTake(c) \/ AuthStore(c) \/ AuthInsert(c) \/ AuthUndo(c)
SyncStep(c) ==
  SyncLoad(c) \/ SyncWithout(c) \/ SyncRotate(c) \/ SyncRotateLost(c) \/ SyncTimeout(c)
StartStep(c, u) == StartProxy(c, u) \/ StartGet(c, u) \/ StartCheck(c, u) \/ StartSpawn(c, u)
RemoveStep(c, u) == RemoveBegin(c, u) \/ RemoveSecret(c, u) \/ RemoveRow(c, u)

Next ==
  \/ \E h \in Challenge : BeginAuth(h)
  \/ \E c \in Conn :
       \/ AuthStep(c) \/ SyncStep(c) \/ StopProxy(c)
       \/ \E u \in Caller : StartStep(c, u) \/ RemoveStep(c, u)
       \/ \E v \in 1..MaxToken : WriteLands(c, v)
  \/ Crash

Spec == Init /\ [][Next]_vars

-----------------------------------------------------------------------------
(***************************************************************************)
(* Properties.                                                             *)
(***************************************************************************)
TypeOK ==
  /\ kind \in [Challenge -> Kind \cup {"new"}] /\ pendingAuth \subseteq Challenge
  /\ auth \in [Conn -> AuthStage]
  /\ rows \subseteq Conn
  /\ secret \in [Conn -> 0..MaxToken] /\ token \in [Conn -> 0..MaxToken]
  /\ sync \in [Conn -> SyncStage] /\ held \in [Conn -> 0..MaxToken]
  /\ writes \subseteq Conn \X (1..MaxToken)
  /\ start \in [Conn -> [Caller -> StartStage]]
  /\ proxy \in [Conn -> {"none", "serving", "finished"}]
  /\ boot \subseteq Conn /\ \A c \in boot : Starting(c)
  /\ rem \in [Conn -> [Caller -> RemStage]]
  /\ strayed \cup bereft \cup cut \cup overlapped \subseteq Conn
  /\ faults \in 0..MaxFaults /\ crashes \in 0..MaxCrashes

Writing(c) == \E v \in 1..MaxToken : <<c, v>> \in writes

\* No handler works for c and no write for it is under way.
Quiet(c) ==
  /\ auth[c] \in {"idle", "done", "failed"} /\ sync[c] = "idle" /\ ~Writing(c)
  /\ ~Starting(c) /\ ~Removing(c)

(* However often a challenge is completed, one connection comes of it: one *)
(* row, one secret in the keyring.                                         *)
OneConnectionPerChallenge ==
  \A c, d \in Conn :
    /\ c \in rows \/ secret[c] # 0
    /\ d \in rows \/ secret[d] # 0
    /\ ChallengeOf[c] = ChallengeOf[d]
    => c = d

(* A row has its secret, except between the two deletions of its removal   *)
(* and after a removal that failed or crashed between them.                *)
RowHasSecret ==
  \A c \in rows : \/ secret[c] # 0 \/ c \in bereft
                   \/ \E u \in Caller : rem[c][u] = "forget"

(* Secrets that are not renewed do not outlive their connection, and those *)
(* of failed authentications are taken back, unless a deletion failed or   *)
(* was never reached.                                                      *)
KeySecretsGone ==
  \A c \in Conn : Quiet(c) /\ KindOf(c) # "oauth" /\ secret[c] # 0 => c \in rows \cup strayed

(* A removal never leaves a secret in the keyring.                         *)
SecretGoneWithConnection ==
  \A c \in Conn : Quiet(c) /\ auth[c] = "done" /\ secret[c] # 0 => c \in rows

(* A stored token is never replaced by an older one, even by a write that  *)
(* lands after the sync that asked for it has timed out.                   *)
StoredNeverOlder == [][\A c \in Conn : secret'[c] # 0 => secret'[c] >= secret[c]]_vars

(* The keyring has the token the provider accepts, unless an answer or a   *)
(* write was lost: a timeout alone loses nothing once the write is on its  *)
(* way.                                                                    *)
StoredIsAccepted ==
  \A c \in rows : Quiet(c) /\ secret[c] # 0 => secret[c] = token[c] \/ c \in cut

(* A proxy outlives its connection only when it was being started while    *)
(* the connection was being removed.                                       *)
ProxyOutlivesByRace ==
  \A c \in Conn : proxy[c] # "none" => c \in rows \cup overlapped

(* A removal leaves no proxy.                                              *)
ProxyGoneWithConnection == \A c \in Conn : Quiet(c) /\ proxy[c] # "none" => c \in rows

=============================================================================
