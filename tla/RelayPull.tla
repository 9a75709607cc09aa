------------------------------- MODULE RelayPull -------------------------------
(***************************************************************************)
(* The synchronisation of the relay adapter.  A New API relay lists its    *)
(* last requests one by one, each under its own identifier or under none;  *)
(* OpenRouter lists one row a day for each model, which grows as the day   *)
(* goes on.  Each pull reads the whole list again, from no cursor, and     *)
(* stores every row under a key of its own making, in place of the row     *)
(* that has it; one row that cannot be an event fails the whole pull.      *)
(***************************************************************************)
EXTENDS Naturals, Sequences, SequencesExt, FiniteSets, FiniteSetsExt

CONSTANTS
  Ident,     \* request identifiers a relay gives
  NoIdent,   \* a request without one
  Shape,     \* of what else tells requests apart: second, model, tokens, API key
  LastListed,    \* how many of its last requests a New API relay lists
  MaxUses    \* bound: requests the relay serves

ASSUME RelayAssumption ==
  /\ LastListed \in Nat /\ MaxUses \in Nat /\ NoIdent \notin Ident
  /\ Ident \cap Shape = {} \* no relay gives a SHA-256 of ours as an identifier

VARIABLES
  profile,  \* of the connection: "none", "new_api", "openrouter" or "generic"
  served,   \* the requests the relay has served, in order
  fetch,    \* what the synchronisation does next: "idle", "asked", "read"
  batch,    \* the rows read, or {} (the order of the list does not matter)
  ledger,   \* usage_events: the requests that each key's row counts
  seen      \* observation: the requests that were listed for a pull that committed

relayVars == <<profile, served, fetch, batch, ledger, seen>>

PullKey == (Ident \cup Shape)

RelayInit ==
  /\ profile = "none" /\ served = <<>> /\ fetch = "idle"
  /\ batch = {} /\ ledger = [k \in PullKey |-> <<>>] /\ seen = {}

(* Connecting.                                                             *)

Setting == [version : {1, 2}, kind : {"new_api", "openrouter", "openai_compatible_proxy"},
            named : {"none", "new_api", "openrouter", "generic"},
            origin : {"none", "https", "loopback", "http"}, insecure : BOOLEAN,
            secret : BOOLEAN]

ProfileOf(kind) == IF kind = "openai_compatible_proxy" THEN "generic" ELSE kind

\* validate_public: no setting is named like a secret; settings: a profile that is
\* named is the one of the type; validate_origin: only this machine, or who has said
\* so, does without TLS.
Accepted(s) ==
  /\ ~s.secret /\ s.version = 1
  /\ s.named \in {"none", ProfileOf(s.kind)} /\ (s.named = "none" => s.kind = ProfileOf(s.kind))
  /\ s.origin = "none" => s.kind = "openrouter"
  /\ s.origin = "http" => s.insecure

\* complete_auth: the relay answers the profile's probe, the secret is stored.  What
\* is refused, or fails, leaves nothing.
Connect ==
  \E s \in Setting :
    /\ profile = "none" /\ Accepted(s) /\ profile' = ProfileOf(s.kind)
    /\ UNCHANGED <<served, fetch, batch, ledger, seen>>

-----------------------------------------------------------------------------
(* The relay, and the pulls.                                               *)

\* A request: of New API also one that is a top-up (its type), or that cannot be an
\* event - its time is none, its tokens are negative -; of OpenRouter, it adds to the
\* row of its day and model.  Identifiers are not given twice.
Serve ==
  \E ident \in Ident \cup {NoIdent}, shape \in Shape, kind \in {"use", "top-up", "bad"} :
    /\ profile \in {"new_api", "openrouter"} /\ Len(served) < MaxUses
    /\ ident # NoIdent => \A i \in DOMAIN served : served[i].ident # ident
    /\ profile = "openrouter" => ident = NoIdent /\ kind = "use"
    /\ served' = Append(served, [ident |-> ident, shape |-> shape, kind |-> kind])
    /\ UNCHANGED <<profile, fetch, batch, ledger, seen>>

\* What the relay lists.
List == IF profile = "openrouter" THEN DOMAIN served
        ELSE {i \in DOMAIN served : i > Len(served) - LastListed}

\* sync: the settings are checked again, the secret is there.  New API is asked for
\* the usage of the token first, and the pull fails with it.
AskUsage ==
  /\ profile \in {"new_api", "openrouter"} /\ fetch = "idle" /\ fetch' = "asked"
  /\ UNCHANGED <<profile, served, batch, ledger, seen>>

\* new_api_event drops top-ups; one row that cannot be an event fails all.
Events(list)      == {i \in list : served[i].kind # "top-up"}
Decodes(list)     == \A i \in Events(list) : served[i].kind # "bad"

ReadList ==
  /\ fetch = "asked" /\ Decodes(List)
  /\ fetch' = "read" /\ batch' = Events(List)
  /\ UNCHANGED <<profile, served, ledger, seen>>

\* A generic relay has nothing to list: its usage is the proxy's.
PullNothing ==
  /\ profile = "generic" /\ fetch = "idle" /\ fetch' = "read" /\ batch' = {}
  /\ UNCHANGED <<profile, served, ledger, seen>>

FetchFails ==
  /\ fetch \in {"asked", "read"} /\ fetch' = "idle" /\ batch' = {}
  /\ UNCHANGED <<profile, served, ledger, seen>>

\* external_id: the request's identifier, or a fingerprint.
KeyOf(i) == IF served[i].ident # NoIdent THEN served[i].ident ELSE served[i].shape

\* The upsert of commit_sync_batch, row by row: of New API's requests with one key a
\* single one stays; OpenRouter's row stands for all of its day and model so far.
\* Variant: what a row says is added to what is there.
Mine(k, rows) == {i \in rows : KeyOf(i) = k}

UpsertAdds(table, rows) == [k \in PullKey |-> table[k] \o SetToSeq(Mine(k, rows))]
Upsert(table, rows) ==
  [k \in PullKey |->
     IF Mine(k, rows) = {} THEN table[k]
     ELSE IF profile = "openrouter" THEN SetToSeq(Mine(k, rows))
     ELSE <<CHOOSE i \in Mine(k, rows) : TRUE>>]

CommitRows ==
  /\ fetch = "read" /\ fetch' = "idle" /\ batch' = {}
  /\ ledger' = Upsert(ledger, batch) /\ seen' = seen \cup batch
  /\ UNCHANGED <<profile, served>>

RelayNext == Connect \/ Serve \/ AskUsage \/ ReadList \/ PullNothing \/ FetchFails \/ CommitRows

RelaySpec == RelayInit /\ [][RelayNext]_relayVars

-----------------------------------------------------------------------------
\* Whatever pulls failed, overlapped or came again, each request counts once: all the
\* identified ones that a pull has listed have a row of their own, OpenRouter's rows
\* hold all that was served when they were read, and New API's requests that nothing
\* tells apart share one row (provider-relay lib.rs:218-232, 256-268, 453-475).
Counted == UNION {ToSet(ledger[k]) : k \in PullKey}

CountsEachOnce ==
  /\ \A k \in PullKey : IsInjective(ledger[k])
  /\ \A k, l \in PullKey : k # l => ToSet(ledger[k]) \cap ToSet(ledger[l]) = {}
  /\ \A i \in seen : served[i].kind = "use" /\ (served[i].ident # NoIdent \/ profile = "openrouter")
                     => i \in Counted
  /\ \A i \in Counted : i \in seen /\ served[i].kind = "use"
  /\ profile = "new_api" => \A k \in PullKey : Len(ledger[k]) <= 1
=============================================================================
