---------------------- MODULE ConnectionLifecycle_proofs ----------------------
(***************************************************************************)
(* Proofs about ConnectionLifecycle, for any connections, challenges,      *)
(* callers and bounds.                                                     *)
(***************************************************************************)
EXTENDS ConnectionLifecycle, TLAPS

USE DEF KindOf

(***************************************************************************)
(* Types                                                                   *)
(***************************************************************************)
LEMMA TypeInit == Init => TypeOK
  BY LifecycleAssumption
     DEF Init, TypeOK, Kind, Starting, AuthStage, SyncStage, StartStage, RemStage

LEMMA Bounds == 0 \in 0..MaxToken /\ 1 \in 0..MaxToken
  BY LifecycleAssumption

(* One more fault is within the bound.                                     *)
LEMMA FaultType == TypeOK /\ (Fault \/ UNCHANGED faults) => faults' \in 0..MaxFaults
  BY LifecycleAssumption DEF TypeOK, Fault

LEMMA StoreType ==
  ASSUME TypeOK, NEW c \in Conn, NEW v \in 0..MaxToken, Store(c, v) \/ UNCHANGED secret
  PROVE  secret' \in [Conn -> 0..MaxToken]
  BY DEF TypeOK, Store

LEMMA GotoType ==
  ASSUME TypeOK, NEW c \in Conn
  PROVE  /\ \A s \in AuthStage : AuthGoto(c, s) => auth' \in [Conn -> AuthStage]
         /\ \A s \in SyncStage : SyncGoto(c, s) => sync' \in [Conn -> SyncStage]
         /\ \A u \in Caller, s \in StartStage :
              StartGoto(c, u, s) => start' \in [Conn -> [Caller -> StartStage]]
         /\ \A u \in Caller, s \in RemStage :
              RemGoto(c, u, s) => rem' \in [Conn -> [Caller -> RemStage]]
<1>1. ASSUME NEW S, NEW f \in [Conn -> [Caller -> S]], NEW u \in Caller, NEW s \in S
      PROVE  [f EXCEPT ![c][u] = s] \in [Conn -> [Caller -> S]]
  OBVIOUS
<1>2. \A s \in AuthStage : AuthGoto(c, s) => auth' \in [Conn -> AuthStage]
  BY DEF TypeOK, AuthGoto
<1>3. \A s \in SyncStage : SyncGoto(c, s) => sync' \in [Conn -> SyncStage]
  BY DEF TypeOK, SyncGoto
<1>4. \A u \in Caller, s \in StartStage :
        StartGoto(c, u, s) => start' \in [Conn -> [Caller -> StartStage]]
  BY <1>1 DEF TypeOK, StartGoto
<1>5. \A u \in Caller, s \in RemStage :
        RemGoto(c, u, s) => rem' \in [Conn -> [Caller -> RemStage]]
  BY <1>1 DEF TypeOK, RemGoto
<1> QED BY <1>2, <1>3, <1>4, <1>5

(* The starting daemon waits for starts under way only, provided that a    *)
(* start that ends no longer holds it up.                                  *)
LEMMA BootKept ==
  ASSUME TypeOK, boot' = boot, start' = start
  PROVE  boot' \subseteq Conn /\ \A x \in boot' : Starting(x)'
  BY DEF TypeOK, Starting

LEMMA TypeAuth ==
  ASSUME TypeOK, NEW c \in Conn, AuthStep(c)
  PROVE  TypeOK'
<1>1. auth' \in [Conn -> AuthStage]
  BY GotoType DEF AuthStep, AuthTake, AuthStore, AuthInsert, AuthUndo, AuthStage
<1>2. boot' \subseteq Conn /\ \A x \in boot' : Starting(x)'
  BY BootKept DEF AuthStep, AuthTake, AuthStore, AuthInsert, AuthUndo, proxyVars
<1>3. CASE AuthTake(c)
  BY <1>1, <1>2, <1>3 DEF TypeOK, AuthTake, syncVars, proxyVars, obsVars
<1>4. CASE AuthStore(c)
  <2>1. secret' \in [Conn -> 0..MaxToken] /\ token' \in [Conn -> 0..MaxToken]
    BY <1>4, Bounds, StoreType DEF TypeOK, AuthStore
  <2> QED BY <1>1, <1>2, <1>4, <2>1 DEF TypeOK, AuthStore, proxyVars, obsVars
<1>5. CASE AuthInsert(c)
  <2>1. faults' \in 0..MaxFaults
    BY <1>5, FaultType DEF AuthInsert
  <2>2. rows' \subseteq Conn
    BY <1>5 DEF TypeOK, AuthInsert
  <2> QED BY <1>1, <1>2, <1>5, <2>1, <2>2 DEF TypeOK, AuthInsert, syncVars, proxyVars, obsVars
<1>6. CASE AuthUndo(c)
  <2>1. faults' \in 0..MaxFaults /\ secret' \in [Conn -> 0..MaxToken]
    BY <1>6, FaultType, StoreType, Bounds DEF AuthUndo
  <2>2. strayed' \subseteq Conn
    BY <1>6 DEF TypeOK, AuthUndo
  <2> QED BY <1>1, <1>2, <1>6, <2>1, <2>2 DEF TypeOK, AuthUndo, syncVars, proxyVars
<1> QED BY <1>3, <1>4, <1>5, <1>6 DEF AuthStep

LEMMA TypeSync ==
  ASSUME TypeOK, NEW c \in Conn, SyncStep(c)
  PROVE  TypeOK'
<1>1. sync' \in [Conn -> SyncStage]
  BY GotoType DEF SyncStep, SyncLoad, SyncWithout, SyncRotate, SyncRotateLost, SyncTimeout,
                  SyncStage
<1>2. boot' \subseteq Conn /\ \A x \in boot' : Starting(x)'
  BY BootKept DEF SyncStep, SyncLoad, SyncWithout, SyncRotate, SyncRotateLost, SyncTimeout,
                  proxyVars
<1>3. CASE SyncLoad(c)
  BY <1>1, <1>2, <1>3 DEF TypeOK, SyncLoad, authVars, proxyVars, obsVars
<1>4. CASE SyncWithout(c) \/ SyncTimeout(c)
  BY <1>1, <1>2, <1>4 DEF TypeOK, SyncWithout, SyncTimeout, authVars, proxyVars, obsVars
<1>5. CASE SyncRotate(c)
  <2>1. token[c] + 1 \in 1..MaxToken
    BY <1>5, LifecycleAssumption DEF TypeOK, SyncRotate, Rotates
  <2>2. token' \in [Conn -> 0..MaxToken] /\ token'[c] = token[c] + 1
    BY <1>5, <2>1, LifecycleAssumption DEF TypeOK, SyncRotate
  <2>3. held' \in [Conn -> 0..MaxToken] /\ writes' \subseteq Conn \X (1..MaxToken)
    BY <1>5, <2>1, <2>2, LifecycleAssumption DEF TypeOK, SyncRotate
  <2> QED BY <1>1, <1>2, <1>5, <2>2, <2>3 DEF TypeOK, SyncRotate, authVars, proxyVars, obsVars
<1>6. CASE SyncRotateLost(c)
  <2>1. token[c] + 1 \in 0..MaxToken
    BY <1>6, LifecycleAssumption DEF TypeOK, SyncRotateLost, Rotates
  <2>2. token' \in [Conn -> 0..MaxToken] /\ cut' \subseteq Conn
    BY <1>6, <2>1 DEF TypeOK, SyncRotateLost
  <2> QED BY <1>1, <1>2, <1>6, <2>2 DEF TypeOK, SyncRotateLost, authVars, proxyVars
<1> QED BY <1>3, <1>4, <1>5, <1>6 DEF SyncStep

LEMMA TypeWrite ==
  ASSUME TypeOK, NEW c \in Conn, NEW v \in 1..MaxToken, WriteLands(c, v)
  PROVE  TypeOK'
<1>1. v \in 0..MaxToken
  BY LifecycleAssumption
<1>2. sync' \in [Conn -> SyncStage]
  BY GotoType DEF TypeOK, WriteLands, SyncStage
<1>3. boot' \subseteq Conn /\ \A x \in boot' : Starting(x)'
  BY BootKept DEF WriteLands, proxyVars
<1>4. secret' \in [Conn -> 0..MaxToken] /\ faults' \in 0..MaxFaults
  BY <1>1, StoreType, FaultType DEF WriteLands
<1>5. cut' \subseteq Conn /\ writes' \subseteq Conn \X (1..MaxToken)
  BY DEF TypeOK, WriteLands
<1> QED BY <1>2, <1>3, <1>4, <1>5 DEF TypeOK, WriteLands, authVars, proxyVars

(* A start that ends lets the starting daemon go on.                       *)
LEMMA BootStart ==
  ASSUME TypeOK, NEW c \in Conn, NEW u \in Caller,
         \/ \E s \in StartStage \ {"idle"} : StartGoto(c, u, s) /\ boot' = boot
         \/ StartEnds(c, u)
  PROVE  /\ start' \in [Conn -> [Caller -> StartStage]]
         /\ boot' \subseteq Conn /\ \A x \in boot' : Starting(x)'
<1>1. start' \in [Conn -> [Caller -> StartStage]]
  BY GotoType DEF StartEnds, StartStage
<1>2. boot' \subseteq boot
  BY DEF StartEnds
<1>3. ASSUME NEW x \in boot'
      PROVE  Starting(x)'
  <2>1. CASE x # c
    <3>1. start'[x] = start[x]
      BY <2>1 DEF TypeOK, StartEnds, StartGoto
    <3> QED BY <1>2, <1>3, <3>1 DEF TypeOK, Starting
  <2>2. CASE x = c
    <3>1. PICK s \in StartStage \ {"idle"} : StartGoto(c, u, s)
      BY <1>3, <2>2 DEF StartEnds
    <3>2. start'[c][u] = s
      BY <3>1 DEF TypeOK, StartGoto
    <3> QED BY <2>2, <3>1, <3>2 DEF Starting
  <2> QED BY <2>1, <2>2
<1> QED BY <1>1, <1>2, <1>3 DEF TypeOK

LEMMA TypeStart ==
  ASSUME TypeOK, NEW c \in Conn, NEW u \in Caller, StartStep(c, u)
  PROVE  TypeOK'
<1>1. /\ start' \in [Conn -> [Caller -> StartStage]]
      /\ boot' \subseteq Conn /\ \A x \in boot' : Starting(x)'
  <2>1. \/ \E s \in StartStage \ {"idle"} : StartGoto(c, u, s) /\ boot' = boot
        \/ StartEnds(c, u)
    BY DEF StartStep, StartProxy, StartGet, StartCheck, StartSpawn, StartStage
  <2> QED BY <2>1, BootStart
<1>2. CASE StartProxy(c, u)
  <2>1. overlapped' \subseteq Conn
    BY <1>2 DEF TypeOK, StartProxy, Overlapping
  <2> QED BY <1>1, <1>2, <2>1 DEF TypeOK, StartProxy, authVars, syncVars
<1>3. CASE StartGet(c, u)
  <2>1. faults' \in 0..MaxFaults
    BY <1>3, FaultType DEF StartGet
  <2> QED BY <1>1, <1>3, <2>1 DEF TypeOK, StartGet, authVars, syncVars, obsVars
<1>4. CASE StartCheck(c, u)
  BY <1>1, <1>4 DEF TypeOK, StartCheck, authVars, syncVars, obsVars
<1>5. CASE StartSpawn(c, u)
  <2>1. proxy' \in [Conn -> {"none", "serving", "finished"}]
    BY <1>5 DEF TypeOK, StartSpawn
  <2> QED BY <1>1, <1>5, <2>1 DEF TypeOK, StartSpawn, authVars, syncVars, obsVars
<1> QED BY <1>2, <1>3, <1>4, <1>5 DEF StartStep

LEMMA TypeStop ==
  ASSUME TypeOK, NEW c \in Conn, StopProxy(c)
  PROVE  TypeOK'
<1>1. boot' \subseteq Conn /\ \A x \in boot' : Starting(x)'
  BY BootKept DEF StopProxy
<1> QED BY <1>1 DEF TypeOK, StopProxy, authVars, syncVars, obsVars

LEMMA TypeRemove ==
  ASSUME TypeOK, NEW c \in Conn, NEW u \in Caller, RemoveStep(c, u)
  PROVE  TypeOK'
<1>1. boot' \subseteq Conn /\ \A x \in boot' : Starting(x)'
  BY BootKept DEF RemoveStep, RemoveBegin, RemoveSecret, RemoveRow, proxyVars
<1>2. rem' \in [Conn -> [Caller -> RemStage]]
  BY GotoType DEF TypeOK, RemoveStep, RemoveBegin, RemoveSecret, RemoveRow, RemStage
<1>3. faults' \in 0..MaxFaults
  BY FaultType DEF RemoveStep, RemoveBegin, RemoveSecret, RemoveRow
<1>4. CASE RemoveBegin(c, u)
  <2>1. strayed' \subseteq Conn /\ overlapped' \subseteq Conn
    BY <1>4 DEF TypeOK, RemoveBegin, Overlapping
  <2>2. proxy' \in [Conn -> {"none", "serving", "finished"}]
    BY <1>4 DEF TypeOK, RemoveBegin
  <2> QED BY <1>1, <1>2, <1>3, <1>4, <2>1, <2>2 DEF TypeOK, RemoveBegin, authVars, syncVars
<1>5. CASE RemoveSecret(c, u)
  <2>1. secret' \in [Conn -> 0..MaxToken]
    BY <1>5, Bounds, StoreType DEF RemoveSecret
  <2> QED BY <1>1, <1>2, <1>3, <1>5, <2>1
          DEF TypeOK, RemoveSecret, authVars, syncVars, proxyVars, obsVars
<1>6. CASE RemoveRow(c, u)
  <2>1. rows' \subseteq Conn /\ bereft' \subseteq Conn
    BY <1>6 DEF TypeOK, RemoveRow
  <2> QED BY <1>1, <1>2, <1>3, <1>6, <2>1 DEF TypeOK, RemoveRow, authVars, syncVars, proxyVars
<1> QED BY <1>4, <1>5, <1>6 DEF RemoveStep

(* The keyring after a crash: some of the writes under way are done.       *)
LEMMA CrashSecrets ==
  ASSUME TypeOK, Crash, NEW c \in Conn
  PROVE  /\ secret'[c] \in 0..MaxToken
         /\ secret'[c] = secret[c] \/ (<<c, secret'[c]>> \in writes /\ secret'[c] # 0)
         /\ Writing(c) /\ c \notin cut' => <<c, secret'[c]>> \in writes
<1>1. PICK done \in SUBSET writes :
        /\ secret' = [x \in Conn |->
                        IF \E v \in 1..MaxToken : <<x, v>> \in done
                          THEN CHOOSE v \in 1..MaxToken : <<x, v>> \in done
                          ELSE secret[x]]
        /\ cut' = cut \cup {x \in Conn : \E v \in 1..MaxToken : <<x, v>> \in writes \ done}
  BY DEF Crash
<1>2. CASE \E v \in 1..MaxToken : <<c, v>> \in done
  <2>1. secret'[c] \in 1..MaxToken /\ <<c, secret'[c]>> \in done
    BY <1>1, <1>2
  <2> QED BY <2>1, LifecycleAssumption DEF Writing
<1>3. CASE ~\E v \in 1..MaxToken : <<c, v>> \in done
  <2>1. secret'[c] = secret[c]
    BY <1>1, <1>3
  <2>2. Writing(c) => c \in cut'
    BY <1>1, <1>3 DEF Writing
  <2> QED BY <2>1, <2>2 DEF TypeOK
<1> QED BY <1>2, <1>3

LEMMA TypeCrash ==
  ASSUME TypeOK, Crash
  PROVE  TypeOK'
<1>1. secret' \in [Conn -> 0..MaxToken]
  BY CrashSecrets DEF Crash
<1>2. PICK w \in Caller :
        start' = [c \in Conn |-> [u \in Caller |->
                    IF c \in boot' /\ u = w THEN "get" ELSE "idle"]]
  BY DEF Crash
<1>3. boot' \subseteq Conn /\ \A x \in boot' : Starting(x)'
  <2>1. boot' \subseteq Conn
    BY DEF Crash, TypeOK
  <2>2. \A x \in boot' : start'[x][w] = "get"
    BY <1>2, <2>1
  <2> QED BY <2>1, <2>2 DEF Starting
<1>4. start' \in [Conn -> [Caller -> StartStage]]
  BY <1>2 DEF StartStage
<1>5. /\ rem' \in [Conn -> [Caller -> RemStage]] /\ sync' \in [Conn -> SyncStage]
      /\ proxy' \in [Conn -> {"none", "serving", "finished"}]
  BY DEF Crash, RemStage, SyncStage
<1>6. auth' \in [Conn -> AuthStage] /\ crashes' \in 0..MaxCrashes
  BY LifecycleAssumption DEF Crash, TypeOK, AuthStage
<1>7. strayed' \cup bereft' \cup cut' \cup overlapped' \subseteq Conn
  BY DEF Crash, TypeOK
<1> QED BY <1>1, <1>3, <1>4, <1>5, <1>6, <1>7 DEF Crash, TypeOK

LEMMA TypeStep ==
  ASSUME TypeOK, [Next]_vars
  PROVE  TypeOK'
<1>1. ASSUME NEW h \in Challenge, BeginAuth(h)
      PROVE  TypeOK'
  <2>1. boot' \subseteq Conn /\ \A x \in boot' : Starting(x)'
    BY <1>1, BootKept DEF BeginAuth, proxyVars
  <2>2. kind' \in [Challenge -> Kind \cup {"new"}] /\ pendingAuth' \subseteq Challenge
    BY <1>1 DEF TypeOK, BeginAuth
  <2> QED BY <1>1, <2>1, <2>2 DEF TypeOK, BeginAuth, syncVars, proxyVars, obsVars
<1>2. CASE UNCHANGED vars
  <2>1. boot' \subseteq Conn /\ \A x \in boot' : Starting(x)'
    BY <1>2, BootKept DEF vars, proxyVars
  <2> QED BY <1>2, <2>1 DEF TypeOK, vars, authVars, syncVars, proxyVars, obsVars
<1>3. ASSUME NEW c \in Conn, AuthStep(c) \/ SyncStep(c) \/ StopProxy(c)
      PROVE  TypeOK'
  BY <1>3, TypeAuth, TypeSync, TypeStop
<1>4. ASSUME NEW c \in Conn, NEW u \in Caller, StartStep(c, u) \/ RemoveStep(c, u)
      PROVE  TypeOK'
  BY <1>4, TypeStart, TypeRemove
<1>5. ASSUME NEW c \in Conn, NEW v \in 1..MaxToken, WriteLands(c, v)
      PROVE  TypeOK'
  BY <1>5, TypeWrite
<1> QED BY <1>1, <1>2, <1>3, <1>4, <1>5, TypeCrash DEF Next

(* Every variable keeps its type, and the starting daemon waits only for   *)
(* starts that are under way.                                              *)
THEOREM TypeCorrect == Spec => []TypeOK
  BY TypeInit, TypeStep, PTL DEF Spec

(***************************************************************************)
(* Ownership of a challenge                                                *)
(***************************************************************************)

(* The handler that took the challenge, until it fails before the provider *)
(* has issued a credential.                                                *)
Owns(c) == auth[c] = "exchange" \/ token[c] # 0

(* Whatever exists of a connection.                                        *)
Exists(c) ==
  secret[c] # 0 \/ c \in rows \/ sync[c] # "idle" \/ Writing(c) \/ auth[c] \in {"insert", "undo"}

OwnInv ==
  /\ \A c \in Conn : auth[c] \in {"idle", "exchange"} => token[c] = 0
  /\ \A c \in Conn : Exists(c) => token[c] # 0
  /\ \A c \in Conn : Owns(c) => ChallengeOf[c] \notin pendingAuth /\ KindOf(c) # "new"
  /\ \A c, d \in Conn : Owns(c) /\ Owns(d) /\ ChallengeOf[c] = ChallengeOf[d] => c = d

LEMMA OwnInit == Init => OwnInv
  BY LifecycleAssumption DEF Init, OwnInv, Owns, Exists, Writing

(* A step that makes no new owner keeps the challenges apart.              *)
LEMMA OwnFrame ==
  ASSUME OwnInv, UNCHANGED <<kind, pendingAuth>>,
         \A x \in Conn : Owns(x)' => Owns(x),
         \A x \in Conn : auth'[x] \in {"idle", "exchange"} => token'[x] = 0,
         \A x \in Conn : Exists(x)' => token'[x] # 0
  PROVE  OwnInv'
  BY DEF OwnInv

(* Nor does one that issues no token and brings nothing into being.        *)
LEMMA OwnQuiet ==
  ASSUME OwnInv, UNCHANGED <<kind, pendingAuth, token>>,
         \A x \in Conn : auth'[x] \in {"idle", "exchange"} => auth'[x] = auth[x],
         \A x \in Conn : Exists(x)' => Exists(x)
  PROVE  OwnInv'
<1>1. \A x \in Conn : Owns(x)' => Owns(x)
  BY DEF Owns
<1> QED BY <1>1, OwnFrame DEF OwnInv

LEMMA OwnAuth ==
  ASSUME TypeOK, OwnInv, NEW c \in Conn, AuthStep(c)
  PROVE  OwnInv'
<1>1. CASE AuthTake(c)
  <2>1. \A x \in Conn : Exists(x)' => Exists(x)
    BY <1>1 DEF TypeOK, AuthTake, AuthGoto, AuthStage, Exists, Writing, syncVars
  <2> QED BY <1>1, <2>1 DEF TypeOK, OwnInv, Owns, AuthTake, AuthGoto, AuthStage, syncVars
<1>2. CASE AuthStore(c)
  <2>1. \A x \in Conn \ {c} : /\ Exists(x)' => Exists(x)
                              /\ auth'[x] = auth[x] /\ token'[x] = token[x]
    BY <1>2 DEF TypeOK, AuthStore, AuthGoto, Store, Exists, Writing
  <2>2. /\ UNCHANGED <<kind, pendingAuth>> /\ auth[c] = "exchange"
        /\ \/ token'[c] = 1 /\ auth'[c] = "insert"
           \/ UNCHANGED <<secret, token>> /\ auth'[c] = "failed"
    BY <1>2 DEF TypeOK, AuthStore, AuthGoto, AuthStage
  <2>3. \A x \in Conn : Owns(x)' => Owns(x)
    BY <2>1, <2>2 DEF Owns
  <2>4. \A x \in Conn : auth'[x] \in {"idle", "exchange"} => token'[x] = 0
    BY <2>1, <2>2 DEF OwnInv
  <2>5. Exists(c)' => token'[c] # 0
    <3>1. CASE UNCHANGED <<secret, token>> /\ auth'[c] = "failed"
      <4>1. Exists(c)' => Exists(c)
        BY <1>2, <3>1 DEF AuthStore, Exists, Writing
      <4> QED BY <3>1, <4>1 DEF OwnInv
    <3> QED BY <2>2, <3>1
  <2> QED BY <2>1, <2>2, <2>3, <2>4, <2>5, OwnFrame DEF OwnInv
<1>3. CASE AuthInsert(c)
  <2>1. \A x \in Conn : auth'[x] \in {"idle", "exchange"} => auth'[x] = auth[x]
    BY <1>3 DEF TypeOK, AuthInsert, AuthGoto
  <2>2. \A x \in Conn : Exists(x)' => Exists(x)
    BY <1>3 DEF TypeOK, AuthInsert, AuthGoto, Exists, Writing, syncVars
  <2> QED BY <1>3, <2>1, <2>2, OwnQuiet DEF AuthInsert, syncVars
<1>4. CASE AuthUndo(c)
  <2>1. \A x \in Conn : auth'[x] \in {"idle", "exchange"} => auth'[x] = auth[x]
    BY <1>4 DEF TypeOK, AuthUndo, AuthGoto
  <2>2. \A x \in Conn : Exists(x)' => Exists(x)
    BY <1>4 DEF TypeOK, AuthUndo, AuthGoto, Store, Exists, Writing, syncVars
  <2> QED BY <1>4, <2>1, <2>2, OwnQuiet DEF AuthUndo, syncVars
<1> QED BY <1>1, <1>2, <1>3, <1>4 DEF AuthStep

LEMMA OwnSync ==
  ASSUME TypeOK, OwnInv, NEW c \in Conn, SyncStep(c)
  PROVE  OwnInv'
<1>1. CASE SyncLoad(c)
  <2>1. \A x \in Conn : Exists(x)' => Exists(x)
    BY <1>1 DEF TypeOK, SyncLoad, SyncGoto, Exists, Writing, authVars
  <2> QED BY <1>1, <2>1, OwnQuiet DEF SyncLoad, authVars
<1>2. CASE SyncWithout(c) \/ SyncTimeout(c)
  <2>1. \A x \in Conn : Exists(x)' => Exists(x)
    BY <1>2 DEF TypeOK, SyncWithout, SyncTimeout, SyncGoto, Exists, Writing, authVars
  <2> QED BY <1>2, <2>1, OwnQuiet DEF SyncWithout, SyncTimeout, authVars
<1>3. CASE SyncRotate(c) \/ SyncRotateLost(c)
  <2>1. /\ UNCHANGED <<kind, pendingAuth, auth>> /\ sync[c] = "refresh"
        /\ token' = [token EXCEPT ![c] = @ + 1]
    BY <1>3 DEF SyncRotate, SyncRotateLost, authVars
  <2>2. token[c] # 0 /\ token[c] \in Nat
    BY <2>1, LifecycleAssumption DEF TypeOK, OwnInv, Exists
  <2>3. \A x \in Conn : token'[x] = token[x] \/ (x = c /\ token'[x] # 0)
    BY <2>1, <2>2 DEF TypeOK
  <2>4. \A x \in Conn : Owns(x)' => Owns(x)
    BY <2>1, <2>2, <2>3 DEF Owns
  <2>5. \A x \in Conn \ {c} : Exists(x)' => Exists(x)
    BY <1>3 DEF TypeOK, SyncRotate, SyncRotateLost, SyncGoto, Exists, Writing, authVars
  <2>6. \A x \in Conn : Exists(x)' => token'[x] # 0
    BY <2>2, <2>3, <2>5 DEF OwnInv
  <2>7. \A x \in Conn : auth'[x] \in {"idle", "exchange"} => token'[x] = 0
    BY <2>1, <2>2, <2>3 DEF OwnInv
  <2> QED BY <2>1, <2>4, <2>6, <2>7, OwnFrame
<1> QED BY <1>1, <1>2, <1>3 DEF SyncStep

LEMMA OwnRest ==
  ASSUME TypeOK, OwnInv, NEW c \in Conn,
         \/ \E v \in 1..MaxToken : WriteLands(c, v)
         \/ StopProxy(c)
         \/ \E u \in Caller : StartStep(c, u) \/ RemoveStep(c, u)
  PROVE  OwnInv'
<1>1. ASSUME NEW v \in 1..MaxToken, WriteLands(c, v)
      PROVE  OwnInv'
  <2>1. \A x \in Conn : Exists(x)' => Exists(x)
    BY <1>1 DEF TypeOK, WriteLands, Store, SyncGoto, Exists, Writing, authVars
  <2> QED BY <1>1, <2>1, OwnQuiet DEF WriteLands, authVars
<1>2. ASSUME StopProxy(c) \/ \E u \in Caller : StartStep(c, u)
      PROVE  OwnInv'
  <2>1. UNCHANGED <<authVars, rows, secret, syncVars>>
    BY <1>2 DEF StopProxy, StartStep, StartProxy, StartGet, StartCheck, StartSpawn
  <2>2. \A x \in Conn : Exists(x)' => Exists(x)
    BY <2>1 DEF Exists, Writing, authVars, syncVars
  <2> QED BY <2>1, <2>2, OwnQuiet DEF authVars, syncVars
<1>3. ASSUME NEW u \in Caller, RemoveStep(c, u)
      PROVE  OwnInv'
  <2>1. /\ UNCHANGED <<authVars, syncVars>> /\ rows' \subseteq rows
        /\ UNCHANGED secret \/ Store(c, 0)
    BY <1>3 DEF RemoveStep, RemoveBegin, RemoveSecret, RemoveRow
  <2>2. \A x \in Conn : Exists(x)' => Exists(x)
    BY <2>1 DEF TypeOK, Store, Exists, Writing, authVars, syncVars
  <2> QED BY <2>1, <2>2, OwnQuiet DEF authVars, syncVars
<1> QED BY <1>1, <1>2, <1>3

LEMMA OwnCrash ==
  ASSUME TypeOK, OwnInv, Crash
  PROVE  OwnInv'
<1>1. \A x \in Conn : Exists(x)' => Exists(x)
  <2> SUFFICES ASSUME NEW x \in Conn, Exists(x)' PROVE Exists(x)
    OBVIOUS
  <2>1. secret'[x] = secret[x] \/ Writing(x)
    BY CrashSecrets DEF TypeOK, Writing
  <2>2. rows' = rows /\ sync'[x] = "idle" /\ ~Writing(x)' /\ auth'[x] \notin {"insert", "undo"}
    BY DEF Crash, Writing
  <2> QED BY <2>1, <2>2 DEF Exists
<1>2. \A x \in Conn : auth'[x] \in {"idle", "exchange"} => auth'[x] = auth[x]
  BY DEF Crash
<1>3. \A x \in Conn : Owns(x)' => Owns(x)
  BY <1>2 DEF Crash, Owns
<1> QED BY <1>1, <1>2, <1>3 DEF Crash, OwnInv

LEMMA OwnStep ==
  ASSUME TypeOK, OwnInv, [Next]_vars
  PROVE  OwnInv'
<1>1. ASSUME NEW h \in Challenge, BeginAuth(h)
      PROVE  OwnInv'
  <2>1. \A x \in Conn : (Owns(x)' <=> Owns(x)) /\ (Exists(x)' => Exists(x))
    BY <1>1 DEF BeginAuth, Owns, Exists, Writing, syncVars
  <2>2. \A x \in Conn : KindOf(x) # "new" => ChallengeOf[x] # h /\ KindOf(x)' = KindOf(x)
    BY <1>1, LifecycleAssumption DEF BeginAuth, TypeOK
  <2>3. pendingAuth' = pendingAuth \cup {h} /\ UNCHANGED <<auth, token>>
    BY <1>1 DEF BeginAuth, syncVars
  <2> QED BY <2>1, <2>2, <2>3 DEF OwnInv
<1>2. CASE UNCHANGED vars
  <2>1. \A x \in Conn : (Owns(x)' <=> Owns(x)) /\ (Exists(x)' <=> Exists(x))
    BY <1>2 DEF Owns, Exists, Writing, vars, authVars, syncVars
  <2> QED BY <1>2, <2>1 DEF OwnInv, vars, authVars, syncVars
<1>3. ASSUME NEW c \in Conn, AuthStep(c) \/ SyncStep(c)
      PROVE  OwnInv'
  BY <1>3, OwnAuth, OwnSync
<1>4. ASSUME NEW c \in Conn,
             \/ \E v \in 1..MaxToken : WriteLands(c, v)
             \/ StopProxy(c)
             \/ \E u \in Caller : StartStep(c, u) \/ RemoveStep(c, u)
      PROVE  OwnInv'
  BY <1>4, OwnRest
<1> QED BY <1>1, <1>2, <1>3, <1>4, OwnCrash DEF Next

(* However often a challenge is completed, one connection comes of it.     *)
THEOREM OneConnectionPerChallengeHolds == Spec => []OneConnectionPerChallenge
<1>1. TypeOK /\ OwnInv /\ [Next]_vars => OwnInv'
  BY OwnStep
<1>2. OwnInv => OneConnectionPerChallenge
  BY DEF OwnInv, OneConnectionPerChallenge, Owns, Exists
<1> QED BY OwnInit, TypeCorrect, <1>1, <1>2, PTL DEF Spec
(***************************************************************************)
(* Rows and their secrets                                                  *)
(***************************************************************************)
Forgetting(c) == \E u \in Caller : rem[c][u] = "forget"

(* Rows and removals come after the authentication, which has stored the   *)
(* secret before it inserts the row.                                       *)
RowInv ==
  /\ \A c \in Conn : c \in rows \/ Removing(c) => auth[c] = "done"
  /\ \A c \in Conn : auth[c] = "insert" => secret[c] # 0
  /\ \A c \in Conn : c \in rows => secret[c] # 0 \/ c \in bereft \/ Forgetting(c)

LEMMA RowInit == Init => RowInv
  BY DEF Init, RowInv, Removing

(* A step that touches neither removals nor secrets.                       *)
LEMMA RowFrame ==
  ASSUME RowInv, UNCHANGED <<auth, rem, rows, bereft>>,
         \A x \in Conn : secret[x] # 0 => secret'[x] # 0
  PROVE  RowInv'
  BY DEF RowInv, Removing, Forgetting

LEMMA RowAuth ==
  ASSUME TypeOK, RowInv, NEW c \in Conn, AuthStep(c)
  PROVE  RowInv'
<1>1. UNCHANGED <<rem, bereft>>
  BY DEF AuthStep, AuthTake, AuthStore, AuthInsert, AuthUndo, obsVars
<1>2. \A x \in Conn : (Removing(x)' <=> Removing(x)) /\ (Forgetting(x)' <=> Forgetting(x))
  BY <1>1 DEF Removing, Forgetting
<1>3. CASE AuthTake(c)
  <2>1. /\ auth[c] = "idle" /\ auth'[c] # "insert" /\ UNCHANGED <<rows, secret>>
        /\ \A x \in Conn \ {c} : auth'[x] = auth[x]
    BY <1>3 DEF TypeOK, AuthTake, AuthGoto
  <2> QED BY <1>1, <1>2, <2>1 DEF RowInv
<1>4. CASE AuthStore(c)
  <2>1. \A x \in Conn \ {c} : auth'[x] = auth[x] /\ secret'[x] = secret[x]
    BY <1>4 DEF TypeOK, AuthStore, AuthGoto, Store
  <2>2. auth[c] = "exchange" /\ rows' = rows /\ (auth'[c] = "insert" => secret'[c] # 0)
    BY <1>4 DEF TypeOK, AuthStore, AuthGoto, Store
  <2> QED BY <1>1, <1>2, <2>1, <2>2 DEF RowInv
<1>5. CASE AuthInsert(c)
  <2>1. /\ auth[c] = "insert" /\ secret' = secret
        /\ \A x \in Conn \ {c} : auth'[x] = auth[x] /\ (x \in rows' <=> x \in rows)
        /\ auth'[c] = "done" \/ (auth'[c] = "undo" /\ rows' = rows)
    BY <1>5 DEF TypeOK, AuthInsert, AuthGoto
  <2> QED BY <1>1, <1>2, <2>1 DEF RowInv
<1>6. CASE AuthUndo(c)
  <2>1. /\ auth[c] = "undo" /\ auth'[c] = "failed" /\ rows' = rows
        /\ \A x \in Conn \ {c} : auth'[x] = auth[x] /\ secret'[x] = secret[x]
    BY <1>6 DEF TypeOK, AuthUndo, AuthGoto, Store
  <2> QED BY <1>1, <1>2, <2>1 DEF RowInv
<1> QED BY <1>3, <1>4, <1>5, <1>6 DEF AuthStep

LEMMA RowSync ==
  ASSUME TypeOK, RowInv, NEW c \in Conn,
         \/ SyncStep(c) \/ StopProxy(c)
         \/ \E v \in 1..MaxToken : WriteLands(c, v)
         \/ \E u \in Caller : StartStep(c, u)
  PROVE  RowInv'
<1>1. ASSUME NEW v \in 1..MaxToken, WriteLands(c, v)
      PROVE  RowInv'
  <2>1. \A x \in Conn : secret[x] # 0 => secret'[x] # 0
    BY <1>1, LifecycleAssumption DEF TypeOK, WriteLands, Store
  <2> QED BY <1>1, <2>1, RowFrame DEF WriteLands, authVars
<1>2. CASE SyncStep(c)
  <2>1. UNCHANGED <<auth, rem, rows, bereft, secret>>
    BY <1>2 DEF SyncStep, SyncLoad, SyncWithout, SyncRotate, SyncRotateLost, SyncTimeout,
                authVars, obsVars
  <2> QED BY <2>1, RowFrame
<1>3. CASE StopProxy(c) \/ \E u \in Caller : StartStep(c, u)
  <2>1. UNCHANGED <<auth, rem, rows, bereft, secret>>
    BY <1>3 DEF StopProxy, StartStep, StartProxy, StartGet, StartCheck, StartSpawn,
                authVars, obsVars
  <2> QED BY <2>1, RowFrame
<1> QED BY <1>1, <1>2, <1>3

(* What one caller of remove does to the stages of the others: nothing.    *)
LEMMA RemEffect ==
  ASSUME TypeOK, NEW c \in Conn, NEW u \in Caller, NEW s \in RemStage, RemGoto(c, u, s)
  PROVE  /\ \A x \in Conn \ {c} : rem'[x] = rem[x]
         /\ \A w \in Caller \ {u} : rem'[c][w] = rem[c][w]
         /\ rem'[c][u] = s
  BY DEF TypeOK, RemGoto

LEMMA RemOther ==
  ASSUME TypeOK, NEW c \in Conn, NEW u \in Caller, RemoveStep(c, u)
  PROVE  /\ \A x \in Conn \ {c} : /\ rem'[x] = rem[x] /\ secret'[x] = secret[x]
                                  /\ (x \in rows' <=> x \in rows)
         /\ \A w \in Caller \ {u} : rem'[c][w] = rem[c][w]
         /\ rows' \subseteq rows
<1>1. \/ rem' = rem
      \/ \E s \in RemStage : RemGoto(c, u, s)
  BY DEF RemoveStep, RemoveBegin, RemoveSecret, RemoveRow, RemStage
<1>2. /\ \A x \in Conn \ {c} : rem'[x] = rem[x]
      /\ \A w \in Caller \ {u} : rem'[c][w] = rem[c][w]
  BY <1>1, RemEffect
<1>3. secret' = secret \/ Store(c, 0)
  BY DEF RemoveStep, RemoveBegin, RemoveSecret, RemoveRow
<1>4. rows' = rows \/ rows' = rows \ {c}
  BY DEF RemoveStep, RemoveBegin, RemoveSecret, RemoveRow
<1> QED BY <1>2, <1>3, <1>4 DEF TypeOK, Store

LEMMA RowRemove ==
  ASSUME TypeOK, RowInv, NEW c \in Conn, NEW u \in Caller, RemoveStep(c, u)
  PROVE  RowInv'
<1>1. auth' = auth /\ bereft \subseteq bereft'
  BY DEF RemoveStep, RemoveBegin, RemoveSecret, RemoveRow, authVars, obsVars
<1>2. Removing(c)' => Removing(c) \/ c \in rows
  <2>1. \/ rem[c][u] # "idle" \/ c \in rows \/ rem' = rem
    BY DEF RemoveStep, RemoveBegin, RemoveSecret, RemoveRow
  <2> QED BY <2>1, RemOther DEF Removing
<1>3. ASSUME c \in rows'
      PROVE  secret'[c] # 0 \/ c \in bereft' \/ Forgetting(c)'
  <2>1. CASE RemoveBegin(c, u)
    <3>1. rem[c][u] = "idle" /\ secret' = secret
      BY <2>1 DEF RemoveBegin
    <3>2. Forgetting(c) => Forgetting(c)'
      BY <3>1, RemOther DEF Forgetting
    <3> QED BY <1>1, <1>3, <3>1, <3>2, RemOther DEF RowInv
  <2>2. CASE RemoveSecret(c, u)
    <3>1. rem[c][u] = "disconnect" /\ (secret' = secret \/ RemGoto(c, u, "forget"))
      BY <2>2 DEF RemoveSecret
    <3>2. CASE secret' = secret
      <4>1. Forgetting(c) => Forgetting(c)'
        BY <3>1, RemOther DEF Forgetting
      <4> QED BY <1>1, <1>3, <3>2, <4>1, RemOther DEF RowInv
    <3>3. CASE RemGoto(c, u, "forget")
      BY <3>3, RemEffect DEF Forgetting, RemStage
    <3> QED BY <3>1, <3>2, <3>3
  <2>3. CASE RemoveRow(c, u)
    BY <1>3, <2>3 DEF RemoveRow
  <2> QED BY <2>1, <2>2, <2>3 DEF RemoveStep
<1>4. \A x \in Conn \ {c} : /\ Removing(x)' <=> Removing(x)
                            /\ Forgetting(x)' <=> Forgetting(x)
  BY RemOther DEF Removing, Forgetting
<1>5. /\ rows' \subseteq rows
      /\ \A x \in Conn \ {c} : secret'[x] = secret[x]
  BY RemOther
<1>6. \A x \in Conn : x \in rows' \/ Removing(x)' => auth'[x] = "done"
  BY <1>1, <1>2, <1>4, <1>5 DEF RowInv
<1>7. \A x \in Conn : auth'[x] = "insert" => secret'[x] # 0
  <2>1. Removing(c) \/ c \in rows \/ secret' = secret
    BY DEF RemoveStep, RemoveBegin, RemoveSecret, RemoveRow, Removing
  <2> QED BY <1>1, <1>5, <2>1 DEF RowInv
<1>8. \A x \in Conn : x \in rows' => secret'[x] # 0 \/ x \in bereft' \/ Forgetting(x)'
  BY <1>1, <1>3, <1>4, <1>5 DEF RowInv
<1> QED BY <1>6, <1>7, <1>8 DEF RowInv

LEMMA RowCrash ==
  ASSUME TypeOK, RowInv, Crash
  PROVE  RowInv'
<1>1. \A x \in Conn : ~Removing(x)' /\ auth'[x] # "insert" /\ (auth[x] = "done" => auth'[x] = "done")
  BY DEF Crash, Removing
<1>2. \A x \in Conn : Forgetting(x) => x \in bereft'
  BY DEF Crash, Forgetting
<1>3. \A x \in Conn : secret[x] # 0 => secret'[x] # 0
  BY CrashSecrets, LifecycleAssumption DEF TypeOK
<1>4. rows' = rows /\ bereft \subseteq bereft'
  BY DEF Crash
<1> QED BY <1>1, <1>2, <1>3, <1>4 DEF RowInv

LEMMA RowStep ==
  ASSUME TypeOK, RowInv, [Next]_vars
  PROVE  RowInv'
<1>1. ASSUME NEW h \in Challenge, BeginAuth(h)
      PROVE  RowInv'
  BY <1>1, RowFrame DEF BeginAuth, obsVars
<1>2. CASE UNCHANGED vars
  BY <1>2, RowFrame DEF vars, authVars, obsVars
<1>3. ASSUME NEW c \in Conn,
             \/ AuthStep(c) \/ SyncStep(c) \/ StopProxy(c)
             \/ \E v \in 1..MaxToken : WriteLands(c, v)
      PROVE  RowInv'
  BY <1>3, RowAuth, RowSync
<1>4. ASSUME NEW c \in Conn, NEW u \in Caller, StartStep(c, u) \/ RemoveStep(c, u)
      PROVE  RowInv'
  BY <1>4, RowSync, RowRemove
<1> QED BY <1>1, <1>2, <1>3, <1>4, RowCrash DEF Next

(* A row has its secret, except between the two deletions of its removal   *)
(* and after a removal that failed or crashed between them.                *)
THEOREM RowHasSecretHolds == Spec => []RowHasSecret
<1>1. TypeOK /\ RowInv /\ [Next]_vars => RowInv'
  BY RowStep
<1>2. TypeOK /\ RowInv => RowHasSecret
  BY DEF TypeOK, RowInv, RowHasSecret, Forgetting
<1> QED BY RowInit, TypeCorrect, <1>1, <1>2, PTL DEF Spec
(***************************************************************************)
(* Tokens                                                                  *)
(***************************************************************************)

(* At most one write is under way for a connection, of the token the       *)
(* provider accepts, which is younger than the stored one and than the one *)
(* a sync could rotate: only a sync that holds the accepted token rotates, *)
(* and it holds what was stored.                                           *)
TokAt(c) ==
  /\ secret[c] <= token[c] /\ held[c] <= token[c]
  /\ \A v \in 1..MaxToken :
       <<c, v>> \in writes => /\ v = token[c] /\ secret[c] < v
                              /\ sync[c] = "refresh" => held[c] < v
  /\ secret[c] # 0 => secret[c] = token[c] \/ Writing(c) \/ c \in cut

TokInv == \A c \in Conn : TokAt(c)

LEMMA TokInit == Init => TokInv
<1> SUFFICES ASSUME Init, NEW c \in Conn PROVE TokAt(c)
  BY DEF TokInv
<1>1. secret[c] = 0 /\ token[c] = 0 /\ held[c] = 0 /\ writes = {}
  BY DEF Init
<1> QED BY <1>1 DEF TokAt

LEMMA TokFrame ==
  ASSUME NEW x \in Conn, TokAt(x),
         secret'[x] = secret[x], token'[x] = token[x], held'[x] = held[x],
         sync'[x] = "refresh" => sync[x] = "refresh",
         \A v \in 1..MaxToken : <<x, v>> \in writes' <=> <<x, v>> \in writes,
         x \in cut => x \in cut'
  PROVE  TokAt(x)'
  BY DEF TokAt, Writing

(* Without a write under way nothing is younger than what is stored.       *)
LEMMA TokQuiet ==
  ASSUME NEW x \in Conn, ~Writing(x)', secret'[x] <= token'[x], held'[x] <= token'[x],
         secret'[x] # 0 => secret'[x] = token'[x] \/ x \in cut'
  PROVE  TokAt(x)'
  BY DEF TokAt, Writing

LEMMA TokAuth ==
  ASSUME TypeOK, OwnInv, TokInv, NEW c \in Conn, AuthStep(c)
  PROVE  TokInv' /\ \A x \in Conn : secret'[x] # 0 => secret'[x] >= secret[x]
<1>1. UNCHANGED <<sync, held, writes, cut>>
  BY DEF AuthStep, AuthTake, AuthStore, AuthInsert, AuthUndo, syncVars, obsVars
<1>2. \A x \in Conn \ {c} : secret'[x] = secret[x] /\ token'[x] = token[x]
  BY DEF TypeOK, AuthStep, AuthTake, AuthStore, AuthInsert, AuthUndo, Store, syncVars
<1>3. \/ UNCHANGED <<secret, token>>
      \/ auth[c] = "exchange" /\ secret'[c] = 1 /\ token'[c] = 1
      \/ auth[c] = "undo" /\ secret'[c] = 0 /\ token'[c] = token[c]
  BY DEF TypeOK, AuthStep, AuthTake, AuthStore, AuthInsert, AuthUndo, Store, syncVars
<1>4. \A x \in Conn \ {c} : TokAt(x)'
  BY <1>1, <1>2, TokFrame DEF TokInv
<1>5. TokAt(c)' /\ (secret'[c] # 0 => secret'[c] >= secret[c])
  <2>1. CASE UNCHANGED <<secret, token>>
    BY <1>1, <2>1, TokFrame DEF TokInv, TypeOK
  <2>2. CASE auth[c] = "exchange" /\ secret'[c] = 1 /\ token'[c] = 1
    <3>1. token[c] = 0
      BY <2>2 DEF OwnInv
    <3>2. ~Writing(c)' /\ secret[c] = 0 /\ held[c] <= 0
      BY <1>1, <3>1 DEF OwnInv, Exists, Writing, TokInv, TokAt
    <3> QED BY <1>1, <2>2, <3>2, TokQuiet DEF TypeOK
  <2>3. CASE auth[c] = "undo" /\ secret'[c] = 0 /\ token'[c] = token[c]
    BY <1>1, <2>3 DEF TokInv, TokAt, TypeOK
  <2> QED BY <1>3, <2>1, <2>2, <2>3
<1> QED BY <1>2, <1>4, <1>5 DEF TokInv, TypeOK

LEMMA TokSync ==
  ASSUME TypeOK, TokInv, NEW c \in Conn, SyncStep(c)
  PROVE  TokInv' /\ secret' = secret
<1>1. secret' = secret
  BY DEF SyncStep, SyncLoad, SyncWithout, SyncRotate, SyncRotateLost, SyncTimeout
<1>2. \A x \in Conn \ {c} : TokAt(x)'
  <2>1. \A x \in Conn \ {c} : /\ token'[x] = token[x] /\ held'[x] = held[x]
                              /\ sync'[x] = sync[x] /\ (x \in cut => x \in cut')
    BY DEF TypeOK, SyncStep, SyncLoad, SyncWithout, SyncRotate, SyncRotateLost, SyncTimeout,
           SyncGoto, obsVars
  <2>2. \A x \in Conn \ {c}, v \in 1..MaxToken : <<x, v>> \in writes' <=> <<x, v>> \in writes
    BY DEF SyncStep, SyncLoad, SyncWithout, SyncRotate, SyncRotateLost, SyncTimeout
  <2> QED BY <1>1, <2>1, <2>2, TokFrame DEF TokInv
<1>3. CASE SyncLoad(c)
  <2>1. held'[c] = secret[c] /\ UNCHANGED <<token, writes, cut>>
    BY <1>3 DEF TypeOK, SyncLoad, obsVars
  <2>2. TokAt(c)'
    BY <1>1, <2>1 DEF TokInv, TokAt, Writing
  <2> QED BY <1>1, <1>2, <2>2 DEF TokInv
<1>4. CASE SyncWithout(c) \/ SyncTimeout(c)
  <2>1. sync'[c] = "idle" /\ UNCHANGED <<token, held, writes, cut>>
    BY <1>4 DEF TypeOK, SyncWithout, SyncTimeout, SyncGoto, obsVars
  <2>2. TokAt(c)'
    BY <1>1, <2>1, TokFrame DEF TokInv
  <2> QED BY <1>1, <1>2, <2>2 DEF TokInv
<1>5. (SyncRotate(c) \/ SyncRotateLost(c)) => /\ ~Writing(c)
                                              /\ token'[c] = token[c] + 1
                                              /\ token[c] \in Nat /\ secret[c] \in Nat
                                              /\ held[c] = token[c] /\ secret[c] <= token[c]
  <2> SUFFICES ASSUME SyncRotate(c) \/ SyncRotateLost(c)
               PROVE  /\ ~Writing(c)
                      /\ token'[c] = token[c] + 1
                      /\ token[c] \in Nat /\ secret[c] \in Nat
                      /\ held[c] = token[c] /\ secret[c] <= token[c]
    OBVIOUS
  <2>1. /\ sync[c] = "refresh" /\ held[c] = token[c]
        /\ token' = [token EXCEPT ![c] = @ + 1]
    BY DEF SyncRotate, SyncRotateLost, Rotates
  <2>2. token'[c] = token[c] + 1 /\ token[c] \in Nat /\ secret[c] \in Nat
    BY <2>1, LifecycleAssumption DEF TypeOK
  <2>3. ~Writing(c)
    <3> SUFFICES ASSUME NEW v \in 1..MaxToken, <<c, v>> \in writes PROVE FALSE
      BY DEF Writing
    <3>1. v = token[c] /\ held[c] < v
      BY <2>1 DEF TokInv, TokAt
    <3> QED BY <2>1, <2>2, <3>1
  <2> QED BY <2>1, <2>2, <2>3 DEF TokInv, TokAt
<1>6. CASE SyncRotate(c)
  <2>1. /\ held'[c] = token'[c] /\ sync'[c] = "await"
        /\ writes' = writes \cup {<<c, token'[c]>>}
    BY <1>6 DEF TypeOK, SyncRotate, SyncGoto
  <2>2. \A v \in 1..MaxToken : <<c, v>> \in writes' <=> v = token'[c]
    BY <1>5, <1>6, <2>1 DEF Writing
  <2>3. token'[c] \in 1..MaxToken
    BY <1>5, <1>6, LifecycleAssumption DEF SyncRotate, Rotates, TypeOK
  <2>4. Writing(c)'
    BY <2>1, <2>3 DEF Writing
  <2>5. TokAt(c)'
    BY <1>1, <1>5, <1>6, <2>1, <2>2, <2>4 DEF TokAt
  <2> QED BY <1>1, <1>2, <2>5 DEF TokInv
<1>7. CASE SyncRotateLost(c)
  <2>1. held' = held /\ writes' = writes /\ c \in cut'
    BY <1>7 DEF SyncRotateLost
  <2>2. TokAt(c)'
    BY <1>1, <1>5, <1>7, <2>1 DEF TokAt, Writing
  <2> QED BY <1>1, <1>2, <2>2 DEF TokInv
<1> QED BY <1>1, <1>3, <1>4, <1>6, <1>7 DEF SyncStep

LEMMA TokWrite ==
  ASSUME TypeOK, TokInv, NEW c \in Conn, NEW v \in 1..MaxToken, WriteLands(c, v)
  PROVE  TokInv' /\ \A x \in Conn : secret'[x] # 0 => secret'[x] >= secret[x]
<1>1. UNCHANGED <<token, held>>
  BY DEF WriteLands
<1>2. \A x \in Conn \ {c} : /\ secret'[x] = secret[x] /\ sync'[x] = sync[x]
                            /\ x \in cut => x \in cut'
  BY DEF TypeOK, WriteLands, Store, SyncGoto
<1>3. \A x \in Conn \ {c}, w \in 1..MaxToken : <<x, w>> \in writes' <=> <<x, w>> \in writes
  BY DEF WriteLands
<1>4. \A x \in Conn \ {c} : TokAt(x)'
  BY <1>1, <1>2, <1>3, TokFrame DEF TokInv
<1>5. v = token[c] /\ secret[c] < v /\ ~Writing(c)'
  BY DEF WriteLands, TokInv, TokAt, Writing
<1>6. \/ secret'[c] = v
      \/ secret' = secret /\ c \in cut'
  BY DEF TypeOK, WriteLands, Store
<1>7. held[c] <= token[c] /\ secret[c] \in Nat /\ v \in Nat
  BY LifecycleAssumption DEF TokInv, TokAt, TypeOK
<1>8. TokAt(c)'
  BY <1>1, <1>5, <1>6, <1>7, TokQuiet
<1>9. \A x \in Conn : secret'[x] >= secret[x]
  BY <1>2, <1>5, <1>6, <1>7, LifecycleAssumption DEF TypeOK
<1> QED BY <1>4, <1>8, <1>9 DEF TokInv

LEMMA TokRest ==
  ASSUME TypeOK, TokInv, NEW c \in Conn,
         StopProxy(c) \/ \E u \in Caller : StartStep(c, u) \/ RemoveStep(c, u)
  PROVE  TokInv' /\ \A x \in Conn : secret'[x] # 0 => secret'[x] >= secret[x]
<1>1. /\ UNCHANGED <<sync, held, writes, token, cut>>
      /\ secret' = secret \/ Store(c, 0)
  BY DEF StopProxy, StartStep, StartProxy, StartGet, StartCheck, StartSpawn,
         RemoveStep, RemoveBegin, RemoveSecret, RemoveRow, syncVars, obsVars
<1>2. \A x \in Conn : secret'[x] = secret[x] \/ secret'[x] = 0
  BY <1>1 DEF TypeOK, Store
<1>3. ASSUME NEW x \in Conn
      PROVE  TokAt(x)'
  <2>1. CASE secret'[x] = secret[x]
    BY <1>1, <2>1, TokFrame DEF TokInv
  <2>2. CASE secret'[x] = 0
    BY <1>1, <2>2, LifecycleAssumption DEF TokInv, TokAt, TypeOK
  <2> QED BY <1>2, <2>1, <2>2
<1> QED BY <1>2, <1>3, LifecycleAssumption DEF TokInv, TypeOK

LEMMA TokCrash ==
  ASSUME TypeOK, TokInv, Crash
  PROVE  TokInv' /\ \A x \in Conn : secret'[x] # 0 => secret'[x] >= secret[x]
<1> SUFFICES ASSUME NEW x \in Conn
             PROVE  TokAt(x)' /\ secret'[x] >= secret[x]
  BY DEF TokInv
<1>1. token' = token /\ held' = held /\ ~Writing(x)' /\ (x \in cut => x \in cut')
  BY DEF Crash, Writing
<1>2. secret[x] \in Nat /\ token[x] \in Nat
  BY LifecycleAssumption DEF TypeOK
<1>3. CASE <<x, secret'[x]>> \in writes /\ secret'[x] # 0
  <2>1. secret'[x] = token[x] /\ secret[x] < secret'[x]
    BY <1>3 DEF TokInv, TokAt, TypeOK
  <2> QED BY <1>1, <1>2, <2>1, TokQuiet DEF TokInv, TokAt
<1>4. CASE secret'[x] = secret[x] /\ ~(<<x, secret'[x]>> \in writes /\ secret'[x] # 0)
  <2>1. Writing(x) => x \in cut'
    BY <1>4, CrashSecrets DEF TypeOK
  <2> QED BY <1>1, <1>2, <1>4, <2>1, TokQuiet DEF TokInv, TokAt
<1> QED BY <1>3, <1>4, CrashSecrets

LEMMA TokStep ==
  ASSUME TypeOK, OwnInv, TokInv, [Next]_vars
  PROVE  TokInv' /\ \A x \in Conn : secret'[x] # 0 => secret'[x] >= secret[x]
<1>1. ASSUME UNCHANGED <<secret, syncVars, cut>>
      PROVE  TokInv' /\ \A x \in Conn : secret'[x] >= secret[x]
  BY <1>1, TokFrame, LifecycleAssumption DEF syncVars, TokInv, TypeOK
<1>2. ASSUME \E h \in Challenge : BeginAuth(h)
      PROVE  UNCHANGED <<secret, syncVars, cut>>
  BY <1>2 DEF BeginAuth, obsVars
<1>3. CASE UNCHANGED vars
  BY <1>1, <1>3 DEF vars, obsVars
<1>4. ASSUME NEW c \in Conn, AuthStep(c) \/ SyncStep(c)
      PROVE  TokInv' /\ \A x \in Conn : secret'[x] # 0 => secret'[x] >= secret[x]
  <2>1. CASE AuthStep(c)
    BY <2>1, TokAuth
  <2>2. CASE SyncStep(c)
    BY <2>2, TokSync, LifecycleAssumption DEF TypeOK
  <2> QED BY <1>4, <2>1, <2>2
<1>5. ASSUME NEW c \in Conn,
             StopProxy(c) \/ \E u \in Caller : StartStep(c, u) \/ RemoveStep(c, u)
      PROVE  TokInv' /\ \A x \in Conn : secret'[x] # 0 => secret'[x] >= secret[x]
  BY <1>5, TokRest
<1>6. ASSUME NEW c \in Conn, NEW v \in 1..MaxToken, WriteLands(c, v)
      PROVE  TokInv' /\ \A x \in Conn : secret'[x] # 0 => secret'[x] >= secret[x]
  BY <1>6, TokWrite
<1> QED BY <1>1, <1>2, <1>3, <1>4, <1>5, <1>6, TokCrash DEF Next

LEMMA TokInductive == Spec => [](TypeOK /\ OwnInv /\ TokInv)
<1>1. TypeOK /\ OwnInv /\ [Next]_vars => OwnInv'
  BY OwnStep
<1>2. TypeOK /\ OwnInv /\ TokInv /\ [Next]_vars => TokInv'
  BY TokStep
<1> QED BY OwnInit, TokInit, TypeCorrect, <1>1, <1>2, PTL DEF Spec

(* The keyring has the token the provider accepts, unless an answer or a   *)
(* write was lost.                                                         *)
THEOREM StoredIsAcceptedHolds == Spec => []StoredIsAccepted
<1>1. TypeOK /\ TokInv => StoredIsAccepted
  BY DEF TypeOK, TokInv, TokAt, StoredIsAccepted, Quiet
<1> QED BY TokInductive, <1>1, PTL

(* A stored token is never replaced by an older one.                       *)
THEOREM StoredNeverOlderHolds == Spec => StoredNeverOlder
<1>1. TypeOK /\ OwnInv /\ TokInv /\ [Next]_vars
        => [\A c \in Conn : secret'[c] # 0 => secret'[c] >= secret[c]]_vars
  BY TokStep
<1> QED BY TokInductive, <1>1, PTL DEF Spec, StoredNeverOlder
(***************************************************************************)
(* Proxies                                                                 *)
(***************************************************************************)

\* There is a proxy, or there may soon be one.
Serving(c) == Starting(c) \/ proxy[c] # "none"

(* A removal that finds a start under way, or is found by one, overlaps    *)
(* with it; any other has stopped the proxy for good.                      *)
ProxyAt(c) ==
  /\ Serving(c) => c \in rows \cup overlapped
  /\ Serving(c) /\ Removing(c) => c \in overlapped

ProxyInv == \A c \in Conn : ProxyAt(c)

LEMMA ProxyInit == Init => ProxyInv
<1> SUFFICES ASSUME Init, NEW c \in Conn PROVE ~Serving(c)
  BY DEF ProxyInv, ProxyAt
<1>1. proxy[c] = "none" /\ \A u \in Caller : start[c][u] = "idle"
  BY DEF Init
<1> QED BY <1>1 DEF Serving, Starting

LEMMA ProxyFrame ==
  ASSUME NEW x \in Conn, ProxyAt(x),
         Serving(x)' => Serving(x), Removing(x)' => Removing(x),
         x \in rows => x \in rows', x \in overlapped => x \in overlapped'
  PROVE  ProxyAt(x)'
  BY DEF ProxyAt

(* What one start does to the stages of the others: nothing.               *)
LEMMA StartEffect ==
  ASSUME TypeOK, NEW c \in Conn, NEW u \in Caller, NEW s \in StartStage, StartGoto(c, u, s)
  PROVE  /\ \A x \in Conn \ {c} : start'[x] = start[x]
         /\ \A w \in Caller \ {u} : start'[c][w] = start[c][w]
         /\ start'[c][u] = s
  BY DEF TypeOK, StartGoto

LEMMA ProxyStart ==
  ASSUME TypeOK, ProxyInv, NEW c \in Conn, NEW u \in Caller, StartStep(c, u)
  PROVE  ProxyInv'
<1>1. UNCHANGED <<rem, rows>> /\ \E s \in StartStage : StartGoto(c, u, s)
  BY DEF StartStep, StartProxy, StartGet, StartCheck, StartSpawn, StartEnds, StartStage
<1>2. \A x \in Conn : /\ Removing(x)' <=> Removing(x)
                      /\ x \in overlapped => x \in overlapped'
  BY <1>1 DEF Removing, StartStep, StartProxy, StartGet, StartCheck, StartSpawn,
              Overlapping, obsVars
<1>3. \A x \in Conn \ {c} : Serving(x)' <=> Serving(x)
  <2>1. \A x \in Conn \ {c} : start'[x] = start[x]
    BY <1>1, StartEffect
  <2>2. \A x \in Conn \ {c} : proxy'[x] = proxy[x]
    BY DEF TypeOK, StartStep, StartProxy, StartGet, StartCheck, StartSpawn
  <2> QED BY <2>1, <2>2 DEF Serving, Starting
<1>4. CASE StartProxy(c, u)
  <2>1. c \in rows /\ (Removing(c) => c \in overlapped')
    BY <1>4 DEF StartProxy, Overlapping
  <2>2. ProxyAt(c)'
    BY <1>1, <1>2, <2>1 DEF ProxyAt
  <2> QED BY <1>1, <1>2, <1>3, <2>2, ProxyFrame DEF ProxyInv
<1>5. CASE StartGet(c, u) \/ StartCheck(c, u) \/ StartSpawn(c, u)
  <2>1. start[c][u] # "idle"
    BY <1>5 DEF StartGet, StartCheck, StartSpawn
  <2>2. Serving(c)
    BY <2>1 DEF Serving, Starting
  <2> QED BY <1>1, <1>2, <1>3, <2>2, ProxyFrame DEF ProxyInv
<1> QED BY <1>4, <1>5 DEF StartStep

LEMMA ProxyRemove ==
  ASSUME TypeOK, ProxyInv, NEW c \in Conn, NEW u \in Caller, RemoveStep(c, u)
  PROVE  ProxyInv'
<1>1. /\ start' = start /\ overlapped \subseteq overlapped'
      /\ \A x \in Conn \ {c} : proxy'[x] = proxy[x]
  BY DEF TypeOK, RemoveStep, RemoveBegin, RemoveSecret, RemoveRow, Overlapping,
         proxyVars, obsVars
<1>2. \A x \in Conn \ {c} : ProxyAt(x)'
  <2>1. \A x \in Conn \ {c} : /\ Serving(x)' => Serving(x)
                              /\ Removing(x)' => Removing(x)
                              /\ x \in rows => x \in rows'
    BY <1>1, RemOther DEF Serving, Starting, Removing
  <2> QED BY <1>1, <2>1, ProxyFrame DEF ProxyInv
<1>3. CASE RemoveBegin(c, u)
  <2>1. proxy'[c] = "none" /\ (Starting(c) => c \in overlapped')
    BY <1>3 DEF TypeOK, RemoveBegin, Overlapping
  <2>2. ProxyAt(c)'
    BY <1>1, <2>1 DEF ProxyAt, Serving, Starting
  <2> QED BY <1>2, <2>2 DEF ProxyInv
<1>4. CASE RemoveSecret(c, u) \/ RemoveRow(c, u)
  <2>1. Removing(c) /\ proxy' = proxy
    BY <1>4 DEF RemoveSecret, RemoveRow, Removing, proxyVars
  <2>2. Serving(c)' => Serving(c)
    BY <1>1, <2>1 DEF Serving, Starting
  <2>3. ProxyAt(c)'
    BY <1>1, <2>1, <2>2 DEF ProxyInv, ProxyAt
  <2> QED BY <1>2, <2>3 DEF ProxyInv
<1> QED BY <1>3, <1>4 DEF RemoveStep

LEMMA ProxyCrash ==
  ASSUME TypeOK, Crash
  PROVE  ProxyInv'
<1> SUFFICES ASSUME NEW x \in Conn, Serving(x)'
             PROVE  x \in rows' /\ ~Removing(x)'
  BY DEF ProxyInv, ProxyAt
<1>1. PICK w \in Caller :
        start' = [c \in Conn |-> [u \in Caller |->
                    IF c \in boot' /\ u = w THEN "get" ELSE "idle"]]
  BY DEF Crash
<1>2. proxy'[x] = "none" /\ rows' = rows /\ boot' \subseteq rows /\ ~Removing(x)'
  BY DEF Crash, Removing
<1> QED BY <1>1, <1>2 DEF Serving, Starting

LEMMA ProxyStep ==
  ASSUME TypeOK, ProxyInv, [Next]_vars
  PROVE  ProxyInv'
<1>1. ASSUME UNCHANGED <<start, proxy, rem>>, rows \subseteq rows', overlapped' = overlapped
      PROVE  ProxyInv'
  <2>1. \A x \in Conn : (Serving(x)' <=> Serving(x)) /\ (Removing(x)' <=> Removing(x))
    BY <1>1 DEF Serving, Starting, Removing
  <2> QED BY <1>1, <2>1, ProxyFrame DEF ProxyInv
<1>2. ASSUME \E h \in Challenge : BeginAuth(h)
      PROVE  ProxyInv'
  BY <1>1, <1>2 DEF BeginAuth, proxyVars, obsVars
<1>3. CASE UNCHANGED vars
  BY <1>1, <1>3 DEF vars, proxyVars, obsVars
<1>4. ASSUME NEW c \in Conn, AuthStep(c)
      PROVE  ProxyInv'
  BY <1>1, <1>4 DEF AuthStep, AuthTake, AuthStore, AuthInsert, AuthUndo, proxyVars, obsVars
<1>5. ASSUME NEW c \in Conn, SyncStep(c)
      PROVE  ProxyInv'
  BY <1>1, <1>5
     DEF SyncStep, SyncLoad, SyncWithout, SyncRotate, SyncRotateLost, SyncTimeout,
         proxyVars, obsVars
<1>6. ASSUME NEW c \in Conn, NEW v \in 1..MaxToken, WriteLands(c, v)
      PROVE  ProxyInv'
  BY <1>1, <1>6 DEF WriteLands, proxyVars
<1>7. ASSUME NEW c \in Conn, StopProxy(c)
      PROVE  ProxyInv'
  <2>1. /\ UNCHANGED <<start, rem, rows, overlapped>>
        /\ \A x \in Conn : proxy'[x] # "none" => proxy[x] # "none"
    BY <1>7 DEF TypeOK, StopProxy, obsVars
  <2>2. \A x \in Conn : (Serving(x)' => Serving(x)) /\ (Removing(x)' <=> Removing(x))
    BY <2>1 DEF Serving, Starting, Removing
  <2> QED BY <2>1, <2>2, ProxyFrame DEF ProxyInv
<1>8. ASSUME NEW c \in Conn, NEW u \in Caller, StartStep(c, u) \/ RemoveStep(c, u)
      PROVE  ProxyInv'
  BY <1>8, ProxyStart, ProxyRemove
<1> QED BY <1>2, <1>3, <1>4, <1>5, <1>6, <1>7, <1>8, ProxyCrash DEF Next

(* A proxy outlives its connection only when it was being started while    *)
(* the connection was being removed.                                       *)
THEOREM ProxyOutlivesByRaceHolds == Spec => []ProxyOutlivesByRace
<1>1. TypeOK /\ ProxyInv /\ [Next]_vars => ProxyInv'
  BY ProxyStep
<1>2. ProxyInv => ProxyOutlivesByRace
  BY DEF ProxyInv, ProxyAt, Serving, ProxyOutlivesByRace
<1> QED BY ProxyInit, TypeCorrect, <1>1, <1>2, PTL DEF Spec
(***************************************************************************)
(* Secrets that are not renewed                                            *)
(***************************************************************************)

(* Who answers for such a secret: the row, the authentication that has not *)
(* inserted the row yet, or a deletion that failed or was cut.  A removal  *)
(* that is about to delete the row has deleted it, for nothing writes it   *)
(* again.                                                                  *)
KeyAt(c) ==
  /\ Writing(c) => KindOf(c) = "oauth"
  /\ KindOf(c) # "oauth" /\ secret[c] # 0
       => c \in rows \cup strayed \/ auth[c] \in {"insert", "undo"}
  /\ KindOf(c) # "oauth" /\ Forgetting(c) => secret[c] = 0 \/ c \in strayed

KeyInv == \A c \in Conn : KeyAt(c)

LEMMA KeyInit == Init => KeyInv
<1> SUFFICES ASSUME Init, NEW c \in Conn PROVE KeyAt(c)
  BY DEF KeyInv
<1>1. secret[c] = 0 /\ writes = {}
  BY DEF Init
<1> QED BY <1>1 DEF KeyAt, Writing

LEMMA KeyFrame ==
  ASSUME NEW x \in Conn, KeyAt(x), UNCHANGED kind,
         Writing(x)' => Writing(x), secret'[x] # 0 => secret[x] # 0,
         x \in rows \cup strayed => x \in rows' \cup strayed',
         x \in strayed => x \in strayed',
         auth'[x] = auth[x], Forgetting(x)' => Forgetting(x)
  PROVE  KeyAt(x)'
  BY DEF KeyAt

LEMMA KeyAuth ==
  ASSUME TypeOK, RowInv, KeyInv, NEW c \in Conn, AuthStep(c)
  PROVE  KeyInv'
<1>1. UNCHANGED <<kind, writes, rem>> /\ strayed \subseteq strayed' /\ rows \subseteq rows'
  BY DEF AuthStep, AuthTake, AuthStore, AuthInsert, AuthUndo, syncVars, obsVars
<1>2. \A x \in Conn : (Writing(x)' <=> Writing(x)) /\ (Forgetting(x)' <=> Forgetting(x))
  BY <1>1 DEF Writing, Forgetting
<1>3. \A x \in Conn \ {c} : auth'[x] = auth[x] /\ secret'[x] = secret[x]
  BY DEF TypeOK, AuthStep, AuthTake, AuthStore, AuthInsert, AuthUndo, AuthGoto, Store
<1>4. \A x \in Conn \ {c} : KeyAt(x)'
  BY <1>1, <1>2, <1>3, KeyFrame DEF KeyInv
<1>5. ~Forgetting(c)
  <2>1. auth[c] # "done"
    BY DEF AuthStep, AuthTake, AuthStore, AuthInsert, AuthUndo
  <2> QED BY <2>1 DEF RowInv, Removing, Forgetting
<1>6. secret'[c] # 0 => \/ c \in rows' \cup strayed' \/ auth'[c] \in {"insert", "undo"}
                        \/ secret' = secret /\ auth[c] \in {"idle", "exchange"}
  BY DEF TypeOK, AuthStep, AuthTake, AuthStore, AuthInsert, AuthUndo, AuthGoto, Store
<1>7. KeyAt(c)'
  BY <1>1, <1>2, <1>5, <1>6 DEF KeyInv, KeyAt
<1> QED BY <1>4, <1>7 DEF KeyInv

LEMMA KeySync ==
  ASSUME TypeOK, KeyInv, NEW c \in Conn, SyncStep(c)
  PROVE  KeyInv'
<1>1. UNCHANGED <<kind, auth, rows, secret, rem, strayed>>
  BY DEF SyncStep, SyncLoad, SyncWithout, SyncRotate, SyncRotateLost, SyncTimeout,
         authVars, obsVars
<1>2. \A x \in Conn : Forgetting(x)' <=> Forgetting(x)
  BY <1>1 DEF Forgetting
<1>3. \A x \in Conn : Writing(x)' => Writing(x) \/ KindOf(x) = "oauth"
  BY DEF SyncStep, SyncLoad, SyncWithout, SyncRotate, SyncRotateLost, SyncTimeout,
         Rotates, Writing
<1> QED BY <1>1, <1>2, <1>3 DEF KeyInv, KeyAt

LEMMA KeyWrite ==
  ASSUME TypeOK, KeyInv, NEW c \in Conn, NEW v \in 1..MaxToken, WriteLands(c, v)
  PROVE  KeyInv'
<1>1. UNCHANGED <<kind, auth, rows, rem, strayed>> /\ Writing(c)
  BY DEF WriteLands, authVars, Writing
<1>2. \A x \in Conn : (Forgetting(x)' <=> Forgetting(x)) /\ (Writing(x)' => Writing(x))
  BY <1>1 DEF WriteLands, Writing, Forgetting
<1>3. \A x \in Conn \ {c} : secret'[x] = secret[x]
  BY DEF TypeOK, WriteLands, Store
<1> QED BY <1>1, <1>2, <1>3 DEF KeyInv, KeyAt

LEMMA KeyRemove ==
  ASSUME TypeOK, RowInv, KeyInv, NEW c \in Conn, NEW u \in Caller, RemoveStep(c, u)
  PROVE  KeyInv'
<1>1. UNCHANGED <<kind, auth, writes>> /\ strayed \subseteq strayed'
  BY DEF RemoveStep, RemoveBegin, RemoveSecret, RemoveRow, authVars, syncVars, obsVars
<1>2. \A x \in Conn : Writing(x)' <=> Writing(x)
  BY <1>1 DEF Writing
<1>3. \A x \in Conn \ {c} : KeyAt(x)'
  <2>1. \A x \in Conn \ {c} : /\ Forgetting(x)' <=> Forgetting(x)
                              /\ secret'[x] = secret[x]
                              /\ x \in rows' <=> x \in rows
    BY RemOther DEF Forgetting
  <2> QED BY <1>1, <1>2, <2>1, KeyFrame DEF KeyInv
<1>4. CASE RemoveBegin(c, u)
  <2>1. /\ UNCHANGED <<secret, rows>>
        /\ \/ c \in strayed'
           \/ rem' = rem
           \/ RemGoto(c, u, "disconnect")
    BY <1>4 DEF RemoveBegin
  <2>2. c \in strayed' \/ (Forgetting(c)' => Forgetting(c))
    BY <2>1, RemEffect DEF Forgetting, RemStage
  <2>3. KeyAt(c)'
    BY <1>1, <1>2, <2>1, <2>2 DEF KeyInv, KeyAt
  <2> QED BY <1>3, <2>3 DEF KeyInv
<1>5. CASE RemoveSecret(c, u)
  <2>1. /\ rows' = rows
        /\ \/ secret'[c] = 0
           \/ secret' = secret /\ RemGoto(c, u, "idle")
    BY <1>5 DEF TypeOK, RemoveSecret, Store
  <2>2. secret'[c] = 0 \/ (secret' = secret /\ (Forgetting(c)' => Forgetting(c)))
    BY <2>1, RemEffect DEF Forgetting, RemStage
  <2>3. KeyAt(c)'
    BY <1>1, <1>2, <2>1, <2>2 DEF KeyInv, KeyAt
  <2> QED BY <1>3, <2>3 DEF KeyInv
<1>6. CASE RemoveRow(c, u)
  <2>1. secret' = secret /\ Forgetting(c)
    BY <1>6 DEF RemoveRow, Forgetting
  <2>2. KeyAt(c)'
    BY <1>1, <1>2, <2>1 DEF KeyInv, KeyAt
  <2> QED BY <1>3, <2>2 DEF KeyInv
<1> QED BY <1>4, <1>5, <1>6 DEF RemoveStep

LEMMA KeyCrash ==
  ASSUME TypeOK, KeyInv, Crash
  PROVE  KeyInv'
<1> SUFFICES ASSUME NEW x \in Conn PROVE KeyAt(x)'
  BY DEF KeyInv
<1>1. /\ UNCHANGED <<kind, rows>> /\ strayed \subseteq strayed'
      /\ auth[x] \in {"insert", "undo"} => x \in strayed'
      /\ ~Writing(x)' /\ ~Forgetting(x)'
  BY DEF Crash, Writing, Forgetting
<1>2. secret'[x] = secret[x] \/ Writing(x)
  BY CrashSecrets DEF TypeOK, Writing
<1> QED BY <1>1, <1>2 DEF KeyInv, KeyAt

LEMMA KeyStep ==
  ASSUME TypeOK, OwnInv, RowInv, KeyInv, [Next]_vars
  PROVE  KeyInv'
<1>1. ASSUME NEW h \in Challenge, BeginAuth(h)
      PROVE  KeyInv'
  <2>1. UNCHANGED <<auth, rows, secret, rem, strayed, writes>>
    BY <1>1 DEF BeginAuth, syncVars, obsVars
  <2>2. \A x \in Conn : (Writing(x)' <=> Writing(x)) /\ (Forgetting(x)' <=> Forgetting(x))
    BY <2>1 DEF Writing, Forgetting
  <2>3. \A x \in Conn : KindOf(x)' = KindOf(x) \/ KindOf(x) = "new"
    BY <1>1, LifecycleAssumption DEF BeginAuth, TypeOK
  <2>4. \A x \in Conn : secret[x] # 0 \/ Writing(x) => KindOf(x) # "new"
    BY DEF OwnInv, Owns, Exists
  <2> QED BY <2>1, <2>2, <2>3, <2>4 DEF KeyInv, KeyAt
<1>2. ASSUME UNCHANGED <<kind, auth, rows, secret, rem, strayed, writes>>
      PROVE  KeyInv'
  BY <1>2, KeyFrame DEF KeyInv, Writing, Forgetting
<1>3. CASE UNCHANGED vars
  BY <1>2, <1>3 DEF vars, authVars, syncVars, obsVars
<1>4. ASSUME NEW c \in Conn, AuthStep(c) \/ SyncStep(c)
      PROVE  KeyInv'
  BY <1>4, KeyAuth, KeySync
<1>5. ASSUME NEW c \in Conn, NEW v \in 1..MaxToken, WriteLands(c, v)
      PROVE  KeyInv'
  BY <1>5, KeyWrite
<1>6. ASSUME NEW c \in Conn, StopProxy(c) \/ \E u \in Caller : StartStep(c, u)
      PROVE  KeyInv'
  BY <1>2, <1>6
     DEF StopProxy, StartStep, StartProxy, StartGet, StartCheck, StartSpawn,
         authVars, syncVars, obsVars
<1>7. ASSUME NEW c \in Conn, NEW u \in Caller, RemoveStep(c, u)
      PROVE  KeyInv'
  BY <1>7, KeyRemove
<1> QED BY <1>1, <1>3, <1>4, <1>5, <1>6, <1>7, KeyCrash DEF Next

(* Secrets that are not renewed do not outlive their connection, unless a  *)
(* deletion failed or was never reached.                                   *)
THEOREM KeySecretsGoneHolds == Spec => []KeySecretsGone
<1>1. TypeOK /\ OwnInv /\ [Next]_vars => OwnInv'
  BY OwnStep
<1>2. TypeOK /\ RowInv /\ [Next]_vars => RowInv'
  BY RowStep
<1>3. TypeOK /\ OwnInv /\ RowInv /\ KeyInv /\ [Next]_vars => KeyInv'
  BY KeyStep
<1>4. KeyInv => KeySecretsGone
  BY DEF KeyInv, KeyAt, KeySecretsGone, Quiet
<1> QED BY OwnInit, RowInit, KeyInit, TypeCorrect, <1>1, <1>2, <1>3, <1>4, PTL DEF Spec
=============================================================================
