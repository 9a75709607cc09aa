------------------------------- MODULE MCBoundary ------------------------------
(* Small instances of the nine components that meet what lies outside the  *)
(* daemon: providers, files, processes, the network, the user.  They share *)
(* no state; one of them runs in each behaviour, and part says which.      *)
EXTENDS AdminPull, RelayStream, CodexLog, LegacyMigration, KimiLogin, AppServer,
        RelayPull, DesktopSetup, SnapshotView

CONSTANTS w1, w2

VARIABLE part

boundaryVars ==
  <<pullVars, streamVars, codexVars, migrationVars, loginVars, appVars, relayVars,
    setupVars, viewVars, part>>

\* Everything, with one quota almost used; one window alone, and the credits; the other
\* window and one day; a ratio out of range
MCBatch ==
  {[figures |-> fs, credits |-> cr] : <<fs, cr>> \in
     {<<(w1 :> 4) @@ (w2 :> 900) @@ (1 :> 1) @@ (2 :> 3), TRUE>>, <<w1 :> 195, TRUE>>,
      <<(w2 :> 194) @@ (1 :> 2), FALSE>>, <<w2 :> -10, TRUE>>}}

Part == {"pull", "stream", "codex", "migration", "login", "app", "relay", "setup", "view"}

\* Of several initial states of a component that does not run, one is enough.
Still(p, init, one) == init /\ (part = p \/ one)

BoundaryInit ==
  /\ part \in Part
  /\ PullInit /\ StreamInit /\ CodexInit /\ LoginInit /\ RelayInit /\ ViewInit
  /\ Still("migration", MigrationInit, oneDisk /\ old[Database] = "none")
  /\ Still("app", AppInit, flow = "sync")
  /\ Still("setup", SetupInit, widgets = <<Other>>)

Pull      == part = "pull" /\ PullNext
Stream    == part = "stream" /\ StreamNext
Codex     == part = "codex" /\ CodexNext
Migration == part = "migration" /\ MigrationNext
Login     == part = "login" /\ LoginNext
App       == part = "app" /\ AppNext
Relay     == part = "relay" /\ RelayNext
Setup     == part = "setup" /\ SetupNext
View      == part = "view" /\ ViewNext

\* Whatever the part that runs does, the others keep their variables.
BoundaryNext ==
  /\ UNCHANGED part
  /\ \/ Pull      /\ UNCHANGED <<streamVars, codexVars, migrationVars, loginVars, appVars,
                                 relayVars, setupVars, viewVars>>
     \/ Stream    /\ UNCHANGED <<pullVars, codexVars, migrationVars, loginVars, appVars,
                                 relayVars, setupVars, viewVars>>
     \/ Codex     /\ UNCHANGED <<pullVars, streamVars, migrationVars, loginVars, appVars,
                                 relayVars, setupVars, viewVars>>
     \/ Migration /\ UNCHANGED <<pullVars, streamVars, codexVars, loginVars, appVars,
                                 relayVars, setupVars, viewVars>>
     \/ Login     /\ UNCHANGED <<pullVars, streamVars, codexVars, migrationVars, appVars,
                                 relayVars, setupVars, viewVars>>
     \/ App       /\ UNCHANGED <<pullVars, streamVars, codexVars, migrationVars, loginVars,
                                 relayVars, setupVars, viewVars>>
     \/ Relay     /\ UNCHANGED <<pullVars, streamVars, codexVars, migrationVars, loginVars,
                                 appVars, setupVars, viewVars>>
     \/ Setup     /\ UNCHANGED <<pullVars, streamVars, codexVars, migrationVars, loginVars,
                                 appVars, relayVars, viewVars>>
     \/ View      /\ UNCHANGED <<pullVars, streamVars, codexVars, migrationVars, loginVars,
                                 appVars, relayVars, setupVars>>

BoundarySpec == BoundaryInit /\ [][BoundaryNext]_boundaryVars
=============================================================================
