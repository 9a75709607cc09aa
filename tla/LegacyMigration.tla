---------------------------- MODULE LegacyMigration ----------------------------
(***************************************************************************)
(* The daemon's start: the files of the old XDG layout are moved to the    *)
(* new home, one by one, by a rename or, between two file systems, by a    *)
(* copy and a removal; then the database is opened.  The daemon may be     *)
(* killed between any two steps, a move may fail - which ends the start -, *)
(* and every later start begins again.                                     *)
(*                                                                         *)
(* Of the database only its write-ahead log matters: SQLite applies        *)
(* whatever log it finds beside the file, and removes it when the last     *)
(* connection is closed.                                                   *)
(***************************************************************************)
EXTENDS Naturals

CONSTANTS
  MaxStarts \* bound: starts of the daemon

ASSUME MigrationAssumption == MaxStarts \in Nat

Database == 1
Wal      == 2
Config   == 4
File     == 1..4   \* in the order they are moved; 3 is the shared-memory index

VARIABLES
  old,     \* the files of the old layout: "none" or "whole"
  new,     \* those of the home: "none", "cut", "whole" (the old layout's) or "own"
  oneDisk, \* whether both layouts are on one file system
  step,    \* what the daemon does next: "down", "move", "copy", "remove", "open", "up"
  moving,  \* the file that is being copied
  starts,  \* starts so far
  torn     \* observation: a copy was cut short, or its source stayed behind

migrationVars == <<old, new, oneDisk, step, moving, starts, torn>>

\* Nothing yet, or an old layout that was left with a log or without.
MigrationInit ==
  /\ oneDisk \in BOOLEAN /\ step = "down" /\ moving = Database /\ starts = 0 /\ torn = FALSE
  /\ \/ old = [f \in File |-> "none"] /\ new = [f \in File |-> "none"]
     \/ /\ \E logs, config \in {"none", "whole"} :
             old = [f \in File |-> IF f = Database THEN "whole"
                                   ELSE IF f = Config THEN config ELSE logs]
        /\ new = [f \in File |-> "none"]

\* Variant: a home that has a database is not looked at again.
StartUnlessBegun ==
  /\ step = "down" /\ starts < MaxStarts
  /\ step' = IF new[Database] = "none" THEN "move" ELSE "open"
  /\ starts' = starts + 1 /\ UNCHANGED <<old, new, oneDisk, moving, torn>>

StartDaemon ==
  /\ step = "down" /\ starts < MaxStarts /\ step' = "move" /\ starts' = starts + 1
  /\ UNCHANGED <<old, new, oneDisk, moving, torn>>

\* migrate_legacy_layout: a file that is there and has no namesake in the home.
Movable  == {f \in File : old[f] = "whole" /\ new[f] = "none"}
NextMove == CHOOSE f \in Movable : \A g \in Movable : f <= g

\* move_file
Rename ==
  /\ step = "move" /\ Movable # {} /\ oneDisk
  /\ old' = [old EXCEPT ![NextMove] = "none"] /\ new' = [new EXCEPT ![NextMove] = "whole"]
  /\ UNCHANGED <<oneDisk, step, moving, starts, torn>>

BeginCopy ==
  /\ step = "move" /\ Movable # {} /\ ~oneDisk
  /\ step' = "copy" /\ moving' = NextMove /\ new' = [new EXCEPT ![NextMove] = "cut"]
  /\ UNCHANGED <<old, oneDisk, starts, torn>>

EndCopy ==
  /\ step = "copy" /\ step' = "remove" /\ new' = [new EXCEPT ![moving] = "whole"]
  /\ UNCHANGED <<old, oneDisk, moving, starts, torn>>

RemoveSource ==
  /\ step = "remove" /\ step' = "move" /\ old' = [old EXCEPT ![moving] = "none"]
  /\ UNCHANGED <<new, oneDisk, moving, starts, torn>>

\* Nothing is left to move: the old directories go when they are empty.
EndMigration ==
  /\ step = "move" /\ Movable = {} /\ step' = "open"
  /\ UNCHANGED <<old, new, oneDisk, moving, starts, torn>>

\* Repository::open makes the database that is missing, and opens a log.
OpenDatabase ==
  /\ step = "open" /\ step' = "up"
  /\ new' = [f \in File |-> IF new[f] = "none" /\ f # Config THEN "own" ELSE new[f]]
  /\ UNCHANGED <<old, oneDisk, moving, starts, torn>>

\* run returns with an error: the log is in the database, and goes.
CloseDatabase ==
  /\ step = "up" /\ step' = "down"
  /\ new' = [f \in File |-> IF f \in {Database, Config} THEN new[f] ELSE "none"]
  /\ UNCHANGED <<old, oneDisk, moving, starts, torn>>

\* A step fails, or the daemon is killed, while it starts or when it is up.
Interrupt ==
  /\ step # "down" /\ step' = "down" /\ torn' = (torn \/ step \in {"copy", "remove"})
  /\ UNCHANGED <<old, new, oneDisk, moving, starts>>

MigrationNext ==
  \/ StartDaemon \/ Rename \/ BeginCopy \/ EndCopy \/ RemoveSource
  \/ EndMigration \/ OpenDatabase \/ CloseDatabase \/ Interrupt

MigrationSpec == MigrationInit /\ [][MigrationNext]_migrationVars

-----------------------------------------------------------------------------
\* Wherever the daemon was stopped before, the database it opens is whole and has
\* the log it was left with, none of it having stayed in the old layout, unless a
\* copy between two file systems was interrupted (runner.rs:161-207).
OpensWithItsLog ==
  step = "up" /\ ~torn =>
    /\ \A f \in File : new[f] # "cut"
    /\ old[Database] = "none" /\ old[Wal] = "none"
    /\ new[Wal] = "whole" => new[Database] = "whole"
=============================================================================
