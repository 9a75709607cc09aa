------------------------------ MODULE DesktopSetup -----------------------------
(***************************************************************************)
(* The CLI's desktop integration: setup, post_update and the autostart     *)
(* switch.  Each is a sequence of steps on the user's configuration files, *)
(* the shell that shows the bar and the systemd user manager.  Any step    *)
(* may fail, which ends the command, and the command may be killed between *)
(* two steps; nothing is undone, and a later command begins again.  The    *)
(* shell rewrites its settings file whenever the user changes something.   *)
(*                                                                         *)
(* A file is written under another name and renamed, and only when it      *)
(* changes; so of each file only its content matters.                      *)
(***************************************************************************)
EXTENDS Naturals, Sequences, FiniteSets, SequencesExt

CONSTANTS
  NewVersion, \* of the CLI and the daemon, after MaxUpdates updates
  MaxEdits,   \* bound: what the user and the shell change
  MaxRuns     \* bound: commands

ASSUME SetupAssumption == NewVersion \in Nat /\ MaxEdits \in Nat /\ MaxRuns \in Nat

Ours   == "llm-meter"  \* the bar widget of this program, in settings.json
Legacy == "older"      \* the widget an older release has put there
Other  == "other"      \* one of the user's

VARIABLES
  version,   \* what cargo has installed
  rules,     \* the rules file of Hyprland: its version, 0 if there is none
  required,  \* how many lines of hyprland's root file require it
  assets,    \* the plugin's files: their version, 0 if there are none
  widgets,   \* settings.json: the bar's right-hand widgets
  plugin,    \* plugins.json: whether the plugin is enabled
  unit,      \* the service file: its version, and the one the manager has loaded
  enabled, active, \* the manager's answers about the service
  command,   \* the command under way: its kind, the steps left, what it has read
  edits, runs,
  shared     \* observation: others have changed the files during a command

files     == <<rules, required, assets, widgets, plugin>>
manager   == <<unit, enabled, active>>
setupVars == <<version, files, manager, command, edits, runs, shared>>

SetupSteps  == <<"rules", "root", "read", "assets", "settings", "plugins",
                 "unit", "reload", "enable">>
UpdateSteps == <<"status", "rules", "root", "read", "assets", "settings", "plugins",
                 "unit", "reload", "restart">>
EnableSteps == <<"unit", "reload", "enable">>
NoCommand   == [kind |-> "none", todo |-> <<>>, saw |-> <<>>, wasActive |-> FALSE]

\* Hyprland and Noctalia are there (preflight); nothing of ours is.
SetupInit ==
  /\ version = 1 /\ rules = 0 /\ required = 0 /\ assets = 0
  /\ widgets \in {<<Other>>, <<Other, Legacy>>} /\ plugin = FALSE
  /\ unit = [file |-> 0, loaded |-> 0] /\ enabled = FALSE /\ active = FALSE
  /\ command = NoCommand /\ edits = 0 /\ runs = 0 /\ shared = FALSE

-----------------------------------------------------------------------------
(* Commands begin: run, post_update - by the new executable -, set_autostart. *)

Begin(kind, steps) ==
  /\ command = NoCommand /\ runs < MaxRuns /\ runs' = runs + 1
  /\ command' = [NoCommand EXCEPT !.kind = kind, !.todo = steps]
  /\ shared' = FALSE /\ UNCHANGED <<files, manager, edits>>

BeginSetup  == Begin("setup", SetupSteps) /\ UNCHANGED version
BeginUpdate ==
  /\ version < NewVersion /\ version' = version + 1 /\ Begin("update", UpdateSteps)
\* A service that is neither enabled nor active is left alone.
BeginSwitch ==
  /\ UNCHANGED version
  /\ \/ Begin("autostart on", EnableSteps)
     \/ (enabled \/ active) /\ Begin("autostart off", <<"disable">>)

At(step) == command.todo # <<>> /\ Head(command.todo) = step
Advance  == command' = [command EXCEPT !.todo = Tail(@)]

-----------------------------------------------------------------------------
(* The steps.                                                              *)

\* post_update: autostart_status, before anything else.
ReadStatus ==
  /\ At("status") /\ command' = [command EXCEPT !.todo = Tail(@), !.wasActive = active]
  /\ UNCHANGED <<version, files, manager, edits, runs, shared>>

\* install_hyprland: the rules, and append_once.
AppendOnce(lines)   == IF lines > 0 THEN lines ELSE 1

WriteRules ==
  /\ At("rules") /\ Advance /\ rules' = version
  /\ UNCHANGED <<version, required, assets, widgets, plugin, manager, edits, runs, shared>>

RequireRules ==
  /\ At("root") /\ Advance /\ required' = AppendOnce(required)
  /\ UNCHANGED <<version, rules, assets, widgets, plugin, manager, edits, runs, shared>>

\* install_noctalia: both files are read before the assets are written.
ReadSettings ==
  /\ At("read") /\ command' = [command EXCEPT !.todo = Tail(@), !.saw = widgets]
  /\ UNCHANGED <<version, files, manager, edits, runs, shared>>

WriteAssets ==
  /\ At("assets") /\ Advance /\ assets' = version
  /\ UNCHANGED <<version, rules, required, widgets, plugin, manager, edits, runs, shared>>

\* The widget goes to the front; what it was before, and an older release's, go.
\* Variant: it is put in front of whatever is there.
PutInFront(list) == <<Ours>> \o list
WithWidget(list) ==
  FoldLeft(LAMBDA kept, w : IF w \in {Ours, Legacy} THEN kept ELSE Append(kept, w), <<Ours>>, list)

WriteSettings ==
  /\ At("settings") /\ Advance /\ widgets' = WithWidget(command.saw)
  /\ UNCHANGED <<version, rules, required, assets, plugin, manager, edits, runs, shared>>

\* Then a shell that runs is restarted or told to reload, or that fails: it is told.
EnablePlugin ==
  /\ At("plugins") /\ Advance /\ plugin' = TRUE
  /\ UNCHANGED <<version, rules, required, assets, widgets, manager, edits, runs, shared>>

\* write_daemon_service, systemctl daemon-reload.
WriteUnit ==
  /\ At("unit") /\ Advance /\ unit' = [unit EXCEPT !.file = version]
  /\ UNCHANGED <<version, files, enabled, active, edits, runs, shared>>

ReloadManager ==
  /\ At("reload") /\ Advance /\ unit' = [unit EXCEPT !.loaded = unit.file]
  /\ UNCHANGED <<version, files, enabled, active, edits, runs, shared>>

\* systemctl enable --now, disable --now.
SwitchService ==
  \E on \in BOOLEAN :
    /\ At(IF on THEN "enable" ELSE "disable") /\ Advance
    /\ enabled' = on /\ active' = on
    /\ UNCHANGED <<version, files, unit, edits, runs, shared>>

\* systemctl restart, which also starts a service that has stopped meanwhile.
RestartService ==
  /\ At("restart") /\ Advance
  /\ active' = (active \/ command.wasActive)
  /\ UNCHANGED <<version, files, unit, enabled, edits, runs, shared>>

EndCommand ==
  /\ command # NoCommand /\ command.todo = <<>> /\ command' = NoCommand
  /\ UNCHANGED <<version, files, manager, edits, runs, shared>>

\* A step fails, or the command is killed.
Abort ==
  /\ command.todo # <<>> /\ command' = NoCommand
  /\ UNCHANGED <<version, files, manager, edits, runs, shared>>

\* The user, or the shell for him, moves, adds or removes widgets, disables the
\* plugin, or stops the service.
Edit ==
  /\ edits < MaxEdits /\ edits' = edits + 1 /\ shared' = (shared \/ command # NoCommand)
  /\ \/ /\ \E list \in {<<Other, Other>>, <<Other, Ours>>, <<Other>>} : widgets' = list
        /\ UNCHANGED <<plugin, active>>
     \/ plugin /\ plugin' = FALSE /\ UNCHANGED <<widgets, active>>
     \/ active /\ active' = FALSE /\ UNCHANGED <<widgets, plugin>>
  /\ UNCHANGED <<version, rules, required, assets, unit, enabled, command, runs>>

SetupNext ==
  \/ BeginSetup \/ BeginUpdate \/ BeginSwitch \/ ReadStatus \/ WriteRules \/ RequireRules
  \/ ReadSettings \/ WriteAssets \/ WriteSettings \/ EnablePlugin \/ WriteUnit
  \/ ReloadManager \/ SwitchService \/ RestartService \/ EndCommand \/ Abort \/ Edit

SetupSpec == SetupInit /\ [][SetupNext]_setupVars

-----------------------------------------------------------------------------
\* However often commands were aborted before, a setup or an update that reaches its
\* end leaves everything of the installed version in place, once, the user's widgets
\* where they are, and the autostart as the command is to leave it: a setup's on, an
\* update's service running only if it ran before (setup.rs:48-150, 262-475).
CommandsConverge ==
  command.kind \in {"setup", "update"} /\ command.todo = <<>> /\ ~shared =>
    /\ rules = version /\ assets = version /\ required = 1 /\ plugin
    /\ Cardinality({i \in DOMAIN widgets : widgets[i] = Ours}) = 1 /\ ~Contains(widgets, Legacy)
    /\ Contains(widgets, Other)
    /\ unit = [file |-> version, loaded |-> version]
    /\ command.kind = "setup" => enabled /\ active
    /\ command.kind = "update" => active = command.wasActive
=============================================================================
