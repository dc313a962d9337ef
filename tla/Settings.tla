------------------------------- MODULE Settings -------------------------------
(***************************************************************************)
(* What the operator changes without editing code, and who acts on it:     *)
(*   gui_settings.py        validates, checks and stores the values;       *)
(*   flask_app/app.py       /settings and /campaign/apply call it, in as   *)
(*                          many threads as there are browsers;            *)
(*   mem_guardian.py        takes its thresholds from it as it starts;     *)
(*   run_config_beam.py     takes plan and voltages from it, key after     *)
(*                          key, each time a run is prepared;              *)
(*   the services           take the data directory from it at their start.*)
(* And the stand itself: the entries that /setup/entry adds to the setup   *)
(* file and commits.                                                       *)
(*                                                                         *)
(* A site without beam, one detector.  Guardian, voltages, campaign and    *)
(* stand have nothing in common but the files they are in: a behaviour     *)
(* changes the settings of one of them, its topic.                         *)
(***************************************************************************)
EXTENDS Integers, Sequences, SequencesExt

CONSTANTS
    Browsers,       \* that may save at the same time
    SERVICES,       \* tmux sessions a campaign restarts, in that order
    Dirs, DATA_DIR, \* data directories, the one of the code
    Volts, MaxVolt, \* a detector's voltages, in steps
    Layouts,        \* what an entry may say of the stand
    MaxSaves,       \* bound: the saves begun
    Unset           \* a setting left to the code's default

ASSUME SettingsAssumption ==
    /\ DATA_DIR \in Dirs /\ SERVICES \in Seq(STRING)
    /\ {MaxVolt, MaxSaves} \subseteq Nat /\ Volts \subseteq 0 .. MaxVolt
    /\ "campaign" \notin Browsers

VARIABLES
    topic,
    file,       \* config/gui_settings.json: key -> value or Unset
    saver,      \* the calls of gui_settings.save under way
    saves,
    overlapped, \* history: a save wrote over another's, or two entries crossed
    guardian,   \* mem_guardian.py
    biggest,    \* the biggest process it may kill: runs or not
    stand,      \* the setup file: its ceilings, readable or not
    planner,    \* run_config_beam.py preparing a run
    planned,    \* config/json_run_configs/run_config_beam.json
    service,    \* the directory each works in, or "off"
    pane,       \* what its tmux pane runs: python itself, or a shell that does
    restarting, \* what campaign_apply has still to restart
    cut,        \* history: it, or an entry, never came to its end
    run,        \* the directory of the run under way, or "idle"
    setup,      \* entries in the setup file, as committed, as answered
    entrant     \* the calls of /setup/entry under way

save_vars     == <<topic, file, saver, saves, overlapped>>
guardian_vars == <<guardian, biggest>>
plan_vars     == <<stand, planner, planned>>
campaign_vars == <<service, pane, restarting, cut, run>>
stand_vars    == <<setup, entrant>>
settings_vars == <<save_vars, guardian_vars, plan_vars, campaign_vars, stand_vars>>

Savers == Browsers \cup {"campaign"}

------------------------------------------------------------------------------
(* Values and checks.                                                      *)

(* What coerce lets through, at the scale that matters here: a kill        *)
(* threshold may by itself reach the warn threshold, a voltage any ceiling.*)
SCHEMA ==
    [kill |-> {1, 2}, warn |-> {2, 3},
     plan |-> {"lab_source", "config_scan", "hv_scan", "mesh_then_drift"},
     start |-> Volts, mesh |-> Volts, drift |-> Volts, dir |-> Dirs]
Default ==
    [kill |-> 1, warn |-> 2, plan |-> "config_scan", start |-> 1, mesh |-> 1,
     drift |-> MaxVolt - 1, dir |-> DATA_DIR]
Keys == DOMAIN SCHEMA
KeysOf == [guardian |-> {"kill", "warn"}, voltages |-> {"plan", "start", "mesh", "drift"},
           campaign |-> {"plan"}, stand |-> {}]

ValueIn(f, k) == IF f[k] = Unset THEN Default[k] ELSE f[k]
effective == [k \in Keys |-> ValueIn(file, k)]

(* dict.update                                                             *)
Merged(f, changes) ==
    [k \in DOMAIN f \cup DOMAIN changes |-> IF k \in DOMAIN changes THEN changes[k] ELSE f[k]]

One(t) == UNION {[{k} -> SCHEMA[k] \cup {Unset}] : k \in KeysOf[t]}
Pairs(t) == {Merged(a, b) : a \in One(t), b \in One(t)}
Changes(t) == IF t = "voltages" THEN One(t) ELSE Pairs(t)   \* bound: voltages one by one

(* ceilings: <<>> when the stand could not be read.                        *)
check_together(vals, ceilings) ==
    /\ vals.plan # "mesh_then_drift"
    /\ vals.warn > vals.kill
    /\ vals.drift >= vals.mesh
    /\ ceilings # <<>> =>
          /\ vals.plan = "hv_scan" => vals.start <= ceilings.mesh
          /\ vals.mesh <= ceilings.mesh /\ vals.drift <= ceilings.drift

SettingsInit ==
    /\ topic \in DOMAIN KeysOf
    /\ file = [k \in Keys |-> Unset]
    /\ saver = [s \in Savers |-> [pc |-> "idle"]] /\ saves = 0 /\ overlapped = FALSE
    /\ guardian = [pc |-> "down"] /\ biggest = "none"
    /\ stand = [ceilings |-> [mesh |-> MaxVolt - 1, drift |-> MaxVolt], readable |-> TRUE]
    /\ planner = [pc |-> "idle"] /\ planned = <<>>
    /\ service = [i \in DOMAIN SERVICES |-> "off"]
    /\ pane = [i \in DOMAIN SERVICES |-> "python"] /\ restarting = [pc |-> "none"]
    /\ cut = FALSE /\ run = "idle"
    /\ LET first == <<CHOOSE l \in Layouts : TRUE>>
       IN  setup = [text |-> first, committed |-> first, told |-> first]
    /\ entrant = [b \in Browsers |-> [pc |-> "idle"]]

------------------------------------------------------------------------------
(* gui_settings.save.                                                      *)

(* POST /settings: the changes are checked together with what is in force; *)
(* those that change nothing are dropped.                                  *)
SaveBegins(s, changes) ==
    /\ saver[s].pc = "idle"
    /\ saves < MaxSaves /\ saves' = saves + 1
    /\ LET new == [k \in DOMAIN changes |-> IF changes[k] = Unset THEN Default[k] ELSE changes[k]]
           applied == {k \in DOMAIN changes : changes[k] # file[k]}
       IN  /\ check_together(Merged(effective, new),
                             IF stand.readable THEN stand.ceilings ELSE <<>>)
           /\ applied # {}
           /\ saver' = [saver EXCEPT ![s] = [pc |-> "checked",
                                             changes |-> [k \in applied |-> changes[k]]]]
    /\ UNCHANGED <<topic, file, overlapped, guardian_vars, plan_vars, campaign_vars, stand_vars>>

SaveReads(s) ==
    /\ saver[s].pc = "checked"
    /\ saver' = [saver EXCEPT ![s] = [pc |-> "read", changes |-> saver[s].changes,
                                      data |-> file]]
    /\ UNCHANGED <<topic, file, saves, overlapped, guardian_vars, plan_vars, campaign_vars,
                   stand_vars>>

(* The whole file is replaced, with all that was read into it.             *)
SaveWrites(s) ==
    /\ saver[s].pc = "read"
    /\ file' = Merged(saver[s].data, saver[s].changes)
    /\ saver' = [saver EXCEPT ![s] = [pc |-> "idle"]]
    /\ overlapped' = (overlapped \/ saver[s].data # file)
    /\ restarting' = IF s = "campaign" THEN [pc |-> "stop", i |-> 1] ELSE restarting
    /\ UNCHANGED <<topic, saves, guardian_vars, plan_vars, service, pane, cut, run, stand_vars>>

EntriesDropped == entrant' = [b \in Browsers |-> [pc |-> "idle"]]

(* The GUI dies or is restarted, with all its threads.                     *)
GuiRestarted ==
    /\ saver' = [s \in Savers |-> [pc |-> "idle"]]
    /\ cut' = (cut \/ restarting.pc # "none" \/ \E b \in Browsers : entrant[b].pc = "written")
    /\ restarting' = [pc |-> "none"]
    /\ EntriesDropped
    /\ UNCHANGED <<topic, file, saves, overlapped, guardian_vars, plan_vars, service, pane, run,
                   setup>>

------------------------------------------------------------------------------
(* mem_guardian.py.                                                        *)

GuardianReads ==
    /\ topic = "guardian" /\ guardian.pc = "down"
    /\ guardian' = [pc |-> "starting", kill |-> ValueIn(file, "kill")]
    /\ UNCHANGED <<save_vars, biggest, plan_vars, campaign_vars, stand_vars>>

(* Two reads of the file, two savers: what comes together was perhaps      *)
(* never checked together, and is looked at again.                         *)
\* Mutant of Thresholds: what was saved has been checked.
ThresholdsAsSaved(kill, warn) == [kill |-> kill, warn |-> warn]
Thresholds(kill, warn) ==
    IF warn > kill THEN [kill |-> kill, warn |-> warn]
    ELSE [kill |-> Default.kill, warn |-> Default.warn]

GuardianStarts ==
    /\ guardian.pc = "starting"
    /\ LET t == Thresholds(guardian.kill, ValueIn(file, "warn"))
       IN  guardian' = [pc |-> "up", warned |-> FALSE, kill |-> t.kill, warn |-> t.warn]
    /\ UNCHANGED <<save_vars, biggest, plan_vars, campaign_vars, stand_vars>>

GuardianPolls(avail) ==
    /\ guardian.pc = "up"
    /\ guardian' =
          IF avail < guardian.kill
          THEN [guardian EXCEPT !.warned = FALSE,
                                !.pc = IF biggest = "running" THEN "kills" ELSE "up"]
          ELSE [guardian EXCEPT !.warned = (avail < guardian.warn)]
    /\ UNCHANGED <<save_vars, biggest, plan_vars, campaign_vars, stand_vars>>

(* SIGTERM, SIGKILL three seconds later, and time for memory to come back. *)
GuardianKills ==
    /\ guardian.pc = "kills"
    /\ biggest' = "none" /\ guardian' = [guardian EXCEPT !.pc = "up"]
    /\ UNCHANGED <<save_vars, plan_vars, campaign_vars, stand_vars>>

GuardianDies ==
    /\ guardian.pc # "down"
    /\ guardian' = [pc |-> "down"]
    /\ UNCHANGED <<save_vars, biggest, plan_vars, campaign_vars, stand_vars>>

JobStartsOrEnds ==
    /\ topic = "guardian"
    /\ biggest' = IF biggest = "none" THEN "running" ELSE "none"
    /\ UNCHANGED <<save_vars, guardian, plan_vars, campaign_vars, stand_vars>>

------------------------------------------------------------------------------
(* run_config_beam.py.                                                     *)

(* The setup file is edited by hand, and for a while it may not parse.     *)
SetupEdited ==
    /\ topic = "voltages"
    /\ \/ stand' = [stand EXCEPT !.readable = ~@]
       \/ /\ stand.readable
          /\ \E m \in {MaxVolt - 2, MaxVolt - 1} : stand' = [stand EXCEPT !.ceilings.mesh = m]
    /\ UNCHANGED <<save_vars, guardian_vars, planner, planned, campaign_vars, stand_vars>>

PlannerLoads ==
    /\ topic = "voltages" /\ planner.pc = "idle" /\ stand.readable
    /\ planner' = [pc |-> "reads", ceilings |-> stand.ceilings, got |-> <<>>]
    /\ UNCHANGED <<save_vars, guardian_vars, stand, planned, campaign_vars, stand_vars>>

ReadInOrder == <<"plan", "start", "mesh", "drift">>
PlannerReads ==
    /\ planner.pc = "reads" /\ Len(planner.got) < Len(ReadInOrder)
    /\ planner' = [planner EXCEPT
                     !.got = Append(@, ValueIn(file, ReadInOrder[Len(planner.got) + 1]))]
    /\ UNCHANGED <<save_vars, guardian_vars, stand, planned, campaign_vars, stand_vars>>

(* A scan steps the mesh from its first point and takes the drift along;   *)
(* the other plans are at the operating point.                             *)
SubRunHV(plan, start, mesh, drift) ==
    IF plan = "hv_scan" THEN [mesh |-> start, drift |-> start + drift - mesh]
    ELSE [mesh |-> mesh, drift |-> drift]

Within(v, ceilings) ==
    v.mesh \in 0 .. ceilings.mesh /\ v.drift \in 0 .. ceilings.drift

(* _operating_hvs takes the operating point as it is; the other plans go   *)
(* through _scan_hvs, which asserts the ceilings.  A plan refused leaves   *)
(* the last one in its place.                                              *)
\* Mutant of Accepted: the settings were checked when they were saved.
AcceptedAsSaved(plan, v, ceilings) == plan # "mesh_then_drift"
Accepted(plan, v, ceilings) ==
    /\ plan # "mesh_then_drift"
    /\ plan # "lab_source" => Within(v, ceilings)

PlannerWrites ==
    /\ planner.pc = "reads" /\ Len(planner.got) = Len(ReadInOrder)
    /\ LET plan == planner.got[1]
           v == SubRunHV(plan, planner.got[2], planner.got[3], planner.got[4])
       IN  planned' = IF Accepted(plan, v, planner.ceilings)
                      THEN [plan |-> plan, volts |-> v, ceilings |-> planner.ceilings]
                      ELSE planned
    /\ planner' = [pc |-> "idle"]
    /\ UNCHANGED <<save_vars, guardian_vars, stand, campaign_vars, stand_vars>>

------------------------------------------------------------------------------
(* campaign_apply.                                                         *)

CampaignApplies(dir) ==
    /\ topic = "campaign" /\ run = "idle"
    /\ saver["campaign"].pc = "idle" /\ restarting.pc = "none"
    /\ saves < MaxSaves /\ saves' = saves + 1
    /\ dir # ValueIn(file, "dir")
    /\ saver' = [saver EXCEPT !["campaign"] = [pc |-> "checked",
                                               changes |-> [k \in {"dir"} |-> dir]]]
    /\ UNCHANGED <<topic, file, overlapped, guardian_vars, plan_vars, campaign_vars, stand_vars>>

\* Mutant of Stopped: a restart that only starts, and finds the old one there.
StoppedNot(i) == service
Stopped(i) == [service EXCEPT ![i] = "off"]
Started(i) == [service EXCEPT ![i] = IF @ = "off" THEN ValueIn(file, "dir") ELSE @]

(* Some are restarted by the command line of the first child of the pane,  *)
(* and passed over when that is not python: a service that start_tmux.sh   *)
(* typed into a shell is such a child, one that is the pane's own process  *)
(* has none.  The others have a route to stop them and one to start them.  *)
CAMPAIGN_RESTART_SESSIONS == {"vmm_prune", "vmm_logbook", "vmm_rate_guard", "vmm_capture_guard"}
PassedOver(i) == SERVICES[i] \in CAMPAIGN_RESTART_SESSIONS /\ pane[i] = "python"

RestartStops ==
    /\ restarting.pc = "stop" /\ restarting.i \in DOMAIN SERVICES
    /\ IF service[restarting.i] = "off" \/ PassedOver(restarting.i)
       THEN restarting' = [restarting EXCEPT !.i = @ + 1] /\ UNCHANGED service
       ELSE restarting' = [restarting EXCEPT !.pc = "start"] /\ service' = Stopped(restarting.i)
    /\ UNCHANGED <<save_vars, guardian_vars, plan_vars, pane, cut, run, stand_vars>>

(* As it ran before.                                                       *)
RestartStarts ==
    /\ restarting.pc = "start"
    /\ service' = Started(restarting.i)
    /\ restarting' = [pc |-> "stop", i |-> restarting.i + 1]
    /\ UNCHANGED <<save_vars, guardian_vars, plan_vars, pane, cut, run, stand_vars>>

(* The GUI itself comes last, from a shell of its own.                     *)
RestartsGui ==
    /\ restarting.pc = "stop" /\ restarting.i \notin DOMAIN SERVICES
    /\ restarting' = [pc |-> "none"]
    /\ saver' = [s \in Savers |-> [pc |-> "idle"]]
    /\ EntriesDropped
    /\ UNCHANGED <<topic, file, saves, overlapped, guardian_vars, plan_vars, service, pane, cut,
                   run, setup>>

(* By start_servers.sh, or by the line in the service's own description.   *)
ServiceStarts(i) ==
    /\ topic = "campaign" /\ service[i] = "off"
    /\ service' = Started(i)
    /\ \E p \in IF SERVICES[i] \in CAMPAIGN_RESTART_SESSIONS THEN {"shell", "python"}
                ELSE {"python"} :
          pane' = [pane EXCEPT ![i] = p]
    /\ UNCHANGED <<save_vars, guardian_vars, plan_vars, restarting, cut, run, stand_vars>>

ServiceStops(i) ==
    /\ service[i] # "off"
    /\ service' = [service EXCEPT ![i] = "off"]
    /\ UNCHANGED <<save_vars, guardian_vars, plan_vars, pane, restarting, cut, run, stand_vars>>

RunStartsOrEnds ==
    /\ topic \in {"campaign", "stand"}
    /\ run' = IF run = "idle" THEN ValueIn(file, "dir") ELSE "idle"
    /\ UNCHANGED <<save_vars, guardian_vars, plan_vars, service, pane, restarting, cut,
                   stand_vars>>

------------------------------------------------------------------------------
(* /setup/entry.                                                           *)

(* Refused while a run takes data; when nothing differs from the stand in  *)
(* force; and the whole file, the new entry last, is prepared.             *)
EntryPrepared(b, layout) ==
    /\ topic = "stand" /\ entrant[b].pc = "idle" /\ run = "idle"
    /\ saves < MaxSaves /\ saves' = saves + 1
    /\ layout # Last(setup.text)
    /\ entrant' = [entrant EXCEPT ![b] = [pc |-> "prepared", layout |-> layout,
                                           from |-> setup.text]]
    /\ overlapped' = (overlapped \/ \E c \in Browsers : entrant[c].pc # "idle")
    /\ UNCHANGED <<topic, file, saver, guardian_vars, plan_vars, campaign_vars, setup>>

EntryWritten(b) ==
    /\ entrant[b].pc = "prepared"
    /\ setup' = [setup EXCEPT !.text = Append(entrant[b].from, entrant[b].layout)]
    /\ entrant' = [entrant EXCEPT ![b] = [pc |-> "written", layout |-> entrant[b].layout]]
    /\ UNCHANGED <<save_vars, guardian_vars, plan_vars, campaign_vars>>

(* git commit takes the file as it is by now.                              *)
EntryCommitted(b) ==
    /\ entrant[b].pc = "written" /\ setup.text # setup.committed
    /\ setup' = [setup EXCEPT !.committed = setup.text, !.told = Append(@, entrant[b].layout)]
    /\ entrant' = [entrant EXCEPT ![b] = [pc |-> "idle"]]
    /\ UNCHANGED <<save_vars, guardian_vars, plan_vars, campaign_vars>>

\* Mutant of Restored: the answer says so, the file stays.
RestoredNot == setup.text
Restored == setup.committed

(* The commit fails, or there is nothing to commit: git checkout brings    *)
(* the file back, and nobody looks whether it did.                         *)
EntryRefused(b) ==
    /\ entrant[b].pc = "written"
    /\ \/ setup' = [setup EXCEPT !.text = Restored] /\ UNCHANGED cut
       \/ UNCHANGED setup /\ cut' = TRUE
    /\ entrant' = [entrant EXCEPT ![b] = [pc |-> "idle"]]
    /\ UNCHANGED <<save_vars, guardian_vars, plan_vars, service, pane,
                   restarting, run>>

SettingsNext ==
    \/ \E s \in Browsers : \E ch \in Changes(topic) : SaveBegins(s, ch)
    \/ \E s \in Savers : SaveReads(s)
    \/ \E s \in Savers : SaveWrites(s)
    \/ GuiRestarted
    \/ GuardianReads \/ GuardianStarts \/ GuardianKills \/ GuardianDies \/ JobStartsOrEnds
    \/ \E avail \in 0 .. 3 : GuardianPolls(avail)
    \/ SetupEdited \/ PlannerLoads \/ PlannerReads \/ PlannerWrites
    \/ \E d \in Dirs : CampaignApplies(d)
    \/ RestartStops \/ RestartStarts \/ RestartsGui
    \/ \E i \in DOMAIN SERVICES : ServiceStarts(i)
    \/ \E i \in DOMAIN SERVICES : ServiceStops(i)
    \/ RunStartsOrEnds
    \/ \E b \in Browsers : \E l \in Layouts : EntryPrepared(b, l)
    \/ \E b \in Browsers : EntryWritten(b)
    \/ \E b \in Browsers : EntryCommitted(b)
    \/ \E b \in Browsers : EntryRefused(b)

SettingsSpec == SettingsInit /\ [][SettingsNext]_settings_vars

------------------------------------------------------------------------------
(* Properties.                                                             *)

(* Whatever two browsers save at once and whenever the guardian reads, the *)
(* thresholds it works with let it warn before it kills.                   *)
GuardianSane == guardian.pc \in {"up", "kills"} => guardian.warn > guardian.kill

(* A scan or a fixed-voltage run asks for nothing above the ceilings the   *)
(* setup had when it was prepared, though the settings are read one by one *)
(* while they are being saved and were perhaps checked under other ones.   *)
PlanWithinCeilings ==
    planned # <<>> /\ planned.plan # "lab_source" => Within(planned.volts, planned.ceilings)

(* A campaign that was applied to its end, no save crossing another, has   *)
(* every service that runs, whoever started it and whenever, in the        *)
(* directory on file, but those it passes over.                            *)
CampaignAgrees ==
    restarting.pc = "none" /\ saver["campaign"].pc = "idle" /\ ~cut /\ ~overlapped =>
        \A i \in DOMAIN SERVICES : service[i] \in {"off", ValueIn(file, "dir")} \/ PassedOver(i)

(* With no entry under way and none cut short or crossed by another, the   *)
(* stand in force is the one committed, entry for entry what was answered. *)
StandAsAnswered ==
    (\A b \in Browsers : entrant[b].pc = "idle") /\ ~cut /\ ~overlapped =>
        setup.text = setup.committed /\ setup.committed = setup.told

(* What is in force fits together, whoever saved it and when.              *)
SafeInForce == GuardianSane /\ PlanWithinCeilings /\ CampaignAgrees /\ StandAsAnswered

(* app.py:1173-1177, what a campaign says it will do: "restart" for every  *)
(* session that runs.  One that is passed over stays in the old directory, *)
(* and the answer does not name it.                                        *)
CampaignRestartsAll ==
    restarting.pc = "none" /\ saver["campaign"].pc = "idle" /\ ~cut /\ ~overlapped =>
        \A i \in DOMAIN SERVICES : service[i] \in {"off", ValueIn(file, "dir")}

===============================================================================
