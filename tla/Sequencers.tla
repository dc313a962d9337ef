------------------------------ MODULE Sequencers ------------------------------
(***************************************************************************)
(* Who starts runs, and what a run is labelled with.  Three actors start   *)
(* them through the GUI's routes: the operator, config_scan.py (one run    *)
(* per chip configuration) and capture_guard.py (stops a run that records  *)
(* nothing, then continues it).  They meet in files: the run number in     *)
(* run_config_beam.py and its high-water mark, the generated run_config    *)
(* json, continuation.json, and the flags no_auto_recovery, hv_hold and    *)
(* config_scan_stop.  At the beam every run has a paired Dream run, which  *)
(* owns the crate.                                                         *)
(*                                                                         *)
(* A run is what daq_control.py makes of it in RunControl, reduced to      *)
(* coming up, taking data and ending.  A route is one step.                *)
(***************************************************************************)
EXTENDS Integers, Sequences, FiniteSets, SequencesExt, FiniteSetsExt

CONSTANTS
    ScanList,        \* chip configurations of a config scan, in order
    BeamSite,
    MAX_RECOVERIES,
    MaxRuns,         \* bound: run numbers
    MaxOps,          \* bound: things the operator does
    MaxTroubles      \* bound: readouts that die and steps that fail

Cfgs == Range(ScanList)

ASSUME SequencersAssumption ==
    /\ ScanList # <<>> /\ IsInjective(ScanList)
    /\ BeamSite \in BOOLEAN
    /\ MAX_RECOVERIES \in Nat /\ MaxRuns \in Nat /\ MaxOps \in Nat /\ MaxTroubles \in Nat

VARIABLES
    number, mark, dirs,   \* run name in the source; the mark; directories
    marked,               \* the .subrun_complete: pairs of run number and sub-run
    RUN_PLAN, resume,     \* the plan in force and self.resume, of run_config_beam.py
    json,                 \* the generated run configuration
    selected, applied, armed,          \* of the chip configuration
    typed,                \* start commands waiting in the tmux pane
    run,                  \* the daq_control process
    beam, dream, crate,
    no_auto_recovery, stop_flag, hv_hold, continuation,
    guard,
    scan,                 \* history: complete, its last run came to its end, from the
                          \* json generated for it; crossed, the guard was acting
    ops, troubles,
    used                  \* history: numbers of the runs that came up

names  == <<number, mark, dirs, marked, used>>
plans  == <<RUN_PLAN, resume, json>>
chips  == <<selected, applied, armed>>
daq    == <<typed, run>>
paired == <<dream, crate>>
flags  == <<no_auto_recovery, stop_flag, hv_hold, continuation>>
bounds == <<ops, troubles>>
vars   == <<names, plans, chips, daq, beam, paired, flags, guard, scan, bounds>>

None == "none"
NoContinuation == [plan |-> None, start_at |-> None]
\* Sub-runs of a plan: a scan run has one, named after the applied chip
\* configuration.
Points(plan, chip) == IF plan = "config_scan" THEN <<chip>> ELSE <<"first", "second">>
Plans == {"config_scan", "operating_long"}

NoJson == [number |-> 0, plan |-> None, chip |-> None, points |-> <<>>,
           continues |-> FALSE, resume |-> FALSE, hold |-> FALSE, stale |-> FALSE]
\* by: what the chips really run.  judged: the closed files are empty.
NoRun == [st |-> None, json |-> NoJson, chip |-> None, dead |-> FALSE, empty |-> FALSE]

Init ==
    /\ number = 1 /\ mark = 0 /\ dirs = {} /\ marked = {} /\ used = {}
    /\ RUN_PLAN = "operating_long" /\ resume \in BOOLEAN /\ json = NoJson
    /\ selected = ScanList[1] /\ applied = None /\ armed = FALSE
    /\ typed = 0 /\ run = NoRun
    /\ beam = TRUE /\ dream = [st |-> "idle", hold |-> FALSE] /\ crate = "off"
    /\ no_auto_recovery = FALSE /\ stop_flag = FALSE /\ hv_hold = FALSE
    /\ continuation = NoContinuation
    /\ guard = [at |-> "watch", json |-> NoJson, point |-> None, stopped_run |-> 0,
                recoveries |-> 0]
    /\ scan = [at |-> "idle", i |-> 1, complete |-> FALSE, crossed |-> FALSE]
    /\ ops = 0 /\ troubles = 0

Trouble == /\ troubles < MaxTroubles
           /\ troubles' = troubles + 1
           /\ UNCHANGED ops
Operator == /\ ops < MaxOps
            /\ ops' = ops + 1
            /\ UNCHANGED troubles

-----------------------------------------------------------------------------
(* Generating a run configuration and starting a run.                      *)

\* The plan run_config_beam.py builds: a continuation overrides RUN_PLAN.
NextPlan == IF continuation = NoContinuation THEN RUN_PLAN ELSE continuation.plan

\* It exits without writing when the chip configuration is unknown or the point
\* to continue from is not in the plan.
Generates ==
    /\ applied # None
    /\ continuation = NoContinuation
         \/ Contains(Points(NextPlan, applied), continuation.start_at)

\* Its sub-runs.
NextPoints ==
    LET points == Points(NextPlan, applied)
        first  == IF continuation = NoContinuation THEN 1
                  ELSE CHOOSE i \in DOMAIN points : points[i] = continuation.start_at
    IN  SubSeq(points, first, Len(points))

Generated ==
    [number |-> number', plan |-> NextPlan, chip |-> applied, points |-> NextPoints,
     continues |-> continuation # NoContinuation, resume |-> resume,
     hold |-> hv_hold, stale |-> FALSE]

\* Sub-runs with no marker in the directory of that number, gone or not.
Unfinished(n, points) == \E i \in DOMAIN points : <<n, points[i]>> \notin marked

\* Mutant of FreeNumber: only the directories are looked at.
FreeNumberByDirs(n) == n \notin dirs

FreeNumber(n) == n \notin dirs /\ n > mark

\* A name that is taken is kept as long as a run that resumes has something left
\* to take in it.
KeepsToResume == resume /\ Unfinished(number, NextPoints)

\* /update_run_config_py runs iterate_run_num.py, which builds the same
\* configuration first, and does not look at how it ended.
Iterates ==
    IF Generates /\ ~FreeNumber(number) /\ ~KeepsToResume
    THEN LET next == CHOOSE n \in number + 1 .. MaxRuns + 1 :
                        FreeNumber(n) /\ \A m \in number + 1 .. n - 1 : ~FreeNumber(m)
         IN  number' = next /\ mark' = Max({mark, next})
    ELSE /\ number' = number
         /\ mark' = IF Generates /\ FreeNumber(number) THEN Max({mark, number}) ELSE mark

\* /run_config_py: refused when not armed, or by Dream while a Dream run is on.
\* The generator's exit status is not looked at: after a failure the json of an
\* earlier request is there still.
Refused ==
    \/ ~armed
    \/ ~Generates /\ json = NoJson
    \/ BeamSite /\ dream.st # "idle"
RunConfigPy ==
    /\ json' = IF ~armed THEN json
               ELSE IF Generates THEN Generated ELSE [json EXCEPT !.stale = (json # NoJson)]
    /\ IF Refused
       THEN UNCHANGED <<armed, typed, paired>>
       ELSE /\ typed' = typed + 1
            /\ armed' = FALSE
            /\ IF BeamSite
               THEN dream' = [st |-> "running", hold |-> json'.hold] /\ crate' = "on"
               ELSE UNCHANGED paired
    /\ UNCHANGED <<RUN_PLAN, resume, selected, applied, run, beam>>

Start ==                       \* both routes, one after the other
    /\ mark < MaxRuns
    /\ Iterates
    /\ RunConfigPy
    /\ UNCHANGED <<dirs, marked, used>>

-----------------------------------------------------------------------------
(* The run, the beam and the paired Dream run.                             *)

Live == run.st \in {"up", "taking"}
DaqRunning == run.st # None
DreamIdle == dream.st = "idle"

\* What a run will take of its json: a resume run skips what is marked.
ToTake(j) ==
    IF j.resume THEN SelectSeq(j.points, LAMBDA p : <<j.number, p>> \notin marked)
                ELSE j.points

\* The pane reads the next command when the one before has ended; daq_control
\* reads the json only now.
Appears ==
    /\ typed > 0 /\ run.st = None
    /\ typed' = typed - 1
    /\ run' = [NoRun EXCEPT !.st = "up", !.json = [json EXCEPT !.points = ToTake(json)]]
    /\ dirs' = dirs \cup {json.number}
    /\ used' = used \cup {json.number}
    /\ UNCHANGED <<number, mark, marked, plans, chips, beam, paired, flags, guard, scan,
                   bounds>>

TakesData ==
    /\ run.st = "up"
    /\ run' = IF run.json.points = <<>> THEN [run EXCEPT !.st = "ending"]
              ELSE [run EXCEPT !.st = "taking", !.chip = applied]
    /\ UNCHANGED <<names, plans, chips, typed, beam, paired, flags, guard, scan, bounds>>

\* Two more capture files are closed.
FilesClose ==
    /\ run.st = "taking"
    /\ run' = [run EXCEPT !.empty = run.dead \/ ~beam]
    /\ UNCHANGED <<names, plans, chips, typed, beam, paired, flags, guard, scan, bounds>>

ReadoutDies ==
    /\ run.st = "taking" /\ ~run.dead
    /\ Trouble
    /\ run' = [run EXCEPT !.dead = TRUE]
    /\ UNCHANGED <<names, plans, chips, typed, beam, paired, flags, guard, scan>>

\* A sub-run that was not cut short is marked.
SubRunEnds ==
    /\ run.st = "taking"
    /\ marked' = marked \cup {<<run.json.number, Head(run.json.points)>>}
    /\ run' = IF Len(run.json.points) > 1
              THEN [run EXCEPT !.json.points = Tail(@), !.empty = FALSE]
              ELSE [run EXCEPT !.st = "ending"]
    /\ UNCHANGED <<number, mark, dirs, used, plans, chips, typed, beam, paired, flags, guard,
                   scan, bounds>>

\* Every stop comes to stop_run.sh, if need be without the GUI.  It finds no
\* run that is not up yet.
StopRun == run' = IF Live THEN [run EXCEPT !.st = "ending"] ELSE run

\* The end of daq_control stops the paired Dream run; the request may fail.
RunEnds ==
    /\ run.st = "ending"
    /\ run' = NoRun
    /\ \/ /\ dream' = IF dream.st = "running" THEN [dream EXCEPT !.st = "stopping"] ELSE dream
          /\ UNCHANGED bounds
       \/ /\ dream.st = "running"
          /\ Trouble
          /\ UNCHANGED dream
    /\ UNCHANGED <<names, plans, chips, typed, beam, crate, flags, guard, scan>>

\* The Dream run is torn down, or ends by its own schedule.
DreamEnds ==
    /\ \/ dream.st = "stopping"
       \/ dream.st = "running" /\ run.st = None /\ typed = 0
    /\ dream' = [st |-> "idle", hold |-> FALSE]
    /\ crate' = IF dream.hold THEN crate ELSE "off"
    /\ UNCHANGED <<names, plans, chips, daq, beam, flags, guard, scan, bounds>>

BeamChanges ==
    /\ IF beam THEN Trouble ELSE UNCHANGED bounds
    /\ beam' = ~beam
    /\ UNCHANGED <<names, plans, chips, daq, paired, flags, guard, scan>>

-----------------------------------------------------------------------------
(* Chip operations, as the guard and the scan ask for them.                *)

\* Both are refused while a capture runs; what the caller reads afterwards is
\* then the answer to an earlier request.
WarmReset == armed' = (armed /\ run.st = "taking")
Apply(c) ==
    /\ selected' = c
    /\ applied' = IF run.st = "taking" THEN applied ELSE c
    /\ armed' = (armed \/ run.st # "taking")

-----------------------------------------------------------------------------
(* capture_guard.py.                                                       *)

\* What the guard knows of the run it learns from the capture files: which
\* run and sub-run the newest is in, and that it is being written.
CaptureActive == run.st = "taking"
CurrentRun    == run.json
CurrentPoint  == Head(CurrentRun.points)

\* Unless it was acted on already.
GuardLooks ==
    /\ guard.at = "watch"
    /\ CaptureActive /\ run.empty /\ CurrentRun.number # guard.stopped_run
    /\ guard' = [guard EXCEPT !.at = "judge", !.json = CurrentRun, !.point = CurrentPoint]
    /\ UNCHANGED <<names, plans, chips, daq, beam, paired, flags, scan, bounds>>

\* At the beam, only when Dream's own counter grows.
BlameTheVmm == BeamSite => dream.st = "running" /\ beam

GuardDrops ==
    /\ guard.at = "judge" /\ ~BlameTheVmm
    /\ guard' = [guard EXCEPT !.at = "watch"]
    /\ UNCHANGED <<names, plans, chips, daq, beam, paired, flags, scan, bounds>>

\* The stop takes whatever runs by now.
GuardTrips ==
    /\ guard.at = "judge" /\ BlameTheVmm
    /\ StopRun
    /\ LET more == guard.recoveries < MAX_RECOVERIES
       IN  guard' = [guard EXCEPT !.stopped_run = guard.json.number,
                                  !.recoveries = IF more THEN @ + 1 ELSE @,
                                  !.at = IF more /\ ~no_auto_recovery THEN "exit" ELSE "watch"]
    /\ UNCHANGED <<names, plans, chips, typed, beam, paired, flags, scan, bounds>>

\* Mutant of WaitIsOver: the wait for the run to exit has no end.
WaitIsOverForDream == guard.at = "dream" /\ BeamSite /\ (~DreamIdle \/ ~beam)

\* A wait runs out, or the beam is off.
WaitIsOver ==
    \/ guard.at = "exit" /\ DaqRunning
    \/ guard.at = "dream" /\ BeamSite /\ (~DreamIdle \/ ~beam)

\* Or the hybrids do not come ready.
GuardGivesUp ==
    /\ \/ WaitIsOver /\ UNCHANGED bounds
       \/ guard.at \in {"reset", "apply"} /\ Trouble
    /\ guard' = [guard EXCEPT !.at = "watch"]
    /\ armed' = (armed /\ guard.at # "apply")
    /\ UNCHANGED <<names, plans, selected, applied, daq, beam, paired, flags, scan>>

GuardExits ==
    /\ guard.at = "exit" /\ ~DaqRunning
    /\ guard' = [guard EXCEPT !.at = "dream"]
    /\ UNCHANGED <<names, plans, chips, daq, beam, paired, flags, scan, bounds>>

\* The plan is read from the configuration the stopped run kept of itself.
PlanOf(json_of_run) == json_of_run.plan

\* What is left of the plan is handed to the next generated configuration.
GuardHandsOver ==
    /\ guard.at = "dream"
    /\ BeamSite => DreamIdle /\ beam
    /\ continuation' = [plan |-> PlanOf(guard.json), start_at |-> guard.point]
    /\ guard' = [guard EXCEPT !.at = "reset"]
    /\ UNCHANGED <<names, plans, chips, daq, beam, paired, no_auto_recovery, stop_flag,
                   hv_hold, scan, bounds>>

GuardResets ==
    /\ guard.at = "reset"
    /\ WarmReset
    /\ guard' = [guard EXCEPT !.at = "apply"]
    /\ UNCHANGED <<names, plans, selected, applied, daq, beam, paired, flags, scan, bounds>>

GuardApplies ==
    /\ guard.at = "apply"
    /\ Apply(selected)
    /\ guard' = [guard EXCEPT !.at = IF armed' THEN "start" ELSE "watch"]
    /\ UNCHANGED <<names, plans, daq, beam, paired, flags, scan, bounds>>

\* Two tries.  Only a start that is accepted takes the continuation away.
GuardStarts ==
    /\ guard.at \in {"start", "again"}
    /\ Start
    /\ IF Refused
       THEN /\ guard' = [guard EXCEPT !.at = IF @ = "start" THEN "again" ELSE "watch"]
            /\ UNCHANGED continuation
       ELSE /\ guard' = [guard EXCEPT !.at = "watch", !.stopped_run = 0]
            /\ continuation' = NoContinuation
    /\ UNCHANGED <<no_auto_recovery, stop_flag, hv_hold, scan, bounds>>

-----------------------------------------------------------------------------
(* config_scan.py.                                                         *)

Config == ScanList[scan.i]
ScanOver(s) == s.at = "idle"
ScanGoes(at) == scan' = [scan EXCEPT !.at = at]
NextConfig == scan' = [scan EXCEPT !.at = "next", !.i = @ + 1]
\* The finally block.
CleansUp == /\ scan' = [scan EXCEPT !.at = "idle"]
            /\ no_auto_recovery' = FALSE /\ hv_hold' = FALSE

\* /config_scan/start, which sets the plan, or a script that waits for the run.
ScanLaunched ==
    /\ scan.at = "idle" /\ run.st = None
    /\ Operator
    /\ \/ RUN_PLAN' = "config_scan" /\ stop_flag' = FALSE
       \/ UNCHANGED <<RUN_PLAN, stop_flag>>
    /\ scan' = [at |-> "begin", i |-> 1, complete |-> FALSE, crossed |-> FALSE]
    /\ UNCHANGED <<names, resume, json, chips, daq, beam, paired, no_auto_recovery,
                   hv_hold, continuation, guard>>

ScanBegins ==
    /\ scan.at = "begin"
    /\ IF RUN_PLAN = "config_scan"
       THEN /\ scan' = [scan EXCEPT !.at = "next", !.crossed = guard.at \notin {"watch", "judge"}]
            /\ no_auto_recovery' = TRUE /\ stop_flag' = FALSE
       ELSE ScanGoes("idle") /\ UNCHANGED <<no_auto_recovery, stop_flag>>
    /\ UNCHANGED <<names, plans, chips, daq, beam, paired, hv_hold, continuation, guard,
                   bounds>>

\* Mutant of Held: the last one too.
HeldToTheEnd == BeamSite

\* The crate is held biased for all configurations but the last.
Held == BeamSite /\ scan.i < Len(ScanList)

\* The stop flag is looked at between configurations.
ScanNext ==
    /\ scan.at = "next"
    /\ IF scan.i > Len(ScanList) \/ stop_flag
       THEN CleansUp /\ stop_flag' = (stop_flag /\ scan.i > Len(ScanList))
       ELSE /\ hv_hold' = Held
            /\ ScanGoes("ready")
            /\ UNCHANGED <<no_auto_recovery, stop_flag>>
    /\ UNCHANGED <<names, plans, chips, daq, beam, paired, continuation, guard, bounds>>

\* No time left, or Dream never idle: the configuration is skipped.
ScanSkips ==
    /\ scan.at = "ready"
    /\ \/ Trouble
       \/ DaqRunning /\ UNCHANGED bounds
    /\ NextConfig
    /\ UNCHANGED <<names, plans, chips, daq, beam, paired, flags, guard>>

ScanReady ==
    /\ scan.at = "ready"
    /\ ~DaqRunning /\ (BeamSite => DreamIdle)
    /\ ScanGoes("reset")
    /\ UNCHANGED <<names, plans, chips, daq, beam, paired, flags, guard, bounds>>

ScanResets ==
    /\ scan.at = "reset"
    /\ WarmReset
    /\ ScanGoes("apply")
    /\ UNCHANGED <<names, plans, selected, applied, daq, beam, paired, flags, guard, bounds>>

ScanApplies ==
    /\ scan.at = "apply"
    /\ \/ Apply(Config) /\ UNCHANGED bounds
       \/ Trouble /\ armed' = FALSE /\ selected' = Config /\ UNCHANGED applied
    /\ IF armed' /\ applied' = Config THEN ScanGoes("start") ELSE NextConfig
    /\ UNCHANGED <<names, plans, daq, beam, paired, flags, guard>>

ScanStarts ==
    /\ scan.at = "start"
    /\ Start
    /\ IF Refused THEN NextConfig ELSE ScanGoes("appear")
    /\ UNCHANGED <<flags, guard, bounds>>

\* Mutant of Verified: the plan is not looked at.
VerifiedByChip == json.chip = Config

\* verify_started_run reads the generated json, not the run.
Verified == json.plan = "config_scan" /\ json.chip = Config /\ Len(json.points) = 1

ScanSees ==
    /\ scan.at = "appear" /\ DaqRunning
    /\ IF Verified
       THEN ScanGoes("watch") /\ UNCHANGED <<run, no_auto_recovery, hv_hold>>
       ELSE StopRun /\ CleansUp
    /\ UNCHANGED <<names, plans, chips, typed, beam, paired, stop_flag, continuation,
                   guard, bounds>>

\* The run did not appear within its 120 s, or came and went between two looks.
ScanMisses ==
    /\ scan.at = "appear" /\ ~DaqRunning
    /\ Trouble
    /\ NextConfig
    /\ UNCHANGED <<names, plans, chips, daq, beam, paired, flags, guard>>

ScanSeesEnd ==
    /\ scan.at = "watch" /\ ~DaqRunning
    /\ scan' = [scan EXCEPT !.at = "next", !.i = @ + 1,
                               !.complete = (scan.i = Len(ScanList) /\ ~json.stale)]
    /\ UNCHANGED <<names, plans, chips, daq, beam, paired, flags, guard, bounds>>

\* A full disk, hybrids that never come ready, a run that overruns; or an
\* interrupt from the GUI or a script, at any point.
ScanAborts ==
    /\ scan.at \notin {"idle", "begin"}
    /\ \/ scan.at \in {"ready", "reset"} /\ Trouble
       \/ scan.at = "watch" /\ DaqRunning /\ Trouble
       \/ Operator
    /\ CleansUp
    /\ UNCHANGED <<names, plans, chips, daq, beam, paired, stop_flag, continuation, guard>>

-----------------------------------------------------------------------------
(* The operator, through the GUI's routes.                                 *)

StopAfterRun ==
    /\ scan.at # "idle" /\ ~stop_flag
    /\ Operator
    /\ stop_flag' = TRUE
    /\ UNCHANGED <<names, plans, chips, daq, beam, paired, no_auto_recovery, hv_hold,
                   continuation, guard, scan>>

\* The Stop button, or stop_run_at.sh at its time.
OperatorStops ==
    /\ Live
    /\ Operator
    /\ StopRun
    /\ UNCHANGED <<names, plans, chips, typed, beam, paired, flags, guard, scan>>

\* Not under a scan or a run: ChipConfig is about that.
OperatorApplies ==
    /\ run.st = None /\ typed = 0 /\ scan.at = "idle"
    /\ Operator
    /\ \E c \in Cfgs : Apply(c)
    /\ UNCHANGED <<names, plans, daq, beam, paired, flags, guard, scan>>

OperatorSelects ==
    /\ Operator
    /\ selected' \in Cfgs \ {selected}
    /\ UNCHANGED <<names, plans, applied, armed, daq, beam, paired, flags, guard, scan>>

OperatorStarts ==
    /\ armed /\ run.st = None
    /\ Operator
    /\ Start
    /\ UNCHANGED <<flags, guard, scan>>

\* An edit of run_config_beam.py.
OperatorPlans ==
    /\ Operator
    /\ \/ RUN_PLAN' \in Plans \ {RUN_PLAN} /\ UNCHANGED resume
       \/ resume' = ~resume /\ UNCHANGED RUN_PLAN
    /\ UNCHANGED <<names, json, chips, daq, beam, paired, flags, guard, scan>>

\* The pruner removes a run that is safe on EOS; git_reset.sh brings back the
\* run number of the repository.
Prunes ==
    /\ Operator
    /\ \E n \in dirs : /\ run.st # None => n # run.json.number
                      /\ dirs' = dirs \ {n}
                      /\ marked' = {p \in marked : p[1] # n}
    /\ UNCHANGED <<number, mark, used, plans, chips, daq, beam, paired, flags, guard, scan>>

GitReset ==
    /\ number # 1
    /\ Operator
    /\ number' = 1
    /\ UNCHANGED <<mark, dirs, marked, used, plans, chips, daq, beam, paired, flags, guard,
                   scan>>

DaqNext == Appears \/ TakesData \/ FilesClose \/ ReadoutDies \/ SubRunEnds \/ RunEnds
             \/ DreamEnds \/ BeamChanges
GuardNext == GuardLooks \/ GuardDrops \/ GuardTrips \/ GuardGivesUp \/ GuardExits
               \/ GuardHandsOver \/ GuardResets \/ GuardApplies \/ GuardStarts
ScanNextStep == ScanBegins \/ ScanNext \/ ScanSkips \/ ScanReady \/ ScanResets \/ ScanApplies
                  \/ ScanStarts \/ ScanSees \/ ScanMisses \/ ScanSeesEnd \/ ScanAborts
OperatorNext == ScanLaunched \/ StopAfterRun \/ OperatorStops \/ OperatorApplies
                  \/ OperatorSelects \/ OperatorStarts \/ OperatorPlans \/ Prunes \/ GitReset
Next == DaqNext \/ GuardNext \/ ScanNextStep \/ OperatorNext

Fairness ==
    /\ WF_vars(FilesClose) /\ WF_vars(RunEnds) /\ WF_vars(TakesData)
    /\ WF_vars(GuardLooks) /\ WF_vars(GuardTrips) /\ WF_vars(GuardDrops)
    /\ WF_vars(GuardExits) /\ WF_vars(GuardGivesUp) /\ WF_vars(GuardHandsOver) /\ WF_vars(GuardResets)
    /\ WF_vars(GuardApplies) /\ WF_vars(GuardStarts) /\ WF_vars(DreamEnds)

Spec == Init /\ [][Next]_vars /\ Fairness

-----------------------------------------------------------------------------
(* Properties.                                                             *)

\* A run that config_scan.py watches was taken with the configuration it is
\* counted for, and with the plan of a scan.
ScanTakesItsConfig ==
    scan.at = "watch" /\ run.st = "taking" /\ ~scan.crossed =>
        run.chip = Config /\ run.json.chip = Config /\ run.json.plan = "config_scan"

\* When a scan came to its last run's end, nothing is left under voltage, unless
\* that run started from a stale json or the guard was recovering as it began.
CrateOff ==
    scan.at = "idle" /\ scan.complete /\ ~scan.crossed /\ run.st = None /\ dream.st = "idle"
        => crate = "off"

\* A run number is handed out again only to a run that resumes that number and
\* has a sub-run left to take there, whatever the pruner removed and the
\* repository says.
FreshNumber ==
    [][Appears => \/ json.stale
                  \/ json.number \notin used
                  \/ json.resume /\ Unfinished(json.number, json.points)]_vars

\* A run whose readout died is stopped by the guard, or the beam is gone too.
DeadRunStopped ==
    run.dead /\ run.st = "taking" /\ run.json.number # guard.stopped_run
        ~> run.st # "taking" \/ (BeamSite /\ (~beam \/ dream.st # "running"))

\* "A run must never start from a json older than this request."
NeverStale == run.json.stale = FALSE

\* iterate_run_num.py:19-22, "A number at or below this mark is never reused": a
\* number comes back only while its directory is there.  A resume run whose
\* directory was pruned gets the number of what is on EOS.
PrunedNumberNotReused ==
    [][Appears => \/ json.stale
                  \/ json.number \notin used
                  \/ json.number \in dirs]_vars

\* What the guard stops has a dead readout (capture_guard.py), which the code
\* does not keep.
OnlyDeadStopped == [][GuardTrips /\ Live => run.dead]_vars

=============================================================================
