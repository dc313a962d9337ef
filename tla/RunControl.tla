----------------------------- MODULE RunControl -----------------------------
(***************************************************************************)
(* One run as daq_control.py drives it: the loop over the configured       *)
(* sub-runs, the socket conversation with the capture server               *)
(* (vmm_daq_control.py), the captures that server owns, the flag files     *)
(* through which the operator stops or pauses a run, and the markers       *)
(* (.capture_done, .subrun_complete) that the rest of the system trusts.   *)
(*                                                                         *)
(* Processes: the orchestrator (pc in dpc), the capture server (pc in      *)
(* vpc), the operator's stop scripts, the capture processes.  HV and LV    *)
(* appear by their outcome only; module SlowControl has their conversation.  *)
(***************************************************************************)
EXTENDS Naturals, Sequences, FiniteSets

CONSTANTS
    NSub,             \* number of sub-runs in the run configuration
    Ifaces,           \* the capture interfaces (vmm_daq_info['interfaces'])
    PowerOffAtEnd,    \* config.power_off_hv_at_end
    Resumes,          \* what config.resume is in the runs on this run dir
    MaxRuns,          \* bound: daq_control processes started on this run dir
    MaxRequests       \* bound: operator requests (stops, pauses, Ctrl-C)

ASSUME ConstantsAssumption ==
    /\ NSub \in Nat \ {0}
    /\ Ifaces # {}
    /\ PowerOffAtEnd \in BOOLEAN /\ Resumes \subseteq BOOLEAN
    /\ MaxRuns \in Nat
    /\ MaxRequests \in Nat

SubRuns == 1..NSub

VARIABLES
    \* orchestrator (daq_control.py, DAQController.py)
    dpc,        \* where its process is; "off" when there is none
    sub,        \* index of the sub-run the for loop is at
    started,    \* DAQController.run_start_time is not None
    runs,       \* number of daq_control processes started so far
    resume,     \* config.resume of the process
    \* capture server (vmm_daq_control.py)
    vpc,        \* where its single thread is
    vsub,       \* the sub-run of the session in progress (subrun JSON)
    procs,      \* interfaces whose capture process of this session is alive
    lock,       \* the session lock keeper is held
    acq,        \* interfaces whose front-end acquisition is switched on
    orphans,    \* sub-runs into which a capture nobody owns still writes
    \* the TCP connection
    conn, c2s, s2c,
    \* the filesystem, and the HV set point
    flags,      \* which of the four flag files exist
    done,       \* sub-runs whose raw directory has .capture_done
    marker,     \* sub-runs that have .subrun_complete
    hv,         \* the sub-run whose HV is set, 0 when off or undefined
    \* operator
    script,     \* a stop script between its two touches
    safetynet,  \* stop_vmm.sh's background subshell is waiting its 20 s
    requests,   \* operator requests so far
    \* history
    ended,      \* how the last capture of each sub-run ended
    asked,      \* the sub-run in progress when .stop_subrun was touched
    retaken     \* sub-runs captured again under the marker of an earlier run

perRun   == <<runs, resume>>
orchVars == <<dpc, sub, started, perRun>>
srvVars  == <<vpc, vsub, procs, lock, acq, orphans>>
netVars  == <<conn, c2s, s2c>>
fileVars == <<flags, done, marker>>
opVars   == <<script, safetynet, requests>>
histVars == <<ended, asked, retaken>>
vars == <<orchVars, srvVars, netVars, fileVars, hv, opVars, histVars>>

Flags == {"stop_run", "stop_subrun", "pause_run", "stop_vmm"}

\* Messages.  A Start and its sub-run JSON are one message, as is the
\* greeting with the vmm_daq_info JSON that follows it.
Cmd(c, s)     == [cmd |-> c, sub |-> s]
Commands      == [cmd : {"hello", "Start", "Finished"}, sub : 0..NSub]
Replies       == {"connected", "starting", "stopped", "error"}

DaqPcs == {"off", "hello", "clear", "stopcheck", "pausecheck", "paused",
           "select", "gate", "ramp", "daq", "waitStarting", "waitStopped",
           "readStops", "mark", "post", "finally", "closedown", "interrupted"}
VmmPcs == {"accept", "idle", "clear", "lock", "acqOn", "launch", "run",
           "stopping", "acqOff", "release", "markDone", "reply"}

Endings == {"none", "full", "stopped", "died"}

-----------------------------------------------------------------------------
(* The connection: each end may go away while the other still believes.    *)

ClientCloses ==      \* Client.__exit__, or the process dies
    /\ conn' = IF conn = "open" THEN "clientGone" ELSE "none"
    /\ s2c' = <<>>

ServerCloses ==      \* Server.__exit__
    /\ conn' = IF conn = "open" THEN "serverGone" ELSE "none"
    /\ c2s' = <<>>

\* A reply to a client that has gone is lost.
Reply(m) == s2c' = IF conn = "open" THEN Append(s2c, m) ELSE s2c

-----------------------------------------------------------------------------
Init ==
    /\ dpc = "off" /\ sub = 1 /\ started = FALSE /\ runs = 0
    /\ resume = FALSE
    /\ vpc = "accept" /\ vsub = 0 /\ procs = {} /\ lock = FALSE /\ acq = {}
    /\ orphans = {}
    /\ conn = "none" /\ c2s = <<>> /\ s2c = <<>>
    /\ flags = {} /\ done = {} /\ marker = {}
    /\ hv = 0
    /\ script = FALSE /\ safetynet = FALSE /\ requests = 0
    /\ ended = [s \in SubRuns |-> "none"]
    /\ asked = 0 /\ retaken = {}

-----------------------------------------------------------------------------
(* Orchestrator.                                                           *)

\* A process is started on the run directory, to resume it or not: a json that
\* names an old directory, or start_run.sh typed by hand, begins it anew.  One
\* that finds the server busy gets no reply and dies without effect.
StartRun ==
    /\ dpc = "off" /\ runs < MaxRuns
    /\ vpc = "accept" /\ conn = "none"
    /\ dpc' = "hello" /\ runs' = runs + 1 /\ sub' = 1 /\ started' = FALSE
    /\ resume' \in Resumes
    /\ conn' = "open" /\ c2s' = <<Cmd("hello", 0)>> /\ s2c' = <<>>
    /\ UNCHANGED <<srvVars, fileVars, hv, opVars, histVars>>

\* What receive returns is not looked at, the '' of a closed connection included.
Greeted ==
    /\ dpc = "hello"
    /\ \/ s2c # <<>> /\ s2c' = Tail(s2c)
       \/ s2c = <<>> /\ conn = "serverGone" /\ UNCHANGED s2c
    /\ dpc' = "clear"
    /\ UNCHANGED <<sub, started, perRun, srvVars, conn, c2s, fileVars, hv,
                   opVars, histVars>>

\* A send on a closed connection that raises before the try block is entered.
GreetingLost ==
    /\ dpc = "hello" /\ conn = "serverGone"
    /\ dpc' = "off"
    /\ ClientCloses
    /\ UNCHANGED <<sub, started, perRun, srvVars, c2s, fileVars, hv, opVars,
                   histVars>>

\* The end of sleep(2), then the stale flags of an earlier run are removed.
\* The two touches of a stop script are adjacent commands: whichever was
\* between them when the sleep began is past the second when it ends.
ClearFlags ==
    /\ dpc = "clear" /\ ~script
    /\ flags' = flags \ {"stop_run", "stop_subrun", "pause_run"}
    /\ dpc' = "stopcheck"
    /\ UNCHANGED <<sub, started, perRun, srvVars, netVars, done, marker, hv,
                   opVars, histVars>>

\* Head of the for loop: no sub-run left, a stop request, or go on.
StopCheck ==
    /\ dpc = "stopcheck"
    /\ dpc' = IF sub > NSub \/ "stop_run" \in flags THEN "finally"
                                                    ELSE "pausecheck"
    /\ UNCHANGED <<sub, started, perRun, srvVars, netVars, fileVars, hv,
                   opVars, histVars>>

PauseCheck ==
    /\ dpc = "pausecheck"
    /\ dpc' = IF "pause_run" \in flags THEN "paused" ELSE "select"
    /\ UNCHANGED <<sub, started, perRun, srvVars, netVars, fileVars, hv,
                   opVars, histVars>>

\* The pause ends when its flag is cleared or the run is stopped.
PauseEnds ==
    /\ dpc = "paused"
    /\ "pause_run" \notin flags \/ "stop_run" \in flags
    /\ dpc' = IF "stop_run" \in flags THEN "finally" ELSE "select"
    /\ UNCHANGED <<sub, started, perRun, srvVars, netVars, fileVars, hv,
                   opVars, histVars>>

\* Mutant of SelectSubRun: a resume run does not look at the marker.
SelectNoSkip ==
    /\ dpc = "select"
    /\ dpc' = "gate"
    /\ UNCHANGED <<sub, started, perRun, srvVars, netVars, fileVars, hv, opVars,
                   histVars>>

\* A resume run skips what is marked complete; any other takes it again.
SelectSubRun ==
    /\ dpc = "select"
    /\ IF resume /\ sub \in marker
       THEN dpc' = "stopcheck" /\ sub' = sub + 1
       ELSE dpc' = "gate" /\ sub' = sub
    /\ UNCHANGED <<started, perRun, srvVars, netVars, fileVars, hv, opVars,
                   histVars>>

\* Optional LV gate: a failed check skips the sub-run, unmarked.
LVGate ==
    /\ dpc = "gate"
    /\ \/ dpc' = "ramp" /\ sub' = sub
       \/ dpc' = "stopcheck" /\ sub' = sub + 1
    /\ UNCHANGED <<started, perRun, srvVars, netVars, fileVars, hv, opVars,
                   histVars>>

\* Mutant of RampHV: the capture is started whatever the HV server answered.
RampHVUnchecked ==
    /\ dpc = "ramp"
    /\ hv' \in {0, sub} /\ dpc' = "daq" /\ started' = FALSE
    /\ UNCHANGED <<sub, perRun, srvVars, netVars, fileVars, opVars, histVars>>

\* hv 'Start': the server answers 'HV Set', or anything else and the sub-run
\* is passed over with the set points in an unknown state.
RampHV ==
    /\ dpc = "ramp"
    /\ \/ hv' = sub /\ dpc' = "daq" /\ sub' = sub /\ started' = FALSE
       \/ hv' = 0 /\ dpc' = "stopcheck" /\ sub' = sub + 1 /\ UNCHANGED started
    /\ UNCHANGED <<perRun, srvVars, netVars, fileVars, opVars, histVars>>

\* Mutant of StartDaq: the retry loop does not look at the stop flags.
StartDaqUnchecked ==
    /\ dpc = "daq" /\ conn = "open"
    /\ dpc' = "waitStarting"
    /\ c2s' = Append(c2s, Cmd("Start", sub))
    /\ UNCHANGED <<sub, started, perRun, srvVars, conn, s2c, fileVars, hv,
                   opVars, histVars>>

\* run_daq_controller: look at the stop flags, then (re)try the capture.
StartDaq ==
    /\ dpc = "daq"
    /\ IF flags \cap {"stop_run", "stop_subrun"} # {}
       THEN dpc' = "readStops" /\ UNCHANGED c2s
       ELSE /\ conn = "open"
            /\ dpc' = "waitStarting"
            /\ c2s' = Append(c2s, Cmd("Start", sub))
    /\ UNCHANGED <<sub, started, perRun, srvVars, conn, s2c, fileVars, hv,
                   opVars, histVars>>

\* Mutant of ReceiveStarting: an error reply is taken for the first of two.
ReceiveAnyStarting ==
    /\ dpc = "waitStarting" /\ s2c # <<>>
    /\ s2c' = Tail(s2c)
    /\ dpc' = "waitStopped" /\ started' = TRUE
    /\ UNCHANGED <<sub, perRun, srvVars, conn, c2s, fileVars, hv, opVars,
                   histVars>>

\* DAQController.run, first reply.
ReceiveStarting ==
    /\ dpc = "waitStarting" /\ s2c # <<>>
    /\ s2c' = Tail(s2c)
    /\ IF Head(s2c) = "starting"
       THEN dpc' = "waitStopped" /\ started' = TRUE
       ELSE dpc' = "daq" /\ UNCHANGED started
    /\ UNCHANGED <<sub, perRun, srvVars, conn, c2s, fileVars, hv, opVars,
                   histVars>>

\* DAQController.run, second reply; anything but 'stopped' is a failure that
\* run_daq_controller answers by starting over.
ReceiveStopped ==
    /\ dpc = "waitStopped" /\ s2c # <<>>
    /\ s2c' = Tail(s2c)
    /\ dpc' = IF Head(s2c) = "stopped" THEN "readStops" ELSE "daq"
    /\ UNCHANGED <<sub, started, perRun, srvVars, conn, c2s, fileVars, hv,
                   opVars, histVars>>

\* Mutant of LostWhileRunning: an empty reply is taken for the end of the capture.
LostIsFinished ==
    /\ dpc = "waitStopped" /\ s2c = <<>> /\ conn = "serverGone"
    /\ dpc' = "readStops"
    /\ UNCHANGED <<sub, started, perRun, srvVars, netVars, fileVars, hv,
                   opVars, histVars>>

\* receive() returns '' from a closed connection: between the two replies it
\* counts as a failed attempt.
LostWhileRunning ==
    /\ dpc = "waitStopped" /\ s2c = <<>> /\ conn = "serverGone"
    /\ dpc' = "daq"
    /\ UNCHANGED <<sub, started, perRun, srvVars, netVars, fileVars, hv,
                   opVars, histVars>>

\* A send on, or an empty first reply from, a closed connection raises: the
\* finally clause removes the stop flags, the HV is left where it is.
ConnectionLost ==
    /\ conn = "serverGone" /\ s2c = <<>>
    /\ \/ dpc = "waitStarting"
       \/ dpc = "daq" /\ flags \cap {"stop_run", "stop_subrun"} = {}
    /\ flags' = flags \ {"stop_run", "stop_subrun"}
    /\ dpc' = "off"
    /\ ClientCloses
    /\ UNCHANGED <<sub, started, perRun, srvVars, c2s, done, marker, hv,
                   opVars, histVars>>

\* Mutant of ReadStops: only .stop_subrun keeps the marker from being written.
ReadStopsSubRunOnly ==
    /\ dpc = "readStops"
    /\ dpc' = IF "stop_subrun" \in flags THEN "post" ELSE "mark"
    /\ flags' = flags \ {"stop_subrun"}
    /\ UNCHANGED <<sub, started, perRun, srvVars, netVars, done, marker, hv,
                   opVars, histVars>>

\* After the capture: were we stopped by hand?  .stop_subrun is consumed.
ReadStops ==
    /\ dpc = "readStops"
    /\ dpc' = IF flags \cap {"stop_run", "stop_subrun"} # {} THEN "post"
                                                             ELSE "mark"
    /\ flags' = flags \ {"stop_subrun"}
    /\ UNCHANGED <<sub, started, perRun, srvVars, netVars, done, marker, hv,
                   opVars, histVars>>

MarkComplete ==
    /\ dpc = "mark"
    /\ marker' = marker \cup {sub}
    /\ retaken' = retaken \ {sub}
    /\ dpc' = "post"
    /\ UNCHANGED <<sub, started, perRun, srvVars, netVars, flags, done, hv,
                   opVars, ended, asked>>

\* The end of sleep(10) and of the configured pause; see ClearFlags for the
\* guard on script.
PostSleep ==
    /\ dpc = "post" /\ ~script
    /\ dpc' = "stopcheck" /\ sub' = sub + 1
    /\ UNCHANGED <<started, perRun, srvVars, netVars, fileVars, hv, opVars,
                   histVars>>

Finally ==
    /\ dpc = "finally"
    /\ flags' = flags \ {"stop_run", "stop_subrun"}
    /\ dpc' = "closedown"
    /\ UNCHANGED <<sub, started, perRun, srvVars, netVars, done, marker, hv,
                   opVars, histVars>>

\* Power Off if configured, Finished to every server, the sockets close.
CloseDown ==
    /\ dpc = "closedown"
    /\ hv' = IF PowerOffAtEnd THEN 0 ELSE hv
    /\ c2s' = IF conn = "open" THEN Append(c2s, Cmd("Finished", 0)) ELSE c2s
    /\ ClientCloses
    /\ dpc' = "off"
    /\ UNCHANGED <<sub, started, perRun, srvVars, fileVars, opVars, histVars>>

\* The process is killed: no finally clause, the kernel closes the socket.
OrchestratorKilled ==
    /\ dpc # "off"
    /\ dpc' = "off"
    /\ ClientCloses
    /\ UNCHANGED <<sub, started, perRun, srvVars, c2s, fileVars, hv, opVars,
                   histVars>>

Orchestrator ==
    \/ Greeted \/ GreetingLost \/ ClearFlags \/ StopCheck \/ PauseCheck \/ PauseEnds
    \/ SelectSubRun \/ LVGate \/ RampHV \/ StartDaq \/ ReceiveStarting
    \/ ReceiveStopped \/ LostWhileRunning \/ ConnectionLost \/ ReadStops
    \/ MarkComplete \/ PostSleep \/ Finally \/ CloseDown

-----------------------------------------------------------------------------
(* Capture server.                                                         *)

AcceptClient ==
    /\ vpc = "accept" /\ conn = "open" /\ c2s # <<>>
    /\ c2s' = Tail(c2s) /\ Reply("connected")
    /\ vpc' = "idle"
    /\ UNCHANGED <<orchVars, vsub, procs, lock, acq, orphans, conn, fileVars,
                   hv, opVars, histVars>>

\* The handler of Exception: the keeper is released and the socket closed;
\* capture processes and acquisition are left as they are.  With no session
\* in progress it is how the server drops a client that has gone.
Exception ==
    /\ lock' = FALSE
    /\ ServerCloses
    /\ vpc' = "accept"

\* The greeting is answered before the data directory is made: that failing
\* closes the connection on a client that believes it has a server.
SetupRaises ==
    /\ vpc = "accept" /\ conn = "open" /\ c2s # <<>>
    /\ Reply("connected")
    /\ Exception
    /\ UNCHANGED <<orchVars, vsub, procs, acq, orphans, fileVars, hv, opVars,
                   histVars>>

ClientVanished ==
    /\ conn = "clientGone"
    /\ vpc = "accept" \/ (vpc = "idle" /\ c2s = <<>>)
    /\ Exception
    /\ UNCHANGED <<orchVars, vsub, procs, acq, orphans, s2c, fileVars, hv,
                   opVars, histVars>>

ReceiveStart ==
    /\ vpc = "idle" /\ c2s # <<>> /\ Head(c2s).cmd = "Start"
    /\ c2s' = Tail(c2s)
    /\ vsub' = Head(c2s).sub
    /\ vpc' = "clear"
    /\ UNCHANGED <<orchVars, procs, lock, acq, orphans, conn, s2c, fileVars,
                   hv, opVars, histVars>>

ReceiveFinished ==
    /\ vpc = "idle" /\ c2s # <<>> /\ Head(c2s).cmd = "Finished"
    /\ ServerCloses
    /\ vpc' = "accept"
    /\ UNCHANGED <<orchVars, vsub, procs, lock, acq, orphans, s2c, fileVars,
                   hv, opVars, histVars>>

\* Mutant of ClearStale: the .capture_done of an earlier attempt stays.
ClearStopOnly ==
    /\ vpc = "clear"
    /\ flags' = flags \ {"stop_vmm"}
    /\ vpc' = "lock"
    /\ retaken' = retaken \cup ({vsub} \cap marker)
    /\ UNCHANGED <<orchVars, vsub, procs, lock, acq, orphans, netVars, done,
                   marker, hv, opVars, ended, asked>>

\* Stale stop requests and the .capture_done of an earlier attempt are removed;
\* a .subrun_complete of an earlier run stays.
ClearStale ==
    /\ vpc = "clear"
    /\ flags' = flags \ {"stop_vmm"}
    /\ done' = done \ {vsub}
    /\ retaken' = retaken \cup ({vsub} \cap marker)
    /\ vpc' = "lock"
    /\ UNCHANGED <<orchVars, vsub, procs, lock, acq, orphans, netVars, marker,
                   hv, opVars, ended, asked>>

\* acquire_session_lock: on failure an error reply ends the session.
AcquireLock ==
    /\ vpc = "lock"
    /\ \/ lock' = TRUE /\ vpc' = "acqOn" /\ UNCHANGED s2c
       \/ Reply("error") /\ vpc' = "idle" /\ UNCHANGED lock
    /\ UNCHANGED <<orchVars, vsub, procs, acq, orphans, conn, c2s, fileVars,
                   hv, opVars, histVars>>

\* Mutant of AcqOn: one interface that fails is passed over.
AcqOnBestEffort ==
    /\ vpc = "acqOn"
    /\ \E on \in SUBSET Ifaces : acq' = acq \cup on
    /\ vpc' = "launch"
    /\ UNCHANGED <<orchVars, vsub, procs, lock, orphans, netVars, fileVars, hv,
                   opVars, histVars>>

\* alinx_acq_on goes through the interfaces one by one; when one fails those
\* before it stay on, the lock is released and an error is sent.
AcqOn ==
    /\ vpc = "acqOn"
    /\ \/ acq' = Ifaces /\ vpc' = "launch" /\ UNCHANGED <<lock, s2c>>
       \/ /\ \E on \in SUBSET Ifaces \ {Ifaces} : acq' = acq \cup on
          /\ lock' = FALSE
          /\ Reply("error") /\ vpc' = "idle"
    /\ UNCHANGED <<orchVars, vsub, procs, orphans, conn, c2s, fileVars, hv,
                   opVars, histVars>>

\* start_captures, then 'VMM DAQ starting'.
Launch ==
    /\ vpc = "launch"
    /\ procs' = Ifaces
    /\ Reply("starting")
    /\ vpc' = "run"
    /\ UNCHANGED <<orchVars, vsub, lock, acq, orphans, conn, c2s, fileVars,
                   hv, opVars, histVars>>

\* A capture that cannot be started raises; those before it keep running.
LaunchRaises ==
    /\ vpc = "launch"
    /\ \E up \in SUBSET Ifaces \ {Ifaces} :
          orphans' = IF up = {} THEN orphans ELSE orphans \cup {vsub}
    /\ Exception
    /\ UNCHANGED <<orchVars, vsub, procs, acq, s2c, fileVars, hv, opVars,
                   histVars>>

\* mkdir at the start of a session, or opening .capture_done, fails.
SessionRaises ==
    /\ vpc \in {"clear", "markDone"}
    /\ Exception
    /\ UNCHANGED <<orchVars, vsub, procs, acq, orphans, s2c, fileVars, hv,
                   opVars, histVars>>

\* The server process is killed and started again (restart_daq_tmux_processes.sh,
\* or by hand): the captures, its children, die with it or live on unowned.
ServerKilled ==
    /\ conn \in {"open", "clientGone"}
    /\ orphans' \in {orphans, orphans \cup (IF procs = {} THEN {} ELSE {vsub})}
    /\ procs' = {}
    /\ Exception
    /\ UNCHANGED <<orchVars, vsub, acq, s2c, fileVars, hv, opVars, histVars>>

\* The run loop's three ways out.  "full" needs every capture still alive.
RunLoopEnds(how) ==
    /\ vpc = "run"
    /\ ended' = [ended EXCEPT ![vsub] = how]
    /\ vpc' = "stopping"
    /\ UNCHANGED <<orchVars, vsub, procs, lock, acq, orphans, netVars,
                   fileVars, hv, opVars, asked, retaken>>

\* Mutant of TimeUp: the clock is only looked at when the captures have died.
TimeUpOfDead == procs = {} /\ RunLoopEnds("died")

TimeUp     == RunLoopEnds(IF procs = Ifaces THEN "full" ELSE "died")
StopSeen   == "stop_vmm" \in flags /\ RunLoopEnds("stopped")
AllDied    == procs = {} /\ RunLoopEnds("died")

StopCaptures ==
    /\ vpc = "stopping"
    /\ procs' = {}
    /\ vpc' = "acqOff"
    /\ UNCHANGED <<orchVars, vsub, lock, acq, orphans, netVars, fileVars, hv,
                   opVars, histVars>>

\* alinx_acq_off reports a failure on the screen and goes on.
AcqOff ==
    /\ vpc = "acqOff"
    /\ acq' \in SUBSET acq
    /\ vpc' = "release"
    /\ UNCHANGED <<orchVars, vsub, procs, lock, orphans, netVars, fileVars,
                   hv, opVars, histVars>>

ReleaseLock ==
    /\ vpc = "release"
    /\ lock' = FALSE
    /\ vpc' = "markDone"
    /\ UNCHANGED <<orchVars, vsub, procs, acq, orphans, netVars, fileVars, hv,
                   opVars, histVars>>

MarkDone ==
    /\ vpc = "markDone"
    /\ done' = done \cup {vsub}
    /\ vpc' = "reply"
    /\ UNCHANGED <<orchVars, vsub, procs, lock, acq, orphans, netVars, flags,
                   marker, hv, opVars, histVars>>

\* .stop_vmm has been honoured: it is removed, and 'VMM DAQ stopped' is sent.
ReportStopped ==
    /\ vpc = "reply"
    /\ flags' = flags \ {"stop_vmm"}
    /\ Reply("stopped")
    /\ vpc' = "idle"
    /\ UNCHANGED <<orchVars, vsub, procs, lock, acq, orphans, conn, c2s, done,
                   marker, hv, opVars, histVars>>

Server ==
    \/ AcceptClient \/ ClientVanished \/ ReceiveStart \/ ReceiveFinished
    \/ ClearStale \/ AcquireLock \/ AcqOn \/ Launch \/ TimeUp \/ StopSeen
    \/ AllDied \/ StopCaptures \/ AcqOff \/ ReleaseLock \/ MarkDone
    \/ ReportStopped

CaptureDies ==
    /\ \E i \in procs : procs' = procs \ {i}
    /\ UNCHANGED <<orchVars, vpc, vsub, lock, acq, orphans, netVars, fileVars,
                   hv, opVars, histVars>>

-----------------------------------------------------------------------------
(* Operator: bash_scripts/stop_run.sh, stop_sub_run.sh, stop_vmm.sh and    *)
(* the GUI's pause button.                                                 *)

InLoop == dpc \notin {"off", "hello", "clear", "finally", "closedown"}

\* First touch of stop_run.sh / stop_sub_run.sh; stop_vmm.sh follows.
RequestStop(flag) ==
    /\ requests < MaxRequests /\ ~script
    /\ requests' = requests + 1
    /\ flags' = flags \cup {flag}
    /\ script' = TRUE
    /\ asked' = IF flag # "stop_subrun" THEN asked
                ELSE IF InLoop THEN sub ELSE 0
    /\ UNCHANGED <<orchVars, srvVars, netVars, done, marker, hv, safetynet,
                   ended, retaken>>

StopRun    == RequestStop("stop_run")
StopSubRun == RequestStop("stop_subrun")

TouchStopVmm ==
    /\ flags' = flags \cup {"stop_vmm"}
    /\ safetynet' = TRUE

StopVmm ==
    /\ script
    /\ script' = FALSE
    /\ TouchStopVmm
    /\ UNCHANGED <<orchVars, srvVars, netVars, done, marker, hv, requests,
                   histVars>>

\* The background half of stop_vmm.sh: a flag nobody took in 20 s makes it
\* interrupt every dumpcap on the machine.
SafetyNet ==
    /\ safetynet
    /\ safetynet' = FALSE
    /\ IF "stop_vmm" \in flags
       THEN procs' = {} /\ orphans' = {}
       ELSE UNCHANGED <<procs, orphans>>
    /\ UNCHANGED <<orchVars, vpc, vsub, lock, acq, netVars, fileVars, hv,
                   script, requests, histVars>>

Pause ==
    /\ requests < MaxRequests /\ "pause_run" \notin flags
    /\ requests' = requests + 1
    /\ flags' = flags \cup {"pause_run"}
    /\ UNCHANGED <<orchVars, srvVars, netVars, done, marker, hv, script,
                   safetynet, histVars>>

Resume ==
    /\ "pause_run" \in flags
    /\ flags' = flags \ {"pause_run"}
    /\ UNCHANGED <<orchVars, srvVars, netVars, done, marker, hv, opVars,
                   histVars>>

Environment ==
    \/ StartRun \/ OrchestratorKilled \/ SetupRaises \/ LaunchRaises
    \/ SessionRaises \/ ServerKilled \/ CaptureDies
    \/ StopRun \/ StopSubRun \/ SafetyNet \/ Pause

-----------------------------------------------------------------------------
(* Ctrl-C in the orchestrator's terminal.                                  *)

\* Inside DAQController.run: .stop_vmm is dropped and one more reply awaited.
InterruptCapture ==
    /\ dpc \in {"waitStarting", "waitStopped"}
    /\ requests < MaxRequests /\ requests' = requests + 1
    /\ TouchStopVmm
    /\ dpc' = "interrupted"
    /\ UNCHANGED <<sub, started, perRun, srvVars, netVars, done, marker, hv,
                   script, histVars>>

\* Whatever the reply, the attempt counts as good if the capture had started.
AfterInterrupt ==
    /\ dpc = "interrupted"
    /\ \/ s2c # <<>> /\ s2c' = Tail(s2c)
       \/ s2c = <<>> /\ conn = "serverGone" /\ UNCHANGED s2c
    /\ dpc' = IF started THEN "readStops" ELSE "daq"
    /\ UNCHANGED <<sub, started, perRun, srvVars, conn, c2s, fileVars, hv,
                   opVars, histVars>>

\* Anywhere else in the loop it ends the run.
InterruptLoop ==
    /\ InLoop /\ dpc \notin {"waitStarting", "waitStopped", "interrupted"}
    /\ requests < MaxRequests /\ requests' = requests + 1
    /\ dpc' = "finally"
    /\ UNCHANGED <<sub, started, perRun, srvVars, netVars, fileVars, hv, script,
                   safetynet, histVars>>

Interrupt == InterruptCapture \/ AfterInterrupt \/ InterruptLoop

-----------------------------------------------------------------------------
Next == Orchestrator \/ Server \/ StopVmm \/ Resume \/ Environment

\* Every thread that can take a step takes it: the orchestrator, the capture
\* server (whose run loop the wall clock ends), the second half of a script.
Fairness == WF_vars(Orchestrator) /\ WF_vars(Server) /\ WF_vars(StopVmm)

Spec == Init /\ [][Next]_vars /\ Fairness

\* With Ctrl-C, which the stop scripts were written to replace.
InterruptNext == Next \/ Interrupt
InterruptSpec ==
    Init /\ [][InterruptNext]_vars /\ Fairness /\ WF_vars(AfterInterrupt)

-----------------------------------------------------------------------------
(* Properties.                                                             *)

\* Every variable keeps its type (all of RunControl).
TypeOK ==
    /\ dpc \in DaqPcs /\ sub \in 1..(NSub + 1) /\ started \in BOOLEAN
    /\ runs \in 0..MaxRuns /\ resume \in BOOLEAN
    /\ vpc \in VmmPcs /\ vsub \in 0..NSub
    /\ procs \subseteq Ifaces /\ lock \in BOOLEAN /\ acq \subseteq Ifaces
    /\ orphans \subseteq SubRuns
    /\ conn \in {"none", "open", "clientGone", "serverGone"}
    /\ c2s \in Seq(Commands) /\ s2c \in Seq(Replies)
    /\ flags \subseteq Flags /\ done \subseteq SubRuns /\ marker \subseteq SubRuns
    /\ hv \in 0..NSub
    /\ script \in BOOLEAN /\ safetynet \in BOOLEAN
    /\ requests \in 0..MaxRequests
    /\ ended \in [SubRuns -> Endings]
    /\ asked \in 0..(NSub + 1) /\ retaken \subseteq SubRuns

\* A .subrun_complete stands for a capture that was carried to its end and
\* recorded so by the server (daq_control.py:198 against vmm_daq_control.py:140),
\* however the two processes, their connection and the operator interleave; but
\* for a sub-run a run that does not resume has begun again and not yet marked.
MarkerMeansCaptured == marker \ retaken \subseteq done

\* No sub-run whose capture was ended by a stop request is marked for it
\* (daq_control.py:189-199): the order of stop_run.sh's two touches against
\* the order in which the capture loop and the orchestrator look at them.
MarkerNotCutShort == \A s \in marker \ retaken : ended[s] # "stopped"

\* While captures of a session run, the HV is the one of their sub-run, also
\* when the orchestrator died or lost the connection (daq_control.py:164-177).
DataAtOwnVoltage == procs # {} => hv = vsub

\* Captures of a session run only with the session lock held and every
\* front end armed (vmm_daq_control.py:85-137).
CaptureProtected == procs # {} => lock /\ acq = Ifaces

\* .capture_done tells the watchers that the last file of a sub-run is final
\* (vmm_daq_control.py:139-141): no capture of a session writes there then.
DoneMeansFinal == procs # {} => vsub \notin done

\* While the orchestrator waits for the capture, the server is working, or has
\* answered, for that same sub-run (DAQController.py:45-58): the conversation
\* never slips by one reply.
InStep ==
    dpc \in {"waitStarting", "waitStopped"} /\ conn = "open" =>
        \/ vpc \notin {"accept", "idle"} /\ vsub = sub /\ c2s = <<>>
        \/ vpc = "idle" /\ c2s = <<Cmd("Start", sub)>> /\ s2c = <<>>
        \/ vpc = "idle" /\ c2s = <<>> /\ s2c # <<>> /\ vsub = sub

\* The refinement mapping: what the server's session is to the ledger.
Capturing == IF vpc \in {"lock", "acqOn", "launch", "run", "stopping",
                         "acqOff", "release", "markDone"}
             THEN vsub ELSE 0

Ledger == INSTANCE SubRunLedger WITH
    resume <- resume, capturing <- Capturing, captured <- done,
    complete <- marker \ retaken

\* The markers on disk and the sessions of the server together follow the
\* abstract account of a run.
LedgerSpec == Ledger!Spec

\* A stop-run request present while the loop runs ends the run, whatever it
\* was doing (stop_run.sh:4-6; the pause, retry and skip paths included).
StopEndsRun == InLoop /\ "stop_run" \in flags ~> dpc = "off"

\* A capture that was started is stopped in the end, with or without a client
\* to report to, and the server takes the next client or command.
CaptureEnds == vpc = "run" ~> vpc \in {"accept", "idle"}

-----------------------------------------------------------------------------
(* What comments and documents say of the program, and it does not do.     *)

\* stop_run.sh:4-5 and daq_control.py:27-31: once stop_run.sh has run, the
\* capture in progress is told to stop.
StopReachesCapture ==
    vpc = "run" /\ "stop_run" \in flags /\ ~script => "stop_vmm" \in flags

\* stop_sub_run.sh:2: the sub-run left unmarked by a .stop_subrun is the one
\* that was current when it was asked for.
StopHitsCurrent ==
    [][ReadStops /\ "stop_subrun" \in flags => asked = sub]_vars

\* ARCHITECTURE.md:169 and README.md:350: a marked sub-run holds a finished
\* capture.  A run that does not resume takes it again under the old marker, and
\* when it is cut short a later resume passes it over.
MarkerMeansTaken == marker \subseteq done

\* ARCHITECTURE.md:169 and 287: a marked sub-run ran to its end with every
\* capture alive.
MarkerMeansFull == \A s \in marker : ended[s] = "full"

\* vmm_daq_control.py:85-87: while front ends are armed, the session lock is
\* held.
ArmedUnderLock == acq # {} => lock

\* DAQController.py:4-5: the driver of a sub-run returns only when its capture
\* has stopped.
BlocksUntilStopped ==
    dpc \in {"readStops", "mark", "post"} /\ conn = "open" => procs = {}

\* vmm_daq_control.py:139: the last file of a sub-run with .capture_done is
\* final, no capture process is left that writes there.
NoOrphanAfterDone == orphans \cap done = {}

=============================================================================
