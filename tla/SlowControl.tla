---------------------------- MODULE SlowControl ----------------------------
(***************************************************************************)
(* The high and low voltage servers (hv_control.py, lv_control.py), their  *)
(* monitor threads, the CAEN crate, and the orchestrator's conversation    *)
(* with them (daq_control.py): gate, monitors, ramp, end of monitoring,    *)
(* power off.  The capture itself is one step here; RunControl has it.     *)
(*                                                                         *)
(* A command, the JSON behind it and the server's replies to it are one    *)
(* exchange: the orchestrator reads every reply before it asks again.      *)
(***************************************************************************)
EXTENDS Naturals, FiniteSets

CONSTANTS
    NSub,            \* sub-runs of the configuration
    Channels,        \* HV channels of the crate
    Target,          \* sub_run['hvs']: sub-run -> channel -> volts or NoSet
    NoSet,           \* v0 is None: a channel that is monitored only
    CheckBefore,     \* lv_info['check_before_subrun']
    PowerOffAtEnd,   \* power_off_hv_at_end
    MaxRuns,         \* bound: orchestrators started
    MaxFaults,       \* bound: exceptions in a server, kills
    MaxTrips         \* bound: channels that trip

SubRuns == 1..NSub
Volts == (UNION {{Target[s][c] : c \in Channels} : s \in SubRuns}) \ {NoSet}

ASSUME SlowControlAssumption ==
    /\ NSub \in Nat \ {0}
    /\ Target \in [SubRuns -> [Channels -> Nat \cup {NoSet}]]
    /\ NoSet \notin Nat
    /\ CheckBefore \in BOOLEAN /\ PowerOffAtEnd \in BOOLEAN
    /\ MaxRuns \in Nat /\ MaxFaults \in Nat /\ MaxTrips \in Nat

Servers == {"HV", "LV"}

VARIABLES
    \* orchestrator
    step,        \* what it is at; "off" when there is none
    waiting,     \* it has sent the command of this step
    sub, run,
    stop,        \* .stop_run exists
    \* each server and its connection
    spc,         \* where its session is
    conn, req, rep,
    stopev,      \* monitor_stop_event is set
    mthread,     \* monitor_thread, NoThread when None
    live,        \* monitor threads alive, of any session
    failed,      \* monitor threads that a read of their own session ended
    todo,        \* channels set_hvs has still to set
    \* the crate
    power, v0, vmon,
    \* history and bounds
    tripped,     \* channels that tripped since the last set_hvs began
    faults, trips

orchVars  == <<step, waiting, sub, run>>
srvVars   == <<spc, mthread, todo>>
netVars   == <<conn, req, rep>>
threadVars == <<stopev, live, failed>>
crateVars == <<power, v0, vmon>>
boundVars == <<faults, trips>>
vars == <<orchVars, stop, srvVars, netVars, threadVars, crateVars, tripped,
          boundVars>>

\* Exchanges, each with one server, and the other places of the orchestrator.
LVSteps   == {"check", "lvbegin", "lvend"}
HVSteps   == {"begin", "start", "end", "power"}
Steps     == HVSteps \cup LVSteps \cup {"off", "hello", "loop", "capture", "close"}
To(s)     == IF s \in LVSteps THEN "LV" ELSE "HV"

Exchanges == HVSteps \cup LVSteps
Threads   == [srv : Servers, run : 1..MaxRuns, sub : SubRuns]
NoThread  == [srv |-> "none", run |-> 0, sub |-> 0]
Request(v, s, r) == [verb |-> v, sub |-> s, run |-> r]
NoRequest == Request("none", 0, 0)
Replies   == {"none", "connected", "done", "ok", "fail", "HV Set", "stopped",
              "powered off"}

-----------------------------------------------------------------------------
Init ==
    /\ step = "off" /\ waiting = FALSE /\ sub = 1 /\ run = 0 /\ stop = FALSE
    /\ spc = [k \in Servers |-> "accept"]
    /\ mthread = [k \in Servers |-> NoThread] /\ todo = {}
    /\ conn = [k \in Servers |-> "none"]
    /\ req = [k \in Servers |-> NoRequest] /\ rep = [k \in Servers |-> "none"]
    /\ stopev = [k \in Servers |-> FALSE] /\ live = {} /\ failed = {}
    /\ power = [c \in Channels |-> FALSE]
    /\ v0 = [c \in Channels |-> 0] /\ vmon = [c \in Channels |-> 0]
    /\ tripped = {} /\ faults = 0 /\ trips = 0

Fault == faults < MaxFaults /\ faults' = faults + 1

-----------------------------------------------------------------------------
(* Orchestrator.                                                           *)

StartRun ==
    /\ step = "off" /\ run < MaxRuns
    /\ \A k \in Servers : spc[k] = "accept" /\ conn[k] = "none"
    /\ step' = "hello" /\ waiting' = TRUE /\ sub' = 1 /\ run' = run + 1
    /\ conn' = [k \in Servers |-> "open"]
    /\ req' = [k \in Servers |-> Request("hello", 0, run + 1)]
    /\ rep' = [k \in Servers |-> "none"]
    /\ UNCHANGED <<stop, srvVars, threadVars, crateVars, tripped, boundVars>>

\* Both greetings have been read ('' from a server that has gone will do); the
\* flag of an earlier run is removed.
Greeted ==
    /\ step = "hello"
    /\ \A k \in Servers : rep[k] # "none" \/ conn[k] = "serverGone"
    /\ rep' = [k \in Servers |-> "none"]
    /\ step' = "loop" /\ waiting' = FALSE /\ stop' = FALSE
    /\ UNCHANGED <<sub, run, srvVars, conn, req, threadVars, crateVars,
                   tripped, boundVars>>

Ends == IF PowerOffAtEnd THEN "power" ELSE "close"

\* Head of the sub-run loop; the flag is removed when the loop is left.
Loop ==
    /\ step = "loop"
    /\ \/ sub <= NSub /\ ~stop
          /\ step' = (IF CheckBefore THEN "check" ELSE "begin") /\ UNCHANGED stop
       \/ (sub > NSub \/ stop) /\ step' = Ends /\ stop' = FALSE
    /\ UNCHANGED <<waiting, sub, run, srvVars, netVars, threadVars, crateVars,
                   tripped, boundVars>>

\* A send to a connection whose server has gone may go unnoticed.
Ask ==
    /\ step \in Exchanges /\ ~waiting
    /\ waiting' = TRUE
    /\ req' = IF conn[To(step)] = "open"
              THEN [req EXCEPT ![To(step)] = Request(step, sub, run)]
              ELSE req
    /\ UNCHANGED <<step, sub, run, stop, srvVars, conn, rep, threadVars,
                   crateVars, tripped, boundVars>>

\* Only what gate and ramp answer is looked at; '' is what a closed connection
\* answers.  A gate or a ramp that fails passes the sub-run over as it stands.
After(s, r) ==
    CASE s = "check"   -> IF r = "ok" THEN "begin" ELSE "loop"
      [] s = "begin"   -> "lvbegin"
      [] s = "lvbegin" -> "start"
      [] s = "start"   -> IF r = "HV Set" THEN "capture" ELSE "loop"
      [] s = "end"     -> "lvend"
      [] s = "lvend"   -> "loop"
      [] s = "power"   -> "close"

Answered ==
    /\ step \in Exchanges /\ waiting
    /\ rep[To(step)] # "none" \/ conn[To(step)] = "serverGone"
    /\ step' = After(step, rep[To(step)])
    /\ sub' = IF step' = "loop" THEN sub + 1 ELSE sub
    /\ rep' = [rep EXCEPT ![To(step)] = "none"]
    /\ waiting' = FALSE
    /\ UNCHANGED <<run, stop, srvVars, conn, req, threadVars, crateVars,
                   tripped, boundVars>>

Capture ==
    /\ step = "capture"
    /\ step' = "end"
    /\ UNCHANGED <<waiting, sub, run, stop, srvVars, netVars, threadVars,
                   crateVars, tripped, boundVars>>

\* The sockets close, whichever way the process ends.
Leave ==
    /\ step' = "off" /\ waiting' = FALSE
    /\ conn' = [k \in Servers |-> IF conn[k] = "open" THEN "clientGone" ELSE "none"]
    /\ rep' = [k \in Servers |-> "none"]
    /\ UNCHANGED <<sub, run, srvVars, threadVars, crateVars, tripped>>

\* Finished to both servers.
Close ==
    /\ step = "close"
    /\ req' = [k \in Servers |-> IF conn[k] = "open"
                                 THEN Request("finished", 0, run) ELSE req[k]]
    /\ Leave
    /\ UNCHANGED <<stop, boundVars>>

\* A send or receive on a broken connection raises: no power off, no Finished;
\* in the loop the flag is removed on the way out.
OrchestratorRaises ==
    /\ \/ step \in Exchanges /\ conn[To(step)] = "serverGone"
       \/ step \in {"hello", "close"} /\ \E k \in Servers : conn[k] = "serverGone"
    /\ Leave
    /\ stop' = (stop /\ step \in {"hello", "power", "close"})
    /\ UNCHANGED <<req, boundVars>>

OrchestratorKilled ==
    /\ step # "off" /\ Fault
    /\ Leave
    /\ UNCHANGED <<req, stop, trips>>

Orchestrator ==
    Greeted \/ Loop \/ Ask \/ Answered \/ Capture \/ Close \/ OrchestratorRaises

RequestStop ==
    /\ step # "off" /\ ~stop
    /\ stop' = TRUE
    /\ UNCHANGED <<orchVars, srvVars, netVars, threadVars, crateVars, tripped,
                   boundVars>>

-----------------------------------------------------------------------------
(* The servers.                                                            *)

Reply(k, m) ==
    /\ rep' = IF conn[k] = "open" THEN [rep EXCEPT ![k] = m] ELSE rep
    /\ req' = [req EXCEPT ![k] = NoRequest]

Gets(k, verbs) == spc[k] = "idle" /\ req[k].verb \in verbs

GoTo(k, where) == spc' = [spc EXCEPT ![k] = where]

Accept(k) ==
    /\ spc[k] = "accept" /\ req[k].verb = "hello"
    /\ GoTo(k, "idle")
    /\ Reply(k, "connected")
    /\ UNCHANGED <<orchVars, stop, mthread, todo, conn, threadVars, crateVars,
                   tripped, boundVars>>

\* Mutant of BeginMonitoring: the event of the last monitor is still set.
BeginMonitoringStale(k) ==
    /\ Gets(k, {"begin", "lvbegin"})
    /\ LET t == [srv |-> k, run |-> req[k].run, sub |-> req[k].sub]
       IN  live' = live \cup {t} /\ mthread' = [mthread EXCEPT ![k] = t]
    /\ Reply(k, "done")
    /\ UNCHANGED <<orchVars, stop, spc, todo, conn, stopev, failed, crateVars, tripped,
                   boundVars>>

\* A thread is started and takes the place of whatever thread was known.
BeginMonitoring(k) ==
    /\ Gets(k, {"begin", "lvbegin"})
    /\ stopev' = [stopev EXCEPT ![k] = FALSE]
    /\ LET t == [srv |-> k, run |-> req[k].run, sub |-> req[k].sub]
       IN  live' = live \cup {t} /\ mthread' = [mthread EXCEPT ![k] = t]
    /\ Reply(k, "done")
    /\ UNCHANGED <<orchVars, stop, spc, todo, conn, failed, crateVars, tripped,
                   boundVars>>

\* The event is set and the thread joined, here and at the end of an LV session.
StopMonitor(k, next) ==
    /\ mthread[k] # NoThread
    /\ stopev' = [stopev EXCEPT ![k] = TRUE]
    /\ GoTo(k, next)

\* Mutant of EndMonitoring: the thread is waited for and not told to stop.
EndMonitoringNoEvent(k) ==
    /\ Gets(k, {"end", "lvend"})
    /\ \/ mthread[k] # NoThread /\ GoTo(k, "joining") /\ UNCHANGED <<req, rep>>
       \/ mthread[k] = NoThread /\ Reply(k, "stopped") /\ UNCHANGED spc
    /\ UNCHANGED <<orchVars, stop, mthread, todo, conn, threadVars, crateVars,
                   tripped, boundVars>>

EndMonitoring(k) ==
    /\ Gets(k, {"end", "lvend"})
    /\ \/ StopMonitor(k, "joining") /\ UNCHANGED <<req, rep>>
       \/ mthread[k] = NoThread /\ Reply(k, "stopped") /\ UNCHANGED <<spc, stopev>>
    /\ UNCHANGED <<orchVars, stop, mthread, todo, conn, live, failed, crateVars,
                   tripped, boundVars>>

Joined(k) ==
    /\ spc[k] = "joining" /\ mthread[k] \notin live
    /\ mthread' = [mthread EXCEPT ![k] = NoThread]
    /\ GoTo(k, "idle")
    /\ Reply(k, "stopped")
    /\ UNCHANGED <<orchVars, stop, todo, conn, threadVars, crateVars, tripped,
                   boundVars>>

\* The with block is left: the listening and the client socket close.
CloseServer(k) ==
    /\ GoTo(k, "accept")
    /\ conn' = [conn EXCEPT ![k] = IF @ = "open" THEN "serverGone" ELSE "none"]
    /\ req' = [req EXCEPT ![k] = NoRequest]

\* Mutant of Finished: the LV server waits for a thread it has not told to stop.
FinishedNoEvent(k) ==
    /\ Gets(k, {"finished"})
    /\ \/ k = "LV" /\ mthread[k] # NoThread /\ GoTo(k, "lastjoin")
          /\ UNCHANGED <<conn, req>>
       \/ (k = "HV" \/ mthread[k] = NoThread) /\ CloseServer(k)
    /\ UNCHANGED <<orchVars, stop, mthread, todo, rep, threadVars, crateVars,
                   tripped, boundVars>>

\* The LV server joins a monitor thread it still knows before the session ends;
\* the HV server leaves it.
Finished(k) ==
    /\ Gets(k, {"finished"})
    /\ \/ k = "LV" /\ StopMonitor(k, "lastjoin") /\ UNCHANGED <<conn, req>>
       \/ (k = "HV" \/ mthread[k] = NoThread) /\ CloseServer(k) /\ UNCHANGED stopev
    /\ UNCHANGED <<orchVars, stop, mthread, todo, rep, live, failed, crateVars,
                   tripped, boundVars>>

LastJoined(k) ==
    /\ spc[k] = "lastjoin" /\ mthread[k] \notin live
    /\ mthread' = [mthread EXCEPT ![k] = NoThread]
    /\ CloseServer(k)
    /\ UNCHANGED <<orchVars, stop, todo, rep, threadVars, crateVars, tripped,
                   boundVars>>

Check ==
    /\ Gets("LV", {"check"})
    /\ Reply("LV", "ok") \/ Reply("LV", "fail")
    /\ UNCHANGED <<orchVars, stop, srvVars, conn, threadVars, crateVars,
                   tripped, boundVars>>

\* What a client that has gone leads to: '' is an unknown command, answered
\* until the send fails.
ClientVanished(k) ==
    /\ conn[k] = "clientGone" /\ spc[k] \in {"accept", "idle"}
    /\ req[k] = NoRequest
    /\ CloseServer(k)
    /\ UNCHANGED <<orchVars, stop, mthread, todo, rep, threadVars, crateVars,
                   tripped, boundVars>>

\* The crate or the socket fails in a session, which ends; monitor thread and
\* event are left as they are.  The server is then back for the next client.
ServerRaises(k) ==
    /\ conn[k] \in {"open", "clientGone"} /\ spc[k] \notin {"joining", "lastjoin"}
    /\ Fault
    /\ CloseServer(k)
    /\ todo' = IF k = "HV" THEN {} ELSE todo
    /\ UNCHANGED <<orchVars, stop, mthread, rep, threadVars, crateVars, tripped,
                   trips>>

-----------------------------------------------------------------------------
(* set_hvs and power_off_hvs, channel by channel as they may be cut short.  *)

StartSet ==
    /\ Gets("HV", {"start"})
    /\ GoTo("HV", "setting")
    /\ todo' = {c \in Channels : Target[req["HV"].sub][c] # NoSet}
    /\ tripped' = {}
    /\ UNCHANGED <<orchVars, stop, mthread, netVars, threadVars, crateVars,
                   boundVars>>

\* 0 V switches the channel off and leaves its set point alone.
SetChannel(c) ==
    /\ spc["HV"] = "setting" /\ c \in todo
    /\ LET v == Target[req["HV"].sub][c] IN
          /\ power' = [power EXCEPT ![c] = v # 0]
          /\ v0' = IF v = 0 THEN v0 ELSE [v0 EXCEPT ![c] = v]
    /\ todo' = todo \ {c}
    /\ UNCHANGED <<orchVars, stop, spc, mthread, netVars, threadVars, vmon,
                   tripped, boundVars>>

\* Mutant of Ramped: one channel at its voltage makes all_ramped true again.
RampedAny ==
    /\ spc["HV"] = "setting" /\ todo = {}
    /\ \E c \in Channels : vmon[c] = Target[req["HV"].sub][c]
    /\ GoTo("HV", "idle")
    /\ Reply("HV", "HV Set")
    /\ UNCHANGED <<orchVars, stop, mthread, todo, conn, threadVars, crateVars,
                   tripped, boundVars>>

\* The check that finds every channel at its voltage; others have no effect.
Ramped ==
    /\ spc["HV"] = "setting" /\ todo = {}
    /\ \A c \in Channels : Target[req["HV"].sub][c] \in {NoSet, vmon[c]}
    /\ GoTo("HV", "idle")
    /\ Reply("HV", "HV Set")
    /\ UNCHANGED <<orchVars, stop, mthread, todo, conn, threadVars, crateVars,
                   tripped, boundVars>>

\* Mutant of PowerOff: only the channels the last sub-run set are switched off.
PowerOffOfSubRun ==
    /\ Gets("HV", {"power"})
    /\ power' = [c \in Channels |-> power[c] /\ Target[NSub][c] = NoSet]
    /\ Reply("HV", "powered off")
    /\ UNCHANGED <<orchVars, stop, srvVars, conn, threadVars, v0, vmon, tripped,
                   boundVars>>

PowerOff ==
    /\ Gets("HV", {"power"})
    /\ power' = [c \in Channels |-> FALSE]
    /\ Reply("HV", "powered off")
    /\ UNCHANGED <<orchVars, stop, srvVars, conn, threadVars, v0, vmon, tripped,
                   boundVars>>

Server(k) ==
    \/ Accept(k) \/ BeginMonitoring(k) \/ EndMonitoring(k) \/ Joined(k)
    \/ Finished(k) \/ LastJoined(k) \/ ClientVanished(k)
    \/ k = "LV" /\ Check
    \/ k = "HV" /\ (StartSet \/ (\E c \in Channels : SetChannel(c)) \/ Ramped
                     \/ PowerOff)

-----------------------------------------------------------------------------
(* Monitor threads and the crate.                                          *)

\* The head of a monitor's loop, with the event set.
MonitorStops(t) ==
    /\ t \in live /\ stopev[t.srv]
    /\ live' = live \ {t}
    /\ UNCHANGED <<orchVars, stop, srvVars, netVars, stopev, failed, crateVars,
                   tripped, boundVars>>

\* A read or write fails in the thread, which nothing catches and nothing tells
\* the server.  A crate closed with its session makes it happen by itself.
MonitorRaises(t) ==
    /\ t \in live
    /\ \/ t.srv = "HV" /\ (t.run # run \/ spc["HV"] = "accept")
          /\ UNCHANGED <<failed, faults>>
       \/ Fault /\ failed' = failed \cup {t}
    /\ live' = live \ {t}
    /\ UNCHANGED <<orchVars, stop, srvVars, netVars, stopev, crateVars, tripped,
                   trips>>

Goal(c) == IF power[c] THEN v0[c] ELSE 0

Ramps(c) ==
    /\ vmon[c] # Goal(c)
    /\ vmon' = [vmon EXCEPT ![c] = Goal(c)]
    /\ UNCHANGED <<orchVars, stop, srvVars, netVars, threadVars, power, v0,
                   tripped, boundVars>>

Trips(c) ==
    /\ power[c] /\ trips < MaxTrips
    /\ trips' = trips + 1
    /\ power' = [power EXCEPT ![c] = FALSE]
    /\ tripped' = tripped \cup {c}
    /\ UNCHANGED <<orchVars, stop, srvVars, netVars, threadVars, v0, vmon,
                   faults>>

Next ==
    \/ StartRun \/ Orchestrator \/ OrchestratorKilled \/ RequestStop
    \/ \E k \in Servers : Server(k) \/ ServerRaises(k)
    \/ \E t \in live : MonitorStops(t) \/ MonitorRaises(t)
    \/ \E c \in Channels : Ramps(c) \/ Trips(c)

\* The processes and threads run; voltages move.
Fairness ==
    /\ WF_vars(Orchestrator)
    /\ \A k \in Servers : WF_vars(Server(k))
    /\ \A t \in Threads : WF_vars(MonitorStops(t))
    /\ \A c \in Channels : WF_vars(Ramps(c))

Spec == Init /\ [][Next]_vars /\ Fairness

-----------------------------------------------------------------------------
(* Properties.                                                             *)

\* Every variable keeps its type (all of SlowControl).
TypeOK ==
    /\ step \in Steps /\ waiting \in BOOLEAN /\ stop \in BOOLEAN
    /\ sub \in 1..(NSub + 1) /\ run \in 0..MaxRuns
    /\ spc \in [Servers -> {"accept", "idle", "joining", "lastjoin", "setting"}]
    /\ conn \in [Servers -> {"none", "open", "clientGone", "serverGone"}]
    /\ \A k \in Servers :
          req[k].verb \in Exchanges \cup {"none", "hello", "finished"}
    /\ rep \in [Servers -> Replies]
    /\ stopev \in [Servers -> BOOLEAN]
    /\ mthread \in [Servers -> Threads \cup {NoThread}]
    /\ live \subseteq Threads /\ failed \subseteq Threads
    /\ todo \subseteq Channels /\ tripped \subseteq Channels
    /\ power \in [Channels -> BOOLEAN]
    /\ v0 \in [Channels -> Volts \cup {0}] /\ vmon \in [Channels -> Volts \cup {0}]
    /\ faults \in 0..MaxFaults /\ trips \in 0..MaxTrips

\* A capture is only begun with every channel of its sub-run at its voltage, but
\* for those that tripped since the ramp began, whatever earlier ramps and
\* sessions that broke off left on the crate (hv_control.py:86-118).
CaptureAtVoltage ==
    step = "capture" =>
        \A c \in Channels \ tripped : Target[sub][c] \in {NoSet, vmon[c]}

\* A capture begins with the HV monitor of its own sub-run alive, whatever
\* threads and events earlier sessions left behind, unless its session has broken
\* off or a read of that very monitor failed (hv_control.py:61-70).
CaptureMonitored ==
    step = "capture" /\ conn["HV"] = "open" =>
        [srv |-> "HV", run |-> run, sub |-> sub] \in live \cup failed

\* A run that reads the answer to Power Off leaves no channel on, also those
\* its last sub-run did not set (hv_control.py:121-129).
PowerOffComplete ==
    rep["HV"] = "powered off" => \A c \in Channels : ~power[c]

\* Every run ends, however its servers, monitors and connections fail, unless a
\* channel trips (daq_control.py:86-236).
RunEnds == step = "hello" ~> (step = "off" \/ trips > 0)

\* When a run has ended, in whatever way, both servers come back for the next,
\* unless a channel trips.
ServersReturn ==
    step = "off" ~> (\A k \in Servers : spc[k] = "accept") \/ trips > 0

-----------------------------------------------------------------------------
(* What comments and documents say of the program, and it does not do.     *)

\* flask_app/app.py:402-405: a run that is asked to stop in the middle of a ramp
\* ends.  With a tripped channel the ramp is never over.
StopEndsRamp == stop /\ step = "start" /\ waiting ~> step = "off"

=============================================================================
