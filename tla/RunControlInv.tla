---------------------------- MODULE RunControlInv ----------------------------
(* The inductive invariant behind the safety properties of RunControl.     *)
EXTENDS RunControl

StopFlags == flags \cap {"stop_run", "stop_subrun"}

\* Where the orchestrator has a sub-run in hand; has chosen to take it; has
\* its HV set; is between two exchanges with the server.
InHand == {"pausecheck", "paused", "select", "gate", "ramp", "daq",
           "waitStarting", "waitStopped", "readStops", "mark", "post"}
Chosen == {"gate", "ramp", "daq", "waitStarting", "waitStopped", "readStops",
           "mark"}
AtVoltage == {"daq", "waitStarting", "waitStopped", "readStops", "mark"}
Waiting == {"waitStarting", "waitStopped"}
Quiet == DaqPcs \ {"off", "hello", "interrupted", "waitStarting", "waitStopped"}

\* Where the server has a session; before 'starting' is sent; after.
Starting == {"clear", "lock", "acqOn", "launch"}
Running == {"run", "stopping", "acqOff", "release", "markDone", "reply"}
Session == Starting \cup Running

\* The sub-run in hand exists, and a run that resumes chose it unmarked.
SubInv ==
    /\ dpc \in InHand => sub \in SubRuns
    /\ dpc \in Chosen /\ resume => sub \notin marker

\* The conversation, by who is still there.
OpenInv ==
    conn = "open" =>
      /\ dpc # "off"
      /\ dpc = "hello" =>
           \/ vpc = "accept" /\ c2s = <<Cmd("hello", 0)>> /\ s2c = <<>>
           \/ vpc = "idle" /\ c2s = <<>> /\ s2c = <<"connected">>
      /\ dpc \in Quiet => vpc = "idle" /\ c2s = <<>> /\ s2c = <<>>
      /\ dpc = "waitStarting" =>
           \/ vpc = "idle" /\ c2s = <<Cmd("Start", sub)>> /\ s2c = <<>>
           \/ /\ c2s = <<>> /\ vsub = sub
              /\ \/ vpc \in Starting /\ s2c = <<>>
                 \/ vpc \in Running /\ s2c = <<"starting">>
                 \/ vpc = "idle" /\ s2c = <<"error">>
                 \/ vpc = "idle" /\ s2c = <<"starting", "stopped">>
      /\ dpc = "waitStopped" =>
           /\ c2s = <<>> /\ vsub = sub
           /\ \/ vpc \in Running /\ s2c = <<>>
              \/ vpc = "idle" /\ s2c = <<"stopped">>

GoneInv ==
    /\ conn = "serverGone" =>
         /\ dpc # "off" /\ vpc = "accept" /\ c2s = <<>>
         /\ dpc = "hello" => s2c \in {<<>>, <<"connected">>}
         /\ dpc \in Quiet => s2c = <<>>
         /\ dpc = "waitStarting" => s2c \in {<<>>, <<"starting">>, <<"error">>,
                                             <<"starting", "stopped">>}
         /\ dpc = "waitStopped" => s2c \in {<<>>, <<"stopped">>}
    /\ conn = "clientGone" =>
         /\ dpc = "off" /\ s2c = <<>>
         /\ \/ c2s = <<>> /\ vpc # "accept"
            \/ c2s = <<Cmd("hello", 0)>> /\ vpc = "accept"
            \/ c2s = <<Cmd("Finished", 0)>> /\ vpc = "idle"
            \/ /\ vpc = "idle"
               /\ \E s \in SubRuns :
                     /\ c2s = <<Cmd("Start", s)>> /\ hv = s
                     /\ resume => s \notin marker
    /\ conn = "none" => dpc = "off" /\ vpc = "accept" /\ c2s = <<>> /\ s2c = <<>>

\* What a session of the server holds.
SessionInv ==
    /\ dpc # "interrupted"
    /\ vpc \in Session => vsub \in SubRuns /\ hv = vsub
    /\ vpc \in Session /\ resume => vsub \notin marker
    /\ vpc \in Session \ {"clear"} => vsub \notin marker \ retaken
    /\ vpc \in Session \ {"clear", "reply"} => vsub \notin done
    /\ vpc = "reply" => vsub \in done
    /\ vpc \in {"acqOn", "launch", "run", "stopping", "acqOff", "release"} => lock
    /\ vpc \in {"launch", "run", "stopping"} => acq = Ifaces
    /\ procs # {} => vpc \in {"run", "stopping"}
    /\ dpc \in AtVoltage => hv = sub

\* Why a marker may be written: the capture is on disk, or a stop request
\* that cannot go away before it is read forbids the marker.
MarkerInv ==
    /\ marker \ retaken \subseteq done
    /\ dpc = "waitStarting" /\ s2c = <<"starting", "stopped">> => sub \in done
    /\ dpc = "waitStopped" /\ s2c = <<"stopped">> => sub \in done
    /\ dpc = "readStops" => sub \in done \/ StopFlags # {}
    /\ dpc = "mark" => sub \in done

\* The capture loop of the session has been left, 'stopped' perhaps on its way.
LoopLeft ==
    \/ vpc \in Running \ {"run"}
    \/ vpc \in {"idle", "accept"} /\ s2c \in {<<"stopped">>, <<"starting", "stopped">>}

\* Why a capture cut short by a stop request is not marked: from the first
\* touch of a stop script its flag stays up until the orchestrator reads it.
CutShortInv ==
    /\ \A s \in marker \ retaken : ended[s] # "stopped"
    /\ dpc \in {"stopcheck", "pausecheck", "paused", "select", "gate", "ramp",
                "daq", "waitStarting", "waitStopped", "readStops"}
         => (script => StopFlags # {})
    /\ dpc \in Waiting /\ conn = "open" /\ vpc \in {"lock", "acqOn", "launch", "run"}
         => ("stop_vmm" \in flags => StopFlags # {})
    /\ dpc \in Waiting /\ LoopLeft
         => (ended[sub] = "stopped" => StopFlags # {})
    /\ dpc = "readStops" => (ended[sub] = "stopped" => StopFlags # {})
    /\ dpc = "mark" => ended[sub] # "stopped"

IInv ==
    /\ TypeOK /\ SubInv /\ OpenInv /\ GoneInv /\ SessionInv /\ MarkerInv
    /\ CutShortInv

=============================================================================
