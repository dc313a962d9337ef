-------------------------- MODULE SlowControlProofs --------------------------
(***************************************************************************)
(* What TLAPS proves of SlowControl, for any sub-runs, channels, settings  *)
(* and any number of runs, faults and trips.  First the inductive          *)
(* invariant, in named parts; then one lemma per action, with one step per *)
(* part; then the invariance of IInv and the properties it implies.        *)
(***************************************************************************)
EXTENDS SlowControl, TLAPS

Talks(k) == step \in Exchanges /\ To(step) = k

\* The types of SlowControl, and of the whole request.
Verbs == Exchanges \cup {"none", "hello", "finished"}

OrchestratorType ==
    /\ step \in Steps /\ waiting \in BOOLEAN /\ stop \in BOOLEAN
    /\ sub \in 1..(NSub + 1) /\ run \in 0..MaxRuns

SessionType ==
    /\ spc \in [Servers -> {"accept", "idle", "joining", "lastjoin", "setting"}]
    /\ mthread \in [Servers -> Threads \cup {NoThread}]
    /\ todo \subseteq Channels

Requests == [verb : Verbs, sub : 0..(NSub + 1), run : 0..MaxRuns]

ReplyType ==
    /\ conn \in [Servers -> {"none", "open", "clientGone", "serverGone"}]
    /\ rep \in [Servers -> Replies]

RequestType == req \in [Servers -> Requests]

ThreadType ==
    /\ stopev \in [Servers -> BOOLEAN]
    /\ live \subseteq Threads /\ failed \subseteq Threads

CrateType ==
    /\ power \in [Channels -> BOOLEAN]
    /\ v0 \in [Channels -> Volts \cup {0}] /\ vmon \in [Channels -> Volts \cup {0}]
    /\ tripped \subseteq Channels

BoundType == faults \in 0..MaxFaults /\ trips \in 0..MaxTrips

TypeInv == OrchestratorType /\ SessionType /\ ReplyType /\ RequestType /\ ThreadType
           /\ CrateType /\ BoundType

\* Where the orchestrator can be: it waits in an exchange only, and is in one
\* for a sub-run there is.
PlaceInv ==
    /\ step = "hello" => waiting
    /\ step \in {"off", "loop", "capture", "close"} => ~waiting
    /\ step \in (Exchanges \ {"power"}) \cup {"capture"} => sub \in SubRuns
    /\ step # "off" => run \in 1..MaxRuns

\* Which end of a connection is there, and what a server is at without one.
ConnInv == \A k \in Servers :
    /\ step = "off" <=> conn[k] \in {"none", "clientGone"}
    /\ conn[k] \in {"none", "serverGone"} => spc[k] = "accept" /\ req[k] = NoRequest
    /\ spc[k] # "accept" => req[k].verb # "hello"

\* A request a client waits for is the one of its step; only a client that has
\* gone leaves others behind.
RequestInv == \A k \in Servers :
    /\ req[k] # NoRequest /\ conn[k] # "clientGone" =>
          /\ waiting /\ rep[k] = "none"
          /\ \/ step = "hello" /\ req[k].verb = "hello"
             \/ Talks(k) /\ req[k] = Request(step, sub, run)
    /\ req[k].verb \in Exchanges \ {"power"} =>
          req[k].sub \in SubRuns /\ req[k].run \in 1..MaxRuns

\* A reply is there only for who waits for it, and its request is gone.
ReplyInv == \A k \in Servers :
    rep[k] # "none" => waiting /\ (step = "hello" \/ Talks(k)) /\ req[k] = NoRequest

\* The request a server is in the middle of.
ServerInv == \A k \in Servers :
    /\ spc[k] = "joining"  => req[k].verb \in {"end", "lvend"}
    /\ spc[k] = "lastjoin" => req[k].verb = "finished"
    /\ spc[k] = "setting"  => k = "HV" /\ req[k].verb = "start"

\* Set point and power of a channel are those of a sub-run: where its voltage
\* goes is its target.
SetTo(c, s) ==
    Target[s][c] # NoSet =>
        /\ power[c] <=> Target[s][c] # 0
        /\ Target[s][c] # 0 => v0[c] = Target[s][c]

\* set_hvs has set every channel it has no longer to do.
SettingInv ==
    spc["HV"] = "setting" => \A c \in Channels :
        /\ c \in todo => Target[req["HV"].sub][c] # NoSet
        /\ c \notin todo \cup tripped => SetTo(c, req["HV"].sub)

\* From the answer "HV Set" to the end of the capture every channel is where the
\* sub-run wants it and stays there.
VoltageInv ==
    step = "capture" \/ (step = "start" /\ rep["HV"] = "HV Set") =>
        \A c \in Channels \ tripped :
            SetTo(c, sub) /\ Target[sub][c] \in {NoSet, vmon[c]}

\* From the answer to Begin Monitoring to the end of the capture the thread of
\* this sub-run is not told to stop.
MonitorInv ==
    conn["HV"] = "open" /\ (\/ step = "begin" /\ rep["HV"] # "none"
                            \/ step \in {"lvbegin", "start", "capture"}) =>
        /\ [srv |-> "HV", run |-> run, sub |-> sub] \in live \cup failed
        /\ ~stopev["HV"]
        /\ spc["HV"] \in {"idle", "setting"}

IInv ==
    /\ TypeInv /\ PlaceInv /\ ConnInv /\ RequestInv /\ ReplyInv /\ ServerInv
    /\ SettingInv /\ VoltageInv /\ MonitorInv /\ PowerOffComplete

(* Where an answer takes the orchestrator. *)
LEMMA AfterEach == \A s, r :
    /\ s = "check"   => After(s, r) \in {"begin", "loop"}
    /\ s = "begin"   => After(s, r) = "lvbegin"
    /\ s = "lvbegin" => After(s, r) = "start"
    /\ s = "start"   => After(s, r) = "loop" \/ (After(s, r) = "capture" /\ r = "HV Set")
    /\ s = "end"     => After(s, r) = "lvend"
    /\ s = "lvend"   => After(s, r) = "loop"
    /\ s = "power"   => After(s, r) = "close"
  BY Zenon DEF After

(* So for the step of the exchange. *)
LEMMA AnsweredGoes ==
    ASSUME Answered
    PROVE  /\ step = "check"   => step' \in {"begin", "loop"}
           /\ step = "begin"   => step' = "lvbegin"
           /\ step = "lvbegin" => step' = "start"
           /\ step = "start"   => \/ step' = "loop"
                                  \/ step' = "capture" /\ rep["HV"] = "HV Set"
           /\ step = "end"     => step' = "lvend"
           /\ step = "lvend"   => step' = "loop"
           /\ step = "power"   => step' = "close"
<1>1. step = "start" => To(step) = "HV"
  BY DEF To, LVSteps
<1>2. step' = After(step, rep[To(step)])
  BY DEF Answered
<1> QED
  BY <1>1, <1>2, AfterEach

(* What is asked is a request. *)
LEMMA RequestForms ==
    /\ NoRequest \in Requests
    /\ \A v \in Verbs, s \in 0..(NSub + 1), r \in 0..MaxRuns :
          Request(v, s, r) \in Requests
  BY SlowControlAssumption DEF Requests, Request, NoRequest, Verbs

(* What a sub-run sets is one of the voltages. *)
LEMMA TargetVolts ==
    ASSUME NEW s \in SubRuns, NEW c \in Channels, Target[s][c] # NoSet
    PROVE  Target[s][c] \in Volts
<1>1. {Target[s][d] : d \in Channels} \in
          {{Target[q][d] : d \in Channels} : q \in SubRuns}
  OBVIOUS
<1>2. Target[s][c] \in {Target[s][d] : d \in Channels}
  OBVIOUS
<1> QED
  <2>1. Target[s][c] \in UNION {{Target[q][d] : d \in Channels} : q \in SubRuns}
    BY <1>1, <1>2, Zenon
  <2> QED BY <2>1 DEF Volts

(* Whoever sent what a server is working on waits for it, or has gone.     *)
LEMMA Serving ==
    ASSUME IInv, NEW k \in Servers, NEW v \in Exchanges, req[k].verb = v
    PROVE  /\ req[k] # NoRequest
           /\ step = "off" \/ (/\ step = v /\ rep[k] = "none"
                               /\ req[k].sub = sub /\ req[k].run = run)
<1> USE DEF IInv, TypeInv, Servers, Exchanges, HVSteps, LVSteps
<1>1. req[k] # NoRequest
  BY DEF Request, NoRequest
<1>2. CASE conn[k] = "clientGone"
  BY <1>1, <1>2 DEF ConnInv
<1>3. CASE conn[k] # "clientGone"
  BY <1>1, <1>3 DEF RequestInv, Talks, Request
<1> QED
  BY <1>1, <1>2, <1>3

(* The initial states. *)
LEMMA InitIInv ==
    ASSUME Init
    PROVE  IInv
<1>1. OrchestratorType
  <2> USE SlowControlAssumption DEF Init
  <2>1. step \in Steps /\ run \in 0..MaxRuns
    BY DEF Steps
  <2>2. waiting \in BOOLEAN /\ stop \in BOOLEAN
    OBVIOUS
  <2>3. sub \in 1..(NSub + 1)
    OBVIOUS
  <2> QED BY <2>1, <2>2, <2>3 DEF OrchestratorType
<1>2. SessionType
  BY SlowControlAssumption DEF Init, SessionType, Threads, NoThread, SubRuns,
     Servers, Steps, Exchanges, HVSteps, LVSteps, To, Request, NoRequest
<1>3. ReplyType
  BY SlowControlAssumption DEF Init, ReplyType, Replies, SubRuns, Servers,
     Steps, Exchanges, HVSteps, LVSteps, To, Request, NoRequest
<1>4. RequestType
  BY RequestForms DEF Init, RequestType
<1>5. ThreadType
  BY SlowControlAssumption DEF Init, ThreadType, Threads, SubRuns, Servers,
     Steps, Exchanges, HVSteps, LVSteps, To, Request, NoRequest
<1>6. CrateType
  BY SlowControlAssumption DEF Init, CrateType, SubRuns, Servers, Steps,
     Exchanges, HVSteps, LVSteps, To, Request, NoRequest
<1>7. BoundType
  BY SlowControlAssumption DEF Init, BoundType, SubRuns, Servers, Steps,
     Exchanges, HVSteps, LVSteps, To, Request, NoRequest
<1>8. PlaceInv
  BY SlowControlAssumption DEF Init, PlaceInv, SubRuns, Servers, Steps,
     Exchanges, HVSteps, LVSteps, To, Request, NoRequest
<1>9. ConnInv
  BY SlowControlAssumption DEF Init, ConnInv, SubRuns, Servers, Steps,
     Exchanges, HVSteps, LVSteps, To, Request, NoRequest
<1>10. RequestInv
  BY SlowControlAssumption DEF Init, RequestInv, Talks, SubRuns, Servers,
     Steps, Exchanges, HVSteps, LVSteps, To, Request, NoRequest
<1>11. ReplyInv
  BY SlowControlAssumption DEF Init, ReplyInv, Talks, SubRuns, Servers, Steps,
     Exchanges, HVSteps, LVSteps, To, Request, NoRequest
<1>12. ServerInv
  BY SlowControlAssumption DEF Init, ServerInv, SubRuns, Servers, Steps,
     Exchanges, HVSteps, LVSteps, To, Request, NoRequest
<1>13. SettingInv
  BY SlowControlAssumption DEF Init, SettingInv, SetTo, SubRuns, Servers,
     Steps, Exchanges, HVSteps, LVSteps, To, Request, NoRequest
<1>14. VoltageInv
  BY SlowControlAssumption DEF Init, VoltageInv, SetTo, SubRuns, Servers,
     Steps, Exchanges, HVSteps, LVSteps, To, Request, NoRequest
<1>15. MonitorInv
  BY SlowControlAssumption DEF Init, MonitorInv, Threads, SubRuns, Servers,
     Steps, Exchanges, HVSteps, LVSteps, To, Request, NoRequest
<1>16. PowerOffComplete
  BY SlowControlAssumption DEF Init, PowerOffComplete, SubRuns, Servers, Steps,
     Exchanges, HVSteps, LVSteps, To, Request, NoRequest
<1> QED
  BY <1>1, <1>2, <1>3, <1>4, <1>5, <1>6, <1>7, <1>8, <1>9, <1>10, <1>11, <1>12,
     <1>13, <1>14, <1>15, <1>16 DEF IInv, TypeInv

(* StartRun keeps the invariant. *)
LEMMA StartRunStep ==
    ASSUME IInv, StartRun
    PROVE  IInv'
<1> USE DEF IInv, TypeInv, StartRun, orchVars, srvVars, netVars, threadVars,
      crateVars, boundVars, SubRuns, Servers, Steps, Exchanges, HVSteps,
      LVSteps, To
<1>1. SessionType' /\ ThreadType' /\ CrateType' /\ BoundType'
  BY DEF SessionType, ThreadType, CrateType, BoundType
<1>2. OrchestratorType'
  BY SlowControlAssumption DEF OrchestratorType
<1>3. ReplyType'
  BY DEF ReplyType, Replies
<1>4. RequestType'
  BY RequestForms, SlowControlAssumption DEF RequestType, OrchestratorType,
     Verbs
<1>5. PlaceInv'
  BY SlowControlAssumption DEF PlaceInv, OrchestratorType
<1>6. ConnInv'
  BY DEF ConnInv
<1>7. RequestInv'
  BY DEF RequestInv, Talks, PlaceInv, ConnInv, ReplyInv, Request, NoRequest
<1>8. ReplyInv'
  BY DEF ReplyInv, Talks
<1>9. ServerInv'
  BY DEF ServerInv
<1>10. SettingInv'
  BY DEF SettingInv, SetTo
<1>11. VoltageInv'
  BY DEF VoltageInv, SetTo
<1>12. MonitorInv'
  BY DEF MonitorInv
<1>13. PowerOffComplete'
  BY DEF PowerOffComplete
<1> QED
  BY <1>1, <1>2, <1>3, <1>4, <1>5, <1>6, <1>7, <1>8, <1>9, <1>10, <1>11, <1>12,
     <1>13

(* Greeted keeps the invariant. *)
LEMMA GreetedStep ==
    ASSUME IInv, Greeted
    PROVE  IInv'
<1> USE DEF IInv, TypeInv, Greeted, orchVars, srvVars, netVars, threadVars,
      crateVars, boundVars, SubRuns, Servers, Steps, Exchanges, HVSteps,
      LVSteps, To
<1>1. SessionType' /\ RequestType' /\ ThreadType' /\ CrateType' /\ BoundType'
      /\ ServerInv' /\ SettingInv'
  BY DEF SessionType, RequestType, ThreadType, CrateType, BoundType, ServerInv,
     SettingInv, SetTo
<1>2. OrchestratorType'
  BY DEF OrchestratorType
<1>3. ReplyType'
  BY DEF ReplyType, Replies
<1>4. PlaceInv'
  BY DEF PlaceInv
<1>5. ConnInv'
  BY DEF ConnInv
<1>6. RequestInv'
  BY DEF RequestInv, Talks, PlaceInv, ConnInv, ReplyInv, Request, NoRequest
<1>7. ReplyInv'
  BY DEF ReplyInv, Talks
<1>8. VoltageInv'
  BY DEF VoltageInv, SetTo
<1>9. MonitorInv'
  BY DEF MonitorInv
<1>10. PowerOffComplete'
  BY DEF PowerOffComplete
<1> QED
  BY <1>1, <1>2, <1>3, <1>4, <1>5, <1>6, <1>7, <1>8, <1>9, <1>10

(* Loop keeps the invariant. *)
LEMMA LoopStep ==
    ASSUME IInv, Loop
    PROVE  IInv'
<1> USE DEF IInv, TypeInv, Loop, Ends, orchVars, srvVars, netVars, threadVars,
      crateVars, boundVars, SubRuns, Servers, Steps, Exchanges, HVSteps,
      LVSteps, To
<1>1. SessionType' /\ ReplyType' /\ RequestType' /\ ThreadType' /\ CrateType'
      /\ BoundType' /\ ServerInv' /\ SettingInv' /\ PowerOffComplete'
  BY DEF SessionType, ReplyType, RequestType, ThreadType, CrateType, BoundType,
     ServerInv, SettingInv, SetTo, PowerOffComplete
<1>2. OrchestratorType'
  BY DEF OrchestratorType
<1>3. PlaceInv'
  BY SlowControlAssumption DEF PlaceInv, OrchestratorType
<1>4. ConnInv'
  BY DEF ConnInv
<1>5. RequestInv'
  BY DEF RequestInv, Talks
<1>6. ReplyInv'
  BY DEF ReplyInv, Talks
<1>7. VoltageInv'
  BY DEF VoltageInv, SetTo
<1>8. MonitorInv'
  BY DEF MonitorInv, Threads, PlaceInv, ConnInv, RequestInv, ReplyInv,
     ServerInv, Talks, Request, NoRequest
<1> QED
  BY <1>1, <1>2, <1>3, <1>4, <1>5, <1>6, <1>7, <1>8

(* Ask keeps the invariant. *)
LEMMA AskStep ==
    ASSUME IInv, Ask
    PROVE  IInv'
<1> USE DEF IInv, TypeInv, Ask, orchVars, srvVars, netVars, threadVars,
      crateVars, boundVars, SubRuns, Servers, Steps, Exchanges, HVSteps,
      LVSteps, To
<1>0. \A k \in Servers : conn[k] = "open" => req[k] = NoRequest
  BY DEF RequestInv, Request, NoRequest
<1>1. SessionType' /\ ReplyType' /\ ThreadType' /\ CrateType' /\ BoundType' /\
      VoltageInv' /\ MonitorInv' /\ PowerOffComplete'
  BY DEF SessionType, ReplyType, ThreadType, CrateType, BoundType, VoltageInv,
     SetTo, MonitorInv, PowerOffComplete
<1>2. OrchestratorType'
  BY <1>0 DEF OrchestratorType
<1>3. RequestType'
  BY <1>0, RequestForms, SlowControlAssumption DEF RequestType,
     OrchestratorType, Verbs
<1>4. PlaceInv'
  BY <1>0 DEF PlaceInv
<1>5. ConnInv'
  BY <1>0 DEF ConnInv, PlaceInv, RequestInv, ServerInv, Request, NoRequest
<1>6. RequestInv'
  BY <1>0 DEF RequestInv, Talks, PlaceInv, ConnInv, ReplyInv, Request,
     NoRequest
<1>7. ReplyInv'
  BY DEF ReplyInv, PlaceInv
<1>8. ServerInv'
  BY <1>0 DEF ServerInv, ConnInv, RequestInv, Talks, Request, NoRequest
<1>9. SettingInv'
  BY <1>0 DEF SettingInv, SetTo, ConnInv, RequestInv, ServerInv, Talks,
     Request, NoRequest
<1> QED
  BY <1>1, <1>2, <1>3, <1>4, <1>5, <1>6, <1>7, <1>8, <1>9

(* Answered keeps the invariant. *)
LEMMA AnsweredStep ==
    ASSUME IInv, Answered
    PROVE  IInv'
<1> USE DEF IInv, TypeInv, Answered, orchVars, srvVars, netVars, threadVars,
      crateVars, boundVars, SubRuns, Servers, Steps, Exchanges, HVSteps,
      LVSteps, To
<1>1. SessionType' /\ RequestType' /\ ThreadType' /\ CrateType' /\ BoundType'
      /\ ServerInv' /\ SettingInv'
  BY DEF SessionType, RequestType, ThreadType, CrateType, BoundType, ServerInv,
     SettingInv, SetTo
<1>2. OrchestratorType'
  <2>1. step' \in {"begin", "lvbegin", "start", "loop", "capture", "lvend", "close"}
    BY AnsweredGoes
  <2>2. step' = "loop" => sub \in 1..NSub
    BY AnsweredGoes DEF PlaceInv
  <2>3. sub' \in 1..(NSub + 1)
    BY <2>2, SlowControlAssumption DEF OrchestratorType
  <2>4. stop' \in BOOLEAN /\ waiting' \in BOOLEAN /\ run' \in 0..MaxRuns
    BY DEF OrchestratorType
  <2> QED BY <2>1, <2>3, <2>4 DEF OrchestratorType
<1>3. ReplyType'
  BY AnsweredGoes DEF ReplyType, Replies
<1>4. PlaceInv'
  BY AnsweredGoes DEF PlaceInv
<1>5. ConnInv'
  BY AnsweredGoes DEF ConnInv
<1>6. RequestInv'
  BY AnsweredGoes DEF RequestInv, Talks, PlaceInv, ConnInv, ReplyInv, Request,
     NoRequest
<1>7. ReplyInv'
  BY AnsweredGoes DEF ReplyInv, Talks, OrchestratorType, RequestType, Requests,
     Verbs, ReplyType
<1>8. VoltageInv'
  BY AnsweredGoes, SlowControlAssumption DEF VoltageInv, SetTo,
     OrchestratorType, SessionType, RequestType, Requests, Verbs, ReplyType,
     CrateType, PlaceInv, ConnInv, RequestInv, ReplyInv, ServerInv, SettingInv,
     Talks, Request, NoRequest
<1>9. MonitorInv'
  BY AnsweredGoes DEF MonitorInv, Threads, OrchestratorType, SessionType,
     RequestType, Requests, Verbs, ReplyType, ThreadType, PlaceInv, ConnInv,
     RequestInv, ReplyInv, ServerInv, Talks, Request, NoRequest
<1>10. PowerOffComplete'
  BY AnsweredGoes DEF PowerOffComplete, ReplyType, RequestType, Requests,
     Verbs, CrateType
<1> QED
  BY <1>1, <1>2, <1>3, <1>4, <1>5, <1>6, <1>7, <1>8, <1>9, <1>10

(* Capture keeps the invariant. *)
LEMMA CaptureStep ==
    ASSUME IInv, Capture
    PROVE  IInv'
<1> USE DEF IInv, TypeInv, Capture, orchVars, srvVars, netVars, threadVars,
      crateVars, boundVars, SubRuns, Servers, Steps, Exchanges, HVSteps,
      LVSteps, To
<1>1. SessionType' /\ ReplyType' /\ RequestType' /\ ThreadType' /\ CrateType'
      /\ BoundType' /\ ServerInv' /\ SettingInv' /\ PowerOffComplete'
  BY DEF SessionType, ReplyType, RequestType, ThreadType, CrateType, BoundType,
     ServerInv, SettingInv, SetTo, PowerOffComplete
<1>2. OrchestratorType'
  BY DEF OrchestratorType
<1>3. PlaceInv'
  BY DEF PlaceInv
<1>4. ConnInv'
  BY DEF ConnInv
<1>5. RequestInv'
  BY DEF RequestInv, Talks
<1>6. ReplyInv'
  BY DEF ReplyInv, Talks
<1>7. VoltageInv'
  BY DEF VoltageInv, SetTo
<1>8. MonitorInv'
  BY DEF MonitorInv
<1> QED
  BY <1>1, <1>2, <1>3, <1>4, <1>5, <1>6, <1>7, <1>8

(* Close keeps the invariant. *)
LEMMA CloseStep ==
    ASSUME IInv, Close
    PROVE  IInv'
<1> USE DEF IInv, TypeInv, Close, Leave, orchVars, srvVars, netVars,
      threadVars, crateVars, boundVars, SubRuns, Servers, Steps, Exchanges,
      HVSteps, LVSteps, To
<1>1. SessionType' /\ ThreadType' /\ CrateType' /\ BoundType'
  BY DEF SessionType, ThreadType, CrateType, BoundType
<1>2. OrchestratorType'
  BY DEF OrchestratorType
<1>3. ReplyType'
  BY DEF ReplyType, Replies
<1>4. RequestType'
  BY RequestForms, SlowControlAssumption DEF RequestType, OrchestratorType,
     Verbs
<1>5. PlaceInv'
  BY DEF PlaceInv
<1>6. ConnInv'
  BY DEF ConnInv, OrchestratorType, SessionType, ReplyType, RequestType,
     Requests, Verbs, PlaceInv, RequestInv, ServerInv, Request, NoRequest
<1>7. RequestInv'
  BY DEF RequestInv, Talks, PlaceInv, ConnInv, ReplyInv, Request, NoRequest
<1>8. ReplyInv'
  BY DEF ReplyInv, Talks
<1>9. ServerInv'
  BY DEF ServerInv, ConnInv, RequestInv, Talks, Request, NoRequest
<1>10. SettingInv'
  BY DEF SettingInv, SetTo, ConnInv, RequestInv, ServerInv, Talks, Request,
     NoRequest
<1>11. VoltageInv'
  BY DEF VoltageInv, SetTo
<1>12. MonitorInv'
  BY DEF MonitorInv
<1>13. PowerOffComplete'
  BY DEF PowerOffComplete
<1> QED
  BY <1>1, <1>2, <1>3, <1>4, <1>5, <1>6, <1>7, <1>8, <1>9, <1>10, <1>11, <1>12,
     <1>13

(* OrchestratorRaises keeps the invariant. *)
LEMMA OrchestratorRaisesStep ==
    ASSUME IInv, OrchestratorRaises
    PROVE  IInv'
<1> USE DEF IInv, TypeInv, OrchestratorRaises, Leave, orchVars, srvVars,
      netVars, threadVars, crateVars, boundVars, SubRuns, Servers, Steps,
      Exchanges, HVSteps, LVSteps, To
<1>1. SessionType' /\ RequestType' /\ ThreadType' /\ CrateType' /\ BoundType'
      /\ ServerInv' /\ SettingInv'
  BY DEF SessionType, RequestType, ThreadType, CrateType, BoundType, ServerInv,
     SettingInv, SetTo
<1>2. OrchestratorType'
  BY DEF OrchestratorType
<1>3. ReplyType'
  BY DEF ReplyType, Replies
<1>4. PlaceInv'
  BY DEF PlaceInv
<1>5. ConnInv'
  BY DEF ConnInv, OrchestratorType, SessionType, ReplyType, RequestType,
     Requests, Verbs
<1>6. RequestInv'
  BY SlowControlAssumption DEF RequestInv, Talks, OrchestratorType,
     RequestType, Requests, Verbs, ReplyType, PlaceInv, ConnInv, ReplyInv,
     Request, NoRequest
<1>7. ReplyInv'
  BY DEF ReplyInv, Talks
<1>8. VoltageInv'
  BY DEF VoltageInv, SetTo
<1>9. MonitorInv'
  BY DEF MonitorInv
<1>10. PowerOffComplete'
  BY DEF PowerOffComplete
<1> QED
  BY <1>1, <1>2, <1>3, <1>4, <1>5, <1>6, <1>7, <1>8, <1>9, <1>10

(* OrchestratorKilled keeps the invariant. *)
LEMMA OrchestratorKilledStep ==
    ASSUME IInv, OrchestratorKilled
    PROVE  IInv'
<1> USE DEF IInv, TypeInv, OrchestratorKilled, Leave, Fault, orchVars, srvVars,
      netVars, threadVars, crateVars, boundVars, SubRuns, Servers, Steps,
      Exchanges, HVSteps, LVSteps, To
<1>1. SessionType' /\ RequestType' /\ ThreadType' /\ CrateType' /\ ServerInv'
      /\ SettingInv'
  BY DEF SessionType, RequestType, ThreadType, CrateType, ServerInv,
     SettingInv, SetTo
<1>2. OrchestratorType'
  BY DEF OrchestratorType
<1>3. ReplyType'
  BY DEF ReplyType, Replies
<1>4. BoundType'
  BY SlowControlAssumption DEF BoundType
<1>5. PlaceInv'
  BY DEF PlaceInv
<1>6. ConnInv'
  BY DEF ConnInv, OrchestratorType, SessionType, ReplyType, RequestType,
     Requests, Verbs
<1>7. RequestInv'
  BY SlowControlAssumption DEF RequestInv, Talks, OrchestratorType,
     RequestType, Requests, Verbs, ReplyType, PlaceInv, ConnInv, ReplyInv,
     Request, NoRequest
<1>8. ReplyInv'
  BY DEF ReplyInv, Talks
<1>9. VoltageInv'
  BY DEF VoltageInv, SetTo
<1>10. MonitorInv'
  BY DEF MonitorInv
<1>11. PowerOffComplete'
  BY DEF PowerOffComplete
<1> QED
  BY <1>1, <1>2, <1>3, <1>4, <1>5, <1>6, <1>7, <1>8, <1>9, <1>10, <1>11

(* RequestStop keeps the invariant. *)
LEMMA RequestStopStep ==
    ASSUME IInv, RequestStop
    PROVE  IInv'
<1> USE DEF IInv, TypeInv, RequestStop, orchVars, srvVars, netVars, threadVars,
      crateVars, boundVars, SubRuns, Servers, Steps, Exchanges, HVSteps,
      LVSteps, To
<1>1. SessionType' /\ ReplyType' /\ RequestType' /\ ThreadType' /\ CrateType'
      /\ BoundType'
  BY DEF SessionType, ReplyType, RequestType, ThreadType, CrateType, BoundType
<1>2. PlaceInv' /\ ConnInv' /\ RequestInv' /\ ReplyInv' /\ ServerInv' /\
      SettingInv' /\ VoltageInv' /\ MonitorInv' /\ PowerOffComplete'
  BY DEF PlaceInv, ConnInv, RequestInv, Talks, ReplyInv, ServerInv, SettingInv,
     SetTo, VoltageInv, MonitorInv, PowerOffComplete
<1>3. OrchestratorType'
  BY DEF OrchestratorType
<1> QED
  BY <1>1, <1>2, <1>3

(* Accept keeps the invariant. *)
LEMMA AcceptStep ==
    ASSUME IInv, NEW k \in Servers, Accept(k)
    PROVE  IInv'
<1> USE DEF IInv, TypeInv, Accept, GoTo, Reply, orchVars, srvVars, netVars,
      threadVars, crateVars, boundVars, SubRuns, Servers, Steps, Exchanges,
      HVSteps, LVSteps, To
<1>1. OrchestratorType' /\ ThreadType' /\ CrateType' /\ BoundType' /\ PlaceInv'
  BY DEF OrchestratorType, ThreadType, CrateType, BoundType, PlaceInv
<1>2. SessionType'
  BY DEF SessionType
<1>3. ReplyType'
  BY DEF ReplyType, Replies
<1>4. RequestType'
  BY RequestForms, SlowControlAssumption DEF RequestType, OrchestratorType,
     Verbs
<1>5. ConnInv'
  BY DEF ConnInv, OrchestratorType, SessionType, ReplyType, RequestType,
     Requests, Verbs, PlaceInv, RequestInv, ServerInv, Request, NoRequest
<1>6. RequestInv'
  BY SlowControlAssumption DEF RequestInv, Talks, OrchestratorType,
     RequestType, Requests, Verbs, ReplyType, PlaceInv, ConnInv, ReplyInv,
     Request, NoRequest
<1>7. ReplyInv'
  BY DEF ReplyInv, Talks, OrchestratorType, RequestType, Requests, Verbs,
     ReplyType, PlaceInv, ConnInv, RequestInv, ServerInv, Request, NoRequest
<1>8. ServerInv'
  BY DEF ServerInv
<1>9. SettingInv'
  BY DEF SettingInv, SetTo
<1>10. VoltageInv'
  BY SlowControlAssumption DEF VoltageInv, SetTo, OrchestratorType,
     SessionType, RequestType, Requests, Verbs, ReplyType, CrateType
<1>11. MonitorInv'
  BY DEF MonitorInv, Threads, PlaceInv, ConnInv, RequestInv, ReplyInv,
     ServerInv, Talks, Request, NoRequest
<1>12. PowerOffComplete'
  BY DEF PowerOffComplete, ReplyType, RequestType, Requests, Verbs, CrateType
<1> QED
  BY <1>1, <1>2, <1>3, <1>4, <1>5, <1>6, <1>7, <1>8, <1>9, <1>10, <1>11, <1>12

(* BeginMonitoring keeps the invariant. *)
LEMMA BeginMonitoringStep ==
    ASSUME IInv, NEW k \in Servers, BeginMonitoring(k)
    PROVE  IInv'
<1> USE DEF IInv, TypeInv, BeginMonitoring, Gets, Reply, orchVars, srvVars,
      netVars, threadVars, crateVars, boundVars, SubRuns, Servers, Steps,
      Exchanges, HVSteps, LVSteps, To
<1>1. OrchestratorType' /\ CrateType' /\ BoundType' /\ PlaceInv'
  BY DEF OrchestratorType, CrateType, BoundType, PlaceInv
<1>2. SessionType'
  BY DEF SessionType, Threads, NoThread, RequestInv
<1>3. ReplyType'
  BY DEF ReplyType, Replies
<1>4. RequestType'
  BY RequestForms, SlowControlAssumption DEF RequestType, OrchestratorType,
     Verbs
<1>5. ThreadType'
  BY DEF ThreadType, Threads, RequestInv
<1>6. ConnInv'
  BY DEF ConnInv, PlaceInv, RequestInv, ServerInv, Request, NoRequest
<1>7. RequestInv'
  BY SlowControlAssumption DEF RequestInv, Talks, OrchestratorType,
     RequestType, Requests, Verbs, ReplyType, PlaceInv, ConnInv, ReplyInv,
     Request, NoRequest
<1>8. ReplyInv'
  BY DEF ReplyInv, Talks, OrchestratorType, RequestType, Requests, Verbs,
     ReplyType, PlaceInv, ConnInv, RequestInv, ServerInv, Request, NoRequest
<1>9. ServerInv'
  BY DEF ServerInv
<1>10. SettingInv'
  BY DEF SettingInv, SetTo
<1>11. VoltageInv'
  BY SlowControlAssumption DEF VoltageInv, SetTo, OrchestratorType,
     SessionType, RequestType, Requests, Verbs, ReplyType, CrateType
<1>12. MonitorInv'
  BY DEF MonitorInv, Threads, OrchestratorType, SessionType, RequestType,
     Requests, Verbs, ReplyType, ThreadType, PlaceInv, ConnInv, RequestInv,
     ReplyInv, ServerInv, Talks, Request, NoRequest
<1>13. PowerOffComplete'
  BY DEF PowerOffComplete, ReplyType, RequestType, Requests, Verbs, CrateType
<1> QED
  BY <1>1, <1>2, <1>3, <1>4, <1>5, <1>6, <1>7, <1>8, <1>9, <1>10, <1>11, <1>12,
     <1>13

(* EndMonitoring keeps the invariant. *)
LEMMA EndMonitoringStep ==
    ASSUME IInv, NEW k \in Servers, EndMonitoring(k)
    PROVE  IInv'
<1> USE DEF IInv, TypeInv, EndMonitoring, StopMonitor, NoThread, Gets, GoTo,
      Reply, orchVars, srvVars, netVars, threadVars, crateVars, boundVars,
      SubRuns, Servers, Steps, Exchanges, HVSteps, LVSteps, To
<1>1. OrchestratorType' /\ CrateType' /\ BoundType' /\ PlaceInv'
  BY DEF OrchestratorType, CrateType, BoundType, PlaceInv
<1>2. SessionType'
  BY DEF SessionType
<1>3. ReplyType'
  BY DEF ReplyType, Replies
<1>4. RequestType'
  BY RequestForms, SlowControlAssumption DEF RequestType, OrchestratorType,
     Verbs
<1>5. ThreadType'
  BY DEF ThreadType
<1>6. ConnInv'
  BY DEF ConnInv, OrchestratorType, SessionType, ReplyType, RequestType,
     Requests, Verbs, PlaceInv, RequestInv, ServerInv, Request, NoRequest
<1>7. RequestInv'
  BY SlowControlAssumption DEF RequestInv, Talks, OrchestratorType,
     RequestType, Requests, Verbs, ReplyType, PlaceInv, ConnInv, ReplyInv,
     Request, NoRequest
<1>8. ReplyInv'
  BY DEF ReplyInv, Talks, OrchestratorType, RequestType, Requests, Verbs,
     ReplyType, PlaceInv, ConnInv, RequestInv, ServerInv, Request, NoRequest
<1>9. ServerInv'
  BY DEF ServerInv, OrchestratorType, SessionType, RequestType, Requests, Verbs
<1>10. SettingInv'
  BY SlowControlAssumption DEF SettingInv, SetTo, SessionType, RequestType,
     Requests, Verbs, CrateType
<1>11. VoltageInv'
  BY SlowControlAssumption DEF VoltageInv, SetTo, OrchestratorType,
     SessionType, RequestType, Requests, Verbs, ReplyType, CrateType
<1>12. MonitorInv'
  BY DEF MonitorInv, Threads, PlaceInv, ConnInv, RequestInv, ReplyInv,
     ServerInv, Talks, Request, NoRequest
<1>13. PowerOffComplete'
  BY DEF PowerOffComplete, ReplyType, RequestType, Requests, Verbs, CrateType
<1> QED
  BY <1>1, <1>2, <1>3, <1>4, <1>5, <1>6, <1>7, <1>8, <1>9, <1>10, <1>11, <1>12,
     <1>13

(* Joined keeps the invariant. *)
LEMMA JoinedStep ==
    ASSUME IInv, NEW k \in Servers, Joined(k)
    PROVE  IInv'
<1> USE DEF IInv, TypeInv, Joined, NoThread, GoTo, Reply, orchVars, srvVars,
      netVars, threadVars, crateVars, boundVars, SubRuns, Servers, Steps,
      Exchanges, HVSteps, LVSteps, To
<1>1. OrchestratorType' /\ ThreadType' /\ CrateType' /\ BoundType' /\ PlaceInv'
  BY DEF OrchestratorType, ThreadType, CrateType, BoundType, PlaceInv
<1>2. SessionType'
  BY DEF SessionType
<1>3. ReplyType'
  BY DEF ReplyType, Replies
<1>4. RequestType'
  BY RequestForms, SlowControlAssumption DEF RequestType, OrchestratorType,
     Verbs
<1>5. ConnInv'
  BY DEF ConnInv, PlaceInv, RequestInv, ServerInv, Request, NoRequest
<1>6. RequestInv'
  BY SlowControlAssumption DEF RequestInv, Talks, OrchestratorType,
     RequestType, Requests, Verbs, ReplyType, PlaceInv, ConnInv, ReplyInv,
     Request, NoRequest
<1>7. ReplyInv'
  BY DEF ReplyInv, Talks, OrchestratorType, RequestType, Requests, Verbs,
     ReplyType, PlaceInv, ConnInv, RequestInv, ServerInv, Request, NoRequest
<1>8. ServerInv'
  BY DEF ServerInv, OrchestratorType, SessionType, RequestType, Requests, Verbs
<1>9. SettingInv'
  BY DEF SettingInv, SetTo
<1>10. VoltageInv'
  BY SlowControlAssumption DEF VoltageInv, SetTo, OrchestratorType,
     SessionType, RequestType, Requests, Verbs, ReplyType, CrateType
<1>11. MonitorInv'
  BY DEF MonitorInv, Threads, PlaceInv, ConnInv, RequestInv, ReplyInv,
     ServerInv, Talks, Request, NoRequest
<1>12. PowerOffComplete'
  BY DEF PowerOffComplete, ReplyType, RequestType, Requests, Verbs, CrateType
<1> QED
  BY <1>1, <1>2, <1>3, <1>4, <1>5, <1>6, <1>7, <1>8, <1>9, <1>10, <1>11, <1>12

(* Finished keeps the invariant. *)
LEMMA FinishedStep ==
    ASSUME IInv, NEW k \in Servers, Finished(k)
    PROVE  IInv'
<1> USE DEF IInv, TypeInv, Finished, StopMonitor, NoThread, Gets, GoTo,
      CloseServer, orchVars, srvVars, netVars, threadVars, crateVars,
      boundVars, SubRuns, Servers, Steps, Exchanges, HVSteps, LVSteps, To
<1>1. OrchestratorType' /\ CrateType' /\ BoundType' /\ PlaceInv' /\ VoltageInv'
      /\ PowerOffComplete'
  BY DEF OrchestratorType, CrateType, BoundType, PlaceInv, VoltageInv, SetTo,
     PowerOffComplete
<1>2. SessionType'
  BY DEF SessionType
<1>3. ReplyType'
  BY DEF ReplyType
<1>4. RequestType'
  BY RequestForms, SlowControlAssumption DEF RequestType, OrchestratorType,
     Verbs
<1>5. ThreadType'
  BY DEF ThreadType
<1>6. ConnInv'
  BY DEF ConnInv, OrchestratorType, SessionType, ReplyType, RequestType,
     Requests, Verbs
<1>7. RequestInv'
  BY SlowControlAssumption DEF RequestInv, Talks, OrchestratorType,
     RequestType, Requests, Verbs, ReplyType, PlaceInv, ConnInv, ReplyInv,
     Request, NoRequest
<1>8. ReplyInv'
  BY DEF ReplyInv, Talks, PlaceInv, ConnInv, RequestInv, ServerInv, Request,
     NoRequest
<1>9. ServerInv'
  BY DEF ServerInv, OrchestratorType, SessionType, RequestType, Requests, Verbs
<1>10. SettingInv'
  BY SlowControlAssumption DEF SettingInv, SetTo, SessionType, RequestType,
     Requests, Verbs, CrateType
<1>11. MonitorInv'
  BY DEF MonitorInv, Threads, PlaceInv, ConnInv, RequestInv, ReplyInv,
     ServerInv, Talks, Request, NoRequest
<1> QED
  BY <1>1, <1>2, <1>3, <1>4, <1>5, <1>6, <1>7, <1>8, <1>9, <1>10, <1>11

(* LastJoined keeps the invariant. *)
LEMMA LastJoinedStep ==
    ASSUME IInv, NEW k \in Servers, LastJoined(k)
    PROVE  IInv'
<1> USE DEF IInv, TypeInv, LastJoined, NoThread, GoTo, CloseServer, orchVars,
      srvVars, netVars, threadVars, crateVars, boundVars, SubRuns, Servers,
      Steps, Exchanges, HVSteps, LVSteps, To
<1>1. OrchestratorType' /\ ThreadType' /\ CrateType' /\ BoundType' /\ PlaceInv'
      /\ VoltageInv' /\ PowerOffComplete'
  BY DEF OrchestratorType, ThreadType, CrateType, BoundType, PlaceInv,
     VoltageInv, SetTo, PowerOffComplete
<1>2. SessionType'
  BY DEF SessionType
<1>3. ReplyType'
  BY DEF ReplyType
<1>4. RequestType'
  BY RequestForms, SlowControlAssumption DEF RequestType, OrchestratorType,
     Verbs
<1>5. ConnInv'
  BY DEF ConnInv, OrchestratorType, SessionType, ReplyType, RequestType,
     Requests, Verbs
<1>6. RequestInv'
  BY SlowControlAssumption DEF RequestInv, Talks, OrchestratorType,
     RequestType, Requests, Verbs, ReplyType, PlaceInv, ConnInv, ReplyInv,
     Request, NoRequest
<1>7. ReplyInv'
  BY DEF ReplyInv, Talks
<1>8. ServerInv'
  BY DEF ServerInv, OrchestratorType, SessionType, RequestType, Requests, Verbs
<1>9. SettingInv'
  BY DEF SettingInv, SetTo
<1>10. MonitorInv'
  BY DEF MonitorInv
<1> QED
  BY <1>1, <1>2, <1>3, <1>4, <1>5, <1>6, <1>7, <1>8, <1>9, <1>10

(* ClientVanished keeps the invariant. *)
LEMMA ClientVanishedStep ==
    ASSUME IInv, NEW k \in Servers, ClientVanished(k)
    PROVE  IInv'
<1> USE DEF IInv, TypeInv, ClientVanished, GoTo, CloseServer, orchVars,
      srvVars, netVars, threadVars, crateVars, boundVars, SubRuns, Servers,
      Steps, Exchanges, HVSteps, LVSteps, To
<1>1. OrchestratorType' /\ ThreadType' /\ CrateType' /\ BoundType' /\ PlaceInv'
      /\ VoltageInv' /\ PowerOffComplete'
  BY DEF OrchestratorType, ThreadType, CrateType, BoundType, PlaceInv,
     VoltageInv, SetTo, PowerOffComplete
<1>2. SessionType'
  BY DEF SessionType
<1>3. ReplyType'
  BY DEF ReplyType
<1>4. RequestType'
  BY DEF RequestType
<1>5. ConnInv'
  BY DEF ConnInv, OrchestratorType, SessionType, ReplyType, RequestType,
     Requests, Verbs
<1>6. RequestInv'
  BY DEF RequestInv, Talks
<1>7. ReplyInv'
  BY DEF ReplyInv, Talks
<1>8. ServerInv'
  BY DEF ServerInv
<1>9. SettingInv'
  BY DEF SettingInv, SetTo
<1>10. MonitorInv'
  BY DEF MonitorInv
<1> QED
  BY <1>1, <1>2, <1>3, <1>4, <1>5, <1>6, <1>7, <1>8, <1>9, <1>10

(* ServerRaises keeps the invariant. *)
LEMMA ServerRaisesStep ==
    ASSUME IInv, NEW k \in Servers, ServerRaises(k)
    PROVE  IInv'
<1> USE DEF IInv, TypeInv, ServerRaises, GoTo, CloseServer, Fault, orchVars,
      srvVars, netVars, threadVars, crateVars, boundVars, SubRuns, Servers,
      Steps, Exchanges, HVSteps, LVSteps, To
<1>1. OrchestratorType' /\ ThreadType' /\ CrateType' /\ PlaceInv' /\
      VoltageInv' /\ PowerOffComplete'
  BY DEF OrchestratorType, ThreadType, CrateType, PlaceInv, VoltageInv, SetTo,
     PowerOffComplete
<1>2. SessionType'
  BY DEF SessionType
<1>3. ReplyType'
  BY DEF ReplyType
<1>4. RequestType'
  BY RequestForms, SlowControlAssumption DEF RequestType, OrchestratorType,
     Verbs
<1>5. BoundType'
  BY SlowControlAssumption DEF BoundType
<1>6. ConnInv'
  BY DEF ConnInv, OrchestratorType, SessionType, ReplyType, RequestType,
     Requests, Verbs
<1>7. RequestInv'
  BY SlowControlAssumption DEF RequestInv, Talks, OrchestratorType,
     RequestType, Requests, Verbs, ReplyType, PlaceInv, ConnInv, ReplyInv,
     Request, NoRequest
<1>8. ReplyInv'
  BY DEF ReplyInv, Talks
<1>9. ServerInv'
  BY DEF ServerInv, OrchestratorType, SessionType, RequestType, Requests, Verbs
<1>10. SettingInv'
  BY SlowControlAssumption DEF SettingInv, SetTo, SessionType, RequestType,
     Requests, Verbs, CrateType
<1>11. MonitorInv'
  BY DEF MonitorInv, Threads, OrchestratorType, SessionType, RequestType,
     Requests, Verbs, ReplyType, ThreadType
<1> QED
  BY <1>1, <1>2, <1>3, <1>4, <1>5, <1>6, <1>7, <1>8, <1>9, <1>10, <1>11

(* Check keeps the invariant. *)
LEMMA CheckStep ==
    ASSUME IInv, Check
    PROVE  IInv'
<1> USE DEF IInv, TypeInv, Check, Gets, Reply, orchVars, srvVars, netVars,
      threadVars, crateVars, boundVars, SubRuns, Servers, Steps, Exchanges,
      HVSteps, LVSteps, To
<1>0. /\ req["LV"].verb = "check" /\ req["LV"] # NoRequest
      /\ step = "off" \/ (/\ step = "check" /\ rep["LV"] = "none"
                         /\ req["LV"].sub = sub)
  BY Serving DEF ServerInv
<1>1. OrchestratorType' /\ SessionType' /\ ThreadType' /\ CrateType' /\
      BoundType' /\ PlaceInv'
  BY DEF OrchestratorType, SessionType, ThreadType, CrateType, BoundType,
     PlaceInv
<1>2. ReplyType'
  BY <1>0 DEF ReplyType, Replies
<1>3. RequestType'
  BY <1>0, RequestForms, SlowControlAssumption DEF RequestType,
     OrchestratorType, Verbs
<1>4. ConnInv'
  BY <1>0 DEF ConnInv, OrchestratorType, SessionType, ReplyType, RequestType,
     Requests, Verbs, PlaceInv, RequestInv, ServerInv, Request, NoRequest
<1>5. RequestInv'
  BY <1>0, SlowControlAssumption DEF RequestInv, Talks, OrchestratorType,
     RequestType, Requests, Verbs, ReplyType, PlaceInv, ConnInv, ReplyInv,
     Request, NoRequest
<1>6. ReplyInv'
  BY <1>0 DEF ReplyInv, Talks, OrchestratorType, RequestType, Requests, Verbs,
     ReplyType, PlaceInv, ConnInv, RequestInv, ServerInv, Request, NoRequest
<1>7. ServerInv'
  BY <1>0 DEF ServerInv, OrchestratorType, SessionType, RequestType, Requests,
     Verbs
<1>8. SettingInv'
  BY <1>0, SlowControlAssumption DEF SettingInv, SetTo, SessionType,
     RequestType, Requests, Verbs, CrateType
<1>9. VoltageInv'
  <2>1. rep'["HV"] = rep["HV"]
    BY DEF ReplyType
  <2> QED BY <2>1 DEF VoltageInv, SetTo
<1>10. MonitorInv'
  BY <1>0 DEF MonitorInv
<1>11. PowerOffComplete'
  BY <1>0 DEF PowerOffComplete, ReplyType, RequestType, Requests, Verbs,
     CrateType
<1> QED
  BY <1>1, <1>2, <1>3, <1>4, <1>5, <1>6, <1>7, <1>8, <1>9, <1>10, <1>11

(* StartSet keeps the invariant. *)
LEMMA StartSetStep ==
    ASSUME IInv, StartSet
    PROVE  IInv'
<1> USE DEF IInv, TypeInv, StartSet, Gets, GoTo, orchVars, srvVars, netVars,
      threadVars, crateVars, boundVars, SubRuns, Servers, Steps, Exchanges,
      HVSteps, LVSteps, To
<1>0. /\ req["HV"].verb = "start" /\ req["HV"] # NoRequest
      /\ step = "off" \/ (/\ step = "start" /\ rep["HV"] = "none"
                         /\ req["HV"].sub = sub)
  BY Serving DEF ServerInv
<1>1. OrchestratorType' /\ ReplyType' /\ RequestType' /\ ThreadType' /\
      BoundType' /\ PlaceInv' /\ RequestInv' /\ ReplyInv' /\ PowerOffComplete'
  BY DEF OrchestratorType, ReplyType, RequestType, ThreadType, BoundType,
     PlaceInv, RequestInv, Talks, ReplyInv, PowerOffComplete
<1>2. SessionType'
  BY <1>0 DEF SessionType
<1>3. CrateType'
  BY <1>0 DEF CrateType
<1>4. ConnInv'
  BY <1>0 DEF ConnInv
<1>5. ServerInv'
  BY <1>0 DEF ServerInv
<1>6. SettingInv'
  BY <1>0 DEF SettingInv, SetTo
<1>7. VoltageInv'
  <2>1. ~(step = "capture" \/ (step = "start" /\ rep'["HV"] = "HV Set"))
    BY <1>0 DEF ReplyType
  <2> QED BY <2>1 DEF VoltageInv
<1>8. MonitorInv'
  BY <1>0 DEF MonitorInv
<1> QED
  BY <1>1, <1>2, <1>3, <1>4, <1>5, <1>6, <1>7, <1>8

(* SetChannel keeps the invariant. *)
LEMMA SetChannelStep ==
    ASSUME IInv, NEW c \in Channels, SetChannel(c)
    PROVE  IInv'
<1> USE DEF IInv, TypeInv, SetChannel, orchVars, srvVars, netVars, threadVars,
      crateVars, boundVars, SubRuns, Servers, Steps, Exchanges, HVSteps,
      LVSteps, To
<1>0. /\ req["HV"].verb = "start" /\ req["HV"] # NoRequest
      /\ step = "off" \/ (/\ step = "start" /\ rep["HV"] = "none"
                         /\ req["HV"].sub = sub)
  BY Serving DEF ServerInv
<1>1. OrchestratorType' /\ ReplyType' /\ RequestType' /\ ThreadType' /\
      BoundType' /\ PlaceInv' /\ ConnInv' /\ RequestInv' /\ ReplyInv' /\
      ServerInv' /\ MonitorInv'
  BY DEF OrchestratorType, ReplyType, RequestType, ThreadType, BoundType,
     PlaceInv, ConnInv, RequestInv, Talks, ReplyInv, ServerInv, MonitorInv
<1>2. SessionType'
  BY <1>0 DEF SessionType
<1>3. CrateType'
  <2>1. req["HV"].sub \in SubRuns /\ Target[req["HV"].sub][c] # NoSet
    BY <1>0 DEF RequestInv, SettingInv, SessionType
  <2>2. Target[req["HV"].sub][c] \in Volts
    BY <2>1, TargetVolts
  <2> QED BY <2>2 DEF CrateType
<1>4. SettingInv'
  BY <1>0, SlowControlAssumption DEF SettingInv, SetTo, SessionType,
     RequestType, Requests, Verbs, CrateType
<1>5. VoltageInv'
  <2>1. ~(step = "capture" \/ (step = "start" /\ rep'["HV"] = "HV Set"))
    BY <1>0 DEF ReplyType
  <2> QED BY <2>1 DEF VoltageInv
<1>6. PowerOffComplete'
  BY <1>0 DEF ReplyInv, PowerOffComplete
<1> QED
  BY <1>1, <1>2, <1>3, <1>4, <1>5, <1>6

(* Ramped keeps the invariant. *)
LEMMA RampedStep ==
    ASSUME IInv, Ramped
    PROVE  IInv'
<1> USE DEF IInv, TypeInv, Ramped, GoTo, Reply, orchVars, srvVars, netVars,
      threadVars, crateVars, boundVars, SubRuns, Servers, Steps, Exchanges,
      HVSteps, LVSteps, To
<1>0. /\ req["HV"].verb = "start" /\ req["HV"] # NoRequest
      /\ step = "off" \/ (/\ step = "start" /\ rep["HV"] = "none"
                         /\ req["HV"].sub = sub)
  BY Serving DEF ServerInv
<1>1. OrchestratorType' /\ ThreadType' /\ CrateType' /\ BoundType' /\ PlaceInv'
  BY DEF OrchestratorType, ThreadType, CrateType, BoundType, PlaceInv
<1>2. SessionType'
  BY <1>0 DEF SessionType
<1>3. ReplyType'
  BY <1>0 DEF ReplyType, Replies
<1>4. RequestType'
  BY <1>0, RequestForms, SlowControlAssumption DEF RequestType,
     OrchestratorType, Verbs
<1>5. ConnInv'
  BY <1>0 DEF ConnInv, OrchestratorType, SessionType, ReplyType, RequestType,
     Requests, Verbs, PlaceInv, RequestInv, ServerInv, Request, NoRequest
<1>6. RequestInv'
  BY <1>0, SlowControlAssumption DEF RequestInv, Talks, OrchestratorType,
     RequestType, Requests, Verbs, ReplyType, PlaceInv, ConnInv, ReplyInv,
     Request, NoRequest
<1>7. ReplyInv'
  BY <1>0 DEF ReplyInv, Talks, OrchestratorType, RequestType, Requests, Verbs,
     ReplyType, PlaceInv, ConnInv, RequestInv, ServerInv, Request, NoRequest
<1>8. ServerInv'
  BY <1>0 DEF ServerInv, OrchestratorType, SessionType, RequestType, Requests,
     Verbs
<1>9. SettingInv'
  BY <1>0, SlowControlAssumption DEF SettingInv, SetTo, SessionType,
     RequestType, Requests, Verbs, CrateType
<1>10. VoltageInv'
  <2> SUFFICES ASSUME step = "start"
               PROVE  \A c \in Channels \ tripped :
                         SetTo(c, sub) /\ Target[sub][c] \in {NoSet, vmon[c]}
    BY <1>0 DEF VoltageInv, SetTo
  <2>1. req["HV"].sub = sub
    BY <1>0
  <2> QED BY <2>1 DEF SettingInv
<1>11. MonitorInv'
  BY <1>0 DEF MonitorInv, Threads, OrchestratorType, SessionType, RequestType,
     Requests, Verbs, ReplyType, ThreadType
<1>12. PowerOffComplete'
  BY <1>0 DEF PowerOffComplete, ReplyType, RequestType, Requests, Verbs,
     CrateType
<1> QED
  BY <1>1, <1>2, <1>3, <1>4, <1>5, <1>6, <1>7, <1>8, <1>9, <1>10, <1>11, <1>12

(* PowerOff keeps the invariant. *)
LEMMA PowerOffStep ==
    ASSUME IInv, PowerOff
    PROVE  IInv'
<1> USE DEF IInv, TypeInv, PowerOff, Gets, Reply, orchVars, srvVars, netVars,
      threadVars, crateVars, boundVars, SubRuns, Servers, Steps, Exchanges,
      HVSteps, LVSteps, To
<1>0. /\ req["HV"].verb = "power" /\ req["HV"] # NoRequest
      /\ step = "off" \/ (/\ step = "power" /\ rep["HV"] = "none"
                         /\ req["HV"].sub = sub)
  BY Serving DEF ServerInv
<1>1. OrchestratorType' /\ SessionType' /\ ThreadType' /\ BoundType' /\
      PlaceInv'
  BY DEF OrchestratorType, SessionType, ThreadType, BoundType, PlaceInv
<1>2. ReplyType'
  BY <1>0 DEF ReplyType, Replies
<1>3. RequestType'
  BY <1>0, RequestForms, SlowControlAssumption DEF RequestType,
     OrchestratorType, Verbs
<1>4. CrateType'
  BY <1>0 DEF CrateType
<1>5. ConnInv'
  BY <1>0 DEF ConnInv, OrchestratorType, SessionType, ReplyType, RequestType,
     Requests, Verbs, PlaceInv, RequestInv, ServerInv, Request, NoRequest
<1>6. RequestInv'
  BY <1>0, SlowControlAssumption DEF RequestInv, Talks, OrchestratorType,
     RequestType, Requests, Verbs, ReplyType, PlaceInv, ConnInv, ReplyInv,
     Request, NoRequest
<1>7. ReplyInv'
  BY <1>0 DEF ReplyInv, Talks, OrchestratorType, RequestType, Requests, Verbs,
     ReplyType, PlaceInv, ConnInv, RequestInv, ServerInv, Request, NoRequest
<1>8. ServerInv'
  BY <1>0 DEF ServerInv, OrchestratorType, SessionType, RequestType, Requests,
     Verbs
<1>9. SettingInv'
  BY <1>0 DEF SettingInv, SetTo
<1>10. VoltageInv'
  <2>1. ~(step = "capture" \/ (step = "start" /\ rep'["HV"] = "HV Set"))
    BY <1>0 DEF ReplyType
  <2> QED BY <2>1 DEF VoltageInv
<1>11. MonitorInv'
  BY <1>0 DEF MonitorInv
<1>12. PowerOffComplete'
  BY <1>0 DEF PowerOffComplete
<1> QED
  BY <1>1, <1>2, <1>3, <1>4, <1>5, <1>6, <1>7, <1>8, <1>9, <1>10, <1>11, <1>12

(* MonitorStops keeps the invariant. *)
LEMMA MonitorStopsStep ==
    ASSUME IInv, NEW t \in live, MonitorStops(t)
    PROVE  IInv'
<1> USE DEF IInv, TypeInv, MonitorStops, orchVars, srvVars, netVars,
      threadVars, crateVars, boundVars, SubRuns, Servers, Steps, Exchanges,
      HVSteps, LVSteps, To
<1>1. OrchestratorType' /\ SessionType' /\ ReplyType' /\ RequestType' /\
      CrateType' /\ BoundType'
  BY DEF OrchestratorType, SessionType, ReplyType, RequestType, CrateType,
     BoundType
<1>2. PlaceInv' /\ ConnInv' /\ RequestInv' /\ ReplyInv' /\ ServerInv' /\
      SettingInv' /\ VoltageInv' /\ PowerOffComplete'
  BY DEF PlaceInv, ConnInv, RequestInv, Talks, ReplyInv, ServerInv, SettingInv,
     SetTo, VoltageInv, PowerOffComplete
<1>3. ThreadType'
  BY DEF ThreadType
<1>4. MonitorInv'
  BY DEF MonitorInv
<1> QED
  BY <1>1, <1>2, <1>3, <1>4

(* MonitorRaises keeps the invariant. *)
LEMMA MonitorRaisesStep ==
    ASSUME IInv, NEW t \in live, MonitorRaises(t)
    PROVE  IInv'
<1> USE DEF IInv, TypeInv, MonitorRaises, Fault, orchVars, srvVars, netVars,
      threadVars, crateVars, boundVars, SubRuns, Servers, Steps, Exchanges,
      HVSteps, LVSteps, To
<1>1. OrchestratorType' /\ SessionType' /\ ReplyType' /\ RequestType' /\
      CrateType'
  BY DEF OrchestratorType, SessionType, ReplyType, RequestType, CrateType
<1>2. PlaceInv' /\ ConnInv' /\ RequestInv' /\ ReplyInv' /\ ServerInv' /\
      SettingInv' /\ VoltageInv' /\ PowerOffComplete'
  BY DEF PlaceInv, ConnInv, RequestInv, Talks, ReplyInv, ServerInv, SettingInv,
     SetTo, VoltageInv, PowerOffComplete
<1>3. ThreadType'
  BY DEF ThreadType
<1>4. BoundType'
  BY SlowControlAssumption DEF BoundType
<1>5. MonitorInv'
  BY DEF MonitorInv
<1> QED
  BY <1>1, <1>2, <1>3, <1>4, <1>5

(* Ramps keeps the invariant. *)
LEMMA RampsStep ==
    ASSUME IInv, NEW c \in Channels, Ramps(c)
    PROVE  IInv'
<1> USE DEF IInv, TypeInv, Ramps, Goal, orchVars, srvVars, netVars, threadVars,
      crateVars, boundVars, SubRuns, Servers, Steps, Exchanges, HVSteps,
      LVSteps, To
<1>1. OrchestratorType' /\ SessionType' /\ ReplyType' /\ RequestType' /\
      ThreadType' /\ BoundType'
  BY DEF OrchestratorType, SessionType, ReplyType, RequestType, ThreadType,
     BoundType
<1>2. PlaceInv' /\ ConnInv' /\ RequestInv' /\ ReplyInv' /\ ServerInv' /\
      SettingInv' /\ MonitorInv' /\ PowerOffComplete'
  BY DEF PlaceInv, ConnInv, RequestInv, Talks, ReplyInv, ServerInv, SettingInv,
     SetTo, MonitorInv, PowerOffComplete
<1>3. CrateType'
  <2>1. Goal(c) \in Volts \cup {0}
    BY DEF CrateType
  <2> QED BY <2>1 DEF CrateType
<1>4. VoltageInv'
  <2> SUFFICES ASSUME step = "capture" \/ (step = "start" /\ rep["HV"] = "HV Set"),
                      NEW d \in Channels \ tripped
               PROVE  SetTo(d, sub) /\ Target[sub][d] \in {NoSet, vmon'[d]}
    BY DEF VoltageInv, SetTo
  <2>1. SetTo(d, sub) /\ Target[sub][d] \in {NoSet, vmon[d]}
    BY DEF VoltageInv
  <2>2. Target[sub][d] \in {NoSet, Goal(d)}
    BY <2>1 DEF SetTo
  <2> QED BY <2>1, <2>2 DEF CrateType
<1> QED
  BY <1>1, <1>2, <1>3, <1>4

(* Trips keeps the invariant. *)
LEMMA TripsStep ==
    ASSUME IInv, NEW c \in Channels, Trips(c)
    PROVE  IInv'
<1> USE DEF IInv, TypeInv, Trips, orchVars, srvVars, netVars, threadVars,
      crateVars, boundVars, SubRuns, Servers, Steps, Exchanges, HVSteps,
      LVSteps, To
<1>1. OrchestratorType' /\ SessionType' /\ ReplyType' /\ RequestType' /\
      ThreadType'
  BY DEF OrchestratorType, SessionType, ReplyType, RequestType, ThreadType
<1>2. PlaceInv' /\ ConnInv' /\ RequestInv' /\ ReplyInv' /\ ServerInv' /\
      MonitorInv'
  BY DEF PlaceInv, ConnInv, RequestInv, Talks, ReplyInv, ServerInv, MonitorInv
<1>3. CrateType'
  BY DEF CrateType
<1>4. BoundType'
  BY SlowControlAssumption DEF BoundType
<1>5. SettingInv'
  BY DEF SettingInv, SetTo
<1>6. VoltageInv'
  BY SlowControlAssumption DEF VoltageInv, SetTo, OrchestratorType,
     SessionType, RequestType, Requests, Verbs, ReplyType, CrateType
<1>7. PowerOffComplete'
  BY DEF PowerOffComplete
<1> QED
  BY <1>1, <1>2, <1>3, <1>4, <1>5, <1>6, <1>7

(* A step that changes nothing keeps it. *)
LEMMA StutterStep ==
    ASSUME IInv, UNCHANGED vars
    PROVE  IInv'
<1> USE DEF IInv, TypeInv, vars, orchVars, srvVars, netVars, threadVars,
      crateVars, boundVars, SubRuns, Servers, Steps, Exchanges, HVSteps,
      LVSteps, To
<1>1. OrchestratorType'
  BY DEF OrchestratorType
<1>2. SessionType'
  BY DEF SessionType
<1>3. ReplyType'
  BY DEF ReplyType
<1>4. RequestType'
  BY DEF RequestType
<1>5. ThreadType'
  BY DEF ThreadType
<1>6. CrateType'
  BY DEF CrateType
<1>7. BoundType'
  BY DEF BoundType
<1>8. PlaceInv'
  BY DEF PlaceInv
<1>9. ConnInv'
  BY DEF ConnInv
<1>10. RequestInv'
  BY DEF RequestInv, Talks
<1>11. ReplyInv'
  BY DEF ReplyInv, Talks
<1>12. ServerInv'
  BY DEF ServerInv
<1>13. SettingInv'
  BY DEF SettingInv, SetTo
<1>14. VoltageInv'
  BY DEF VoltageInv, SetTo
<1>15. MonitorInv'
  BY DEF MonitorInv
<1>16. PowerOffComplete'
  BY DEF PowerOffComplete
<1> QED
  BY <1>1, <1>2, <1>3, <1>4, <1>5, <1>6, <1>7, <1>8, <1>9, <1>10, <1>11, <1>12,
     <1>13, <1>14, <1>15, <1>16

(* So does every step, and one that changes nothing. *)
LEMMA NextStep ==
    ASSUME IInv, [Next]_vars
    PROVE  IInv'
<1>1. CASE StartRun \/ Orchestrator \/ OrchestratorKilled \/ RequestStop
  BY <1>1, StartRunStep, GreetedStep, LoopStep, AskStep, AnsweredStep, CaptureStep,
     CloseStep, OrchestratorRaisesStep, OrchestratorKilledStep, RequestStopStep
     DEF Orchestrator
<1>2. ASSUME NEW k \in Servers, Server(k) \/ ServerRaises(k)
      PROVE  IInv'
  BY <1>2, AcceptStep, BeginMonitoringStep, EndMonitoringStep, JoinedStep,
     FinishedStep, LastJoinedStep, ClientVanishedStep, ServerRaisesStep, CheckStep,
     StartSetStep, SetChannelStep, RampedStep, PowerOffStep DEF Server
<1>3. ASSUME NEW t \in live, MonitorStops(t) \/ MonitorRaises(t)
      PROVE  IInv'
  BY <1>3, MonitorStopsStep, MonitorRaisesStep
<1>4. ASSUME NEW c \in Channels, Ramps(c) \/ Trips(c)
      PROVE  IInv'
  BY <1>4, RampsStep, TripsStep
<1>5. CASE UNCHANGED vars
  BY <1>5, StutterStep
<1> QED
  BY <1>1, <1>2, <1>3, <1>4, <1>5 DEF Next

-----------------------------------------------------------------------------

(* IInv holds in every reachable state, for any constants.                 *)
THEOREM SlowInvariance == Spec => []IInv
<1>1. Init => IInv
  BY InitIInv
<1>2. IInv /\ [Next]_vars => IInv'
  BY NextStep
<1> QED BY <1>1, <1>2, PTL DEF Spec

(* Every variable of the two servers, their threads and the crate keeps its*)
(* type.                                                                   *)
THEOREM SlowTypeCorrect == Spec => []TypeOK
<1>1. IInv => TypeOK
  BY DEF IInv, TypeInv, OrchestratorType, SessionType, ReplyType, RequestType, Requests, Verbs, ThreadType,
     CrateType, BoundType, TypeOK
<1> QED BY <1>1, SlowInvariance, PTL

(* A capture begins with every channel of its sub-run at its voltage, whatever  *)
(* the runs and sessions before it left on the crate, but for channels that     *)
(* tripped since its ramp began (hv_control.py:86-118, daq_control.py:152-187). *)
THEOREM CapturedAtVoltage == Spec => []CaptureAtVoltage
<1>1. IInv => CaptureAtVoltage
  BY DEF IInv, VoltageInv, CaptureAtVoltage
<1> QED BY <1>1, SlowInvariance, PTL

(* A capture begins with the monitor of its own sub-run alive, unless its    *)
(* session broke off or a read of that monitor failed (hv_control.py:61-70). *)
THEOREM CapturedMonitored == Spec => []CaptureMonitored
<1>1. IInv => CaptureMonitored
  BY DEF IInv, MonitorInv, CaptureMonitored
<1> QED BY <1>1, SlowInvariance, PTL

(* "HV Powered Off" is true of every channel of the crate, those no sub-run of *)
(* this run set included (hv_control.py:121-129).                              *)
THEOREM PoweredOffCompletely == Spec => []PowerOffComplete
<1>1. IInv => PowerOffComplete
  BY DEF IInv
<1> QED BY <1>1, SlowInvariance, PTL

=============================================================================
