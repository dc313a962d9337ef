------------------------------- MODULE RemoteHV -------------------------------
(***************************************************************************)
(* High voltage that belongs to another machine: hv_dream_shim.py answers  *)
(* the orchestrator's HV requests without a crate of its own.              *)
(*                                                                         *)
(*   sps    Dream ramps; the shim holds each sub-run until Dream's         *)
(*          readback shows its voltages.                                   *)
(*   bench  the shim sets the channels through banco_hv/hv_serial_live.py, *)
(*          which owns the supplies, and waits for them; the operator has  *)
(*          the same service in his page, and somebody may stand at the    *)
(*          modules.                                                       *)
(*   crate  nothing is gated; the readback comes from                      *)
(*          docs/dream_side/hv_live.py, which takes the CAEN session while *)
(*          it is asked and gives it back.                                 *)
(*                                                                         *)
(* A setpoint is a level: 1 is what a sub-run asks for, above vmax it is   *)
(* over the limit of the electrode.  Each channel stands for its module:   *)
(* one that does not answer is a channel without a reading.                *)
(***************************************************************************)
EXTENDS Integers, Sequences, FiniteSets

CONSTANTS
    Chans,          \* labelled channels
    Plan,           \* the sub-runs' targets: sequence of [Chans -> level], 0 is off
    vmax,
    Levels,         \* the setpoints a module takes
    settle,         \* looks in a row that have to find the targets
    MaxOps,         \* bound: requests from the page
    MaxTroubles     \* bound: trips, hands at a module, polls without an answer, a
                    \* poller held up

ASSUME RemoteHVAssumption ==
    /\ Levels \subseteq Nat \ {0} /\ vmax \in Levels /\ settle \in Nat \ {0}
    /\ Plan \in Seq([Chans -> Levels \cup {0}]) /\ Plan # <<>>
    /\ MaxOps \in Nat /\ MaxTroubles \in Nat

VARIABLES
    site,
    hw,        \* the modules: on, v0, and whether the output has got there
    local,     \* channels whose front panel is on LOCAL
    snapshot,  \* the service's last poll; NoReading where the module did not answer
    stale,     \* it is older than stale_s
    req,       \* requests in the service: one of the shim, one of the page
    gate,      \* the shim's gate: step, sub-run, channels to do, what it read
    all_off,   \* channels an ALL OFF has still to switch off
    ops, troubles,
    dream,     \* its run's sub-run, and whether the crate got there
    combined,  \* the paired run's state file: "no", "late", "there"
    session,   \* hv_live.py: closed, open, or closing; a request past the look at the
    admitted,  \* pause file; and the last request's age
    asked, paused,
    log,       \* the logger: off, on, or with a file of the sub-run
    touched,   \* history: channels that changed since they were read
    unseen     \* history: channels whose setpoint nobody had read when they were
               \* switched on, or that were changed at the module

bench == <<hw, local, snapshot, stale, req, all_off, ops, troubles, touched, unseen>>
beam  == <<dream, combined>>
live  == <<session, admitted, asked, paused>>
vars  == <<site, bench, gate, beam, live, log>>

Sites == {"sps", "bench", "crate"}
NoReading == [on |-> FALSE, v0 |-> 0, there |-> FALSE]
NoReq == [pc |-> "none"]
Sources == {"shim", "page"}

Init ==
    /\ site \in Sites
    /\ hw \in [Chans -> {[on |-> FALSE, v0 |-> l, there |-> TRUE] : l \in Levels}]
    /\ (site # "bench" => hw = [c \in Chans |-> [on |-> FALSE, v0 |-> vmax, there |-> TRUE]])
    /\ local = {} /\ snapshot = [c \in Chans |-> NoReading] /\ stale = TRUE
    /\ req = [s \in Sources |-> NoReq]
    /\ gate = [pc |-> "idle", sub |-> 0, todo |-> {}, read |-> snapshot, stable |-> 0]
    /\ all_off = {} /\ ops = 0 /\ troubles = 0
    /\ dream = [sub |-> 0, there |-> FALSE, reached |-> {}]
    /\ combined \in (IF site = "sps" THEN {"no", "late", "there"} ELSE {"no"})
    /\ session = "closed" /\ admitted = FALSE /\ asked = FALSE /\ paused = FALSE
    /\ log = "off"
    /\ touched = Chans /\ unseen = {}

Target == Plan[gate.sub]
On(h) == h.on
\* Vmon, when the output has settled.
Vmon(h) == IF h.on THEN h.v0 ELSE 0
At(h, t) == h # NoReading /\ h.there /\ Vmon(h) = t

----------------------------------------------------------------------------
(* The modules.                                                            *)

Ramps(c) ==
    /\ site = "bench" /\ ~hw[c].there
    /\ hw' = [hw EXCEPT ![c].there = TRUE] /\ touched' = touched \cup {c}
    /\ UNCHANGED <<site, local, snapshot, stale, req, all_off, ops, troubles, unseen, gate, beam,
                   live, log>>

\* A trip, or somebody at the module: on or off, another setpoint, or the switch.
Hands(c) ==
    /\ site = "bench" /\ troubles < MaxTroubles /\ troubles' = troubles + 1
    /\ \/ \E on \in BOOLEAN, l \in Levels :
            /\ hw' = [hw EXCEPT ![c] = [on |-> on, v0 |-> l, there |-> FALSE]]
            /\ unseen' = unseen \cup {c} /\ touched' = touched \cup {c}
            /\ UNCHANGED local
       \/ /\ local' = (local \ {c}) \cup ({c} \ local)
          /\ UNCHANGED <<hw, unseen, touched>>
    /\ UNCHANGED <<site, snapshot, stale, req, all_off, ops, gate, beam, live, log>>

----------------------------------------------------------------------------
(* banco's service.                                                        *)

\* Every module answers or does not; what did not answer has no reading.
PollOnce ==
    \E answers \in SUBSET Chans :
        /\ troubles' = troubles + Cardinality(Chans \ answers) /\ troubles' <= MaxTroubles
        /\ snapshot' = [c \in Chans |-> IF c \in answers THEN hw[c] ELSE NoReading]
        /\ touched' = touched \ answers /\ stale' = FALSE

Polls ==
    /\ site = "bench" /\ PollOnce
    /\ UNCHANGED <<site, hw, local, req, all_off, ops, unseen, gate, beam, live, log>>

\* The poller is held up, on a port or on the machine.
GoesStale ==
    /\ site = "bench" /\ ~stale /\ stale' = TRUE
    /\ troubles < MaxTroubles /\ troubles' = troubles + 1
    /\ UNCHANGED <<site, hw, local, snapshot, req, all_off, ops, touched, unseen, gate,
                   beam, live, log>>

\* What the service answers to api/state.
State == IF stale THEN [c \in Chans |-> NoReading] ELSE snapshot

\* Mutant of Valid: a channel is switched on without a look at its setpoint.
ValidSetpointsOnly(c, param, v) == param = "v0" => v <= vmax

\* The limits: on a new setpoint, and on the setpoint a channel is switched on
\* with, as it was last read; what was not read counts as zero.
Valid(c, param, v) ==
    IF param = "v0" THEN v <= vmax
                    ELSE v = 1 => snapshot[c].v0 <= vmax

\* One request at a time has the control lock.
Locked == \E s \in Sources : req[s].pc = "sent"

Ask(s, c, param, v) == req' = [req EXCEPT ![s] = [pc |-> "asked", c |-> c, param |-> param, v |-> v]]

\* The page shows an answer and goes on.
Answers(s, ok) ==
    req' = [req EXCEPT ![s] = IF ok \/ s = "page" THEN NoReq ELSE [pc |-> "refused"]]

\* Validated and sent.  A module on LOCAL refuses; one may answer OK to an ON and
\* stay off.
ServiceSends(s) ==
    LET r == req[s]
        c == r.c
    IN  /\ r.pc = "asked" /\ ~Locked
        /\ IF ~Valid(c, r.param, r.v) \/ c \in local
           THEN /\ Answers(s, FALSE)
                /\ UNCHANGED <<hw, touched, unseen>>
           ELSE /\ req' = [req EXCEPT ![s].pc = "sent"]
                /\ IF r.param = "v0"
                   THEN /\ hw' = [hw EXCEPT ![c] = [on |-> @.on, v0 |-> r.v, there |-> FALSE]]
                        /\ unseen' = unseen \ {c}
                   ELSE /\ \/ hw' = [hw EXCEPT ![c] = [on |-> r.v = 1, v0 |-> @.v0, there |-> FALSE]]
                           \/ r.v = 1 /\ UNCHANGED hw
                        /\ unseen' = IF snapshot[c] = NoReading THEN unseen \cup {c} ELSE unseen
                /\ touched' = touched \cup {c}
        /\ UNCHANGED <<site, local, snapshot, stale, all_off, ops, troubles, gate, beam, live, log>>

\* Read back before the answer: ok for an ON or OFF only if it is seen.
ServiceReadsBack(s) ==
    LET r == req[s]
    IN  /\ r.pc = "sent" /\ PollOnce
        /\ Answers(s, r.param = "power" =>
                         snapshot'[r.c] # NoReading /\ On(snapshot'[r.c]) = (r.v = 1))
        /\ UNCHANGED <<site, hw, local, all_off, ops, unseen, gate, beam, live, log>>

----------------------------------------------------------------------------
(* The page.                                                               *)

PageSets(c) ==
    /\ site = "bench" /\ req["page"] = NoReq /\ all_off = {}
    /\ ops < MaxOps /\ ops' = ops + 1
    /\ \/ \E l \in Levels : Ask("page", c, "v0", l)
       \/ \E v \in {0, 1} : Ask("page", c, "power", v)
    /\ UNCHANGED <<site, hw, local, snapshot, stale, all_off, troubles, touched, unseen, gate, beam,
                   live, log>>

PageAllOff ==
    /\ site = "bench" /\ all_off = {} /\ ops < MaxOps /\ ops' = ops + 1
    /\ all_off' = Chans
    /\ UNCHANGED <<site, hw, local, snapshot, stale, req, troubles, touched, unseen, gate, beam, live,
                   log>>

\* Channel by channel, whatever the others answer; the lock is free in between.
AllOffNext(c) ==
    /\ c \in all_off /\ req["page"] = NoReq
    /\ Ask("page", c, "power", 0) /\ all_off' = all_off \ {c}
    /\ UNCHANGED <<site, hw, local, snapshot, stale, ops, troubles, touched, unseen, gate, beam, live,
                   log>>

----------------------------------------------------------------------------
(* The gate on the bench.                                                  *)

GateTo(pc) == gate' = [gate EXCEPT !.pc = pc]

\* 'Begin Monitoring' of the next sub-run, before its gate: the log of one that was
\* skipped ends here.
LogStarts ==
    /\ gate.pc \in {"idle", "failed"} /\ gate.sub < Len(Plan) /\ GateTo("begun")
    /\ log' = "on"
    /\ UNCHANGED <<site, bench, beam, live>>

\* 'Start'.
GateStarts ==
    /\ gate.pc = "begun"
    /\ gate' = [gate EXCEPT !.pc = "start", !.sub = @ + 1, !.todo = {}, !.stable = 0,
                            !.read = [c \in Chans |-> NoReading]]
    /\ UNCHANGED <<site, bench, beam, live, log>>

\* One look at all channels; refused before anything is moved if one is not
\* known or a target is over the limit.
GateLooks ==
    /\ site = "bench" /\ gate.pc = "start"
    /\ IF \E c \in Chans : State[c] = NoReading \/ Target[c] > vmax
       THEN GateTo("failed")
       ELSE gate' = [gate EXCEPT !.pc = "setpoints", !.read = State, !.todo =
                        {c \in Chans : Target[c] > 0 /\ State[c].v0 # Target[c]}]
    /\ UNCHANGED <<site, bench, beam, live, log>>

Busy == req["shim"].pc \in {"asked", "sent"}

\* The setpoints, then on and off, by what it read at the start.
GateSends ==
    /\ gate.pc \in {"setpoints", "power"} /\ ~Busy /\ req["shim"].pc # "refused"
    /\ \E c \in gate.todo :
         /\ IF gate.pc = "setpoints" THEN Ask("shim", c, "v0", Target[c])
                                     ELSE Ask("shim", c, "power", IF Target[c] > 0 THEN 1 ELSE 0)
         /\ gate' = [gate EXCEPT !.todo = @ \ {c}]
    /\ UNCHANGED <<site, hw, local, snapshot, stale, all_off, ops, troubles, touched, unseen, beam,
                   live, log>>

GateGoesOn ==
    /\ gate.pc \in {"setpoints", "power"} /\ ~Busy /\ req["shim"].pc # "refused" /\ gate.todo = {}
    /\ gate' = IF gate.pc = "setpoints"
               THEN [gate EXCEPT !.pc = "power", !.todo =
                        {c \in Chans : On(gate.read[c]) # (Target[c] > 0)}]
               ELSE [gate EXCEPT !.pc = "wait", !.read = [c \in Chans |-> NoReading]]
    /\ UNCHANGED <<site, bench, beam, live, log>>

\* A refusal, a request that is not answered in time (the service may still do
\* it), a stop of the run, or the deadline: the sub-run is skipped.
GateGivesUp ==
    /\ site = "bench" /\ gate.pc \in {"setpoints", "power", "wait"}
    /\ gate' = [gate EXCEPT !.pc = "failed", !.todo = {}, !.stable = 0,
                            !.read = [c \in Chans |-> NoReading]]
    /\ req' = [req EXCEPT !["shim"] = IF Busy THEN @ ELSE NoReq]
    /\ UNCHANGED <<site, hw, local, snapshot, stale, all_off, ops, troubles, touched, unseen, beam,
                   live, log>>

\* Mutant of InPlace: a channel without a reading is not waited for.
InPlaceOrUnread(c) == State[c] = NoReading \/ At(State[c], Target[c])

InPlace(c) == At(State[c], Target[c])

\* A look while it waits: a channel that is off fails the sub-run, one that is
\* away starts the settling again.
GateWaits ==
    /\ gate.pc = "wait" /\ site = "bench"
    /\ IF \E c \in Chans : Target[c] > 0 /\ ~On(State[c])
       THEN GateTo("failed")
       ELSE gate' = [gate EXCEPT !.stable = IF \A c \in Chans : InPlace(c) THEN @ + 1 ELSE 0,
                                 !.pc = IF (\A c \in Chans : InPlace(c)) /\ gate.stable + 1 = settle
                                        THEN "set" ELSE @]
    /\ UNCHANGED <<site, bench, beam, live, log>>

----------------------------------------------------------------------------
(* The gate at the beam.                                                   *)

\* The state file is written before the run is launched, but was seen to show
\* up later; it does within the grace.
StateFileShows ==
    /\ combined = "late" /\ combined' = "there"
    /\ UNCHANGED <<site, bench, gate, dream, live, log>>

\* Mutant of FirstGate: the first look at the state file counts.
FirstGateAtOnce == TRUE

\* The first gate of a connection looks again for the file.
FirstGate == gate.sub = 1 => combined # "late"

\* The channels Dream's readback is compared on: those that are on.
Gated == \E c \in Chans : Target[c] # 0

\* No paired run, or nothing to compare: no gate.
GateOpens ==
    /\ site # "bench" /\ gate.pc = "start" /\ FirstGate /\ (combined = "there" => ~Gated)
    /\ GateTo("set")
    /\ UNCHANGED <<site, bench, beam, live, log>>

\* Dream goes through the sub-runs in its own time.
DreamMoves ==
    /\ site = "sps" /\ combined # "no" /\ dream.sub < Len(Plan)
    /\ dream' = [dream EXCEPT !.sub = @ + 1, !.there = FALSE]
    /\ UNCHANGED <<site, bench, gate, combined, live, log>>

DreamArrives ==
    /\ site = "sps" /\ combined # "no" /\ dream.sub > 0 /\ ~dream.there
    /\ dream' = [dream EXCEPT !.there = TRUE, !.reached = @ \cup {dream.sub}]
    /\ UNCHANGED <<site, bench, gate, combined, live, log>>

\* What Dream's /hv_data has for a sub-run: its own rows, or, if it has none,
\* those of the latest run that has: matching values, but old.
Readback(k) ==
    IF k = dream.sub THEN {[match |-> dream.there, fresh |-> TRUE]}
    ELSE IF k \in dream.reached
         THEN {[match |-> TRUE, fresh |-> f] : f \in BOOLEAN}
         ELSE {[match |-> m, fresh |-> FALSE] : m \in BOOLEAN}

\* Mutant of Releases: values that match are enough.
ReleasesAnyAge(r) == r.match

Releases(r) == r.match /\ r.fresh

GateSeesDream ==
    /\ site = "sps" /\ gate.pc = "start" /\ combined = "there" /\ Gated
    /\ \E r \in Readback(gate.sub) : Releases(r)
    /\ GateTo("set")
    /\ UNCHANGED <<site, bench, beam, live, log>>

GateTimesOut ==
    /\ site = "sps" /\ gate.pc = "start" /\ combined = "there" /\ Gated
    /\ GateTo("failed")
    /\ UNCHANGED <<site, bench, beam, live, log>>

----------------------------------------------------------------------------
(* The log of the readback, sub-run by sub-run.                            *)

\* What banco answers is a reading, and not older than max_age_s; at the beam there
\* is no address to ask.
CurrentReading ==
    \/ site = "bench" /\ ~stale
    \/ site = "crate" /\ ~paused /\ session = "open" /\ asked

\* The first one makes the file.
LogWrites ==
    /\ log = "on" /\ CurrentReading
    /\ log' = "file"
    /\ UNCHANGED <<site, bench, gate, beam, live>>

\* 'End Monitoring' after the capture, which a skipped sub-run is not sent; and
\* the end of the connection, after the last one or a stop.
LogStops ==
    /\ log' = "off"
    /\ \/ gate.pc = "set" /\ GateTo("idle")
       \/ gate.pc = "failed" /\ GateTo("over")
    /\ UNCHANGED <<site, bench, beam, live>>

----------------------------------------------------------------------------
(* hv_live.py: the CAEN session is taken for who asks.                     *)

\* Mutant of Admits: a request does not look at the pause file.
AdmitsAlways == TRUE

Admits == ~paused

LiveRequest ==
    /\ site = "crate" /\ log # "off" /\ ~admitted /\ Admits
    /\ admitted' = TRUE
    /\ UNCHANGED <<site, bench, gate, beam, session, asked, paused, log>>

\* Later, and under the lock: it starts the poller if none is alive.
EnsureThread ==
    /\ admitted /\ admitted' = FALSE /\ asked' = TRUE
    /\ session' = IF session = "closed" THEN "open" ELSE session
    /\ UNCHANGED <<site, bench, gate, beam, paused, log>>

\* No request for idle_release_s.
LiveIdle ==
    /\ asked /\ (log = "off" \/ paused) /\ asked' = FALSE
    /\ UNCHANGED <<site, bench, gate, beam, session, admitted, paused, log>>

LetsGo == ~asked \/ paused

\* A poll: the session is let go, or the crate refuses; the thread is still there
\* while it closes.
LivePolls ==
    /\ session = "open" /\ LetsGo /\ session' = "closing"
    /\ UNCHANGED <<site, bench, gate, beam, admitted, asked, paused, log>>

LiveFails ==
    /\ session = "open" /\ session' = "closing"
    /\ UNCHANGED <<site, bench, gate, beam, admitted, asked, paused, log>>

LiveCloses ==
    /\ session = "closing" /\ session' = "closed"
    /\ UNCHANGED <<site, bench, gate, beam, admitted, asked, paused, log>>

Pauses ==
    /\ site = "crate" /\ paused' = ~paused
    /\ UNCHANGED <<site, bench, gate, beam, session, admitted, asked, log>>

----------------------------------------------------------------------------
Next ==
    \/ \E c \in Chans : Ramps(c) \/ Hands(c) \/ PageSets(c) \/ AllOffNext(c)
    \/ \E s \in Sources : ServiceSends(s) \/ ServiceReadsBack(s)
    \/ Polls \/ GoesStale \/ PageAllOff
    \/ GateStarts \/ GateLooks \/ GateSends \/ GateGoesOn \/ GateGivesUp \/ GateWaits
    \/ StateFileShows \/ GateOpens \/ DreamMoves \/ DreamArrives
    \/ GateSeesDream \/ GateTimesOut
    \/ LogStarts \/ LogWrites \/ LogStops
    \/ LiveRequest \/ EnsureThread \/ LiveIdle \/ LivePolls \/ LiveFails \/ LiveCloses \/ Pauses

\* The poller of hv_live.py is a thread of its own.
Fairness == WF_vars(LivePolls) /\ WF_vars(LiveCloses)

Spec == Init /\ [][Next]_vars /\ Fairness

----------------------------------------------------------------------------
(* Properties.                                                             *)

\* 'HV Set' is the truth.  On the bench every channel of the sub-run is at its
\* target, but for one that moved after it was last read; at the beam, Dream has
\* reached the voltages of a sub-run that has any, in this run: neither a run that finished
\* before nor a state file that shows up late lets the capture start early.
SetMeansThere ==
    [][gate.pc # "set" /\ gate'.pc = "set" =>
         /\ site = "bench" => \A c \in Chans : At(hw[c], Target[c]) \/ c \in touched
         /\ site = "sps" /\ combined # "no" /\ Gated => gate.sub \in dream.reached]_vars

\* No channel is on above its limit by what came through the service, from the
\* shim and the page together, but for one changed at the module or switched on
\* when the last poll had not read it: the setpoint then counts as zero.
OnWithinLimit ==
    \A c \in Chans : hw[c].on /\ hw[c].v0 > vmax => c \in unseen

\* The pause file gets the crate free and keeps it free: from some time on the
\* session is closed for as long as the file is there, also if a request had looked
\* for the file before it was dropped and takes the session after that.
CrateReleased == <>[]paused => <>[](session = "closed")
=============================================================================
