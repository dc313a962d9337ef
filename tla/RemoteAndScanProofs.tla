------------------------- MODULE RemoteAndScanProofs -------------------------
(***************************************************************************)
(* What TLAPS proves of two programs beside the orchestrator, one after    *)
(* the other:                                                              *)
(*   RemoteHV       that no channel is on above its limit and that "HV     *)
(*                  Set" is the truth, for any channels, plan, limit and   *)
(*                  settling, and any number of requests and troubles;     *)
(*   AdaptiveScan   that long runs follow clean probes and chips are held  *)
(*                  where they were measured, for any chips, channels,     *)
(*                  points, caps and any number of starts.                 *)
(* For each, the inductive invariant in named parts, one lemma per action  *)
(* with one step per part, then the theorems.                              *)
(***************************************************************************)
EXTENDS RemoteHV, AdaptiveScan, TLAPS, WellFoundedInduction

-----------------------------------------------------------------------------
(* RemoteHV.                                                               *)

\* A module, and a reading of it.
IsModule(h) ==
    /\ h = [on |-> h.on, v0 |-> h.v0, there |-> h.there]
    /\ h.on \in BOOLEAN /\ h.v0 \in Nat /\ h.there \in BOOLEAN

HwType ==
    /\ hw = [c \in Chans |-> hw[c]] /\ snapshot = [c \in Chans |-> snapshot[c]]
    /\ \A c \in Chans : IsModule(hw[c]) /\ IsModule(snapshot[c])

ReqType ==
    /\ req = [s \in Sources |-> req[s]]
    /\ \A s \in Sources : req[s].pc \in {"asked", "sent"} =>
          /\ req[s] = [pc |-> req[s].pc, c |-> req[s].c, param |-> req[s].param, v |-> req[s].v]
          /\ req[s].c \in Chans /\ req[s].v \in Nat

GateType ==
    /\ gate = [pc |-> gate.pc, sub |-> gate.sub, todo |-> gate.todo, read |-> gate.read,
               stable |-> gate.stable]
    /\ gate.sub \in 0..Len(Plan) /\ (gate.sub = 0 => gate.pc \in {"idle", "begun"})
    /\ (gate.pc = "begun" => gate.sub < Len(Plan))
    /\ gate.todo \subseteq Chans /\ site \in Sites

\* A channel above its limit that the service knows of is off, and the service
\* has read its setpoint or nothing.
LimitInv ==
    \A c \in Chans \ unseen : hw[c].v0 > vmax =>
        ~hw[c].on /\ (snapshot[c] = NoReading \/ snapshot[c].v0 = hw[c].v0)

\* What was read and did not change is as it was read.
ReadInv == \A c \in Chans \ touched : snapshot[c] \in {hw[c], NoReading}

\* As long as the state file may show up late, the gate waits before the first
\* sub-run.
LateInv ==
    /\ combined \in {"no", "late", "there"}
    /\ combined = "late" =>
          /\ site = "sps"
          /\ \/ gate.pc \in {"idle", "begun"} /\ gate.sub = 0
             \/ gate.pc = "start" /\ gate.sub = 1

DreamInv ==
    /\ dream = [sub |-> dream.sub, there |-> dream.there, reached |-> dream.reached]
    /\ dream.there => dream.sub \in dream.reached

HVInv == /\ HwType /\ ReqType /\ GateType
         /\ LimitInv /\ ReadInv /\ LateInv /\ DreamInv

-----------------------------------------------------------------------------

(* A module whose output gets there is one.                                *)
LEMMA ModuleThere ==
    ASSUME NEW h, IsModule(h), NEW b \in BOOLEAN
    PROVE  IsModule([h EXCEPT !.there = b])
<1>1. h = [on |-> h.on, v0 |-> h.v0, there |-> h.there]
  BY DEF IsModule
<1>2. [h EXCEPT !.there = b] = [on |-> h.on, v0 |-> h.v0, there |-> b]
  BY <1>1
<1> QED BY <1>2 DEF IsModule

(* One module changes, the readings stay.                                  *)
LEMMA OneChanges ==
    ASSUME HwType, NEW c \in Chans, NEW m, IsModule(m), hw' = [hw EXCEPT ![c] = m],
           UNCHANGED snapshot
    PROVE  HwType'
<1>1. hw' = [d \in Chans |-> IF d = c THEN m ELSE hw[d]]
  BY DEF HwType
<1>2. hw' = [d \in Chans |-> hw'[d]] /\ \A d \in Chans : IsModule(hw'[d])
  BY <1>1 DEF HwType
<1> QED BY <1>2 DEF HwType

(* A poll reads what there is, or nothing.                                 *)
LEMMA PollReads ==
    ASSUME HwType, PollOnce
    PROVE  /\ snapshot' = [c \in Chans |-> snapshot'[c]]
           /\ \A c \in Chans : /\ IsModule(snapshot'[c]) /\ snapshot'[c] \in {hw[c], NoReading}
                               /\ c \notin touched' => c \notin touched \/ snapshot'[c] = hw[c]
<1>1. IsModule(NoReading)
  BY DEF IsModule, NoReading
<1> QED BY <1>1 DEF HwType, PollOnce

(* The initial states. *)
LEMMA InitHV ==
    ASSUME Init
    PROVE  HVInv
<1> USE RemoteHVAssumption DEF Init
<1>1. HwType
  <2>1. IsModule(NoReading)
    BY DEF IsModule, NoReading
  <2>2. \A c \in Chans : \E l \in Levels : hw[c] = [on |-> FALSE, v0 |-> l, there |-> TRUE]
    OBVIOUS
  <2>3. \A c \in Chans : IsModule(hw[c])
    <3> TAKE c \in Chans
    <3>1. PICK l \in Levels : hw[c] = [on |-> FALSE, v0 |-> l, there |-> TRUE]
      BY <2>2
    <3>2. hw[c].on = FALSE /\ hw[c].v0 = l /\ hw[c].there = TRUE /\ l \in Nat
      BY <3>1
    <3> QED BY <3>1, <3>2 DEF IsModule
  <2>4. hw = [c \in Chans |-> hw[c]]
    OBVIOUS
  <2> QED BY <2>1, <2>3, <2>4 DEF HwType
<1>2. ReqType
  BY DEF ReqType, NoReq
<1>3. GateType
  BY DEF GateType
<1>4. LimitInv
  BY DEF LimitInv
<1>5. ReadInv
  BY DEF ReadInv
<1>6. LateInv
  BY DEF LateInv
<1>7. DreamInv
  BY DEF DreamInv
<1> QED
  BY <1>1, <1>2, <1>3, <1>4, <1>5, <1>6, <1>7 DEF HVInv

(* Ramps keeps the invariant. *)
LEMMA RampsKeeps ==
    ASSUME HVInv, NEW c \in Chans, Ramps(c)
    PROVE  HVInv'
<1> USE DEF HVInv, Ramps, bench, beam, live
<1>1. ReqType' /\ GateType' /\ LateInv' /\ DreamInv'
  BY DEF ReqType, GateType, LateInv, DreamInv
<1>2. HwType'
  <2>1. hw' = [hw EXCEPT ![c] = [hw[c] EXCEPT !.there = TRUE]]
    BY DEF HwType
  <2>2. IsModule([hw[c] EXCEPT !.there = TRUE])
    BY ModuleThere DEF HwType
  <2> QED BY <2>1, <2>2, OneChanges
<1>3. LimitInv'
  BY DEF LimitInv
<1>4. ReadInv'
  BY DEF ReadInv
<1> QED
  BY <1>1, <1>2, <1>3, <1>4

(* Hands keeps the invariant. *)
LEMMA HandsKeeps ==
    ASSUME HVInv, NEW c \in Chans, Hands(c)
    PROVE  HVInv'
<1> USE DEF HVInv, Hands, bench, beam, live
<1>1. ReqType' /\ GateType' /\ LateInv' /\ DreamInv'
  BY DEF ReqType, GateType, LateInv, DreamInv
<1>2. HwType'
  <2>1. CASE UNCHANGED hw
    BY <2>1 DEF HwType
  <2>2. ASSUME NEW on \in BOOLEAN, NEW l \in Levels,
               hw' = [hw EXCEPT ![c] = [on |-> on, v0 |-> l, there |-> FALSE]]
        PROVE  HwType'
    <3>1. IsModule([on |-> on, v0 |-> l, there |-> FALSE])
      BY RemoteHVAssumption DEF IsModule
    <3> QED BY <2>2, <3>1, OneChanges
  <2> QED BY <2>1, <2>2
<1>3. LimitInv'
  BY RemoteHVAssumption DEF LimitInv, HwType, ReqType
<1>4. ReadInv'
  BY RemoteHVAssumption DEF ReadInv, HwType
<1> QED
  BY <1>1, <1>2, <1>3, <1>4

(* PageSets keeps the invariant. *)
LEMMA PageSetsKeeps ==
    ASSUME HVInv, NEW c \in Chans, PageSets(c)
    PROVE  HVInv'
<1> USE DEF HVInv, PageSets, Ask, bench, beam, live
<1>1. HwType' /\ GateType' /\ LimitInv' /\ ReadInv' /\ LateInv' /\ DreamInv'
  BY DEF HwType, GateType, LimitInv, ReadInv, LateInv, DreamInv
<1>2. ReqType'
  BY RemoteHVAssumption DEF ReqType, GateType, Sources, Target, NoReq
<1> QED
  BY <1>1, <1>2

(* AllOffNext keeps the invariant. *)
LEMMA AllOffNextKeeps ==
    ASSUME HVInv, NEW c \in Chans, AllOffNext(c)
    PROVE  HVInv'
<1> USE DEF HVInv, AllOffNext, Ask, bench, beam, live
<1>1. HwType' /\ GateType' /\ LimitInv' /\ ReadInv' /\ LateInv' /\ DreamInv'
  BY DEF HwType, GateType, LimitInv, ReadInv, LateInv, DreamInv
<1>2. ReqType'
  BY DEF ReqType
<1> QED
  BY <1>1, <1>2

(* ServiceSends keeps the invariant. *)
LEMMA ServiceSendsKeeps ==
    ASSUME HVInv, NEW s \in Sources, ServiceSends(s)
    PROVE  HVInv'
<1> USE DEF HVInv, ServiceSends, Answers, Valid, bench, beam, live
<1>1. /\ req[s] = [pc |-> "asked", c |-> req[s].c, param |-> req[s].param, v |-> req[s].v]
      /\ req[s].c \in Chans /\ req[s].v \in Nat
  BY DEF ReqType
<1> DEFINE r == req[s]
           set == [on |-> hw[r.c].on, v0 |-> r.v, there |-> FALSE]
           switched == [on |-> r.v = 1, v0 |-> hw[r.c].v0, there |-> FALSE]
<1>2. \/ UNCHANGED <<hw, touched, unseen>>
      \/ /\ r.param = "v0" /\ r.v <= vmax /\ hw' = [hw EXCEPT ![r.c] = set]
         /\ unseen' = unseen \ {r.c} /\ touched' = touched \cup {r.c}
      \/ /\ r.param # "v0" /\ (r.v = 1 => snapshot[r.c].v0 <= vmax)
         /\ hw' = [hw EXCEPT ![r.c] = switched] \/ UNCHANGED hw
         /\ unseen' = IF snapshot[r.c] = NoReading THEN unseen \cup {r.c} ELSE unseen
         /\ touched' = touched \cup {r.c}
  OBVIOUS
<1>3. IsModule(set) /\ IsModule(switched)
  BY <1>1 DEF HwType, IsModule
<1>4. /\ set.v0 = r.v
      /\ switched.v0 = hw[r.c].v0 /\ switched.on = (r.v = 1)
  OBVIOUS
<1>5. GateType' /\ LateInv' /\ DreamInv'
  BY <1>1, <1>2, <1>3, <1>4 DEF GateType, LateInv, DreamInv
<1>6. HwType'
  BY <1>1, <1>2, <1>3, OneChanges DEF HwType
<1>7. ReqType'
  BY <1>1 DEF ReqType, NoReq, Sources
<1>8. LimitInv'
  <2> SUFFICES ASSUME NEW c \in Chans, c \notin unseen', hw'[c].v0 > vmax
              PROVE  ~hw'[c].on /\ (snapshot[c] = NoReading \/ snapshot[c].v0 = hw'[c].v0)
    BY DEF LimitInv
  <2> HIDE DEF set, switched
  <2>1. CASE c # r.c
    BY <1>2, <2>1 DEF LimitInv, HwType
  <2>2. CASE c = r.c
    BY <1>1, <1>2, <1>4, <2>2, RemoteHVAssumption DEF LimitInv, HwType, IsModule
  <2> QED BY <2>1, <2>2
<1>9. ReadInv'
  BY <1>1, <1>2 DEF ReadInv, HwType
<1> QED
  BY <1>5, <1>6, <1>7, <1>8, <1>9

(* ServiceReadsBack keeps the invariant. *)
LEMMA ServiceReadsBackKeeps ==
    ASSUME HVInv, NEW s \in Sources, ServiceReadsBack(s)
    PROVE  HVInv'
<1> USE DEF HVInv, ServiceReadsBack, PollOnce, Answers, bench, beam, live
<1>1. GateType' /\ LateInv' /\ DreamInv'
  BY DEF GateType, LateInv, DreamInv
<1>2. HwType'
  BY PollReads DEF HwType
<1>3. ReqType'
  BY DEF ReqType, Sources, Target, NoReq
<1>4. LimitInv'
  BY PollReads DEF LimitInv
<1>5. ReadInv'
  BY PollReads DEF ReadInv
<1> QED
  BY <1>1, <1>2, <1>3, <1>4, <1>5

(* Polls keeps the invariant. *)
LEMMA PollsKeeps ==
    ASSUME HVInv, Polls
    PROVE  HVInv'
<1> USE DEF HVInv, Polls, PollOnce, bench, beam, live
<1>1. ReqType' /\ GateType' /\ LateInv' /\ DreamInv'
  BY DEF ReqType, GateType, LateInv, DreamInv
<1>2. HwType'
  BY PollReads DEF HwType
<1>3. LimitInv'
  BY PollReads DEF LimitInv
<1>4. ReadInv'
  BY PollReads DEF ReadInv
<1> QED
  BY <1>1, <1>2, <1>3, <1>4

(* GoesStale keeps the invariant. *)
LEMMA GoesStaleKeeps ==
    ASSUME HVInv, GoesStale
    PROVE  HVInv'
<1> USE DEF HVInv, GoesStale, bench, beam, live
<1>1. HwType' /\ ReqType' /\ GateType' /\ LimitInv' /\ ReadInv' /\ LateInv' /\
      DreamInv'
  BY DEF HwType, ReqType, GateType, LimitInv, ReadInv, LateInv, DreamInv
<1> QED
  BY <1>1

(* PageAllOff keeps the invariant. *)
LEMMA PageAllOffKeeps ==
    ASSUME HVInv, PageAllOff
    PROVE  HVInv'
<1> USE DEF HVInv, PageAllOff, bench, beam, live
<1>1. HwType' /\ ReqType' /\ GateType' /\ LimitInv' /\ ReadInv' /\ LateInv' /\
      DreamInv'
  BY DEF HwType, ReqType, GateType, LimitInv, ReadInv, LateInv, DreamInv
<1> QED
  BY <1>1

(* LogStarts keeps the invariant. *)
LEMMA LogStartsKeeps ==
    ASSUME HVInv, LogStarts
    PROVE  HVInv'
<1> USE DEF HVInv, LogStarts, GateTo, bench, beam, live
<1>1. HwType' /\ ReqType' /\ LimitInv' /\ ReadInv' /\ DreamInv'
  BY DEF HwType, ReqType, LimitInv, ReadInv, DreamInv
<1>2. GateType'
  BY DEF GateType
<1>3. LateInv'
  BY DEF LateInv
<1> QED
  BY <1>1, <1>2, <1>3

(* GateStarts keeps the invariant. *)
LEMMA GateStartsKeeps ==
    ASSUME HVInv, GateStarts
    PROVE  HVInv'
<1> USE DEF HVInv, GateStarts, bench, beam, live
<1>1. HwType' /\ ReqType' /\ LimitInv' /\ ReadInv' /\ DreamInv'
  BY DEF HwType, ReqType, LimitInv, ReadInv, DreamInv
<1>2. GateType'
  <2>1. gate' = [pc |-> "start", sub |-> gate.sub + 1, todo |-> {},
                 read |-> [c \in Chans |-> NoReading], stable |-> 0]
    BY DEF GateType
  <2>2. gate.sub + 1 \in 0..Len(Plan) /\ gate.sub + 1 # 0
    <3>1. Len(Plan) \in Nat
      BY RemoteHVAssumption
    <3> QED BY <3>1 DEF GateType
  <2>3. gate' = [pc |-> gate'.pc, sub |-> gate'.sub, todo |-> gate'.todo, read |-> gate'.read,
                 stable |-> gate'.stable]
        /\ gate'.sub = gate.sub + 1 /\ gate'.todo = {} /\ gate'.pc = "start"
    BY <2>1
  <2> QED BY <2>2, <2>3 DEF GateType
<1>3. LateInv'
  BY DEF LateInv
<1> QED
  BY <1>1, <1>2, <1>3

(* GateLooks keeps the invariant. *)
LEMMA GateLooksKeeps ==
    ASSUME HVInv, GateLooks
    PROVE  HVInv'
<1> USE DEF HVInv, GateLooks, GateTo, bench, beam, live
<1>1. HwType' /\ ReqType' /\ LimitInv' /\ ReadInv' /\ DreamInv'
  BY DEF HwType, ReqType, LimitInv, ReadInv, DreamInv
<1>2. GateType'
  BY DEF GateType
<1>3. LateInv'
  BY DEF LateInv
<1> QED
  BY <1>1, <1>2, <1>3

(* GateSends keeps the invariant. *)
LEMMA GateSendsKeeps ==
    ASSUME HVInv, GateSends
    PROVE  HVInv'
<1> USE DEF HVInv, GateSends, Ask, bench, beam, live
<1>1. HwType' /\ LimitInv' /\ ReadInv' /\ DreamInv'
  BY DEF HwType, LimitInv, ReadInv, DreamInv
<1>2. ReqType'
  BY RemoteHVAssumption DEF ReqType, GateType, Sources, Target, NoReq
<1>3. GateType'
  BY DEF GateType
<1>4. LateInv'
  BY DEF LateInv
<1> QED
  BY <1>1, <1>2, <1>3, <1>4

(* GateGoesOn keeps the invariant. *)
LEMMA GateGoesOnKeeps ==
    ASSUME HVInv, GateGoesOn
    PROVE  HVInv'
<1> USE DEF HVInv, GateGoesOn, bench, beam, live
<1>1. HwType' /\ ReqType' /\ LimitInv' /\ ReadInv' /\ DreamInv'
  BY DEF HwType, ReqType, LimitInv, ReadInv, DreamInv
<1>2. GateType'
  BY DEF GateType
<1>3. LateInv'
  BY DEF LateInv
<1> QED
  BY <1>1, <1>2, <1>3

(* GateGivesUp keeps the invariant. *)
LEMMA GateGivesUpKeeps ==
    ASSUME HVInv, GateGivesUp
    PROVE  HVInv'
<1> USE DEF HVInv, GateGivesUp, bench, beam, live
<1>1. HwType' /\ LimitInv' /\ ReadInv' /\ DreamInv'
  BY DEF HwType, LimitInv, ReadInv, DreamInv
<1>2. ReqType'
  BY DEF ReqType, Sources, Target, NoReq
<1>3. GateType'
  BY DEF GateType
<1>4. LateInv'
  BY DEF LateInv
<1> QED
  BY <1>1, <1>2, <1>3, <1>4

(* GateWaits keeps the invariant. *)
LEMMA GateWaitsKeeps ==
    ASSUME HVInv, GateWaits
    PROVE  HVInv'
<1> USE DEF HVInv, GateWaits, GateTo, bench, beam, live
<1>1. HwType' /\ ReqType' /\ LimitInv' /\ ReadInv' /\ DreamInv'
  BY DEF HwType, ReqType, LimitInv, ReadInv, DreamInv
<1>2. GateType'
  BY DEF GateType
<1>3. LateInv'
  BY DEF LateInv
<1> QED
  BY <1>1, <1>2, <1>3

(* StateFileShows keeps the invariant. *)
LEMMA StateFileShowsKeeps ==
    ASSUME HVInv, StateFileShows
    PROVE  HVInv'
<1> USE DEF HVInv, StateFileShows, bench, beam, live
<1>1. HwType' /\ ReqType' /\ GateType' /\ LimitInv' /\ ReadInv' /\ DreamInv'
  BY DEF HwType, ReqType, GateType, LimitInv, ReadInv, DreamInv
<1>2. LateInv'
  BY DEF LateInv
<1> QED
  BY <1>1, <1>2

(* GateOpens keeps the invariant. *)
LEMMA GateOpensKeeps ==
    ASSUME HVInv, GateOpens
    PROVE  HVInv'
<1> USE DEF HVInv, GateOpens, GateTo, FirstGate, Gated, bench, beam, live
<1>1. HwType' /\ ReqType' /\ LimitInv' /\ ReadInv' /\ DreamInv'
  BY DEF HwType, ReqType, LimitInv, ReadInv, DreamInv
<1>2. GateType'
  BY DEF GateType
<1>3. LateInv'
  BY DEF LateInv
<1> QED
  BY <1>1, <1>2, <1>3

(* DreamMoves keeps the invariant. *)
LEMMA DreamMovesKeeps ==
    ASSUME HVInv, DreamMoves
    PROVE  HVInv'
<1> USE DEF HVInv, DreamMoves, bench, beam, live
<1>1. HwType' /\ ReqType' /\ GateType' /\ LimitInv' /\ ReadInv' /\ LateInv'
  BY DEF HwType, ReqType, GateType, LimitInv, ReadInv, LateInv
<1>2. DreamInv'
  BY DEF DreamInv
<1> QED
  BY <1>1, <1>2

(* DreamArrives keeps the invariant. *)
LEMMA DreamArrivesKeeps ==
    ASSUME HVInv, DreamArrives
    PROVE  HVInv'
<1> USE DEF HVInv, DreamArrives, bench, beam, live
<1>1. HwType' /\ ReqType' /\ GateType' /\ LimitInv' /\ ReadInv' /\ LateInv'
  BY DEF HwType, ReqType, GateType, LimitInv, ReadInv, LateInv
<1>2. DreamInv'
  BY DEF DreamInv
<1> QED
  BY <1>1, <1>2

(* GateSeesDream keeps the invariant. *)
LEMMA GateSeesDreamKeeps ==
    ASSUME HVInv, GateSeesDream
    PROVE  HVInv'
<1> USE DEF HVInv, GateSeesDream, GateTo, bench, beam, live
<1>1. HwType' /\ ReqType' /\ LimitInv' /\ ReadInv' /\ DreamInv'
  BY DEF HwType, ReqType, LimitInv, ReadInv, DreamInv
<1>2. GateType'
  BY DEF GateType
<1>3. LateInv'
  BY DEF LateInv
<1> QED
  BY <1>1, <1>2, <1>3

(* GateTimesOut keeps the invariant. *)
LEMMA GateTimesOutKeeps ==
    ASSUME HVInv, GateTimesOut
    PROVE  HVInv'
<1> USE DEF HVInv, GateTimesOut, GateTo, bench, beam, live
<1>1. HwType' /\ ReqType' /\ LimitInv' /\ ReadInv' /\ DreamInv'
  BY DEF HwType, ReqType, LimitInv, ReadInv, DreamInv
<1>2. GateType'
  BY DEF GateType
<1>3. LateInv'
  BY DEF LateInv
<1> QED
  BY <1>1, <1>2, <1>3

(* LogWrites keeps the invariant. *)
LEMMA LogWritesKeeps ==
    ASSUME HVInv, LogWrites
    PROVE  HVInv'
<1> USE DEF HVInv, LogWrites, bench, beam, live
<1>1. HwType' /\ ReqType' /\ GateType' /\ LimitInv' /\ ReadInv' /\ DreamInv'
  BY DEF HwType, ReqType, GateType, LimitInv, ReadInv, DreamInv
<1>2. LateInv'
  BY DEF LateInv
<1> QED
  BY <1>1, <1>2

(* LogStops keeps the invariant. *)
LEMMA LogStopsKeeps ==
    ASSUME HVInv, LogStops
    PROVE  HVInv'
<1> USE DEF HVInv, LogStops, GateTo, bench, beam, live
<1>1. HwType' /\ ReqType' /\ LimitInv' /\ ReadInv' /\ DreamInv'
  BY DEF HwType, ReqType, LimitInv, ReadInv, DreamInv
<1>2. GateType'
  BY DEF GateType
<1>3. LateInv'
  BY DEF LateInv
<1> QED
  BY <1>1, <1>2, <1>3

(* LiveRequest keeps the invariant. *)
LEMMA LiveRequestKeeps ==
    ASSUME HVInv, LiveRequest
    PROVE  HVInv'
<1> USE DEF HVInv, LiveRequest, bench, beam, live
<1>1. HwType' /\ ReqType' /\ GateType' /\ LimitInv' /\ ReadInv' /\ LateInv' /\
      DreamInv'
  BY DEF HwType, ReqType, GateType, LimitInv, ReadInv, LateInv, DreamInv
<1> QED
  BY <1>1

(* EnsureThread keeps the invariant. *)
LEMMA EnsureThreadKeeps ==
    ASSUME HVInv, EnsureThread
    PROVE  HVInv'
<1> USE DEF HVInv, EnsureThread, bench, beam, live
<1>1. HwType' /\ ReqType' /\ GateType' /\ LimitInv' /\ ReadInv' /\ LateInv' /\
      DreamInv'
  BY DEF HwType, ReqType, GateType, LimitInv, ReadInv, LateInv, DreamInv
<1> QED
  BY <1>1

(* LiveIdle keeps the invariant. *)
LEMMA LiveIdleKeeps ==
    ASSUME HVInv, LiveIdle
    PROVE  HVInv'
<1> USE DEF HVInv, LiveIdle, bench, beam, live
<1>1. HwType' /\ ReqType' /\ GateType' /\ LimitInv' /\ ReadInv' /\ LateInv' /\
      DreamInv'
  BY DEF HwType, ReqType, GateType, LimitInv, ReadInv, LateInv, DreamInv
<1> QED
  BY <1>1

(* LivePolls keeps the invariant. *)
LEMMA LivePollsKeeps ==
    ASSUME HVInv, LivePolls
    PROVE  HVInv'
<1> USE DEF HVInv, LivePolls, bench, beam, live
<1>1. HwType' /\ ReqType' /\ GateType' /\ LimitInv' /\ ReadInv' /\ LateInv' /\
      DreamInv'
  BY DEF HwType, ReqType, GateType, LimitInv, ReadInv, LateInv, DreamInv
<1> QED
  BY <1>1

(* LiveFails keeps the invariant. *)
LEMMA LiveFailsKeeps ==
    ASSUME HVInv, LiveFails
    PROVE  HVInv'
<1> USE DEF HVInv, LiveFails, bench, beam, live
<1>1. HwType' /\ ReqType' /\ GateType' /\ LimitInv' /\ ReadInv' /\ LateInv' /\
      DreamInv'
  BY DEF HwType, ReqType, GateType, LimitInv, ReadInv, LateInv, DreamInv
<1> QED
  BY <1>1

(* LiveCloses keeps the invariant. *)
LEMMA LiveClosesKeeps ==
    ASSUME HVInv, LiveCloses
    PROVE  HVInv'
<1> USE DEF HVInv, LiveCloses, bench, beam, live
<1>1. HwType' /\ ReqType' /\ GateType' /\ LimitInv' /\ ReadInv' /\ LateInv' /\
      DreamInv'
  BY DEF HwType, ReqType, GateType, LimitInv, ReadInv, LateInv, DreamInv
<1> QED
  BY <1>1

(* Pauses keeps the invariant. *)
LEMMA PausesKeeps ==
    ASSUME HVInv, Pauses
    PROVE  HVInv'
<1> USE DEF HVInv, Pauses, bench, beam, live
<1>1. HwType' /\ ReqType' /\ GateType' /\ LimitInv' /\ ReadInv' /\ LateInv' /\
      DreamInv'
  BY DEF HwType, ReqType, GateType, LimitInv, ReadInv, LateInv, DreamInv
<1> QED
  BY <1>1

(* So does every step, and one that changes nothing. *)
LEMMA HVKeeps ==
    ASSUME HVInv, [Next]_vars
    PROVE  HVInv'
<1>1. CASE Next
  BY <1>1, RampsKeeps, HandsKeeps, PageSetsKeeps, AllOffNextKeeps,
     ServiceSendsKeeps, ServiceReadsBackKeeps, PollsKeeps, GoesStaleKeeps,
     PageAllOffKeeps, GateStartsKeeps, GateLooksKeeps, GateSendsKeeps,
     GateGoesOnKeeps, GateGivesUpKeeps, GateWaitsKeeps, StateFileShowsKeeps,
     GateOpensKeeps, DreamMovesKeeps, DreamArrivesKeeps, GateSeesDreamKeeps,
     GateTimesOutKeeps, LogStartsKeeps, LogWritesKeeps, LogStopsKeeps,
     LiveRequestKeeps, EnsureThreadKeeps, LiveIdleKeeps, LivePollsKeeps,
     LiveFailsKeeps, LiveClosesKeeps, PausesKeeps DEF Next
<1>2. CASE UNCHANGED vars
  BY <1>2 DEF vars, bench, beam, live, HVInv, HwType, ReqType, GateType,
     LimitInv, ReadInv, LateInv, DreamInv
<1> QED
  BY <1>1, <1>2

-----------------------------------------------------------------------------

(* HVInv holds in every reachable state, for all values of the constants.  *)
THEOREM RemoteHVInvariance == Spec => []HVInv
<1>1. Init => HVInv
  BY InitHV
<1>2. HVInv /\ [Next]_vars => HVInv'
  BY HVKeeps
<1> QED BY <1>1, <1>2, PTL DEF Spec

(* The service's two checks keep every channel within its limit, whoever   *)
(* asks for what in which order: what it did not read is the only way past.*)
THEOREM NeverOnAboveLimit == Spec => []OnWithinLimit
<1>1. HVInv => OnWithinLimit
  BY DEF HVInv, LimitInv, OnWithinLimit
<1> QED BY <1>1, RemoteHVInvariance, PTL

(* Of all actions only three open the gate.                                *)
LEMMA GateSetBy ==
    ASSUME Next, gate.pc # "set", gate'.pc = "set", GateType
    PROVE  GateWaits \/ GateOpens \/ GateSeesDream
<1>1. gate' # gate
  OBVIOUS
<1>2. ~\E c \in Chans : Ramps(c) \/ Hands(c) \/ PageSets(c) \/ AllOffNext(c)
  BY <1>1 DEF Ramps, Hands, PageSets, AllOffNext
<1>3. ~\E s \in Sources : ServiceSends(s) \/ ServiceReadsBack(s)
  BY <1>1 DEF ServiceSends, ServiceReadsBack
<1>4. ~(Polls \/ GoesStale \/ PageAllOff)
  BY <1>1 DEF Polls, GoesStale, PageAllOff
<1>5. ~(GateStarts \/ GateLooks \/ GateSends \/ GateGoesOn \/ GateGivesUp \/ GateTimesOut)
  BY DEF GateStarts, GateLooks, GateTo, GateSends, GateGoesOn, GateGivesUp,
     GateTimesOut, GateType
<1>6. ~(StateFileShows \/ DreamMoves \/ DreamArrives)
  BY <1>1 DEF StateFileShows, DreamMoves, DreamArrives
<1>7. ~(LogStarts \/ LogWrites \/ LogStops)
  BY <1>1 DEF LogStarts, LogWrites, LogStops, GateTo, GateType
<1>8. ~(LiveRequest \/ EnsureThread \/ LiveIdle \/ LivePolls \/ LiveFails \/ LiveCloses \/ Pauses)
  BY <1>1 DEF LiveRequest, EnsureThread, LiveIdle, LivePolls, LiveFails,
     LiveCloses, Pauses
<1> QED
  BY <1>2, <1>3, <1>4, <1>5, <1>6, <1>7, <1>8 DEF Next

(* "HV Set" is the truth when the gate opens: on the bench by what was read*)
(* last, at the beam by what Dream has reached.                            *)
THEOREM SetIsThere == Spec => SetMeansThere
<1>1. ASSUME HVInv, Next, gate.pc # "set", gate'.pc = "set"
      PROVE  /\ site = "bench" => \A c \in Chans : At(hw[c], Target[c]) \/ c \in touched
             /\ site = "sps" /\ combined # "no" /\ Gated => gate.sub \in dream.reached
  <2> USE <1>1 DEF HVInv
  <2>1. CASE GateWaits
    <3>1. site = "bench" /\ \A c \in Chans : InPlace(c)
      BY <1>1, <2>1 DEF GateWaits, GateTo, GateType
    <3>2. \A c \in Chans : State[c] # NoReading => State[c] = snapshot[c]
      BY DEF State
    <3>3. \A c \in Chans : c \in touched \/ hw[c] = State[c]
      BY <3>1, <3>2 DEF InPlace, At, ReadInv
    <3> QED BY <3>1, <3>3 DEF InPlace
  <2>2. CASE GateOpens
    BY <2>2 DEF GateOpens, FirstGate, LateInv
  <2>3. CASE GateSeesDream
    <3>1. PICK r \in Readback(gate.sub) : r.match /\ r.fresh
      BY <2>3 DEF GateSeesDream, Releases
    <3>2. gate.sub \in dream.reached
      BY <3>1 DEF Readback, DreamInv
    <3> QED BY <2>3, <3>2 DEF GateSeesDream
  <2> QED BY <1>1, <2>1, <2>2, <2>3, GateSetBy
<1>2. HVInv /\ [Next]_vars =>
        [gate.pc # "set" /\ gate'.pc = "set" =>
           /\ site = "bench" => \A c \in Chans : At(hw[c], Target[c]) \/ c \in touched
           /\ site = "sps" /\ combined # "no" /\ Gated => gate.sub \in dream.reached]_vars
  BY <1>1
<1> QED BY <1>2, RemoteHVInvariance, PTL DEF Spec, SetMeansThere

-----------------------------------------------------------------------------
(* AdaptiveScan.                                                           *)

Visits == {"probe", "probing", "long", "measuring"}

VisitType ==
    /\ at = [pc |-> at.pc, i |-> at.i, prev |-> at.prev, it |-> at.it, cfg |-> at.cfg,
             left |-> at.left, cut |-> at.cut]
    /\ at.pc \in {"off", "next"} \cup Visits /\ at.i \in Nat
    /\ at.pc = "next" => at.i # 0
    /\ at.cut \in BOOLEAN
    /\ at.pc \in Visits => at.i \in Points

\* What is recorded of the chips.
IsState(s) ==
    /\ s = [found |-> s.found, hold |-> s.hold, done |-> s.done]
    /\ s.found \in [Range(Ks) -> [CHIPS -> SUBSET Channels]]
    /\ s.hold = [c \in CHIPS |-> s.hold[c]]
    /\ \A c \in CHIPS : s.hold[c].k \in Range(Ks) \cup {NoK}
    /\ s.done \subseteq Range(Ks)

StateType == IsState(st)

RunType ==
    /\ run = [on |-> run.on, cfg |-> run.cfg, flood |-> run.flood, stopped |-> run.stopped]
    /\ run.on \in BOOLEAN /\ run.flood \in BOOLEAN /\ run.stopped \in BOOLEAN

\* The fallback is a point above that is done.
FallbackInv == at.pc \in Visits => at.prev = NoK \/ (at.prev \in st.done /\ at.prev > K)

\* From the probe on, the configuration is that of what is recorded.
SettingInv == at.pc \in {"probing", "long", "measuring"} => at.cfg = Setting(st, K)

\* A long run is in the history with what it was taken with.
MeasuredInv ==
    /\ past = [c \in CHIPS |-> past[c]]
    /\ at.pc = "measuring" =>
          \A c \in CHIPS : [k |-> at.cfg.sdt[c], masks |-> at.cfg.masks[c]] \in past[c]

\* A point that is done was measured, for the chips that were not held then,
\* with no mask it does not have now; or it was rehearsed.
MeasuredAt(c, k, masks) ==
    k \in rehearsed \/ \E p \in past[c] : p.k = k /\ p.masks \subseteq masks
DoneInv ==
    \A k \in st.done : \A c \in CHIPS :
        ~Held(st, c, k) => MeasuredAt(c, k, st.found[k][c])

ScanInv ==
    /\ VisitType /\ StateType /\ RunType
    /\ FallbackInv /\ SettingInv /\ MeasuredInv /\ DoneInv
    /\ HeldAtMeasured /\ CleanWasNotStopped

\* What a decode does to what is recorded.
Grows(s) ==
    /\ IsState(s) /\ s.done = st.done
    /\ \A j \in Range(Ks), c \in CHIPS : st.found[j][c] \subseteq s.found[j][c]
    /\ \A c \in CHIPS :
          \/ s.hold[c] = st.hold[c]
          \/ /\ at.prev # NoK /\ ~Held(st, c, K)
             /\ s.hold[c] = [k |-> at.prev, masks |-> st.found[at.prev][c]]

-----------------------------------------------------------------------------

(* A nonempty set of naturals has a least element.                         *)
LEMMA LeastNat ==
    ASSUME NEW T, T \subseteq Nat, T # {}
    PROVE  \E x \in T : \A y \in T : x <= y
<1> DEFINE R == OpToRel(<, Nat)
<1>1. IsWellFoundedOn(R, Nat)
  BY NatLessThanWellFounded
<1>2. \A x, y \in Nat : <<x, y>> \in R <=> x < y
  BY DEF OpToRel
<1> HIDE DEF R
<1>3. PICK x \in T : \A y \in T : ~(<<y, x>> \in R)
  BY <1>1, WFMin
<1>4. \A y \in T : ~(y < x)
  BY <1>2, <1>3
<1>5. x \in Nat /\ \A y \in T : y \in Nat
  OBVIOUS
<1> QED BY <1>4, <1>5

(* The offsets of the points are naturals.                                 *)
LEMMA OffsetNat == Range(Ks) \subseteq Nat
  BY AdaptiveScanAssumption DEF Range

(* A visit is at one of the points.                                        *)
LEMMA VisitAt ==
    ASSUME VisitType, at.pc \in Visits
    PROVE  K \in Range(Ks) /\ K \in Nat
<1>1. K \in Range(Ks)
  BY AdaptiveScanAssumption DEF Range, VisitType, K, Points
<1> QED BY <1>1, OffsetNat

(* The fallback of a point is a point above it that is done.               *)
LEMMA FallbackIs ==
    ASSUME StateType, NEW k \in Nat
    PROVE  Fallback(st, k) = NoK \/ (Fallback(st, k) \in st.done /\ Fallback(st, k) > k)
<1> DEFINE above == {j \in st.done : j > k}
<1>1. above \subseteq Nat
  BY OffsetNat DEF StateType, IsState
<1>2. above # {} => Min(above) \in above
  <2> SUFFICES ASSUME above # {} PROVE Min(above) \in above
    OBVIOUS
  <2>1. \E x \in above : \A y \in above : x <= y
    BY <1>1, LeastNat
  <2> HIDE DEF above
  <2> QED BY <2>1, Zenon DEF Min
<1> QED BY <1>2 DEF Fallback

(* What a chip is held at is what it was measured with at the fallback, which *)
(* is above where it is held now.                                             *)
LEMMA HoldIs ==
    ASSUME VisitType, StateType, FallbackInv, at.pc \in Visits, at.prev # NoK,
           NEW c \in CHIPS, ~Held(st, c, K)
    PROVE  /\ Hold(st, c, at.prev) = [k |-> at.prev, masks |-> st.found[at.prev][c]]
           /\ ~Held(st, c, at.prev)
           /\ at.prev \in st.done /\ at.prev \in Range(Ks) /\ at.prev > K
<1>1. /\ at.prev \in st.done /\ at.prev > K /\ at.prev \in Range(Ks)
      /\ at.prev \in Nat /\ K \in Nat /\ st.hold[c].k \in Nat \cup {-1}
  BY OffsetNat, VisitAt DEF FallbackInv, StateType, IsState, NoK
<1>2. ~Held(st, c, at.prev)
  BY <1>1 DEF Held
<1> QED
  BY <1>1, <1>2 DEF Hold, MasksAt

(* New masks are added, and chips are held at the fallback.                *)
LEMMA MasksApplied ==
    ASSUME VisitType, StateType, FallbackInv, at.pc \in Visits,
           NEW new \in [CHIPS -> SUBSET Channels]
    PROVE  Grows(ApplyNewMasks(st, K, new, at.prev))
<1> DEFINE free == {c \in CHIPS : new[c] # {} /\ ~Held(st, c, K)}
           over == {c \in free : /\ Cardinality(st.found[K][c] \cup new[c]) > max_masks_per_chip
                                 /\ at.prev # NoK}
           masks == [c \in CHIPS |-> IF c \in free \ over THEN st.found[K][c] \cup new[c]
                                                          ELSE st.found[K][c]]
           found == [st.found EXCEPT ![K] = masks]
           hold == [c \in CHIPS |-> IF c \in over THEN Hold(st, c, at.prev) ELSE st.hold[c]]
           s == [found |-> found, hold |-> hold, done |-> st.done]
<1>1. K \in Range(Ks) /\ IsState(st)
  BY VisitAt DEF StateType
<1>2. ApplyNewMasks(st, K, new, at.prev) = s
  BY DEF ApplyNewMasks
<1>3. masks \in [CHIPS -> SUBSET Channels] /\ \A c \in CHIPS : st.found[K][c] \subseteq masks[c]
  BY <1>1 DEF IsState
<1>4. \A c \in over : /\ c \in CHIPS /\ ~Held(st, c, K) /\ at.prev # NoK
                      /\ Hold(st, c, at.prev) = [k |-> at.prev, masks |-> st.found[at.prev][c]]
                      /\ at.prev \in Range(Ks)
  BY HoldIs
<1> HIDE DEF masks, over
<1>5. /\ found \in [Range(Ks) -> [CHIPS -> SUBSET Channels]]
      /\ \A j \in Range(Ks), c \in CHIPS : st.found[j][c] \subseteq found[j][c]
  BY <1>1, <1>3 DEF IsState
<1>6. \A c \in CHIPS : /\ hold[c].k \in Range(Ks) \cup {NoK}
                       /\ \/ hold[c] = st.hold[c]
                          \/ /\ at.prev # NoK /\ ~Held(st, c, K)
                             /\ hold[c] = [k |-> at.prev, masks |-> st.found[at.prev][c]]
  BY <1>1, <1>4 DEF IsState
<1>7. hold = [c \in CHIPS |-> hold[c]]
  OBVIOUS
<1> HIDE DEF found, hold
<1>8. s.found = found /\ s.hold = hold /\ s.done = st.done
  OBVIOUS
<1>9. IsState(s)
  BY <1>1, <1>5, <1>6, <1>7 DEF IsState
<1> QED BY <1>2, <1>5, <1>6, <1>8, <1>9 DEF Grows

(* A loud probe holds chips that are free at the fallback.                 *)
LEMMA LoudHeld ==
    ASSUME VisitType, StateType, FallbackInv, at.pc \in Visits, at.prev # NoK,
           NEW two \in SUBSET {c \in CHIPS : ~Held(st, c, K)}
    PROVE  Grows(HoldLoud(st, two, at.prev))
<1> DEFINE hold == [c \in CHIPS |-> IF c \in two THEN Hold(st, c, at.prev) ELSE st.hold[c]]
           s == [found |-> st.found, hold |-> hold, done |-> st.done]
<1>1. IsState(st)
  BY DEF StateType
<1>2. HoldLoud(st, two, at.prev) = s
  BY <1>1 DEF HoldLoud, IsState
<1>3. \A c \in two : /\ c \in CHIPS /\ ~Held(st, c, K)
                     /\ Hold(st, c, at.prev) = [k |-> at.prev, masks |-> st.found[at.prev][c]]
                     /\ at.prev \in Range(Ks)
  BY HoldIs
<1>4. \A c \in CHIPS : /\ hold[c].k \in Range(Ks) \cup {NoK}
                       /\ \/ hold[c] = st.hold[c]
                          \/ /\ at.prev # NoK /\ ~Held(st, c, K)
                             /\ hold[c] = [k |-> at.prev, masks |-> st.found[at.prev][c]]
  BY <1>1, <1>3 DEF IsState
<1>5. hold = [c \in CHIPS |-> hold[c]]
  OBVIOUS
<1> HIDE DEF hold
<1>6. s.found = st.found /\ s.hold = hold /\ s.done = st.done
  OBVIOUS
<1>7. IsState(s)
  BY <1>1, <1>4, <1>5 DEF IsState
<1> QED BY <1>2, <1>4, <1>6, <1>7 DEF Grows

(* Chips that are held, and points that are done, stay measured.           *)
LEMMA GrownIsMeasured ==
    ASSUME ScanInv, at.pc \in Visits, NEW s, Grows(s), NEW c \in CHIPS
    PROVE  /\ s.hold[c].k # NoK => MeasuredAt(c, s.hold[c].k, s.hold[c].masks)
           /\ \A k \in st.done : ~Held(s, c, k) => MeasuredAt(c, k, s.found[k][c])
           /\ ~Held(s, c, K) => ~Held(st, c, K)
<1> USE DEF ScanInv
<1>1. /\ K \in Nat /\ st.done \subseteq Nat /\ st.done \subseteq Range(Ks)
      /\ st.hold[c].k \in Nat \cup {-1}
  BY OffsetNat, VisitAt DEF StateType, IsState, NoK
<1>2. CASE s.hold[c] = st.hold[c]
  <2>1. \A k : Held(s, c, k) <=> Held(st, c, k)
    BY <1>2 DEF Held
  <2>2. ASSUME NEW k \in st.done, ~Held(s, c, k)
        PROVE  MeasuredAt(c, k, s.found[k][c])
    <3>1. MeasuredAt(c, k, st.found[k][c])
      BY <2>1, <2>2 DEF DoneInv
    <3>2. st.found[k][c] \subseteq s.found[k][c]
      BY <1>1 DEF Grows
    <3> QED BY <3>1, <3>2 DEF MeasuredAt
  <2>3. st.hold[c].k # NoK => MeasuredAt(c, st.hold[c].k, st.hold[c].masks)
    BY DEF HeldAtMeasured, MeasuredAt
  <2> QED BY <1>2, <2>1, <2>2, <2>3
<1>3. CASE /\ at.prev # NoK /\ ~Held(st, c, K)
           /\ s.hold[c] = [k |-> at.prev, masks |-> st.found[at.prev][c]]
  <2>1. /\ ~Held(st, c, at.prev) /\ at.prev \in st.done /\ at.prev > K /\ at.prev \in Nat
        /\ s.hold[c].k = at.prev /\ s.hold[c].masks = st.found[at.prev][c]
    BY <1>1, <1>3, HoldIs
  <2>2. MeasuredAt(c, at.prev, st.found[at.prev][c])
    BY <2>1 DEF DoneInv
  <2>3. ASSUME NEW k \in st.done, ~Held(s, c, k)
        PROVE  MeasuredAt(c, k, s.found[k][c])
    <3>1. ~Held(st, c, k)
      BY <1>1, <1>3, <2>1, <2>3 DEF Held
    <3>2. MeasuredAt(c, k, st.found[k][c])
      BY <3>1 DEF DoneInv
    <3>3. st.found[k][c] \subseteq s.found[k][c]
      BY <1>1 DEF Grows
    <3> QED BY <3>2, <3>3 DEF MeasuredAt
  <2> QED BY <1>3, <2>1, <2>2, <2>3
<1> QED BY <1>2, <1>3 DEF Grows

(* A point whose long run was taken is measured.                           *)
LEMMA PointIsMeasured ==
    ASSUME ScanInv, at.pc = "measuring", NEW s, Grows(s), NEW c \in CHIPS, ~Held(s, c, K)
    PROVE  MeasuredAt(c, K, s.found[K][c])
<1> USE DEF ScanInv
<1>1. K \in Range(Ks) /\ at.pc \in Visits
  BY VisitAt DEF Visits
<1>2. ~Held(st, c, K)
  BY <1>1, GrownIsMeasured
<1>3. at.cfg.sdt[c] = K /\ at.cfg.masks[c] = st.found[K][c]
  BY <1>2 DEF SettingInv, Setting, SdtAt, MasksAt
<1>4. [k |-> K, masks |-> st.found[K][c]] \in past[c]
  BY <1>3 DEF MeasuredInv
<1>5. st.found[K][c] \subseteq s.found[K][c]
  BY <1>1 DEF Grows
<1> QED BY <1>4, <1>5 DEF MeasuredAt

(* What is recorded grows from itself.                                     *)
LEMMA GrowsStill == ASSUME StateType PROVE Grows(st)
  BY DEF StateType, Grows

-----------------------------------------------------------------------------

(* The point is left.                                                      *)
LEMMA Left ==
    ASSUME VisitType, at.pc \in Visits, Leaves(at)
    PROVE  VisitType' /\ at'.pc = "next"
<1>1. at' = [pc |-> "next", i |-> at.i + 1, prev |-> at.prev, it |-> at.it, cfg |-> <<>>,
             left |-> at.left, cut |-> at.cut]
  BY DEF VisitType, Leaves
<1>2. at.i \in Nat /\ at.cut \in BOOLEAN
  BY DEF VisitType
<1> QED BY <1>1, <1>2 DEF VisitType, Visits

(* The visit is at its point, and goes on there.                           *)
LEMMA GoesOn ==
    ASSUME VisitType, at.i \in Points, NEW pc \in Visits, NEW prev, NEW it, NEW cfg, NEW left,
           NEW cut \in BOOLEAN,
           at' = [pc |-> pc, i |-> at.i, prev |-> prev, it |-> it, cfg |-> cfg, left |-> left,
                  cut |-> cut]
    PROVE  /\ VisitType' /\ K' = K
           /\ at'.pc = pc /\ at'.prev = prev /\ at'.cfg = cfg /\ at'.cut = cut
  BY DEF VisitType, Visits, K

(* A point that is left without more ado leaves the rest as it is.         *)
LEMMA LeavesKeeps ==
    ASSUME ScanInv, at.pc \in Visits, Leaves(at), UNCHANGED <<st, past, rehearsed>>, RunType'
    PROVE  ScanInv'
<1> USE DEF ScanInv
<1>1. VisitType' /\ at'.pc = "next"
  BY Left
<1>2. StateType' /\ DoneInv' /\ HeldAtMeasured'
  BY DEF StateType, IsState, DoneInv, Held, MeasuredAt, HeldAtMeasured
<1>3. FallbackInv' /\ SettingInv' /\ CleanWasNotStopped'
  BY <1>1 DEF FallbackInv, SettingInv, CleanWasNotStopped, Visits
<1>4. MeasuredInv'
  BY <1>1 DEF MeasuredInv
<1> QED BY <1>1, <1>2, <1>3, <1>4

(* What a decode adds keeps what is recorded in order.                     *)
LEMMA GrowthKeeps ==
    ASSUME ScanInv, at.pc \in Visits, Grows(st'), UNCHANGED <<past, rehearsed>>
    PROVE  StateType' /\ DoneInv' /\ HeldAtMeasured'
<1>1. IsState(st') /\ st'.done = st.done
  BY DEF Grows
<1>2. StateType'
  BY <1>1 DEF StateType, IsState
<1>3. ASSUME NEW c \in CHIPS
      PROVE  /\ st'.hold[c].k # NoK => MeasuredAt(c, st'.hold[c].k, st'.hold[c].masks)
             /\ \A k \in st.done : ~Held(st', c, k) => MeasuredAt(c, k, st'.found[k][c])
  BY GrownIsMeasured
<1>4. DoneInv'
  BY <1>1, <1>3 DEF DoneInv, Held, MeasuredAt
<1>5. HeldAtMeasured'
  BY <1>3 DEF HeldAtMeasured, MeasuredAt
<1> QED BY <1>2, <1>4, <1>5

(* So does the point that is done after its long run.                      *)
LEMMA DoneKeeps ==
    ASSUME ScanInv, at.pc = "measuring", NEW s, Grows(s), UNCHANGED <<past, rehearsed>>,
           st' = [s EXCEPT !.done = @ \cup {K}]
    PROVE  StateType' /\ DoneInv' /\ HeldAtMeasured'
<1> USE DEF ScanInv
<1>1. /\ IsState(s) /\ s.done = st.done /\ K \in Range(Ks) /\ at.pc \in Visits
  BY VisitAt DEF Grows, Visits
<1>2. st' = [found |-> s.found, hold |-> s.hold, done |-> st.done \cup {K}]
  BY <1>1 DEF IsState
<1>3. /\ st'.found = s.found /\ st'.hold = s.hold /\ st'.done = st.done \cup {K}
  BY <1>2
<1>4. IsState(st')
  BY <1>1, <1>2, <1>3 DEF IsState
<1>5. StateType'
  BY <1>4 DEF StateType, IsState
<1>6. \A c \in CHIPS : \A k : Held(st', c, k) <=> Held(s, c, k)
  BY <1>3 DEF Held
<1>7. ASSUME NEW c \in CHIPS
      PROVE  /\ s.hold[c].k # NoK => MeasuredAt(c, s.hold[c].k, s.hold[c].masks)
             /\ \A k \in st.done \cup {K} : ~Held(s, c, k) => MeasuredAt(c, k, s.found[k][c])
  BY <1>1, GrownIsMeasured, PointIsMeasured
<1>8. DoneInv'
  BY <1>3, <1>6, <1>7 DEF DoneInv, Held, MeasuredAt
<1>9. HeldAtMeasured'
  BY <1>3, <1>7 DEF HeldAtMeasured, MeasuredAt
<1> QED BY <1>5, <1>8, <1>9

(* A probe that was not clean: what it added is recorded, the next one comes. *)
LEMMA NextProbeKeeps ==
    ASSUME ScanInv, at.pc \in Visits, Grows(st'), UNCHANGED <<run, past, rehearsed>>,
           at' = [at EXCEPT !.pc = "probe", !.it = @ + 1]
    PROVE  ScanInv'
<1> USE DEF ScanInv
<1>1. at' = [pc |-> "probe", i |-> at.i, prev |-> at.prev, it |-> at.it + 1, cfg |-> at.cfg,
             left |-> at.left, cut |-> at.cut]
  BY DEF VisitType
<1>2. at.i \in Points /\ at.cut \in BOOLEAN /\ "probe" \in Visits
  BY DEF VisitType, Visits
<1>3. VisitType' /\ K' = K /\ at'.pc = "probe" /\ at'.prev = at.prev
  BY <1>1, <1>2, GoesOn
<1>4. StateType' /\ DoneInv' /\ HeldAtMeasured'
  BY GrowthKeeps
<1>5. FallbackInv'
  BY <1>3 DEF FallbackInv, Grows
<1>6. SettingInv' /\ MeasuredInv' /\ CleanWasNotStopped' /\ RunType'
  BY <1>3 DEF SettingInv, MeasuredInv, CleanWasNotStopped, RunType
<1> QED BY <1>3, <1>4, <1>5, <1>6

(* A run that is started is one.                                           *)
LEMMA RunStarts ==
    ASSUME NEW cfg, StartsRun(cfg)
    PROVE  RunType'
  BY DEF StartsRun, RunType

-----------------------------------------------------------------------------

(* The initial states. *)
LEMMA InitScan ==
    ASSUME ScanInit
    PROVE  ScanInv
<1> USE AdaptiveScanAssumption DEF ScanInit, Idle, NoK, None
<1>1. VisitType
  BY DEF VisitType, Visits
<1>2. StateType
  BY OffsetNat DEF StateType, IsState
<1>3. RunType
  BY DEF RunType
<1>4. FallbackInv
  BY DEF FallbackInv, Visits
<1>5. SettingInv
  BY DEF SettingInv
<1>6. MeasuredInv
  BY DEF MeasuredInv
<1>7. DoneInv
  BY DEF DoneInv
<1>8. HeldAtMeasured
  BY DEF HeldAtMeasured
<1>9. CleanWasNotStopped
  BY DEF CleanWasNotStopped
<1> QED
  BY <1>1, <1>2, <1>3, <1>4, <1>5, <1>6, <1>7, <1>8, <1>9 DEF ScanInv

(* Floods keeps the invariant. *)
LEMMA FloodsKeeps ==
    ASSUME ScanInv, Floods
    PROVE  ScanInv'
<1> USE DEF ScanInv, Floods
<1>1. VisitType' /\ StateType' /\ FallbackInv' /\ SettingInv' /\ MeasuredInv'
      /\ DoneInv' /\ HeldAtMeasured' /\ CleanWasNotStopped'
  BY DEF VisitType, StateType, IsState, FallbackInv, K, SettingInv, Setting,
     SdtAt, MasksAt, Held, MeasuredInv, DoneInv, MeasuredAt, HeldAtMeasured,
     CleanWasNotStopped
<1>2. RunType'
  BY DEF RunType
<1> QED
  BY <1>1, <1>2

(* RunEnds keeps the invariant. *)
LEMMA RunEndsKeeps ==
    ASSUME ScanInv, RunEnds
    PROVE  ScanInv'
<1> USE DEF ScanInv, RunEnds
<1>1. VisitType' /\ StateType' /\ FallbackInv' /\ SettingInv' /\ MeasuredInv'
      /\ DoneInv' /\ HeldAtMeasured' /\ CleanWasNotStopped'
  BY DEF VisitType, StateType, IsState, FallbackInv, K, SettingInv, Setting,
     SdtAt, MasksAt, Held, MeasuredInv, DoneInv, MeasuredAt, HeldAtMeasured,
     CleanWasNotStopped
<1>2. RunType'
  BY DEF RunType
<1> QED
  BY <1>1, <1>2

(* GuardPolls keeps the invariant. *)
LEMMA GuardPollsKeeps ==
    ASSUME ScanInv, GuardPolls
    PROVE  ScanInv'
<1> USE DEF ScanInv, GuardPolls
<1>1. VisitType' /\ StateType' /\ RunType' /\ FallbackInv' /\ SettingInv' /\
      MeasuredInv' /\ DoneInv' /\ HeldAtMeasured' /\ CleanWasNotStopped'
  BY DEF VisitType, StateType, IsState, RunType, FallbackInv, K, SettingInv,
     Setting, SdtAt, MasksAt, Held, MeasuredInv, DoneInv, MeasuredAt,
     HeldAtMeasured, CleanWasNotStopped
<1> QED
  BY <1>1

(* GuardSeesNoRun keeps the invariant. *)
LEMMA GuardSeesNoRunKeeps ==
    ASSUME ScanInv, GuardSeesNoRun
    PROVE  ScanInv'
<1> USE DEF ScanInv, GuardSeesNoRun
<1>1. VisitType' /\ StateType' /\ RunType' /\ FallbackInv' /\ SettingInv' /\
      MeasuredInv' /\ DoneInv' /\ HeldAtMeasured' /\ CleanWasNotStopped'
  BY DEF VisitType, StateType, IsState, RunType, FallbackInv, K, SettingInv,
     Setting, SdtAt, MasksAt, Held, MeasuredInv, DoneInv, MeasuredAt,
     HeldAtMeasured, CleanWasNotStopped
<1> QED
  BY <1>1

(* GuardStops keeps the invariant. *)
LEMMA GuardStopsKeeps ==
    ASSUME ScanInv, GuardStops
    PROVE  ScanInv'
<1> USE DEF ScanInv, GuardStops
<1>1. VisitType' /\ StateType' /\ FallbackInv' /\ SettingInv' /\ MeasuredInv'
      /\ DoneInv' /\ HeldAtMeasured' /\ CleanWasNotStopped'
  BY DEF VisitType, StateType, IsState, FallbackInv, K, SettingInv, Setting,
     SdtAt, MasksAt, Held, MeasuredInv, DoneInv, MeasuredAt, HeldAtMeasured,
     CleanWasNotStopped
<1>2. RunType'
  BY DEF RunType
<1> QED
  BY <1>1, <1>2

(* GuardWrites keeps the invariant. *)
LEMMA GuardWritesKeeps ==
    ASSUME ScanInv, GuardWrites
    PROVE  ScanInv'
<1> USE DEF ScanInv, GuardWrites
<1>1. VisitType' /\ StateType' /\ RunType' /\ FallbackInv' /\ SettingInv' /\
      MeasuredInv' /\ DoneInv' /\ HeldAtMeasured' /\ CleanWasNotStopped'
  BY DEF VisitType, StateType, IsState, RunType, FallbackInv, K, SettingInv,
     Setting, SdtAt, MasksAt, Held, MeasuredInv, DoneInv, MeasuredAt,
     HeldAtMeasured, CleanWasNotStopped
<1> QED
  BY <1>1

(* GuardResumes keeps the invariant. *)
LEMMA GuardResumesKeeps ==
    ASSUME ScanInv, GuardResumes
    PROVE  ScanInv'
<1> USE DEF ScanInv, GuardResumes
<1>1. VisitType' /\ StateType' /\ RunType' /\ FallbackInv' /\ SettingInv' /\
      MeasuredInv' /\ DoneInv' /\ HeldAtMeasured' /\ CleanWasNotStopped'
  BY DEF VisitType, StateType, IsState, RunType, FallbackInv, K, SettingInv,
     Setting, SdtAt, MasksAt, Held, MeasuredInv, DoneInv, MeasuredAt,
     HeldAtMeasured, CleanWasNotStopped
<1> QED
  BY <1>1

(* Launch keeps the invariant. *)
LEMMA LaunchKeeps ==
    ASSUME ScanInv, Launch
    PROVE  ScanInv'
<1> USE DEF ScanInv, Launch, Idle
<1>1. at' = [pc |-> "next", i |-> 1, prev |-> NoK, it |-> 0, cfg |-> <<>>, left |-> 0,
             cut |-> FALSE]
  OBVIOUS
<1>2. StateType' /\ RunType' /\ DoneInv' /\ HeldAtMeasured'
  BY <1>1 DEF StateType, IsState, RunType, DoneInv, MeasuredAt, Held,
     HeldAtMeasured
<1>3. VisitType'
  <2>1. at'.pc = "next" /\ at'.i = 1 /\ at'.cut = FALSE
    BY <1>1
  <2>2. at' = [pc |-> at'.pc, i |-> at'.i, prev |-> at'.prev, it |-> at'.it, cfg |-> at'.cfg,
               left |-> at'.left, cut |-> at'.cut]
    BY <1>1
  <2> QED BY <2>1, <2>2 DEF VisitType, Visits
<1>4. FallbackInv'
  BY <1>1 DEF FallbackInv, K
<1>5. SettingInv'
  BY <1>1 DEF SettingInv, K, Setting, SdtAt, MasksAt, Held
<1>6. MeasuredInv'
  BY <1>1 DEF MeasuredInv, K
<1>7. CleanWasNotStopped'
  BY <1>1 DEF CleanWasNotStopped
<1> QED
  BY <1>2, <1>3, <1>4, <1>5, <1>6, <1>7

(* Killed keeps the invariant. *)
LEMMA KilledKeeps ==
    ASSUME ScanInv, Killed
    PROVE  ScanInv'
<1> USE DEF ScanInv, Killed, Idle
<1>1. StateType' /\ RunType' /\ DoneInv' /\ HeldAtMeasured'
  BY DEF StateType, IsState, RunType, DoneInv, MeasuredAt, Held, HeldAtMeasured
<1>2. VisitType'
  BY DEF VisitType, Visits, Points
<1>3. FallbackInv'
  BY DEF FallbackInv, K
<1>4. SettingInv'
  BY DEF SettingInv, K, Setting, SdtAt, MasksAt, Held
<1>5. MeasuredInv'
  BY DEF MeasuredInv, K
<1>6. CleanWasNotStopped'
  BY DEF CleanWasNotStopped
<1> QED
  BY <1>1, <1>2, <1>3, <1>4, <1>5, <1>6

(* Rehearses keeps the invariant. *)
LEMMA RehearsesKeeps ==
    ASSUME ScanInv, Rehearses
    PROVE  ScanInv'
<1> USE DEF ScanInv
<1>1. PICK n \in Points : /\ st' = [st EXCEPT !.done = @ \cup {Ks[i] : i \in 1 .. n}]
                          /\ rehearsed' = rehearsed \cup {Ks[i] : i \in 1 .. n}
  BY DEF Rehearses
<1> DEFINE ks == {Ks[i] : i \in 1 .. n}
<1>2. ks \subseteq Range(Ks)
  BY AdaptiveScanAssumption DEF Points, Range
<1> HIDE DEF ks
<1>3. at.pc = "off" /\ UNCHANGED <<at, run, past>> /\ rehearsed' = rehearsed \cup ks
  BY <1>1 DEF Rehearses, ks
<1>4. st' = [found |-> st.found, hold |-> st.hold, done |-> st.done \cup ks]
  BY <1>1 DEF StateType, IsState, ks
<1>5. st'.found = st.found /\ st'.hold = st.hold /\ st'.done = st.done \cup ks
  BY <1>4
<1>6. StateType'
  BY <1>2, <1>4, <1>5 DEF StateType, IsState
<1>7. DoneInv' /\ HeldAtMeasured'
  BY <1>3, <1>5 DEF DoneInv, HeldAtMeasured, MeasuredAt, Held
<1>8. VisitType' /\ RunType' /\ MeasuredInv'
  BY <1>3 DEF VisitType, RunType, MeasuredInv
<1>9. FallbackInv' /\ SettingInv' /\ CleanWasNotStopped'
  BY <1>3 DEF FallbackInv, SettingInv, CleanWasNotStopped, Visits
<1> QED
  BY <1>6, <1>7, <1>8, <1>9

(* TakesPoint keeps the invariant. *)
LEMMA TakesPointKeeps ==
    ASSUME ScanInv, TakesPoint
    PROVE  ScanInv'
<1> USE DEF ScanInv
<1>1. at' = [pc |-> "probe", i |-> at.i, prev |-> Fallback(st, K), it |-> 1, cfg |-> at.cfg,
             left |-> minutes, cut |-> FALSE]
  BY DEF TakesPoint, VisitType
<1>2. at.i \in Points /\ "probe" \in Visits
  BY AdaptiveScanAssumption DEF TakesPoint, VisitType, Points, Visits
<1>3. VisitType' /\ K' = K /\ at'.pc = "probe" /\ at'.prev = Fallback(st, K)
  BY <1>1, <1>2, GoesOn
<1>4. K \in Nat /\ UNCHANGED <<st, run, past, rehearsed>>
  BY <1>2, AdaptiveScanAssumption DEF K, Points, TakesPoint
<1>5. FallbackInv'
  BY <1>3, <1>4, FallbackIs DEF FallbackInv
<1>6. SettingInv' /\ MeasuredInv' /\ CleanWasNotStopped' /\ RunType'
  BY <1>3, <1>4 DEF SettingInv, MeasuredInv, CleanWasNotStopped, RunType
<1>7. StateType' /\ DoneInv' /\ HeldAtMeasured'
  BY <1>4 DEF StateType, IsState, DoneInv, Held, MeasuredAt, HeldAtMeasured
<1> QED BY <1>3, <1>5, <1>6, <1>7

(* ScanEnds keeps the invariant. *)
LEMMA ScanEndsKeeps ==
    ASSUME ScanInv, ScanEnds
    PROVE  ScanInv'
<1> USE DEF ScanInv, ScanEnds, Idle
<1>1. StateType' /\ RunType' /\ DoneInv' /\ HeldAtMeasured'
  BY DEF StateType, IsState, RunType, DoneInv, MeasuredAt, Held, HeldAtMeasured
<1>2. VisitType'
  BY DEF VisitType, Visits, Points
<1>3. FallbackInv'
  BY DEF FallbackInv, K
<1>4. SettingInv'
  BY DEF SettingInv, K, Setting, SdtAt, MasksAt, Held
<1>5. MeasuredInv'
  BY DEF MeasuredInv, K
<1>6. CleanWasNotStopped'
  BY DEF CleanWasNotStopped
<1> QED
  BY <1>1, <1>2, <1>3, <1>4, <1>5, <1>6

(* Probe keeps the invariant. *)
LEMMA ProbeKeeps ==
    ASSUME ScanInv, Probe
    PROVE  ScanInv'
<1> USE DEF ScanInv
<1>1. at.pc \in Visits /\ UNCHANGED <<st, past, rehearsed>>
  BY DEF Probe, Visits
<1>2. ASSUME StartsRun(Setting(st, K)), at' = [at EXCEPT !.pc = "probing", !.cfg = Setting(st, K)]
      PROVE  ScanInv'
  <2>1. at' = [pc |-> "probing", i |-> at.i, prev |-> at.prev, it |-> at.it,
               cfg |-> Setting(st, K), left |-> at.left, cut |-> at.cut]
    BY <1>2 DEF VisitType
  <2>2. at.i \in Points /\ at.cut \in BOOLEAN /\ "probing" \in Visits
    BY <1>1 DEF VisitType, Visits
  <2>3. /\ VisitType' /\ K' = K /\ at'.pc = "probing" /\ at'.prev = at.prev
        /\ at'.cfg = Setting(st, K)
    BY <2>1, <2>2, GoesOn
  <2>4. FallbackInv' /\ SettingInv' /\ MeasuredInv' /\ CleanWasNotStopped'
    BY <1>1, <2>3 DEF FallbackInv, SettingInv, MeasuredInv, CleanWasNotStopped,
       Setting, SdtAt, MasksAt, Held
  <2>5. StateType' /\ DoneInv' /\ HeldAtMeasured' /\ RunType'
    BY <1>1, <1>2, RunStarts DEF StateType, IsState, DoneInv, Held, MeasuredAt,
       HeldAtMeasured
  <2> QED BY <2>3, <2>4, <2>5
<1>3. CASE NoRun /\ Leaves(at)
  BY <1>1, <1>3, LeavesKeeps DEF NoRun, RunType
<1> QED BY <1>2, <1>3 DEF Probe

(* NoCleanProbe keeps the invariant. *)
LEMMA NoCleanProbeKeeps ==
    ASSUME ScanInv, NoCleanProbe
    PROVE  ScanInv'
  BY LeavesKeeps DEF NoCleanProbe, Visits, ScanInv, RunType

(* DecodeFails keeps the invariant. *)
LEMMA DecodeFailsKeeps ==
    ASSUME ScanInv, DecodeFails
    PROVE  ScanInv'
  BY LeavesKeeps DEF DecodeFails, Visits, ScanInv, RunType

(* ProbeClean keeps the invariant. *)
LEMMA ProbeCleanKeeps ==
    ASSUME ScanInv, ProbeClean
    PROVE  ScanInv'
<1> USE DEF ScanInv
<1>1. ~run.stopped /\ at.pc = "probing" /\ UNCHANGED <<st, run, past, rehearsed>>
  BY DEF ProbeClean, Volumes, Clean, RunType
<1>2. at' = [pc |-> "long", i |-> at.i, prev |-> at.prev, it |-> at.it, cfg |-> at.cfg,
             left |-> at.left, cut |-> run.stopped]
  BY DEF ProbeClean, VisitType
<1>3. at.i \in Points /\ run.stopped \in BOOLEAN /\ "long" \in Visits /\ at.pc \in Visits
  BY <1>1 DEF VisitType, RunType, Visits
<1>4. /\ VisitType' /\ K' = K /\ at'.pc = "long" /\ at'.prev = at.prev /\ at'.cfg = at.cfg
      /\ at'.cut = run.stopped
  BY <1>2, <1>3, GoesOn
<1>5. FallbackInv' /\ SettingInv' /\ MeasuredInv' /\ CleanWasNotStopped'
  BY <1>1, <1>3, <1>4 DEF FallbackInv, SettingInv, MeasuredInv,
     CleanWasNotStopped, Setting, SdtAt, MasksAt, Held
<1>6. StateType' /\ DoneInv' /\ HeldAtMeasured' /\ RunType'
  BY <1>1 DEF StateType, IsState, DoneInv, Held, MeasuredAt, HeldAtMeasured,
     RunType
<1> QED BY <1>4, <1>5, <1>6

(* ProbeLoud keeps the invariant. *)
LEMMA ProbeLoudKeeps ==
    ASSUME ScanInv, ProbeLoud
    PROVE  ScanInv'
<1> USE DEF ScanInv
<1>1. at.pc \in Visits /\ UNCHANGED <<run, past, rehearsed>>
  BY DEF ProbeLoud, Visits
<1>2. CASE Leaves(at) /\ UNCHANGED st
  BY <1>1, <1>2, LeavesKeeps DEF RunType
<1>3. ASSUME at.prev # NoK, NEW two \in SUBSET {c \in CHIPS : ~Held(st, c, K)},
             st' = HoldLoud(st, two, at.prev), at' = [at EXCEPT !.pc = "probe", !.it = @ + 1]
      PROVE  ScanInv'
  <2>1. Grows(st')
    BY <1>1, <1>3, LoudHeld
  <2> QED BY <1>1, <1>3, <2>1, NextProbeKeeps
<1> QED BY <1>2, <1>3 DEF ProbeLoud

(* ProbeHot keeps the invariant. *)
LEMMA ProbeHotKeeps ==
    ASSUME ScanInv, ProbeHot
    PROVE  ScanInv'
<1>1. PICK new \in Hot \ {None} : st' = ApplyNewMasks(st, K, new, at.prev)
  BY DEF ProbeHot
<1>2. new \in [CHIPS -> SUBSET Channels]
  BY DEF Hot
<1>3. at.pc \in Visits /\ Grows(st')
  BY <1>1, <1>2, MasksApplied DEF ProbeHot, Visits, ScanInv
<1> QED BY <1>3, NextProbeKeeps DEF ProbeHot

(* LongRun keeps the invariant. *)
LEMMA LongRunKeeps ==
    ASSUME ScanInv, LongRun
    PROVE  ScanInv'
<1> USE DEF ScanInv
<1>1. at.pc = "long" /\ at.pc \in Visits /\ st' = st /\ rehearsed' = rehearsed
  BY DEF LongRun, Visits
<1>2. ASSUME StartsRun(at.cfg), at' = [at EXCEPT !.pc = "measuring"],
             past' = [c \in CHIPS |-> past[c] \cup
                        {[k |-> at.cfg.sdt[c], masks |-> at.cfg.masks[c]]}]
      PROVE  ScanInv'
  <2>1. at' = [pc |-> "measuring", i |-> at.i, prev |-> at.prev, it |-> at.it, cfg |-> at.cfg,
               left |-> at.left, cut |-> at.cut]
    BY <1>2 DEF VisitType
  <2>2. at.i \in Points /\ at.cut \in BOOLEAN /\ "measuring" \in Visits
    BY <1>1 DEF VisitType, Visits
  <2>3. /\ VisitType' /\ K' = K /\ at'.pc = "measuring" /\ at'.prev = at.prev
        /\ at'.cfg = at.cfg /\ at'.cut = at.cut
    BY <2>1, <2>2, GoesOn
  <2>4. FallbackInv' /\ SettingInv' /\ CleanWasNotStopped'
    BY <1>1, <2>3 DEF FallbackInv, SettingInv, CleanWasNotStopped, Setting,
       SdtAt, MasksAt, Held
  <2>5. MeasuredInv'
    BY <1>2, <2>3 DEF MeasuredInv
  <2>6. \A c \in CHIPS : past[c] \subseteq past'[c]
    BY <1>2
  <2>7. StateType' /\ RunType'
    BY <1>1, <1>2, RunStarts DEF StateType, IsState
  <2>8. DoneInv' /\ HeldAtMeasured'
    BY <1>1, <2>6, Zenon DEF DoneInv, Held, MeasuredAt, HeldAtMeasured
  <2> QED BY <2>3, <2>4, <2>5, <2>7, <2>8
<1>3. CASE NoRun /\ Leaves(at) /\ UNCHANGED <<past, rehearsed>>
  BY <1>1, <1>3, LeavesKeeps DEF NoRun, RunType
<1> QED BY <1>2, <1>3 DEF LongRun

(* LongDone keeps the invariant. *)
LEMMA LongDoneKeeps ==
    ASSUME ScanInv, LongDone
    PROVE  ScanInv'
<1> USE DEF ScanInv
<1>1. /\ at.pc = "measuring" /\ at.pc \in Visits /\ UNCHANGED <<run, past, rehearsed>> /\ Leaves(at)
      /\ st' = [st EXCEPT !.done = @ \cup {K}]
  BY DEF LongDone, Done, Visits
<1>2. StateType' /\ DoneInv' /\ HeldAtMeasured'
  BY <1>1, GrowsStill, DoneKeeps
<1>3. VisitType' /\ at'.pc = "next"
  BY <1>1, Left
<1>4. /\ FallbackInv' /\ SettingInv' /\ MeasuredInv' /\ CleanWasNotStopped' /\ RunType'
  BY <1>1, <1>3 DEF FallbackInv, SettingInv, MeasuredInv, CleanWasNotStopped,
     RunType, Visits
<1> QED BY <1>2, <1>3, <1>4

(* LongCut keeps the invariant. *)
LEMMA LongCutKeeps ==
    ASSUME ScanInv, LongCut
    PROVE  ScanInv'
<1> USE DEF ScanInv
<1>1. at.pc = "measuring" /\ at.pc \in Visits /\ UNCHANGED <<run, past, rehearsed>>
  BY DEF LongCut, Visits
<1>2. PICK new \in Hot \ {None}, left \in 0 .. at.left - 1 :
         LET s == ApplyNewMasks(st, K, new, at.prev)
         IN  IF left > 0
             THEN st' = s /\ at' = [at EXCEPT !.pc = "long", !.left = left,
                                              !.cfg = Setting(s, K)]
             ELSE st' = [s EXCEPT !.done = @ \cup {K}] /\ Leaves(at)
  BY DEF LongCut
<1> DEFINE s == ApplyNewMasks(st, K, new, at.prev)
<1>3. Grows(s)
  BY <1>1, MasksApplied DEF Hot
<1> HIDE DEF s
<1>4. CASE st' = s /\ at' = [at EXCEPT !.pc = "long", !.left = left, !.cfg = Setting(s, K)]
  <2>1. at' = [pc |-> "long", i |-> at.i, prev |-> at.prev, it |-> at.it, cfg |-> Setting(s, K),
               left |-> left, cut |-> at.cut]
    BY <1>4 DEF VisitType
  <2>2. at.i \in Points /\ at.cut \in BOOLEAN /\ "long" \in Visits
    BY <1>1 DEF VisitType, Visits
  <2>3. /\ VisitType' /\ K' = K /\ at'.pc = "long" /\ at'.prev = at.prev
        /\ at'.cfg = Setting(s, K) /\ at'.cut = at.cut
    BY <2>1, <2>2, GoesOn
  <2>4. StateType' /\ DoneInv' /\ HeldAtMeasured'
    BY <1>1, <1>3, <1>4, GrowthKeeps
  <2>5. FallbackInv' /\ CleanWasNotStopped' /\ MeasuredInv' /\ RunType'
    BY <1>1, <1>3, <1>4, <2>3 DEF FallbackInv, CleanWasNotStopped, MeasuredInv,
       RunType, Grows
  <2>6. SettingInv'
    BY <1>4, <2>3 DEF SettingInv, Setting, SdtAt, MasksAt, Held
  <2> QED BY <2>3, <2>4, <2>5, <2>6
<1>5. CASE st' = [s EXCEPT !.done = @ \cup {K}] /\ Leaves(at)
  <2>1. StateType' /\ DoneInv' /\ HeldAtMeasured'
    BY <1>1, <1>3, <1>5, DoneKeeps
  <2>2. VisitType' /\ at'.pc = "next"
    BY <1>1, <1>5, Left
  <2>3. FallbackInv' /\ SettingInv' /\ MeasuredInv' /\ CleanWasNotStopped' /\ RunType'
    BY <1>1, <2>2 DEF FallbackInv, SettingInv, MeasuredInv, CleanWasNotStopped,
       RunType, Visits
  <2> QED BY <2>1, <2>2, <2>3
<1> QED BY <1>2, <1>4, <1>5 DEF s

(* So does every step, and one that changes nothing. *)
LEMMA ScanKeeps ==
    ASSUME ScanInv, [ScanNext]_scan_vars
    PROVE  ScanInv'
<1>1. CASE ScanNext
  BY <1>1, FloodsKeeps, RunEndsKeeps, GuardPollsKeeps, GuardSeesNoRunKeeps,
     GuardStopsKeeps, GuardWritesKeeps, GuardResumesKeeps, LaunchKeeps,
     RehearsesKeeps, KilledKeeps, TakesPointKeeps, ScanEndsKeeps, ProbeKeeps,
     NoCleanProbeKeeps, DecodeFailsKeeps, ProbeCleanKeeps, ProbeLoudKeeps,
     ProbeHotKeeps, LongRunKeeps, LongDoneKeeps, LongCutKeeps DEF ScanNext
<1>2. CASE UNCHANGED scan_vars
  BY <1>2 DEF scan_vars, ScanInv, VisitType, StateType, RunType, FallbackInv,
     SettingInv, MeasuredInv, DoneInv, HeldAtMeasured, CleanWasNotStopped, K,
     Held, MeasuredAt, Setting, SdtAt, MasksAt, IsState
<1> QED
  BY <1>1, <1>2

-----------------------------------------------------------------------------

(* ScanInv holds in every reachable state, for all values of the constants.*)
THEOREM ScanInvariance == ScanSpec => []ScanInv
<1>1. ScanInit => ScanInv
  BY InitScan
<1>2. ScanInv /\ [ScanNext]_scan_vars => ScanInv'
  BY ScanKeeps
<1> QED BY <1>1, <1>2, PTL DEF ScanSpec

(* No long run is taken on the word of a probe the rate guard stopped.     *)
THEOREM LongRunsOnCleanProbes == ScanSpec => []CleanWasNotStopped
<1>1. ScanInv => CleanWasNotStopped
  BY DEF ScanInv
<1> QED BY <1>1, ScanInvariance, PTL

(* A chip is held where a long run had it, with no mask fewer, or where a dry *)
(* run said so.                                                               *)
THEOREM HeldWhereMeasured == ScanSpec => []HeldAtMeasured
<1>1. ScanInv => HeldAtMeasured
  BY DEF ScanInv
<1> QED BY <1>1, ScanInvariance, PTL

=============================================================================
