--------------------------- MODULE ChipConfigProofs ---------------------------
(***************************************************************************)
(* What TLAPS proves of ChipConfig, for any number of requests in flight,  *)
(* any exception files and any number of requests made: an armed state     *)
(* file tells the truth of the registers, and a good warm reset arms one   *)
(* run.  Both are about an undisturbed history, and so is the inductive    *)
(* invariant: Good, in named parts, as long as it is calm.  Then one lemma *)
(* per action, with one step per part.                                     *)
(***************************************************************************)
EXTENDS ChipConfig, TLAPS

Calm == ~disturbed /\ ~stuck

Changers == Applies \cup Resets
ChipOps  == Changers \cup Starts

ResetPlaces   == {"idle", "asked", "lock", "reset", "resetDone", "readReset", "writeReset"}
ApplyPlaces   == ResetPlaces \cup {"config", "resetFailed", "configured", "readApplied",
                                   "writeApplied"}
SelectPlaces  == {"idle", "select", "writeSelected"}
StartPlaces   == {"idle", "generate", "readConsumed", "writeConsumed"}
Places == ApplyPlaces \cup SelectPlaces \cup StartPlaces

AtType ==
    /\ at \in [Requests -> Places]
    /\ \A r \in Requests :
          /\ r \in Applies => at[r] \in ApplyPlaces
          /\ r \in Resets  => at[r] \in ResetPlaces
          /\ r \in Selects => at[r] \in SelectPlaces
          /\ r \in Starts  => at[r] \in StartPlaces

\* The outcome of a chip operation, in the past.
IsOutcome(o) == o = [file |-> o.file, ok |-> o.ok, ts |-> o.ts] /\ o.ok \in BOOLEAN /\ o.ts \in 0..clock

ResultType ==
    /\ result = [r \in Requests |-> result[r]]
    /\ \A r \in Requests : IsOutcome(result[r])

BufType ==
    /\ chosen = [r \in Requests |-> chosen[r]]
    /\ buf = [r \in Requests |-> buf[r]]

StateType ==
    /\ state = [selected |-> state.selected, applied |-> state.applied,
                reset |-> state.reset, consumed |-> state.consumed]
    /\ IsOutcome(state.applied) /\ IsOutcome(state.reset) /\ state.consumed \in 0..clock

BenchType == clock \in Nat /\ since \in {0, 1, 2}

\* Chip operations and starts come one after the other.
OneInv == \A q, r \in ChipOps : Active(q) /\ Active(r) => q = r

\* One request at a time writes the state file, and it knows what is in it.
WriterInv ==
    /\ \A q, r \in Requests : Writing(q) /\ Writing(r) => q = r
    /\ \A r \in Requests : Writing(r) => buf[r] = state

ToConsume(r) == at[r] \in {"readConsumed", "writeConsumed"}

\* A run that is being started has used no reset yet; one that was started has
\* used it, or is about to.
SinceInv ==
    /\ \A r \in Starts : at[r] = "generate" => since = 0
    /\ \A r \in Changers : at[r] \in {"readReset", "writeReset"} /\ result[r].ok => since = 0
    /\ since # 0 =>
          /\ since = 1
          /\ \/ ~state.reset.ok \/ state.reset.ts <= state.consumed
             \/ \E r \in Starts : ToConsume(r)

\* What is armed is in the registers, as long as nobody is changing them.
ArmedInv ==
    (\A r \in Changers : at[r] \in {"idle", "asked"}) /\ Armed(state) => chip = state.applied.file

\* A good reset is later than the apply on record, and a good apply tells what
\* is in the registers.
OutcomeInv ==
    \A r \in Changers :
       /\ at[r] \in {"reset", "resetDone"} => state.applied.ts <= result[r].ts
       /\ at[r] \in {"readReset", "writeReset"} /\ result[r].ok => state.applied.ts < result[r].ts
       /\ at[r] \in {"readApplied", "writeApplied"} /\ result[r].ok => chip = result[r].file

Good == /\ AtType /\ ResultType /\ BufType /\ StateType /\ BenchType
        /\ OneInv /\ WriterInv /\ SinceInv /\ ArmedInv /\ OutcomeInv

IInv == disturbed \in BOOLEAN /\ stuck \in BOOLEAN /\ (Calm => Good)

-----------------------------------------------------------------------------

(* Nothing recorded, and a refusal, are outcomes that were not good.       *)
LEMMA NotGood ==
    ASSUME clock \in Nat, NEW f, NEW t \in 0..clock
    PROVE  /\ IsOutcome(Never) /\ Never.ok = FALSE /\ Never.ts = 0
           /\ IsOutcome([file |-> f, ok |-> FALSE, ts |-> t])
           /\ IsOutcome([Never EXCEPT !.ts = t]) /\ [Never EXCEPT !.ts = t].ok = FALSE
<1>1. IsOutcome(Never) /\ Never.ok = FALSE /\ Never.ts = 0
  BY DEF Never, IsOutcome
<1>2. IsOutcome([file |-> f, ok |-> FALSE, ts |-> t])
  BY DEF IsOutcome
<1>3. ASSUME NEW n, IsOutcome(n)
      PROVE  IsOutcome([n EXCEPT !.ts = t]) /\ [n EXCEPT !.ts = t].ok = n.ok
  BY <1>3 DEF IsOutcome
<1> QED
  BY <1>1, <1>2, <1>3

(* One request's outcome is recorded.                                      *)
LEMMA ResultSet ==
    ASSUME BenchType, ResultType, clock' = clock, NEW r \in Requests, NEW o, IsOutcome(o),
           result' = [result EXCEPT ![r] = o]
    PROVE  ResultType' /\ \A q \in Requests : result'[q] = IF q = r THEN o ELSE result[q]
BY DEF BenchType, ResultType, IsOutcome

(* A request is where its kind can be.                                     *)
LEMMA KindFacts ==
    ASSUME AtType, NEW r \in Requests
    PROVE  /\ at[r] \in {"select", "writeSelected"} => r \in Selects
           /\ at[r] \in {"generate", "readConsumed", "writeConsumed"} => r \in Starts
           /\ at[r] \in {"asked", "lock", "reset", "resetDone", "readReset", "writeReset"}
                => r \in Changers
           /\ at[r] \in {"config", "resetFailed", "configured", "readApplied",
                         "writeApplied"} => r \in Applies
BY ChipConfigAssumption
   DEF AtType, Requests, Changers, ResetPlaces, ApplyPlaces, SelectPlaces, StartPlaces

-----------------------------------------------------------------------------

(* The initial states. *)
LEMMA InitIInv ==
    ASSUME Init
    PROVE  IInv
<1> USE DEF Init, None, Empty
<1>1. AtType
  BY DEF AtType, Places, ApplyPlaces, ResetPlaces, SelectPlaces, StartPlaces,
     Requests, Changers, ChipOps
<1>2. ResultType
  <2>1. clock \in Nat /\ 0 \in 0..clock
    OBVIOUS
  <2>2. IsOutcome(Never)
    BY <2>1, NotGood
  <2> QED BY <2>2 DEF ResultType, IsOutcome
<1>3. BufType
  BY DEF BufType
<1>4. StateType
  <2>1. clock \in Nat /\ 0 \in 0..clock
    OBVIOUS
  <2>2. IsOutcome(Never)
    BY <2>1, NotGood
  <2> QED BY <2>2 DEF StateType, IsOutcome
<1>5. BenchType
  BY DEF BenchType
<1>6. OneInv
  BY DEF OneInv, Active, Requests, Changers, ChipOps
<1>7. WriterInv
  BY DEF WriterInv, Writing
<1>8. SinceInv
  BY DEF SinceInv, ToConsume, IsOutcome, Writing, Armed, Active, Requests,
     Changers, ChipOps, Places, ApplyPlaces, ResetPlaces, SelectPlaces,
     StartPlaces
<1>9. ArmedInv
  <2>1. ~state.reset.ok
    BY DEF Never
  <2> QED BY <2>1 DEF ArmedInv, Armed
<1>10. OutcomeInv
  BY DEF OutcomeInv, Writing, Active, Requests, Changers, ChipOps, Places,
     ApplyPlaces, ResetPlaces, SelectPlaces, StartPlaces
<1> QED
  BY <1>1, <1>2, <1>3, <1>4, <1>5, <1>6, <1>7, <1>8, <1>9, <1>10 DEF IInv, Good

(* Select keeps the invariant. *)
LEMMA SelectKeeps ==
    ASSUME Good, Calm', NEW r \in Requests, NEW e \in Exts, Select(r, e)
    PROVE  Good'
<1> USE DEF Good, Select, Asks, Goes, flags, bench, history, Calm
<1>1. ResultType' /\ StateType' /\ BenchType'
  BY DEF ResultType, IsOutcome, StateType, Writing, BenchType
<1>2. AtType'
  BY ChipConfigAssumption DEF AtType, Places, ApplyPlaces, ResetPlaces,
     SelectPlaces, StartPlaces, Requests, Changers, ChipOps
<1>3. BufType'
  BY DEF BufType
<1>4. OneInv'
  BY ChipConfigAssumption DEF OneInv, Active, Requests, Changers, ChipOps,
     AtType
<1>5. WriterInv'
  BY DEF WriterInv, Writing
<1>6. SinceInv'
  BY DEF SinceInv, ToConsume, IsOutcome, Writing, Armed, Active, Requests,
     Changers, ChipOps
<1>7. ArmedInv'
  BY DEF ArmedInv, Armed, Writing, Active, Requests, Changers, ChipOps
<1>8. OutcomeInv'
  BY DEF OutcomeInv, Writing, Active, Requests, Changers, ChipOps
<1> QED
  BY <1>1, <1>2, <1>3, <1>4, <1>5, <1>6, <1>7, <1>8

(* Selected keeps the invariant. *)
LEMMA SelectedKeeps ==
    ASSUME Good, Calm', NEW r \in Requests, Selected(r)
    PROVE  Good'
<1> USE DEF Good, Selected, Goes, Forgets, flags, bench, history, Calm
<1>1. /\ state' = [state EXCEPT !.selected = chosen[r]]
      /\ \A q \in Requests : q # r => ~Writing(q)
  BY DEF WriterInv, Writing
<1>2. /\ state'.applied = state.applied /\ state'.reset = state.reset
      /\ state'.consumed = state.consumed
  BY <1>1 DEF StateType
<1>3. \A q \in Requests : q # r => at'[q] = at[q] /\ result'[q] = result[q]
  BY DEF AtType, ResultType
<1>4. BenchType'
  BY <1>1, <1>2, <1>3, KindFacts DEF BenchType
<1>5. AtType'
  BY <1>1, <1>2, <1>3, KindFacts DEF AtType, Places, ApplyPlaces, ResetPlaces,
     SelectPlaces, StartPlaces, Requests, Changers, ChipOps
<1>6. ResultType'
  <2>1. clock \in Nat /\ 0 \in 0..clock /\ clock \in 0..clock
    BY DEF BenchType
  <2>2. IsOutcome(Never)
    BY <2>1, NotGood
  <2>3. clock' = clock /\ result' = [result EXCEPT ![r] = Never]
    OBVIOUS
  <2> QED BY <2>2, <2>3, ResultSet
<1>7. BufType'
  BY <1>1, <1>2, <1>3, KindFacts DEF BufType
<1>8. StateType'
  BY <1>1, <1>2, <1>3, KindFacts DEF StateType, IsOutcome, Writing
<1>9. OneInv'
  BY <1>1, <1>2, <1>3, KindFacts DEF OneInv, Active, Requests, Changers,
     ChipOps
<1>10. WriterInv'
  BY <1>1, <1>2, <1>3, KindFacts DEF WriterInv, Writing, AtType, BufType,
     StateType
<1>11. SinceInv'
  BY <1>1, <1>2, <1>3, KindFacts DEF SinceInv, ToConsume, IsOutcome, Writing,
     Armed, Active, Requests, Changers, ChipOps
<1>12. ArmedInv'
  BY <1>1, <1>2, <1>3, KindFacts, ChipConfigAssumption DEF ArmedInv, Armed,
     Writing, Active, Requests, Changers, ChipOps, Places, ApplyPlaces,
     ResetPlaces, SelectPlaces, StartPlaces, AtType, ResultType, StateType
<1>13. OutcomeInv'
  BY <1>1, <1>2, <1>3, KindFacts DEF OutcomeInv, Writing, Active, Requests,
     Changers, ChipOps
<1> QED
  BY <1>4, <1>5, <1>6, <1>7, <1>8, <1>9, <1>10, <1>11, <1>12, <1>13

(* ApplyAsked keeps the invariant. *)
LEMMA ApplyAskedKeeps ==
    ASSUME Good, Calm', NEW r \in Requests, ApplyAsked(r)
    PROVE  Good'
<1> USE DEF Good, ApplyAsked, Asks, Goes, Overlaps, flags, bench, history, Calm
<1>1. ResultType' /\ StateType' /\ BenchType'
  BY DEF ResultType, IsOutcome, StateType, Writing, BenchType
<1>2. AtType'
  BY ChipConfigAssumption DEF AtType, Places, ApplyPlaces, ResetPlaces,
     SelectPlaces, StartPlaces, Requests, Changers, ChipOps
<1>3. BufType'
  BY DEF BufType
<1>4. OneInv'
  BY ChipConfigAssumption DEF OneInv, Active, Requests, Changers, ChipOps,
     AtType
<1>5. WriterInv'
  BY DEF WriterInv, Writing
<1>6. SinceInv'
  BY DEF SinceInv, ToConsume, IsOutcome, Writing, Armed, Active, Requests,
     Changers, ChipOps
<1>7. ArmedInv'
  BY DEF ArmedInv, Armed, Writing, Active, Requests, Changers, ChipOps
<1>8. OutcomeInv'
  BY DEF OutcomeInv, Writing, Active, Requests, Changers, ChipOps
<1> QED
  BY <1>1, <1>2, <1>3, <1>4, <1>5, <1>6, <1>7, <1>8

(* ApplyStarts keeps the invariant. *)
LEMMA ApplyStartsKeeps ==
    ASSUME Good, Calm', NEW r \in Requests, ApplyStarts(r)
    PROVE  Good'
<1> USE DEF Good, ApplyStarts, Goes, flags, bench, history, Calm
<1>1. ResultType' /\ BufType' /\ StateType' /\ BenchType'
  BY DEF ResultType, IsOutcome, BufType, StateType, Writing, BenchType
<1>2. AtType'
  BY DEF AtType, Places, ApplyPlaces, ResetPlaces, SelectPlaces, StartPlaces,
     Requests, Changers, ChipOps
<1>3. OneInv'
  BY ChipConfigAssumption DEF OneInv, Active, Requests, Changers, ChipOps,
     AtType
<1>4. WriterInv'
  BY DEF WriterInv, Writing, AtType, BufType, StateType
<1>5. SinceInv'
  BY ChipConfigAssumption DEF SinceInv, ToConsume, IsOutcome, Writing, Armed,
     Active, Requests, Changers, ChipOps, Places, ApplyPlaces, ResetPlaces,
     SelectPlaces, StartPlaces, AtType, ResultType, StateType, BenchType,
     WriterInv, OneInv, OutcomeInv
<1>6. ArmedInv'
  BY DEF ArmedInv, Armed, Writing, Active, Requests, Changers, ChipOps, Places,
     ApplyPlaces, ResetPlaces, SelectPlaces, StartPlaces, WriterInv, OneInv,
     OutcomeInv, IsOutcome
<1>7. OutcomeInv'
  BY ChipConfigAssumption DEF OutcomeInv, Writing, Active, Requests, Changers,
     ChipOps, Places, ApplyPlaces, ResetPlaces, SelectPlaces, StartPlaces,
     AtType, ResultType, StateType, BenchType
<1> QED
  BY <1>1, <1>2, <1>3, <1>4, <1>5, <1>6, <1>7

(* ApplyGivesUp keeps the invariant. *)
LEMMA ApplyGivesUpKeeps ==
    ASSUME Good, Calm', NEW r \in Requests, ApplyGivesUp(r)
    PROVE  Good'
<1> USE DEF Good, ApplyGivesUp, Goes, flags, bench, history, Calm
<1>1. BufType' /\ StateType' /\ BenchType'
  BY DEF BufType, StateType, IsOutcome, Writing, BenchType
<1>2. AtType'
  BY ChipConfigAssumption DEF AtType, Places, ApplyPlaces, ResetPlaces,
     SelectPlaces, StartPlaces, Requests, Changers, ChipOps
<1>3. ResultType'
  <2>1. clock \in Nat /\ 0 \in 0..clock /\ clock \in 0..clock
    BY DEF BenchType
  <2>2. IsOutcome([file |-> chosen[r], ok |-> FALSE, ts |-> clock])
    BY <2>1, NotGood
  <2>3. clock' = clock /\ result' = [result EXCEPT ![r] = [file |-> chosen[r], ok |-> FALSE, ts |-> clock]]
    OBVIOUS
  <2> QED BY <2>2, <2>3, ResultSet
<1>4. OneInv'
  BY ChipConfigAssumption DEF OneInv, Active, Requests, Changers, ChipOps,
     AtType
<1>5. WriterInv'
  BY DEF WriterInv, Writing, AtType, BufType, StateType
<1>6. SinceInv'
  BY ChipConfigAssumption DEF SinceInv, ToConsume, IsOutcome, Writing, Armed,
     Active, Requests, Changers, ChipOps, Places, ApplyPlaces, ResetPlaces,
     SelectPlaces, StartPlaces, AtType, ResultType, StateType, BenchType
<1>7. ArmedInv'
  BY ChipConfigAssumption DEF ArmedInv, Armed, Writing, Active, Requests,
     Changers, ChipOps, Places, ApplyPlaces, ResetPlaces, SelectPlaces,
     StartPlaces, AtType, ResultType, StateType
<1>8. OutcomeInv'
  BY ChipConfigAssumption DEF OutcomeInv, Writing, Active, Requests, Changers,
     ChipOps, Places, ApplyPlaces, ResetPlaces, SelectPlaces, StartPlaces,
     AtType, ResultType, StateType, BenchType
<1> QED
  BY <1>1, <1>2, <1>3, <1>4, <1>5, <1>6, <1>7, <1>8

(* Configures keeps the invariant. *)
LEMMA ConfiguresKeeps ==
    ASSUME Good, Calm', NEW r \in Requests, Configures(r)
    PROVE  Good'
<1> USE DEF Good, Configures, Goes, flags, bench, history, Calm
<1>1. ResultType' /\ BufType' /\ StateType' /\ BenchType'
  BY DEF ResultType, IsOutcome, BufType, StateType, Writing, BenchType
<1>2. AtType'
  BY DEF AtType, Places, ApplyPlaces, ResetPlaces, SelectPlaces, StartPlaces,
     Requests, Changers, ChipOps
<1>3. OneInv'
  BY DEF OneInv, Active, Requests, Changers, ChipOps
<1>4. WriterInv'
  BY DEF WriterInv, Writing
<1>5. SinceInv'
  BY DEF SinceInv, ToConsume, IsOutcome, Writing, Armed, Active, Requests,
     Changers, ChipOps
<1>6. ArmedInv'
  BY ChipConfigAssumption DEF ArmedInv, Armed, Writing, Active, Requests,
     Changers, ChipOps, Places, ApplyPlaces, ResetPlaces, SelectPlaces,
     StartPlaces, AtType, ResultType, StateType
<1>7. OutcomeInv'
  BY ChipConfigAssumption DEF OutcomeInv, Writing, Active, Requests, Changers,
     ChipOps, Places, ApplyPlaces, ResetPlaces, SelectPlaces, StartPlaces,
     AtType, ResultType, StateType, WriterInv, OneInv, BenchType, IsOutcome
<1> QED
  BY <1>1, <1>2, <1>3, <1>4, <1>5, <1>6, <1>7

(* ConfigEnds keeps the invariant. *)
LEMMA ConfigEndsKeeps ==
    ASSUME Good, Calm', NEW r \in Requests, ConfigEnds(r)
    PROVE  Good'
<1> USE DEF Good, ConfigEnds, Goes, flags, bench, history, Calm
<1>1. BufType' /\ StateType' /\ BenchType'
  BY DEF BufType, StateType, IsOutcome, Writing, BenchType
<1>2. AtType'
  BY DEF AtType, Places, ApplyPlaces, ResetPlaces, SelectPlaces, StartPlaces,
     Requests, Changers, ChipOps
<1>3. ResultType'
  BY DEF ResultType, IsOutcome, StateType, BenchType
<1>4. OneInv'
  BY DEF OneInv, Active, Requests, Changers, ChipOps
<1>5. WriterInv'
  BY DEF WriterInv, Writing
<1>6. SinceInv'
  BY DEF SinceInv, ToConsume, IsOutcome, Writing, Armed, Active, Requests,
     Changers, ChipOps
<1>7. ArmedInv'
  BY DEF ArmedInv, Armed, Writing, Active, Requests, Changers, ChipOps
<1>8. OutcomeInv'
  BY ChipConfigAssumption DEF OutcomeInv, Writing, Active, Requests, Changers,
     ChipOps, Places, ApplyPlaces, ResetPlaces, SelectPlaces, StartPlaces,
     AtType, ResultType, StateType, WriterInv, OneInv, BenchType, IsOutcome
<1> QED
  BY <1>1, <1>2, <1>3, <1>4, <1>5, <1>6, <1>7, <1>8

(* Applied keeps the invariant. *)
LEMMA AppliedKeeps ==
    ASSUME Good, Calm', NEW r \in Requests, Applied(r)
    PROVE  Good'
<1> USE DEF Good, Applied, Goes, Forgets, flags, bench, history, Calm
<1>1. /\ state' = [state EXCEPT !.applied = result[r]]
      /\ \A q \in Requests : q # r => ~Writing(q)
  BY DEF WriterInv, Writing
<1>2. /\ state'.applied = result[r] /\ state'.reset = state.reset
      /\ state'.consumed = state.consumed
  BY <1>1 DEF StateType
<1>3. \A q \in Requests : q # r => at'[q] = at[q] /\ result'[q] = result[q]
  BY DEF AtType, ResultType
<1>4. BenchType'
  BY <1>1, <1>2, <1>3, KindFacts DEF BenchType
<1>5. AtType'
  BY <1>1, <1>2, <1>3, KindFacts DEF AtType, Places, ApplyPlaces, ResetPlaces,
     SelectPlaces, StartPlaces, Requests, Changers, ChipOps
<1>6. ResultType'
  <2>1. clock \in Nat /\ 0 \in 0..clock /\ clock \in 0..clock
    BY DEF BenchType
  <2>2. IsOutcome(Never)
    BY <2>1, NotGood
  <2>3. clock' = clock /\ result' = [result EXCEPT ![r] = Never]
    OBVIOUS
  <2> QED BY <2>2, <2>3, ResultSet
<1>7. BufType'
  BY <1>1, <1>2, <1>3, KindFacts DEF BufType
<1>8. StateType'
  BY <1>1, <1>2, <1>3, KindFacts DEF StateType, IsOutcome, Writing, ResultType,
     BenchType
<1>9. OneInv'
  BY <1>1, <1>2, <1>3, KindFacts DEF OneInv, Active, Requests, Changers,
     ChipOps
<1>10. WriterInv'
  BY <1>1, <1>2, <1>3, KindFacts DEF WriterInv, Writing, AtType, BufType,
     StateType
<1>11. SinceInv'
  BY <1>1, <1>2, <1>3, KindFacts DEF SinceInv, ToConsume, IsOutcome, Writing,
     Armed, Active, Requests, Changers, ChipOps
<1>12. ArmedInv'
  <2>1. SUFFICES ASSUME Armed(state') PROVE chip' = state'.applied.file
    BY DEF ArmedInv
  <2>2. result[r].ok
    BY <1>2, <2>1 DEF Armed
  <2>3. at[r] = "writeApplied" /\ r \in Changers
    BY KindFacts DEF Changers
  <2> QED BY <1>2, <2>2, <2>3 DEF OutcomeInv
<1>13. OutcomeInv'
  BY <1>1, <1>2, <1>3, KindFacts, ChipConfigAssumption DEF OutcomeInv, Writing,
     Active, Requests, Changers, ChipOps, Places, ApplyPlaces, ResetPlaces,
     SelectPlaces, StartPlaces, AtType, ResultType, StateType, WriterInv,
     OneInv, BenchType, IsOutcome
<1> QED
  BY <1>4, <1>5, <1>6, <1>7, <1>8, <1>9, <1>10, <1>11, <1>12, <1>13

(* ResetAsked keeps the invariant. *)
LEMMA ResetAskedKeeps ==
    ASSUME Good, Calm', NEW r \in Requests, ResetAsked(r)
    PROVE  Good'
<1> USE DEF Good, ResetAsked, Asks, Goes, Overlaps, flags, bench, history, Calm
<1>1. ResultType' /\ BufType' /\ StateType' /\ BenchType'
  BY DEF ResultType, IsOutcome, BufType, StateType, Writing, BenchType
<1>2. AtType'
  BY ChipConfigAssumption DEF AtType, Places, ApplyPlaces, ResetPlaces,
     SelectPlaces, StartPlaces, Requests, Changers, ChipOps
<1>3. OneInv'
  BY ChipConfigAssumption DEF OneInv, Active, Requests, Changers, ChipOps,
     AtType
<1>4. WriterInv'
  BY DEF WriterInv, Writing
<1>5. SinceInv'
  BY DEF SinceInv, ToConsume, IsOutcome, Writing, Armed, Active, Requests,
     Changers, ChipOps
<1>6. ArmedInv'
  BY DEF ArmedInv, Armed, Writing, Active, Requests, Changers, ChipOps
<1>7. OutcomeInv'
  BY DEF OutcomeInv, Writing, Active, Requests, Changers, ChipOps
<1> QED
  BY <1>1, <1>2, <1>3, <1>4, <1>5, <1>6, <1>7

(* ResetStarts keeps the invariant. *)
LEMMA ResetStartsKeeps ==
    ASSUME Good, Calm', NEW r \in Requests, ResetStarts(r)
    PROVE  Good'
<1> USE DEF Good, ResetStarts, Goes, flags, bench, history, Calm
<1>1. ResultType' /\ BufType' /\ StateType' /\ BenchType'
  BY DEF ResultType, IsOutcome, BufType, StateType, Writing, BenchType
<1>2. AtType'
  BY DEF AtType, Places, ApplyPlaces, ResetPlaces, SelectPlaces, StartPlaces,
     Requests, Changers, ChipOps
<1>3. OneInv'
  BY ChipConfigAssumption DEF OneInv, Active, Requests, Changers, ChipOps,
     AtType
<1>4. WriterInv'
  BY DEF WriterInv, Writing, AtType, BufType, StateType
<1>5. SinceInv'
  BY ChipConfigAssumption DEF SinceInv, ToConsume, IsOutcome, Writing, Armed,
     Active, Requests, Changers, ChipOps, Places, ApplyPlaces, ResetPlaces,
     SelectPlaces, StartPlaces, AtType, ResultType, StateType, BenchType
<1>6. ArmedInv'
  BY DEF ArmedInv, Armed, Writing, Active, Requests, Changers, ChipOps, Places,
     ApplyPlaces, ResetPlaces, SelectPlaces, StartPlaces, WriterInv, OneInv,
     OutcomeInv, IsOutcome
<1>7. OutcomeInv'
  BY ChipConfigAssumption DEF OutcomeInv, Writing, Active, Requests, Changers,
     ChipOps, Places, ApplyPlaces, ResetPlaces, SelectPlaces, StartPlaces,
     AtType, ResultType, StateType, BenchType
<1> QED
  BY <1>1, <1>2, <1>3, <1>4, <1>5, <1>6, <1>7

(* Locked keeps the invariant. *)
LEMMA LockedKeeps ==
    ASSUME Good, Calm', NEW r \in Requests, Locked(r)
    PROVE  Good'
<1> USE DEF Good, Locked, Goes, flags, bench, history, Calm
<1>1. BufType' /\ StateType' /\ BenchType'
  BY DEF BufType, StateType, IsOutcome, Writing, BenchType
<1>2. AtType'
  BY DEF AtType, Places, ApplyPlaces, ResetPlaces, SelectPlaces, StartPlaces,
     Requests, Changers, ChipOps
<1>3. ResultType'
  BY DEF ResultType, IsOutcome, StateType, BenchType
<1>4. OneInv'
  BY DEF OneInv, Active, Requests, Changers, ChipOps
<1>5. WriterInv'
  BY DEF WriterInv, Writing
<1>6. SinceInv'
  BY DEF SinceInv, ToConsume, IsOutcome, Writing, Armed, Active, Requests,
     Changers, ChipOps
<1>7. ArmedInv'
  BY DEF ArmedInv, Armed, Writing, Active, Requests, Changers, ChipOps
<1>8. OutcomeInv'
  BY ChipConfigAssumption DEF OutcomeInv, Writing, Active, Requests, Changers,
     ChipOps, Places, ApplyPlaces, ResetPlaces, SelectPlaces, StartPlaces,
     AtType, ResultType, StateType, WriterInv, OneInv, BenchType, IsOutcome
<1> QED
  BY <1>1, <1>2, <1>3, <1>4, <1>5, <1>6, <1>7, <1>8

(* ResetRefused keeps the invariant. *)
LEMMA ResetRefusedKeeps ==
    ASSUME Good, Calm', NEW r \in Requests, ResetRefused(r)
    PROVE  Good'
<1> USE DEF Good, ResetRefused, Goes, flags, bench, history, Calm
<1>1. \A q \in Requests : q # r => at'[q] = at[q] /\ result'[q] = result[q]
  BY DEF AtType, ResultType
<1>2. at'[r] = "readReset" /\ result'[r].ok = FALSE
  <2>1. at'[r] = "readReset" /\ result'[r] = [Never EXCEPT !.ts = clock]
    BY DEF AtType, ResultType
  <2>2. clock \in Nat /\ clock \in 0..clock
    BY DEF BenchType
  <2> QED BY <2>1, <2>2, NotGood
<1>3. BufType' /\ StateType' /\ BenchType'
  BY <1>1, <1>2 DEF BufType, StateType, IsOutcome, Writing, BenchType
<1>4. AtType'
  BY <1>1, <1>2 DEF AtType, Places, ApplyPlaces, ResetPlaces, SelectPlaces,
     StartPlaces, Requests, Changers, ChipOps
<1>5. ResultType'
  <2>1. clock \in Nat /\ 0 \in 0..clock /\ clock \in 0..clock
    BY DEF BenchType
  <2>2. IsOutcome([Never EXCEPT !.ts = clock])
    BY <2>1, NotGood
  <2>3. clock' = clock /\ result' = [result EXCEPT ![r] = [Never EXCEPT !.ts = clock]]
    OBVIOUS
  <2> QED BY <2>2, <2>3, ResultSet
<1>6. OneInv'
  BY <1>1, <1>2 DEF OneInv, Active, Requests, Changers, ChipOps
<1>7. WriterInv'
  BY <1>1, <1>2 DEF WriterInv, Writing
<1>8. SinceInv'
  BY <1>1, <1>2 DEF SinceInv, ToConsume, IsOutcome, Writing, Armed, Active,
     Requests, Changers, ChipOps
<1>9. ArmedInv'
  BY <1>1, <1>2 DEF ArmedInv, Armed, Writing, Active, Requests, Changers,
     ChipOps
<1>10. OutcomeInv'
  BY <1>1, <1>2 DEF OutcomeInv, Writing, Active, Requests, Changers, ChipOps
<1> QED
  BY <1>3, <1>4, <1>5, <1>6, <1>7, <1>8, <1>9, <1>10

(* ChipResets keeps the invariant. *)
LEMMA ChipResetsKeeps ==
    ASSUME Good, Calm', NEW r \in Requests, ChipResets(r)
    PROVE  Good'
<1> USE DEF Good, ChipResets, Goes, flags, bench, history, Calm
<1>1. ResultType' /\ BufType' /\ StateType' /\ BenchType'
  BY DEF ResultType, IsOutcome, BufType, StateType, Writing, BenchType
<1>2. AtType'
  BY DEF AtType, Places, ApplyPlaces, ResetPlaces, SelectPlaces, StartPlaces,
     Requests, Changers, ChipOps
<1>3. OneInv'
  BY DEF OneInv, Active, Requests, Changers, ChipOps
<1>4. WriterInv'
  BY DEF WriterInv, Writing
<1>5. SinceInv'
  BY DEF SinceInv, ToConsume, IsOutcome, Writing, Armed, Active, Requests,
     Changers, ChipOps
<1>6. ArmedInv'
  BY ChipConfigAssumption DEF ArmedInv, Armed, Writing, Active, Requests,
     Changers, ChipOps, Places, ApplyPlaces, ResetPlaces, SelectPlaces,
     StartPlaces, AtType, ResultType, StateType
<1>7. OutcomeInv'
  BY ChipConfigAssumption DEF OutcomeInv, Writing, Active, Requests, Changers,
     ChipOps, Places, ApplyPlaces, ResetPlaces, SelectPlaces, StartPlaces,
     AtType, ResultType, StateType, WriterInv, OneInv, BenchType, IsOutcome
<1> QED
  BY <1>1, <1>2, <1>3, <1>4, <1>5, <1>6, <1>7

(* ResetEnds keeps the invariant. *)
LEMMA ResetEndsKeeps ==
    ASSUME Good, Calm', NEW r \in Requests, ResetEnds(r)
    PROVE  Good'
<1> USE DEF Good, ResetEnds, Goes, flags, bench, history, Calm
<1>1. BufType'
  BY DEF BufType
<1>2. AtType'
  BY DEF AtType, Places, ApplyPlaces, ResetPlaces, SelectPlaces, StartPlaces,
     Requests, Changers, ChipOps
<1>3. ResultType'
  BY DEF ResultType, IsOutcome, StateType, BenchType
<1>4. StateType'
  BY DEF StateType, IsOutcome, Writing, ResultType, BenchType
<1>5. BenchType'
  BY DEF BenchType
<1>6. OneInv'
  BY DEF OneInv, Active, Requests, Changers, ChipOps
<1>7. WriterInv'
  BY DEF WriterInv, Writing
<1>8. SinceInv'
  BY ChipConfigAssumption DEF SinceInv, ToConsume, IsOutcome, Writing, Armed,
     Active, Requests, Changers, ChipOps, Places, ApplyPlaces, ResetPlaces,
     SelectPlaces, StartPlaces, AtType, ResultType, StateType, BenchType,
     WriterInv, OneInv, OutcomeInv
<1>9. ArmedInv'
  BY DEF ArmedInv, Armed, Writing, Active, Requests, Changers, ChipOps
<1>10. OutcomeInv'
  <2>1. at[r] = "resetDone" /\ r \in Changers
    BY KindFacts
  <2>2. state.applied.ts <= result[r].ts
    BY <2>1 DEF OutcomeInv
  <2>3. result'[r].ts = clock' /\ at'[r] = "readReset"
    BY DEF AtType, ResultType
  <2>4. result[r].ts < clock'
    BY DEF ResultType, IsOutcome, BenchType
  <2>5. state'.applied.ts < result'[r].ts
    BY <2>2, <2>3, <2>4 DEF StateType, ResultType, IsOutcome, BenchType
  <2>6. \A q \in Requests : q # r => at'[q] = at[q] /\ result'[q] = result[q]
    BY DEF AtType, ResultType
  <2> QED BY <2>3, <2>5, <2>6 DEF OutcomeInv, Requests, Changers
<1> QED
  BY <1>1, <1>2, <1>3, <1>4, <1>5, <1>6, <1>7, <1>8, <1>9, <1>10

(* ResetRecorded keeps the invariant. *)
LEMMA ResetRecordedKeeps ==
    ASSUME Good, Calm', NEW r \in Requests, ResetRecorded(r)
    PROVE  Good'
<1> USE DEF Good, ResetRecorded, Goes, flags, bench, history, Calm
<1>1. /\ state' = [state EXCEPT !.reset = result[r]]
      /\ \A q \in Requests : q # r => ~Writing(q)
  BY DEF WriterInv, Writing
<1>2. /\ state'.applied = state.applied /\ state'.reset = result[r]
      /\ state'.consumed = state.consumed
  BY <1>1 DEF StateType
<1>3. \A q \in Requests : q # r => at'[q] = at[q] /\ result'[q] = result[q]
  BY DEF AtType, ResultType
<1>4. BenchType'
  BY <1>1, <1>2, <1>3, KindFacts DEF BenchType
<1>5. AtType'
  BY <1>1, <1>2, <1>3, KindFacts, ChipConfigAssumption DEF AtType, Places,
     ApplyPlaces, ResetPlaces, SelectPlaces, StartPlaces, Requests, Changers,
     ChipOps
<1>6. ResultType'
  <2>1. clock \in Nat /\ 0 \in 0..clock /\ clock \in 0..clock
    BY DEF BenchType
  <2>2. IsOutcome(Never)
    BY <2>1, NotGood
  <2>3. clock' = clock /\ result' = [result EXCEPT ![r] = Never]
    OBVIOUS
  <2> QED BY <2>2, <2>3, ResultSet
<1>7. BufType'
  BY <1>1, <1>2, <1>3, KindFacts DEF BufType
<1>8. StateType'
  BY <1>1, <1>2, <1>3, KindFacts DEF StateType, IsOutcome, Writing, ResultType,
     BenchType
<1>9. OneInv'
  BY <1>1, <1>2, <1>3, KindFacts DEF OneInv, Active, Requests, Changers,
     ChipOps
<1>10. WriterInv'
  BY <1>1, <1>2, <1>3, KindFacts DEF WriterInv, Writing, AtType, BufType,
     StateType
<1>11. SinceInv'
  <2>1. at[r] = "writeReset" /\ r \in Changers /\ r \notin Starts
    BY ChipConfigAssumption DEF Changers
  <2>2. since # 0 => ~state'.reset.ok
    BY <1>2, <2>1 DEF SinceInv
  <2>3. at'[r] \in {"idle", "config", "resetFailed"}
    BY DEF AtType
  <2>4. \A q \in Starts : at'[q] = "generate" => since = 0
    BY <1>3, <2>1 DEF SinceInv, Requests
  <2>5. \A q \in Changers : at'[q] \in {"readReset", "writeReset"} /\ result'[q].ok => since = 0
    BY <1>3, <2>3 DEF SinceInv, Requests, Changers
  <2> QED BY <2>2, <2>4, <2>5 DEF SinceInv
<1>12. ArmedInv'
  <2>1. SUFFICES ASSUME Armed(state') PROVE FALSE
    BY DEF ArmedInv
  <2>2. result[r].ok /\ state.applied.ts >= result[r].ts
    BY <1>2, <2>1 DEF Armed
  <2>3. at[r] = "writeReset" /\ r \in Changers
    BY DEF Changers
  <2>4. state.applied.ts < result[r].ts
    BY <2>2, <2>3 DEF OutcomeInv
  <2> QED BY <2>2, <2>4 DEF StateType, ResultType, IsOutcome, BenchType
<1>13. OutcomeInv'
  BY <1>1, <1>2, <1>3, KindFacts, ChipConfigAssumption DEF OutcomeInv, Writing,
     Active, Requests, Changers, ChipOps, Places, ApplyPlaces, ResetPlaces,
     SelectPlaces, StartPlaces, AtType, ResultType, StateType, WriterInv,
     OneInv, BenchType, IsOutcome
<1> QED
  BY <1>4, <1>5, <1>6, <1>7, <1>8, <1>9, <1>10, <1>11, <1>12, <1>13

(* StartAsked keeps the invariant. *)
LEMMA StartAskedKeeps ==
    ASSUME Good, Calm', NEW r \in Requests, StartAsked(r)
    PROVE  Good'
<1> USE DEF Good, StartAsked, Asks, Goes, Overlaps, flags, bench, history, Calm
<1>1. ResultType' /\ BufType' /\ StateType' /\ BenchType'
  BY DEF ResultType, IsOutcome, BufType, StateType, Writing, BenchType
<1>2. AtType'
  BY ChipConfigAssumption DEF AtType, Places, ApplyPlaces, ResetPlaces,
     SelectPlaces, StartPlaces, Requests, Changers, ChipOps
<1>3. OneInv'
  BY ChipConfigAssumption DEF OneInv, Active, Requests, Changers, ChipOps,
     AtType
<1>4. WriterInv'
  BY DEF WriterInv, Writing
<1>5. SinceInv'
  <2>1. at[r] = "idle" /\ \A q \in Requests : q # r => at'[q] = at[q]
    BY DEF AtType
  <2>2. at'[r] = "generate" /\ r \in Starts
    BY DEF AtType
  <2>3. \A q \in Starts : ~ToConsume(q)
    BY <2>1 DEF ToConsume, Active
  <2>4. state.reset.ok /\ ~(state.reset.ts <= state.consumed)
    BY DEF Armed, StateType, IsOutcome, BenchType
  <2>5. since = 0
    BY <2>3, <2>4 DEF SinceInv
  <2> QED BY <2>5 DEF SinceInv
<1>6. ArmedInv'
  BY DEF ArmedInv, Armed, Writing, Active, Requests, Changers, ChipOps
<1>7. OutcomeInv'
  BY DEF OutcomeInv, Writing, Active, Requests, Changers, ChipOps
<1> QED
  BY <1>1, <1>2, <1>3, <1>4, <1>5, <1>6, <1>7

(* StartFails keeps the invariant. *)
LEMMA StartFailsKeeps ==
    ASSUME Good, Calm', NEW r \in Requests, StartFails(r)
    PROVE  Good'
<1> USE DEF Good, StartFails, Goes, flags, bench, history, Calm
<1>1. ResultType' /\ BufType' /\ StateType' /\ BenchType'
  BY DEF ResultType, IsOutcome, BufType, StateType, Writing, BenchType
<1>2. AtType'
  BY DEF AtType, Places, ApplyPlaces, ResetPlaces, SelectPlaces, StartPlaces,
     Requests, Changers, ChipOps
<1>3. OneInv'
  BY DEF OneInv, Active, Requests, Changers, ChipOps
<1>4. WriterInv'
  BY DEF WriterInv, Writing
<1>5. SinceInv'
  BY DEF SinceInv, ToConsume, IsOutcome, Writing, Armed, Active, Requests,
     Changers, ChipOps
<1>6. ArmedInv'
  BY ChipConfigAssumption DEF ArmedInv, Armed, Writing, Active, Requests,
     Changers, ChipOps, Places, ApplyPlaces, ResetPlaces, SelectPlaces,
     StartPlaces, AtType, ResultType, StateType
<1>7. OutcomeInv'
  BY DEF OutcomeInv, Writing, Active, Requests, Changers, ChipOps
<1> QED
  BY <1>1, <1>2, <1>3, <1>4, <1>5, <1>6, <1>7

(* Started keeps the invariant. *)
LEMMA StartedKeeps ==
    ASSUME Good, Calm', NEW r \in Requests, Started(r)
    PROVE  Good'
<1> USE DEF Good, Started, Goes, flags, bench, history, Calm
<1>1. ResultType' /\ BufType' /\ StateType'
  BY DEF ResultType, IsOutcome, BufType, StateType, Writing
<1>2. AtType'
  BY DEF AtType, Places, ApplyPlaces, ResetPlaces, SelectPlaces, StartPlaces,
     Requests, Changers, ChipOps
<1>3. BenchType'
  BY DEF BenchType
<1>4. OneInv'
  BY DEF OneInv, Active, Requests, Changers, ChipOps
<1>5. WriterInv'
  BY DEF WriterInv, Writing
<1>6. SinceInv'
  BY ChipConfigAssumption DEF SinceInv, ToConsume, IsOutcome, Writing, Armed,
     Active, Requests, Changers, ChipOps, Places, ApplyPlaces, ResetPlaces,
     SelectPlaces, StartPlaces, AtType, ResultType, StateType, BenchType,
     WriterInv, OneInv, OutcomeInv
<1>7. ArmedInv'
  BY DEF ArmedInv, Armed, Writing, Active, Requests, Changers, ChipOps
<1>8. OutcomeInv'
  BY DEF OutcomeInv, Writing, Active, Requests, Changers, ChipOps
<1> QED
  BY <1>1, <1>2, <1>3, <1>4, <1>5, <1>6, <1>7, <1>8

(* Consumed keeps the invariant. *)
LEMMA ConsumedKeeps ==
    ASSUME Good, Calm', NEW r \in Requests, Consumed(r)
    PROVE  Good'
<1> USE DEF Good, Consumed, Goes, Forgets, flags, bench, history, Calm
<1>1. /\ state' = [state EXCEPT !.consumed = clock]
      /\ \A q \in Requests : q # r => ~Writing(q)
  BY DEF WriterInv, Writing
<1>2. /\ state'.applied = state.applied /\ state'.reset = state.reset
      /\ state'.consumed = clock
  BY <1>1 DEF StateType
<1>3. \A q \in Requests : q # r => at'[q] = at[q] /\ result'[q] = result[q]
  BY DEF AtType, ResultType
<1>4. BenchType'
  BY <1>1, <1>2, <1>3, KindFacts DEF BenchType
<1>5. AtType'
  BY <1>1, <1>2, <1>3, KindFacts DEF AtType, Places, ApplyPlaces, ResetPlaces,
     SelectPlaces, StartPlaces, Requests, Changers, ChipOps
<1>6. ResultType'
  <2>1. clock \in Nat /\ 0 \in 0..clock /\ clock \in 0..clock
    BY DEF BenchType
  <2>2. IsOutcome(Never)
    BY <2>1, NotGood
  <2>3. clock' = clock /\ result' = [result EXCEPT ![r] = Never]
    OBVIOUS
  <2> QED BY <2>2, <2>3, ResultSet
<1>7. BufType'
  BY <1>1, <1>2, <1>3, KindFacts DEF BufType
<1>8. StateType'
  BY <1>1, <1>2, <1>3, KindFacts DEF StateType, IsOutcome, Writing, ResultType,
     BenchType
<1>9. OneInv'
  BY <1>1, <1>2, <1>3, KindFacts DEF OneInv, Active, Requests, Changers,
     ChipOps
<1>10. WriterInv'
  BY <1>1, <1>2, <1>3, KindFacts DEF WriterInv, Writing, AtType, BufType,
     StateType
<1>11. SinceInv'
  BY <1>1, <1>2, <1>3, KindFacts, ChipConfigAssumption DEF SinceInv, ToConsume,
     IsOutcome, Writing, Armed, Active, Requests, Changers, ChipOps, Places,
     ApplyPlaces, ResetPlaces, SelectPlaces, StartPlaces, AtType, ResultType,
     StateType, BenchType, WriterInv, OneInv, OutcomeInv
<1>12. ArmedInv'
  <2>1. SUFFICES ASSUME Armed(state') PROVE FALSE
    BY DEF ArmedInv
  <2>2. state.reset.ts > clock
    BY <1>2, <2>1 DEF Armed
  <2> QED BY <2>2 DEF StateType, IsOutcome, BenchType
<1>13. OutcomeInv'
  BY <1>1, <1>2, <1>3, KindFacts DEF OutcomeInv, Writing, Active, Requests,
     Changers, ChipOps
<1> QED
  BY <1>4, <1>5, <1>6, <1>7, <1>8, <1>9, <1>10, <1>11, <1>12, <1>13

(* ReadState keeps the invariant. *)
LEMMA ReadStateKeeps ==
    ASSUME Good, Calm', NEW r \in Requests, ReadState(r)
    PROVE  Good'
<1> USE DEF Good, ReadState, Reads, Goes, flags, bench, history, Calm
<1>1. ResultType' /\ StateType' /\ BenchType'
  BY DEF ResultType, IsOutcome, StateType, Writing, BenchType
<1>2. AtType'
  BY DEF AtType, Places, ApplyPlaces, ResetPlaces, SelectPlaces, StartPlaces,
     Requests, Changers, ChipOps
<1>3. BufType'
  BY DEF BufType
<1>4. OneInv'
  BY ChipConfigAssumption DEF OneInv, Active, Requests, Changers, ChipOps,
     AtType
<1>5. WriterInv'
  BY DEF WriterInv, Writing, AtType, BufType, StateType
<1>6. SinceInv'
  BY ChipConfigAssumption DEF SinceInv, ToConsume, IsOutcome, Writing, Armed,
     Active, Requests, Changers, ChipOps, Places, ApplyPlaces, ResetPlaces,
     SelectPlaces, StartPlaces, AtType, ResultType, StateType, BenchType
<1>7. ArmedInv'
  BY ChipConfigAssumption DEF ArmedInv, Armed, Writing, Active, Requests,
     Changers, ChipOps, Places, ApplyPlaces, ResetPlaces, SelectPlaces,
     StartPlaces, AtType, ResultType, StateType
<1>8. OutcomeInv'
  <2>1. \A q \in Requests : q # r => at'[q] = at[q]
    BY DEF AtType
  <2>2. /\ at'[r] \notin {"reset", "resetDone"}
        /\ at'[r] \in {"readReset", "writeReset"} => at[r] = "readReset"
        /\ at'[r] \in {"readApplied", "writeApplied"} => at[r] = "readApplied"
    BY DEF AtType
  <2>3. UNCHANGED <<result, state, chip>>
    OBVIOUS
  <2> QED BY <2>1, <2>2, <2>3 DEF OutcomeInv, Requests, Changers
<1> QED
  BY <1>1, <1>2, <1>3, <1>4, <1>5, <1>6, <1>7, <1>8

(* The run itself changes nothing of this. *)
LEMMA RunKeeps ==
    ASSUME Good, RunBegins \/ CaptureBegins \/ CaptureEnds \/ RunEnds \/ UNCHANGED vars
    PROVE  Good'
<1> USE DEF Good, RunBegins, CaptureBegins, CaptureEnds, RunEnds, vars, flags, bench,
            history
<1>1. UNCHANGED <<at, chosen, result, buf, state, chip, clock, since>>
  OBVIOUS
<1>2. AtType' /\ ResultType' /\ BufType' /\ StateType' /\ BenchType'
  BY <1>1 DEF AtType, ResultType, BufType, StateType, BenchType, IsOutcome
<1>3. OneInv' /\ WriterInv'
  BY <1>1 DEF OneInv, WriterInv, Active, Writing
<1>4. SinceInv' /\ ArmedInv' /\ OutcomeInv'
  BY <1>1 DEF SinceInv, ArmedInv, OutcomeInv, ToConsume, Armed
<1> QED
  BY <1>2, <1>3, <1>4

(* A history that is disturbed stays so. *)
LEMMA HistoryFacts ==
    ASSUME IInv, [Next]_vars
    PROVE  /\ disturbed' \in BOOLEAN /\ stuck' \in BOOLEAN
           /\ Calm' => Calm
<1> USE DEF IInv, Calm, history
<1>1. ASSUME NEW r \in Requests, Thread(r)
      PROVE  /\ disturbed' \in BOOLEAN /\ stuck' \in BOOLEAN
             /\ Calm' => Calm
  BY <1>1 DEF Thread, ApplyStarts, ResetStarts, Locked, ResetRefused, ChipResets,
     ResetEnds, ResetRecorded, ApplyGivesUp, Configures, ConfigEnds, Applied,
     ReadState, Reads
<1>2. ASSUME NEW r \in Requests,
             \/ Selected(r) \/ Consumed(r) \/ WriteRaises(r) \/ \E e \in Exts : Select(r, e)
             \/ ApplyAsked(r) \/ ResetAsked(r) \/ StartAsked(r) \/ StartFails(r) \/ Started(r)
      PROVE  /\ disturbed' \in BOOLEAN /\ stuck' \in BOOLEAN
             /\ Calm' => Calm
  BY <1>2 DEF Selected, Consumed, WriteRaises, Select, ApplyAsked, ResetAsked, StartAsked,
     StartFails, Started
<1>3. CASE RunBegins \/ CaptureBegins \/ CaptureEnds \/ RunEnds \/ GuiRestarts
  BY <1>3 DEF RunBegins, CaptureBegins, CaptureEnds, RunEnds, GuiRestarts
<1>4. CASE UNCHANGED vars
  BY <1>4 DEF vars
<1> QED
  BY <1>1, <1>2, <1>3, <1>4 DEF Next

(* Every step keeps the invariant. *)
LEMMA NextKeeps ==
    ASSUME IInv, [Next]_vars
    PROVE  IInv'
<1>1. SUFFICES ASSUME Calm' PROVE Good'
  BY HistoryFacts DEF IInv
<1>2. Good
  BY <1>1, HistoryFacts DEF IInv
<1>3. ASSUME NEW r \in Requests, Thread(r)
      PROVE  Good'
  BY <1>1, <1>2, <1>3, ApplyStartsKeeps, ResetStartsKeeps, LockedKeeps,
     ResetRefusedKeeps, ChipResetsKeeps, ResetEndsKeeps, ResetRecordedKeeps,
     ApplyGivesUpKeeps, ConfiguresKeeps, ConfigEndsKeeps, AppliedKeeps, ReadStateKeeps
     DEF Thread
<1>4. ASSUME NEW r \in Requests,
             \/ Selected(r) \/ Consumed(r) \/ \E e \in Exts : Select(r, e)
             \/ ApplyAsked(r) \/ ResetAsked(r) \/ StartAsked(r) \/ StartFails(r) \/ Started(r)
      PROVE  Good'
  BY <1>1, <1>2, <1>4, SelectedKeeps, ConsumedKeeps, SelectKeeps, ApplyAskedKeeps,
     ResetAskedKeeps, StartAskedKeeps, StartFailsKeeps, StartedKeeps
<1>5. ASSUME NEW r \in Requests, WriteRaises(r)
      PROVE  FALSE
  BY <1>1, <1>5 DEF WriteRaises, Calm
<1>6. CASE GuiRestarts
  BY <1>1, <1>6 DEF GuiRestarts, Calm
<1>7. CASE RunBegins \/ CaptureBegins \/ CaptureEnds \/ RunEnds \/ UNCHANGED vars
  BY <1>2, <1>7, RunKeeps
<1> QED
  BY <1>3, <1>4, <1>5, <1>6, <1>7 DEF Next

-----------------------------------------------------------------------------

(* IInv holds in every reachable state, for all values of the constants.   *)
THEOREM ChipConfigInvariance == Spec => []IInv
<1>1. Init => IInv
  BY InitIInv
<1>2. IInv /\ [Next]_vars => IInv'
  BY NextKeeps
<1> QED BY <1>1, <1>2, PTL DEF Spec

(* As long as chip operations and starts do not overlap and the state file can *)
(* be written, a state that lets a run start (run_armed) tells the truth of    *)
(* the registers.                                                              *)
THEOREM ArmedTellsTheTruth == Spec => []ArmedIsConfigured
<1>1. IInv => ArmedIsConfigured
  BY DEF IInv, Good, Calm, ArmedInv, Changers, Requests, Active, ArmedIsConfigured
<1> QED BY <1>1, ChipConfigInvariance, PTL

(* A good warm reset lets one run start, and no second one before the next *)
(* reset (consume_warm_reset), whatever is selected or fails between.      *)
THEOREM ResetArmsOneRun == Spec => []OneRunPerReset
<1>1. IInv => OneRunPerReset
  BY DEF IInv, Good, Calm, SinceInv, BenchType, OneRunPerReset
<1> QED BY <1>1, ChipConfigInvariance, PTL

=============================================================================
