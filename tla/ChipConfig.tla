----------------------------- MODULE ChipConfig -----------------------------
(***************************************************************************)
(* Chip configuration from the GUI (flask_app/chip_config.py) and the run  *)
(* start it gates (run_config_py of flask_app/app.py): requests and worker *)
(* threads of one process share two flags and the file                     *)
(* chip_config_state.json, which each writer reads, changes and writes     *)
(* back without a lock.  Against them: the runs of the orchestrator, and   *)
(* restarts of the GUI.                                                    *)
(*                                                                         *)
(* The sets of requests say how many of a kind may be in flight at once.   *)
(***************************************************************************)
EXTENDS Naturals

CONSTANTS
    Exts,                             \* the prepared exception files
    Applies, Resets, Selects, Starts, \* requests of each kind in flight
    MaxRequests                       \* bound: requests in all

\* A request is of one kind.
ASSUME ChipConfigAssumption ==
    /\ Applies \cap Resets = {} /\ Selects \cap Starts = {}
    /\ (Applies \cup Resets) \cap (Selects \cup Starts) = {}
    /\ MaxRequests \in Nat

VARIABLES
    at,          \* where each request, or the thread it started, is
    chosen,      \* the exception file a request is about
    result,      \* what a thread will record: [ok, ts]
    buf,         \* the state file as a writer has read it
    state,       \* chip_config_state.json
    running, resetRunning,
    chip,        \* what the registers hold: a file, "reset" or "broken"
    run,         \* the orchestrator: no run, between captures, in one
    pane,        \* start commands typed into its terminal
    clock,
    requests,    \* requests made
    disturbed,   \* history: two of these overlapped, or the GUI died
    stuck,       \* history: a state file could not be written
    since        \* history: runs started since the last good warm reset, 2 for more

flags   == <<running, resetRunning>>
bench   == <<chip, run, pane, clock, requests>>
history == <<disturbed, stuck, since>>
vars == <<at, chosen, result, buf, state, flags, bench, history>>

Requests == Applies \cup Resets \cup Selects \cup Starts
None == "none"
Never == [file |-> None, ok |-> FALSE, ts |-> 0]

Empty == [selected |-> None, applied |-> Never, reset |-> Never, consumed |-> 0]

\* Mutant of Armed: without the order of reset and apply.
ArmedByReset(s) == s.reset.ok /\ s.applied.ok /\ s.reset.ts > s.consumed

\* A run may start: the last warm reset was good and not used yet, and a good
\* apply is not older.
Armed(s) ==
    /\ s.reset.ok
    /\ s.applied.ok /\ s.applied.ts >= s.reset.ts
    /\ s.reset.ts > s.consumed

Init ==
    /\ at = [r \in Requests |-> "idle"] /\ chosen = [r \in Requests |-> None]
    /\ result = [r \in Requests |-> Never] /\ buf = [r \in Requests |-> None]
    /\ \E e \in Exts : state = [Empty EXCEPT !.selected = e]
    /\ running = FALSE /\ resetRunning = FALSE
    /\ chip = "reset" /\ run = "none" /\ pane = 0 /\ clock = 1
    /\ requests = 0
    /\ disturbed = FALSE /\ stuck = FALSE /\ since = 0

Goes(r, from, to) == at[r] = from /\ at' = [at EXCEPT ![r] = to]

\* A request of the operator.
Asks(r, to) ==
    /\ requests < MaxRequests /\ requests' = requests + 1
    /\ Goes(r, "idle", to)
    /\ UNCHANGED <<chip, run, pane, clock>>

Active(r) == at[r] # "idle"
\* Chip operations and starts are meant to come one after the other.
Overlaps(r) == \E q \in (Applies \cup Resets \cup Starts) \ {r} : Active(q)

CaptureActive == run = "capture"

-----------------------------------------------------------------------------
(* _write_state: read, update, write.  A read that falls into another's    *)
(* write may find an empty file.                                           *)

Writing(r) == at[r] \in {"writeReset", "writeApplied", "writeSelected",
                         "writeConsumed"}

Reads(r, from, to) ==
    /\ Goes(r, from, to)
    /\ \/ buf' = [buf EXCEPT ![r] = state]
       \/ (\E q \in Requests \ {r} : Writing(q)) /\ buf' = [buf EXCEPT ![r] = Empty]
    /\ disturbed' = (disturbed \/ \E q \in Requests \ {r} : Writing(q))
    /\ UNCHANGED <<chosen, result, state, flags, bench, stuck, since>>

\* What a request knew is gone with it.
Forgets(r) ==
    /\ chosen' = [chosen EXCEPT ![r] = None]
    /\ result' = [result EXCEPT ![r] = Never]
    /\ buf' = [buf EXCEPT ![r] = None]

\* The write raises: the thread ends there, the file may be empty.
WriteRaises(r) ==
    /\ Writing(r)
    /\ at' = [at EXCEPT ![r] = "idle"]
    /\ resetRunning' = IF r \in Resets THEN FALSE ELSE resetRunning
    /\ state' \in {state, Empty}
    /\ Forgets(r)
    /\ stuck' = TRUE
    /\ UNCHANGED <<running, bench, disturbed, since>>

-----------------------------------------------------------------------------
(* Selecting and applying.                                                 *)

Select(r, e) ==
    /\ r \in Selects
    /\ Asks(r, "select")
    /\ chosen' = [chosen EXCEPT ![r] = e]
    /\ UNCHANGED <<result, buf, state, flags, history>>

Selected(r) ==
    /\ Goes(r, "writeSelected", "idle")
    /\ state' = [buf[r] EXCEPT !.selected = chosen[r]]
    /\ Forgets(r)
    /\ UNCHANGED <<flags, bench, history>>

ApplyAsked(r) ==
    /\ r \in Applies
    /\ state.selected # None /\ ~CaptureActive
    /\ Asks(r, "asked")
    /\ chosen' = [chosen EXCEPT ![r] = state.selected]
    /\ disturbed' = (disturbed \/ Overlaps(r))
    /\ UNCHANGED <<result, buf, state, flags, stuck, since>>

ApplyStarts(r) ==
    /\ r \in Applies
    /\ IF running THEN Goes(r, "asked", "idle") ELSE Goes(r, "asked", "lock")
    /\ running' = TRUE
    /\ UNCHANGED <<chosen, result, buf, state, resetRunning, bench, history>>

\* The session lock is refused, or a warm reset failed: nothing is applied.
ApplyGivesUp(r) ==
    /\ r \in Applies
    /\ Goes(r, "lock", "readApplied") \/ Goes(r, "resetFailed", "readApplied")
    /\ result' = [result EXCEPT ![r] =
                      [file |-> chosen[r], ok |-> FALSE, ts |-> clock]]
    /\ running' = FALSE
    /\ UNCHANGED <<chosen, buf, state, resetRunning, bench, history>>

\* The configuration utility: the registers change, then its exit is seen.
Configures(r) ==
    /\ Goes(r, "config", "configured")
    /\ chip' \in {chosen[r], "broken"}
    /\ UNCHANGED <<chosen, result, buf, state, flags, run, pane, clock, requests,
                   history>>

ConfigEnds(r) ==
    /\ Goes(r, "configured", "readApplied")
    /\ \E ok \in BOOLEAN :
          /\ ok => (chip = chosen[r] \/ disturbed)
          /\ result' = [result EXCEPT ![r] =
                            [file |-> chosen[r], ok |-> ok, ts |-> clock]]
    /\ running' = FALSE
    /\ UNCHANGED <<chosen, buf, state, resetRunning, bench, history>>

Applied(r) ==
    /\ Goes(r, "writeApplied", "idle")
    /\ state' = [buf[r] EXCEPT !.applied = result[r]]
    /\ Forgets(r)
    /\ UNCHANGED <<flags, bench, history>>

-----------------------------------------------------------------------------
(* Warm resets, of an apply or alone.                                      *)

ResetAsked(r) ==
    /\ r \in Resets
    /\ ~CaptureActive
    /\ Asks(r, "asked")
    /\ disturbed' = (disturbed \/ Overlaps(r))
    /\ UNCHANGED <<chosen, result, buf, state, flags, stuck, since>>

ResetStarts(r) ==
    /\ r \in Resets
    /\ IF running \/ resetRunning
       THEN Goes(r, "asked", "idle") /\ UNCHANGED resetRunning
       ELSE Goes(r, "asked", "lock") /\ resetRunning' = TRUE
    /\ UNCHANGED <<chosen, result, buf, state, running, bench, history>>

\* The session lock is ours, or refused (recorded by a reset alone).
Locked(r) ==
    /\ Goes(r, "lock", "reset")
    /\ result' = [result EXCEPT ![r].ts = clock]     \* when it began
    /\ UNCHANGED <<chosen, buf, state, flags, bench, history>>

ResetRefused(r) ==
    /\ r \in Resets
    /\ Goes(r, "lock", "readReset")
    /\ result' = [result EXCEPT ![r] = [Never EXCEPT !.ts = clock]]
    /\ UNCHANGED <<chosen, buf, state, flags, bench, history>>

ChipResets(r) ==
    /\ Goes(r, "reset", "resetDone")
    /\ chip' = "reset"
    /\ UNCHANGED <<chosen, result, buf, state, flags, run, pane, clock, requests,
                   history>>

\* A reset takes a second at least: the only time that has to pass, as equal
\* times are the worst case elsewhere.
ResetEnds(r) ==
    /\ Goes(r, "resetDone", "readReset")
    /\ clock' = IF result[r].ts < clock THEN clock ELSE clock + 1
    /\ \E ok \in BOOLEAN :
          /\ result' = [result EXCEPT ![r] = [file |-> None, ok |-> ok, ts |-> clock']]
          /\ since' = IF ok THEN 0 ELSE since
    /\ UNCHANGED <<chosen, buf, state, flags, chip, run, pane, requests, disturbed,
                   stuck>>

ResetRecorded(r) ==
    /\ \/ r \in Resets /\ Goes(r, "writeReset", "idle") /\ resetRunning' = FALSE
       \/ /\ r \in Applies
          /\ Goes(r, "writeReset", IF result[r].ok THEN "config" ELSE "resetFailed")
          /\ UNCHANGED resetRunning
    /\ state' = [buf[r] EXCEPT !.reset = result[r]]
    /\ result' = [result EXCEPT ![r] = Never] /\ buf' = [buf EXCEPT ![r] = None]
    /\ UNCHANGED <<chosen, running, bench, history>>

-----------------------------------------------------------------------------
(* Starting a run, and the run.                                            *)

StartAsked(r) ==
    /\ r \in Starts
    /\ Armed(state)
    /\ Asks(r, "generate")
    /\ disturbed' = (disturbed \/ Overlaps(r))
    /\ UNCHANGED <<chosen, result, buf, state, flags, stuck, since>>

\* The generator, the Dream trigger or start_run.sh fails: nothing is started
\* and nothing consumed.
StartFails(r) ==
    /\ r \in Starts
    /\ Goes(r, "generate", "idle")
    /\ UNCHANGED <<chosen, result, buf, state, flags, bench, history>>

Started(r) ==
    /\ r \in Starts
    /\ Goes(r, "generate", "readConsumed")
    /\ pane' = pane + 1
    /\ since' = IF since = 2 THEN 2 ELSE since + 1
    /\ UNCHANGED <<chosen, result, buf, state, flags, chip, run, clock,
                   requests, disturbed, stuck>>

\* Mutant of Consumed: the arming is not consumed.
ConsumedNever(r) ==
    /\ Goes(r, "writeConsumed", "idle")
    /\ state' = buf[r]
    /\ Forgets(r)
    /\ UNCHANGED <<flags, bench, history>>

Consumed(r) ==
    /\ Goes(r, "writeConsumed", "idle")
    /\ state' = [buf[r] EXCEPT !.consumed = clock]
    /\ Forgets(r)
    /\ UNCHANGED <<flags, bench, history>>

\* The shell takes the next command when the run before has ended.
RunBegins ==
    /\ run = "none" /\ pane > 0
    /\ run' = "between" /\ pane' = pane - 1
    /\ UNCHANGED <<at, chosen, result, buf, state, flags, chip, clock,
                   requests, history>>

CaptureBegins ==
    /\ run = "between" /\ run' = "capture"
    /\ disturbed' = (disturbed \/ \E r \in Applies \cup Resets : Active(r))
    /\ UNCHANGED <<at, chosen, result, buf, state, flags, chip, pane, clock,
                   requests, stuck, since>>

CaptureEnds ==
    /\ run = "capture" /\ run' = "between"
    /\ UNCHANGED <<at, chosen, result, buf, state, flags, chip, pane, clock,
                   requests, history>>

RunEnds ==
    /\ run = "between" /\ run' = "none"
    /\ UNCHANGED <<at, chosen, result, buf, state, flags, chip, pane, clock,
                   requests, history>>

-----------------------------------------------------------------------------

\* The GUI is restarted: threads, requests and flags are gone, what was in the
\* state file stays.
GuiRestarts ==
    /\ \E r \in Requests : Active(r)
    /\ at' = [r \in Requests |-> "idle"]
    /\ running' = FALSE /\ resetRunning' = FALSE
    /\ disturbed' = TRUE
    /\ chosen' = [r \in Requests |-> None] /\ result' = [r \in Requests |-> Never]
    /\ buf' = [r \in Requests |-> None]
    /\ UNCHANGED <<state, bench, stuck, since>>

ReadState(r) ==
    \/ Reads(r, "select", "writeSelected")
    \/ Reads(r, "readApplied", "writeApplied")
    \/ Reads(r, "readReset", "writeReset")
    \/ Reads(r, "readConsumed", "writeConsumed")

\* A worker thread, once its request was taken.
Thread(r) ==
    \/ ApplyStarts(r) \/ ResetStarts(r) \/ Locked(r) \/ ResetRefused(r)
    \/ ChipResets(r) \/ ResetEnds(r) \/ ResetRecorded(r)
    \/ ApplyGivesUp(r) \/ Configures(r) \/ ConfigEnds(r) \/ Applied(r)
    \/ ReadState(r)

Next ==
    \/ \E r \in Requests :
          \/ Thread(r) \/ Selected(r) \/ Consumed(r) \/ WriteRaises(r)
          \/ \E e \in Exts : Select(r, e)
          \/ ApplyAsked(r) \/ ResetAsked(r) \/ StartAsked(r)
          \/ StartFails(r) \/ Started(r)
    \/ RunBegins \/ CaptureBegins \/ CaptureEnds \/ RunEnds
    \/ GuiRestarts

Spec == Init /\ [][Next]_vars

-----------------------------------------------------------------------------

\* "A warm reset must happen immediately before the config": as long as chip
\* operations and starts do not overlap, a state file that lets a run start
\* (run_armed) tells the truth of the registers.
ArmedIsConfigured ==
    Armed(state) /\ ~disturbed /\ ~stuck /\ ~(\E r \in Requests : Active(r))
        => chip = state.applied.file

\* A good warm reset arms exactly one run (consume_warm_reset), whatever fails
\* or is selected between.
OneRunPerReset == ~disturbed /\ ~stuck => since <= 1

\* What the code does not do: "Never reconfigure the chip mid-acquisition"
\* (capture_active); the registers do not change under a capture.
NotUnderCapture == [][chip' # chip => ~CaptureActive]_vars

=============================================================================
