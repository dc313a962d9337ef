---------------------------- MODULE SubRunLedger ----------------------------
(***************************************************************************)
(* What a run promises about its sub-runs, whoever crashes: at most one    *)
(* sub-run is being captured; a sub-run counts as complete only after a    *)
(* finished capture of it, while nothing is being captured, and until it   *)
(* is captured again; and a run that resumes captures no complete one.     *)
(* RunControl implements it.                                               *)
(***************************************************************************)
EXTENDS Naturals

CONSTANT NSub
SubRuns == 1..NSub

VARIABLES
    resume,      \* the run in progress leaves alone what is complete
    capturing,   \* the sub-run being captured, 0 when there is none
    captured,    \* sub-runs whose capture was carried to its end
    complete     \* sub-runs marked complete for that capture
vars == <<resume, capturing, captured, complete>>

Init == resume = FALSE /\ capturing = 0 /\ captured = {} /\ complete = {}

\* A run begins, to complete what there is or to take it all again.
Begin ==
    /\ capturing = 0
    /\ resume' \in BOOLEAN
    /\ UNCHANGED <<capturing, captured, complete>>

\* A sub-run is captured, for the first time or again.
Capture(s) ==
    /\ capturing = 0
    /\ resume => s \notin complete
    /\ capturing' = s
    /\ captured' = captured \ {s}
    /\ complete' = complete \ {s}
    /\ UNCHANGED resume

CaptureEnds ==
    /\ capturing # 0
    /\ captured' = captured \cup {capturing}
    /\ capturing' = 0
    /\ UNCHANGED <<resume, complete>>

CaptureFails ==
    /\ capturing # 0
    /\ capturing' = 0
    /\ UNCHANGED <<resume, captured, complete>>

Complete(s) ==
    /\ capturing = 0 /\ s \in captured
    /\ complete' = complete \cup {s}
    /\ UNCHANGED <<resume, capturing, captured>>

Next ==
    \/ Begin
    \/ \E s \in SubRuns : Capture(s) \/ Complete(s)
    \/ CaptureEnds \/ CaptureFails

Spec == Init /\ [][Next]_vars

=============================================================================
