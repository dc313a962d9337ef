------------------------------- MODULE Watchers -------------------------------
(***************************************************************************)
(* The two watchers behind a run: vmm_processor_watcher.py decodes each    *)
(* finished capture file of a sub-run into a column store, qa_watcher.py   *)
(* plots the stores.  Both stand on watcher_common.py: jobs that are       *)
(* killed, attempts that are counted, a state file and a re-run signal.    *)
(* Against them: the capture program that still writes the files, the      *)
(* capture server that may die before its end marker, restarts of a        *)
(* watcher, and the operator's re-run.                                     *)
(*                                                                         *)
(* One sub-run and one interface; captures are numbered as their files     *)
(* are.                                                                    *)
(***************************************************************************)
EXTENDS Integers, FiniteSets, FiniteSetsExt

CONSTANTS
    Files,          \* capture files of the sub-run
    max_attempts,
    MaxDisturbs     \* bound: restarts and re-runs

ASSUME WatchersAssumption ==
    /\ Files \in Nat \ {0} /\ max_attempts \in Nat \ {0}
    /\ MaxDisturbs \in Nat

VARIABLES
    size,        \* bytes of a file on the disk: -1 for no file, 0, or 1 for more
    late,        \* files closed with their last bytes still to be flushed
    writer,      \* "on", "off" (the sub-run ended), "dead" (no marker)
    capture_done,
    quiet,       \* nothing was written for twice the rotation time (1), or for
                 \* stale_run_days (2)
    looked, done, fails, mem_degraded, skipped, job, \* the processor; done and
                 \* fails are saved after every job (processor_state.json)
    store,       \* what a store was made from: "none", "whole", or a file that is
                 \* "short" of what was written since
    qdone, qfails, qskipped, qjob,                       \* the QA watcher
    plotted,     \* stores with an events.json
    restarts, reruns,
    launches,    \* history: decodes of a file since the last re-run
    early        \* history: files taken as overdue under a live writer

files == <<size, late, writer, capture_done, quiet>>
proc  == <<looked, done, fails, mem_degraded, skipped, job>>
qa    == <<qdone, qfails, qskipped, qjob, plotted>>
count == <<restarts, reruns>>
hist  == <<launches, early>>
vars  == <<files, proc, store, qa, count, hist>>

C == 1 .. Files
Zero == [c \in C |-> 0]
NoJob == [file |-> 0, whole |-> TRUE, degraded |-> FALSE, state |-> "none"]

Init ==
    /\ size = [c \in C |-> IF c = 1 THEN 0 ELSE -1] /\ late = {}
    /\ writer = "on" /\ capture_done = FALSE /\ quiet = 0
    /\ looked = {} /\ done = {} /\ fails = Zero
    /\ mem_degraded = {} /\ skipped = FALSE /\ job = NoJob
    /\ store = [c \in C |-> "none"]
    /\ qdone = {} /\ qfails = Zero /\ qskipped = FALSE /\ qjob = 0
    /\ plotted = {}
    /\ restarts = 0 /\ reruns = 0
    /\ launches = Zero /\ early = {}

-----------------------------------------------------------------------------
(* The capture program and the orchestrator.                               *)

Newest == Max({c \in C : size[c] >= 0} \cup {0})

\* The open file grows, or the last bytes of a closed one are flushed: what was
\* read of it before is short now.
Grows(c) ==
    /\ \/ c = Newest /\ writer = "on" /\ UNCHANGED late
       \/ c \in late /\ late' = late \ {c}
    /\ size' = [size EXCEPT ![c] = 1]
    /\ looked' = looked \ {c}
    /\ store' = [store EXCEPT ![c] = IF @ = "none" THEN @ ELSE "short"]
    /\ job' = [job EXCEPT !.whole = @ /\ job.file # c]
    /\ quiet' = 0
    /\ UNCHANGED <<writer, capture_done, done, fails, mem_degraded, skipped, qa,
                   count, hist>>

Rotates ==
    /\ writer = "on" /\ Newest \in 1 .. Files - 1
    /\ size' = [size EXCEPT ![Newest + 1] = 0]
    /\ late' \in {late, late \cup {Newest}}
    /\ quiet' = 0
    /\ UNCHANGED <<writer, capture_done, proc, store, qa, count, hist>>

\* A capture is stopped and waited for before the marker is written; one that
\* outlives its server ends without a marker.
SubRunEnds ==
    /\ writer = "on" /\ late = {}
    /\ \/ writer' = "off" /\ capture_done' = TRUE
       \/ writer' = "dead" /\ UNCHANGED capture_done
    /\ UNCHANGED <<size, late, quiet, proc, store, qa, count, hist>>

\* Time passes without a write; a day of it, longer than a job may last, makes
\* a run stale.
Quiet ==
    /\ late = {}
    /\ \/ quiet = 0
       \/ quiet = 1 /\ writer # "on" /\ job = NoJob /\ qjob = 0
    /\ quiet' = quiet + 1
    /\ UNCHANGED <<size, late, writer, capture_done, proc, store, qa, count, hist>>

-----------------------------------------------------------------------------
(* vmm_processor_watcher.py                                                *)

\* Mutant of Final: one look is enough.
FinalAtOnce(c) ==
    /\ size[c] > 0
    /\ c < Newest \/ capture_done \/ quiet > 0

\* Mutant of Eligible: nothing is overdue.
EligibleNoTimeout(c) == size[c] > 0 /\ (c < Newest \/ capture_done)

\* Rotated, ended or overdue ...
Eligible(c) ==
    /\ size[c] > 0
    /\ c < Newest \/ capture_done \/ quiet > 0

\* ... and of the size it had at the previous poll (_finalized_pcapngs).
Final(c) == Eligible(c) /\ c \in looked

HasStore(c) == store[c] # "none"

Todo == {c \in C : Final(c) /\ ~HasStore(c) /\ c \notin done
                   /\ fails[c] < max_attempts}

\* One pass over the sub-run, and the launch of the newest file that wants it.
\* Taken as given: the last bytes of a closed file are flushed within two passes.
Scan ==
    /\ job = NoJob
    /\ late \cap looked = {}
    /\ IF skipped \/ quiet = 2
       THEN /\ ~skipped /\ skipped' = TRUE
            /\ UNCHANGED <<looked, done, job, hist>>
       ELSE /\ looked' = looked \cup {c \in C : Eligible(c)}
            /\ LET c == Max(Todo \cup {0}) IN
               /\ done' = done \cup {d \in C : Final(d) /\ HasStore(d) /\ d > c}
               /\ IF c = 0 THEN UNCHANGED <<job, hist>>
                  ELSE /\ job' = [file |-> c, whole |-> TRUE,
                                  degraded |-> c \in mem_degraded,
                                  state |-> "running"]
                       /\ launches' = [launches EXCEPT ![c] = @ + 1]
                       /\ early' = IF writer = "on" /\ c = Newest
                                   THEN early \cup {c} ELSE early
            /\ UNCHANGED skipped
            /\ <<looked, done, job>>' # <<looked, done, job>>
    /\ UNCHANGED <<files, fails, mem_degraded, store, qa, count>>

\* The worker renames the store into place when all of it is written.
StoreAppears ==
    /\ job.state = "running"
    /\ job' = [job EXCEPT !.state = "renamed"]
    /\ store' = [store EXCEPT ![job.file] =
                      IF job.whole THEN "whole" ELSE "short"]
    /\ UNCHANGED <<files, looked, done, fails, mem_degraded, skipped, qa,
                   count, hist>>

\* Exit 0.  The raw file is kept (save_pcapng, as configured).
DecodeDone ==
    /\ job.state = "renamed"
    /\ done' = done \cup {job.file}
    /\ fails' = [fails EXCEPT ![job.file] = 0]
    /\ job' = NoJob
    /\ UNCHANGED <<files, looked, mem_degraded, skipped, store, qa, count, hist>>

\* Mutant of Degrades: a file that was killed for memory is tried as before.
DegradesNothing ==
    /\ job.state = "running" /\ ~job.degraded
    /\ job' = NoJob
    /\ UNCHANGED <<files, looked, done, fails, mem_degraded, skipped, store,
                   qa, count, hist>>

\* The first memory kill of a full decode costs no attempt.
Degrades ==
    /\ job.state = "running" /\ ~job.degraded
    /\ mem_degraded' = mem_degraded \cup {job.file}
    /\ job' = NoJob
    /\ UNCHANGED <<files, looked, done, fails, skipped, store, qa, count, hist>>

\* Any other failure does: exit code, stall, time-out, a second memory kill.
DecodeFails ==
    /\ job.state = "running"
    /\ fails' = [fails EXCEPT ![job.file] = @ + 1]
    /\ job' = NoJob
    /\ UNCHANGED <<files, looked, done, mem_degraded, skipped, store, qa,
                   count, hist>>

\* Killed and started again (start_processor).  What a pass added to done for a
\* store it found is not saved, but found again.
ProcessorRestarts ==
    /\ restarts + reruns < MaxDisturbs /\ restarts' = restarts + 1
    /\ looked' = {} /\ mem_degraded' = {} /\ skipped' = FALSE
    /\ job' = NoJob
    /\ UNCHANGED <<files, done, fails, store, qa, reruns, hist>>

\* processor_reset.json, taken at the next pass: forgotten and saved.
ProcessorReset ==
    /\ job = NoJob
    /\ restarts + reruns < MaxDisturbs /\ reruns' = reruns + 1
    /\ done' = {} /\ fails' = Zero /\ skipped' = FALSE /\ mem_degraded' = {}
    /\ launches' = Zero
    /\ UNCHANGED <<files, looked, job, store, qa, restarts, early>>

-----------------------------------------------------------------------------
(* qa_watcher.py                                                           *)

Pending == {c \in C : HasStore(c) /\ c \notin qdone /\ qfails[c] < max_attempts}

\* Mutant of PlottedAny: told from what was done, not from what there is.
PlottedDone == qdone # {}

PlottedAny == plotted # {}

\* A pass takes the newest pending store.  Only the first of the sub-run gets
\* plots; any other is done at once (the trend is refreshed either way).
QaScan ==
    /\ qjob = 0
    /\ \/ quiet = 2 /\ ~qskipped /\ qskipped' = TRUE
          /\ UNCHANGED <<qdone, qfails, qjob>>
       \/ /\ quiet < 2 /\ ~qskipped /\ Pending # {}
          /\ LET c == Max(Pending) IN
             IF PlottedAny
             THEN /\ qdone' = qdone \cup {c} /\ qfails' = [qfails EXCEPT ![c] = 0]
                  /\ UNCHANGED qjob
             ELSE qjob' = c /\ UNCHANGED <<qdone, qfails>>
          /\ UNCHANGED qskipped
    /\ UNCHANGED <<files, proc, store, plotted, count, hist>>

\* The script may have written its plots, events.json among them, and fail yet.
Plots == plotted' \in {plotted, plotted \cup {qjob}}

QaEnds ==
    /\ qjob > 0 /\ Plots
    /\ \/ /\ qjob \in plotted'
          /\ qdone' = qdone \cup {qjob} /\ qfails' = [qfails EXCEPT ![qjob] = 0]
       \/ qfails' = [qfails EXCEPT ![qjob] = @ + 1] /\ UNCHANGED qdone
    /\ qjob' = 0
    /\ UNCHANGED <<files, proc, store, qskipped, count, hist>>

QaRestarts ==
    /\ restarts + reruns < MaxDisturbs /\ restarts' = restarts + 1
    /\ IF qjob > 0 THEN Plots ELSE UNCHANGED plotted
    /\ qskipped' = FALSE /\ qjob' = 0
    /\ UNCHANGED <<files, proc, store, qdone, qfails, reruns, hist>>

\* /rerun_qa.
QaReset ==
    /\ qjob = 0
    /\ restarts + reruns < MaxDisturbs /\ reruns' = reruns + 1
    /\ qdone' = {} /\ qfails' = Zero /\ qskipped' = FALSE
    /\ UNCHANGED <<files, proc, store, qjob, plotted, restarts, hist>>

-----------------------------------------------------------------------------

JobEnds == StoreAppears \/ DecodeDone \/ Degrades \/ DecodeFails

Next ==
    \/ \E c \in C : Grows(c)
    \/ Rotates \/ SubRunEnds \/ Quiet
    \/ Scan \/ JobEnds \/ ProcessorRestarts \/ ProcessorReset
    \/ QaScan \/ QaEnds \/ QaRestarts \/ QaReset

\* Both loops go on, jobs end (the watchdogs of run_monitored), closed files
\* are flushed, and every sub-run ends.
Fairness ==
    /\ \A c \in C : WF_vars(c \in late /\ Grows(c))
    /\ WF_vars(SubRunEnds) /\ WF_vars(quiet = 0 /\ Quiet)
    /\ WF_vars(Scan) /\ WF_vars(JobEnds) /\ WF_vars(QaScan) /\ WF_vars(QaEnds)

Spec == Init /\ [][Next]_vars /\ Fairness

-----------------------------------------------------------------------------

\* A store is of the whole file: the two looks of _finalized_pcapngs never take a
\* file too soon, but for one that is overdue under a capture program that lives
\* (early).
WholeStore ==
    \A c \in C \ early : HasStore(c) => store[c] = "whole"

\* A file costs the machine max_attempts decodes and one more for a memory
\* kill; a restart may add the job it interrupts and one more memory kill.
AttemptsBounded ==
    \A c \in C : launches[c] <= max_attempts + 1 + 2 * restarts

\* At most one store of a sub-run gets the full plots, whatever is killed,
\* restarted or re-run (plot_policy subrun).
PlottedOnce == Cardinality(plotted) <= 1

\* Every file that a capture leaves behind is decoded and shown, or set aside
\* after its attempts, or its run is old (stale_run_days).
Shown(c) ==
    \/ c \in qdone \/ qfails[c] = max_attempts \/ fails[c] = max_attempts
    \/ skipped \/ qskipped
ShownOrSetAside == \A c \in C : (size[c] > 0) ~> Shown(c)

=============================================================================
