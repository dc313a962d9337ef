----------------------------- MODULE BackupSpace -----------------------------
(***************************************************************************)
(* Copies of the data: backup_watcher.py sends every run to EOS, the space *)
(* manager of the GUI (flask_app/space_manager.py) deletes runs that are   *)
(* there and fetches them back, prune_backed_up.py deletes when the disk   *)
(* is low.  None of them knows of the others: what they share are the      *)
(* files and their sizes.                                                  *)
(*                                                                         *)
(* A sub-run stands for its files; a run is the set of its sub-runs.  What *)
(* a place holds of a sub-run is nothing, a part of it, or all of it.      *)
(***************************************************************************)
EXTENDS Naturals

CONSTANTS
    Runs, SubRuns,
    RunOf,         \* the run of a sub-run
    MaxRestores    \* bound

ASSUME BackupAssumption ==
    /\ RunOf \in [SubRuns -> Runs]
    /\ "none" \notin Runs /\ "none" \notin SubRuns
    /\ MaxRestores \in Nat

VARIABLES
    local, remote,   \* sub-run -> "none", "part" or "full"
    complete,        \* sub-runs with their .subrun_complete on the disk
    taken,           \* history: sub-runs that were taken to the end
    active,          \* current_run_state.json: a run, or "none"
    newest,          \* the run directory that was written last
    polled,          \* the watcher on the size of a sub-run: "new", "seen" by the
                     \* last poll too, or "synced" (kept in backup_state.json)
    skipped, up,     \* its runs marked stale, its copy under way
    deleter,         \* a delete_run: its run and how far it is
    joined,          \* history: a sub-run of that run began after the guards, or
                     \* ended between the verification and the guards
    fetch,           \* a restore_run: what it has still to fetch
    fetched,         \* the sub-run it is fetching now
    restores,
    crossed          \* history: sub-runs of which a part was sent over all of it,
                     \* or fetched over it

disk    == <<local, complete, taken, active, newest>>
watcher == <<polled, skipped, up>>
space   == <<deleter, joined, fetch, fetched, restores>>
vars == <<disk, remote, watcher, space, crossed>>

None == "none"
Idle == [run |-> None, at |-> "idle"]
Of(r) == {s \in SubRuns : RunOf[s] = r}
OnDisk(r) == \E s \in Of(r) : local[s] # "none"

Init ==
    /\ local = [s \in SubRuns |-> "none"] /\ remote = [s \in SubRuns |-> "none"]
    /\ complete = {} /\ taken = {} /\ active = None /\ newest = None
    /\ polled = [s \in SubRuns |-> "new"] /\ skipped = {} /\ up = None
    /\ deleter = Idle /\ joined = FALSE
    /\ fetch = {} /\ fetched = None /\ restores = 0 /\ crossed = {}

\* The files of s change: no size that was seen before holds.
Changes(s, to) ==
    /\ local' = [local EXCEPT ![s] = to]
    /\ polled' = [polled EXCEPT ![s] = "new"]

-----------------------------------------------------------------------------
(* The orchestrator.                                                       *)

\* A run starts, or starts again for the sub-runs it lacks.  current_run_state
\* is written by the GUI after that, and not at all for a run from a shell.
SubRunBegins(s) ==
    /\ s \notin taken /\ local[s] = "none"
    /\ \A q \in SubRuns \ taken : local[q] = "none"
    /\ Changes(s, "part")
    /\ newest' = RunOf[s]
    /\ joined' = (joined \/ deleter = [run |-> RunOf[s], at |-> "remove"])
    /\ UNCHANGED <<complete, taken, active, remote, skipped, up, deleter,
                   fetch, fetched, restores, crossed>>

StateWritten(r) ==
    /\ \E s \in Of(r) \ taken : local[s] = "part"
    /\ active # r /\ active' = r
    /\ UNCHANGED <<local, complete, taken, newest, remote, watcher,
                   space, crossed>>

SubRunEnds(s) ==
    /\ s \notin taken /\ local[s] = "part"
    /\ Changes(s, "full")
    /\ taken' = taken \cup {s} /\ complete' = complete \cup {s}
    /\ joined' = (joined \/ deleter = [run |-> RunOf[s], at |-> "guard"])
    /\ UNCHANGED <<active, newest, remote, skipped, up, deleter, fetch,
                   fetched, restores, crossed>>

-----------------------------------------------------------------------------
(* backup_watcher.py                                                       *)

\* A copy under way is shorter than its source.
SameSize(s) == local[s] = remote[s] /\ up # s

Poll(s) ==
    /\ up = None
    /\ local[s] # "none" /\ RunOf[s] \notin skipped /\ polled[s] = "new"
    /\ polled' = [polled EXCEPT ![s] = "seen"]
    /\ UNCHANGED <<disk, remote, skipped, up, space, crossed>>

\* Two polls saw the size, and it is not the one that was synced.
FastPath(s) == polled[s] = "seen" /\ RunOf[s] \notin skipped

\* Mutant of Reconciles: a run marked stale is left out.
ReconcilesFresh(s) == RunOf[s] \notin skipped

\* The sweep over all runs looks at no cache and waits for no size to settle.
Reconciles(s) == TRUE

\* xrdcp -f: the old copy is gone as soon as the new one begins.
CopyBegins(s) ==
    /\ up = None
    /\ local[s] # "none" /\ ~SameSize(s)
    /\ FastPath(s) \/ Reconciles(s)
    /\ up' = s
    /\ remote' = [remote EXCEPT ![s] = "part"]
    /\ crossed' = IF s \in taken /\ local[s] = "part" THEN crossed \cup {s} ELSE crossed
    /\ UNCHANGED <<disk, polled, skipped, space>>

\* It sends what is there when it reads it.
CopyEnds ==
    /\ up # None
    /\ \/ /\ local[up] # "none"
          /\ remote' = [remote EXCEPT ![up] = local[up]]
          /\ polled' = [polled EXCEPT ![up] = IF @ = "seen" THEN "synced" ELSE @]
       \/ UNCHANGED <<remote, polled>>
    /\ up' = None
    /\ UNCHANGED <<disk, skipped, space, crossed>>

\* All of it is there already.
NothingToCopy(s) ==
    /\ up = None /\ FastPath(s)
    /\ SameSize(s)
    /\ polled' = [polled EXCEPT ![s] = "synced"]
    /\ UNCHANGED <<disk, remote, skipped, up, space, crossed>>

\* Nothing in it has changed for stale_run_days.
Stale(r) == OnDisk(r) /\ \A s \in Of(r) \ taken : local[s] = "none"

\* A run of more than stale_run_days, marked by the pass that finds it, synced or
\* not, and not looked at again should it go on.
MarkedStale(r) ==
    /\ up = None /\ r \notin skipped /\ Stale(r)
    /\ skipped' = skipped \cup {r}
    /\ UNCHANGED <<disk, remote, polled, up, space, crossed>>

\* Killed, with its copy, and started again.
WatcherRestarts ==
    /\ skipped # {} \/ up # None \/ \E s \in SubRuns : polled[s] = "seen"
    /\ polled' = [s \in SubRuns |-> IF polled[s] = "seen" THEN "new" ELSE polled[s]]
    /\ skipped' = {} /\ up' = None
    /\ UNCHANGED <<disk, remote, space, crossed>>

-----------------------------------------------------------------------------
(* delete_run, asked for by the operator or by a sweep of the pruner.      *)

\* Mutant of Verified: what EOS has of a file is enough.
VerifiedPresent(r) ==
    \A s \in Of(r) : local[s] # "none" => remote[s] # "none"

\* Every local file is on EOS with its size.
Verified(r) ==
    \A s \in Of(r) : local[s] # "none" => SameSize(s)

\* The active run and the newest, which may not be in the state file yet.
InUse == {active, newest}
Incomplete(r) == {s \in Of(r) : local[s] # "none" /\ s \notin complete}

\* Mutant of Guarded: without the markers.
GuardedByName(r) == r \notin InUse

Guarded(r) == r \notin InUse /\ Incomplete(r) = {}

DeleteAsked(r) ==
    /\ deleter.run = None /\ OnDisk(r)
    /\ deleter' = [run |-> r, at |-> "verify"]
    /\ UNCHANGED <<disk, remote, watcher, joined, fetch, fetched, restores,
                   crossed>>

\* A sweep of the pruner, when the disk is low: it asks for what it finds safe.
PrunerAsks(r) == Verified(r) /\ Guarded(r) /\ DeleteAsked(r)

DeleteVerifies ==
    /\ deleter.at = "verify"
    /\ \/ deleter' = Idle                \* EOS cannot be listed: no verdict
       \/ /\ Verified(deleter.run)
          /\ deleter' = [deleter EXCEPT !.at = "guard"]
    /\ UNCHANGED <<disk, remote, watcher, joined, fetch, fetched, restores,
                   crossed>>

DeleteGuards ==
    /\ deleter.at = "guard"
    /\ deleter' = IF Guarded(deleter.run) THEN [deleter EXCEPT !.at = "remove"]
                                          ELSE Idle
    /\ UNCHANGED <<disk, remote, watcher, joined, fetch, fetched, restores,
                   crossed>>

Deletes ==
    /\ deleter.at = "remove"
    /\ local' = [s \in SubRuns |-> IF RunOf[s] = deleter.run THEN "none" ELSE local[s]]
    /\ complete' = complete \ Of(deleter.run)
    /\ polled' = [s \in SubRuns |-> IF RunOf[s] = deleter.run THEN "new" ELSE polled[s]]
    /\ deleter' = Idle
    /\ UNCHANGED <<taken, active, newest, remote, skipped, up,
                   joined, fetch, fetched, restores, crossed>>

-----------------------------------------------------------------------------
(* restore_run: what is missing here or of another size.                   *)

ToFetch(r) == {s \in Of(r) : remote[s] # "none" /\ ~SameSize(s)}

RestoreAsked(r) ==
    /\ restores < MaxRestores /\ restores' = restores + 1
    /\ fetch = {} /\ fetched = None
    /\ r # active
    /\ ToFetch(r) # {} /\ fetch' = ToFetch(r)
    /\ UNCHANGED <<disk, remote, watcher, deleter, joined, fetched, crossed>>

FetchBegins(s) ==
    /\ s \in fetch /\ fetched = None
    /\ fetch' = fetch \ {s} /\ fetched' = s
    /\ newest' = RunOf[s]
    /\ Changes(s, "part")
    /\ crossed' = IF s \in taken /\ remote[s] = "part" THEN crossed \cup {s} ELSE crossed
    /\ UNCHANGED <<complete, taken, active, remote, skipped, up, deleter,
                   joined, restores>>

\* The marker is one of the files of a sub-run that was taken to the end.
Marker(s) == {s} \cap taken

\* The files are here, the marker among them, or a copy broke off.
FetchEnds ==
    /\ fetched # None
    /\ \/ /\ local[fetched] = "part"
          /\ Changes(fetched, remote[fetched])
          /\ complete' = complete \cup Marker(fetched)
       \/ /\ complete' \in {complete, complete \cup Marker(fetched)}
          /\ UNCHANGED <<local, polled>>
    /\ fetched' = None
    /\ UNCHANGED <<taken, active, newest, remote, skipped, up, deleter,
                   joined, fetch, restores, crossed>>

\* The GUI is restarted: requests die where they are.
GuiRestarts ==
    /\ deleter # Idle \/ fetch # {} \/ fetched # None
    /\ deleter' = Idle /\ fetch' = {} /\ fetched' = None
    /\ UNCHANGED <<disk, remote, watcher, joined, restores, crossed>>

-----------------------------------------------------------------------------

Watches ==
    \/ \E s \in SubRuns : CopyBegins(s) \/ NothingToCopy(s) \/ Poll(s)
    \/ \E r \in Runs : MarkedStale(r)
    \/ CopyEnds \/ WatcherRestarts

Next ==
    \/ \E s \in SubRuns : SubRunBegins(s) \/ SubRunEnds(s) \/ FetchBegins(s)
    \/ \E r \in Runs : StateWritten(r) \/ DeleteAsked(r)
                       \/ PrunerAsks(r) \/ RestoreAsked(r)
    \/ Watches
    \/ DeleteVerifies \/ DeleteGuards \/ Deletes \/ FetchEnds
    \/ GuiRestarts

CopyFinished(s) == up = s /\ CopyEnds /\ remote'[s] = local[s]

\* The watcher goes on, and what is sent again and again gets there (EOS comes
\* back, the ticket is renewed).
Fairness ==
    /\ WF_vars(CopyEnds)
    /\ \A s \in SubRuns : SF_vars(CopyBegins(s)) /\ SF_vars(CopyFinished(s))

Spec == Init /\ [][Next]_vars /\ Fairness

-----------------------------------------------------------------------------

\* "A run is only ever safe to delete when its data is provably preserved on
\* EOS", and never one that is being written: a delete takes no sub-run that is
\* not at its end, and none that EOS lacks, whatever is copied, fetched or taken
\* meanwhile, but for the two gaps of joined.
SafeDelete ==
    [][Deletes /\ ~joined =>
          \A s \in Of(deleter.run) : local[s] # "none" =>
              s \in taken /\ (remote[s] = "full" \/ s \in crossed)]_vars

Held(s) == local[s] = "full" \/ remote[s] = "full"

\* A sub-run that was taken to the end is held in full somewhere, unless a part
\* of it was sent or fetched over all of it, or a delete hit a run that was
\* joined.
HeldUnlessCrossed == \A s \in taken : Held(s) \/ s \in crossed \/ joined

\* The same without the first reserve: what the code does not do.
Preserved == \A s \in taken : Held(s) \/ joined

\* What is on the disk gets to EOS, from stale runs as well (the reconcile
\* sweep), or is taken off the disk.
BackedUp == \A s \in SubRuns :
    (local[s] = "full") ~> (remote[s] = "full" \/ local[s] # "full")

=============================================================================
