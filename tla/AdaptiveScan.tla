----------------------------- MODULE AdaptiveScan -----------------------------
(***************************************************************************)
(* The adaptive threshold scan (quick_scripts/adaptive_thr_scan.py) over   *)
(* the runs it has taken and the rate guard (rate_guard.py) that stops     *)
(* them.  At each point K the scan probes with short runs, masks the       *)
(* channels that came out hot, holds at an earlier point the chips that    *)
(* would need too many masks, and takes the long run once a probe is       *)
(* clean.  The guard stops a run that floods and writes which run it was   *)
(* only after it has decoded what it stopped.                              *)
(*                                                                         *)
(* Thresholds are offsets K from the base configuration, shifted to be     *)
(* above NoK; masks are those the scan adds.  Minutes are counted in units *)
(* of the ten the code asks for before it takes up a point again.          *)
(***************************************************************************)
EXTENDS Integers, Sequences, FiniteSets, FiniteSetsExt, SequencesExt

CONSTANTS
    CHIPS, Channels,
    Ks,             \* --points, in their order
    max_masks_per_chip, max_iter, minutes, strikes,
    MaxPasses       \* bound: starts of the scan on one state file

NoK == -1
Points == 1 .. Len(Ks)

ASSUME AdaptiveScanAssumption ==
    /\ Ks \in Seq(Nat)
    /\ max_masks_per_chip \in Nat /\ max_iter \in Nat \ {0}
    /\ minutes \in Nat \ {0} /\ strikes \in Nat \ {0} /\ MaxPasses \in Nat

VARIABLES
    st,       \* the state file: found, hold, and the points that are done
    at,       \* the visit: step of the scan, place in Ks, fallback, probe,
              \* its configuration, minutes left
    run,      \* the run there is: on, its setting, flooding, stopped by the guard
    guard,    \* the rate guard: its step, strikes, and whether the run it judged
              \* is still the last one
    trip,     \* rate_guard_tripped.json names the last run
    passes,
    past,     \* history: what each chip had in the long runs, K by K
    rehearsed \* history: the points a dry run marked as done

scan_vars == <<st, at, run, guard, trip, passes, past, rehearsed>>

None == [c \in CHIPS |-> {}]
Idle == [pc |-> "off", i |-> 0, prev |-> NoK, it |-> 0, cfg |-> <<>>, left |-> 0,
         cut |-> FALSE]

ScanInit ==
    /\ st = [found |-> [k \in Range(Ks) |-> None],
             hold |-> [c \in CHIPS |-> [k |-> NoK, masks |-> {}]], done |-> {}]
    /\ at = Idle /\ passes = 0
    /\ run = [on |-> FALSE, cfg |-> <<>>, flood |-> FALSE, stopped |-> FALSE]
    /\ guard = [pc |-> "watch", strikes |-> 0, same |-> TRUE] /\ trip = FALSE
    /\ past = [c \in CHIPS |-> {}] /\ rehearsed = {}

K == Ks[at.i]

----------------------------------------------------------------------------
(* The setting of a point.                                                 *)

\* hold applies below its K only.
Held(s, c, k) == k < s.hold[c].k

MasksAt(s, k) == [c \in CHIPS |-> IF Held(s, c, k) THEN s.hold[c].masks
                                                   ELSE s.found[k][c]]

SdtAt(s, k) == [c \in CHIPS |-> IF Held(s, c, k) THEN s.hold[c].k ELSE k]

Setting(s, k) == [sdt |-> SdtAt(s, k), masks |-> MasksAt(s, k)]

Hold(s, c, prev) == [k |-> prev, masks |-> MasksAt(s, prev)[c]]

\* New masks are recorded at K.  A chip over the cap is held at the fallback if
\* there is one; a chip already held keeps what it has.
ApplyNewMasks(s, k, new, prev) ==
    LET free == {c \in CHIPS : new[c] # {} /\ ~Held(s, c, k)}
        over == {c \in free : /\ Cardinality(s.found[k][c] \cup new[c]) > max_masks_per_chip
                              /\ prev # NoK}
    IN  [found |-> [s.found EXCEPT ![k] = [c \in CHIPS |-> IF c \in free \ over
                                                           THEN @[c] \cup new[c] ELSE @[c]]],
         hold |-> [c \in CHIPS |-> IF c \in over THEN Hold(s, c, prev) ELSE s.hold[c]],
         done |-> s.done]

\* The chips a loud probe without a hot channel can be blamed on: the code takes
\* the loudest two.
HoldLoud(s, loud, prev) ==
    [s EXCEPT !.hold = [c \in CHIPS |-> IF c \in loud THEN Hold(s, c, prev) ELSE @[c]]]

\* Mutant of Fallback: a point that was started will do.
FallbackStarted(s, k) ==
    LET above == {j \in Range(Ks) : j > k /\ j <= Ks[1]}
    IN  IF above = {} THEN NoK ELSE Min(above)

\* The last point above k that is done.
Fallback(s, k) ==
    LET above == {j \in s.done : j > k} IN IF above = {} THEN NoK ELSE Min(above)

----------------------------------------------------------------------------
(* Runs, as config_scan.py takes one: it starts none while the DAQ runs.   *)

StartsRun(cfg) ==
    /\ ~run.on
    /\ run' = [on |-> TRUE, cfg |-> cfg, flood |-> FALSE, stopped |-> FALSE]
    /\ trip' = FALSE /\ guard' = [guard EXCEPT !.same = FALSE]

\* No run: the DAQ is in use, or config_scan gave up.
NoRun == UNCHANGED <<run, trip, guard>>

Floods == /\ run.on /\ ~run.stopped
          /\ run' = [run EXCEPT !.flood = ~@]
          /\ UNCHANGED <<st, at, guard, trip, passes, past, rehearsed>>

RunEnds == /\ run.on /\ run' = [run EXCEPT !.on = FALSE]
           /\ UNCHANGED <<st, at, guard, trip, passes, past, rehearsed>>

----------------------------------------------------------------------------
(* The rate guard.                                                         *)

\* A poll: the strikes are in a row, and of one run.
GuardPolls ==
    /\ guard.pc = "watch" /\ run.on
    /\ guard' = [guard EXCEPT !.same = TRUE, !.strikes =
                    IF run.flood THEN (IF guard.same THEN @ ELSE 0) + 1 ELSE 0]
    /\ guard.strikes < strikes \/ ~guard.same
    /\ UNCHANGED <<st, at, run, trip, passes, past, rehearsed>>

GuardSeesNoRun ==
    /\ guard.pc = "watch" /\ ~run.on /\ guard.strikes > 0
    /\ guard' = [guard EXCEPT !.strikes = 0]
    /\ UNCHANGED <<st, at, run, trip, passes, past, rehearsed>>

\* At the last strike it asks for the stop, which may fail, and decodes.
GuardStops ==
    /\ guard.pc = "watch" /\ guard.strikes = strikes /\ run.on /\ guard.same
    /\ \/ run' = [run EXCEPT !.stopped = TRUE]
       \/ UNCHANGED run
    /\ guard' = [guard EXCEPT !.pc = "decode", !.strikes = 0]
    /\ UNCHANGED <<st, at, trip, passes, past, rehearsed>>

\* The file names the run it judged; then a pause, whatever runs meanwhile.
GuardWrites ==
    /\ guard.pc = "decode"
    /\ trip' = guard.same
    /\ guard' = [guard EXCEPT !.pc = "pause"]
    /\ UNCHANGED <<st, at, run, passes, past, rehearsed>>

GuardResumes ==
    /\ guard.pc = "pause"
    /\ guard' = [guard EXCEPT !.pc = "watch"]
    /\ UNCHANGED <<st, at, run, trip, passes, past, rehearsed>>

----------------------------------------------------------------------------
(* The scan.                                                               *)

Launch ==
    /\ at.pc = "off" /\ passes < MaxPasses /\ passes' = passes + 1
    /\ at' = [Idle EXCEPT !.pc = "next", !.i = 1]
    /\ UNCHANGED <<st, run, guard, trip, past, rehearsed>>

\* A dry run takes its points, until it is stopped, without one run, and marks
\* them as done.
Rehearses ==
    /\ at.pc = "off" /\ passes < MaxPasses /\ passes' = passes + 1
    /\ \E n \in Points : LET ks == {Ks[i] : i \in 1 .. n}
                         IN  /\ st' = [st EXCEPT !.done = @ \cup ks]
                             /\ rehearsed' = rehearsed \cup ks
    /\ UNCHANGED <<at, run, guard, trip, past>>

\* Killed: the run goes on without it, the state file is as it was last saved.
Killed ==
    /\ at.pc # "off" /\ at' = Idle
    /\ UNCHANGED <<st, run, guard, trip, passes, past, rehearsed>>

\* The next point: its fallback, and its first probe to come.
TakesPoint ==
    /\ at.pc = "next" /\ at.i <= Len(Ks)
    /\ at' = [at EXCEPT !.pc = "probe", !.prev = Fallback(st, K), !.it = 1,
                        !.left = minutes, !.cut = FALSE]
    /\ UNCHANGED <<st, run, guard, trip, passes, past, rehearsed>>

\* The list is done, or the operator's STOP file is there.
ScanEnds ==
    /\ at.pc = "next" /\ at.i > 1
    /\ at' = Idle
    /\ UNCHANGED <<st, run, guard, trip, passes, past, rehearsed>>

\* The point is left, without the long run.
Leaves(a) == at' = [a EXCEPT !.pc = "next", !.i = @ + 1, !.cfg = <<>>]

Probe ==
    /\ at.pc = "probe" /\ at.it <= max_iter
    /\ LET cfg == Setting(st, K)
       IN  \/ /\ StartsRun(cfg) /\ at' = [at EXCEPT !.pc = "probing", !.cfg = cfg]
           \/ NoRun /\ Leaves(at)
    /\ UNCHANGED <<st, passes, past, rehearsed>>

NoCleanProbe ==
    /\ at.pc = "probe" /\ at.it > max_iter /\ Leaves(at)
    /\ UNCHANGED <<st, run, guard, trip, passes, past, rehearsed>>

\* What a decode shows: hot channels among those that are not masked, and the
\* volume.  A run the guard stopped has written ten times what a clean one may.
Hot == {new \in [CHIPS -> SUBSET Channels] :
            \A c \in CHIPS : new[c] \cap run.cfg.masks[c] = {}}
Volumes == IF run.stopped THEN {TRUE} ELSE BOOLEAN

\* Mutant of Clean: the guard's file is enough to tell a run that flooded.
CleanByTrip(new, loud) == new = None /\ ~trip

Clean(new, loud) == new = None /\ ~trip /\ ~loud

DecodeFails ==
    /\ at.pc = "probing" /\ ~run.on /\ Leaves(at)
    /\ UNCHANGED <<st, run, guard, trip, passes, past, rehearsed>>

ProbeClean ==
    /\ at.pc = "probing" /\ ~run.on
    /\ \E loud \in Volumes : Clean(None, loud)
    /\ at' = [at EXCEPT !.pc = "long", !.cut = run.stopped]
    /\ UNCHANGED <<st, run, guard, trip, passes, past, rehearsed>>

\* Loud, and no channel to blame: two chips are held, if there is where to.
ProbeLoud ==
    /\ at.pc = "probing" /\ ~run.on
    /\ \E loud \in Volumes : ~Clean(None, loud)
    /\ LET free == {c \in CHIPS : ~Held(st, c, K)}
       IN  IF at.prev = NoK \/ free = {}
           THEN Leaves(at) /\ UNCHANGED st
           ELSE /\ \E two \in SUBSET free :
                     /\ Cardinality(two) = Min({2, Cardinality(free)})
                     /\ st' = HoldLoud(st, two, at.prev)
                /\ at' = [at EXCEPT !.pc = "probe", !.it = @ + 1]
    /\ UNCHANGED <<run, guard, trip, passes, past, rehearsed>>

ProbeHot ==
    /\ at.pc = "probing" /\ ~run.on
    /\ \E new \in Hot \ {None} : st' = ApplyNewMasks(st, K, new, at.prev)
    /\ at' = [at EXCEPT !.pc = "probe", !.it = @ + 1]
    /\ UNCHANGED <<run, guard, trip, passes, past, rehearsed>>

\* The long run, and what is left of it after a stop.
LongRun ==
    /\ at.pc = "long" /\ at.left > 0
    /\ \/ /\ StartsRun(at.cfg) /\ at' = [at EXCEPT !.pc = "measuring"]
          /\ past' = [c \in CHIPS |-> past[c] \cup
                        {[k |-> at.cfg.sdt[c], masks |-> at.cfg.masks[c]]}]
       \/ NoRun /\ Leaves(at) /\ UNCHANGED past
    /\ UNCHANGED <<st, passes, rehearsed>>

Done == st' = [st EXCEPT !.done = @ \cup {K}] /\ Leaves(at)

\* No word of the guard, nothing to decode, or no channel to mask: the point
\* counts as done.
LongDone ==
    /\ at.pc = "measuring" /\ ~run.on /\ Done
    /\ UNCHANGED <<run, guard, trip, passes, past, rehearsed>>

\* The guard stopped it: more masks, and the rest of the time.
LongCut ==
    /\ at.pc = "measuring" /\ ~run.on /\ trip
    /\ \E new \in Hot \ {None}, left \in 0 .. at.left - 1 :
         LET s == ApplyNewMasks(st, K, new, at.prev)
         IN  IF left > 0
             THEN st' = s /\ at' = [at EXCEPT !.pc = "long", !.left = left,
                                              !.cfg = Setting(s, K)]
             ELSE st' = [s EXCEPT !.done = @ \cup {K}] /\ Leaves(at)
    /\ UNCHANGED <<run, guard, trip, passes, past, rehearsed>>

ScanNext ==
    \/ Floods \/ RunEnds
    \/ GuardPolls \/ GuardSeesNoRun \/ GuardStops \/ GuardWrites \/ GuardResumes
    \/ Launch \/ Rehearses \/ Killed \/ TakesPoint \/ ScanEnds
    \/ Probe \/ NoCleanProbe \/ DecodeFails \/ ProbeClean \/ ProbeLoud \/ ProbeHot
    \/ LongRun \/ LongDone \/ LongCut

ScanSpec == ScanInit /\ [][ScanNext]_scan_vars

----------------------------------------------------------------------------
(* Properties.                                                             *)

\* A long run is never taken on the word of a probe the rate guard stopped, even
\* though the guard says so only after its decode, which may be after the scan
\* has read the file: the volume is looked at as well.
CleanWasNotStopped == at.pc \in {"long", "measuring"} => ~at.cut

\* A held chip sits where it has been measured: some long run had it at that
\* offset, with no mask it does not have now.  Unless a dry run under the same
\* tag had marked the point.
HeldAtMeasured ==
    \A c \in CHIPS : st.hold[c].k \notin {NoK} \cup rehearsed =>
        \E p \in past[c] : p.k = st.hold[c].k /\ p.masks \subseteq st.hold[c].masks

\* adaptive_thr_scan.py:452-453, "held at its last clean K", which a point that
\* was only rehearsed is not.
HeldAtClean ==
    \A c \in CHIPS : st.hold[c].k # NoK =>
        \E p \in past[c] : p.k = st.hold[c].k /\ p.masks \subseteq st.hold[c].masks

\* What the code does not do: a run the rate guard stopped is not taken up again
\* with the setting it had
\* ("the masks are updated from the stopped run and the point is resumed").
NotTheSameAgain ==
    [][at.pc = "measuring" /\ at'.pc = "long" => at'.cfg # at.cfg]_scan_vars
=============================================================================
