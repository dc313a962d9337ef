---------------------------- MODULE ServicesProofs ----------------------------
(***************************************************************************)
(* What TLAPS proves of the services that run beside the data taking, none *)
(* of which shares a variable with another:                                *)
(*   Watchers   a store is of the whole file, a file costs a bounded       *)
(*              number of decodes, one store of a sub-run is plotted;      *)
(*   Alerts     what lasts is told, and told again;                        *)
(*   Settings   the settings in force are safe ones, whoever saves what    *)
(*              and whenever;                                              *)
(*   BeamFeed   an old state of the beam is not shown as on, and no cycle  *)
(*              of the window is missing once a poll has come through.     *)
(* For each, first the inductive invariant, in named parts; then one lemma *)
(* per action or group of actions, with one step per part it can disturb.  *)
(***************************************************************************)
EXTENDS Watchers, Alerts, Settings, BeamFeed, TLAPS, FiniteSetTheorems, WellFoundedInduction

-----------------------------------------------------------------------------
(* Watchers.                                                               *)

FileType ==
    /\ size \in [C -> {-1, 0, 1}] /\ late \subseteq C /\ writer \in {"on", "off", "dead"}
    /\ \A c \in late : size[c] >= 0

\* Captures are numbered in the order their files are opened in.
OrderInv == \E n \in C : \A c \in C : size[c] >= 0 <=> c <= n

ProcType ==
    /\ fails \in [C -> 0..max_attempts] /\ mem_degraded \subseteq C
    /\ launches \in [C -> Nat] /\ early \subseteq C /\ restarts \in Nat

JobType ==
    /\ job = [file |-> job.file, whole |-> job.whole, degraded |-> job.degraded,
              state |-> job.state]
    /\ job.state \in {"none", "running", "renamed"} /\ job.file \in 0..Files
    /\ job.state = "none" <=> job.file = 0
    /\ job.whole \in BOOLEAN /\ job.degraded \in BOOLEAN

StoreType == store \in [C -> {"none", "whole", "short"}]

\* A file that nobody writes to any more.
Closed(c) == c \notin late /\ (c < Newest \/ writer # "on")

\* What was taken, and not early, is closed, and was read as it is.
WholeInv ==
    \A c \in C \ early :
       /\ HasStore(c) => Closed(c) /\ store[c] = "whole"
       /\ job.file = c => Closed(c) /\ job.whole

\* The file that is being decoded still has an attempt, and no store.
JobInv ==
    /\ job.state = "running" =>
          /\ ~HasStore(job.file) /\ fails[job.file] < max_attempts
          /\ ~job.degraded => job.file \notin mem_degraded
    /\ job.state = "renamed" => HasStore(job.file)

AsOne(b) == IF b THEN 1 ELSE 0

\* Every decode of a file without a store cost an attempt, or was killed for
\* memory, is on, or was interrupted by a restart, which forgets one kill too.
LaunchInv ==
    \A c \in C :
       launches[c] <= 2 * restarts + (IF HasStore(c) THEN max_attempts + 1
                                      ELSE fails[c] + AsOne(c \in mem_degraded) + AsOne(job.file = c))

\* Plots are made as long as there are none.
PlotInv ==
    /\ plotted = {} \/ \E c \in C : plotted = {c}
    /\ qjob \in 0..Files /\ (qjob # 0 => plotted = {})

IInv == /\ FileType /\ OrderInv /\ ProcType /\ JobType /\ StoreType
        /\ WholeInv /\ JobInv /\ LaunchInv /\ PlotInv

-----------------------------------------------------------------------------

(* A set of naturals has a least element.                                  *)
LEMMA LeastNat ==
    ASSUME NEW T, T \subseteq Nat, T # {}
    PROVE  \E x \in T : \A y \in T : x <= y
<1> DEFINE R == OpToRel(<, Nat)
<1>1. IsWellFoundedOn(R, Nat)
  BY NatLessThanWellFounded
<1>2. \A x, y \in Nat : <<x, y>> \in R <=> x < y
  BY DEF OpToRel
<1> HIDE DEF R
<1>3. PICK x \in T : \A y \in T : ~(<<y, x>> \in R)
  BY <1>1, WFMin
<1>4. \A y \in T : ~(y < x)
  BY <1>2, <1>3
<1>5. x \in Nat /\ \A y \in T : y \in Nat
  OBVIOUS
<1> QED BY <1>4, <1>5

(* A set of naturals below a bound has a greatest one.                     *)
LEMMA MaxExists ==
    ASSUME NEW n \in Nat, NEW S, S \subseteq 0..n, S # {}
    PROVE  Max(S) \in S /\ \A y \in S : Max(S) >= y
<1> DEFINE T == {n - x : x \in S}
<1>0. \A x \in S : x \in 0..n /\ n - x \in Nat
  OBVIOUS
<1>1. T \subseteq Nat /\ T # {}
  BY <1>0, Zenon
<1>2. PICK m \in T : \A y \in T : m <= y
  BY <1>1, LeastNat
<1>3. PICK x \in S : m = n - x
  BY <1>2
<1>4. \A y \in S : x >= y
  <2> TAKE y \in S
  <2>1. m <= n - y
    BY <1>2
  <2> QED BY <1>0, <1>3, <2>1
<1> QED BY <1>4, Zenon DEF Max

(* The newest file is the last one opened.                                 *)
LEMMA NewestIs ==
    ASSUME NEW sz \in [C -> {-1, 0, 1}], NEW n \in C, \A c \in C : sz[c] >= 0 <=> c <= n
    PROVE  Max({c \in C : sz[c] >= 0} \cup {0}) = n
<1> DEFINE S == {c \in C : sz[c] >= 0} \cup {0}
<1> USE WatchersAssumption DEF C
<1>1. n \in S /\ S \subseteq 0..n
  OBVIOUS
<1>2. Max(S) \in S /\ \A y \in S : Max(S) >= y
  BY <1>1, MaxExists
<1>3. Max(S) = n
  <2>1. \A y \in S : y <= n
    OBVIOUS
  <2>2. Max(S) \in 0..n
    BY <1>1, <1>2
  <2> QED BY <1>1, <1>2, <2>1, <2>2
<1> QED
  BY <1>3

(* The files that there are, are those up to the newest.                   *)
LEMMA NewestFacts ==
    ASSUME FileType, OrderInv
    PROVE  Newest \in C /\ \A c \in C : size[c] >= 0 <=> c <= Newest
BY NewestIs DEF FileType, OrderInv, Newest

(* A pass launches nothing, or one file that was seen twice at its full size. *)
LEMMA ScanFacts ==
    ASSUME FileType, OrderInv, ProcType, Scan
    PROVE  /\ UNCHANGED <<files, fails, mem_degraded, store, qa, count>>
           /\ job = NoJob
           /\ \/ UNCHANGED <<job, launches, early>>
              \/ \E c \in C :
                    /\ ~HasStore(c) /\ fails[c] < max_attempts
                    /\ c \notin late /\ c <= Newest
                    /\ job' = [file |-> c, whole |-> TRUE, degraded |-> c \in mem_degraded,
                               state |-> "running"]
                    /\ launches' = [launches EXCEPT ![c] = @ + 1]
                    /\ early' = IF writer = "on" /\ c = Newest THEN early \cup {c} ELSE early
<1> DEFINE c == Max(Todo \cup {0})
<1>1. c \in Todo \cup {0}
  BY WatchersAssumption, MaxExists DEF Todo, C
<1>2. \A d \in Todo : d \in C /\ ~HasStore(d) /\ fails[d] < max_attempts /\ d \in looked /\ size[d] > 0
  BY DEF Todo, Final, Eligible
<1>3. CASE skipped \/ quiet = 2
  BY <1>3 DEF Scan, hist
<1>4. CASE ~(skipped \/ quiet = 2)
  <2>1. CASE c = 0
    BY <1>4, <2>1 DEF Scan, hist
  <2>2. CASE c # 0
    <3>1. /\ c \in C /\ ~HasStore(c) /\ fails[c] < max_attempts /\ c \in looked /\ size[c] > 0
      BY <1>1, <1>2, <2>2
    <3>2. c \notin late /\ c <= Newest
      BY <3>1, NewestFacts DEF Scan, FileType
    <3> HIDE DEF c
    <3>3. /\ job' = [file |-> c, whole |-> TRUE, degraded |-> c \in mem_degraded,
                     state |-> "running"]
          /\ launches' = [launches EXCEPT ![c] = @ + 1]
          /\ early' = IF writer = "on" /\ c = Newest THEN early \cup {c} ELSE early
      BY <1>4, <2>2 DEF Scan, c
    <3> QED BY <3>1, <3>2, <3>3 DEF Scan
  <2> QED BY <2>1, <2>2
<1> QED
  BY <1>3, <1>4

-----------------------------------------------------------------------------

(* The initial states. *)
LEMMA InitIInv ==
    ASSUME Init
    PROVE  IInv
<1> USE WatchersAssumption DEF Init, NoJob, Zero, C
<1>1. FileType
  BY DEF FileType
<1>2. OrderInv
  BY DEF OrderInv
<1>3. ProcType
  BY DEF ProcType
<1>4. JobType
  BY DEF JobType
<1>5. StoreType
  BY DEF StoreType
<1>6. WholeInv
  BY DEF WholeInv, Closed, HasStore
<1>7. JobInv
  BY DEF JobInv, HasStore
<1>8. LaunchInv
  BY DEF LaunchInv, HasStore, AsOne
<1>9. PlotInv
  BY DEF PlotInv
<1> QED
  BY <1>1, <1>2, <1>3, <1>4, <1>5, <1>6, <1>7, <1>8, <1>9 DEF IInv

(* Grows keeps the invariant. *)
LEMMA GrowsKeeps ==
    ASSUME IInv, NEW c \in C, Grows(c)
    PROVE  IInv'
<1> USE DEF IInv, Grows, files, proc, qa, count, hist
<1>1. c \in C /\ size[c] >= 0 /\ ~Closed(c)
  BY NewestFacts, WatchersAssumption DEF FileType, Closed, C
<1>2. size' \in [C -> {-1, 0, 1}] /\ \A d \in C : size'[d] >= 0 <=> size[d] >= 0
  BY <1>1 DEF FileType
<1>3. Newest' = Newest
  BY <1>2, NewestFacts, NewestIs DEF Newest
<1>4. ProcType' /\ PlotInv'
  BY <1>1, <1>2, <1>3 DEF ProcType, PlotInv
<1>5. FileType'
  BY <1>1, <1>2, <1>3 DEF FileType
<1>6. OrderInv'
  BY <1>2 DEF OrderInv
<1>7. JobType'
  BY <1>1, <1>2, <1>3 DEF JobType
<1>8. StoreType'
  BY <1>1, <1>2, <1>3 DEF StoreType
<1>9. WholeInv'
  BY <1>1, <1>2, <1>3, WatchersAssumption DEF WholeInv, Closed, HasStore, C,
     FileType, ProcType, JobType, StoreType
<1>10. JobInv'
  BY <1>1, <1>2, <1>3 DEF JobInv, HasStore
<1>11. LaunchInv'
  BY <1>1, <1>2, <1>3 DEF LaunchInv, HasStore, AsOne
<1> QED
  BY <1>4, <1>5, <1>6, <1>7, <1>8, <1>9, <1>10, <1>11

(* Rotates keeps the invariant. *)
LEMMA RotatesKeeps ==
    ASSUME IInv, Rotates
    PROVE  IInv'
<1> USE DEF IInv, Rotates, files, proc, qa, count, hist
<1>1. /\ Newest \in 1..Files - 1 /\ size' \in [C -> {-1, 0, 1}]
      /\ \A d \in C : size'[d] >= 0 <=> d <= Newest + 1
  BY NewestFacts, WatchersAssumption DEF FileType, C
<1>2. Newest + 1 \in C /\ Newest \in C
  BY <1>1, WatchersAssumption DEF C
<1>3. Newest' = Newest + 1
  BY <1>1, <1>2, NewestIs DEF Newest
<1>4. ProcType' /\ JobType' /\ StoreType' /\ JobInv' /\ LaunchInv' /\ PlotInv'
  BY <1>1, <1>2, <1>3 DEF ProcType, JobType, StoreType, JobInv, HasStore,
     LaunchInv, AsOne, PlotInv
<1>5. FileType'
  BY <1>1, <1>2, <1>3 DEF FileType
<1>6. OrderInv'
  BY <1>1, <1>2 DEF OrderInv
<1>7. WholeInv'
  BY <1>1, <1>2, <1>3 DEF WholeInv, Closed, HasStore
<1> QED
  BY <1>4, <1>5, <1>6, <1>7

(* SubRunEnds keeps the invariant. *)
LEMMA SubRunEndsKeeps ==
    ASSUME IInv, SubRunEnds
    PROVE  IInv'
<1> USE DEF IInv, SubRunEnds, files, proc, qa, count, hist
<1>1. Newest' = Newest
  BY DEF Newest
<1>2. OrderInv' /\ ProcType' /\ JobType' /\ StoreType' /\ JobInv' /\ LaunchInv'
      /\ PlotInv'
  BY <1>1 DEF OrderInv, ProcType, JobType, StoreType, JobInv, HasStore,
     LaunchInv, AsOne, PlotInv
<1>3. FileType'
  BY <1>1 DEF FileType
<1>4. WholeInv'
  BY <1>1 DEF WholeInv, Closed, HasStore
<1> QED
  BY <1>2, <1>3, <1>4

(* Quiet keeps the invariant. *)
LEMMA QuietKeeps ==
    ASSUME IInv, Quiet
    PROVE  IInv'
<1> USE DEF IInv, Quiet, files, proc, qa, count, hist
<1>1. Newest' = Newest
  BY DEF Newest
<1>2. FileType' /\ OrderInv' /\ ProcType' /\ JobType' /\ StoreType' /\
      WholeInv' /\ JobInv' /\ LaunchInv' /\ PlotInv'
  BY <1>1 DEF FileType, OrderInv, ProcType, JobType, StoreType, WholeInv,
     Closed, HasStore, JobInv, LaunchInv, AsOne, PlotInv
<1> QED
  BY <1>2

(* Scan keeps the invariant. *)
LEMMA ScanKeeps ==
    ASSUME IInv, Scan
    PROVE  IInv'
<1> USE DEF IInv, files, qa, count
<1>1. /\ UNCHANGED <<files, fails, mem_degraded, store, qa, count>> /\ job = NoJob
      /\ Newest' = Newest
  BY ScanFacts DEF Newest
<1>2. FileType' /\ OrderInv' /\ StoreType' /\ PlotInv'
  BY <1>1 DEF FileType, OrderInv, StoreType, PlotInv
<1>3. CASE UNCHANGED <<job, launches, early>>
  BY <1>1, <1>2, <1>3 DEF ProcType, JobType, WholeInv, Closed, HasStore,
     JobInv, LaunchInv
<1>4. CASE \E c \in C :
             /\ ~HasStore(c) /\ fails[c] < max_attempts
             /\ c \notin late /\ c <= Newest
             /\ job' = [file |-> c, whole |-> TRUE, degraded |-> c \in mem_degraded,
                        state |-> "running"]
             /\ launches' = [launches EXCEPT ![c] = @ + 1]
             /\ early' = IF writer = "on" /\ c = Newest THEN early \cup {c} ELSE early
  <2>1. PICK c \in C :
           /\ ~HasStore(c) /\ fails[c] < max_attempts
           /\ c \notin late /\ c <= Newest
           /\ job' = [file |-> c, whole |-> TRUE, degraded |-> c \in mem_degraded,
                      state |-> "running"]
           /\ launches' = [launches EXCEPT ![c] = @ + 1]
           /\ early' = IF writer = "on" /\ c = Newest THEN early \cup {c} ELSE early
    BY <1>4
  <2>2. c \in 1..Files /\ c # 0
    BY WatchersAssumption DEF C
  <2>3. /\ job'.file = c /\ job'.whole = TRUE /\ job'.degraded = (c \in mem_degraded)
        /\ job'.state = "running"
    BY <2>1
  <2>4. ProcType'
    BY <1>1, <2>1 DEF ProcType
  <2>5. JobType'
    BY <2>1, <2>2 DEF JobType
  <2>6. c \in C \ early' => Closed(c)'
    BY <1>1, <2>1, NewestFacts, WatchersAssumption DEF Closed, C
  <2>7. WholeInv'
    BY <1>1, <2>1, <2>3, <2>6 DEF WholeInv, Closed, HasStore
  <2>8. JobInv'
    BY <1>1, <2>1, <2>3 DEF JobInv, HasStore
  <2>9. ASSUME NEW d \in C
        PROVE  launches'[d] <= 2 * restarts + (IF HasStore(d) THEN max_attempts + 1
                  ELSE fails[d] + AsOne(d \in mem_degraded) + AsOne(job'.file = d))
    <3>1. launches[d] <= 2 * restarts + (IF HasStore(d) THEN max_attempts + 1
                 ELSE fails[d] + AsOne(d \in mem_degraded) + AsOne(job.file = d))
      BY DEF LaunchInv
    <3>2. /\ launches[d] \in Nat /\ fails[d] \in Nat /\ restarts \in Nat /\ max_attempts \in Nat
          /\ launches'[d] = IF d = c THEN launches[d] + 1 ELSE launches[d]
      BY <2>1, WatchersAssumption DEF ProcType
    <3>3. AsOne(job.file = d) = 0 /\ AsOne(job'.file = d) = (IF d = c THEN 1 ELSE 0)
      BY <1>1, <2>3, WatchersAssumption DEF AsOne, NoJob, C
    <3>4. AsOne(d \in mem_degraded) \in {0, 1}
      BY DEF AsOne
    <3> QED BY <2>1, <3>1, <3>2, <3>3, <3>4
  <2>10. LaunchInv'
    BY <1>1, <2>9 DEF LaunchInv, HasStore
  <2> QED BY <1>2, <2>4, <2>5, <2>7, <2>8, <2>10
<1> QED
  BY <1>3, <1>4, ScanFacts

(* StoreAppears keeps the invariant. *)
LEMMA StoreAppearsKeeps ==
    ASSUME IInv, StoreAppears
    PROVE  IInv'
<1> USE DEF IInv, StoreAppears, files, proc, qa, count, hist
<1>1. Newest' = Newest
  BY DEF Newest
<1>2. FileType' /\ OrderInv' /\ ProcType' /\ PlotInv'
  BY <1>1 DEF FileType, OrderInv, ProcType, PlotInv
<1>3. JobType'
  BY <1>1 DEF JobType
<1>4. StoreType'
  BY <1>1 DEF StoreType
<1>5. WholeInv'
  BY <1>1 DEF WholeInv, Closed, HasStore
<1>6. JobInv'
  BY <1>1, WatchersAssumption DEF JobInv, HasStore, C, JobType, StoreType,
     ProcType
<1>7. LaunchInv'
  BY <1>1, WatchersAssumption DEF LaunchInv, HasStore, AsOne, JobType,
     StoreType, ProcType, JobInv, C
<1> QED
  BY <1>2, <1>3, <1>4, <1>5, <1>6, <1>7

(* DecodeDone keeps the invariant. *)
LEMMA DecodeDoneKeeps ==
    ASSUME IInv, DecodeDone
    PROVE  IInv'
<1> USE DEF IInv, DecodeDone, NoJob, files, proc, qa, count, hist
<1>1. Newest' = Newest
  BY DEF Newest
<1>2. FileType' /\ OrderInv' /\ StoreType' /\ PlotInv'
  BY <1>1 DEF FileType, OrderInv, StoreType, PlotInv
<1>3. ProcType'
  BY <1>1, WatchersAssumption DEF ProcType, C, JobType
<1>4. JobType'
  BY <1>1, WatchersAssumption DEF JobType, C
<1>5. WholeInv'
  BY <1>1 DEF WholeInv, Closed, HasStore, C
<1>6. JobInv'
  BY <1>1 DEF JobInv, HasStore
<1>7. LaunchInv'
  BY <1>1 DEF LaunchInv, HasStore, AsOne, JobInv, C
<1> QED
  BY <1>2, <1>3, <1>4, <1>5, <1>6, <1>7

(* Degrades keeps the invariant. *)
LEMMA DegradesKeeps ==
    ASSUME IInv, Degrades
    PROVE  IInv'
<1> USE DEF IInv, Degrades, NoJob, files, proc, qa, count, hist
<1>1. Newest' = Newest
  BY DEF Newest
<1>2. FileType' /\ OrderInv' /\ StoreType' /\ PlotInv'
  BY <1>1 DEF FileType, OrderInv, StoreType, PlotInv
<1>3. ProcType'
  BY <1>1, WatchersAssumption DEF ProcType, C, JobType
<1>4. JobType'
  BY <1>1, WatchersAssumption DEF JobType, C
<1>5. WholeInv'
  BY <1>1 DEF WholeInv, Closed, HasStore, C
<1>6. JobInv'
  BY <1>1 DEF JobInv, HasStore
<1>7. LaunchInv'
  BY <1>1, WatchersAssumption DEF LaunchInv, HasStore, AsOne, JobType,
     StoreType, ProcType, JobInv, C
<1> QED
  BY <1>2, <1>3, <1>4, <1>5, <1>6, <1>7

(* DecodeFails keeps the invariant. *)
LEMMA DecodeFailsKeeps ==
    ASSUME IInv, DecodeFails
    PROVE  IInv'
<1> USE DEF IInv, DecodeFails, NoJob, files, proc, qa, count, hist
<1>1. Newest' = Newest
  BY DEF Newest
<1>2. FileType' /\ OrderInv' /\ StoreType' /\ PlotInv'
  BY <1>1 DEF FileType, OrderInv, StoreType, PlotInv
<1>3. ProcType'
  BY <1>1, WatchersAssumption DEF ProcType, C, JobInv, JobType
<1>4. JobType'
  BY <1>1, WatchersAssumption DEF JobType, C
<1>5. WholeInv'
  BY <1>1 DEF WholeInv, Closed, HasStore, C
<1>6. JobInv'
  BY <1>1 DEF JobInv, HasStore
<1>7. LaunchInv'
  BY <1>1, WatchersAssumption DEF LaunchInv, HasStore, AsOne, JobType,
     StoreType, ProcType
<1> QED
  BY <1>2, <1>3, <1>4, <1>5, <1>6, <1>7

(* ProcessorRestarts keeps the invariant. *)
LEMMA ProcessorRestartsKeeps ==
    ASSUME IInv, ProcessorRestarts
    PROVE  IInv'
<1> USE DEF IInv, ProcessorRestarts, NoJob, files, proc, qa, count, hist
<1>1. Newest' = Newest
  BY DEF Newest
<1>2. FileType' /\ OrderInv' /\ StoreType' /\ PlotInv'
  BY <1>1 DEF FileType, OrderInv, StoreType, PlotInv
<1>3. ProcType'
  BY <1>1 DEF ProcType
<1>4. JobType'
  BY <1>1, WatchersAssumption DEF JobType, C
<1>5. WholeInv'
  BY <1>1 DEF WholeInv, Closed, HasStore, C
<1>6. JobInv'
  BY <1>1 DEF JobInv, HasStore
<1>7. LaunchInv'
  <2> SUFFICES ASSUME NEW c \in C
              PROVE  launches'[c] <= 2 * restarts' + (IF HasStore(c)' THEN max_attempts + 1
                        ELSE fails'[c] + AsOne((c \in mem_degraded)') + AsOne((job.file = c)'))
    BY DEF LaunchInv
  <2>1. /\ launches[c] \in Nat /\ fails[c] \in Nat /\ restarts \in Nat /\ max_attempts \in Nat
        /\ restarts' = restarts + 1
    BY WatchersAssumption DEF ProcType
  <2>2. UNCHANGED <<launches, fails, store>>
    OBVIOUS
  <2>3. launches[c] <= 2 * restarts + (IF HasStore(c) THEN max_attempts + 1
                                       ELSE fails[c] + AsOne(c \in mem_degraded) + AsOne(job.file = c))
    BY DEF LaunchInv
  <2>4. \A b \in BOOLEAN : AsOne(b) \in {0, 1}
    BY DEF AsOne
  <2>5. launches[c] <= 2 * restarts + (IF HasStore(c) THEN max_attempts + 1 ELSE fails[c] + 2)
    BY <2>1, <2>3 DEF AsOne
  <2>6. AsOne((c \in mem_degraded)') \in {0, 1} /\ AsOne((job.file = c)') \in {0, 1}
    BY DEF AsOne
  <2> QED BY <2>1, <2>2, <2>5, <2>6 DEF HasStore
<1> QED
  BY <1>2, <1>3, <1>4, <1>5, <1>6, <1>7

(* ProcessorReset keeps the invariant. *)
LEMMA ProcessorResetKeeps ==
    ASSUME IInv, ProcessorReset
    PROVE  IInv'
<1> USE DEF IInv, ProcessorReset, NoJob, Zero, files, proc, qa, count, hist
<1>1. Newest' = Newest
  BY DEF Newest
<1>2. FileType' /\ OrderInv' /\ JobType' /\ StoreType' /\ WholeInv' /\ PlotInv'
  BY <1>1 DEF FileType, OrderInv, JobType, StoreType, WholeInv, Closed,
     HasStore, PlotInv
<1>3. ProcType'
  BY <1>1, WatchersAssumption DEF ProcType, C, JobType
<1>4. JobInv'
  BY <1>1 DEF JobInv, HasStore
<1>5. LaunchInv'
  BY <1>1, WatchersAssumption DEF LaunchInv, HasStore, AsOne, JobType,
     StoreType, ProcType
<1> QED
  BY <1>2, <1>3, <1>4, <1>5

(* QaScan keeps the invariant. *)
LEMMA QaScanKeeps ==
    ASSUME IInv, QaScan
    PROVE  IInv'
<1> USE DEF IInv, QaScan, files, proc, qa, count, hist
<1>1. Newest' = Newest
  BY DEF Newest
<1>2. FileType' /\ OrderInv' /\ ProcType' /\ JobType' /\ StoreType' /\
      WholeInv' /\ JobInv' /\ LaunchInv'
  BY <1>1 DEF FileType, OrderInv, ProcType, JobType, StoreType, WholeInv,
     Closed, HasStore, JobInv, LaunchInv, AsOne
<1>3. PlotInv'
  <2>1. Pending # {} => Max(Pending) \in Pending
    BY WatchersAssumption, MaxExists DEF Pending, C
  <2>2. Pending # {} => Max(Pending) \in 0..Files
    BY <2>1, WatchersAssumption DEF Pending, C
  <2> QED BY <2>2, WatchersAssumption DEF PlotInv, PlottedAny
<1> QED
  BY <1>2, <1>3

(* QaEnds keeps the invariant. *)
LEMMA QaEndsKeeps ==
    ASSUME IInv, QaEnds
    PROVE  IInv'
<1> USE DEF IInv, QaEnds, Plots, files, proc, qa, count, hist
<1>1. Newest' = Newest
  BY DEF Newest
<1>2. FileType' /\ OrderInv' /\ ProcType' /\ JobType' /\ StoreType' /\
      WholeInv' /\ JobInv' /\ LaunchInv'
  BY <1>1 DEF FileType, OrderInv, ProcType, JobType, StoreType, WholeInv,
     Closed, HasStore, JobInv, LaunchInv, AsOne
<1>3. PlotInv'
  BY <1>1, WatchersAssumption DEF PlotInv, C
<1> QED
  BY <1>2, <1>3

(* QaRestarts keeps the invariant. *)
LEMMA QaRestartsKeeps ==
    ASSUME IInv, QaRestarts
    PROVE  IInv'
<1> USE DEF IInv, QaRestarts, Plots, files, proc, qa, count, hist
<1>1. Newest' = Newest
  BY DEF Newest
<1>2. FileType' /\ OrderInv' /\ JobType' /\ StoreType' /\ WholeInv' /\ JobInv'
  BY <1>1 DEF FileType, OrderInv, JobType, StoreType, WholeInv, Closed,
     HasStore, JobInv
<1>3. ProcType'
  BY <1>1 DEF ProcType
<1>4. LaunchInv'
  <2> SUFFICES ASSUME NEW c \in C
              PROVE  launches'[c] <= 2 * restarts' + (IF HasStore(c)' THEN max_attempts + 1
                        ELSE fails'[c] + AsOne((c \in mem_degraded)') + AsOne((job.file = c)'))
    BY DEF LaunchInv
  <2>1. /\ launches[c] \in Nat /\ fails[c] \in Nat /\ restarts \in Nat /\ max_attempts \in Nat
        /\ restarts' = restarts + 1
    BY WatchersAssumption DEF ProcType
  <2> QED BY <2>1 DEF LaunchInv, HasStore, AsOne
<1>5. PlotInv'
  BY <1>1, WatchersAssumption DEF PlotInv, C
<1> QED
  BY <1>2, <1>3, <1>4, <1>5

(* QaReset keeps the invariant. *)
LEMMA QaResetKeeps ==
    ASSUME IInv, QaReset
    PROVE  IInv'
<1> USE DEF IInv, QaReset, files, proc, qa, count, hist
<1>1. Newest' = Newest
  BY DEF Newest
<1>2. FileType' /\ OrderInv' /\ ProcType' /\ JobType' /\ StoreType' /\
      WholeInv' /\ JobInv' /\ LaunchInv' /\ PlotInv'
  BY <1>1 DEF FileType, OrderInv, ProcType, JobType, StoreType, WholeInv,
     Closed, HasStore, JobInv, LaunchInv, AsOne, PlotInv
<1> QED
  BY <1>2

(* So does every step, and one that changes nothing. *)
LEMMA NextKeeps ==
    ASSUME IInv, [Next]_vars
    PROVE  IInv'
<1>1. CASE Next
  BY <1>1, GrowsKeeps, RotatesKeeps, SubRunEndsKeeps, QuietKeeps, ScanKeeps,
     StoreAppearsKeeps, DecodeDoneKeeps, DegradesKeeps, DecodeFailsKeeps,
     ProcessorRestartsKeeps, ProcessorResetKeeps, QaScanKeeps, QaEndsKeeps,
     QaRestartsKeeps, QaResetKeeps DEF Next, JobEnds
<1>2. CASE UNCHANGED vars
  BY <1>2 DEF vars, files, proc, qa, count, hist, IInv, FileType, OrderInv,
     ProcType, JobType, StoreType, WholeInv, JobInv, LaunchInv, PlotInv,
     HasStore, AsOne, Closed, Newest
<1> QED
  BY <1>1, <1>2

-----------------------------------------------------------------------------

(* IInv holds in every reachable state, for all values of the constants.   *)
THEOREM WatchersInvariance == Spec => []IInv
<1>1. Init => IInv
  BY InitIInv
<1>2. IInv /\ [Next]_vars => IInv'
  BY NextKeeps
<1> QED BY <1>1, <1>2, PTL DEF Spec

(* The two looks of _finalized_pcapngs never take a file before its last byte *)
(* is written, but for one that is overdue under a live capture program.      *)
THEOREM StoresAreWhole == Spec => []WholeStore
<1>1. IInv => WholeStore
  BY DEF IInv, WholeInv, WholeStore
<1> QED BY <1>1, WatchersInvariance, PTL

(* A file costs max_attempts decodes, one more for a memory kill, and two for *)
(* each restart since (processor_state.json, mem_degraded).                   *)
THEOREM DecodesAreBounded == Spec => []AttemptsBounded
<1>1. IInv => AttemptsBounded
  <2> SUFFICES ASSUME IInv, NEW c \in C PROVE launches[c] <= max_attempts + 1 + 2 * restarts
    BY DEF AttemptsBounded
  <2> USE WatchersAssumption DEF IInv
  <2>1. /\ launches[c] \in Nat /\ fails[c] \in 0..max_attempts /\ restarts \in Nat
        /\ max_attempts \in Nat
    BY DEF ProcType
  <2>2. CASE HasStore(c)
    BY <2>1, <2>2 DEF LaunchInv
  <2>3. CASE ~HasStore(c) /\ job.file = c
    <3>1. fails[c] < max_attempts
      BY <2>3 DEF JobInv, JobType, C
    <3> QED BY <2>1, <2>3, <3>1 DEF LaunchInv, AsOne
  <2>4. CASE ~HasStore(c) /\ job.file # c
    BY <2>1, <2>4 DEF LaunchInv, AsOne
  <2> QED BY <2>2, <2>3, <2>4
<1> QED BY <1>1, WatchersInvariance, PTL

(* At most one store of a sub-run gets the full plots (plot_policy subrun).*)
THEOREM OneIsPlotted == Spec => []PlottedOnce
<1>1. IInv => PlottedOnce
  <2> SUFFICES ASSUME IInv PROVE Cardinality(plotted) <= 1
    BY DEF PlottedOnce
  <2>1. CASE plotted = {}
    BY <2>1, FS_EmptySet
  <2>2. CASE \E c \in C : plotted = {c}
    BY <2>2, FS_Singleton
  <2> QED BY <2>1, <2>2 DEF IInv, PlotInv
<1> QED BY <1>1, WatchersInvariance, PTL

-----------------------------------------------------------------------------
(* Alerts.                                                                 *)

MemoryType ==
    /\ memory = [alert_active |-> memory.alert_active, sent_at |-> memory.sent_at,
                 pending_since |-> memory.pending_since]
    /\ memory.alert_active \in BOOLEAN
    /\ memory.sent_at \in -1..resend_interval + 1 /\ told \in -1..resend_interval + 1
    /\ memory.pending_since \in Int

\* What the monitor believes it sent reached the person, then or later.
ToldInv == memory.sent_at # NoAge => told \in 0..memory.sent_at

TrackerType ==
    /\ tracker = [state |-> tracker.state, since |-> tracker.since, last_ok |-> tracker.last_ok,
                  pending |-> tracker.pending, target |-> tracker.target]
    /\ tracker.pending \in Seq(BOOLEAN) /\ Len(tracker.pending) <= DEBOUNCE_N

\* The samples since the last good one above the threshold are the last ones of
\* the window.
DarkInv ==
    /\ dark \in 0..Len(tracker.pending)
    /\ \A i \in 1..Len(tracker.pending) :
          i > Len(tracker.pending) - dark => tracker.pending[i] = FALSE

AlertInv == MemoryType /\ ToldInv /\ TrackerType /\ DarkInv /\ NotSilent

(* An age that is counted stays an age, in order with the older ones.      *)
LEMMA OlderIs ==
    ASSUME NEW cap \in Nat, NEW a \in -1..cap + 1
    PROVE  /\ Older(a, cap) \in -1..cap + 1
           /\ a = NoAge <=> Older(a, cap) = NoAge
           /\ \A b \in 0..a : Older(b, cap) \in 0..Older(a, cap)
  BY DEF Older, NoAge

(* Time: all ages grow alike.                                              *)
LEMMA AlertsTickKeeps ==
    ASSUME AlertInv, AlertsTick
    PROVE  AlertInv'
<1> USE AlertsAssumption DEF AlertInv
<1>1. /\ memory' = [alert_active |-> memory.alert_active,
                    sent_at |-> Older(memory.sent_at, resend_interval),
                    pending_since |-> Older(memory.pending_since, min_duration)]
      /\ told' = Older(told, resend_interval) /\ ~due' /\ dark' = dark
  BY DEF AlertsTick, MemoryType
<1>2. MemoryType'
  <2>1. Older(memory.pending_since, min_duration) \in Int
    BY DEF MemoryType, Older
  <2> QED BY <1>1, <2>1, OlderIs DEF MemoryType
<1>3. ToldInv'
  <2>1. /\ memory.sent_at \in -1..resend_interval + 1 /\ told \in -1..resend_interval + 1
        /\ memory'.sent_at = Older(memory.sent_at, resend_interval)
    BY <1>1 DEF MemoryType
  <2> QED BY <1>1, <2>1, OlderIs DEF ToldInv
<1>4. /\ tracker'.state = tracker.state /\ tracker'.pending = tracker.pending
      /\ TrackerType'
  BY DEF AlertsTick, TrackerType
<1>5. DarkInv'
  BY <1>1, <1>4 DEF DarkInv
<1>6. NotSilent'
  BY <1>1, <1>4 DEF NotSilent, Alerted, TrackerTells
<1> QED BY <1>2, <1>3, <1>4, <1>5, <1>6

(* A check: what it remembers as sent was delivered, and if an alert was due *)
(* and a channel works, the person was told within the resend interval.      *)
LEMMA ChecksKeeps ==
    ASSUME AlertInv, Checks
    PROVE  AlertInv'
<1> USE AlertsAssumption DEF AlertInv
<1>1. PICK answer \in [Channels -> Answers] : Check(answer)
  BY DEF Checks
<1>2. UNCHANGED <<tracker, dark>>
  BY DEF Checks, beam_vars
<1> DEFINE since == IF memory.pending_since = NoAge THEN 0 ELSE memory.pending_since
           long == since >= min_duration
           resend_due == memory.sent_at = NoAge \/ memory.sent_at > resend_interval
           sent == long /\ (~memory.alert_active \/ resend_due)
           reached == \E c \in Channels : answer[c] = "sent"
           at_least == [pending_since |-> since, alert_active |-> long \/ memory.alert_active,
                        sent_at |-> SentAt(sent, Broadcast(answer))]
<1>3. Broadcast(answer) <=> reached
  BY DEF Broadcast, Delivered
<1>4. CASE IsAlert
  <2>1. /\ memory' = at_least /\ told' = (IF sent /\ reached THEN 0 ELSE told)
        /\ due' = (long /\ reached)
    BY <1>1, <1>4 DEF Check
  <2>2. SentAt(sent, Broadcast(answer)) = IF sent /\ reached THEN 0 ELSE memory.sent_at
    BY <1>3 DEF SentAt
  <2>3. since \in Int /\ long \in BOOLEAN /\ reached \in BOOLEAN
    BY DEF MemoryType
  <2> HIDE DEF since, long, reached
  <2>4. MemoryType'
    BY <2>1, <2>2, <2>3 DEF MemoryType
  <2>5. ToldInv'
    BY <2>1, <2>2, <2>3 DEF MemoryType, ToldInv, NoAge
  <2>6. Alerted'
    BY <2>1, <2>2, <2>3 DEF MemoryType, ToldInv, NoAge, Alerted
  <2> QED BY <1>2, <2>4, <2>5, <2>6 DEF TrackerType, DarkInv, NotSilent, TrackerTells
<1>5. CASE ~IsAlert
  <2>1. /\ memory' = [alert_active |-> FALSE, sent_at |-> memory.sent_at, pending_since |-> NoAge]
        /\ ~due' /\ told' = told
    BY <1>1, <1>5 DEF Check, MemoryType
  <2> QED BY <1>2, <2>1 DEF MemoryType, ToldInv, NoAge, TrackerType, DarkInv, NotSilent, Alerted,
          TrackerTells
<1> QED BY <1>4, <1>5

(* The window takes the sample, and forgets its oldest one.                *)
LEMMA WindowIs ==
    ASSUME NEW s \in Seq(BOOLEAN), Len(s) <= DEBOUNCE_N, NEW b \in BOOLEAN
    PROVE  LET t == LastN(Append(s, b))
           IN  /\ t \in Seq(BOOLEAN) /\ Len(t) \in 1..DEBOUNCE_N /\ t[Len(t)] = b
               /\ Len(t) = Len(s) + 1 \/ (Len(t) = Len(s) /\ Len(s) = DEBOUNCE_N)
               /\ \A i \in 1..Len(t) - 1 : t[i] = s[i + Len(s) + 1 - Len(t)]
<1> USE AlertsAssumption
<1> DEFINE u == Append(s, b)
<1>1. /\ u \in Seq(BOOLEAN) /\ Len(u) = Len(s) + 1 /\ u[Len(u)] = b
      /\ \A i \in 1..Len(s) : u[i] = s[i]
  OBVIOUS
<1> HIDE DEF u
<1>2. CASE Len(u) > DEBOUNCE_N
  <2>1. /\ Tail(u) \in Seq(BOOLEAN) /\ Len(Tail(u)) = Len(u) - 1 /\ Len(s) = DEBOUNCE_N
        /\ \A i \in 1..Len(u) - 1 : Tail(u)[i] = u[i + 1]
    BY <1>1, <1>2
  <2>2. LastN(u) = Tail(u)
    BY <1>2 DEF LastN
  <2>3. /\ Len(Tail(u)) = Len(s) /\ Len(s) \in 1..DEBOUNCE_N
        /\ Tail(u)[Len(s)] = b /\ \A i \in 1..Len(s) - 1 : Tail(u)[i] = s[i + 1]
    BY <1>1, <2>1
  <2>4. \A i \in 1..Len(s) - 1 : i + Len(s) + 1 - Len(s) = i + 1
    OBVIOUS
  <2> QED BY <1>1, <2>1, <2>2, <2>3, <2>4 DEF u
<1>3. CASE ~(Len(u) > DEBOUNCE_N)
  BY <1>1, <1>3 DEF LastN, u
<1> QED BY <1>2, <1>3

(* A poll: as many samples below the threshold as the window takes make it OFF. *)
LEMMA SampleKeeps ==
    ASSUME AlertInv, Sample
    PROVE  AlertInv'
<1> USE AlertsAssumption DEF AlertInv
<1>1. MemoryType' /\ ToldInv' /\ Alerted'
  BY DEF Sample, monitor_vars, MemoryType, ToldInv, NotSilent, Alerted
<1> DEFINE good == page \in {"above", "below"}
           pending == IF good THEN LastN(Append(tracker.pending, page = "above"))
                      ELSE tracker.pending
           t == [tracker EXCEPT !.pending = pending, !.last_ok = IF good THEN 0 ELSE @]
<1>2. /\ t = [state |-> tracker.state, since |-> tracker.since,
              last_ok |-> IF good THEN 0 ELSE tracker.last_ok, pending |-> pending,
              target |-> tracker.target]
  <2> DEFINE ok == IF good THEN 0 ELSE tracker.last_ok
  <2> HIDE DEF pending, ok
  <2>1. ASSUME NEW x, x = [tracker EXCEPT !.pending = pending, !.last_ok = ok]
        PROVE  x = [state |-> tracker.state, since |-> tracker.since, last_ok |-> ok,
                    pending |-> pending, target |-> tracker.target]
    BY <2>1 DEF TrackerType
  <2> QED BY <2>1 DEF ok
<1> HIDE DEF pending
<1>3. /\ dark' = CASE page = "below" -> IF dark < DEBOUNCE_N THEN dark + 1 ELSE dark
                   [] page = "above" -> 0
                   [] OTHER -> IF TooOld(t) THEN 0 ELSE dark
  BY DEF Sample, pending
<1> DEFINE new == IF pending[1] THEN "ON" ELSE "OFF"
<1> HIDE DEF new
<1>9. (CASE good /\ Agreed(pending) -> SetState(t, new)
         [] TooOld(t) -> SetState([t EXCEPT !.pending = <<>>], "UNKNOWN")
         [] OTHER -> tracker' = t /\ UNCHANGED persisted)
  BY DEF Sample, pending, new
<1> HIDE DEF t
<1>4. tracker.pending \in Seq(BOOLEAN) /\ Len(tracker.pending) <= DEBOUNCE_N
  BY DEF TrackerType
<1>5. pending \in Seq(BOOLEAN) /\ Len(pending) <= DEBOUNCE_N
  <2>1. CASE good
    <3>1. PICK b \in BOOLEAN : b = (page = "above")
      OBVIOUS
    <3>2. pending = LastN(Append(tracker.pending, b))
      BY <2>1, <3>1 DEF pending
    <3> QED BY <1>4, <3>2, WindowIs
  <2>2. CASE ~good
    BY <1>4, <2>2 DEF pending
  <2> QED BY <2>1, <2>2
<1>6. CASE good
  <2>1. ~TooOld(t)
    BY <1>2, <1>6 DEF TooOld, NoAge
  <2>2. /\ Len(pending) \in 1..DEBOUNCE_N /\ pending[Len(pending)] = (page = "above")
        /\ \/ Len(pending) = Len(tracker.pending) + 1
           \/ Len(pending) = Len(tracker.pending) /\ Len(tracker.pending) = DEBOUNCE_N
        /\ \A i \in 1..Len(pending) - 1 :
              pending[i] = tracker.pending[i + Len(tracker.pending) + 1 - Len(pending)]
    BY <1>4, <1>6, WindowIs DEF pending
  <2>3. /\ tracker'.pending = pending /\ TrackerType'
        /\ Agreed(pending) => tracker'.state = IF pending[1] THEN "ON" ELSE "OFF"
        /\ ~Agreed(pending) => tracker'.state = tracker.state
    <3>1. CASE Agreed(pending)
      <4>1. SetState(t, new)
        BY <1>9, <1>6, <2>1, <3>1, Zenon
      <4>2. tracker' = [state |-> new, since |-> tracker'.since, last_ok |-> tracker'.last_ok,
                        pending |-> pending, target |-> tracker'.target]
        <5>1. ASSUME NEW x, x = [t EXCEPT !.state = new, !.since = 0]
              PROVE  x = [state |-> new, since |-> x.since, last_ok |-> x.last_ok,
                          pending |-> pending, target |-> x.target]
          BY <1>2, <5>1
        <5>2. CASE new = t.state
          BY <1>2, <4>1, <5>2 DEF SetState
        <5>3. CASE new # t.state
          BY <4>1, <5>1, <5>3 DEF SetState
        <5> QED BY <5>2, <5>3
      <4>3. TrackerType' /\ tracker'.pending = pending /\ tracker'.state = new
        BY <1>5, <4>2 DEF TrackerType
      <4> QED BY <3>1, <4>3 DEF new
    <3>2. CASE ~Agreed(pending)
      <4>1. tracker' = t
        BY <1>9, <2>1, <3>2, Zenon
      <4> QED BY <1>2, <1>5, <3>2, <4>1 DEF TrackerType
    <3> QED BY <3>1, <3>2
  <2>4. /\ dark \in 0..Len(tracker.pending)
        /\ \A i \in 1..Len(tracker.pending) :
              i > Len(tracker.pending) - dark => tracker.pending[i] = FALSE
    BY DEF DarkInv
  <2>5. CASE page = "above"
    <3>1. dark' = 0
      BY <1>3, <2>5
    <3> QED BY <1>1, <2>2, <2>3, <3>1 DEF DarkInv, NotSilent, TrackerTells
  <2>6. CASE page = "below"
    <3>1. dark' = (IF dark < DEBOUNCE_N THEN dark + 1 ELSE dark) /\ ~pending[Len(pending)]
      BY <1>3, <2>2, <2>6
    <3>2. /\ dark' \in 0..Len(pending) /\ dark' <= dark + 1
          /\ \A i \in 1..Len(pending) : i > Len(pending) - dark' => pending[i] = FALSE
      <4>1. Len(tracker.pending) \in Nat /\ Len(pending) \in Nat /\ dark \in Nat /\ dark' \in Nat
        BY <1>4, <1>5, <2>4, <3>1
      <4>2. dark' \in 0..Len(pending) /\ dark' <= dark + 1
        BY <2>2, <2>4, <3>1, <4>1
      <4>3. ASSUME NEW i \in 1..Len(pending), i > Len(pending) - dark' PROVE pending[i] = FALSE
        <5>1. CASE i = Len(pending)
          BY <2>2, <2>6, <5>1
        <5>2. CASE i # Len(pending)
          <6> DEFINE j == i + Len(tracker.pending) + 1 - Len(pending)
          <6>1. j \in 1..Len(tracker.pending) /\ j > Len(tracker.pending) - dark
            BY <2>2, <4>1, <4>2, <4>3, <5>2
          <6>2. i \in 1..Len(pending) - 1
            BY <4>1, <5>2
          <6>3. pending[i] = tracker.pending[j]
            BY <2>2, <6>2
          <6> QED BY <2>4, <6>1, <6>3
        <5> QED BY <5>1, <5>2
      <4> QED BY <4>2, <4>3
    <3>3. DarkInv'
      BY <2>3, <3>2 DEF DarkInv
    <3>4. ASSUME dark' = DEBOUNCE_N PROVE tracker'.state = "OFF"
      <4>1. Len(pending) = DEBOUNCE_N /\ \A i \in 1..DEBOUNCE_N : pending[i] = FALSE
        BY <1>5, <2>2, <3>2, <3>4
      <4>2. pending[1] = FALSE
        BY <4>1
      <4>3. Agreed(pending)
        BY <4>1, <4>2 DEF Agreed
      <4>4. ~pending[1]
        BY <4>2
      <4> QED BY <2>3, <4>3, <4>4
    <3> QED BY <1>1, <2>3, <3>3, <3>4 DEF NotSilent, TrackerTells
  <2> QED BY <1>6, <2>5, <2>6
<1>7. CASE ~good
  <2>1. pending = tracker.pending
    BY <1>7 DEF pending
  <2>2. CASE TooOld(t)
    <3>1. dark' = 0
      BY <1>3, <1>7, <2>2
    <3>2. SetState([t EXCEPT !.pending = <<>>], "UNKNOWN")
      BY <1>9, <1>7, <2>2, Zenon
    <3>3. TrackerType' /\ tracker'.pending = <<>>
      <4> DEFINE r == [state |-> tracker.state, since |-> tracker.since, last_ok |-> t.last_ok,
                       pending |-> <<>>, target |-> tracker.target]
      <4>1. ASSUME NEW x, x = [t EXCEPT !.pending = <<>>] PROVE x = r
        BY <1>2, <4>1
      <4>2. SetState(r, "UNKNOWN")
        BY <3>2, <4>1
      <4>3. ASSUME NEW x, x = [r EXCEPT !.state = "UNKNOWN", !.since = 0]
            PROVE  x = [state |-> x.state, since |-> x.since, last_ok |-> x.last_ok,
                        pending |-> <<>>, target |-> x.target]
        BY <4>3
      <4>4. tracker' = r \/ tracker' = [r EXCEPT !.state = "UNKNOWN", !.since = 0]
        BY <4>2 DEF SetState
      <4>5. tracker' = [state |-> tracker'.state, since |-> tracker'.since,
                        last_ok |-> tracker'.last_ok, pending |-> <<>>,
                        target |-> tracker'.target]
        BY <4>3, <4>4
      <4>6. <<>> \in Seq(BOOLEAN) /\ Len(<<>>) = 0
        OBVIOUS
      <4>7. tracker'.pending = <<>>
        BY <4>5
      <4>8. TrackerType'
        BY <4>5, <4>6, <4>7 DEF TrackerType
      <4> QED BY <4>7, <4>8
    <3> QED BY <1>1, <3>1, <3>3 DEF DarkInv, NotSilent, TrackerTells
  <2>3. CASE ~TooOld(t)
    <3>1. dark' = dark
      BY <1>3, <1>7, <2>3
    <3>2. tracker' = t
      BY <1>9, <1>7, <2>3, Zenon
    <3>3. TrackerType' /\ tracker'.pending = tracker.pending /\ tracker'.state = tracker.state
      BY <1>2, <1>4, <2>1, <3>2 DEF TrackerType
    <3> QED BY <1>1, <3>1, <3>3 DEF DarkInv, NotSilent, TrackerTells
  <2> QED BY <2>2, <2>3
<1> QED BY <1>6, <1>7

(* A new target, a new threshold, a restart: the window starts again.      *)
LEMMA WindowEmpty ==
    ASSUME AlertInv, dark' = 0, NEW state, NEW since, NEW last_ok, NEW target,
           tracker' = [state |-> state, since |-> since, last_ok |-> last_ok, pending |-> <<>>,
                       target |-> target]
    PROVE  TrackerType' /\ DarkInv' /\ TrackerTells'
  BY AlertsAssumption DEF TrackerType, DarkInv, TrackerTells

(* A new target: the state is of no target yet.                            *)
LEMMA SetTargetKeeps ==
    ASSUME AlertInv, NEW target \in Targets, SetTarget(target)
    PROVE  AlertInv'
<1> DEFINE t == [state |-> tracker.state, since |-> tracker.since, last_ok |-> tracker.last_ok,
                 pending |-> <<>>, target |-> target]
<1>1. [tracker EXCEPT !.target = target, !.pending = <<>>] = t
  <2>1. ASSUME NEW x, x = [tracker EXCEPT !.target = target, !.pending = <<>>] PROVE x = t
    BY <2>1 DEF AlertInv, TrackerType
  <2> HIDE DEF t
  <2> QED BY <2>1, Zenon
<1>2. /\ tracker' = t \/ tracker' = [t EXCEPT !.state = "UNKNOWN", !.since = 0]
      /\ dark' = 0 /\ UNCHANGED <<memory, told, due>>
  BY <1>1 DEF SetTarget, SetState, monitor_vars
<1>3. ASSUME NEW x, x = [t EXCEPT !.state = "UNKNOWN", !.since = 0]
      PROVE  x = [state |-> "UNKNOWN", since |-> 0, last_ok |-> tracker.last_ok,
                  pending |-> <<>>, target |-> target]
  BY <1>3
<1>4. TrackerType' /\ DarkInv' /\ TrackerTells'
  BY <1>2, <1>3, WindowEmpty
<1> QED BY <1>2, <1>4 DEF AlertInv, MemoryType, ToldInv, NotSilent, Alerted

(* A new threshold: the old samples say nothing of it.                     *)
LEMMA SetThresholdKeeps ==
    ASSUME AlertInv, SetThreshold
    PROVE  AlertInv'
<1>1. /\ tracker' = [state |-> tracker.state, since |-> tracker.since,
                     last_ok |-> tracker.last_ok, pending |-> <<>>, target |-> tracker.target]
      /\ dark' = 0 /\ UNCHANGED <<memory, told, due>>
  BY DEF SetThreshold, monitor_vars, AlertInv, TrackerType
<1>2. TrackerType' /\ DarkInv' /\ TrackerTells'
  BY <1>1, WindowEmpty
<1> QED BY <1>1, <1>2 DEF AlertInv, MemoryType, ToldInv, NotSilent, Alerted

(* A restart of the GUI: the state is the persisted one, if of this target.*)
LEMMA GuiRestartsKeeps ==
    ASSUME AlertInv, GuiRestarts
    PROVE  AlertInv'
<1> USE AlertsAssumption
<1> DEFINE here == persisted.target = tracker.target
           state == IF here THEN persisted.state ELSE "UNKNOWN"
           since == IF here THEN persisted.since ELSE 0
<1>1. /\ tracker' = [state |-> state, since |-> since, last_ok |-> NoAge, pending |-> <<>>,
                     target |-> tracker.target]
      /\ dark' = 0 /\ memory' = NoMemory /\ due' = FALSE /\ told' = told
  BY DEF GuiRestarts, AlertInv, TrackerType
<1> HIDE DEF state, since
<1>2. TrackerType' /\ DarkInv' /\ TrackerTells'
  BY <1>1, WindowEmpty
<1> QED BY <1>1, <1>2 DEF AlertInv, MemoryType, NoMemory, NoAge, ToldInv, NotSilent, Alerted

(* Every step keeps the invariant, and one that changes nothing.           *)
LEMMA AlertsKeeps ==
    ASSUME AlertInv, [AlertsNext]_alerts_vars
    PROVE  AlertInv'
<1>1. ASSUME UNCHANGED <<tracker, dark, memory, told, due>> PROVE AlertInv'
  BY <1>1 DEF AlertInv, MemoryType, ToldInv, TrackerType, DarkInv, NotSilent,
     Alerted, TrackerTells
<1>2. CASE \/ PanePrints \/ AutoMeasureStarts \/ \E a \in Actions : PowerStarts(a)
           \/ \E a \in Actions \cup {"auto"} : ScriptEnds(a)
  BY <1>1, <1>2 DEF PanePrints, AutoMeasureStarts, PowerStarts, ScriptEnds,
     beam_vars, monitor_vars
<1>3. CASE PageChanges \/ MonitorStarts \/ MonitorStops \/ ThreadEnds
  BY <1>1, <1>3 DEF PageChanges, MonitorStarts, MonitorStops, ThreadEnds,
     beam_vars, monitor_vars
<1>4. CASE UNCHANGED alerts_vars
  BY <1>1, <1>4 DEF alerts_vars, beam_vars, monitor_vars
<1> QED
  BY <1>2, <1>3, <1>4, AlertsTickKeeps, SampleKeeps, SetThresholdKeeps,
     SetTargetKeeps, ChecksKeeps, GuiRestartsKeeps DEF AlertsNext

(* AlertInv holds in every reachable state, for all values of the constants. *)
THEOREM AlertsInvariance == AlertsSpec => []AlertInv
<1>1. AlertsInit => AlertInv
  BY AlertsAssumption DEF AlertsInit, AlertInv, MemoryType, NoMemory, NoAge,
     ToldInv, TrackerType, DarkInv, NotSilent, Alerted, TrackerTells
<1>2. AlertInv /\ [AlertsNext]_alerts_vars => AlertInv'
  BY AlertsKeeps
<1> QED BY <1>1, <1>2, PTL DEF AlertsSpec

(* What lasts is told: failed messages, stops and restarts of the monitor do *)
(* not make it believe it was, and failed polls do not keep the tracker from *)
(* saying OFF (flask_app/monitor.py, flask_app/beam_state.py).               *)
THEOREM WhatLastsIsTold == AlertsSpec => []NotSilent
<1>1. AlertInv => NotSilent
  BY DEF AlertInv
<1> QED BY <1>1, AlertsInvariance, PTL

-----------------------------------------------------------------------------
(* Settings.                                                               *)

\* The guardian's thresholds are there and in order once it is up.
GuardianInv ==
    guardian.pc \in {"up", "kills"} =>
        /\ guardian = [pc |-> guardian.pc, warned |-> guardian.warned, kill |-> guardian.kill,
                       warn |-> guardian.warn]
        /\ guardian.warn > guardian.kill

\* Only a campaign changes the directory, and a file has one.
HasDir(s) ==
    /\ saver[s].pc = "read" => "dir" \in DOMAIN saver[s].data
    /\ s \in Browsers /\ saver[s].pc \in {"checked", "read"} =>
          "dir" \notin DOMAIN saver[s].changes
DirInv == "dir" \in DOMAIN file /\ \A s \in Savers : HasDir(s)

\* A behaviour has campaigns or entries, not both.
TopicInv ==
    /\ topic \in DOMAIN KeysOf
    /\ saver["campaign"].pc # "idle" \/ restarting.pc # "none" => topic = "campaign"
    /\ \A b \in Browsers : entrant[b].pc # "idle" => topic = "stand"

SettingsShape ==
    /\ saver = [s \in Savers |-> saver[s]] /\ entrant = [b \in Browsers |-> entrant[b]]
    /\ service = [i \in DOMAIN SERVICES |-> service[i]]
    /\ pane = [i \in DOMAIN SERVICES |-> pane[i]]
    /\ setup = [text |-> setup.text, committed |-> setup.committed, told |-> setup.told]

RestartShape ==
    /\ restarting.pc \in {"none", "stop", "start"}
    /\ restarting.pc # "none" =>
          restarting = [pc |-> restarting.pc, i |-> restarting.i] /\ restarting.i \in Nat \ {0}
    /\ restarting.pc = "start" => restarting.i \in DOMAIN SERVICES

\* The services that need no restart any more are where the file says: all of
\* them when none is under way, those before its place while one is, and the
\* one at its place once it was stopped.  Or they were passed over.
InPlace(i) == service[i] \in {"off", ValueIn(file, "dir")} \/ PassedOver(i)
RestartInv ==
    ~cut /\ ~overlapped =>
        \A i \in DOMAIN SERVICES :
            \/ restarting.pc = "none"
            \/ restarting.pc = "stop" /\ i < restarting.i
            \/ restarting.pc = "start" /\ i <= restarting.i
            => InPlace(i)

\* One entry at a time, and where the setup file stands at each of its steps.
AsTold == setup.text = setup.committed /\ setup.committed = setup.told
EntryInv ==
    ~cut /\ ~overlapped =>
        /\ \A b, c \in Browsers : entrant[b].pc # "idle" /\ entrant[c].pc # "idle" => b = c
        /\ (\A b \in Browsers : entrant[b].pc # "written") => AsTold
        /\ \A b \in Browsers :
              /\ entrant[b].pc = "prepared" => entrant[b].from = setup.text
              /\ entrant[b].pc = "written" =>
                    /\ setup.text = Append(setup.committed, entrant[b].layout)
                    /\ setup.committed = setup.told

EntrantType == \A b \in Browsers : entrant[b].pc \in {"idle", "prepared", "written"}

SettingsInv ==
    /\ GuardianInv /\ PlanWithinCeilings
    /\ SettingsShape /\ TopicInv /\ DirInv /\ RestartShape /\ RestartInv
    /\ EntrantType /\ EntryInv

\* Who changes what.
GuardianMoves ==
    \/ GuardianReads \/ GuardianStarts \/ GuardianKills \/ GuardianDies
    \/ \E avail \in 0..3 : GuardianPolls(avail)
Saves ==
    \/ \E s \in Browsers : \E ch \in Changes(topic) : SaveBegins(s, ch)
    \/ \E s \in Savers : SaveReads(s) \/ SaveWrites(s)
    \/ \E d \in Dirs : CampaignApplies(d)
    \/ GuiRestarted \/ RestartsGui
Restarts ==
    \/ \E s \in Savers : SaveWrites(s)
    \/ \E i \in DOMAIN SERVICES : ServiceStarts(i) \/ ServiceStops(i)
    \/ RestartStops \/ RestartStarts \/ RestartsGui \/ GuiRestarted
Enters ==
    \/ \E b \in Browsers : \E l \in Layouts : EntryPrepared(b, l)
    \/ \E b \in Browsers : EntryWritten(b) \/ EntryCommitted(b) \/ EntryRefused(b)
    \/ RestartsGui \/ GuiRestarted

SettingsMoves ==
    /\ UNCHANGED guardian \/ GuardianMoves
    /\ UNCHANGED planned \/ PlannerWrites
    /\ UNCHANGED <<file, saver>> \/ Saves
    /\ UNCHANGED <<file, service, pane, restarting>> \/ Restarts
    /\ UNCHANGED <<setup, entrant>> \/ Enters
    /\ topic' = topic /\ (cut => cut') /\ (overlapped => overlapped')

(* Every step changes only what its handler has to do with.                *)
LEMMA SettingsStep ==
    ASSUME [SettingsNext]_settings_vars
    PROVE  SettingsMoves
<1> USE DEF SettingsMoves, save_vars, guardian_vars, plan_vars, campaign_vars, stand_vars
<1>1. ASSUME NEW s \in Browsers, NEW ch \in Changes(topic), SaveBegins(s, ch) PROVE SettingsMoves
  BY <1>1 DEF SaveBegins, Saves
<1>2. ASSUME NEW s \in Savers, SaveReads(s) PROVE SettingsMoves
  BY <1>2 DEF SaveReads, Saves
<1>3. ASSUME NEW s \in Savers, SaveWrites(s) PROVE SettingsMoves
  BY <1>3 DEF SaveWrites, Saves, Restarts
<1>4. CASE GuiRestarted
  BY <1>4 DEF GuiRestarted, Saves, Restarts, Enters
<1>5. CASE \/ GuardianReads \/ GuardianStarts \/ GuardianKills \/ GuardianDies
           \/ \E avail \in 0..3 : GuardianPolls(avail)
  BY <1>5 DEF GuardianReads, GuardianStarts, GuardianKills, GuardianDies,
     GuardianPolls, GuardianMoves
<1>6. CASE JobStartsOrEnds \/ SetupEdited \/ PlannerLoads \/ PlannerReads \/ RunStartsOrEnds
  BY <1>6 DEF JobStartsOrEnds, SetupEdited, PlannerLoads, PlannerReads,
     RunStartsOrEnds
<1>7. CASE PlannerWrites
  BY <1>7 DEF PlannerWrites
<1>8. ASSUME NEW d \in Dirs, CampaignApplies(d) PROVE SettingsMoves
  BY <1>8 DEF CampaignApplies, Saves
<1>9. CASE RestartStops \/ RestartStarts
  BY <1>9 DEF RestartStops, RestartStarts, Restarts
<1>10. CASE RestartsGui
  BY <1>10 DEF RestartsGui, Saves, Restarts, Enters
<1>11. ASSUME NEW i \in DOMAIN SERVICES, ServiceStarts(i) \/ ServiceStops(i) PROVE SettingsMoves
  BY <1>11 DEF ServiceStarts, ServiceStops, Restarts
<1>12. ASSUME NEW b \in Browsers, NEW l \in Layouts, EntryPrepared(b, l) PROVE SettingsMoves
  BY <1>12 DEF EntryPrepared, Enters
<1>13. ASSUME NEW b \in Browsers, EntryWritten(b) PROVE SettingsMoves
  BY <1>13 DEF EntryWritten, Enters
<1>14. ASSUME NEW b \in Browsers, EntryCommitted(b) PROVE SettingsMoves
  BY <1>14 DEF EntryCommitted, Enters
<1>15. ASSUME NEW b \in Browsers, EntryRefused(b) PROVE SettingsMoves
  <2>1. cut => cut'
    BY <1>15, Zenon DEF EntryRefused
  <2>2. Enters
    BY <1>15 DEF Enters
  <2> QED BY <1>15, <2>1, <2>2 DEF EntryRefused
<1>16. CASE UNCHANGED settings_vars
  BY <1>16 DEF settings_vars
<1> HIDE DEF SettingsMoves
<1> QED
  BY <1>1, <1>2, <1>3, <1>4, <1>5, <1>6, <1>7, <1>8, <1>9, <1>10, <1>11, <1>12,
     <1>13, <1>14,
     <1>15, <1>16 DEF SettingsNext

(* The guardian looks again at the pair it read in two reads.              *)
LEMMA GuardianKeeps ==
    ASSUME GuardianInv, SettingsMoves
    PROVE  GuardianInv'
<1> USE DEF GuardianInv
<1>1. CASE GuardianReads \/ GuardianDies
  BY <1>1 DEF GuardianReads, GuardianDies
<1>2. CASE GuardianStarts
  <2> DEFINE t == Thresholds(guardian.kill, ValueIn(file, "warn"))
  <2>1. t.warn > t.kill
    BY DEF Thresholds, Default
  <2> HIDE DEF t
  <2>2. guardian' = [pc |-> "up", warned |-> FALSE, kill |-> t.kill, warn |-> t.warn]
    BY <1>2 DEF GuardianStarts, t
  <2> QED BY <2>1, <2>2
<1> DEFINE shape(x) == /\ x = [pc |-> x.pc, warned |-> x.warned, kill |-> x.kill, warn |-> x.warn]
                       /\ x.kill = guardian.kill /\ x.warn = guardian.warn
<1>3. ASSUME guardian.pc \in {"up", "kills"}, NEW x, NEW w, NEW pc,
             \/ x = [guardian EXCEPT !.warned = w, !.pc = pc]
             \/ x = [guardian EXCEPT !.warned = w]
             \/ x = [guardian EXCEPT !.pc = pc]
      PROVE  shape(x)
  BY <1>3
<1>4. ASSUME NEW avail \in 0..3, GuardianPolls(avail) PROVE GuardianInv'
  <2>1. shape(guardian')
    BY <1>3, <1>4 DEF GuardianPolls
  <2> QED BY <1>4, <2>1 DEF GuardianPolls
<1>5. CASE GuardianKills
  <2>1. shape(guardian')
    BY <1>3, <1>5 DEF GuardianKills
  <2> QED BY <1>5, <2>1 DEF GuardianKills
<1>6. CASE UNCHANGED guardian
  BY <1>6
<1> QED BY <1>1, <1>2, <1>4, <1>5, <1>6 DEF SettingsMoves, GuardianMoves

(* A plan is refused that goes above the ceilings it was made under.       *)
LEMMA PlannerKeeps ==
    ASSUME PlanWithinCeilings, SettingsMoves
    PROVE  PlanWithinCeilings'
<1>1. CASE PlannerWrites
  <2> DEFINE plan == planner.got[1]
             v == SubRunHV(plan, planner.got[2], planner.got[3], planner.got[4])
  <2>1. planned' = IF Accepted(plan, v, planner.ceilings)
                   THEN [plan |-> plan, volts |-> v, ceilings |-> planner.ceilings]
                   ELSE planned
    BY <1>1 DEF PlannerWrites
  <2> HIDE DEF plan, v
  <2> QED BY <2>1 DEF Accepted, PlanWithinCeilings, Within
<1>2. CASE UNCHANGED planned
  BY <1>2 DEF PlanWithinCeilings, Within
<1> QED BY <1>1, <1>2 DEF SettingsMoves

(* The savers, the services, the setup file and its entrants keep their form. *)
LEMMA ShapeKeeps ==
    ASSUME SettingsShape, SettingsMoves
    PROVE  SettingsShape'
<1> USE DEF SettingsShape
<1>1. saver' = [s \in Savers |-> saver'[s]]
  <2>1. CASE Saves
    BY <2>1 DEF Saves, SaveBegins, SaveReads, SaveWrites, CampaignApplies,
       GuiRestarted, RestartsGui
  <2>2. CASE UNCHANGED saver
    BY <2>2
  <2> QED BY <2>1, <2>2 DEF SettingsMoves
<1>2. service' = [i \in DOMAIN SERVICES |-> service'[i]]
  <2>1. CASE Restarts
    BY <2>1 DEF Restarts, SaveWrites, campaign_vars, ServiceStarts,
       ServiceStops, Started, RestartStops, Stopped, RestartStarts,
       GuiRestarted, RestartsGui
  <2>2. CASE UNCHANGED service
    BY <2>2
  <2> QED BY <2>1, <2>2 DEF SettingsMoves
<1>3. pane' = [i \in DOMAIN SERVICES |-> pane'[i]]
  <2>1. CASE Restarts
    BY <2>1 DEF Restarts, SaveWrites, campaign_vars, ServiceStarts,
       ServiceStops, RestartStops, RestartStarts, GuiRestarted, RestartsGui
  <2>2. CASE UNCHANGED pane
    BY <2>2
  <2> QED BY <2>1, <2>2 DEF SettingsMoves
<1>4. /\ entrant' = [b \in Browsers |-> entrant'[b]]
      /\ setup' = [text |-> setup'.text, committed |-> setup'.committed, told |-> setup'.told]
  <2>1. CASE Enters
    BY <2>1 DEF Enters, EntryPrepared, EntryWritten, EntryCommitted,
       EntryRefused, Restored, GuiRestarted, RestartsGui, EntriesDropped
  <2>2. CASE UNCHANGED <<setup, entrant>>
    BY <2>2
  <2> QED BY <2>1, <2>2 DEF SettingsMoves
<1> QED BY <1>1, <1>2, <1>3, <1>4

(* An entry is idle, prepared or written.                                  *)
LEMMA EntrantTypeKeeps ==
    ASSUME SettingsShape, EntrantType, SettingsMoves
    PROVE  EntrantType'
<1> USE DEF SettingsShape, EntrantType
<1>1. CASE Enters
  <2>1. ASSUME NEW b \in Browsers, NEW l \in Layouts, EntryPrepared(b, l) PROVE EntrantType'
    BY <2>1 DEF EntryPrepared
  <2>2. ASSUME NEW b \in Browsers, EntryWritten(b) PROVE EntrantType'
    BY <2>2 DEF EntryWritten
  <2>3. ASSUME NEW b \in Browsers, EntryCommitted(b) \/ EntryRefused(b) PROVE EntrantType'
    BY <2>3 DEF EntryCommitted, EntryRefused
  <2>4. CASE RestartsGui \/ GuiRestarted
    BY <2>4 DEF GuiRestarted, RestartsGui, EntriesDropped
  <2> QED BY <1>1, <2>1, <2>2, <2>3, <2>4 DEF Enters
<1>2. CASE UNCHANGED entrant
  BY <1>2 DEF EntrantType
<1> QED BY <1>1, <1>2 DEF SettingsMoves

(* The restart goes from one service to the next.                          *)
LEMMA RestartShapeKeeps ==
    ASSUME RestartShape, SettingsMoves
    PROVE  RestartShape'
<1> USE DEF RestartShape
<1>1. CASE \E s \in Savers : SaveWrites(s)
  BY <1>1 DEF SaveWrites
<1>2. CASE RestartStops
  <2>1. /\ restarting = [pc |-> "stop", i |-> restarting.i] /\ restarting.i \in DOMAIN SERVICES
        /\ restarting.i + 1 \in Nat \ {0}
    BY <1>2 DEF RestartStops
  <2>2. \/ restarting' = [pc |-> "stop", i |-> restarting.i + 1]
        \/ restarting' = [pc |-> "start", i |-> restarting.i]
    BY <1>2, <2>1 DEF RestartStops
  <2> QED BY <2>1, <2>2
<1>3. CASE RestartStarts
  BY <1>3 DEF RestartStarts
<1>4. CASE RestartsGui \/ GuiRestarted
  BY <1>4 DEF RestartsGui, GuiRestarted
<1>5. CASE UNCHANGED restarting
  BY <1>5
<1>6. ASSUME NEW i, ServiceStarts(i) \/ ServiceStops(i) PROVE UNCHANGED restarting
  BY <1>6 DEF ServiceStarts, ServiceStops
<1> QED BY <1>1, <1>2, <1>3, <1>4, <1>5, <1>6 DEF SettingsMoves, Restarts

(* Campaigns and entries keep to the behaviours that have them.            *)
LEMMA TopicKeeps ==
    ASSUME SettingsAssumption, SettingsShape, RestartShape, TopicInv, SettingsMoves
    PROVE  TopicInv'
<1> USE DEF TopicInv, SettingsShape
<1>1. topic' = topic
  BY DEF SettingsMoves
<1>2. saver'["campaign"].pc # "idle" \/ restarting'.pc # "none" => topic = "campaign"
  <2>1. saver'["campaign"].pc # "idle" => topic = "campaign"
    <3> USE DEF Savers
    <3>1. ASSUME NEW s \in Browsers, NEW ch, SaveBegins(s, ch)
          PROVE  saver'["campaign"] = saver["campaign"]
      BY <3>1 DEF SettingsAssumption, SaveBegins
    <3>2. ASSUME NEW s \in Savers, SaveReads(s)
          PROVE  saver["campaign"].pc = "idle" => saver'["campaign"].pc = "idle"
      BY <3>2 DEF SaveReads
    <3>3. ASSUME NEW s \in Savers, SaveWrites(s)
          PROVE  saver["campaign"].pc = "idle" => saver'["campaign"].pc = "idle"
      BY <3>3 DEF SaveWrites
    <3>4. ASSUME NEW d \in Dirs, CampaignApplies(d) PROVE topic = "campaign"
      BY <3>4 DEF CampaignApplies
    <3>5. CASE GuiRestarted \/ RestartsGui
      BY <3>5 DEF GuiRestarted, RestartsGui
    <3>6. CASE UNCHANGED saver
      BY <3>6
    <3> QED BY <3>1, <3>2, <3>3, <3>4, <3>5, <3>6 DEF SettingsMoves, Saves
  <2>2. restarting'.pc # "none" => topic = "campaign"
    <3>1. ASSUME NEW s \in Savers, SaveWrites(s)
          PROVE  UNCHANGED restarting \/ saver["campaign"].pc # "idle"
      BY <3>1 DEF SaveWrites
    <3>2. CASE RestartStops \/ RestartStarts
      BY <3>2 DEF RestartStops, RestartStarts
    <3>3. CASE GuiRestarted \/ RestartsGui
      BY <3>3 DEF GuiRestarted, RestartsGui
    <3>4. ASSUME NEW i, ServiceStarts(i) \/ ServiceStops(i) PROVE UNCHANGED restarting
      BY <3>4 DEF ServiceStarts, ServiceStops
    <3> QED BY <3>1, <3>2, <3>3, <3>4 DEF SettingsMoves, Restarts
  <2> QED BY <2>1, <2>2
<1>3. \A b \in Browsers : entrant'[b].pc # "idle" => topic = "stand"
  <2>1. ASSUME NEW b \in Browsers, NEW l \in Layouts, EntryPrepared(b, l) PROVE topic = "stand"
    BY <2>1 DEF EntryPrepared
  <2>2. ASSUME NEW b \in Browsers, EntryWritten(b) \/ EntryCommitted(b) \/ EntryRefused(b)
        PROVE  topic = "stand"
    BY <2>2 DEF EntryWritten, EntryCommitted, EntryRefused
  <2>3. CASE GuiRestarted \/ RestartsGui
    BY <2>3 DEF GuiRestarted, RestartsGui, EntriesDropped
  <2> QED BY <2>1, <2>2, <2>3 DEF SettingsMoves, Enters
<1> QED BY <1>1, <1>2, <1>3

(* What a browser may change of its topic is never the directory.          *)
LEMMA ChangesAreOthers ==
    ASSUME topic \in DOMAIN KeysOf, NEW ch \in Changes(topic)
    PROVE  "dir" \notin DOMAIN ch
<1>1. "dir" \notin KeysOf[topic]
  BY DEF KeysOf
<1>2. ASSUME NEW a \in One(topic) PROVE "dir" \notin DOMAIN a
  <2>1. PICK k \in KeysOf[topic] : a \in [{k} -> SCHEMA[k] \cup {Unset}]
    BY DEF One
  <2> QED BY <1>1, <2>1
<1>3. ASSUME NEW a \in One(topic), NEW b \in One(topic) PROVE "dir" \notin DOMAIN Merged(a, b)
  BY <1>2 DEF Merged
<1> QED BY <1>2, <1>3 DEF Changes, Pairs

(* The directory is in every file, and only a campaign's save changes it.  *)
LEMMA DirKeeps ==
    ASSUME SettingsAssumption, SettingsShape, TopicInv, DirInv, SettingsMoves
    PROVE  DirInv'
<1> USE DEF DirInv, SettingsShape, Savers
<1>0. ASSUME NEW r \in Savers, saver'[r] = saver[r] PROVE HasDir(r)'
  BY <1>0 DEF HasDir
<1>1. ASSUME NEW s \in Browsers, NEW ch \in Changes(topic), SaveBegins(s, ch) PROVE DirInv'
  <2>1. PICK applied \in SUBSET DOMAIN ch :
           saver' = [saver EXCEPT ![s] = [pc |-> "checked",
                                          changes |-> [k \in applied |-> ch[k]]]]
    BY <1>1 DEF SaveBegins
  <2>2. "dir" \notin applied
    BY <2>1, ChangesAreOthers DEF TopicInv
  <2>3. /\ saver'[s] = [pc |-> "checked", changes |-> [k \in applied |-> ch[k]]]
        /\ \A r \in Savers \ {s} : saver'[r] = saver[r]
    BY <2>1
  <2>4. file' = file
    BY <1>1 DEF SaveBegins
  <2>5. HasDir(s)'
    BY <2>2, <2>3 DEF HasDir
  <2> QED BY <1>0, <2>3, <2>4, <2>5
<1>2. ASSUME NEW s \in Savers, SaveReads(s) PROVE DirInv'
  <2>1. /\ saver'[s] = [pc |-> "read", changes |-> saver[s].changes, data |-> file]
        /\ \A r \in Savers \ {s} : saver'[r] = saver[r]
        /\ file' = file /\ saver[s].pc = "checked"
    BY <1>2 DEF SaveReads
  <2>2. HasDir(s) /\ "dir" \in DOMAIN file
    OBVIOUS
  <2>3. HasDir(s)'
    BY <2>1, <2>2 DEF HasDir
  <2> QED BY <1>0, <2>1, <2>2, <2>3
<1>3. ASSUME NEW s \in Savers, SaveWrites(s) PROVE DirInv'
  <2>1. /\ saver'[s] = [pc |-> "idle"] /\ \A r \in Savers \ {s} : saver'[r] = saver[r]
        /\ file' = Merged(saver[s].data, saver[s].changes) /\ saver[s].pc = "read"
    BY <1>3 DEF SaveWrites
  <2>2. "dir" \in DOMAIN file'
    BY <2>1 DEF Merged, HasDir
  <2>3. HasDir(s)'
    BY <2>1 DEF HasDir
  <2> QED BY <1>0, <2>1, <2>2, <2>3
<1>4. ASSUME NEW d \in Dirs, CampaignApplies(d) PROVE DirInv'
  <2>1. /\ \A r \in Savers \ {"campaign"} : saver'[r] = saver[r]
        /\ saver'["campaign"].pc = "checked" /\ file' = file
    BY <1>4 DEF CampaignApplies
  <2>2. HasDir("campaign")'
    BY <2>1 DEF SettingsAssumption, HasDir
  <2> QED BY <1>0, <2>1, <2>2
<1>5. CASE GuiRestarted \/ RestartsGui
  BY <1>5 DEF GuiRestarted, RestartsGui, HasDir
<1>6. CASE UNCHANGED <<file, saver>>
  BY <1>0, <1>6
<1> QED BY <1>1, <1>2, <1>3, <1>4, <1>5, <1>6 DEF SettingsMoves, Saves

(* A browser's save that crosses no other leaves the directory as it is.   *)
LEMMA BrowserKeepsDir ==
    ASSUME SettingsAssumption, DirInv, NEW s \in Browsers, SaveWrites(s), ~overlapped'
    PROVE  ValueIn(file', "dir") = ValueIn(file, "dir")
<1>1. saver[s].data = file
  BY Zenon DEF SaveWrites
<1>2. saver[s].pc = "read" /\ file' = Merged(saver[s].data, saver[s].changes)
  BY DEF SaveWrites
<1>3. "dir" \in DOMAIN file /\ "dir" \notin DOMAIN saver[s].changes
  BY <1>2 DEF DirInv, HasDir, Savers
<1>4. file'["dir"] = file["dir"]
  BY <1>1, <1>2, <1>3 DEF Merged
<1> QED BY <1>4 DEF ValueIn

(* The services behind the restart are in the directory on file.           *)
LEMMA RestartKeeps ==
    ASSUME SettingsAssumption, SettingsShape, TopicInv, DirInv, RestartShape, RestartInv,
           SettingsMoves
    PROVE  RestartInv'
<1> SUFFICES ASSUME ~cut', ~overlapped', NEW j \in DOMAIN SERVICES,
                    \/ restarting'.pc = "none"
                    \/ restarting'.pc = "stop" /\ j < restarting'.i
                    \/ restarting'.pc = "start" /\ j <= restarting'.i
             PROVE  InPlace(j)'
  BY DEF RestartInv
<1>1. /\ ~cut /\ ~overlapped
      /\ \/ restarting.pc = "none"
         \/ restarting.pc = "stop" /\ j < restarting.i
         \/ restarting.pc = "start" /\ j <= restarting.i
         => InPlace(j)
  BY DEF SettingsMoves, RestartInv
<1>2. /\ DOMAIN SERVICES = 1..Len(SERVICES) /\ Len(SERVICES) \in Nat
      /\ service = [i \in DOMAIN SERVICES |-> service[i]]
      /\ pane = [i \in DOMAIN SERVICES |-> pane[i]]
  BY DEF SettingsAssumption, SettingsShape
<1>3. ASSUME NEW s \in Savers, SaveWrites(s) PROVE InPlace(j)'
  <2>1. CASE s = "campaign"
    BY <1>2, <1>3, <2>1 DEF SaveWrites
  <2>2. CASE s # "campaign"
    <3>1. ValueIn(file', "dir") = ValueIn(file, "dir")
      BY <1>3, <2>2, BrowserKeepsDir DEF Savers
    <3>2. UNCHANGED <<restarting, service, pane>>
      BY <1>3, <2>2 DEF SaveWrites
    <3> QED BY <1>1, <3>1, <3>2 DEF InPlace, PassedOver
  <2> QED BY <2>1, <2>2
<1>4. CASE RestartStops
  <2>1. restarting = [pc |-> "stop", i |-> restarting.i] /\ restarting.i \in 1..Len(SERVICES)
    BY <1>2, <1>4 DEF RestartStops, RestartShape
  <2>2. UNCHANGED <<file, pane>>
    BY <1>4 DEF RestartStops, save_vars
  <2>3. CASE service[restarting.i] = "off" \/ PassedOver(restarting.i)
    <3>1. restarting' = [pc |-> "stop", i |-> restarting.i + 1] /\ service' = service
      BY <1>4, <2>1, <2>3 DEF RestartStops
    <3>2. j < restarting.i \/ j = restarting.i
      BY <1>2, <2>1, <3>1
    <3> QED BY <1>1, <2>1, <2>2, <2>3, <3>1, <3>2 DEF InPlace, PassedOver
  <2>4. CASE ~(service[restarting.i] = "off" \/ PassedOver(restarting.i))
    <3>1. restarting' = [pc |-> "start", i |-> restarting.i] /\ service' = Stopped(restarting.i)
      BY <1>4, <2>1, <2>4 DEF RestartStops
    <3>2. j < restarting.i \/ j = restarting.i
      BY <1>2, <2>1, <3>1
    <3>3. service'[j] = IF j = restarting.i THEN "off" ELSE service[j]
      BY <1>2, <3>1 DEF Stopped
    <3> QED BY <1>1, <2>1, <2>2, <3>2, <3>3 DEF InPlace, PassedOver
  <2> QED BY <2>3, <2>4
<1>5. CASE RestartStarts
  <2>1. restarting.pc = "start" /\ restarting.i \in Nat
    BY <1>5 DEF RestartStarts, RestartShape
  <2>2. /\ restarting' = [pc |-> "stop", i |-> restarting.i + 1] /\ service' = Started(restarting.i)
        /\ UNCHANGED <<file, pane>>
    BY <1>5 DEF RestartStarts, save_vars
  <2>3. j <= restarting.i
    BY <1>2, <2>1, <2>2
  <2>4. service'[j] = service[j] \/ service'[j] = ValueIn(file, "dir")
    BY <1>2, <2>2 DEF Started
  <2> QED BY <1>1, <2>1, <2>2, <2>3, <2>4 DEF InPlace, PassedOver
<1>6. CASE RestartsGui
  <2>1. restarting.pc = "stop" /\ restarting.i \in Nat \ {0} /\ restarting.i \notin 1..Len(SERVICES)
    BY <1>2, <1>6 DEF RestartsGui, RestartShape
  <2>2. j < restarting.i
    BY <1>2, <2>1
  <2>3. UNCHANGED <<file, service, pane>>
    BY <1>6 DEF RestartsGui
  <2> QED BY <1>1, <2>1, <2>2, <2>3 DEF InPlace, PassedOver
<1>7. CASE GuiRestarted
  <2>1. restarting.pc = "none"
    BY <1>7, Zenon DEF GuiRestarted
  <2>2. UNCHANGED <<file, service, pane>>
    BY <1>7 DEF GuiRestarted
  <2> QED BY <1>1, <2>1, <2>2 DEF InPlace, PassedOver
<1>8. ASSUME NEW i \in DOMAIN SERVICES, ServiceStarts(i) \/ ServiceStops(i) PROVE InPlace(j)'
  <2>1. UNCHANGED <<file, restarting>>
    BY <1>8 DEF ServiceStarts, ServiceStops, save_vars
  <2>2. \/ service'[j] = service[j] /\ pane'[j] = pane[j]
        \/ service'[j] \in {"off", ValueIn(file, "dir")}
    BY <1>2, <1>8 DEF ServiceStarts, ServiceStops, Started
  <2> QED BY <1>1, <2>1, <2>2 DEF InPlace, PassedOver
<1>9. CASE UNCHANGED <<file, service, pane, restarting>>
  BY <1>1, <1>9 DEF InPlace, PassedOver
<1> QED BY <1>3, <1>4, <1>5, <1>6, <1>7, <1>8, <1>9 DEF SettingsMoves, Restarts

(* The setup file at the steps of the one entry under way.                 *)
LEMMA EntryKeeps ==
    ASSUME SettingsShape, TopicInv, EntrantType, EntryInv, SettingsMoves
    PROVE  EntryInv'
<1> USE DEF SettingsShape
<1> SUFFICES ASSUME ~cut', ~overlapped'
             PROVE  EntryInv'
  BY DEF EntryInv
<1>1. /\ ~cut /\ ~overlapped
      /\ \A b, c \in Browsers : entrant[b].pc # "idle" /\ entrant[c].pc # "idle" => b = c
      /\ (\A b \in Browsers : entrant[b].pc # "written") => AsTold
      /\ \A b \in Browsers :
            /\ entrant[b].pc = "prepared" => entrant[b].from = setup.text
            /\ entrant[b].pc = "written" =>
                  /\ setup.text = Append(setup.committed, entrant[b].layout)
                  /\ setup.committed = setup.told
  BY DEF SettingsMoves, EntryInv
<1>2. ASSUME NEW b \in Browsers, NEW l \in Layouts, EntryPrepared(b, l) PROVE EntryInv'
  <2>1. \A c \in Browsers : entrant[c].pc = "idle"
    BY <1>2, Zenon DEF EntryPrepared
  <2>2. /\ entrant'[b] = [pc |-> "prepared", layout |-> l, from |-> setup.text]
        /\ \A c \in Browsers \ {b} : entrant'[c] = entrant[c]
        /\ setup' = setup
    BY <1>2 DEF EntryPrepared
  <2> QED BY <1>1, <2>1, <2>2 DEF EntryInv, AsTold
<1>3. ASSUME NEW b \in Browsers, EntryWritten(b) PROVE EntryInv'
  <2>1. /\ entrant[b].pc = "prepared" /\ AsTold
        /\ \A c \in Browsers \ {b} : entrant[c].pc = "idle"
    BY <1>1, <1>3 DEF EntryWritten, EntrantType
  <2>2. /\ entrant'[b].pc = "written" /\ entrant'[b].layout = entrant[b].layout
        /\ \A c \in Browsers \ {b} : entrant'[c] = entrant[c]
    BY <1>3 DEF EntryWritten
  <2>3. setup' = [text |-> Append(setup.text, entrant[b].layout), committed |-> setup.committed,
                  told |-> setup.told]
    BY <1>1, <1>3, <2>1 DEF EntryWritten
  <2> QED BY <2>1, <2>2, <2>3 DEF EntryInv, AsTold
<1>4. ASSUME NEW b \in Browsers, EntryCommitted(b) \/ EntryRefused(b) PROVE EntryInv'
  <2>1. /\ entrant[b].pc = "written" /\ setup.committed = setup.told
        /\ setup.text = Append(setup.committed, entrant[b].layout)
        /\ \A c \in Browsers \ {b} : entrant[c].pc = "idle"
    BY <1>1, <1>4 DEF EntryCommitted, EntryRefused
  <2>2. /\ entrant'[b] = [pc |-> "idle"] /\ \A c \in Browsers \ {b} : entrant'[c] = entrant[c]
    BY <1>4 DEF EntryCommitted, EntryRefused
  <2>3. AsTold'
    <3>1. CASE EntryCommitted(b)
      BY <2>1, <3>1 DEF EntryCommitted, AsTold
    <3>2. CASE EntryRefused(b)
      <4>1. setup' = [setup EXCEPT !.text = Restored]
        BY <3>2, Zenon DEF EntryRefused
      <4> QED BY <2>1, <4>1 DEF Restored, AsTold
    <3> QED BY <1>4, <3>1, <3>2
  <2> QED BY <2>1, <2>2, <2>3 DEF EntryInv
<1>5. CASE GuiRestarted
  <2>1. \A b \in Browsers : entrant[b].pc # "written"
    BY <1>5, Zenon DEF GuiRestarted
  <2>2. (\A b \in Browsers : entrant'[b] = [pc |-> "idle"]) /\ setup' = setup
    BY <1>5 DEF GuiRestarted, EntriesDropped
  <2> QED BY <1>1, <2>1, <2>2 DEF EntryInv, AsTold
<1>6. CASE RestartsGui
  <2>1. \A b \in Browsers : entrant[b].pc = "idle"
    BY <1>6 DEF RestartsGui, TopicInv
  <2>2. (\A b \in Browsers : entrant'[b] = [pc |-> "idle"]) /\ setup' = setup
    BY <1>6 DEF RestartsGui, EntriesDropped
  <2> QED BY <1>1, <2>1, <2>2 DEF EntryInv, AsTold
<1>7. CASE UNCHANGED <<setup, entrant>>
  BY <1>1, <1>7 DEF EntryInv, AsTold
<1> QED BY <1>2, <1>3, <1>4, <1>5, <1>6, <1>7 DEF SettingsMoves, Enters

(* The initial states.                                                     *)
LEMMA SettingsStart ==
    ASSUME SettingsInit
    PROVE  SettingsInv
<1> USE SettingsAssumption DEF SettingsInit
<1>1. GuardianInv /\ PlanWithinCeilings
  BY DEF GuardianInv, PlanWithinCeilings
<1>2. SettingsShape /\ TopicInv /\ EntrantType
  BY DEF SettingsShape, TopicInv, Savers, EntrantType
<1>3. DirInv
  BY DEF DirInv, HasDir, Keys, SCHEMA
<1>4. RestartShape /\ RestartInv
  BY DEF RestartShape, RestartInv, InPlace
<1>5. EntryInv
  BY DEF EntryInv, AsTold
<1> QED BY <1>1, <1>2, <1>3, <1>4, <1>5 DEF SettingsInv

-----------------------------------------------------------------------------

(* SettingsInv holds in every reachable state, for all values of the constants. *)
THEOREM SettingsInvariance == SettingsSpec => []SettingsInv
<1>1. SettingsInit => SettingsInv
  BY SettingsStart
<1>2. SettingsInv /\ [SettingsNext]_settings_vars => SettingsInv'
  BY SettingsAssumption, SettingsStep, GuardianKeeps, PlannerKeeps, ShapeKeeps,
     TopicKeeps, DirKeeps, RestartShapeKeeps, RestartKeeps, EntrantTypeKeeps,
     EntryKeeps DEF SettingsInv
<1> QED BY <1>1, <1>2, PTL DEF SettingsSpec

(* What is in force fits together: the guardian's two thresholds, the plan and *)
(* its ceilings, the campaign and the services, the stand and its commits      *)
(* (gui_settings.py, mem_guardian.py, run_config_beam.py, flask_app/app.py).   *)
THEOREM InForceIsSafe == SettingsSpec => []SafeInForce
<1>1. SettingsInv => SafeInForce
  <2> SUFFICES ASSUME SettingsInv PROVE SafeInForce
    OBVIOUS
  <2>1. GuardianSane /\ PlanWithinCeilings
    BY DEF SettingsInv, GuardianInv, GuardianSane
  <2>2. CampaignAgrees
    BY DEF SettingsInv, RestartInv, InPlace, PassedOver, CampaignAgrees
  <2>3. StandAsAnswered
    BY DEF SettingsInv, EntryInv, AsTold, StandAsAnswered
  <2> QED BY <2>1, <2>2, <2>3 DEF SafeInForce
<1> QED BY <1>1, SettingsInvariance, PTL

-----------------------------------------------------------------------------
(* BeamFeed.                                                               *)

\* The CSVs hold what NXCALS has; the newest row the watcher remembers is one.
CsvType ==
    /\ now \in Nat /\ csv \subseteq Points /\ logged_at \in Times \cup {Never}
    /\ watcher = [connected |-> watcher.connected, logged |-> watcher.logged,
                  archived |-> watcher.archived, pulse |-> watcher.pulse]
    /\ watcher.logged \in csv \cup {Never}

\* No cycle that a poll may still ask for is missing before the newest row: what
\* a restarted watcher goes by.
GapInv == \A c \in Points : c <= Latest(csv) /\ c > now - LOOKBACK_S => c \in csv

\* A file that is being rewritten is past: all its cycles are known.
BackfillInv ==
    backfill # NoBackfill =>
        /\ backfill.file \in Nat /\ backfill.file < File(now)
        /\ backfill.rows = Rows(Points, backfill.file)

LoggedInv == \A c \in Points : c <= logged_at /\ c > logged_at - LOOKBACK_S => c \in csv

\* The same of the profiles, but for a restarted watcher, which looks again at all.
ArchiveInv ==
    feed = "sps" =>
        /\ watcher.archived \in Times \cup {Never}
        /\ \A c \in Spills : c <= watcher.archived /\ c > now - PROFILE_LOOKBACK_S => c \in archive
        /\ \A c \in Spills : c <= logged_at /\ c > logged_at - PROFILE_LOOKBACK_S => c \in archive

\* A state file says no more than was so at its stamp.
Backed(s) ==
    /\ s.stamp \in Int
    /\ s.on = "on" => \E c \in Spills : s.stamp - c <= BEAM_OFF_GAP_S
    /\ s.line = "open" => /\ \E c \in Spills : s.stamp - c < COUNTS_S
                         /\ \E c \in Counted : s.stamp - c < COUNTS_S
StatesInv == watcher.pulse \in Spills \cup {Never} /\ Backed(published) /\ Backed(local)

\* What the bridge owes is on banco, or in a file it has still to copy.
BridgeInv ==
    /\ bridge = [pc |-> bridge.pc, last_ok |-> bridge.last_ok, plan |-> bridge.plan,
                 missed |-> bridge.missed]
    /\ bridge.missed \in BOOLEAN
    /\ mine \subseteq csv /\ owed \subseteq csv
    /\ bridge.pc # "down" /\ ~bridge.missed =>
          \A c \in owed : c \in mine \/ File(c) \in bridge.plan

FeedInv ==
    /\ CsvType /\ GapInv /\ BackfillInv /\ LoggedInv /\ ArchiveInv /\ StatesInv /\ BridgeInv

(* The newest of a set of cycles, or Never, is not older than any.         *)
LEMMA LatestIs ==
    ASSUME NEW n \in Nat, NEW S, S \subseteq 0..n \cup {Never}
    PROVE  /\ Latest(S) \in S \cup {Never} /\ Latest(S) \in Int
           /\ \A u \in S : u \in Int /\ u <= Latest(S)
<1> DEFINE U == S \cup {Never}
           T == {n - x : x \in U}
<1>1. \A x \in U : x \in Int /\ -1 <= x /\ x <= n /\ n - x \in Nat
  BY DEF Never
<1>2. T \subseteq Nat /\ T # {}
  BY <1>1
<1>3. PICK m \in T : \A y \in T : m <= y
  BY <1>2, LeastNat
<1>4. PICK t \in U : m = n - t
  BY <1>3
<1>5. \A u \in U : n - t <= n - u
  BY <1>3, <1>4
<1>6. \A u \in S : u <= t
  <2> TAKE u \in S
  <2>1. n - t <= n - u
    BY <1>5
  <2> QED BY <1>1, <2>1
<1>7. Latest(S) \in U /\ \A u \in S : u <= Latest(S)
  BY <1>6, Zenon DEF Latest
<1> QED BY <1>1, <1>7

(* Files follow one another in time.                                       *)
LEMMA FileIs ==
    ASSUME NEW c \in Nat
    PROVE  File(c) \in Nat /\ File(c) * FileLen <= c /\ c < File(c) * FileLen + FileLen
<1>1. FileLen \in Nat \ {0}
  BY BeamFeedAssumption
<1> QED BY <1>1 DEF File

LEMMA FileMonotone ==
    ASSUME NEW c \in Nat, NEW d \in Nat, c <= d
    PROVE  File(c) <= File(d)
<1>1. FileLen \in Nat \ {0}
  BY BeamFeedAssumption
<1>2. CASE File(c) > File(d)
  <2> DEFINE a == File(c)
             b == File(d)
  <2>1. a \in Nat /\ b \in Nat /\ a * FileLen <= c /\ d < b * FileLen + FileLen
    BY FileIs
  <2> HIDE DEF a, b
  <2>2. a >= b + 1
    BY <1>2, <2>1 DEF a, b
  <2>3. PICK k \in Nat : a = b + 1 + k
    <3>1. a - (b + 1) \in Nat /\ a = b + 1 + (a - (b + 1))
      BY <2>1, <2>2
    <3> QED BY <3>1
  <2>4. a * FileLen = b * FileLen + FileLen + k * FileLen /\ k * FileLen \in Nat
    BY <1>1, <2>1, <2>3
  <2>5. b * FileLen \in Nat
    BY <1>1, <2>1
  <2> QED BY <1>1, <2>1, <2>4, <2>5
<1> QED BY <1>2, FileIs

(* A whole file is longer than the window of a poll.                       *)
LEMMA FileBetween ==
    ASSUME NEW c \in Nat, NEW f \in Nat, NEW n \in Nat, File(c) < f, f < File(n)
    PROVE  c <= n - LOOKBACK_S
<1>1. FileLen \in Nat \ {0} /\ LOOKBACK_S \in Nat /\ LOOKBACK_S <= FileLen
  BY BeamFeedAssumption
<1> DEFINE a == File(c)
           b == File(n)
<1>2. /\ a \in Nat /\ b \in Nat /\ c < a * FileLen + FileLen /\ b * FileLen <= n
      /\ a + 2 <= b
  BY FileIs
<1> HIDE DEF a, b
<1>3. PICK k \in Nat : b = a + 2 + k
  <2>1. b - (a + 2) \in Nat /\ b = a + 2 + (b - (a + 2))
    BY <1>2
  <2> QED BY <2>1
<1>4. b * FileLen = a * FileLen + FileLen + FileLen + k * FileLen /\ k * FileLen \in Nat
  BY <1>1, <1>2, <1>3
<1>5. a * FileLen \in Nat
  BY <1>1, <1>2
<1> QED BY <1>1, <1>2, <1>4, <1>5

(* A state file without news says nothing.                                 *)
LEMMA UnknownIs ==
    ASSUME NEW t \in Int
    PROVE  Backed(Unknown(t)) /\ Backed(NoFile)
<1>1. /\ Unknown(t) = [stamp |-> t, on |-> "unknown", line |-> "unknown", from |-> "nothing"]
      /\ Never \in Int
  BY DEF Unknown, NoFile, Never
<1> QED BY <1>1 DEF Backed, NoFile

(* What was played stays so, and what was backed stays backed.             *)
LEMMA TimePasses ==
    ASSUME now \in Nat, Ticks
    PROVE  /\ now' = now + 1 /\ \A c \in Times : c \in Times' /\ cycle'[c] = cycle[c]
           /\ Points \subseteq Points' /\ Spills \subseteq Spills' /\ Counted \subseteq Counted'
           /\ \A c \in Points' : c \in Points \/ c = now + 1
           /\ \A c \in Spills' : c \in Spills \/ c = now + 1
<1>1. PICK k \in CycleKinds : cycle' = [c \in 0..now' |-> IF c = now' THEN k ELSE cycle[c]]
  BY DEF Ticks
<1>2. now' = now + 1 /\ now' \in Nat
  BY DEF Ticks
<1>3. /\ \A c \in Times : c \in Times' /\ cycle'[c] = cycle[c]
      /\ \A c \in Times' : c \in Times \/ c = now + 1
  BY <1>1, <1>2 DEF Times
<1> QED BY <1>2, <1>3 DEF Points, Spills, Counted

(* A tick.                                                                 *)
LEMMA TicksKeeps ==
    ASSUME FeedInv, Ticks
    PROVE  FeedInv'
<1> USE DEF FeedInv
<1>1. /\ now' = now + 1 /\ \A c \in Times : c \in Times' /\ cycle'[c] = cycle[c]
      /\ Points \subseteq Points' /\ Spills \subseteq Spills' /\ Counted \subseteq Counted'
      /\ \A c \in Points' : c \in Points \/ c = now + 1
      /\ \A c \in Spills' : c \in Spills \/ c = now + 1
  BY TimePasses DEF CsvType
<1>2. UNCHANGED <<feed, watcher, csv, archive, published, bridge, local, mine, owed, backfill,
                  logged_at>>
  BY DEF Ticks, lxplus, banco
<1>3. now \in Nat /\ csv \subseteq 0..now /\ logged_at \in Int /\ logged_at <= now
  BY DEF CsvType, Points, Times, Never
<1>4. CsvType'
  BY <1>1, <1>2 DEF CsvType
<1>5. GapInv'
  <2>1. Latest(csv) \in Int /\ Latest(csv) <= now
    <3>1. Latest(csv) \in csv \cup {Never} /\ Latest(csv) \in Int
      BY <1>3, LatestIs
    <3> QED BY <1>3, <3>1 DEF Never
  <2>2. LOOKBACK_S \in Nat /\ \A c \in Points : c \in Nat
    BY BeamFeedAssumption DEF Points, Times
  <2>3. Latest(csv)' = Latest(csv)
    BY <1>2
  <2> QED BY <1>1, <1>2, <1>3, <2>1, <2>2, <2>3 DEF GapInv
<1>6. BackfillInv'
  <2> SUFFICES ASSUME backfill # NoBackfill
               PROVE  /\ backfill.file \in Nat /\ backfill.file < File(now')
                      /\ backfill.rows = Rows(Points', backfill.file)
    BY <1>2 DEF BackfillInv, Rows, File
  <2>1. /\ backfill.file \in Nat /\ backfill.file < File(now)
        /\ backfill.rows = Rows(Points, backfill.file)
    BY DEF BackfillInv
  <2>2. File(now) \in Nat /\ File(now') \in Nat /\ File(now) <= File(now')
    BY <1>1, <1>3, FileIs, FileMonotone
  <2>3. File(now + 1) # backfill.file
    BY <1>1, <2>1, <2>2
  <2> QED BY <1>1, <2>1, <2>2, <2>3 DEF Rows
<1>7. LoggedInv'
  BY <1>1, <1>2, <1>3 DEF LoggedInv
<1>8. ArchiveInv'
  <2> SUFFICES ASSUME feed = "sps"
               PROVE  ArchiveInv'
    BY <1>2 DEF ArchiveInv
  <2>1. watcher.archived \in Times \cup {Never}
    BY DEF ArchiveInv
  <2>2. watcher.archived \in Int /\ watcher.archived <= now /\ PROFILE_LOOKBACK_S \in Nat
    BY <1>3, <2>1, BeamFeedAssumption DEF Times, Never
  <2>3. \A c \in Spills : c \in Nat
    BY DEF Spills, Times
  <2> QED BY <1>1, <1>2, <1>3, <2>1, <2>2, <2>3 DEF ArchiveInv
<1>9. StatesInv'
  BY <1>1, <1>2 DEF StatesInv, Backed
<1>10. BridgeInv'
  BY <1>2 DEF BridgeInv, File
<1> QED BY <1>4, <1>5, <1>6, <1>7, <1>8, <1>9, <1>10

(* A restart of the watcher: the newest row is what it goes on from.       *)
LEMMA WatcherStartsKeeps ==
    ASSUME FeedInv, WatcherStarts
    PROVE  FeedInv'
<1> USE DEF FeedInv
<1>1. /\ watcher' = [connected |-> FALSE, logged |-> Latest(csv), archived |-> Never, pulse |-> Never]
      /\ UNCHANGED <<feed, now, cycle, csv, archive, published, bridge, local, mine, owed, backfill,
                     logged_at>>
  BY DEF WatcherStarts, banco
<1>2. Latest(csv) \in csv \cup {Never}
  BY LatestIs DEF CsvType, Points, Times
<1>3. CsvType' /\ GapInv' /\ BackfillInv' /\ LoggedInv'
  BY <1>1, <1>2 DEF CsvType, GapInv, BackfillInv, LoggedInv, Points, Times
<1>4. ArchiveInv'
  <2>1. \A c \in Spills : c \in Nat
    BY DEF Spills, Times
  <2> QED BY <1>1, <2>1 DEF ArchiveInv, Spills, Times, Never
<1>5. StatesInv' /\ BridgeInv'
  BY <1>1 DEF StatesInv, Backed, Counted, BridgeInv, Spills, Times
<1> QED BY <1>3, <1>4, <1>5

(* A connection, or a failure: the state is unknown as of now.             *)
LEMMA ConnectsKeeps ==
    ASSUME FeedInv, Connects \/ PollFails
    PROVE  FeedInv'
<1> USE DEF FeedInv
<1>1. /\ watcher' = [connected |-> watcher'.connected, logged |-> watcher.logged,
                     archived |-> watcher.archived, pulse |-> watcher.pulse]
      /\ published' = published \/ published' = Unknown(now)
      /\ UNCHANGED <<feed, now, cycle, csv, archive, bridge, local, mine, owed, backfill, logged_at>>
  BY DEF Connects, PollFails, banco, CsvType
<1>2. Backed(published')
  BY <1>1, UnknownIs DEF CsvType, StatesInv
<1>3. CsvType' /\ GapInv' /\ BackfillInv' /\ LoggedInv' /\ ArchiveInv' /\ BridgeInv'
  BY <1>1 DEF CsvType, GapInv, BackfillInv, LoggedInv, ArchiveInv, BridgeInv,
     Points, Spills, Times
<1>4. StatesInv'
  BY <1>1, <1>2 DEF StatesInv, Backed, Counted, Spills, Times
<1> QED BY <1>3, <1>4

(* A poll, as far as the CSVs go: rows newer than the newest remembered, file *)
(* after file until one fails.                                                *)
Asked == {c \in Window(LOOKBACK_S) : c > watcher.logged}
Logs(bad) ==
    /\ csv' = csv \cup Written(Asked, bad)
    /\ watcher' = [connected |-> watcher'.connected, logged |-> LastLogged(Asked, bad),
                   archived |-> watcher'.archived, pulse |-> watcher'.pulse]
    /\ logged_at' = logged_at \/ (logged_at' = now /\ Written(Asked, bad) = Asked)
    /\ UNCHANGED <<feed, now, cycle, backfill>>

(* Such a poll leaves no gap, and when all is written nothing is missing in*)
(* the window.                                                             *)
LEMMA PollLogs ==
    ASSUME CsvType, GapInv, LoggedInv, NEW bad \in FilesOrNone, Logs(bad)
    PROVE  CsvType' /\ GapInv' /\ LoggedInv' /\ csv \subseteq csv'
<1> DEFINE new == Asked
           wrote == Written(new, bad)
<1>1. now \in Nat /\ Points' = Points /\ Times' = Times /\ now' = now
  BY DEF CsvType, Logs, Points, Times
<1>2. Points \subseteq 0..now /\ csv \subseteq Points /\ watcher.logged \in csv \cup {Never}
  BY DEF CsvType, Points, Times
<1>13. csv \subseteq 0..now /\ (\A c \in Points : c \in Int) /\ \A c \in csv : c \in Int
  BY <1>1, <1>2
<1>14. watcher.logged \in Int /\ (watcher.logged \in csv \/ watcher.logged = -1)
  <2>1. CASE watcher.logged \in csv
    BY <1>13, <2>1
  <2>2. CASE watcher.logged = Never
    BY <2>2 DEF Never
  <2> QED BY <1>2, <2>1, <2>2
<1>3. new \subseteq Points /\ wrote \subseteq new
  BY DEF Window, Written, Asked
<1> HIDE DEF new
<1>4. csv' = csv \cup wrote /\ csv' \subseteq Points
  BY <1>2, <1>3 DEF Logs, new
<1>5. watcher'.logged \in csv' \cup {Never}
  <2>1. CASE wrote = new
    <3>1. watcher'.logged = Latest(new \cup {watcher.logged})
      BY <2>1 DEF Logs, LastLogged, new
    <3>2. new \cup {watcher.logged} \subseteq 0..now \cup {Never}
      BY <1>2, <1>3
    <3>3. Latest(new \cup {watcher.logged}) \in new \cup {watcher.logged} \cup {Never}
      BY <1>1, <3>2, LatestIs
    <3> QED BY <1>2, <1>4, <2>1, <3>1, <3>3
  <2>2. CASE wrote # new
    BY <1>2, <1>4, <2>2 DEF Logs, LastLogged, new
  <2> QED BY <2>1, <2>2
<1>6. \A c \in Points : c > now - LOOKBACK_S => c \in new \/ c <= watcher.logged
  <2>1. watcher.logged \in Int /\ \A c \in Points : c \in Int
    BY <1>13, <1>14
  <2> QED BY <2>1 DEF new, Asked, Window
<1>7. /\ Latest(csv) \in csv \cup {Never} /\ Latest(csv) \in Int
      /\ \A u \in csv : u \in Int /\ u <= Latest(csv)
  BY <1>1, <1>2, LatestIs
<1>8. watcher.logged <= Latest(csv) /\ watcher.logged \in Int
  <2>1. Latest(csv) >= -1
    BY <1>7, <1>13 DEF Never
  <2> QED BY <1>7, <1>14, <2>1
<1>9. ASSUME NEW c \in Points, c > now - LOOKBACK_S, c <= Latest(csv) \/ c <= watcher.logged
      PROVE  c \in csv
  <2>1. c \in Int
    BY <1>2
  <2>2. c <= Latest(csv)
    BY <1>7, <1>8, <1>9, <2>1
  <2> QED BY <1>9, <2>2 DEF GapInv
<1>10. GapInv'
  <2> SUFFICES ASSUME NEW c \in Points, c <= Latest(csv'), c > now - LOOKBACK_S
               PROVE  c \in csv'
    BY <1>1 DEF GapInv, Latest
  <2>1. Latest(csv') \in csv' \cup {Never}
    BY <1>1, <1>2, <1>4, LatestIs
  <2>2. c \in Nat
    BY <1>2
  <2>3. Latest(csv') \in csv \/ Latest(csv') \in wrote
    BY <1>4, <2>1, <2>2 DEF Never
  <2>4. CASE Latest(csv') \in csv
    <3>1. c <= Latest(csv)
      BY <1>7, <2>2, <2>4
    <3> QED BY <1>4, <1>9, <3>1
  <2>5. CASE Latest(csv') \in wrote
    <3>1. CASE c \in new
      <4>1. Latest(csv') \in Nat /\ File(Latest(csv')) < bad
        <5>1. \A d \in wrote : d \in new /\ File(d) < bad
          BY DEF Written
        <5>2. \A d \in new : d \in Nat
          BY <1>2, <1>3
        <5> HIDE DEF wrote
        <5> QED BY <2>5, <5>1, <5>2
      <4>2. File(c) <= File(Latest(csv'))
        BY <2>2, <4>1, FileMonotone
      <4>3. File(c) < bad
        BY <2>2, <4>1, <4>2, FileIs, BeamFeedAssumption DEF FilesOrNone
      <4> QED BY <1>4, <3>1, <4>3 DEF Written
    <3>2. CASE c <= watcher.logged
      BY <1>4, <1>9, <3>2
    <3> QED BY <1>6, <3>1, <3>2
  <2> QED BY <2>3, <2>4, <2>5
<1>11. LoggedInv'
  <2>1. CASE logged_at' = logged_at
    BY <1>1, <1>4, <2>1 DEF LoggedInv
  <2>2. CASE logged_at' = now /\ wrote = new
    BY <1>1, <1>4, <1>6, <1>9, <2>2 DEF LoggedInv
  <2> QED BY <2>1, <2>2 DEF Logs, new
<1>12. CsvType'
  <2>1. logged_at' \in Times \cup {Never}
    BY <1>1 DEF Logs, CsvType, Times
  <2>2. watcher' = [connected |-> watcher'.connected, logged |-> watcher'.logged,
                    archived |-> watcher'.archived, pulse |-> watcher'.pulse]
    BY DEF Logs
  <2> QED BY <1>1, <1>4, <1>5, <2>1, <2>2 DEF CsvType
<1> QED BY <1>4, <1>10, <1>11, <1>12

(* A poll of the beam watcher: the rows, and the state they are of.        *)
LEMMA PollBeamKeeps ==
    ASSUME FeedInv, PollBeam
    PROVE  FeedInv'
<1> USE DEF FeedInv
<1>1. PICK bad \in FilesOrNone, ok \in BOOLEAN :
         LET points == Window(LOOKBACK_S)
             pulse == Latest((points \cap Spills) \cup {watcher.pulse})
             new == {c \in points : c > watcher.logged}
         IN  /\ csv' = csv \cup Written(new, bad)
             /\ watcher' = [watcher EXCEPT !.pulse = pulse, !.logged = LastLogged(new, bad)]
             /\ logged_at' = IF Written(new, bad) = new THEN now ELSE logged_at
             /\ Publishes(BeamState(pulse), ok)
  BY DEF PollBeam
<1> DEFINE pulse == Latest((Window(LOOKBACK_S) \cap Spills) \cup {watcher.pulse})
<1>2. /\ csv' = csv \cup Written(Asked, bad)
      /\ logged_at' = IF Written(Asked, bad) = Asked THEN now ELSE logged_at
      /\ Publishes(BeamState(pulse), ok)
  BY <1>1 DEF Asked
<1>3. watcher' = [connected |-> watcher.connected, logged |-> LastLogged(Asked, bad),
                  archived |-> watcher.archived, pulse |-> pulse]
  <2> DEFINE l == LastLogged(Asked, bad)
  <2>1. watcher' = [watcher EXCEPT !.pulse = pulse, !.logged = l]
    BY <1>1 DEF Asked
  <2> HIDE DEF l, pulse
  <2>2. ASSUME NEW x, x = [watcher EXCEPT !.pulse = pulse, !.logged = l]
        PROVE  x = [connected |-> watcher.connected, logged |-> l, archived |-> watcher.archived,
                    pulse |-> pulse]
    BY <2>2 DEF CsvType
  <2> QED BY <2>1, <2>2 DEF l
<1>4. UNCHANGED <<feed, now, cycle, archive, bridge, local, mine, owed, backfill>> /\ feed = "beam"
  BY DEF PollBeam, banco
<1>5. pulse \in Spills \cup {Never}
  <2>1. now \in Nat /\ (Window(LOOKBACK_S) \cap Spills) \cup {watcher.pulse} \subseteq 0..now \cup {Never}
    BY DEF CsvType, StatesInv, Spills, Times
  <2>2. pulse \in (Window(LOOKBACK_S) \cap Spills) \cup {watcher.pulse} \cup {Never}
    BY <2>1, LatestIs
  <2> QED BY <2>2 DEF StatesInv
<1> HIDE DEF pulse
<1>6. Logs(bad)
  BY <1>2, <1>3, <1>4 DEF Logs
<1>7. CsvType' /\ GapInv' /\ LoggedInv' /\ csv \subseteq csv'
  BY <1>6, PollLogs
<1>8. BackfillInv' /\ ArchiveInv'
  BY <1>4 DEF BackfillInv, ArchiveInv, Points, Times
<1>9. StatesInv'
  <2>1. Backed(BeamState(pulse))
    BY <1>5 DEF BeamState, Backed, CsvType
  <2>2. Backed(published')
    BY <1>2, <2>1 DEF Publishes, StatesInv
  <2> QED BY <1>3, <1>4, <1>5, <2>2 DEF StatesInv, Backed, Counted, Spills, Times
<1>10. BridgeInv'
  BY <1>4, <1>7 DEF BridgeInv
<1> QED BY <1>7, <1>8, <1>9, <1>10

(* The line and the last spill, as a poll of the spill watcher sees them.  *)
LEMMA SpsStateBacked ==
    ASSUME now \in Nat, NEW bends
    PROVE  Backed(SpsState(bends))
<1> DEFINE sent == Window(LOOKBACK_S) \cap Spills
           last == Latest(sent)
<1>1. \A c \in sent : c \in Spills /\ c \in Times /\ c \in Nat /\ now - c < LOOKBACK_S
  BY BeamFeedAssumption DEF Window, Spills, Times
<1>2. last \in sent \cup {Never}
  <2>1. sent \subseteq 0..now \cup {Never}
    BY DEF Spills, Times
  <2> QED BY <2>1, LatestIs
<1> DEFINE recent == Window(COUNTS_S)
<1>3. Line(bends).line = "open" => recent \cap Spills # {} /\ recent \cap Counted # {}
  <2>1. CASE bends = "off"
    BY <2>1 DEF Line
  <2>2. CASE bends # "off" /\ recent \cap Spills = {}
    BY <2>2 DEF Line
  <2>3. CASE bends # "off" /\ recent \cap Spills # {}
    BY <2>3 DEF Line
  <2> QED BY <2>1, <2>2, <2>3
<1>4. /\ SpsState(bends).stamp = now /\ SpsState(bends).line = Line(bends).line
      /\ SpsState(bends).on = IF last # Never /\ now - last <= BEAM_OFF_GAP_S THEN "on" ELSE "off"
  BY DEF SpsState
<1> HIDE DEF sent, last
<1>5. SpsState(bends).on = "on" => \E c \in Spills : now - c <= BEAM_OFF_GAP_S
  BY <1>1, <1>2, <1>4
<1>6. SpsState(bends).line = "open" => /\ \E c \in Spills : now - c < COUNTS_S
                                       /\ \E c \in Counted : now - c < COUNTS_S
  <2>1. \A c \in recent : c \in Nat /\ now - c < COUNTS_S
    BY BeamFeedAssumption DEF Window, Points, Times
  <2> QED BY <1>3, <1>4, <2>1
<1> QED BY <1>4, <1>5, <1>6 DEF Backed

(* A poll of the spill watcher: the rows, then the profiles.               *)
LEMMA PollSpsKeeps ==
    ASSUME FeedInv, PollSps
    PROVE  FeedInv'
<1> USE DEF FeedInv
<1>1. PICK bad, badArchive \in FilesOrNone, bends \in {"on", "off", "silent"}, ok \in BOOLEAN :
         LET new == {c \in Window(LOOKBACK_S) : c > watcher.logged}
         IN  /\ csv' = csv \cup Written(new, bad)
             /\ archive' = archive \cup Written(ToArchive, badArchive)
             /\ watcher' = [watcher EXCEPT !.logged = LastLogged(new, bad),
                                           !.archived = LastArchived(badArchive)]
             /\ logged_at' = IF /\ Written(new, bad) = new
                                /\ Written(ToArchive, badArchive) = ToArchive
                             THEN now ELSE logged_at
             /\ Publishes(SpsState(bends), ok)
  BY DEF PollSps
<1> DEFINE profiles == Written(ToArchive, badArchive)
           archived == LastArchived(badArchive)
<1>2. /\ csv' = csv \cup Written(Asked, bad) /\ archive' = archive \cup profiles
      /\ logged_at' = IF Written(Asked, bad) = Asked /\ profiles = ToArchive THEN now ELSE logged_at
      /\ Publishes(SpsState(bends), ok)
  BY <1>1 DEF Asked
<1>3. watcher' = [connected |-> watcher.connected, logged |-> LastLogged(Asked, bad),
                  archived |-> archived, pulse |-> watcher.pulse]
  <2> DEFINE l == LastLogged(Asked, bad)
  <2>1. watcher' = [watcher EXCEPT !.logged = l, !.archived = archived]
    BY <1>1 DEF Asked
  <2> HIDE DEF l, archived
  <2>2. ASSUME NEW x, x = [watcher EXCEPT !.logged = l, !.archived = archived]
        PROVE  x = [connected |-> watcher.connected, logged |-> l, archived |-> archived,
                    pulse |-> watcher.pulse]
    BY <2>2 DEF CsvType
  <2> QED BY <2>1, <2>2 DEF l
<1>4. UNCHANGED <<feed, now, cycle, bridge, local, mine, owed, backfill>> /\ feed = "sps"
  BY DEF PollSps, banco
<1> HIDE DEF profiles, archived
<1>5. Logs(bad)
  BY <1>2, <1>3, <1>4 DEF Logs
<1>6. CsvType' /\ GapInv' /\ LoggedInv' /\ csv \subseteq csv'
  BY <1>5, PollLogs
<1>7. BackfillInv' /\ BridgeInv'
  BY <1>4, <1>6 DEF BackfillInv, BridgeInv, Points, Times, File
<1>8. StatesInv'
  <2>1. Backed(published')
    BY <1>2, SpsStateBacked DEF Publishes, StatesInv, CsvType
  <2> QED BY <1>3, <1>4, <2>1 DEF StatesInv, Backed, Counted, Spills, Times
<1>9. ArchiveInv'
  <2> DEFINE near == Window(PROFILE_LOOKBACK_S)
  <2>1. /\ now \in Nat /\ watcher.archived \in Int /\ logged_at \in Int
        /\ \A c \in Spills : c \in Int
        /\ \A c \in Spills : c <= watcher.archived /\ c > now - PROFILE_LOOKBACK_S => c \in archive
        /\ \A c \in Spills : c <= logged_at /\ c > logged_at - PROFILE_LOOKBACK_S => c \in archive
    BY <1>4 DEF CsvType, ArchiveInv, Spills, Times, Never
  <2>2. \A c \in Spills : c > now - PROFILE_LOOKBACK_S => c <= watcher.archived \/ c \in ToArchive
    BY <2>1 DEF ToArchive, Window, Points, Spills, Spill
  <2>3. archived = watcher.archived \/ (archived = Latest(near) /\ profiles = ToArchive)
    BY DEF LastArchived, archived, profiles
  <2>4. Latest(near) \in Times \cup {Never}
    <3>1. near \subseteq 0..now \cup {Never} /\ near \subseteq Times
      BY DEF Window, Points, Times
    <3> QED BY <2>1, <3>1, LatestIs
  <2>5. archived \in Times \cup {Never}
    BY <1>4, <2>3, <2>4 DEF ArchiveInv
  <2>6. ASSUME profiles = ToArchive, NEW c \in Spills, c > now - PROFILE_LOOKBACK_S
        PROVE  c \in archive'
    BY <1>2, <2>1, <2>2, <2>6
  <2>7. \A c \in Spills : c <= archived /\ c > now - PROFILE_LOOKBACK_S => c \in archive'
    BY <1>2, <2>1, <2>3, <2>6
  <2>8. \A c \in Spills : c <= logged_at' /\ c > logged_at' - PROFILE_LOOKBACK_S => c \in archive'
    BY <1>2, <2>1, <2>6
  <2> QED BY <1>3, <1>4, <2>5, <2>7, <2>8 DEF ArchiveInv, Spills, Times
<1> QED BY <1>6, <1>7, <1>8, <1>9

(* A poll that raises after its rows.                                      *)
LEMMA PollSpsHalfKeeps ==
    ASSUME FeedInv, PollSpsHalf
    PROVE  FeedInv'
<1> USE DEF FeedInv
<1>1. PICK bad \in FilesOrNone :
         LET new == {c \in Window(LOOKBACK_S) : c > watcher.logged}
         IN  /\ csv' = csv \cup Written(new, bad)
             /\ watcher' = [watcher EXCEPT !.logged = LastLogged(new, bad)]
  BY DEF PollSpsHalf
<1>2. /\ csv' = csv \cup Written(Asked, bad) /\ published' = Unknown(now)
      /\ UNCHANGED <<feed, now, cycle, archive, bridge, local, mine, owed, backfill, logged_at>>
  BY <1>1 DEF Asked, PollSpsHalf, banco
<1>3. watcher' = [connected |-> watcher.connected, logged |-> LastLogged(Asked, bad),
                  archived |-> watcher.archived, pulse |-> watcher.pulse]
  <2> DEFINE l == LastLogged(Asked, bad)
  <2>1. watcher' = [watcher EXCEPT !.logged = l]
    BY <1>1 DEF Asked
  <2> HIDE DEF l
  <2>2. ASSUME NEW x, x = [watcher EXCEPT !.logged = l]
        PROVE  x = [connected |-> watcher.connected, logged |-> l, archived |-> watcher.archived,
                    pulse |-> watcher.pulse]
    BY <2>2 DEF CsvType
  <2> QED BY <2>1, <2>2 DEF l
<1>4. Logs(bad)
  BY <1>2, <1>3 DEF Logs
<1>5. CsvType' /\ GapInv' /\ LoggedInv' /\ csv \subseteq csv'
  BY <1>4, PollLogs
<1>6. BackfillInv' /\ BridgeInv' /\ ArchiveInv'
  BY <1>2, <1>3, <1>5 DEF BackfillInv, BridgeInv, ArchiveInv, Points, Spills,
     Times, File
<1>7. StatesInv'
  <2>1. Backed(published')
    BY <1>2, UnknownIs DEF CsvType
  <2> QED BY <1>2, <1>3, <2>1 DEF StatesInv, Backed, Counted, Spills, Times
<1> QED BY <1>5, <1>6, <1>7

(* The backfill reads a past file: with what NXCALS has, it is all of it.  *)
LEMMA BackfillReadsKeeps ==
    ASSUME FeedInv, NEW f \in 0..File(MaxTime), BackfillReads(f)
    PROVE  FeedInv'
<1> USE DEF FeedInv
<1>1. /\ backfill' = [file |-> f, rows |-> Rows(csv, f) \cup Rows(Points, f)] /\ f < File(now)
      /\ UNCHANGED <<feed, now, cycle, watcher, csv, archive, published, bridge, local, mine, owed,
                     logged_at>>
  BY DEF BackfillReads, Rewritable, lxplus, banco
<1>2. Rows(csv, f) \cup Rows(Points, f) = Rows(Points, f)
  BY DEF CsvType, Rows
<1>3. BackfillInv'
  BY <1>1, <1>2 DEF BackfillInv, Rows, Points, Times, File
<1>4. CsvType' /\ GapInv' /\ LoggedInv' /\ ArchiveInv' /\ StatesInv' /\ BridgeInv'
  BY <1>1 DEF CsvType, GapInv, LoggedInv, ArchiveInv, StatesInv, Backed,
     Counted, BridgeInv, Points, Spills, Times
<1> QED BY <1>3, <1>4

(* It replaces the file: nothing is lost, and what is new leaves no gap, for *)
(* the file after it is not over.                                            *)
LEMMA BackfillReplacesKeeps ==
    ASSUME FeedInv, BackfillReplaces
    PROVE  FeedInv'
<1> USE DEF FeedInv
<1> DEFINE f == backfill.file
<1>1. /\ backfill' = NoBackfill /\ csv' = (csv \ Rows(csv, f)) \cup backfill.rows
      /\ UNCHANGED <<feed, now, cycle, watcher, archive, published, bridge, local, mine, owed,
                     logged_at>>
  BY DEF BackfillReplaces, banco
<1>2. f \in Nat /\ f < File(now) /\ backfill.rows = Rows(Points, f)
  BY DEF BackfillReplaces, BackfillInv
<1>3. now \in Nat /\ csv \subseteq Points /\ Points \subseteq 0..now
  BY DEF CsvType, Points, Times
<1> HIDE DEF f
<1>4. csv' = csv \cup Rows(Points, f) /\ csv' \subseteq Points
  BY <1>1, <1>2, <1>3 DEF Rows
<1>5. GapInv'
  <2> SUFFICES ASSUME NEW c \in Points, c <= Latest(csv'), c > now - LOOKBACK_S
               PROVE  c \in csv'
    BY <1>1 DEF GapInv, Points, Times, Latest
  <2>1. c \in Nat /\ \A d \in Points : d \in Nat
    BY <1>3
  <2>2. Latest(csv') \in csv' \cup {Never}
    BY <1>3, <1>4, LatestIs
  <2>3. Latest(csv') \in csv \/ Latest(csv') \in Rows(Points, f)
    BY <1>4, <2>1, <2>2 DEF Never
  <2>4. CASE Latest(csv') \in csv
    <3>1. Latest(csv) \in Int /\ Latest(csv') \in Nat /\ Latest(csv') <= Latest(csv)
      BY <1>3, <2>1, <2>4, LatestIs
    <3>2. c <= Latest(csv)
      BY <2>1, <3>1
    <3> QED BY <1>4, <3>2 DEF GapInv
  <2>5. CASE Latest(csv') \in Rows(Points, f)
    <3>1. Latest(csv') \in Nat /\ File(Latest(csv')) = f
      BY <2>1, <2>5 DEF Rows
    <3>2. File(c) <= f /\ File(c) \in Nat
      BY <2>1, <3>1, FileMonotone, FileIs
    <3>3. ~(File(c) < f)
      <4>1. now - LOOKBACK_S \in Int
        BY <1>3, BeamFeedAssumption
      <4> QED BY <1>2, <1>3, <2>1, <4>1, FileBetween
    <3>4. File(c) = f
      BY <1>2, <3>2, <3>3
    <3> QED BY <1>4, <3>4 DEF Rows
  <2> QED BY <2>3, <2>4, <2>5
<1>6. CsvType' /\ LoggedInv'
  BY <1>1, <1>4 DEF CsvType, LoggedInv, Points, Times
<1>7. BackfillInv' /\ ArchiveInv' /\ StatesInv' /\ BridgeInv'
  BY <1>1, <1>4 DEF BackfillInv, ArchiveInv, StatesInv, Backed, Counted,
     BridgeInv, Spills, Times
<1> QED BY <1>5, <1>6, <1>7

(* The profiles of an hour that has none.                                  *)
LEMMA BackfillProfilesKeeps ==
    ASSUME FeedInv, NEW f \in 0..File(MaxTime), BackfillProfiles(f)
    PROVE  FeedInv'
<1> USE DEF FeedInv
<1>1. /\ archive' = archive \cup Rows(Spills, f)
      /\ UNCHANGED <<feed, now, cycle, watcher, csv, published, bridge, local, mine, owed, backfill,
                     logged_at>>
  BY DEF BackfillProfiles, banco
<1> QED BY <1>1 DEF CsvType, GapInv, BackfillInv, LoggedInv, ArchiveInv, StatesInv, Backed, Counted, BridgeInv,
           Points, Spills, Times, Rows, File

(* The bridge lists what is to be copied: a file as long as on EOS is the same. *)
LEMMA BridgeStartsKeeps ==
    ASSUME FeedInv, BridgeStarts
    PROVE  FeedInv'
<1> USE DEF FeedInv
<1>1. PICK listed \in BOOLEAN :
         bridge' = [pc |-> "pull", last_ok |-> Never, missed |-> ~listed,
                    plan |-> IF listed THEN Backlog ELSE {}]
  BY DEF BridgeStarts
<1>2. /\ owed' = csv
      /\ UNCHANGED <<feed, now, cycle, watcher, csv, archive, published, local, mine, backfill,
                     logged_at>>
  BY DEF BridgeStarts, lxplus
<1>3. CsvType' /\ GapInv' /\ BackfillInv' /\ LoggedInv' /\ ArchiveInv' /\ StatesInv'
  BY <1>2 DEF CsvType, GapInv, BackfillInv, LoggedInv, ArchiveInv, StatesInv,
     Backed, Counted, Points, Spills, Times
<1>4. ASSUME NEW c \in csv, File(c) \notin Backlog PROVE c \in mine
  <2> DEFINE f == File(c)
  <2>1. now \in Nat /\ csv \subseteq 0..now /\ mine \subseteq csv /\ c \in Nat /\ c <= now
    BY DEF CsvType, BridgeInv, Points, Times
  <2>2. f \in 0..File(now)
    BY <2>1, FileIs, FileMonotone
  <2>3. Rows(mine, f) \subseteq Rows(csv, f) /\ Rows(csv, f) \subseteq 0..now
    BY <2>1 DEF Rows
  <2>4. IsFiniteSet(Rows(csv, f))
    <3>1. IsFiniteSet(0..now)
      BY <2>1, FS_Interval
    <3>2. Rows(csv, f) \in SUBSET (0..now)
      BY <2>3
    <3> QED BY <3>1, <3>2, FS_Subset
  <2>5. /\ Cardinality(Rows(mine, f)) <= Cardinality(Rows(csv, f))
        /\ Cardinality(Rows(csv, f)) = Cardinality(Rows(mine, f)) => Rows(csv, f) = Rows(mine, f)
        /\ Cardinality(Rows(mine, f)) \in Nat /\ Cardinality(Rows(csv, f)) \in Nat
    BY <2>3, <2>4, FS_Subset, FS_CardinalityType
  <2>6. Rows(csv, f) = Rows(mine, f)
    BY <1>4, <2>2, <2>5 DEF Backlog
  <2> QED BY <2>6 DEF Rows
<1>5. BridgeInv'
  <2>1. bridge'.missed = ~listed /\ (listed => bridge'.plan = Backlog)
    BY <1>1
  <2>2. ~bridge'.missed => \A c \in csv : c \in mine \/ File(c) \in bridge'.plan
    BY <1>4, <2>1
  <2> QED BY <1>1, <1>2, <2>2 DEF BridgeInv
<1> QED BY <1>3, <1>5

(* Its copy of the state, and of the file of today.                        *)
LEMMA BridgePullsKeeps ==
    ASSUME FeedInv, BridgePulls
    PROVE  FeedInv'
<1> USE DEF FeedInv
<1>1. PICK got \in BOOLEAN, gotCsv \in BOOLEAN :
         /\ Judged(got)
         /\ mine' = IF gotCsv THEN (mine \ Rows(mine, File(now))) \cup Rows(csv, File(now)) ELSE mine
  BY DEF BridgePulls
<1>2. UNCHANGED <<feed, now, cycle, watcher, csv, archive, published, backfill, logged_at, owed>>
  BY DEF BridgePulls, lxplus
<1>3. CsvType' /\ GapInv' /\ BackfillInv' /\ LoggedInv' /\ ArchiveInv'
  BY <1>2 DEF CsvType, GapInv, BackfillInv, LoggedInv, ArchiveInv, Points,
     Spills, Times
<1>4. StatesInv'
  <2>1. local' = published \/ local' = Unknown(now) \/ local' = local
    BY <1>1 DEF Judged
  <2>2. Backed(local')
    BY <2>1, UnknownIs DEF StatesInv, CsvType
  <2> QED BY <1>2, <2>2 DEF StatesInv, Backed, Counted, Spills, Times
<1>5. BridgeInv'
  <2>1. /\ bridge' = [pc |-> "drain", last_ok |-> bridge'.last_ok, plan |-> bridge.plan,
                      missed |-> bridge.missed]
    <3>1. PICK ok : bridge' = [bridge EXCEPT !.pc = "drain", !.last_ok = ok]
      BY <1>1 DEF Judged
    <3>2. ASSUME NEW x, x = [bridge EXCEPT !.pc = "drain", !.last_ok = ok]
          PROVE  x = [pc |-> "drain", last_ok |-> x.last_ok, plan |-> bridge.plan,
                      missed |-> bridge.missed]
      BY <3>2 DEF BridgeInv
    <3> QED BY <3>1, <3>2
  <2>2. mine \subseteq mine' /\ mine' \subseteq csv
    BY <1>1 DEF BridgeInv, Rows
  <2>3. bridge.pc # "down"
    BY DEF BridgePulls
  <2> QED BY <1>2, <2>1, <2>2, <2>3 DEF BridgeInv, File
<1> QED BY <1>3, <1>4, <1>5

(* Its next few files of the backlog: one that fails is remembered as missed. *)
LEMMA BridgeDrainsKeeps ==
    ASSUME FeedInv, BridgeDrains
    PROVE  FeedInv'
<1> USE DEF FeedInv
<1> DEFINE batch == {f \in bridge.plan : Cardinality({g \in bridge.plan : g > f}) < CATCHUP_PER_POLL}
<1>1. PICK ok \in SUBSET batch :
         /\ mine' = mine \cup {c \in csv : File(c) \in ok}
         /\ bridge' = [bridge EXCEPT !.pc = "pull", !.plan = @ \ batch, !.missed = @ \/ ok # batch]
  BY DEF BridgeDrains
<1>2. /\ UNCHANGED <<feed, now, cycle, watcher, csv, archive, published, backfill, logged_at, local,
                     owed>>
      /\ bridge.pc = "drain"
  BY DEF BridgeDrains, lxplus
<1> HIDE DEF batch
<1>3. CsvType' /\ GapInv' /\ BackfillInv' /\ LoggedInv' /\ ArchiveInv' /\ StatesInv'
  BY <1>2 DEF CsvType, GapInv, BackfillInv, LoggedInv, ArchiveInv, StatesInv,
     Backed, Counted, Points, Spills, Times
<1>4. BridgeInv'
  <2> DEFINE missed == bridge.missed \/ ok # batch
             plan == bridge.plan \ batch
  <2>1. bridge' = [bridge EXCEPT !.pc = "pull", !.plan = plan, !.missed = missed]
    BY <1>1
  <2>2. missed \in BOOLEAN /\ (~missed => ~bridge.missed /\ ok = batch)
    OBVIOUS
  <2> HIDE DEF missed, plan
  <2>3. ASSUME NEW x, x = [bridge EXCEPT !.pc = "pull", !.plan = plan, !.missed = missed]
        PROVE  x = [pc |-> "pull", last_ok |-> x.last_ok, plan |-> plan, missed |-> missed]
    BY <2>3 DEF BridgeInv
  <2>4. bridge' = [pc |-> "pull", last_ok |-> bridge'.last_ok, plan |-> plan, missed |-> missed]
    BY <2>1, <2>3
  <2>5. mine \subseteq csv /\ owed \subseteq csv /\ mine' \subseteq csv
    BY <1>1 DEF BridgeInv
  <2>6. ASSUME ~missed, NEW c \in owed PROVE c \in mine' \/ File(c) \in plan
    <3>1. c \in mine \/ File(c) \in bridge.plan
      BY <1>2, <2>2, <2>6 DEF BridgeInv
    <3> QED BY <1>1, <2>2, <2>5, <2>6, <3>1 DEF plan
  <2> QED BY <1>2, <2>2, <2>4, <2>5, <2>6 DEF BridgeInv, File
<1> QED BY <1>3, <1>4

(* The initial states.                                                     *)
LEMMA FeedStart ==
    ASSUME FeedInit
    PROVE  FeedInv
<1>1. CsvType /\ GapInv /\ BackfillInv /\ LoggedInv /\ ArchiveInv
  <2>1. \A c \in Points : c \in Nat
    BY DEF Points, Times, FeedInit
  <2>2. Latest({}) = Never
    BY LatestIs
  <2> QED BY <2>1, <2>2 DEF FeedInit, CsvType, GapInv, BackfillInv, LoggedInv, ArchiveInv, Points,
             Spills, Times, Never
<1>2. StatesInv /\ BridgeInv
  BY UnknownIs DEF FeedInit, StatesInv, BridgeInv
<1> QED BY <1>1, <1>2 DEF FeedInv

(* Every step keeps the invariant, and one that changes nothing.           *)
LEMMA FeedKeeps ==
    ASSUME FeedInv, [FeedNext]_feed_vars
    PROVE  FeedInv'
<1>1. CASE FeedNext
  BY <1>1, TicksKeeps, WatcherStartsKeeps, ConnectsKeeps, PollBeamKeeps,
     PollSpsKeeps, PollSpsHalfKeeps, BackfillReadsKeeps, BackfillProfilesKeeps,
     BackfillReplacesKeeps, BridgeStartsKeeps, BridgePullsKeeps,
     BridgeDrainsKeeps DEF FeedNext
<1>2. CASE UNCHANGED feed_vars
  BY <1>2 DEF feed_vars, lxplus, banco, FeedInv, CsvType, GapInv, BackfillInv,
     LoggedInv, ArchiveInv, StatesInv, Backed, Counted, BridgeInv, Points,
     Spills, Times, File, Rows
<1> QED BY <1>1, <1>2

-----------------------------------------------------------------------------

(* FeedInv holds in every reachable state, for all values of the constants.*)
THEOREM BeamFeedInvariance == FeedSpec => []FeedInv
<1>1. FeedInit => FeedInv
  BY FeedStart
<1>2. FeedInv /\ [FeedNext]_feed_vars => FeedInv'
  BY FeedKeeps
<1> QED BY <1>1, <1>2, PTL DEF FeedSpec

(* The page says "beam on" and "line open" only of a spill no longer ago than  *)
(* the watcher's own window and one staleness, whatever in the chain of copies *)
(* is frozen or dead (beam_bridge.py, flask_app/app.py).                       *)
THEOREM OldStateIsNotShown == FeedSpec => []NeverOldOn
<1>1. FeedInv => NeverOldOn
  <2> SUFFICES ASSUME FeedInv, Fresh(local) PROVE NeverOldOn
    BY DEF NeverOldOn, OnPage, NoFile
  <2>1. OnPage = local /\ now - local.stamp <= STALE_S
    BY DEF OnPage, Fresh
  <2>2. /\ now \in Int /\ local.stamp \in Int
        /\ {BEAM_OFF_GAP_S, STALE_S, COUNTS_S} \subseteq Nat
    BY BeamFeedAssumption DEF FeedInv, CsvType, StatesInv, Backed
  <2>3. \A c \in Times : c \in Int
    BY DEF Times
  <2>4. OnPage.on = "on" => \E c \in Spills : now - c <= BEAM_OFF_GAP_S + STALE_S
    BY <2>1, <2>2, <2>3 DEF FeedInv, StatesInv, Backed, Spills
  <2>5. OnPage.line = "open" =>
           /\ \E c \in Spills : now - c < COUNTS_S + STALE_S
           /\ \E c \in Counted : now - c < COUNTS_S + STALE_S
    BY <2>1, <2>2, <2>3 DEF FeedInv, StatesInv, Backed, Spills, Counted
  <2> QED BY <2>4, <2>5 DEF NeverOldOn
<1> QED BY <1>1, BeamFeedInvariance, PTL

(* Every cycle in the window of a poll that could write is on EOS, and what*)
(* EOS had when the bridge started is on banco once its backlog is copied  *)
(* (beam_intensity_controller.py, sps_spill_controller.py, beam_bridge.py).*)
THEOREM CyclesAreRecorded == FeedSpec => []Recorded
<1>1. FeedInv => Recorded
  <2> SUFFICES ASSUME FeedInv PROVE Recorded
    OBVIOUS
  <2>1. OnEos
    BY DEF FeedInv, LoggedInv, ArchiveInv, OnEos
  <2>2. CaughtUp
    BY DEF FeedInv, BridgeInv, CaughtUp
  <2> QED BY <2>1, <2>2 DEF Recorded
<1> QED BY <1>1, BeamFeedInvariance, PTL

=============================================================================
