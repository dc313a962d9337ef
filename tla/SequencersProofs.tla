--------------------------- MODULE SequencersProofs ---------------------------
(***************************************************************************)
(* What TLAPS proves of Sequencers at the beam, for any scan list and any  *)
(* number of runs, recoveries, troubles and things the operator does: that *)
(* run numbers are fresh, that a scan takes its configurations, and that   *)
(* it leaves the crate off.  All three rest on the Dream run of a run: it  *)
(* is what keeps the three actors' starts apart (OneRunInv); off the beam  *)
(* TLC finds the first two violated.  First the inductive invariant, in    *)
(* named parts; then one lemma per action, with one step per part.         *)
(***************************************************************************)
EXTENDS Sequencers, TLAPS

\* A run configuration.  Names, plans and points need no type here.
IsJson(j) ==
    /\ j = [number |-> j.number, plan |-> j.plan, chip |-> j.chip, points |-> j.points,
            continues |-> j.continues, resume |-> j.resume, hold |-> j.hold,
            stale |-> j.stale]
    /\ j.number \in Nat /\ j.resume \in BOOLEAN /\ j.hold \in BOOLEAN /\ j.stale \in BOOLEAN

NameType ==
    /\ number \in Nat /\ mark \in Nat /\ resume \in BOOLEAN
    /\ dirs \subseteq 0..mark /\ used \subseteq 0..mark

JsonType == IsJson(json) /\ json.number <= mark

RunType ==
    /\ run = [st |-> run.st, json |-> run.json, chip |-> run.chip, dead |-> run.dead,
              empty |-> run.empty]
    /\ run.st \in {None, "up", "taking", "ending"} /\ IsJson(run.json)

PairType ==
    /\ armed \in BOOLEAN /\ hv_hold \in BOOLEAN /\ no_auto_recovery \in BOOLEAN
    /\ dream = [st |-> dream.st, hold |-> dream.hold]
    /\ dream.st \in {"idle", "running", "stopping"} /\ dream.hold \in BOOLEAN
    /\ crate \in {"on", "off"}

GuardType ==
    /\ guard = [at |-> guard.at, json |-> guard.json, point |-> guard.point,
                stopped_run |-> guard.stopped_run, recoveries |-> guard.recoveries]
    /\ guard.at \in {"watch", "judge", "exit", "dream", "reset", "apply", "start", "again"}

ScanType ==
    /\ scan = [at |-> scan.at, i |-> scan.i, complete |-> scan.complete,
               crossed |-> scan.crossed]
    /\ scan.at \in {"idle", "begin", "next", "ready", "reset", "apply", "start", "appear",
                    "watch"}
    /\ scan.i \in Nat /\ scan.complete \in BOOLEAN /\ scan.crossed \in BOOLEAN

TypeInv == NameType /\ JsonType /\ RunType /\ PairType /\ GuardType /\ ScanType

\* As long as a run is waited for, is there or is being ended, its Dream run is
\* on, which lets no other start.
OneRunInv ==
    /\ typed \in {0, 1}
    /\ typed = 1 => run.st = None /\ dream.st = "running"
    /\ dream.st # "running" => run.st = None

\* The run that is waited for has a number of its own, or one it resumes, or an
\* old json.
Resuming(j) == j.resume /\ Unfinished(j.number, j.points)
New(j) == j # NoJson /\ (j.stale \/ j.number \notin used \/ Resuming(j))
FreshInv == typed = 1 => New(json)

\* The flag keeps the guard from recovering under a scan it did not cross.
FlagInv ==
    scan.at \notin {"idle", "begin"} /\ ~scan.crossed =>
        guard.at \in {"watch", "judge"} /\ no_auto_recovery

Uncrossed(places) == scan.at \in places /\ ~scan.crossed

\* From the scan's start to the end of its run nobody applies, arms or generates.
AppliedInv ==
    /\ Uncrossed({"start", "appear", "watch"}) => applied = Config
    /\ Uncrossed({"appear", "watch"}) => ~armed

\* The run the scan waits for and watches is that of the json it verifies.
ScanRunInv ==
    /\ Uncrossed({"appear", "watch"}) /\ run.st # None =>
          run.json.chip = json.chip /\ run.json.plan = json.plan
    /\ Uncrossed({"appear", "watch"}) /\ run.st = "taking" => run.chip = applied
    /\ Uncrossed({"watch"}) => typed = 0 /\ json.plan = "config_scan" /\ json.chip = Config

\* The crate is held for the configurations of a scan but the last.
HoldInv ==
    /\ scan.at \in {"idle", "begin"} => ~hv_hold
    /\ scan.at \notin {"idle", "begin", "next"} => hv_hold = Held

\* What the Dream run of the scan's last run leaves behind.
LastInv ==
    Uncrossed({"appear", "watch"}) /\ scan.i = Len(ScanList) /\ ~json.stale =>
        ~json.hold /\ IF dream.st = "idle" THEN crate = "off" ELSE ~dream.hold

\* After a scan that was complete nobody holds the crate.
CompleteInv ==
    scan.complete =>
        /\ scan.at = "idle" \/ (scan.at = "next" /\ scan.i > Len(ScanList))
        /\ ~scan.crossed => /\ ~hv_hold /\ ~json.hold
                           /\ IF dream.st = "idle" THEN crate = "off" ELSE ~dream.hold

IInv ==
    /\ TypeInv /\ OneRunInv /\ FreshInv /\ FlagInv /\ AppliedInv /\ ScanRunInv
    /\ HoldInv /\ LastInv /\ CompleteInv

-----------------------------------------------------------------------------

(* The larger of two. *)
LEMMA MaxOfTwo ==
    ASSUME NEW a \in Nat, NEW b \in Nat
    PROVE  Max({a, b}) = IF a >= b THEN a ELSE b
<1> DEFINE m == IF a >= b THEN a ELSE b
<1>1. m \in {a, b} /\ \A y \in {a, b} : m >= y
  OBVIOUS
<1>2. Max({a, b}) \in {a, b} /\ \A y \in {a, b} : Max({a, b}) >= y
  BY <1>1 DEF Max
<1> QED
  BY <1>1, <1>2

(* iterate_run_num.py hands out a number above the mark, which follows it,  *)
(* or keeps one that is not above it, to resume there.                      *)
LEMMA IteratesFacts ==
    ASSUME NameType, mark < MaxRuns, Iterates
    PROVE  /\ number' \in Nat /\ mark' \in Nat /\ mark <= mark'
           /\ Generates => number' <= mark'
           /\ Generates => mark < number' \/ (KeepsToResume /\ number' = number)
<1> USE SequencersAssumption DEF NameType, FreeNumber
<1>1. CASE Generates /\ FreeNumber(number)
  BY <1>1, MaxOfTwo DEF Iterates
<1>2. CASE Generates /\ ~FreeNumber(number) /\ ~KeepsToResume
  <2> DEFINE next == CHOOSE n \in number + 1 .. MaxRuns + 1 :
                        FreeNumber(n) /\ \A m \in number + 1 .. n - 1 : ~FreeNumber(m)
  <2>1. number <= mark
    BY <1>2
  <2>2. /\ mark + 1 \in number + 1 .. MaxRuns + 1 /\ FreeNumber(mark + 1)
        /\ \A m \in number + 1 .. mark + 1 - 1 : ~FreeNumber(m)
    BY <2>1
  <2>3. next \in number + 1 .. MaxRuns + 1 /\ FreeNumber(next)
    BY <2>2
  <2>4. number' = next /\ mark' = Max({mark, next})
    BY <1>2 DEF Iterates
  <2> HIDE DEF next
  <2> QED BY <2>3, <2>4, MaxOfTwo
<1>3. CASE ~Generates
  BY <1>3 DEF Iterates
<1>4. CASE Generates /\ ~FreeNumber(number) /\ KeepsToResume
  BY <1>4 DEF Iterates
<1> QED
  BY <1>1, <1>2, <1>3, <1>4

(* A record with the fields of a run configuration is one.                 *)
LEMMA JsonRecord ==
    ASSUME NEW n \in Nat, NEW p, NEW c, NEW q, NEW b,
           NEW r \in BOOLEAN, NEW h \in BOOLEAN, NEW j,
           j = [number |-> n, plan |-> p, chip |-> c, points |-> q, continues |-> b,
                resume |-> r, hold |-> h, stale |-> FALSE]
    PROVE  /\ IsJson(j) /\ j.number = n /\ j.hold = h /\ ~j.stale
           /\ j.resume = r /\ j.points = q
BY DEF IsJson

(* The generated one has the new number and the settings of now.          *)
LEMMA GeneratedFacts ==
    ASSUME number' \in Nat, hv_hold \in BOOLEAN, resume \in BOOLEAN
    PROVE  /\ IsJson(Generated) /\ Generated.number = number'
           /\ Generated.hold = hv_hold /\ ~Generated.stale
           /\ Generated.resume = resume /\ Generated.points = NextPoints
<1> DEFINE q == NextPoints
           p == NextPlan
           b == continuation # NoContinuation
<1>1. Generated = [number |-> number', plan |-> p, chip |-> applied, points |-> q,
                   continues |-> b, resume |-> resume, hold |-> hv_hold,
                   stale |-> FALSE]
  BY DEF Generated
<1>2. q = NextPoints
  OBVIOUS
<1> HIDE DEF q, p, b
<1> QED
  BY <1>1, <1>2, JsonRecord

(* An old json that is kept is marked stale, and otherwise what it was.    *)
LEMMA StaleFacts ==
    ASSUME IsJson(json), NEW b \in BOOLEAN
    PROVE  LET j == [json EXCEPT !.stale = b]
           IN  /\ IsJson(j) /\ j.stale = b
               /\ j.number = json.number /\ j.hold = json.hold
BY DEF IsJson

(* Fewer sub-runs make no other run configuration.                        *)
LEMMA PointsFacts ==
    ASSUME NEW k, IsJson(k), NEW q, NEW j, j = [k EXCEPT !.points = q]
    PROVE  IsJson(j) /\ j.chip = k.chip /\ j.plan = k.plan
BY DEF IsJson

(* What a start does to the json: nothing, or the json of this request with a *)
(* number above the mark, or the old one, stale.                              *)
LEMMA JsonFacts ==
    ASSUME NameType, JsonType, PairType, Start
    PROVE  /\ IsJson(json') /\ json'.number <= mark'
           /\ \/ ~armed /\ json' = json
              \/ /\ Generates /\ ~json'.stale /\ json'.hold = hv_hold
                 /\ mark < json'.number \/ Resuming(json')
              \/ ~Generates /\ json = NoJson /\ json' = json
              \/ /\ ~Generates /\ json # NoJson /\ json'.stale
                 /\ json'.hold = json.hold
<1>0. /\ number' \in Nat /\ mark' \in Nat /\ mark <= mark'
      /\ Generates => number' <= mark'
      /\ Generates => mark < number' \/ (KeepsToResume /\ number' = number)
  BY IteratesFacts DEF Start
<1>1. mark \in Nat /\ IsJson(json) /\ json.number \in Nat /\ json.number <= mark
      /\ hv_hold \in BOOLEAN /\ resume \in BOOLEAN
  BY DEF NameType, JsonType, IsJson, PairType
<1>2. json' = IF ~armed THEN json
              ELSE IF Generates THEN Generated ELSE [json EXCEPT !.stale = (json # NoJson)]
  BY DEF Start, RunConfigPy
<1>3. CASE ~armed
  BY <1>0, <1>1, <1>2, <1>3
<1>4. CASE armed /\ Generates
  <2>1. /\ IsJson(json') /\ json'.number = number' /\ json'.hold = hv_hold /\ ~json'.stale
        /\ json'.resume = resume /\ json'.points = NextPoints
    BY <1>0, <1>1, <1>2, <1>4, GeneratedFacts
  <2>2. KeepsToResume /\ number' = number => Resuming(json')
    BY <2>1 DEF KeepsToResume, Resuming
  <2> QED BY <1>0, <1>1, <1>4, <2>1, <2>2
<1>5. CASE armed /\ ~Generates /\ json = NoJson
  <2>1. json' = json
    BY <1>1, <1>2, <1>5 DEF NoJson, IsJson
  <2> QED BY <1>0, <1>1, <1>5, <2>1
<1>6. CASE armed /\ ~Generates /\ json # NoJson
  <2>1. json' = [json EXCEPT !.stale = TRUE]
    BY <1>2, <1>6
  <2>2. IsJson(json') /\ json'.stale /\ json'.number = json.number /\ json'.hold = json.hold
    BY <1>1, <2>1, StaleFacts
  <2> QED BY <1>0, <1>1, <1>6, <2>2
<1> QED
  BY <1>3, <1>4, <1>5, <1>6

(* What the two routes of a start change, at the beam.                     *)
LEMMA StartFacts ==
    ASSUME BeamSite, IInv, Start
    PROVE  /\ NameType' /\ JsonType'
           /\ UNCHANGED <<dirs, marked, used, resume, RUN_PLAN, selected, applied, run, beam>>
           /\ ~armed => json' = json /\ UNCHANGED <<armed, typed, paired>>
           /\ json' = json \/ New(json')
           /\ json' = json \/ json'.hold \in {json.hold, hv_hold}
           /\ json' = json \/ json'.stale \/ json'.hold = hv_hold
           /\ UNCHANGED <<hv_hold, no_auto_recovery>> => PairType'
           /\ \/ Refused /\ UNCHANGED <<armed, typed, paired>>
              \/ /\ ~Refused /\ armed /\ ~armed' /\ typed = 0 /\ typed' = 1
                 /\ dream.st = "idle" /\ run.st = None
                 /\ dream'.st = "running" /\ dream'.hold = json'.hold
                 /\ crate' = "on" /\ New(json')
                 /\ json'.stale \/ json'.hold = hv_hold
<1> USE DEF IInv, TypeInv, New
<1>1. /\ number' \in Nat /\ mark' \in Nat /\ mark <= mark'
  BY IteratesFacts DEF Start
<1>2. UNCHANGED <<dirs, marked, used, resume, RUN_PLAN, selected, applied, run, beam>>
  BY DEF Start, RunConfigPy
<1>3. NameType'
  BY <1>1, <1>2 DEF NameType
<1>4. JsonType'
  BY JsonFacts DEF JsonType
<1>5. ASSUME NEW n \in Nat, mark < n
      PROVE  n \notin used
  BY <1>5 DEF NameType
<1>6. /\ json' = json \/ New(json')
      /\ armed /\ (Generates \/ json # NoJson) => New(json')
  <2>1. mark \in Nat /\ json'.number \in Nat
    BY JsonFacts DEF NameType, IsJson
  <2>2. mark < json'.number => New(json')
    BY <1>5, <2>1 DEF NoJson
  <2>3. Resuming(json') => New(json')
    BY DEF NoJson, Resuming
  <2>4. json'.stale => New(json')
    BY DEF NoJson
  <2> QED BY <2>2, <2>3, <2>4, JsonFacts
<1>7. json' = json \/ json'.stale \/ json'.hold = hv_hold
  BY JsonFacts
<1>8. json' = json \/ json'.hold \in {json.hold, hv_hold}
  BY JsonFacts
<1>9. CASE Refused
  <2>1. UNCHANGED <<armed, typed, paired>>
    BY <1>9 DEF Start, RunConfigPy
  <2>2. ~armed => json' = json
    BY DEF Start, RunConfigPy
  <2>3. UNCHANGED <<hv_hold, no_auto_recovery>> => PairType'
    BY <2>1 DEF PairType, paired
  <2> QED BY <1>2, <1>3, <1>4, <1>6, <1>7, <1>8, <1>9, <2>1, <2>2, <2>3
<1>10. CASE ~Refused
  <2>1. armed /\ armed' = FALSE /\ typed' = typed + 1 /\ dream.st = "idle"
    BY <1>10 DEF Start, RunConfigPy, Refused
  <2>2. dream' = [st |-> "running", hold |-> json'.hold] /\ crate' = "on"
    BY <1>10 DEF Start, RunConfigPy
  <2>3. typed = 0 /\ typed' = 1 /\ run.st = None
    BY <2>1 DEF OneRunInv
  <2>4. New(json') /\ (json'.stale \/ json'.hold = hv_hold)
    <3>1. Generates \/ json # NoJson
      BY <1>10, <2>1 DEF Refused
    <3>2. json'.stale \/ json'.hold = hv_hold
      BY <2>1, <3>1, JsonFacts
    <3> QED BY <1>6, <2>1, <3>1, <3>2
  <2>5. json'.hold \in BOOLEAN
    BY JsonFacts DEF IsJson
  <2>6. /\ dream' = [st |-> dream'.st, hold |-> dream'.hold]
        /\ dream'.st = "running" /\ dream'.hold = json'.hold
    BY <2>2
  <2>7. UNCHANGED <<hv_hold, no_auto_recovery>> => PairType'
    BY <2>1, <2>2, <2>5, <2>6 DEF PairType
  <2> QED
    BY <1>2, <1>3, <1>4, <1>6, <1>7, <1>8, <1>10, <2>1, <2>2, <2>3, <2>4, <2>6,
       <2>7
<1> QED
  BY <1>9, <1>10

(* The next configuration of a scan, whatever became of this one.          *)
LEMMA NextConfigFacts ==
    ASSUME ScanType, NextConfig
    PROVE  /\ ScanType'
           /\ scan' = [at |-> "next", i |-> scan.i + 1, complete |-> scan.complete,
                       crossed |-> scan.crossed]
<1>1. scan' = [at |-> "next", i |-> scan.i + 1, complete |-> scan.complete,
               crossed |-> scan.crossed]
  BY DEF ScanType, NextConfig
<1>2. scan.i + 1 \in Nat
  BY DEF ScanType
<1> QED
  BY <1>1, <1>2 DEF ScanType

(* The end of a run that the scan watched.                                 *)
LEMMA SeesEndFacts ==
    ASSUME ScanType, ScanSeesEnd
    PROVE  /\ ScanType'
           /\ scan'.at = "next" /\ scan'.i = scan.i + 1 /\ scan'.crossed = scan.crossed
           /\ scan'.complete = (scan.i = Len(ScanList) /\ ~json.stale)
<1> DEFINE last == scan.i = Len(ScanList) /\ ~json.stale
<1>1. scan' = [at |-> "next", i |-> scan.i + 1, complete |-> last,
               crossed |-> scan.crossed]
  BY DEF ScanType, ScanSeesEnd
<1>2. scan.i + 1 \in Nat /\ last \in BOOLEAN
  BY DEF ScanType
<1> HIDE DEF last
<1>3. ScanType'
  BY <1>1, <1>2 DEF ScanType
<1>4. /\ scan'.at = "next" /\ scan'.i = scan.i + 1 /\ scan'.crossed = scan.crossed
      /\ scan'.complete = last
  BY <1>1
<1> QED
  BY <1>3, <1>4 DEF last

-----------------------------------------------------------------------------

(* The initial states. *)
LEMMA InitIInv ==
    ASSUME Init
    PROVE  IInv
<1> USE DEF Init, None, NoRun, NoJson
<1>1. NameType
  BY DEF NameType
<1>2. JsonType
  BY DEF JsonType, IsJson
<1>3. RunType
  BY DEF RunType, IsJson
<1>4. PairType
  BY DEF PairType
<1>5. GuardType
  BY DEF GuardType
<1>6. ScanType
  BY DEF ScanType
<1>7. OneRunInv
  BY DEF OneRunInv
<1>8. FreshInv
  BY DEF FreshInv, New, Resuming, Unfinished
<1>9. FlagInv
  BY DEF FlagInv
<1>10. AppliedInv
  BY DEF AppliedInv, Uncrossed, Config
<1>11. ScanRunInv
  BY DEF ScanRunInv, Uncrossed, Config
<1>12. HoldInv
  BY DEF HoldInv, Held
<1>13. LastInv
  BY DEF LastInv, Uncrossed
<1>14. CompleteInv
  BY DEF CompleteInv
<1> QED
  BY <1>1, <1>2, <1>3, <1>4, <1>5, <1>6, <1>7, <1>8, <1>9, <1>10, <1>11, <1>12,
     <1>13, <1>14 DEF IInv, TypeInv

(* Appears keeps the invariant. *)
LEMMA AppearsKeeps ==
    ASSUME BeamSite, IInv, Appears
    PROVE  IInv'
<1> USE DEF IInv, TypeInv, Appears, NoRun, names, plans, chips, daq, paired,
      flags, bounds, None
<1>1. JsonType' /\ PairType' /\ GuardType' /\ ScanType' /\ FlagInv' /\
      AppliedInv' /\ HoldInv' /\ LastInv' /\ CompleteInv'
  BY DEF JsonType, IsJson, PairType, GuardType, ScanType, FlagInv, AppliedInv,
     Uncrossed, Config, HoldInv, Held, LastInv, CompleteInv
<1>2. NameType'
  BY DEF NameType, JsonType, IsJson
<1>3. run' = [st |-> "up", json |-> run'.json, chip |-> None, dead |-> FALSE,
             empty |-> FALSE]
  BY DEF RunType
<1>4. /\ IsJson(run'.json)
      /\ run'.json.chip = json.chip /\ run'.json.plan = json.plan
  <2> DEFINE q == ToTake(json)
  <2>1. run'.json = [json EXCEPT !.points = q]
    OBVIOUS
  <2> HIDE DEF q
  <2> QED BY <2>1, PointsFacts DEF JsonType
<1>5. RunType'
  BY <1>3, <1>4 DEF RunType
<1>6. OneRunInv'
  BY <1>3 DEF OneRunInv
<1>7. FreshInv'
  BY DEF FreshInv, OneRunInv
<1>8. ScanRunInv'
  BY <1>3, <1>4 DEF ScanRunInv, Uncrossed, Config
<1> QED
  BY <1>1, <1>2, <1>5, <1>6, <1>7, <1>8

(* TakesData keeps the invariant. *)
LEMMA TakesDataKeeps ==
    ASSUME BeamSite, IInv, TakesData
    PROVE  IInv'
<1> USE DEF IInv, TypeInv, TakesData, names, plans, chips, daq, paired, flags,
      bounds, None
<1>1. NameType' /\ JsonType' /\ PairType' /\ GuardType' /\ ScanType' /\
      FreshInv' /\ FlagInv' /\ AppliedInv' /\ HoldInv' /\ LastInv' /\
      CompleteInv'
  BY DEF NameType, JsonType, IsJson, PairType, GuardType, ScanType, FreshInv,
     New, Resuming, Unfinished, FlagInv, AppliedInv, Uncrossed, Config,
     HoldInv, Held, LastInv, CompleteInv
<1>2. RunType'
  BY DEF RunType, IsJson
<1>3. OneRunInv'
  BY DEF OneRunInv
<1>4. ScanRunInv'
  BY DEF ScanRunInv, Uncrossed, Config
<1> QED
  BY <1>1, <1>2, <1>3, <1>4

(* FilesClose keeps the invariant. *)
LEMMA FilesCloseKeeps ==
    ASSUME BeamSite, IInv, FilesClose
    PROVE  IInv'
<1> USE DEF IInv, TypeInv, FilesClose, names, plans, chips, daq, paired, flags,
      bounds, None
<1>1. NameType' /\ JsonType' /\ PairType' /\ GuardType' /\ ScanType' /\
      FreshInv' /\ FlagInv' /\ AppliedInv' /\ HoldInv' /\ LastInv' /\
      CompleteInv'
  BY DEF NameType, JsonType, IsJson, PairType, GuardType, ScanType, FreshInv,
     New, Resuming, Unfinished, FlagInv, AppliedInv, Uncrossed, Config,
     HoldInv, Held, LastInv, CompleteInv
<1>2. RunType'
  BY DEF RunType, IsJson
<1>3. OneRunInv'
  BY DEF OneRunInv
<1>4. ScanRunInv'
  BY DEF ScanRunInv, Uncrossed, Config
<1> QED
  BY <1>1, <1>2, <1>3, <1>4

(* ReadoutDies keeps the invariant. *)
LEMMA ReadoutDiesKeeps ==
    ASSUME BeamSite, IInv, ReadoutDies
    PROVE  IInv'
<1> USE DEF IInv, TypeInv, ReadoutDies, Trouble, names, plans, chips, daq,
      paired, flags, bounds, None
<1>1. NameType' /\ JsonType' /\ PairType' /\ GuardType' /\ ScanType' /\
      FreshInv' /\ FlagInv' /\ AppliedInv' /\ HoldInv' /\ LastInv' /\
      CompleteInv'
  BY DEF NameType, JsonType, IsJson, PairType, GuardType, ScanType, FreshInv,
     New, Resuming, Unfinished, FlagInv, AppliedInv, Uncrossed, Config,
     HoldInv, Held, LastInv, CompleteInv
<1>2. RunType'
  BY DEF RunType, IsJson
<1>3. OneRunInv'
  BY DEF OneRunInv
<1>4. ScanRunInv'
  BY DEF ScanRunInv, Uncrossed, Config
<1> QED
  BY <1>1, <1>2, <1>3, <1>4

(* SubRunEnds keeps the invariant. *)
LEMMA SubRunEndsKeeps ==
    ASSUME BeamSite, IInv, SubRunEnds
    PROVE  IInv'
<1> USE DEF IInv, TypeInv, SubRunEnds, names, plans, chips, daq, paired, flags,
      bounds, None
<1>1. NameType' /\ JsonType' /\ PairType' /\ GuardType' /\ ScanType' /\
      FlagInv' /\ AppliedInv' /\ HoldInv' /\ LastInv' /\
      CompleteInv'
  BY DEF NameType, JsonType, IsJson, PairType, GuardType, ScanType, FlagInv,
     AppliedInv, Uncrossed, Config, HoldInv, Held, LastInv, CompleteInv
<1>2. RunType'
  BY DEF RunType, IsJson
<1>3. OneRunInv'
  BY DEF OneRunInv
<1>4. ScanRunInv'
  BY DEF ScanRunInv, Uncrossed, Config
<1>5. FreshInv'
  BY DEF FreshInv, OneRunInv
<1> QED
  BY <1>1, <1>2, <1>3, <1>4, <1>5

(* RunEnds keeps the invariant. *)
LEMMA RunEndsKeeps ==
    ASSUME BeamSite, IInv, RunEnds
    PROVE  IInv'
<1> USE DEF IInv, TypeInv, RunEnds, NoRun, NoJson, Trouble, names, plans,
      chips, daq, paired, flags, bounds, None
<1>1. NameType' /\ JsonType' /\ GuardType' /\ ScanType' /\ FreshInv' /\
      FlagInv' /\ AppliedInv' /\ HoldInv'
  BY DEF NameType, JsonType, IsJson, GuardType, ScanType, FreshInv, New,
     Resuming, Unfinished, FlagInv, AppliedInv, Uncrossed, Config, HoldInv,
     Held
<1>2. RunType'
  BY DEF RunType, IsJson
<1>3. PairType'
  BY DEF PairType
<1>4. OneRunInv'
  BY DEF OneRunInv
<1>5. ScanRunInv'
  BY DEF ScanRunInv, Uncrossed, Config
<1>6. LastInv'
  BY DEF LastInv, Uncrossed, ScanType, JsonType, GuardType, PairType
<1>7. CompleteInv'
  BY SequencersAssumption DEF CompleteInv, ScanType, JsonType, PairType
<1> QED
  BY <1>1, <1>2, <1>3, <1>4, <1>5, <1>6, <1>7

(* DreamEnds keeps the invariant. *)
LEMMA DreamEndsKeeps ==
    ASSUME BeamSite, IInv, DreamEnds
    PROVE  IInv'
<1> USE DEF IInv, TypeInv, DreamEnds, names, plans, chips, daq, paired, flags,
      bounds, None
<1>1. NameType' /\ JsonType' /\ RunType' /\ GuardType' /\ ScanType' /\
      FreshInv' /\ FlagInv' /\ AppliedInv' /\ ScanRunInv' /\ HoldInv'
  BY DEF NameType, JsonType, IsJson, RunType, GuardType, ScanType, FreshInv,
     New, Resuming, Unfinished, FlagInv, AppliedInv, Uncrossed, Config,
     ScanRunInv, HoldInv, Held
<1>2. PairType'
  BY DEF PairType
<1>3. OneRunInv'
  BY DEF OneRunInv
<1>4. LastInv'
  BY DEF LastInv, Uncrossed
<1>5. CompleteInv'
  BY DEF CompleteInv
<1> QED
  BY <1>1, <1>2, <1>3, <1>4, <1>5

(* BeamChanges keeps the invariant. *)
LEMMA BeamChangesKeeps ==
    ASSUME BeamSite, IInv, BeamChanges
    PROVE  IInv'
<1> USE DEF IInv, TypeInv, BeamChanges, names, plans, chips, daq, paired,
      flags, bounds, None
<1>1. NameType' /\ JsonType' /\ RunType' /\ PairType' /\ GuardType' /\
      ScanType' /\ OneRunInv' /\ FreshInv' /\ FlagInv' /\ AppliedInv' /\
      ScanRunInv' /\ HoldInv' /\ LastInv' /\ CompleteInv'
  BY DEF NameType, JsonType, IsJson, RunType, PairType, GuardType, ScanType,
     OneRunInv, FreshInv, New, Resuming, Unfinished, FlagInv, AppliedInv,
     Uncrossed, Config, ScanRunInv, HoldInv, Held, LastInv, CompleteInv
<1> QED
  BY <1>1

(* GuardLooks keeps the invariant. *)
LEMMA GuardLooksKeeps ==
    ASSUME BeamSite, IInv, GuardLooks
    PROVE  IInv'
<1> USE DEF IInv, TypeInv, GuardLooks, names, plans, chips, daq, paired, flags,
      bounds, None
<1>1. NameType' /\ JsonType' /\ RunType' /\ PairType' /\ ScanType' /\
      OneRunInv' /\ FreshInv' /\ AppliedInv' /\ ScanRunInv' /\ HoldInv' /\
      LastInv' /\ CompleteInv'
  BY DEF NameType, JsonType, IsJson, RunType, PairType, ScanType, OneRunInv,
     FreshInv, New, Resuming, Unfinished, AppliedInv, Uncrossed, Config,
     ScanRunInv, HoldInv, Held, LastInv, CompleteInv
<1>2. GuardType'
  BY DEF GuardType
<1>3. FlagInv'
  BY DEF FlagInv
<1> QED
  BY <1>1, <1>2, <1>3

(* GuardDrops keeps the invariant. *)
LEMMA GuardDropsKeeps ==
    ASSUME BeamSite, IInv, GuardDrops
    PROVE  IInv'
<1> USE DEF IInv, TypeInv, GuardDrops, names, plans, chips, daq, paired, flags,
      bounds, None
<1>1. NameType' /\ JsonType' /\ RunType' /\ PairType' /\ ScanType' /\
      OneRunInv' /\ FreshInv' /\ AppliedInv' /\ ScanRunInv' /\ HoldInv' /\
      LastInv' /\ CompleteInv'
  BY DEF NameType, JsonType, IsJson, RunType, PairType, ScanType, OneRunInv,
     FreshInv, New, Resuming, Unfinished, AppliedInv, Uncrossed, Config,
     ScanRunInv, HoldInv, Held, LastInv, CompleteInv
<1>2. GuardType'
  BY DEF GuardType
<1>3. FlagInv'
  BY DEF FlagInv
<1> QED
  BY <1>1, <1>2, <1>3

(* GuardTrips keeps the invariant. *)
LEMMA GuardTripsKeeps ==
    ASSUME BeamSite, IInv, GuardTrips
    PROVE  IInv'
<1> USE DEF IInv, TypeInv, GuardTrips, StopRun, Live, names, plans, chips, daq,
      paired, flags, bounds, None
<1>1. NameType' /\ JsonType' /\ PairType' /\ ScanType' /\ FreshInv' /\
      AppliedInv' /\ HoldInv' /\ LastInv' /\ CompleteInv'
  BY DEF NameType, JsonType, IsJson, PairType, ScanType, FreshInv, New,
     Resuming, Unfinished, AppliedInv, Uncrossed, Config, HoldInv, Held,
     LastInv, CompleteInv
<1>2. RunType'
  BY DEF RunType, IsJson
<1>3. GuardType'
  BY DEF GuardType
<1>4. OneRunInv'
  BY DEF OneRunInv
<1>5. FlagInv'
  BY DEF FlagInv
<1>6. ScanRunInv'
  BY DEF ScanRunInv, Uncrossed, Config
<1> QED
  BY <1>1, <1>2, <1>3, <1>4, <1>5, <1>6

(* GuardGivesUp keeps the invariant. *)
LEMMA GuardGivesUpKeeps ==
    ASSUME BeamSite, IInv, GuardGivesUp
    PROVE  IInv'
<1> USE DEF IInv, TypeInv, GuardGivesUp, names, plans, chips, daq, paired,
      flags, bounds, None
<1>1. NameType' /\ JsonType' /\ RunType' /\ ScanType' /\ OneRunInv' /\
      FreshInv' /\ ScanRunInv' /\ HoldInv' /\ LastInv' /\ CompleteInv'
  BY DEF NameType, JsonType, IsJson, RunType, ScanType, OneRunInv, FreshInv,
     New, Resuming, Unfinished, ScanRunInv, Uncrossed, Config, HoldInv, Held,
     LastInv, CompleteInv
<1>2. PairType'
  BY DEF PairType
<1>3. GuardType'
  BY DEF GuardType
<1>4. FlagInv'
  BY DEF FlagInv
<1>5. AppliedInv'
  BY DEF AppliedInv, Uncrossed, Config
<1> QED
  BY <1>1, <1>2, <1>3, <1>4, <1>5

(* GuardExits keeps the invariant. *)
LEMMA GuardExitsKeeps ==
    ASSUME BeamSite, IInv, GuardExits
    PROVE  IInv'
<1> USE DEF IInv, TypeInv, GuardExits, names, plans, chips, daq, paired, flags,
      bounds, None
<1>1. NameType' /\ JsonType' /\ RunType' /\ PairType' /\ ScanType' /\
      OneRunInv' /\ FreshInv' /\ AppliedInv' /\ ScanRunInv' /\ HoldInv' /\
      LastInv' /\ CompleteInv'
  BY DEF NameType, JsonType, IsJson, RunType, PairType, ScanType, OneRunInv,
     FreshInv, New, Resuming, Unfinished, AppliedInv, Uncrossed, Config,
     ScanRunInv, HoldInv, Held, LastInv, CompleteInv
<1>2. GuardType'
  BY DEF GuardType
<1>3. FlagInv'
  BY DEF FlagInv
<1> QED
  BY <1>1, <1>2, <1>3

(* GuardHandsOver keeps the invariant. *)
LEMMA GuardHandsOverKeeps ==
    ASSUME BeamSite, IInv, GuardHandsOver
    PROVE  IInv'
<1> USE DEF IInv, TypeInv, GuardHandsOver, names, plans, chips, daq, paired,
      flags, bounds, None
<1>1. NameType' /\ JsonType' /\ RunType' /\ PairType' /\ ScanType' /\
      OneRunInv' /\ FreshInv' /\ AppliedInv' /\ ScanRunInv' /\ HoldInv' /\
      LastInv' /\ CompleteInv'
  BY DEF NameType, JsonType, IsJson, RunType, PairType, ScanType, OneRunInv,
     FreshInv, New, Resuming, Unfinished, AppliedInv, Uncrossed, Config,
     ScanRunInv, HoldInv, Held, LastInv, CompleteInv
<1>2. GuardType'
  BY DEF GuardType
<1>3. FlagInv'
  BY DEF FlagInv
<1> QED
  BY <1>1, <1>2, <1>3

(* GuardResets keeps the invariant. *)
LEMMA GuardResetsKeeps ==
    ASSUME BeamSite, IInv, GuardResets
    PROVE  IInv'
<1> USE DEF IInv, TypeInv, GuardResets, WarmReset, names, plans, chips, daq,
      paired, flags, bounds, None
<1>1. NameType' /\ JsonType' /\ RunType' /\ ScanType' /\ OneRunInv' /\
      FreshInv' /\ ScanRunInv' /\ HoldInv' /\ LastInv' /\ CompleteInv'
  BY DEF NameType, JsonType, IsJson, RunType, ScanType, OneRunInv, FreshInv,
     New, Resuming, Unfinished, ScanRunInv, Uncrossed, Config, HoldInv, Held,
     LastInv, CompleteInv
<1>2. PairType'
  BY DEF PairType
<1>3. GuardType'
  BY DEF GuardType
<1>4. FlagInv'
  BY DEF FlagInv
<1>5. AppliedInv'
  BY DEF AppliedInv, Uncrossed, Config
<1> QED
  BY <1>1, <1>2, <1>3, <1>4, <1>5

(* GuardApplies keeps the invariant. *)
LEMMA GuardAppliesKeeps ==
    ASSUME BeamSite, IInv, GuardApplies
    PROVE  IInv'
<1> USE DEF IInv, TypeInv, GuardApplies, Apply, names, plans, chips, daq,
      paired, flags, bounds, None
<1>1. NameType' /\ JsonType' /\ RunType' /\ ScanType' /\ OneRunInv' /\
      FreshInv' /\ HoldInv' /\ LastInv' /\ CompleteInv'
  BY DEF NameType, JsonType, IsJson, RunType, ScanType, OneRunInv, FreshInv,
     New, Resuming, Unfinished, HoldInv, Held, LastInv, Uncrossed, CompleteInv
<1>2. PairType'
  BY DEF PairType
<1>3. GuardType'
  BY DEF GuardType
<1>4. FlagInv'
  BY DEF FlagInv
<1>5. AppliedInv'
  BY DEF AppliedInv, Uncrossed, Config, FlagInv
<1>6. ScanRunInv'
  BY DEF ScanRunInv, Uncrossed, Config
<1> QED
  BY <1>1, <1>2, <1>3, <1>4, <1>5, <1>6

(* GuardStarts keeps the invariant. *)
LEMMA GuardStartsKeeps ==
    ASSUME BeamSite, IInv, GuardStarts
    PROVE  IInv'
<1> USE DEF IInv, TypeInv, GuardStarts, names, plans, chips, daq, paired,
      flags, bounds, None
<1>1. RunType' /\ ScanType' /\ HoldInv'
  BY StartFacts DEF RunType, IsJson, ScanType, HoldInv, Held
<1>2. NameType'
  BY StartFacts DEF NameType
<1>3. JsonType'
  BY StartFacts DEF JsonType, IsJson
<1>4. PairType'
  BY StartFacts
<1>5. GuardType'
  BY StartFacts DEF GuardType
<1>6. OneRunInv'
  BY StartFacts DEF OneRunInv
<1>7. FreshInv'
  BY StartFacts DEF FreshInv, New, Resuming, Unfinished
<1>8. FlagInv'
  BY StartFacts DEF FlagInv
<1>9. AppliedInv'
  BY StartFacts DEF AppliedInv, Uncrossed, Config
<1>10. ScanRunInv'
  BY StartFacts DEF ScanRunInv, Uncrossed, Config, IsJson, FlagInv, AppliedInv,
     OneRunInv
<1>11. LastInv'
  BY StartFacts DEF LastInv, Uncrossed, IsJson, FlagInv, AppliedInv, HoldInv,
     Held, OneRunInv
<1>12. CompleteInv'
  BY StartFacts DEF CompleteInv
<1> QED
  BY <1>1, <1>2, <1>3, <1>4, <1>5, <1>6, <1>7, <1>8, <1>9, <1>10, <1>11, <1>12

(* ScanLaunched keeps the invariant. *)
LEMMA ScanLaunchedKeeps ==
    ASSUME BeamSite, IInv, ScanLaunched
    PROVE  IInv'
<1> USE DEF IInv, TypeInv, ScanLaunched, names, plans, chips, daq, paired,
      flags, bounds, None
<1>1. NameType' /\ JsonType' /\ RunType' /\ PairType' /\ GuardType' /\
      OneRunInv' /\ FreshInv'
  BY DEF NameType, JsonType, IsJson, RunType, PairType, GuardType, OneRunInv,
     FreshInv, New, Resuming, Unfinished
<1>2. ScanType'
  BY DEF ScanType
<1>3. FlagInv'
  BY DEF FlagInv
<1>4. AppliedInv'
  BY DEF AppliedInv, Uncrossed, Config
<1>5. ScanRunInv'
  BY DEF ScanRunInv, Uncrossed, Config
<1>6. HoldInv'
  BY DEF HoldInv, Held
<1>7. LastInv'
  BY DEF LastInv, Uncrossed
<1>8. CompleteInv'
  BY DEF CompleteInv
<1> QED
  BY <1>1, <1>2, <1>3, <1>4, <1>5, <1>6, <1>7, <1>8

(* ScanBegins keeps the invariant. *)
LEMMA ScanBeginsKeeps ==
    ASSUME BeamSite, IInv, ScanBegins
    PROVE  IInv'
<1> USE DEF IInv, TypeInv, ScanBegins, ScanGoes, names, plans, chips, daq,
      paired, flags, bounds, None
<1>1. NameType' /\ JsonType' /\ RunType' /\ GuardType' /\ OneRunInv' /\
      FreshInv'
  BY DEF NameType, JsonType, IsJson, RunType, GuardType, OneRunInv, FreshInv,
     New, Resuming, Unfinished
<1>2. PairType'
  BY DEF PairType
<1>3. ScanType'
  BY DEF ScanType
<1>4. FlagInv'
  BY DEF FlagInv, ScanType, GuardType, PairType
<1>5. AppliedInv'
  BY DEF AppliedInv, Uncrossed, Config, ScanType, GuardType, PairType
<1>6. ScanRunInv'
  BY DEF ScanRunInv, Uncrossed, Config, ScanType, RunType, JsonType, GuardType,
     PairType
<1>7. HoldInv'
  BY DEF HoldInv, Held, ScanType, PairType
<1>8. LastInv'
  BY DEF LastInv, Uncrossed, ScanType, JsonType, GuardType, PairType
<1>9. CompleteInv'
  BY SequencersAssumption DEF CompleteInv, ScanType, JsonType, PairType
<1> QED
  BY <1>1, <1>2, <1>3, <1>4, <1>5, <1>6, <1>7, <1>8, <1>9

(* ScanNext keeps the invariant. *)
LEMMA ScanNextKeeps ==
    ASSUME BeamSite, IInv, ScanNext
    PROVE  IInv'
<1> USE DEF IInv, TypeInv, ScanNext, CleansUp, ScanGoes, names, plans, chips,
      daq, paired, flags, bounds, None
<1>1. NameType' /\ JsonType' /\ RunType' /\ GuardType' /\ OneRunInv' /\
      FreshInv'
  BY DEF NameType, JsonType, IsJson, RunType, GuardType, OneRunInv, FreshInv,
     New, Resuming, Unfinished
<1>2. PairType'
  <2>1. Held \in BOOLEAN
    BY DEF Held
  <2> QED BY <2>1 DEF PairType
<1>3. ScanType'
  BY DEF ScanType
<1>4. FlagInv'
  BY DEF FlagInv, ScanType, GuardType, PairType
<1>5. AppliedInv'
  BY DEF AppliedInv, Uncrossed, Config, ScanType, GuardType, PairType
<1>6. ScanRunInv'
  BY DEF ScanRunInv, Uncrossed, Config, ScanType, RunType, JsonType, GuardType,
     PairType
<1>7. HoldInv'
  BY DEF HoldInv, Held, ScanType, PairType
<1>8. LastInv'
  BY DEF LastInv, Uncrossed, ScanType, JsonType, GuardType, PairType
<1>9. CompleteInv'
  BY SequencersAssumption DEF CompleteInv, ScanType, JsonType, PairType
<1> QED
  BY <1>1, <1>2, <1>3, <1>4, <1>5, <1>6, <1>7, <1>8, <1>9

(* ScanSkips keeps the invariant. *)
LEMMA ScanSkipsKeeps ==
    ASSUME BeamSite, IInv, ScanSkips
    PROVE  IInv'
<1> USE DEF IInv, TypeInv, ScanSkips, NextConfig, names, plans, chips, daq,
      paired, flags, bounds, None
<1>1. NameType' /\ JsonType' /\ RunType' /\ PairType' /\ GuardType' /\
      OneRunInv' /\ FreshInv'
  BY NextConfigFacts DEF NameType, JsonType, IsJson, RunType, PairType,
     GuardType, OneRunInv, FreshInv, New, Resuming, Unfinished
<1>2. ScanType'
  BY NextConfigFacts DEF ScanType
<1>3. FlagInv'
  BY NextConfigFacts DEF FlagInv
<1>4. AppliedInv'
  BY NextConfigFacts DEF AppliedInv, Uncrossed, Config
<1>5. ScanRunInv'
  BY NextConfigFacts DEF ScanRunInv, Uncrossed, Config
<1>6. HoldInv'
  BY NextConfigFacts DEF HoldInv, Held
<1>7. LastInv'
  BY NextConfigFacts DEF LastInv, Uncrossed
<1>8. CompleteInv'
  BY NextConfigFacts DEF CompleteInv
<1> QED
  BY <1>1, <1>2, <1>3, <1>4, <1>5, <1>6, <1>7, <1>8

(* ScanReady keeps the invariant. *)
LEMMA ScanReadyKeeps ==
    ASSUME BeamSite, IInv, ScanReady
    PROVE  IInv'
<1> USE DEF IInv, TypeInv, ScanReady, ScanGoes, names, plans, chips, daq,
      paired, flags, bounds, None
<1>1. NameType' /\ JsonType' /\ RunType' /\ PairType' /\ GuardType' /\
      OneRunInv' /\ FreshInv'
  BY DEF NameType, JsonType, IsJson, RunType, PairType, GuardType, OneRunInv,
     FreshInv, New, Resuming, Unfinished
<1>2. ScanType'
  BY DEF ScanType
<1>3. FlagInv'
  BY DEF FlagInv
<1>4. AppliedInv'
  BY DEF AppliedInv, Uncrossed, Config
<1>5. ScanRunInv'
  BY DEF ScanRunInv, Uncrossed, Config
<1>6. HoldInv'
  BY DEF HoldInv, Held
<1>7. LastInv'
  BY DEF LastInv, Uncrossed
<1>8. CompleteInv'
  BY DEF CompleteInv
<1> QED
  BY <1>1, <1>2, <1>3, <1>4, <1>5, <1>6, <1>7, <1>8

(* ScanResets keeps the invariant. *)
LEMMA ScanResetsKeeps ==
    ASSUME BeamSite, IInv, ScanResets
    PROVE  IInv'
<1> USE DEF IInv, TypeInv, ScanResets, WarmReset, ScanGoes, names, plans,
      chips, daq, paired, flags, bounds, None
<1>1. NameType' /\ JsonType' /\ RunType' /\ GuardType' /\ OneRunInv' /\
      FreshInv'
  BY DEF NameType, JsonType, IsJson, RunType, GuardType, OneRunInv, FreshInv,
     New, Resuming, Unfinished
<1>2. PairType'
  BY DEF PairType
<1>3. ScanType'
  BY DEF ScanType
<1>4. FlagInv'
  BY DEF FlagInv
<1>5. AppliedInv'
  BY DEF AppliedInv, Uncrossed, Config
<1>6. ScanRunInv'
  BY DEF ScanRunInv, Uncrossed, Config
<1>7. HoldInv'
  BY DEF HoldInv, Held
<1>8. LastInv'
  BY DEF LastInv, Uncrossed
<1>9. CompleteInv'
  BY DEF CompleteInv
<1> QED
  BY <1>1, <1>2, <1>3, <1>4, <1>5, <1>6, <1>7, <1>8, <1>9

(* ScanApplies keeps the invariant. *)
LEMMA ScanAppliesKeeps ==
    ASSUME BeamSite, IInv, ScanApplies
    PROVE  IInv'
<1> USE DEF IInv, TypeInv, ScanApplies, Apply, ScanGoes, NextConfig, names,
      plans, chips, daq, paired, flags, bounds, None
<1>1. NameType' /\ JsonType' /\ RunType' /\ GuardType' /\ OneRunInv' /\
      FreshInv'
  BY NextConfigFacts DEF NameType, JsonType, IsJson, RunType, GuardType,
     OneRunInv, FreshInv, New, Resuming, Unfinished
<1>2. PairType'
  BY NextConfigFacts DEF PairType
<1>3. ScanType'
  BY NextConfigFacts DEF ScanType
<1>4. FlagInv'
  BY NextConfigFacts DEF FlagInv, ScanType, GuardType, PairType
<1>5. AppliedInv'
  BY NextConfigFacts DEF AppliedInv, Uncrossed, Config, ScanType, GuardType,
     PairType
<1>6. ScanRunInv'
  BY NextConfigFacts DEF ScanRunInv, Uncrossed, Config, ScanType, RunType,
     JsonType, GuardType, PairType
<1>7. HoldInv'
  BY NextConfigFacts DEF HoldInv, Held, ScanType, PairType
<1>8. LastInv'
  BY NextConfigFacts DEF LastInv, Uncrossed, ScanType, JsonType, GuardType,
     PairType
<1>9. CompleteInv'
  BY NextConfigFacts, SequencersAssumption DEF CompleteInv, ScanType, JsonType,
     PairType
<1> QED
  BY <1>1, <1>2, <1>3, <1>4, <1>5, <1>6, <1>7, <1>8, <1>9

(* ScanStarts keeps the invariant. *)
LEMMA ScanStartsKeeps ==
    ASSUME BeamSite, IInv, ScanStarts
    PROVE  IInv'
<1> USE DEF IInv, TypeInv, ScanStarts, NextConfig, ScanGoes, names, plans,
      chips, daq, paired, flags, bounds, None
<1>1. RunType' /\ GuardType'
  BY StartFacts, NextConfigFacts DEF RunType, IsJson, GuardType
<1>2. NameType'
  BY StartFacts, NextConfigFacts DEF NameType
<1>3. JsonType'
  BY StartFacts, NextConfigFacts DEF JsonType, IsJson
<1>4. PairType'
  BY StartFacts
<1>5. ScanType'
  BY NextConfigFacts DEF ScanType
<1>6. OneRunInv'
  BY StartFacts, NextConfigFacts DEF OneRunInv
<1>7. FreshInv'
  BY StartFacts, NextConfigFacts DEF FreshInv, New, Resuming, Unfinished
<1>8. FlagInv'
  BY StartFacts, NextConfigFacts DEF FlagInv, ScanType, GuardType, PairType
<1>9. AppliedInv'
  BY StartFacts, NextConfigFacts DEF AppliedInv, Uncrossed, Config, ScanType,
     GuardType, PairType
<1>10. ScanRunInv'
  BY StartFacts, NextConfigFacts DEF ScanRunInv, Uncrossed, Config, ScanType,
     RunType, JsonType, GuardType, PairType
<1>11. HoldInv'
  BY StartFacts, NextConfigFacts DEF HoldInv, Held, ScanType, PairType
<1>12. LastInv'
  BY StartFacts, NextConfigFacts DEF LastInv, Uncrossed, ScanType, JsonType,
     IsJson, GuardType, PairType, FlagInv, AppliedInv, HoldInv, Held, OneRunInv
<1>13. CompleteInv'
  BY StartFacts, NextConfigFacts, SequencersAssumption DEF CompleteInv,
     ScanType, JsonType, PairType
<1> QED
  BY <1>1, <1>2, <1>3, <1>4, <1>5, <1>6, <1>7, <1>8, <1>9, <1>10, <1>11, <1>12,
     <1>13

(* ScanSees keeps the invariant. *)
LEMMA ScanSeesKeeps ==
    ASSUME BeamSite, IInv, ScanSees
    PROVE  IInv'
<1> USE DEF IInv, TypeInv, ScanSees, DaqRunning, ScanGoes, StopRun, Live,
      CleansUp, Verified, names, plans, chips, daq, paired, flags, bounds, None
<1>1. NameType' /\ JsonType' /\ GuardType' /\ FreshInv'
  BY DEF NameType, JsonType, IsJson, GuardType, FreshInv, New, Resuming,
     Unfinished
<1>2. RunType'
  BY DEF RunType, IsJson
<1>3. PairType'
  BY DEF PairType
<1>4. ScanType'
  BY DEF ScanType
<1>5. OneRunInv'
  BY DEF OneRunInv
<1>6. FlagInv'
  BY DEF FlagInv, ScanType, GuardType, PairType
<1>7. AppliedInv'
  BY DEF AppliedInv, Uncrossed, Config, ScanType, GuardType, PairType
<1>8. ScanRunInv'
  BY DEF ScanRunInv, Uncrossed, Config, ScanType, RunType, JsonType, IsJson,
     GuardType, PairType, FlagInv, AppliedInv, OneRunInv
<1>9. HoldInv'
  BY DEF HoldInv, Held, ScanType, PairType
<1>10. LastInv'
  BY DEF LastInv, Uncrossed, ScanType, JsonType, GuardType, PairType
<1>11. CompleteInv'
  BY SequencersAssumption DEF CompleteInv, ScanType, JsonType, PairType
<1> QED
  BY <1>1, <1>2, <1>3, <1>4, <1>5, <1>6, <1>7, <1>8, <1>9, <1>10, <1>11

(* ScanMisses keeps the invariant. *)
LEMMA ScanMissesKeeps ==
    ASSUME BeamSite, IInv, ScanMisses
    PROVE  IInv'
<1> USE DEF IInv, TypeInv, ScanMisses, NextConfig, names, plans, chips, daq,
      paired, flags, bounds, None
<1>1. NameType' /\ JsonType' /\ RunType' /\ PairType' /\ GuardType' /\
      OneRunInv' /\ FreshInv'
  BY NextConfigFacts DEF NameType, JsonType, IsJson, RunType, PairType,
     GuardType, OneRunInv, FreshInv, New, Resuming, Unfinished
<1>2. ScanType'
  BY NextConfigFacts DEF ScanType
<1>3. FlagInv'
  BY NextConfigFacts DEF FlagInv
<1>4. AppliedInv'
  BY NextConfigFacts DEF AppliedInv, Uncrossed, Config
<1>5. ScanRunInv'
  BY NextConfigFacts DEF ScanRunInv, Uncrossed, Config
<1>6. HoldInv'
  BY NextConfigFacts DEF HoldInv, Held
<1>7. LastInv'
  BY NextConfigFacts DEF LastInv, Uncrossed
<1>8. CompleteInv'
  BY NextConfigFacts DEF CompleteInv
<1> QED
  BY <1>1, <1>2, <1>3, <1>4, <1>5, <1>6, <1>7, <1>8

(* ScanSeesEnd keeps the invariant. *)
LEMMA ScanSeesEndKeeps ==
    ASSUME BeamSite, IInv, ScanSeesEnd
    PROVE  IInv'
<1> USE DEF IInv, TypeInv, ScanSeesEnd, names, plans, chips, daq, paired,
      flags, bounds, None
<1>1. NameType' /\ JsonType' /\ RunType' /\ PairType' /\ GuardType' /\
      OneRunInv' /\ FreshInv'
  BY SeesEndFacts DEF NameType, JsonType, IsJson, RunType, PairType, GuardType,
     OneRunInv, FreshInv, New, Resuming, Unfinished
<1>2. ScanType'
  BY SeesEndFacts
<1>3. FlagInv'
  BY SeesEndFacts DEF FlagInv
<1>4. AppliedInv'
  BY SeesEndFacts DEF AppliedInv, Uncrossed, Config
<1>5. ScanRunInv'
  BY SeesEndFacts DEF ScanRunInv, Uncrossed, Config
<1>6. HoldInv'
  BY SeesEndFacts DEF HoldInv, Held
<1>7. LastInv'
  BY SeesEndFacts DEF LastInv, Uncrossed
<1>8. CompleteInv'
  <2>1. scan.at = "watch" /\ UNCHANGED <<hv_hold, json, dream, crate>>
    OBVIOUS
  <2>2. CASE scan'.complete
    <3>1. scan.i = Len(ScanList) /\ ~json.stale
      BY <2>2, SeesEndFacts
    <3>2. ~hv_hold
      <4>1. hv_hold = Held
        BY <2>1 DEF HoldInv
      <4>2. ~(scan.i < Len(ScanList))
        BY <3>1 DEF ScanType
      <4> QED BY <4>1, <4>2 DEF Held
    <3>3. scan'.i > Len(ScanList)
      BY <3>1, SeesEndFacts DEF ScanType
    <3>4. ~scan.crossed => ~json.hold /\ IF dream.st = "idle" THEN crate = "off" ELSE ~dream.hold
      BY <2>1, <3>1 DEF LastInv, Uncrossed
    <3> QED BY <2>1, <3>2, <3>3, <3>4, SeesEndFacts DEF CompleteInv
  <2>3. CASE ~scan'.complete
    BY <2>3 DEF CompleteInv
  <2> QED BY <2>2, <2>3
<1> QED
  BY <1>1, <1>2, <1>3, <1>4, <1>5, <1>6, <1>7, <1>8

(* ScanAborts keeps the invariant. *)
LEMMA ScanAbortsKeeps ==
    ASSUME BeamSite, IInv, ScanAborts
    PROVE  IInv'
<1> USE DEF IInv, TypeInv, ScanAborts, CleansUp, names, plans, chips, daq,
      paired, flags, bounds, None
<1>1. NameType' /\ JsonType' /\ RunType' /\ GuardType' /\ OneRunInv' /\
      FreshInv'
  BY DEF NameType, JsonType, IsJson, RunType, GuardType, OneRunInv, FreshInv,
     New, Resuming, Unfinished
<1>2. PairType'
  BY DEF PairType
<1>3. ScanType'
  BY DEF ScanType
<1>4. FlagInv'
  BY DEF FlagInv
<1>5. AppliedInv'
  BY DEF AppliedInv, Uncrossed, Config
<1>6. ScanRunInv'
  BY DEF ScanRunInv, Uncrossed, Config
<1>7. HoldInv'
  BY DEF HoldInv, Held
<1>8. LastInv'
  BY DEF LastInv, Uncrossed
<1>9. CompleteInv'
  BY DEF CompleteInv
<1> QED
  BY <1>1, <1>2, <1>3, <1>4, <1>5, <1>6, <1>7, <1>8, <1>9

(* StopAfterRun keeps the invariant. *)
LEMMA StopAfterRunKeeps ==
    ASSUME BeamSite, IInv, StopAfterRun
    PROVE  IInv'
<1> USE DEF IInv, TypeInv, StopAfterRun, names, plans, chips, daq, paired,
      flags, bounds, None
<1>1. NameType' /\ JsonType' /\ RunType' /\ PairType' /\ GuardType' /\
      ScanType' /\ OneRunInv' /\ FreshInv' /\ FlagInv' /\ AppliedInv' /\
      ScanRunInv' /\ HoldInv' /\ LastInv' /\ CompleteInv'
  BY DEF NameType, JsonType, IsJson, RunType, PairType, GuardType, ScanType,
     OneRunInv, FreshInv, New, Resuming, Unfinished, FlagInv, AppliedInv,
     Uncrossed, Config, ScanRunInv, HoldInv, Held, LastInv, CompleteInv
<1> QED
  BY <1>1

(* OperatorStops keeps the invariant. *)
LEMMA OperatorStopsKeeps ==
    ASSUME BeamSite, IInv, OperatorStops
    PROVE  IInv'
<1> USE DEF IInv, TypeInv, OperatorStops, StopRun, Live, names, plans, chips,
      daq, paired, flags, bounds, None
<1>1. NameType' /\ JsonType' /\ PairType' /\ GuardType' /\ ScanType' /\
      FreshInv' /\ FlagInv' /\ AppliedInv' /\ HoldInv' /\ LastInv' /\
      CompleteInv'
  BY DEF NameType, JsonType, IsJson, PairType, GuardType, ScanType, FreshInv,
     New, Resuming, Unfinished, FlagInv, AppliedInv, Uncrossed, Config,
     HoldInv, Held, LastInv, CompleteInv
<1>2. RunType'
  BY DEF RunType, IsJson
<1>3. OneRunInv'
  BY DEF OneRunInv
<1>4. ScanRunInv'
  BY DEF ScanRunInv, Uncrossed, Config
<1> QED
  BY <1>1, <1>2, <1>3, <1>4

(* OperatorApplies keeps the invariant. *)
LEMMA OperatorAppliesKeeps ==
    ASSUME BeamSite, IInv, OperatorApplies
    PROVE  IInv'
<1> USE DEF IInv, TypeInv, OperatorApplies, Apply, names, plans, chips, daq,
      paired, flags, bounds, None
<1>1. NameType' /\ JsonType' /\ RunType' /\ GuardType' /\ ScanType' /\
      OneRunInv' /\ FreshInv' /\ FlagInv' /\ HoldInv' /\ LastInv' /\
      CompleteInv'
  BY DEF NameType, JsonType, IsJson, RunType, GuardType, ScanType, OneRunInv,
     FreshInv, New, Resuming, Unfinished, FlagInv, HoldInv, Held, LastInv,
     Uncrossed, CompleteInv
<1>2. PairType'
  BY DEF PairType
<1>3. AppliedInv'
  BY DEF AppliedInv, Uncrossed, Config
<1>4. ScanRunInv'
  BY DEF ScanRunInv, Uncrossed, Config
<1> QED
  BY <1>1, <1>2, <1>3, <1>4

(* OperatorSelects keeps the invariant. *)
LEMMA OperatorSelectsKeeps ==
    ASSUME BeamSite, IInv, OperatorSelects
    PROVE  IInv'
<1> USE DEF IInv, TypeInv, OperatorSelects, names, plans, chips, daq, paired,
      flags, bounds, None
<1>1. NameType' /\ JsonType' /\ RunType' /\ PairType' /\ GuardType' /\
      ScanType' /\ OneRunInv' /\ FreshInv' /\ FlagInv' /\ AppliedInv' /\
      ScanRunInv' /\ HoldInv' /\ LastInv' /\ CompleteInv'
  BY DEF NameType, JsonType, IsJson, RunType, PairType, GuardType, ScanType,
     OneRunInv, FreshInv, New, Resuming, Unfinished, FlagInv, AppliedInv,
     Uncrossed, Config, ScanRunInv, HoldInv, Held, LastInv, CompleteInv
<1> QED
  BY <1>1

(* OperatorStarts keeps the invariant. *)
LEMMA OperatorStartsKeeps ==
    ASSUME BeamSite, IInv, OperatorStarts
    PROVE  IInv'
<1> USE DEF IInv, TypeInv, OperatorStarts, names, plans, chips, daq, paired,
      flags, bounds, None
<1>1. RunType' /\ GuardType' /\ ScanType' /\ FlagInv' /\ HoldInv'
  BY StartFacts DEF RunType, IsJson, GuardType, ScanType, FlagInv, HoldInv,
     Held
<1>2. NameType'
  BY StartFacts DEF NameType
<1>3. JsonType'
  BY StartFacts DEF JsonType, IsJson
<1>4. PairType'
  BY StartFacts
<1>5. OneRunInv'
  BY StartFacts DEF OneRunInv
<1>6. FreshInv'
  <2>1. (json' = json \/ New(json')) /\ (typed' = typed \/ New(json'))
    BY StartFacts
  <2>2. UNCHANGED <<used, marked>>
    BY StartFacts
  <2>3. New(json') => New(json)'
    BY <2>2 DEF New, Resuming, Unfinished
  <2>4. json' = json /\ New(json) => New(json)'
    BY <2>2 DEF New, Resuming, Unfinished
  <2> QED BY <2>1, <2>3, <2>4 DEF FreshInv
<1>7. AppliedInv'
  BY StartFacts DEF AppliedInv, Uncrossed, Config
<1>8. ScanRunInv'
  BY StartFacts DEF ScanRunInv, Uncrossed, Config, IsJson, FlagInv, AppliedInv,
     OneRunInv
<1>9. LastInv'
  BY StartFacts DEF LastInv, Uncrossed, IsJson, FlagInv, AppliedInv, HoldInv,
     Held, OneRunInv
<1>10. CompleteInv'
  BY StartFacts DEF CompleteInv
<1> QED
  BY <1>1, <1>2, <1>3, <1>4, <1>5, <1>6, <1>7, <1>8, <1>9, <1>10

(* OperatorPlans keeps the invariant. *)
LEMMA OperatorPlansKeeps ==
    ASSUME BeamSite, IInv, OperatorPlans
    PROVE  IInv'
<1> USE DEF IInv, TypeInv, OperatorPlans, names, plans, chips, daq, paired,
      flags, bounds, None
<1>1. JsonType' /\ RunType' /\ PairType' /\ GuardType' /\
      ScanType' /\ OneRunInv' /\ FreshInv' /\ FlagInv' /\ AppliedInv' /\
      ScanRunInv' /\ HoldInv' /\ LastInv' /\ CompleteInv'
  BY DEF JsonType, IsJson, RunType, PairType, GuardType, ScanType, OneRunInv,
     FreshInv, New, Resuming, Unfinished, FlagInv, AppliedInv, Uncrossed,
     Config, ScanRunInv, HoldInv, Held, LastInv, CompleteInv
<1>2. NameType'
  BY DEF NameType
<1> QED
  BY <1>1, <1>2

(* Prunes keeps the invariant. *)
LEMMA PrunesKeeps ==
    ASSUME BeamSite, IInv, Prunes
    PROVE  IInv'
<1> USE DEF IInv, TypeInv, Prunes, names, plans, chips, daq, paired, flags,
      bounds, None
<1>1. JsonType' /\ RunType' /\ PairType' /\ GuardType' /\ ScanType' /\
      OneRunInv' /\ FreshInv' /\ FlagInv' /\ AppliedInv' /\ ScanRunInv' /\
      HoldInv' /\ LastInv' /\ CompleteInv'
  BY DEF JsonType, IsJson, RunType, PairType, GuardType, ScanType, OneRunInv,
     FreshInv, New, Resuming, Unfinished, FlagInv, AppliedInv, Uncrossed,
     Config, ScanRunInv, HoldInv, Held, LastInv, CompleteInv
<1>2. NameType'
  BY DEF NameType
<1> QED
  BY <1>1, <1>2

(* GitReset keeps the invariant. *)
LEMMA GitResetKeeps ==
    ASSUME BeamSite, IInv, GitReset
    PROVE  IInv'
<1> USE DEF IInv, TypeInv, GitReset, names, plans, chips, daq, paired, flags,
      bounds, None
<1>1. JsonType' /\ RunType' /\ PairType' /\ GuardType' /\ ScanType' /\
      OneRunInv' /\ FreshInv' /\ FlagInv' /\ AppliedInv' /\ ScanRunInv' /\
      HoldInv' /\ LastInv' /\ CompleteInv'
  BY DEF JsonType, IsJson, RunType, PairType, GuardType, ScanType, OneRunInv,
     FreshInv, New, Resuming, Unfinished, FlagInv, AppliedInv, Uncrossed,
     Config, ScanRunInv, HoldInv, Held, LastInv, CompleteInv
<1>2. NameType'
  BY DEF NameType
<1> QED
  BY <1>1, <1>2

(* A step that changes nothing keeps it. *)
LEMMA StutterKeeps ==
    ASSUME IInv, UNCHANGED vars
    PROVE  IInv'
<1> USE DEF IInv, TypeInv, vars, names, plans, chips, daq, paired, flags,
      bounds
<1>1. NameType'
  BY DEF NameType
<1>2. JsonType'
  BY DEF JsonType, IsJson
<1>3. RunType'
  BY DEF RunType, IsJson
<1>4. PairType'
  BY DEF PairType
<1>5. GuardType'
  BY DEF GuardType
<1>6. ScanType'
  BY DEF ScanType
<1>7. OneRunInv'
  BY DEF OneRunInv
<1>8. FreshInv'
  BY DEF FreshInv, New, Resuming, Unfinished
<1>9. FlagInv'
  BY DEF FlagInv
<1>10. AppliedInv'
  BY DEF AppliedInv, Uncrossed, Config
<1>11. ScanRunInv'
  BY DEF ScanRunInv, Uncrossed, Config
<1>12. HoldInv'
  BY DEF HoldInv, Held
<1>13. LastInv'
  BY DEF LastInv, Uncrossed
<1>14. CompleteInv'
  BY DEF CompleteInv
<1> QED
  BY <1>1, <1>2, <1>3, <1>4, <1>5, <1>6, <1>7, <1>8, <1>9, <1>10, <1>11, <1>12,
     <1>13, <1>14

(* So does every step, and one that changes nothing. *)
LEMMA NextKeeps ==
    ASSUME BeamSite, IInv, [Next]_vars
    PROVE  IInv'
<1>1. CASE DaqNext
  BY <1>1, AppearsKeeps, TakesDataKeeps, FilesCloseKeeps, ReadoutDiesKeeps,
     SubRunEndsKeeps, RunEndsKeeps, DreamEndsKeeps, BeamChangesKeeps DEF
     DaqNext
<1>2. CASE GuardNext
  BY <1>2, GuardLooksKeeps, GuardDropsKeeps, GuardTripsKeeps,
     GuardGivesUpKeeps, GuardExitsKeeps, GuardHandsOverKeeps, GuardResetsKeeps,
     GuardAppliesKeeps, GuardStartsKeeps DEF GuardNext
<1>3. CASE ScanNextStep
  BY <1>3, ScanBeginsKeeps, ScanNextKeeps, ScanSkipsKeeps, ScanReadyKeeps,
     ScanResetsKeeps, ScanAppliesKeeps, ScanStartsKeeps, ScanSeesKeeps,
     ScanMissesKeeps, ScanSeesEndKeeps, ScanAbortsKeeps DEF ScanNextStep
<1>4. CASE OperatorNext
  BY <1>4, ScanLaunchedKeeps, StopAfterRunKeeps, OperatorStopsKeeps,
     OperatorAppliesKeeps, OperatorSelectsKeeps, OperatorStartsKeeps,
     OperatorPlansKeeps, PrunesKeeps, GitResetKeeps DEF OperatorNext
<1>5. CASE UNCHANGED vars
  BY <1>5, StutterKeeps
<1> QED
  BY <1>1, <1>2, <1>3, <1>4, <1>5 DEF Next

-----------------------------------------------------------------------------

(* IInv holds in every reachable state at the beam, for any other constants. *)
THEOREM SequencersInvariance == ASSUME BeamSite PROVE Spec => []IInv
<1>1. Init => IInv
  BY InitIInv
<1>2. IInv /\ [Next]_vars => IInv'
  BY NextKeeps
<1> QED BY <1>1, <1>2, PTL DEF Spec

(* At the beam a run that a scan watches has the configuration it is counted  *)
(* for and the plan of a scan, unless the guard was recovering as the scan    *)
(* began: what verify_started_run reads off the generated json is true of the *)
(* run (config_scan.py).                                                      *)
THEOREM ScanRunIsItsConfig == ASSUME BeamSite PROVE Spec => []ScanTakesItsConfig
<1>1. IInv => ScanTakesItsConfig
  BY DEF IInv, ScanRunInv, AppliedInv, Uncrossed, ScanTakesItsConfig, None
<1> QED BY <1>1, SequencersInvariance, PTL

(* At the beam a scan that came to its last run's end, and whatever runs came *)
(* after it, leave nothing under voltage (config_scan.py, the hv_hold flag).  *)
THEOREM ScanLeavesCrateOff == ASSUME BeamSite PROVE Spec => []CrateOff
<1>1. IInv => CrateOff
  BY DEF IInv, CompleteInv, CrateOff
<1> QED BY <1>1, SequencersInvariance, PTL

(* At the beam a run number is handed out again only to a run that resumes it *)
(* and has something left to take there, whatever the pruner removed and the  *)
(* repository says, or by a stale json (iterate_run_num.py).                  *)
THEOREM NumbersAreFresh == ASSUME BeamSite PROVE Spec => FreshNumber
<1>1. IInv /\ Appears => json.stale \/ json.number \notin used \/ Resuming(json)
  BY DEF IInv, OneRunInv, FreshInv, New, Appears
<1>2. IInv /\ [Next]_vars =>
        [Appears => \/ json.stale
                    \/ json.number \notin used
                    \/ json.resume /\ Unfinished(json.number, json.points)]_vars
  BY <1>1 DEF Resuming
<1> QED BY <1>2, SequencersInvariance, PTL DEF Spec, FreshNumber

=============================================================================
