-------------------------- MODULE BackupSpaceProofs --------------------------
(***************************************************************************)
(* What TLAPS proves of BackupSpace, for any runs, sub-runs and number of  *)
(* restores: that a sub-run taken to the end is held in full, and that a   *)
(* delete takes only what is preserved.  First the inductive invariant, in *)
(* named parts; then one lemma per action, with one step per part; then    *)
(* the theorems.                                                           *)
(***************************************************************************)
EXTENDS BackupSpace, TLAPS

Amounts == {"none", "part", "full"}

DiskType ==
    /\ local \in [SubRuns -> Amounts] /\ remote \in [SubRuns -> Amounts]
    /\ complete \subseteq SubRuns /\ taken \subseteq SubRuns
    /\ active \in Runs \cup {None} /\ newest \in Runs \cup {None}

WatcherType ==
    /\ polled \in [SubRuns -> {"new", "seen", "synced"}]
    /\ skipped \subseteq Runs /\ up \in SubRuns \cup {None}

DeleterType ==
    deleter \in [run : Runs \cup {None}, at : {"idle", "verify", "guard", "remove"}]

SpaceType ==
    /\ joined \in BOOLEAN
    /\ fetch \subseteq SubRuns /\ fetched \in SubRuns \cup {None}
    /\ crossed \subseteq SubRuns

BoundType == restores \in 0..MaxRestores

\* All of a sub-run, and its marker, is somewhere only when it was taken to the
\* end.
TakenInv ==
    /\ \A s \in SubRuns : local[s] = "full" \/ remote[s] = "full" => s \in taken
    /\ complete \subseteq taken

\* A fetch is of something; EOS has a part of what is being sent.
CopyInv ==
    /\ \A s \in fetch \cup ({fetched} \ {None}) : remote[s] # "none"
    /\ up # None => remote[up] = "part"

\* EOS has nothing of a sub-run under way that is not on the disk as well.
PartInv ==
    joined \/ \A s \in SubRuns \ taken : remote[s] # "none" => local[s] # "none"

\* Once verified, what the disk holds in full of the run is on EOS in full, and
\* stays there unless a part crosses it.
VerifiedInv ==
    joined \/ (deleter.at \in {"guard", "remove"} => \A s \in Of(deleter.run) :
                  local[s] = "full" => remote[s] = "full" \/ s \in crossed)

\* Past the guards, all that the disk holds of the run was taken to the end.
GuardedInv ==
    joined \/ (deleter.at = "remove" => \A s \in Of(deleter.run) :
                  local[s] # "none" => s \in taken)

TypeInv == DiskType /\ WatcherType /\ DeleterType /\ SpaceType /\ BoundType

IInv ==
    /\ TypeInv /\ TakenInv /\ CopyInv /\ PartInv /\ VerifiedInv /\ GuardedInv
    /\ HeldUnlessCrossed

(* The initial states. *)
LEMMA InitIInv ==
    ASSUME Init
    PROVE  IInv
<1>1. DiskType
  BY BackupAssumption DEF Init, DiskType, Amounts, None, Idle, Of
<1>2. WatcherType
  BY BackupAssumption DEF Init, WatcherType, None, Idle, Of
<1>3. DeleterType
  BY BackupAssumption DEF Init, DeleterType, None, Idle, Of
<1>4. SpaceType
  BY BackupAssumption DEF Init, SpaceType, None, Idle, Of
<1>5. BoundType
  BY BackupAssumption DEF Init, BoundType, None, Idle, Of
<1>6. TakenInv
  BY BackupAssumption DEF Init, TakenInv, None, Idle, Of
<1>7. CopyInv
  BY BackupAssumption DEF Init, CopyInv, None, Idle, Of
<1>8. PartInv
  BY BackupAssumption DEF Init, PartInv, None, Idle, Of
<1>9. VerifiedInv
  BY BackupAssumption DEF Init, VerifiedInv, Held, None, Idle, Of
<1>10. GuardedInv
  BY BackupAssumption DEF Init, GuardedInv, None, Idle, Of
<1>11. HeldUnlessCrossed
  BY BackupAssumption DEF Init, HeldUnlessCrossed, Held, None, Idle, Of
<1> QED
  BY <1>1, <1>2, <1>3, <1>4, <1>5, <1>6, <1>7, <1>8, <1>9, <1>10, <1>11 DEF
     IInv, TypeInv

(* SubRunBegins keeps the invariant. *)
LEMMA SubRunBeginsStep ==
    ASSUME IInv, NEW s \in SubRuns, SubRunBegins(s)
    PROVE  IInv'
<1> USE DEF IInv, TypeInv, SubRunBegins, Changes, disk, watcher, space, None,
      Idle, Of
<1>1. DeleterType' /\ BoundType' /\ CopyInv'
  BY DEF DeleterType, BoundType, CopyInv
<1>2. DiskType'
  BY BackupAssumption DEF DiskType, Amounts, SpaceType
<1>3. WatcherType'
  BY DEF WatcherType
<1>4. SpaceType'
  BY DEF SpaceType
<1>5. TakenInv'
  BY DEF TakenInv
<1>6. PartInv'
  BY DEF PartInv
<1>7. VerifiedInv'
  BY BackupAssumption DEF VerifiedInv, Held, DiskType, WatcherType, SpaceType,
     DeleterType
<1>8. GuardedInv'
  BY BackupAssumption DEF GuardedInv, DiskType, WatcherType, SpaceType,
     DeleterType
<1>9. HeldUnlessCrossed'
  BY BackupAssumption DEF HeldUnlessCrossed, Held, DiskType, WatcherType,
     SpaceType, DeleterType
<1> QED
  BY <1>1, <1>2, <1>3, <1>4, <1>5, <1>6, <1>7, <1>8, <1>9

(* StateWritten keeps the invariant. *)
LEMMA StateWrittenStep ==
    ASSUME IInv, NEW r \in Runs, StateWritten(r)
    PROVE  IInv'
<1> USE DEF IInv, TypeInv, StateWritten, disk, watcher, space, None, Idle, Of
<1>1. WatcherType' /\ DeleterType' /\ SpaceType' /\ BoundType' /\ TakenInv' /\
      CopyInv' /\ PartInv' /\ VerifiedInv' /\ GuardedInv' /\ HeldUnlessCrossed'
  BY DEF WatcherType, DeleterType, SpaceType, BoundType, TakenInv, CopyInv,
     PartInv, VerifiedInv, Held, GuardedInv, HeldUnlessCrossed
<1>2. DiskType'
  BY DEF DiskType
<1> QED
  BY <1>1, <1>2

(* SubRunEnds keeps the invariant. *)
LEMMA SubRunEndsStep ==
    ASSUME IInv, NEW s \in SubRuns, SubRunEnds(s)
    PROVE  IInv'
<1> USE DEF IInv, TypeInv, SubRunEnds, Changes, disk, watcher, space, None,
      Idle, Of
<1>1. DeleterType' /\ BoundType' /\ CopyInv'
  BY DEF DeleterType, BoundType, CopyInv
<1>2. DiskType'
  BY DEF DiskType, Amounts
<1>3. WatcherType'
  BY DEF WatcherType
<1>4. SpaceType'
  BY DEF SpaceType
<1>5. TakenInv'
  BY DEF TakenInv
<1>6. PartInv'
  BY BackupAssumption DEF PartInv, DiskType, WatcherType, SpaceType,
     DeleterType
<1>7. VerifiedInv'
  BY BackupAssumption DEF VerifiedInv, Held, DiskType, WatcherType, SpaceType,
     DeleterType, TakenInv, CopyInv, GuardedInv, HeldUnlessCrossed
<1>8. GuardedInv'
  BY BackupAssumption DEF GuardedInv, DiskType, WatcherType, SpaceType,
     DeleterType
<1>9. HeldUnlessCrossed'
  BY BackupAssumption DEF HeldUnlessCrossed, Held, DiskType, WatcherType,
     SpaceType, DeleterType
<1> QED
  BY <1>1, <1>2, <1>3, <1>4, <1>5, <1>6, <1>7, <1>8, <1>9

(* Poll keeps the invariant. *)
LEMMA PollStep ==
    ASSUME IInv, NEW s \in SubRuns, Poll(s)
    PROVE  IInv'
<1> USE DEF IInv, TypeInv, Poll, disk, watcher, space, None, Idle, Of
<1>1. DiskType' /\ DeleterType' /\ SpaceType' /\ BoundType' /\ TakenInv' /\
      CopyInv' /\ PartInv' /\ VerifiedInv' /\ GuardedInv' /\ HeldUnlessCrossed'
  BY DEF DiskType, DeleterType, SpaceType, BoundType, TakenInv, CopyInv,
     PartInv, VerifiedInv, Held, GuardedInv, HeldUnlessCrossed
<1>2. WatcherType'
  BY DEF WatcherType
<1> QED
  BY <1>1, <1>2

(* CopyBegins keeps the invariant. *)
LEMMA CopyBeginsStep ==
    ASSUME IInv, NEW s \in SubRuns, CopyBegins(s)
    PROVE  IInv'
<1> USE DEF IInv, TypeInv, CopyBegins, SameSize, disk, watcher, space, None,
      Idle, Of
<1>1. DeleterType' /\ BoundType' /\ GuardedInv'
  BY DEF DeleterType, BoundType, GuardedInv
<1>2. DiskType'
  BY DEF DiskType, Amounts
<1>3. WatcherType'
  BY DEF WatcherType
<1>4. SpaceType'
  BY DEF SpaceType
<1>5. TakenInv'
  BY DEF TakenInv
<1>6. CopyInv'
  BY BackupAssumption DEF CopyInv, DiskType, WatcherType, SpaceType
<1>7. PartInv'
  BY DEF PartInv
<1>8. VerifiedInv'
  BY BackupAssumption DEF VerifiedInv, Held, DiskType, WatcherType, SpaceType,
     DeleterType
<1>9. HeldUnlessCrossed'
  <2> SUFFICES ASSUME NEW q \in taken, ~joined
               PROVE  Held(q)' \/ q \in crossed'
    BY DEF HeldUnlessCrossed
  <2>1. (Held(q) \/ q \in crossed) /\ q \in SubRuns
    BY DEF HeldUnlessCrossed, DiskType
  <2>2. CASE q = s
    <3>1. local[s] \in {"part", "full"}
      BY DEF DiskType, Amounts
    <3> QED BY <2>1, <2>2, <3>1 DEF Held, DiskType
  <2>3. CASE q # s
    BY <2>1, <2>3 DEF Held, DiskType
  <2> QED BY <2>2, <2>3
<1> QED
  BY <1>1, <1>2, <1>3, <1>4, <1>5, <1>6, <1>7, <1>8, <1>9

(* CopyEnds keeps the invariant. *)
LEMMA CopyEndsStep ==
    ASSUME IInv, CopyEnds
    PROVE  IInv'
<1> USE DEF IInv, TypeInv, CopyEnds, disk, watcher, space, None, Idle, Of
<1>1. DeleterType' /\ SpaceType' /\ BoundType' /\ GuardedInv'
  BY DEF DeleterType, SpaceType, BoundType, GuardedInv
<1>2. DiskType'
  BY DEF DiskType
<1>3. WatcherType'
  BY DEF WatcherType
<1>4. TakenInv'
  BY BackupAssumption DEF TakenInv, DiskType, WatcherType, SpaceType
<1>5. CopyInv'
  BY BackupAssumption DEF CopyInv, DiskType, WatcherType, SpaceType
<1>6. PartInv'
  BY BackupAssumption DEF PartInv, DiskType, WatcherType, SpaceType,
     DeleterType
<1>7. VerifiedInv'
  BY BackupAssumption DEF VerifiedInv, Held, DiskType, WatcherType, SpaceType,
     DeleterType
<1>8. HeldUnlessCrossed'
  BY BackupAssumption DEF HeldUnlessCrossed, Held, DiskType, WatcherType,
     SpaceType, DeleterType, TakenInv, CopyInv, VerifiedInv, GuardedInv
<1> QED
  BY <1>1, <1>2, <1>3, <1>4, <1>5, <1>6, <1>7, <1>8

(* NothingToCopy keeps the invariant. *)
LEMMA NothingToCopyStep ==
    ASSUME IInv, NEW s \in SubRuns, NothingToCopy(s)
    PROVE  IInv'
<1> USE DEF IInv, TypeInv, NothingToCopy, disk, watcher, space, None, Idle, Of
<1>1. DiskType' /\ DeleterType' /\ SpaceType' /\ BoundType' /\ TakenInv' /\
      CopyInv' /\ PartInv' /\ VerifiedInv' /\ GuardedInv' /\ HeldUnlessCrossed'
  BY DEF DiskType, DeleterType, SpaceType, BoundType, TakenInv, CopyInv,
     PartInv, VerifiedInv, Held, GuardedInv, HeldUnlessCrossed
<1>2. WatcherType'
  BY DEF WatcherType
<1> QED
  BY <1>1, <1>2

(* MarkedStale keeps the invariant. *)
LEMMA MarkedStaleStep ==
    ASSUME IInv, NEW r \in Runs, MarkedStale(r)
    PROVE  IInv'
<1> USE DEF IInv, TypeInv, MarkedStale, disk, watcher, space, None, Idle, Of
<1>1. DiskType' /\ DeleterType' /\ SpaceType' /\ BoundType' /\ TakenInv' /\
      CopyInv' /\ PartInv' /\ VerifiedInv' /\ GuardedInv' /\ HeldUnlessCrossed'
  BY DEF DiskType, DeleterType, SpaceType, BoundType, TakenInv, CopyInv,
     PartInv, VerifiedInv, Held, GuardedInv, HeldUnlessCrossed
<1>2. WatcherType'
  BY DEF WatcherType
<1> QED
  BY <1>1, <1>2

(* WatcherRestarts keeps the invariant. *)
LEMMA WatcherRestartsStep ==
    ASSUME IInv, WatcherRestarts
    PROVE  IInv'
<1> USE DEF IInv, TypeInv, WatcherRestarts, disk, watcher, space, None, Idle,
      Of
<1>1. DiskType' /\ DeleterType' /\ SpaceType' /\ BoundType' /\ TakenInv' /\
      PartInv' /\ VerifiedInv' /\ GuardedInv' /\ HeldUnlessCrossed'
  BY DEF DiskType, DeleterType, SpaceType, BoundType, TakenInv, PartInv,
     VerifiedInv, Held, GuardedInv, HeldUnlessCrossed
<1>2. WatcherType'
  BY DEF WatcherType
<1>3. CopyInv'
  BY DEF CopyInv
<1> QED
  BY <1>1, <1>2, <1>3

(* DeleteAsked keeps the invariant. *)
LEMMA DeleteAskedStep ==
    ASSUME IInv, NEW r \in Runs, DeleteAsked(r)
    PROVE  IInv'
<1> USE DEF IInv, TypeInv, DeleteAsked, disk, watcher, space, None, Idle, Of
<1>1. DiskType' /\ WatcherType' /\ SpaceType' /\ BoundType' /\ TakenInv' /\
      CopyInv' /\ PartInv' /\ HeldUnlessCrossed'
  BY DEF DiskType, WatcherType, SpaceType, BoundType, TakenInv, CopyInv,
     PartInv, HeldUnlessCrossed, Held
<1>2. DeleterType'
  BY DEF DeleterType
<1>3. VerifiedInv'
  BY DEF VerifiedInv, Held
<1>4. GuardedInv'
  BY DEF GuardedInv
<1> QED
  BY <1>1, <1>2, <1>3, <1>4

(* DeleteVerifies keeps the invariant. *)
LEMMA DeleteVerifiesStep ==
    ASSUME IInv, DeleteVerifies
    PROVE  IInv'
<1> USE DEF IInv, TypeInv, DeleteVerifies, Verified, SameSize, disk, watcher,
      space, None, Idle, Of
<1>1. DiskType' /\ WatcherType' /\ SpaceType' /\ BoundType' /\ TakenInv' /\
      CopyInv' /\ PartInv' /\ HeldUnlessCrossed'
  BY DEF DiskType, WatcherType, SpaceType, BoundType, TakenInv, CopyInv,
     PartInv, HeldUnlessCrossed, Held
<1>2. DeleterType'
  BY DEF DeleterType
<1>3. VerifiedInv'
  BY BackupAssumption DEF VerifiedInv, Held, DiskType, WatcherType, SpaceType,
     DeleterType
<1>4. GuardedInv'
  BY BackupAssumption DEF GuardedInv, DiskType, WatcherType, SpaceType,
     DeleterType
<1> QED
  BY <1>1, <1>2, <1>3, <1>4

(* DeleteGuards keeps the invariant. *)
LEMMA DeleteGuardsStep ==
    ASSUME IInv, DeleteGuards
    PROVE  IInv'
<1> USE DEF IInv, TypeInv, DeleteGuards, Guarded, Incomplete, disk, watcher,
      space, None, Idle, Of
<1>1. DiskType' /\ WatcherType' /\ SpaceType' /\ BoundType' /\ TakenInv' /\
      CopyInv' /\ PartInv' /\ HeldUnlessCrossed'
  BY DEF DiskType, WatcherType, SpaceType, BoundType, TakenInv, CopyInv,
     PartInv, HeldUnlessCrossed, Held
<1>2. DeleterType'
  BY DEF DeleterType
<1>3. VerifiedInv'
  BY DEF VerifiedInv, Held
<1>4. GuardedInv'
  BY DEF GuardedInv, TakenInv, CopyInv, PartInv
<1> QED
  BY <1>1, <1>2, <1>3, <1>4

(* Deletes keeps the invariant. *)
LEMMA DeletesStep ==
    ASSUME IInv, Deletes
    PROVE  IInv'
<1> USE DEF IInv, TypeInv, Deletes, disk, watcher, space, None, Idle, Of
<1>1. SpaceType' /\ BoundType' /\ CopyInv'
  BY DEF SpaceType, BoundType, CopyInv
<1>2. DiskType'
  BY DEF DiskType, Amounts
<1>3. WatcherType'
  BY DEF WatcherType
<1>4. DeleterType'
  BY DEF DeleterType
<1>5. TakenInv'
  BY DEF TakenInv
<1>6. PartInv'
  BY DEF PartInv, TakenInv, CopyInv, GuardedInv
<1>7. VerifiedInv'
  BY DEF VerifiedInv, Held
<1>8. GuardedInv'
  BY DEF GuardedInv
<1>9. HeldUnlessCrossed'
  BY BackupAssumption DEF HeldUnlessCrossed, Held, DiskType, WatcherType,
     SpaceType, DeleterType, TakenInv, CopyInv, VerifiedInv, GuardedInv
<1> QED
  BY <1>1, <1>2, <1>3, <1>4, <1>5, <1>6, <1>7, <1>8, <1>9

(* RestoreAsked keeps the invariant. *)
LEMMA RestoreAskedStep ==
    ASSUME IInv, NEW r \in Runs, RestoreAsked(r)
    PROVE  IInv'
<1> USE DEF IInv, TypeInv, RestoreAsked, ToFetch, disk, watcher, space, None,
      Idle, Of
<1>1. DiskType' /\ WatcherType' /\ DeleterType' /\ TakenInv' /\ PartInv' /\
      VerifiedInv' /\ GuardedInv' /\ HeldUnlessCrossed'
  BY DEF DiskType, WatcherType, DeleterType, TakenInv, PartInv, VerifiedInv,
     Held, GuardedInv, HeldUnlessCrossed
<1>2. SpaceType'
  BY DEF SpaceType
<1>3. BoundType'
  BY BackupAssumption DEF BoundType
<1>4. CopyInv'
  BY DEF CopyInv
<1> QED
  BY <1>1, <1>2, <1>3, <1>4

(* FetchBegins keeps the invariant. *)
LEMMA FetchBeginsStep ==
    ASSUME IInv, NEW s \in SubRuns, FetchBegins(s)
    PROVE  IInv'
<1> USE DEF IInv, TypeInv, FetchBegins, Changes, disk, watcher, space, None,
      Idle, Of
<1>1. DeleterType' /\ BoundType'
  BY DEF DeleterType, BoundType
<1>2. DiskType'
  BY BackupAssumption DEF DiskType, Amounts, SpaceType
<1>3. WatcherType'
  BY DEF WatcherType
<1>4. SpaceType'
  BY DEF SpaceType
<1>5. TakenInv'
  BY DEF TakenInv
<1>6. CopyInv'
  BY DEF CopyInv
<1>7. PartInv'
  BY DEF PartInv
<1>8. VerifiedInv'
  BY DEF VerifiedInv, Held
<1>9. GuardedInv'
  BY DEF GuardedInv, TakenInv, CopyInv, PartInv
<1>10. HeldUnlessCrossed'
  <2> SUFFICES ASSUME NEW q \in taken, ~joined
               PROVE  Held(q)' \/ q \in crossed'
    BY DEF HeldUnlessCrossed
  <2>1. (Held(q) \/ q \in crossed) /\ q \in SubRuns
    BY DEF HeldUnlessCrossed, DiskType
  <2>2. CASE q = s
    <3>1. remote[s] \in {"part", "full"}
      BY DEF DiskType, Amounts, CopyInv
    <3> QED BY <2>1, <2>2, <3>1 DEF Held, DiskType
  <2>3. CASE q # s
    BY <2>1, <2>3 DEF Held, DiskType
  <2> QED BY <2>2, <2>3
<1> QED
  BY <1>1, <1>2, <1>3, <1>4, <1>5, <1>6, <1>7, <1>8, <1>9, <1>10

(* FetchEnds keeps the invariant. *)
LEMMA FetchEndsStep ==
    ASSUME IInv, FetchEnds
    PROVE  IInv'
<1> USE DEF IInv, TypeInv, FetchEnds, Changes, Marker, disk, watcher, space,
      None, Idle, Of
<1>1. DeleterType' /\ BoundType'
  BY DEF DeleterType, BoundType
<1>2. DiskType'
  BY DEF DiskType
<1>3. WatcherType'
  BY DEF WatcherType
<1>4. SpaceType'
  BY DEF SpaceType
<1>5. TakenInv'
  BY BackupAssumption DEF TakenInv, DiskType, WatcherType, SpaceType
<1>6. CopyInv'
  BY DEF CopyInv
<1>7. PartInv'
  BY BackupAssumption DEF PartInv, DiskType, WatcherType, SpaceType,
     DeleterType
<1>8. VerifiedInv'
  BY BackupAssumption DEF VerifiedInv, Held, DiskType, WatcherType, SpaceType,
     DeleterType
<1>9. GuardedInv'
  BY BackupAssumption DEF GuardedInv, DiskType, WatcherType, SpaceType,
     DeleterType
<1>10. HeldUnlessCrossed'
  BY BackupAssumption DEF HeldUnlessCrossed, Held, DiskType, WatcherType,
     SpaceType, DeleterType
<1> QED
  BY <1>1, <1>2, <1>3, <1>4, <1>5, <1>6, <1>7, <1>8, <1>9, <1>10

(* GuiRestarts keeps the invariant. *)
LEMMA GuiRestartsStep ==
    ASSUME IInv, GuiRestarts
    PROVE  IInv'
<1> USE DEF IInv, TypeInv, GuiRestarts, disk, watcher, space, None, Idle, Of
<1>1. DiskType' /\ WatcherType' /\ BoundType' /\ TakenInv' /\ PartInv' /\
      HeldUnlessCrossed'
  BY DEF DiskType, WatcherType, BoundType, TakenInv, PartInv,
     HeldUnlessCrossed, Held
<1>2. DeleterType'
  BY DEF DeleterType
<1>3. SpaceType'
  BY DEF SpaceType
<1>4. CopyInv'
  BY DEF CopyInv
<1>5. VerifiedInv'
  BY DEF VerifiedInv, Held
<1>6. GuardedInv'
  BY DEF GuardedInv
<1> QED
  BY <1>1, <1>2, <1>3, <1>4, <1>5, <1>6

(* A step that changes nothing keeps it. *)
LEMMA StutterStep ==
    ASSUME IInv, UNCHANGED vars
    PROVE  IInv'
<1> USE DEF IInv, TypeInv, vars, disk, watcher, space, None, Idle, Of
<1>1. DiskType'
  BY DEF DiskType
<1>2. WatcherType'
  BY DEF WatcherType
<1>3. DeleterType'
  BY DEF DeleterType
<1>4. SpaceType'
  BY DEF SpaceType
<1>5. BoundType'
  BY DEF BoundType
<1>6. TakenInv'
  BY DEF TakenInv
<1>7. CopyInv'
  BY DEF CopyInv
<1>8. PartInv'
  BY DEF PartInv
<1>9. VerifiedInv'
  BY DEF VerifiedInv, Held
<1>10. GuardedInv'
  BY DEF GuardedInv
<1>11. HeldUnlessCrossed'
  BY DEF HeldUnlessCrossed, Held
<1> QED
  BY <1>1, <1>2, <1>3, <1>4, <1>5, <1>6, <1>7, <1>8, <1>9, <1>10, <1>11

(* So does every step, and one that changes nothing. *)
LEMMA NextStep ==
    ASSUME IInv, [Next]_vars
    PROVE  IInv'
<1>1. ASSUME NEW s \in SubRuns, SubRunBegins(s) \/ SubRunEnds(s) \/ FetchBegins(s)
      PROVE  IInv'
  BY <1>1, SubRunBeginsStep, SubRunEndsStep, FetchBeginsStep
<1>2. ASSUME NEW r \in Runs, \/ StateWritten(r) \/ DeleteAsked(r)
                             \/ PrunerAsks(r) \/ RestoreAsked(r)
      PROVE  IInv'
  BY <1>2, StateWrittenStep, DeleteAskedStep, RestoreAskedStep DEF PrunerAsks
<1>3. CASE Watches
  BY <1>3, CopyBeginsStep, NothingToCopyStep, PollStep, MarkedStaleStep,
     CopyEndsStep, WatcherRestartsStep DEF Watches
<1>4. CASE DeleteVerifies \/ DeleteGuards \/ Deletes \/ FetchEnds \/ GuiRestarts
  BY <1>4, DeleteVerifiesStep, DeleteGuardsStep, DeletesStep, FetchEndsStep,
     GuiRestartsStep
<1>5. CASE UNCHANGED vars
  BY <1>5, StutterStep
<1> QED
  BY <1>1, <1>2, <1>3, <1>4, <1>5 DEF Next

-----------------------------------------------------------------------------

(* IInv holds in every reachable state, for any constants.                 *)
THEOREM BackupInvariance == Spec => []IInv
<1>1. Init => IInv
  BY InitIInv
<1>2. IInv /\ [Next]_vars => IInv'
  BY NextStep
<1> QED BY <1>1, <1>2, PTL DEF Spec

(* A sub-run that was taken to the end is held in full, on the disk or on EOS,  *)
(* unless a part of it was copied over all of it, or a delete hit a run that    *)
(* was joined (backup_watcher.py, flask_app/space_manager.py:344-391, 495-561). *)
THEOREM HeldSomewhere == Spec => []HeldUnlessCrossed
<1>1. IInv => HeldUnlessCrossed
  BY DEF IInv
<1> QED BY <1>1, BackupInvariance, PTL

(* A delete that nothing joined takes no sub-run that is under way, and none   *)
(* that EOS lacks, whatever was copied, fetched or taken since it was verified *)
(* (flask_app/space_manager.py:234-297, 344-391).                              *)
THEOREM DeletesWhatIsSafe == Spec => SafeDelete
<1>1. ASSUME IInv, Deletes, ~joined, NEW s \in Of(deleter.run), local[s] # "none"
      PROVE  s \in taken /\ (remote[s] = "full" \/ s \in crossed)
  <2>1. s \in taken
    BY <1>1 DEF IInv, GuardedInv, Deletes
  <2> QED
    BY <1>1, <2>1 DEF IInv, VerifiedInv, Deletes, HeldUnlessCrossed, Held
<1>2. IInv /\ [Next]_vars =>
         [Deletes /\ ~joined => \A s \in Of(deleter.run) : local[s] # "none" =>
             s \in taken /\ (remote[s] = "full" \/ s \in crossed)]_vars
  BY <1>1
<1> QED BY <1>2, BackupInvariance, PTL DEF Spec, SafeDelete

=============================================================================
