-------------------------- MODULE SessionLockProofs --------------------------
(***************************************************************************)
(* What TLAPS proves of SessionLock, for any keepers and any number of     *)
(* chunks.  One lemma per action, one step per part of IInv; then the      *)
(* invariance of IInv and the safety properties it contains or implies.    *)
(***************************************************************************)
EXTENDS SessionLock, TLAPS

(* The initial states. *)
LEMMA InitIInv ==
    ASSUME SessionLockAssumption, Init
    PROVE  IInv
<1>1. TypeOK
  BY DEF SessionLockAssumption, Init, TypeOK, Children, Users, States,
     ThreadStates, ChildStates
<1>2. OneChild
  BY DEF SessionLockAssumption, Init, OneChild, Alive
<1>3. ChildInv
  <2>1. \A c : ~Alive(c)
    BY DEF Init, Alive
  <2> QED BY <2>1 DEF ChildInv
<1>4. ProcInv
  <2> SUFFICES ASSUME NEW k \in Keepers PROVE proc[k] = NoChild /\ chunks[k] = 0
                   /\ thread[k] = "none"
    BY DEF Init, ProcInv
  <2> QED BY DEF Init
<1>5. LeftInv
  BY DEF SessionLockAssumption, Init, LeftInv, Children, Free
<1>6. HandedOver
  BY DEF SessionLockAssumption, Init, HandedOver
<1> QED BY <1>1, <1>2, <1>3, <1>4, <1>5, <1>6 DEF IInv

(* Start(k) keeps the invariant. *)
LEMMA StartStep ==
    ASSUME SessionLockAssumption, IInv, NEW k \in Keepers, Start(k)
    PROVE  IInv'
<1>1. TypeOK'
  BY DEF IInv, SessionLockAssumption, Start, Goes, keeperVars, threadVars,
     TypeOK, ProcInv, Alive, Mine, Want, Children, Free, NoChild, Users,
     States, ThreadStates, ChildStates
<1>2. OneChild'
  BY DEF IInv, SessionLockAssumption, Start, Goes, keeperVars, threadVars,
     TypeOK, OneChild, ChildInv, ProcInv, Alive, Mine, Want, Children, NoChild
<1>3. ChildInv'
  BY DEF IInv, SessionLockAssumption, Start, Goes, keeperVars, threadVars,
     TypeOK, OneChild, ChildInv, ProcInv, Alive, Mine, Want, Children, NoChild
<1>4. ProcInv'
  BY DEF IInv, SessionLockAssumption, Start, Goes, keeperVars, threadVars,
     TypeOK, ProcInv, Mine, Children, NoChild
<1>5. LeftInv'
  BY DEF IInv, SessionLockAssumption, Start, Goes, keeperVars, threadVars,
     TypeOK, ProcInv, LeftInv, HandedOver, Alive, Mine, Children, NoChild,
     Free, Other
<1>6. HandedOver'
  BY DEF IInv, SessionLockAssumption, Start, Goes, keeperVars, threadVars,
     TypeOK, ProcInv, LeftInv, HandedOver, Alive, Mine, Children, NoChild
<1> QED BY <1>1, <1>2, <1>3, <1>4, <1>5, <1>6 DEF IInv

(* Started(k) keeps the invariant. *)
LEMMA StartedStep ==
    ASSUME SessionLockAssumption, IInv, NEW k \in Keepers, Started(k)
    PROVE  IInv'
<1>1. TypeOK'
  BY DEF IInv, SessionLockAssumption, Started, Goes, keeperVars, threadVars,
     TypeOK, ProcInv, Alive, Mine, Want, Children, Free, NoChild, Users,
     States, ThreadStates, ChildStates
<1>2. OneChild'
  BY DEF IInv, SessionLockAssumption, Started, Goes, keeperVars, threadVars,
     TypeOK, OneChild, ChildInv, ProcInv, Alive, Mine, Want, Children, NoChild
<1>3. ChildInv'
  BY DEF IInv, SessionLockAssumption, Started, Goes, keeperVars, threadVars,
     TypeOK, OneChild, ChildInv, ProcInv, Alive, Mine, Want, Children, NoChild
<1>4. ProcInv'
  BY DEF IInv, SessionLockAssumption, Started, Goes, keeperVars, threadVars,
     TypeOK, ProcInv, Mine, Children, NoChild
<1>5. LeftInv'
  BY DEF IInv, SessionLockAssumption, Started, Goes, keeperVars, threadVars,
     TypeOK, ProcInv, LeftInv, HandedOver, Alive, Mine, Children, NoChild,
     Free, Other
<1>6. HandedOver'
  BY DEF IInv, SessionLockAssumption, Started, Goes, keeperVars, threadVars,
     TypeOK, ProcInv, LeftInv, HandedOver, Alive, Mine, Children, NoChild
<1> QED BY <1>1, <1>2, <1>3, <1>4, <1>5, <1>6 DEF IInv

(* StartFails(k) keeps the invariant. *)
LEMMA StartFailsStep ==
    ASSUME SessionLockAssumption, IInv, NEW k \in Keepers, StartFails(k)
    PROVE  IInv'
<1>1. TypeOK'
  BY DEF IInv, SessionLockAssumption, StartFails, Goes, keeperVars,
     threadVars, TypeOK, ProcInv, Alive, Mine, Want, Children, Free, NoChild,
     Users, States, ThreadStates, ChildStates
<1>2. OneChild'
  BY DEF IInv, SessionLockAssumption, StartFails, Goes, keeperVars,
     threadVars, TypeOK, OneChild, ChildInv, ProcInv, Alive, Mine, Want,
     Children, NoChild
<1>3. ChildInv'
  BY DEF IInv, SessionLockAssumption, StartFails, Goes, keeperVars,
     threadVars, TypeOK, OneChild, ChildInv, ProcInv, Alive, Mine, Want,
     Children, NoChild
<1>4. ProcInv'
  BY DEF IInv, SessionLockAssumption, StartFails, Goes, keeperVars,
     threadVars, TypeOK, ProcInv, Mine, Children, NoChild
<1>5. LeftInv'
  BY DEF IInv, SessionLockAssumption, StartFails, Goes, keeperVars,
     threadVars, TypeOK, ProcInv, LeftInv, HandedOver, Alive, Mine, Children,
     NoChild, Free, Other
<1>6. HandedOver'
  BY DEF IInv, SessionLockAssumption, StartFails, Goes, keeperVars,
     threadVars, TypeOK, ProcInv, LeftInv, HandedOver, Alive, Mine, Children,
     NoChild
<1> QED BY <1>1, <1>2, <1>3, <1>4, <1>5, <1>6 DEF IInv

(* Stop(k) keeps the invariant. *)
LEMMA StopStep ==
    ASSUME SessionLockAssumption, IInv, NEW k \in Keepers, Stop(k)
    PROVE  IInv'
<1>1. TypeOK'
  BY DEF IInv, SessionLockAssumption, Stop, Goes, keeperVars, threadVars,
     TypeOK, ProcInv, Alive, Mine, Want, Children, Free, NoChild, Users,
     States, ThreadStates, ChildStates
<1>2. OneChild'
  BY DEF IInv, SessionLockAssumption, Stop, Goes, keeperVars, threadVars,
     TypeOK, OneChild, ChildInv, ProcInv, Alive, Mine, Want, Children, NoChild
<1>3. ChildInv'
  BY DEF IInv, SessionLockAssumption, Stop, Goes, keeperVars, threadVars,
     TypeOK, OneChild, ChildInv, ProcInv, Alive, Mine, Want, Children, NoChild
<1>4. ProcInv'
  BY DEF IInv, SessionLockAssumption, Stop, Goes, keeperVars, threadVars,
     TypeOK, ProcInv, Mine, Children, NoChild
<1>5. LeftInv'
  BY DEF IInv, SessionLockAssumption, Stop, Goes, keeperVars, threadVars,
     TypeOK, ProcInv, LeftInv, HandedOver, Alive, Mine, Children, NoChild,
     Free, Other
<1>6. HandedOver'
  BY DEF IInv, SessionLockAssumption, Stop, Goes, keeperVars, threadVars,
     TypeOK, ProcInv, LeftInv, HandedOver, Alive, Mine, Children, NoChild
<1> QED BY <1>1, <1>2, <1>3, <1>4, <1>5, <1>6 DEF IInv

(* StopSignal(k) keeps the invariant. *)
LEMMA StopSignalStep ==
    ASSUME SessionLockAssumption, IInv, NEW k \in Keepers, StopSignal(k)
    PROVE  IInv'
<1>1. TypeOK'
  BY DEF IInv, SessionLockAssumption, StopSignal, Goes, Interrupt, Unlocked,
     keeperVars, threadVars, TypeOK, ProcInv, Alive, Mine, Want, Children,
     Free, NoChild, Users, States, ThreadStates, ChildStates
<1>2. OneChild'
  BY SMTT(30) DEF IInv, SessionLockAssumption, StopSignal, Goes, Interrupt,
     Unlocked, keeperVars, threadVars, TypeOK, OneChild, ChildInv, ProcInv,
     Alive, Mine, Want, Children, NoChild
<1>3. ChildInv'
  BY SMTT(30) DEF IInv, SessionLockAssumption, StopSignal, Goes, Interrupt,
     Unlocked, keeperVars, threadVars, TypeOK, OneChild, ChildInv, ProcInv,
     Alive, Mine, Want, Children, NoChild
<1>4. ProcInv'
  BY SMTT(30) DEF IInv, SessionLockAssumption, StopSignal, Goes, Interrupt,
     Unlocked, keeperVars, threadVars, TypeOK, ProcInv, Mine, Children,
     NoChild
<1>5. LeftInv'
  BY SMTT(30) DEF IInv, SessionLockAssumption, StopSignal, Goes, Interrupt,
     Unlocked, keeperVars, threadVars, TypeOK, ProcInv, LeftInv, HandedOver,
     Alive, Mine, Children, NoChild, Free, Other
<1>6. HandedOver'
  BY SMTT(30) DEF IInv, SessionLockAssumption, StopSignal, Goes, Interrupt,
     Unlocked, keeperVars, threadVars, TypeOK, ProcInv, LeftInv, HandedOver,
     Alive, Mine, Children, NoChild
<1> QED BY <1>1, <1>2, <1>3, <1>4, <1>5, <1>6 DEF IInv

(* Detach(k) keeps the invariant. *)
LEMMA DetachStep ==
    ASSUME SessionLockAssumption, IInv, NEW k \in Keepers, Detach(k)
    PROVE  IInv'
<1>1. TypeOK'
  BY DEF IInv, SessionLockAssumption, Detach, Goes, keeperVars, threadVars,
     TypeOK, ProcInv, Alive, Mine, Want, Children, Free, NoChild, Users,
     States, ThreadStates, ChildStates
<1>2. OneChild'
  BY DEF IInv, SessionLockAssumption, Detach, Goes, keeperVars, threadVars,
     TypeOK, OneChild, ChildInv, ProcInv, Alive, Mine, Want, Children, NoChild
<1>3. ChildInv'
  BY DEF IInv, SessionLockAssumption, Detach, Goes, keeperVars, threadVars,
     TypeOK, OneChild, ChildInv, ProcInv, Alive, Mine, Want, Children, NoChild
<1>4. ProcInv'
  BY DEF IInv, SessionLockAssumption, Detach, Goes, keeperVars, threadVars,
     TypeOK, ProcInv, Mine, Children, NoChild
<1>5. LeftInv'
  BY DEF IInv, SessionLockAssumption, Detach, Goes, keeperVars, threadVars,
     TypeOK, ProcInv, LeftInv, HandedOver, Alive, Mine, Children, NoChild,
     Free, Other
<1>6. HandedOver'
  BY DEF IInv, SessionLockAssumption, Detach, Goes, keeperVars, threadVars,
     TypeOK, ProcInv, LeftInv, HandedOver, Alive, Mine, Children, NoChild
<1> QED BY <1>1, <1>2, <1>3, <1>4, <1>5, <1>6 DEF IInv

(* Forget(k) keeps the invariant. *)
LEMMA ForgetStep ==
    ASSUME SessionLockAssumption, IInv, NEW k \in Keepers, Forget(k)
    PROVE  IInv'
<1>1. TypeOK'
  BY DEF IInv, SessionLockAssumption, Forget, Goes, keeperVars, threadVars,
     TypeOK, ProcInv, Alive, Mine, Want, Children, Free, NoChild, Users,
     States, ThreadStates, ChildStates
<1>2. OneChild'
  BY SMTT(30) DEF IInv, SessionLockAssumption, Forget, Goes, keeperVars,
     threadVars, TypeOK, OneChild, ChildInv, ProcInv, Alive, Mine, Want,
     Children, NoChild
<1>3. ChildInv'
  BY SMTT(30) DEF IInv, SessionLockAssumption, Forget, Goes, keeperVars,
     threadVars, TypeOK, OneChild, ChildInv, ProcInv, Alive, Mine, Want,
     Children, NoChild
<1>4. ProcInv'
  BY SMTT(30) DEF IInv, SessionLockAssumption, Forget, Goes, keeperVars,
     threadVars, TypeOK, ProcInv, Mine, Children, NoChild
<1>5. LeftInv'
  BY SMTT(30) DEF IInv, SessionLockAssumption, Forget, Goes, keeperVars,
     threadVars, TypeOK, ProcInv, LeftInv, HandedOver, Alive, Mine, Children,
     NoChild, Free, Other
<1>6. HandedOver'
  BY SMTT(30) DEF IInv, SessionLockAssumption, Forget, Goes, keeperVars,
     threadVars, TypeOK, ProcInv, LeftInv, HandedOver, Alive, Mine, Children,
     NoChild
<1> QED BY <1>1, <1>2, <1>3, <1>4, <1>5, <1>6 DEF IInv

(* Die(k) keeps the invariant. *)
LEMMA DieStep ==
    ASSUME SessionLockAssumption, IInv, NEW k \in Keepers, Die(k)
    PROVE  IInv'
<1>1. TypeOK'
  BY DEF IInv, SessionLockAssumption, Die, keeperVars, threadVars, TypeOK,
     ProcInv, Alive, Mine, Want, Children, Free, NoChild, Users, States,
     ThreadStates, ChildStates
<1>2. OneChild'
  BY SMTT(30) DEF IInv, SessionLockAssumption, Die, keeperVars, threadVars,
     TypeOK, OneChild, ChildInv, ProcInv, Alive, Mine, Want, Children, NoChild
<1>3. ChildInv'
  BY SMTT(30) DEF IInv, SessionLockAssumption, Die, keeperVars, threadVars,
     TypeOK, OneChild, ChildInv, ProcInv, Alive, Mine, Want, Children, NoChild
<1>4. ProcInv'
  BY SMTT(30) DEF IInv, SessionLockAssumption, Die, keeperVars, threadVars,
     TypeOK, ProcInv, Mine, Children, NoChild
<1>5. LeftInv'
  BY SMTT(30) DEF IInv, SessionLockAssumption, Die, keeperVars, threadVars,
     TypeOK, ProcInv, LeftInv, HandedOver, Alive, Mine, Children, NoChild,
     Free, Other
<1>6. HandedOver'
  BY SMTT(30) DEF IInv, SessionLockAssumption, Die, keeperVars, threadVars,
     TypeOK, ProcInv, LeftInv, HandedOver, Alive, Mine, Children, NoChild
<1> QED BY <1>1, <1>2, <1>3, <1>4, <1>5, <1>6 DEF IInv

(* Head(k) keeps the invariant. *)
LEMMA HeadStep ==
    ASSUME SessionLockAssumption, IInv, NEW k \in Keepers, Head(k)
    PROVE  IInv'
<1>1. TypeOK'
  BY DEF IInv, SessionLockAssumption, Head, Moves, keeperVars, threadVars,
     TypeOK, ProcInv, Alive, Mine, Want, Children, Free, NoChild, Users,
     States, ThreadStates, ChildStates
<1>2. OneChild'
  BY DEF IInv, SessionLockAssumption, Head, Moves, keeperVars, threadVars,
     TypeOK, OneChild, ChildInv, ProcInv, Alive, Mine, Want, Children, NoChild
<1>3. ChildInv'
  BY DEF IInv, SessionLockAssumption, Head, Moves, keeperVars, threadVars,
     TypeOK, OneChild, ChildInv, ProcInv, Alive, Mine, Want, Children, NoChild
<1>4. ProcInv'
  BY DEF IInv, SessionLockAssumption, Head, Moves, keeperVars, threadVars,
     TypeOK, ProcInv, Mine, Children, NoChild
<1>5. LeftInv'
  BY DEF IInv, SessionLockAssumption, Head, Moves, keeperVars, threadVars,
     TypeOK, ProcInv, LeftInv, HandedOver, Alive, Mine, Children, NoChild,
     Free, Other
<1>6. HandedOver'
  BY DEF IInv, SessionLockAssumption, Head, Moves, keeperVars, threadVars,
     TypeOK, ProcInv, LeftInv, HandedOver, Alive, Mine, Children, NoChild
<1> QED BY <1>1, <1>2, <1>3, <1>4, <1>5, <1>6 DEF IInv

(* Spawn(k) keeps the invariant. *)
LEMMA SpawnStep ==
    ASSUME SessionLockAssumption, IInv, NEW k \in Keepers, Spawn(k)
    PROVE  IInv'
<1>1. TypeOK'
  BY DEF IInv, SessionLockAssumption, Spawn, Moves, keeperVars, threadVars,
     TypeOK, ProcInv, Alive, Mine, Want, Children, Free, NoChild, Users,
     States, ThreadStates, ChildStates
<1>2. OneChild'
  BY SMTT(30) DEF IInv, SessionLockAssumption, Spawn, Moves, keeperVars,
     threadVars, TypeOK, OneChild, ChildInv, ProcInv, Alive, Mine, Want,
     Children, NoChild
<1>3. ChildInv'
  BY SMTT(30) DEF IInv, SessionLockAssumption, Spawn, Moves, keeperVars,
     threadVars, TypeOK, OneChild, ChildInv, ProcInv, Alive, Mine, Want,
     Children, NoChild
<1>4. ProcInv'
  BY SMTT(30) DEF IInv, SessionLockAssumption, Spawn, Moves, keeperVars,
     threadVars, TypeOK, ProcInv, Mine, Children, NoChild
<1>5. LeftInv'
  BY SMTT(30) DEF IInv, SessionLockAssumption, Spawn, Moves, keeperVars,
     threadVars, TypeOK, ProcInv, LeftInv, HandedOver, Alive, Mine, Children,
     NoChild, Free, Other, OneChild
<1>6. HandedOver'
  BY SMTT(30) DEF IInv, SessionLockAssumption, Spawn, Moves, keeperVars,
     threadVars, TypeOK, ProcInv, LeftInv, HandedOver, Alive, Mine, Children,
     NoChild
<1> QED BY <1>1, <1>2, <1>3, <1>4, <1>5, <1>6 DEF IInv

(* Answered(k) keeps the invariant. *)
LEMMA AnsweredStep ==
    ASSUME SessionLockAssumption, IInv, NEW k \in Keepers, Answered(k)
    PROVE  IInv'
<1>1. TypeOK'
  BY DEF IInv, SessionLockAssumption, Answered, Moves, Sets, Says, keeperVars,
     threadVars, TypeOK, ProcInv, Alive, Mine, Want, Children, Free, NoChild,
     Users, States, ThreadStates, ChildStates
<1>2. OneChild'
  BY SMTT(30) DEF IInv, SessionLockAssumption, Answered, Moves, Sets, Says,
     keeperVars, threadVars, TypeOK, OneChild, ChildInv, ProcInv, Alive, Mine,
     Want, Children, NoChild
<1>3. ChildInv'
  BY SMTT(30) DEF IInv, SessionLockAssumption, Answered, Moves, Sets, Says,
     keeperVars, threadVars, TypeOK, OneChild, ChildInv, ProcInv, Alive, Mine,
     Want, Children, NoChild
<1>4. ProcInv'
  BY SMTT(30) DEF IInv, SessionLockAssumption, Answered, Moves, Sets, Says,
     keeperVars, threadVars, TypeOK, ProcInv, Mine, Children, NoChild
<1>5. LeftInv'
  BY SMTT(30) DEF IInv, SessionLockAssumption, Answered, Moves, Sets, Says,
     keeperVars, threadVars, TypeOK, ProcInv, LeftInv, HandedOver, Alive,
     Mine, Children, NoChild, Free, Other
<1>6. HandedOver'
  BY SMTT(30) DEF IInv, SessionLockAssumption, Answered, Moves, Sets, Says,
     keeperVars, threadVars, TypeOK, ProcInv, LeftInv, HandedOver, Alive,
     Mine, Children, NoChild
<1> QED BY <1>1, <1>2, <1>3, <1>4, <1>5, <1>6 DEF IInv

(* SpawnRaises(k) keeps the invariant. *)
LEMMA SpawnRaisesStep ==
    ASSUME SessionLockAssumption, IInv, NEW k \in Keepers, SpawnRaises(k)
    PROVE  IInv'
<1>1. TypeOK'
  BY DEF IInv, SessionLockAssumption, SpawnRaises, Moves, Sets, keeperVars,
     threadVars, TypeOK, ProcInv, Alive, Mine, Want, Children, Free, NoChild,
     Users, States, ThreadStates, ChildStates
<1>2. OneChild'
  BY DEF IInv, SessionLockAssumption, SpawnRaises, Moves, Sets, keeperVars,
     threadVars, TypeOK, OneChild, ChildInv, ProcInv, Alive, Mine, Want,
     Children, NoChild
<1>3. ChildInv'
  BY DEF IInv, SessionLockAssumption, SpawnRaises, Moves, Sets, keeperVars,
     threadVars, TypeOK, OneChild, ChildInv, ProcInv, Alive, Mine, Want,
     Children, NoChild
<1>4. ProcInv'
  BY DEF IInv, SessionLockAssumption, SpawnRaises, Moves, Sets, keeperVars,
     threadVars, TypeOK, ProcInv, Mine, Children, NoChild
<1>5. LeftInv'
  BY DEF IInv, SessionLockAssumption, SpawnRaises, Moves, Sets, keeperVars,
     threadVars, TypeOK, ProcInv, LeftInv, HandedOver, Alive, Mine, Children,
     NoChild, Free, Other
<1>6. HandedOver'
  BY DEF IInv, SessionLockAssumption, SpawnRaises, Moves, Sets, keeperVars,
     threadVars, TypeOK, ProcInv, LeftInv, HandedOver, Alive, Mine, Children,
     NoChild
<1> QED BY <1>1, <1>2, <1>3, <1>4, <1>5, <1>6 DEF IInv

(* GivesUp(k) keeps the invariant. *)
LEMMA GivesUpStep ==
    ASSUME SessionLockAssumption, IInv, NEW k \in Keepers, GivesUp(k)
    PROVE  IInv'
<1>1. TypeOK'
  BY DEF IInv, SessionLockAssumption, GivesUp, Interrupt, Unlocked,
     keeperVars, threadVars, TypeOK, ProcInv, Alive, Mine, Want, Children,
     Free, NoChild, Users, States, ThreadStates, ChildStates
<1>2. OneChild'
  BY SMTT(30) DEF IInv, SessionLockAssumption, GivesUp, Interrupt, Unlocked,
     keeperVars, threadVars, TypeOK, OneChild, ChildInv, ProcInv, Alive, Mine,
     Want, Children, NoChild
<1>3. ChildInv'
  BY SMTT(30) DEF IInv, SessionLockAssumption, GivesUp, Interrupt, Unlocked,
     keeperVars, threadVars, TypeOK, OneChild, ChildInv, ProcInv, Alive, Mine,
     Want, Children, NoChild
<1>4. ProcInv'
  BY SMTT(30) DEF IInv, SessionLockAssumption, GivesUp, Interrupt, Unlocked,
     keeperVars, threadVars, TypeOK, ProcInv, Mine, Children, NoChild
<1>5. LeftInv'
  BY SMTT(30) DEF IInv, SessionLockAssumption, GivesUp, Interrupt, Unlocked,
     keeperVars, threadVars, TypeOK, ProcInv, LeftInv, HandedOver, Alive,
     Mine, Children, NoChild, Free, Other
<1>6. HandedOver'
  <2> SUFFICES ASSUME NEW j \in Keepers, left[j] # NoChild
               PROVE  child'[left[j]] \in {"holding", "expired"}
    BY DEF HandedOver, GivesUp
  <2>1. child[left[j]] \in {"holding", "expired"}
    BY DEF IInv, HandedOver
  <2>2. left[j] \in Children
    BY DEF IInv, TypeOK
  <2>3. left[j] # Mine(k)
    BY <2>1, child[Mine(k)] = "asking" DEF GivesUp
  <2>4. child'[left[j]] = child[left[j]]
    BY <2>2, <2>3 DEF GivesUp, Interrupt, IInv, TypeOK
  <2> QED BY <2>1, <2>4
<1> QED BY <1>1, <1>2, <1>3, <1>4, <1>5, <1>6 DEF IInv

(* Raced(k) keeps the invariant. *)
LEMMA RacedStep ==
    ASSUME SessionLockAssumption, IInv, NEW k \in Keepers, Raced(k)
    PROVE  IInv'
<1>1. TypeOK'
  BY DEF IInv, SessionLockAssumption, Raced, Moves, Interrupt, Unlocked,
     keeperVars, threadVars, TypeOK, ProcInv, Alive, Mine, Want, Children,
     Free, NoChild, Users, States, ThreadStates, ChildStates
<1>2. OneChild'
  BY SMTT(30) DEF IInv, SessionLockAssumption, Raced, Moves, Interrupt,
     Unlocked, keeperVars, threadVars, TypeOK, OneChild, ChildInv, ProcInv,
     Alive, Mine, Want, Children, NoChild
<1>3. ChildInv'
  BY SMTT(30) DEF IInv, SessionLockAssumption, Raced, Moves, Interrupt,
     Unlocked, keeperVars, threadVars, TypeOK, OneChild, ChildInv, ProcInv,
     Alive, Mine, Want, Children, NoChild
<1>4. ProcInv'
  BY SMTT(30) DEF IInv, SessionLockAssumption, Raced, Moves, Interrupt,
     Unlocked, keeperVars, threadVars, TypeOK, ProcInv, Mine, Children,
     NoChild
<1>5. LeftInv'
  BY SMTT(30) DEF IInv, SessionLockAssumption, Raced, Moves, Interrupt,
     Unlocked, keeperVars, threadVars, TypeOK, ProcInv, LeftInv, HandedOver,
     Alive, Mine, Children, NoChild, Free, Other
<1>6. HandedOver'
  BY SMTT(30) DEF IInv, SessionLockAssumption, Raced, Moves, Interrupt,
     Unlocked, keeperVars, threadVars, TypeOK, ProcInv, LeftInv, HandedOver,
     Alive, Mine, Children, NoChild
<1> QED BY <1>1, <1>2, <1>3, <1>4, <1>5, <1>6 DEF IInv

(* HeldEnds(k) keeps the invariant. *)
LEMMA HeldEndsStep ==
    ASSUME SessionLockAssumption, IInv, NEW k \in Keepers, HeldEnds(k)
    PROVE  IInv'
<1>1. TypeOK'
  BY DEF IInv, SessionLockAssumption, HeldEnds, Moves, keeperVars, threadVars,
     TypeOK, ProcInv, Alive, Mine, Want, Children, Free, NoChild, Users,
     States, ThreadStates, ChildStates
<1>2. OneChild'
  BY SMTT(30) DEF IInv, SessionLockAssumption, HeldEnds, Moves, keeperVars,
     threadVars, TypeOK, OneChild, ChildInv, ProcInv, Alive, Mine, Want,
     Children, NoChild
<1>3. ChildInv'
  BY SMTT(30) DEF IInv, SessionLockAssumption, HeldEnds, Moves, keeperVars,
     threadVars, TypeOK, OneChild, ChildInv, ProcInv, Alive, Mine, Want,
     Children, NoChild
<1>4. ProcInv'
  BY SMTT(30) DEF IInv, SessionLockAssumption, HeldEnds, Moves, keeperVars,
     threadVars, TypeOK, ProcInv, Mine, Children, NoChild
<1>5. LeftInv'
  BY SMTT(30) DEF IInv, SessionLockAssumption, HeldEnds, Moves, keeperVars,
     threadVars, TypeOK, ProcInv, LeftInv, HandedOver, Alive, Mine, Children,
     NoChild, Free, Other
<1>6. HandedOver'
  BY SMTT(30) DEF IInv, SessionLockAssumption, HeldEnds, Moves, keeperVars,
     threadVars, TypeOK, ProcInv, LeftInv, HandedOver, Alive, Mine, Children,
     NoChild
<1> QED BY <1>1, <1>2, <1>3, <1>4, <1>5, <1>6 DEF IInv

(* WaitEnds(k) keeps the invariant. *)
LEMMA WaitEndsStep ==
    ASSUME SessionLockAssumption, IInv, NEW k \in Keepers, WaitEnds(k)
    PROVE  IInv'
<1>1. TypeOK'
  BY DEF IInv, SessionLockAssumption, WaitEnds, Moves, keeperVars, threadVars,
     TypeOK, ProcInv, Alive, Mine, Want, Children, Free, NoChild, Users,
     States, ThreadStates, ChildStates
<1>2. OneChild'
  BY DEF IInv, SessionLockAssumption, WaitEnds, Moves, keeperVars, threadVars,
     TypeOK, OneChild, ChildInv, ProcInv, Alive, Mine, Want, Children, NoChild
<1>3. ChildInv'
  BY DEF IInv, SessionLockAssumption, WaitEnds, Moves, keeperVars, threadVars,
     TypeOK, OneChild, ChildInv, ProcInv, Alive, Mine, Want, Children, NoChild
<1>4. ProcInv'
  BY DEF IInv, SessionLockAssumption, WaitEnds, Moves, keeperVars, threadVars,
     TypeOK, ProcInv, Mine, Children, NoChild
<1>5. LeftInv'
  BY DEF IInv, SessionLockAssumption, WaitEnds, Moves, keeperVars, threadVars,
     TypeOK, ProcInv, LeftInv, HandedOver, Alive, Mine, Children, NoChild,
     Free, Other
<1>6. HandedOver'
  BY DEF IInv, SessionLockAssumption, WaitEnds, Moves, keeperVars, threadVars,
     TypeOK, ProcInv, LeftInv, HandedOver, Alive, Mine, Children, NoChild
<1> QED BY <1>1, <1>2, <1>3, <1>4, <1>5, <1>6 DEF IInv

(* BlockedEnds(k) keeps the invariant. *)
LEMMA BlockedEndsStep ==
    ASSUME SessionLockAssumption, IInv, NEW k \in Keepers, BlockedEnds(k)
    PROVE  IInv'
<1>1. TypeOK'
  BY DEF IInv, SessionLockAssumption, BlockedEnds, Moves, keeperVars,
     threadVars, TypeOK, ProcInv, Alive, Mine, Want, Children, Free, NoChild,
     Users, States, ThreadStates, ChildStates
<1>2. OneChild'
  BY DEF IInv, SessionLockAssumption, BlockedEnds, Moves, keeperVars,
     threadVars, TypeOK, OneChild, ChildInv, ProcInv, Alive, Mine, Want,
     Children, NoChild
<1>3. ChildInv'
  BY DEF IInv, SessionLockAssumption, BlockedEnds, Moves, keeperVars,
     threadVars, TypeOK, OneChild, ChildInv, ProcInv, Alive, Mine, Want,
     Children, NoChild
<1>4. ProcInv'
  BY DEF IInv, SessionLockAssumption, BlockedEnds, Moves, keeperVars,
     threadVars, TypeOK, ProcInv, Mine, Children, NoChild
<1>5. LeftInv'
  BY DEF IInv, SessionLockAssumption, BlockedEnds, Moves, keeperVars,
     threadVars, TypeOK, ProcInv, LeftInv, HandedOver, Alive, Mine, Children,
     NoChild, Free, Other
<1>6. HandedOver'
  BY DEF IInv, SessionLockAssumption, BlockedEnds, Moves, keeperVars,
     threadVars, TypeOK, ProcInv, LeftInv, HandedOver, Alive, Mine, Children,
     NoChild
<1> QED BY <1>1, <1>2, <1>3, <1>4, <1>5, <1>6 DEF IInv

(* Answers(c) keeps the invariant. *)
LEMMA AnswersStep ==
    ASSUME SessionLockAssumption, IInv, NEW c \in Children, Answers(c)
    PROVE  IInv'
<1>1. TypeOK'
  BY DEF IInv, SessionLockAssumption, Answers, keeperVars, threadVars, TypeOK,
     ProcInv, Alive, Mine, Want, Children, Free, NoChild, Users, States,
     ThreadStates, ChildStates
<1>2. OneChild'
  BY SMTT(30) DEF IInv, SessionLockAssumption, Answers, keeperVars,
     threadVars, TypeOK, OneChild, ChildInv, ProcInv, Alive, Mine, Want,
     Children, NoChild
<1>3. ChildInv'
  BY SMTT(30) DEF IInv, SessionLockAssumption, Answers, keeperVars,
     threadVars, TypeOK, OneChild, ChildInv, ProcInv, Alive, Mine, Want,
     Children, NoChild
<1>4. ProcInv'
  BY SMTT(30) DEF IInv, SessionLockAssumption, Answers, keeperVars,
     threadVars, TypeOK, ProcInv, Mine, Children, NoChild
<1>5. LeftInv'
  BY SMTT(30) DEF IInv, SessionLockAssumption, Answers, keeperVars,
     threadVars, TypeOK, ProcInv, LeftInv, HandedOver, Alive, Mine, Children,
     NoChild, Free, Other
<1>6. HandedOver'
  BY SMTT(30) DEF IInv, SessionLockAssumption, Answers, keeperVars,
     threadVars, TypeOK, ProcInv, LeftInv, HandedOver, Alive, Mine, Children,
     NoChild
<1> QED BY <1>1, <1>2, <1>3, <1>4, <1>5, <1>6 DEF IInv

(* Expire(c) keeps the invariant. *)
LEMMA ExpireStep ==
    ASSUME SessionLockAssumption, IInv, NEW c \in Children, Expire(c)
    PROVE  IInv'
<1>1. TypeOK'
  BY DEF IInv, SessionLockAssumption, Expire, keeperVars, threadVars, TypeOK,
     ProcInv, Alive, Mine, Want, Children, Free, NoChild, Users, States,
     ThreadStates, ChildStates
<1>2. OneChild'
  BY SMTT(30) DEF IInv, SessionLockAssumption, Expire, keeperVars, threadVars,
     TypeOK, OneChild, ChildInv, ProcInv, Alive, Mine, Want, Children, NoChild
<1>3. ChildInv'
  BY SMTT(30) DEF IInv, SessionLockAssumption, Expire, keeperVars, threadVars,
     TypeOK, OneChild, ChildInv, ProcInv, Alive, Mine, Want, Children, NoChild
<1>4. ProcInv'
  BY SMTT(30) DEF IInv, SessionLockAssumption, Expire, keeperVars, threadVars,
     TypeOK, ProcInv, Mine, Children, NoChild
<1>5. LeftInv'
  BY SMTT(30) DEF IInv, SessionLockAssumption, Expire, keeperVars, threadVars,
     TypeOK, ProcInv, LeftInv, HandedOver, Alive, Mine, Children, NoChild,
     Free, Other
<1>6. HandedOver'
  BY SMTT(30) DEF IInv, SessionLockAssumption, Expire, keeperVars, threadVars,
     TypeOK, ProcInv, LeftInv, HandedOver, Alive, Mine, Children, NoChild
<1> QED BY <1>1, <1>2, <1>3, <1>4, <1>5, <1>6 DEF IInv

(* A step that changes nothing keeps the invariant. *)
LEMMA StutterStep ==
    ASSUME IInv, UNCHANGED vars
    PROVE  IInv'
BY DEF vars, keeperVars, threadVars, IInv, TypeOK, OneChild, ChildInv,
     ProcInv, LeftInv, HandedOver, Alive, Mine

(* Every step keeps the invariant. *)
LEMMA NextStep ==
    ASSUME SessionLockAssumption, IInv, [Next]_vars
    PROVE  IInv'
<1>1. ASSUME NEW k \in Keepers, Returns(k) \/ Start(k) \/ Stop(k) \/ Detach(k) \/ Die(k)
      PROVE  IInv'
  BY <1>1, StartStep, StartedStep, StartFailsStep, StopStep, StopSignalStep,
     DetachStep, ForgetStep, DieStep DEF Returns
<1>2. ASSUME NEW k \in Keepers, Thread(k)
      PROVE  IInv'
  BY <1>2, HeadStep, SpawnStep, AnsweredStep, SpawnRaisesStep, GivesUpStep,
     RacedStep, HeldEndsStep, WaitEndsStep, BlockedEndsStep DEF Thread
<1>3. ASSUME NEW c \in Children, Answers(c) \/ Expire(c)
      PROVE  IInv'
  BY <1>3, AnswersStep, ExpireStep
<1>4. CASE OtherLocks
  <2>1. TypeOK'
    BY <1>4 DEF IInv, TypeOK, OtherLocks, keeperVars, threadVars
  <2>2. OneChild' /\ ChildInv' /\ ProcInv' /\ HandedOver'
    BY <1>4 DEF IInv, OneChild, ChildInv, ProcInv, HandedOver, Alive, Mine,
       OtherLocks, keeperVars, threadVars
  <2>3. LeftInv'
    BY <1>4 DEF IInv, LeftInv, Other, Children, SessionLockAssumption,
       OtherLocks, keeperVars, threadVars
  <2> QED BY <2>1, <2>2, <2>3 DEF IInv
<1>5. CASE OtherReleases
  <2>1. TypeOK'
    BY <1>5 DEF IInv, TypeOK, OtherReleases, keeperVars, threadVars
  <2>2. OneChild' /\ ChildInv' /\ ProcInv' /\ HandedOver'
    BY <1>5 DEF IInv, OneChild, ChildInv, ProcInv, HandedOver, Alive, Mine,
       OtherReleases, keeperVars, threadVars
  <2>3. LeftInv'
    BY <1>5 DEF IInv, LeftInv, Free, Children, SessionLockAssumption,
       OtherReleases, keeperVars, threadVars
  <2> QED BY <2>1, <2>2, <2>3 DEF IInv
<1> QED BY <1>1, <1>2, <1>3, <1>4, <1>5, StutterStep DEF Next

(* The inductive invariant of the keepers (session_lock.py:100-151, 197-215). *)
THEOREM LockInvariance == Spec => []IInv
<1>1. Init => IInv
  BY InitIInv, SessionLockAssumption
<1>2. IInv /\ [Next]_vars => IInv'
  BY NextStep, SessionLockAssumption
<1> QED BY <1>1, <1>2, PTL DEF Spec

(* A stop() that is over leaves no child to hold or take the lock, wherever it *)
(* fell in an acquire or a renewal (session_lock.py:118-134, 203-207).         *)
THEOREM StopLeavesNothing == Spec => []StoppedHoldsNothing
<1>1. IInv => StoppedHoldsNothing
  <2> SUFFICES ASSUME IInv, NEW k \in Keepers, user[k] = "done",
                      thread[k] = "ended", NEW i \in 1..MaxChunks,
                      Alive(<<k, i>>)
               PROVE  FALSE
    BY DEF StoppedHoldsNothing
  <2>1. <<k, i>> = Mine(k)
    BY DEF IInv, OneChild, Children
  <2> QED BY <2>1 DEF IInv, ChildInv
<1> QED BY <1>1, LockInvariance, PTL

(* A keeper never has two children alive, through any renewal              *)
(* (session_lock.py:197-215).                                              *)
THEOREM OneChildAtATime == Spec => []OneChild
<1>1. IInv => OneChild
  BY DEF IInv
<1> QED BY <1>1, LockInvariance, PTL

(* The lock an apply leaves to the next run is ended by its lifetime alone *)
(* (session_lock.py:136-151).                                              *)
THEOREM HandOverIsKept == Spec => []HandedOver
<1>1. IInv => HandedOver
  BY DEF IInv
<1> QED BY <1>1, LockInvariance, PTL

=============================================================================
