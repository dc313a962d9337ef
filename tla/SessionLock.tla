---------------------------- MODULE SessionLock ----------------------------
(***************************************************************************)
(* The keepers of the bench's session lock (session_lock.py): the capture  *)
(* server's and those of the chip configuration, each with its thread and  *)
(* its p2basket-sc children, against the lock file and other users.        *)
(*                                                                         *)
(* A child is <<k, i>>, the i-th that keeper k started.                    *)
(***************************************************************************)
EXTENDS Naturals

CONSTANTS
    Keepers,
    HandsOver,       \* keepers of chip_config._run, which may detach
    MaxChunks        \* bound: children of one keeper

ASSUME SessionLockAssumption ==
    /\ HandsOver \subseteq Keepers
    /\ Keepers \cap {"none", "free", "other"} = {}
    /\ MaxChunks \in Nat \ {0}

VARIABLES
    user,        \* where the program that uses the keeper is
    state,       \* .state; _first is set once it is not "idle"
    proc,        \* _proc, NoChild when None
    thread,      \* where _loop is
    chunks,      \* children started
    child,       \* each child's process
    lock,        \* whose the lock file is
    left         \* history: the child that detach left its lock

keeperVars == <<user, state, proc>>
threadVars == <<thread, chunks>>
vars == <<keeperVars, threadVars, child, lock, left>>

Children == Keepers \X (1..MaxChunks)
NoChild  == <<"none", 0>>
Free     == <<"free", 0>>
Other    == <<"other", 0>>     \* another user of the bench

Users == {"idle", "starting", "using", "stop", "detach", "done",
          "detached", "dead"}
States == {"idle", "held", "waiting_own", "blocked", "stopped"}
ThreadStates == {"none", "head", "spawn", "reading", "held", "waiting_own",
                 "blocked", "ended"}
ChildStates == {"unborn", "asking", "holding", "own", "refused", "canceled",
                "expired", "read"}

Alive(c) == c \in Children /\ child[c] \in {"asking", "holding"}
Mine(k)  == <<k, chunks[k]>>                    \* p of the thread
Want(k)  == user[k] \in {"starting", "using"}   \* _want

Init ==
    /\ user = [k \in Keepers |-> "idle"] /\ state = [k \in Keepers |-> "idle"]
    /\ proc = [k \in Keepers |-> NoChild]
    /\ thread = [k \in Keepers |-> "none"] /\ chunks = [k \in Keepers |-> 0]
    /\ child = [c \in Children |-> "unborn"]
    /\ lock = Free /\ left = [k \in Keepers |-> NoChild]

-----------------------------------------------------------------------------
(* What a signal does.                                                     *)

Unlocked(c) == IF lock = c THEN Free ELSE lock

\* SIGINT: the child gives up its lock, or its attempt; one that hangs in the
\* attempt is killed in the end.
Interrupt(c) ==
    /\ Alive(c)
    /\ child' = [child EXCEPT ![c] = "canceled"]
    /\ lock' = Unlocked(c)

-----------------------------------------------------------------------------
(* The program that uses the keeper.                                       *)

Goes(k, from, to) == user[k] = from /\ user' = [user EXCEPT ![k] = to]

Start(k) ==
    /\ Goes(k, "idle", "starting")
    /\ thread' = [thread EXCEPT ![k] = "head"]
    /\ UNCHANGED <<state, proc, chunks, child, lock, left>>

\* Our account holding the lock is as good as holding it.
Started(k) ==
    /\ state[k] \in {"held", "waiting_own"}
    /\ Goes(k, "starting", "using")
    /\ UNCHANGED <<state, proc, threadVars, child, lock, left>>

\* stop() of a start that failed, or that had no answer in START_TIMEOUT_S.
StartFails(k) ==
    /\ state[k] \notin {"held", "waiting_own"}
    /\ Goes(k, "starting", "stop")
    /\ UNCHANGED <<state, proc, threadVars, child, lock, left>>

Stop(k) ==
    /\ Goes(k, "using", "stop")
    /\ UNCHANGED <<state, proc, threadVars, child, lock, left>>

\* The signal of stop(), for the child it knows of.  The join that follows waits
\* for the thread, but not for ever.
StopSignal(k) ==
    /\ Goes(k, "stop", "done")
    /\ \/ Interrupt(proc[k])
       \/ ~Alive(proc[k]) /\ UNCHANGED <<child, lock>>
    /\ state' = [state EXCEPT ![k] = "stopped"]
    /\ UNCHANGED <<proc, threadVars, left>>

Detach(k) ==
    /\ k \in HandsOver
    /\ Goes(k, "using", "detach")
    /\ UNCHANGED <<state, proc, threadVars, child, lock, left>>

\* Mutant of Forget: the handle is forgotten after the child was told to end.
ForgetInterrupts(k) ==
    /\ Goes(k, "detach", "detached")
    /\ proc' = [proc EXCEPT ![k] = NoChild]
    /\ \/ Interrupt(proc[k])
       \/ ~Alive(proc[k]) /\ UNCHANGED <<child, lock>>
    /\ left' = [left EXCEPT ![k] = IF Alive(proc[k]) /\ lock = proc[k]
                                   THEN proc[k] ELSE NoChild]
    /\ state' = [state EXCEPT ![k] = "stopped"]
    /\ UNCHANGED threadVars

\* The child is left to run on, its handle forgotten.
Forget(k) ==
    /\ Goes(k, "detach", "detached")
    /\ proc' = [proc EXCEPT ![k] = NoChild]
    /\ left' = [left EXCEPT ![k] = IF Alive(proc[k]) /\ lock = proc[k]
                                   THEN proc[k] ELSE NoChild]
    /\ state' = [state EXCEPT ![k] = "stopped"]
    /\ UNCHANGED <<threadVars, child, lock>>

\* The program dies hard, its keeper and daemon thread with it; the children
\* live on.
Die(k) ==
    /\ user[k] \notin {"idle", "done", "detached", "dead"}
    /\ user' = [user EXCEPT ![k] = "dead"]
    /\ thread' = [thread EXCEPT ![k] = "ended"]
    /\ state' = [state EXCEPT ![k] = "stopped"]
    /\ proc' = [proc EXCEPT ![k] = NoChild]
    /\ UNCHANGED <<chunks, child, lock, left>>

-----------------------------------------------------------------------------
(* _loop and _acquire_once.                                                *)

Moves(k, from, to) == thread[k] = from /\ thread' = [thread EXCEPT ![k] = to]

Head(k) ==
    /\ \/ Want(k) /\ Moves(k, "head", "spawn")
       \/ ~Want(k) /\ Moves(k, "head", "ended")
    /\ UNCHANGED <<keeperVars, chunks, child, lock, left>>

\* The child is known to stop() from here on.
Spawn(k) ==
    /\ Moves(k, "spawn", "reading")
    /\ chunks[k] < MaxChunks
    /\ chunks' = [chunks EXCEPT ![k] = @ + 1]
    /\ child' = [child EXCEPT ![<<k, chunks[k] + 1>>] = "asking"]
    /\ proc' = [proc EXCEPT ![k] = <<k, chunks[k] + 1>>]
    /\ UNCHANGED <<user, state, lock, left>>

\* The child's answer, as _acquire_once reads it.
Says(c) ==
    CASE child[c] \in {"holding", "expired"} -> {"held"}
      [] child[c] = "own"                    -> {"waiting_own"}
      [] child[c] = "refused"                -> {"blocked"}
      [] child[c] = "canceled"               -> {"held", "blocked"}
      [] OTHER                               -> {}

\* What the acquire came to is taken as the keeper's state.
Sets(k, from, a) ==
    /\ Want(k) /\ Moves(k, from, a)
    /\ state' = [state EXCEPT ![k] = a]
    /\ UNCHANGED <<user, proc, chunks, lock, left>>

Answered(k) ==
    /\ thread[k] = "reading"
    /\ \E a \in Says(Mine(k)) : Sets(k, "reading", a)
    /\ child' = [child EXCEPT ![Mine(k)] =
                     IF @ \in {"own", "refused", "canceled"} THEN "read" ELSE @]

\* The process could not be started.
SpawnRaises(k) == Sets(k, "spawn", "blocked") /\ UNCHANGED child

\* The child has gone on for START_TIMEOUT_S with no answer and is killed.
GivesUp(k) ==
    /\ thread[k] = "reading" /\ child[Mine(k)] = "asking"
    /\ Interrupt(Mine(k))
    /\ thread' = [thread EXCEPT ![k] = IF Want(k) THEN "blocked" ELSE "ended"]
    /\ state' = [state EXCEPT ![k] = IF Want(k) THEN "blocked" ELSE @]
    /\ UNCHANGED <<user, proc, chunks, left>>

\* Mutant of Raced: what was acquired after stop() is not given back.
RacedKeeps(k) ==
    /\ ~Want(k)
    /\ Moves(k, "reading", "ended") /\ child[Mine(k)] # "asking"
    /\ UNCHANGED <<keeperVars, chunks, child, lock, left>>

\* stop() or detach() raced with the acquire.
Raced(k) ==
    /\ ~Want(k)
    /\ \/ Moves(k, "reading", "ended") /\ child[Mine(k)] # "asking"
       \/ Moves(k, "spawn", "ended")
    /\ \/ Interrupt(proc[k])
       \/ ~Alive(proc[k]) /\ UNCHANGED <<child, lock>>
    /\ UNCHANGED <<keeperVars, chunks, left>>

\* Mutant of HeldEnds: the chunk is renewed before it has ended.
HeldEndsEarly(k) ==
    /\ Moves(k, "held", "head")
    /\ UNCHANGED <<keeperVars, chunks, child, lock, left>>

\* The chunk has ended, or the lock is no longer wanted.
HeldEnds(k) ==
    /\ Moves(k, "held", "head")
    /\ ~Want(k) \/ ~Alive(Mine(k))
    /\ UNCHANGED <<keeperVars, chunks, child, lock, left>>

\* Mutant of WaitEnds: it waits for its own child to end, not for the lock.
WaitEndsOnChild(k) ==
    /\ Moves(k, "waiting_own", "head")
    /\ ~Want(k) \/ child[Mine(k)] = "expired"
    /\ UNCHANGED <<keeperVars, chunks, child, lock, left>>

\* The lock file has no live owner, of whatever user.
WaitEnds(k) ==
    /\ Moves(k, "waiting_own", "head")
    /\ ~Want(k) \/ lock = Free
    /\ UNCHANGED <<keeperVars, chunks, child, lock, left>>

BlockedEnds(k) ==
    /\ Moves(k, "blocked", "head")
    /\ UNCHANGED <<keeperVars, chunks, child, lock, left>>

Thread(k) ==
    \/ Head(k) \/ Spawn(k) \/ SpawnRaises(k) \/ Answered(k) \/ GivesUp(k)
    \/ Raced(k) \/ HeldEnds(k) \/ WaitEnds(k) \/ BlockedEnds(k)

-----------------------------------------------------------------------------
(* p2basket-sc and the other users of the bench.                           *)

Answers(c) ==
    /\ child[c] = "asking"
    /\ \/ lock = Free /\ lock' = c /\ child' = [child EXCEPT ![c] = "holding"]
       \/ lock \in Children /\ child' = [child EXCEPT ![c] = "own"] /\ UNCHANGED lock
       \/ lock = Other /\ child' = [child EXCEPT ![c] = "refused"] /\ UNCHANGED lock
    /\ UNCHANGED <<keeperVars, threadVars, left>>

\* The lifetime of a lock ends.
Expire(c) ==
    /\ lock = c
    /\ lock' = Free
    /\ child' = [child EXCEPT ![c] = "expired"]
    /\ UNCHANGED <<keeperVars, threadVars, left>>

OtherLocks ==
    /\ lock = Free /\ lock' = Other
    /\ UNCHANGED <<keeperVars, threadVars, child, left>>

OtherReleases ==
    /\ lock = Other /\ lock' = Free
    /\ UNCHANGED <<keeperVars, threadVars, child, left>>

Returns(k) ==
    Started(k) \/ StartFails(k) \/ StopSignal(k) \/ Forget(k)

Next ==
    \/ \E k \in Keepers : Start(k) \/ Returns(k) \/ Stop(k) \/ Detach(k)
                          \/ Die(k) \/ Thread(k)
    \/ \E c \in Children : Answers(c) \/ Expire(c)
    \/ OtherLocks \/ OtherReleases

\* Threads and calls go on, p2basket-sc answers, a lock lives for a bounded time.
Fairness ==
    /\ \A k \in Keepers : WF_vars(Returns(k)) /\ WF_vars(Thread(k))
    /\ WF_vars(\E c \in Children : Answers(c))
    /\ WF_vars(\E c \in Children : Expire(c))

Spec == Init /\ [][Next]_vars /\ Fairness

-----------------------------------------------------------------------------
(* Properties.                                                             *)

\* Every variable keeps its type (all of SessionLock).
TypeOK ==
    /\ user \in [Keepers -> Users] /\ state \in [Keepers -> States]
    /\ proc \in [Keepers -> Children \cup {NoChild}]
    /\ thread \in [Keepers -> ThreadStates]
    /\ chunks \in [Keepers -> 0..MaxChunks]
    /\ child \in [Children -> ChildStates]
    /\ lock \in Children \cup {Free, Other}
    /\ left \in [Keepers -> Children \cup {NoChild}]

\* When stop() is over and the thread has ended, no child of the keeper is left
\* to hold or take the lock, wherever the call fell in an acquire or a renewal, and
\* when a start failed (session_lock.py:110-134, 203-207).
StoppedHoldsNothing ==
    \A k \in Keepers :
        user[k] = "done" /\ thread[k] = "ended" =>
            \A i \in 1..MaxChunks : ~Alive(<<k, i>>)

\* A keeper has at most one child alive, the last, through every renewal.
OneChild ==
    \A c \in Children : Alive(c) => c = Mine(c[1])

\* A lock that detach() left is ended by its lifetime alone, not by the thread
\* that ends at the same time (session_lock.py:136-151).
HandedOver ==
    \A k \in Keepers : left[k] # NoChild => child[left[k]] \in {"holding", "expired"}

\* How far a child may live on, by what its keeper's user and thread are doing.
ChildInv ==
    \A k \in Keepers :
        /\ Alive(Mine(k)) /\ user[k] \in {"starting", "using"} =>
              thread[k] \in {"reading", "held"}
        /\ Alive(Mine(k)) /\ user[k] = "done" => thread[k] = "reading"
        /\ Alive(Mine(k)) => user[k] # "idle" /\ thread[k] # "spawn"

\* stop() knows of the last child, wherever it is called.
ProcInv ==
    \A k \in Keepers :
        /\ user[k] \in {"starting", "using", "stop", "done"} /\ chunks[k] > 0 =>
              proc[k] = Mine(k)
        /\ proc[k] # NoChild => proc[k] = Mine(k)
        /\ thread[k] \in {"reading", "held"} => chunks[k] > 0
        /\ user[k] = "idle" => chunks[k] = 0 /\ thread[k] = "none"

\* A lock of ours has its child; one that was left is known to no one.
LeftInv ==
    /\ lock \in Children => child[lock] = "holding"
    /\ \A k \in Keepers : left[k] # NoChild =>
          /\ user[k] = "detached" /\ left[k] # proc[k]
          /\ left[k][1] = k /\ left[k][2] <= chunks[k]

\* The inductive invariant (session_lock.py:100-151, 197-215).
IInv == TypeOK /\ OneChild /\ ChildInv /\ ProcInv /\ LeftInv /\ HandedOver

\* A run that found the lock with an apply takes it over when that lock ends,
\* unless another user does, it is stopped, or a bound is reached
\* (session_lock.py:217-220).
TakesOver ==
    \A k \in Keepers \ HandsOver :
        thread[k] = "waiting_own" ~>
            \/ thread[k] \in {"held", "blocked", "ended"} \/ lock = Other
            \/ chunks[k] = MaxChunks

-----------------------------------------------------------------------------
(* What a comment says of the program, and it does not do.                 *)

\* vmm_daq_control.py:85-87: with the keeper held, nobody else can touch the
\* electronics mid-run.
NobodyElseMidRun ==
    \A k \in Keepers : user[k] = "using" => lock # Other

=============================================================================
