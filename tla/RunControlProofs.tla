-------------------------- MODULE RunControlProofs --------------------------
(* Proofs about RunControl: its inductive invariant and what follows.      *)
EXTENDS RunControlInv, SequenceTheorems, TLAPS

\* Appending to a queue of one message.
LEMMA Append2 == ASSUME NEW S, NEW m \in S, NEW n \in S
                 PROVE  Append(<<m>>, n) = <<m, n>>
<1> DEFINE q == Append(<<m>>, n)
           r == <<m, n>>
<1>1. q \in Seq(S) /\ Len(q) = 2 /\ q[1] = m /\ q[2] = n
  OBVIOUS
<1>2. r \in Seq(S) /\ Len(r) = 2 /\ r[1] = m /\ r[2] = n
  OBVIOUS
<1>3. \A i \in 1..2 : i = 1 \/ i = 2
  OBVIOUS
<1> HIDE DEF q, r
<1>4. \A i \in 1..Len(q) : q[i] = r[i]
  BY <1>1, <1>2, <1>3
<1>5. q = r
  BY <1>1, <1>2, <1>4, SeqEqual
<1> QED BY <1>5 DEF q, r

\* The queues of replies that occur, told apart, and what receive leaves.
LEMMA ReplyFacts ==
    /\ Append(<<>>, "connected") = <<"connected">>
    /\ Append(<<>>, "starting") = <<"starting">>
    /\ Append(<<>>, "stopped") = <<"stopped">>
    /\ Append(<<>>, "error") = <<"error">>
    /\ Append(<<"starting">>, "stopped") = <<"starting", "stopped">>
    /\ Tail(<<"starting", "stopped">>) = <<"stopped">>
    /\ Head(<<"starting", "stopped">>) = "starting"
    /\ Tail(<<"starting">>) = <<>> /\ Head(<<"starting">>) = "starting"
    /\ Tail(<<"stopped">>) = <<>> /\ Head(<<"stopped">>) = "stopped"
    /\ Tail(<<"error">>) = <<>> /\ Head(<<"error">>) = "error"
    /\ <<>> # <<"connected">> /\ <<>> # <<"starting">> /\ <<>> # <<"stopped">>
    /\ <<>> # <<"error">> /\ <<>> # <<"starting", "stopped">>
    /\ <<"starting">> # <<"stopped">> /\ <<"starting">> # <<"error">>
    /\ <<"starting">> # <<"starting", "stopped">>
    /\ <<"stopped">> # <<"starting", "stopped">> /\ <<"stopped">> # <<"error">>
    /\ <<"error">> # <<"starting", "stopped">>
<1>1. Append(<<"starting">>, "stopped") = <<"starting", "stopped">>
  <2>1. "starting" \in Replies /\ "stopped" \in Replies
    BY DEF Replies
  <2> QED BY <2>1, Append2
<1> QED BY <1>1

\* A queue of one command.
LEMMA CommandFacts ==
    ASSUME NEW c \in Commands
    PROVE  /\ Append(<<>>, c) = <<c>> /\ Tail(<<c>>) = <<>> /\ Head(<<c>>) = c
           /\ <<c>> # <<>> /\ <<c>> \in Seq(Commands)
  OBVIOUS

\* The commands the orchestrator sends.
LEMMA CmdType == ASSUME NEW c \in {"hello", "Start", "Finished"}, NEW s \in 0..NSub
                 PROVE  Cmd(c, s) \in Commands /\ Cmd(c, s).cmd = c /\ Cmd(c, s).sub = s
  BY DEF Cmd, Commands

\* A reply keeps the type of the queue.
LEMMA ReplyType == ASSUME TypeOK, NEW m \in Replies, Reply(m)
                   PROVE  s2c' \in Seq(Replies)
  BY DEF TypeOK, Reply

\* What receive takes from the queue of replies leaves one of its type.
LEMMA ReceiveType == ASSUME TypeOK, s2c # <<>>, s2c' = Tail(s2c)
                     PROVE  s2c' \in Seq(Replies)
  BY DEF TypeOK

\* Every action of the server that replies keeps the type of the queue.
LEMMA ServerReplyType ==
    ASSUME TypeOK, AcquireLock \/ AcqOn \/ Launch \/ ReportStopped
    PROVE  s2c' \in Seq(Replies)
<1>1. "error" \in Replies /\ "starting" \in Replies /\ "stopped" \in Replies
  BY DEF Replies
<1>2. s2c \in Seq(Replies)
  BY DEF TypeOK
<1>3. UNCHANGED s2c \/ Reply("error") \/ Reply("starting") \/ Reply("stopped")
  BY DEF AcquireLock, AcqOn, Launch, ReportStopped
<1> QED BY <1>1, <1>2, <1>3, ReplyType

\* Every command the orchestrator sends keeps the type of its queue.
LEMMA SendType ==
    ASSUME TypeOK, NEW c \in {"hello", "Start", "Finished"}, NEW s \in 0..NSub,
           c2s' = Append(c2s, Cmd(c, s))
    PROVE  c2s' \in Seq(Commands)
<1>1. Cmd(c, s) \in Commands
  BY CmdType
<1> QED BY <1>1 DEF TypeOK

\* Past the greeting the queues are empty.
LEMMA GreetedStep == IInv /\ Greeted => IInv'
<1> SUFFICES ASSUME IInv, Greeted PROVE IInv'
  OBVIOUS
<1> USE ConstantsAssumption
    DEF IInv, TypeOK, SubInv, OpenInv, GoneInv, SessionInv, MarkerInv, CutShortInv,
        DaqPcs, VmmPcs, SubRuns, Commands, Replies, Flags, Endings, InHand,
        Chosen, AtVoltage, Waiting, Quiet, Starting, Running, Session,
        LoopLeft, StopFlags, orchVars, srvVars, netVars, fileVars, opVars,
        histVars, perRun
<1>1. s2c' = <<>> /\ <<>> \in Seq(Replies)
  BY ReplyFacts DEF Greeted
<1>2. conn \in {"open", "serverGone"}
  BY DEF Greeted
<1>3. conn = "open" => vpc = "idle" /\ c2s = <<>>
  BY <1>1 DEF Greeted
<1>4. TypeOK'
  BY <1>1, <1>2, <1>3 DEF Greeted
<1>5. SubInv'
  BY <1>1, <1>2, <1>3 DEF Greeted
<1>6. OpenInv'
  BY <1>1, <1>2, <1>3 DEF Greeted
<1>7. GoneInv'
  BY <1>1, <1>2, <1>3 DEF Greeted
<1>8. SessionInv'
  BY <1>1, <1>2, <1>3 DEF Greeted
<1>9. MarkerInv'
  BY <1>1, <1>2, <1>3 DEF Greeted
<1>10. CutShortInv'
  BY <1>1, <1>2, <1>3 DEF Greeted
<1> QED BY <1>4, <1>5, <1>6, <1>7, <1>8, <1>9, <1>10

\* A ramp either sets the voltage of the sub-run in hand or passes it over.
LEMMA RampHVStep == IInv /\ RampHV => IInv'
<1> SUFFICES ASSUME IInv, RampHV PROVE IInv'
  OBVIOUS
<1> USE ConstantsAssumption
    DEF IInv, TypeOK, SubInv, OpenInv, GoneInv, SessionInv, MarkerInv, CutShortInv,
        DaqPcs, VmmPcs, SubRuns, Commands, Replies, Flags, Endings, InHand,
        Chosen, AtVoltage, Waiting, Quiet, Starting, Running, Session,
        LoopLeft, StopFlags, orchVars, srvVars, netVars, fileVars, opVars,
        histVars, perRun
<1>1. hv' \in 0..NSub /\ sub' \in 1..(NSub + 1)
  BY DEF RampHV
<1>2. dpc' \in DaqPcs
  BY DEF RampHV
<1>3. started' \in BOOLEAN
  BY DEF RampHV
<1>4. TypeOK'
  BY <1>1, <1>2, <1>3 DEF RampHV
<1>5. SubInv'
  BY <1>1, <1>2, <1>3 DEF RampHV
<1>6. OpenInv'
  BY <1>1, <1>2, <1>3 DEF RampHV
<1>7. GoneInv'
  BY <1>1, <1>2, <1>3 DEF RampHV
<1>8. SessionInv'
  BY <1>1, <1>2, <1>3 DEF RampHV
<1>9. MarkerInv'
  BY <1>1, <1>2, <1>3 DEF RampHV
<1>10. CutShortInv'
  BY <1>1, <1>2, <1>3 DEF RampHV
<1> QED BY <1>4, <1>5, <1>6, <1>7, <1>8, <1>9, <1>10

\* Start is sent into two empty queues, or a stop request is found.
LEMMA StartDaqStep == IInv /\ StartDaq => IInv'
<1> SUFFICES ASSUME IInv, StartDaq PROVE IInv'
  OBVIOUS
<1> USE ConstantsAssumption
    DEF IInv, TypeOK, SubInv, OpenInv, GoneInv, SessionInv, MarkerInv, CutShortInv,
        DaqPcs, VmmPcs, SubRuns, Commands, Replies, Flags, Endings, InHand,
        Chosen, AtVoltage, Waiting, Quiet, Starting, Running, Session,
        LoopLeft, StopFlags, orchVars, srvVars, netVars, fileVars, opVars,
        histVars, perRun
<1>0. sub \in 0..NSub
  BY DEF StartDaq
<1>1. Cmd("Start", sub) \in Commands
  BY <1>0, CmdType
<1>2. c2s' \in Seq(Commands)
  <2>1. CASE c2s' = Append(c2s, Cmd("Start", sub))
    BY <1>0, <2>1, SendType
  <2>2. CASE c2s' = c2s
    BY <2>2
  <2> QED BY <2>1, <2>2 DEF StartDaq
<1>3. conn = "open" => c2s = <<>> /\ s2c = <<>> /\ vpc = "idle"
  BY DEF StartDaq
<1>4. conn = "open" /\ c2s' # c2s => c2s' = <<Cmd("Start", sub)>>
  BY <1>1, <1>3, CommandFacts DEF StartDaq
<1>5. TypeOK'
  BY <1>2, <1>3, <1>4 DEF StartDaq
<1>6. SubInv'
  BY <1>2, <1>3, <1>4 DEF StartDaq
<1>7. OpenInv'
  BY <1>2, <1>3, <1>4 DEF StartDaq
<1>8. GoneInv'
  BY <1>2, <1>3, <1>4 DEF StartDaq
<1>9. SessionInv'
  BY <1>2, <1>3, <1>4 DEF StartDaq
<1>10. MarkerInv'
  BY <1>2, <1>3, <1>4 DEF StartDaq
<1>11. CutShortInv'
  BY <1>2, <1>3, <1>4 DEF StartDaq
<1> QED BY <1>5, <1>6, <1>7, <1>8, <1>9, <1>10, <1>11

\* Which first reply was waiting, and what is left behind it.
LEMMA ReceiveStartingStep == IInv /\ ReceiveStarting => IInv'
<1> SUFFICES ASSUME IInv, ReceiveStarting PROVE IInv'
  OBVIOUS
<1> USE ConstantsAssumption
    DEF IInv, TypeOK, SubInv, OpenInv, GoneInv, SessionInv, MarkerInv, CutShortInv,
        DaqPcs, VmmPcs, SubRuns, Commands, Replies, Flags, Endings, InHand,
        Chosen, AtVoltage, Waiting, Quiet, Starting, Running, Session,
        LoopLeft, StopFlags, orchVars, srvVars, netVars, fileVars, opVars,
        histVars, perRun
<1>1. conn \in {"open", "serverGone"}
  BY DEF ReceiveStarting
<1>2. \/ s2c = <<"starting">>
      \/ s2c = <<"error">> /\ (conn = "open" => vpc = "idle")
      \/ s2c = <<"starting", "stopped">> /\ (conn = "open" => vpc = "idle")
  BY <1>1 DEF ReceiveStarting
<1>3. conn = "open" => /\ c2s = <<>> /\ vsub = sub
                       /\ s2c = <<"starting">> => vpc \in Running
  BY <1>2, ReplyFacts DEF ReceiveStarting
<1>4. /\ s2c = <<"starting">> => s2c' = <<>> /\ dpc' = "waitStopped"
      /\ s2c = <<"error">> => s2c' = <<>> /\ dpc' = "daq"
      /\ s2c = <<"starting", "stopped">> =>
            s2c' = <<"stopped">> /\ dpc' = "waitStopped"
  BY ReplyFacts DEF ReceiveStarting
<1>5. s2c' \in Seq(Replies)
  BY ReceiveType DEF ReceiveStarting
<1>6. started' \in BOOLEAN
  BY DEF ReceiveStarting
<1>7. TypeOK'
  BY <1>1, <1>2, <1>3, <1>4, <1>5, <1>6, ReplyFacts DEF ReceiveStarting
<1>8. SubInv'
  BY <1>1, <1>2, <1>3, <1>4, <1>5, <1>6, ReplyFacts DEF ReceiveStarting
<1>9. OpenInv'
  BY <1>1, <1>2, <1>3, <1>4, <1>5, <1>6, ReplyFacts DEF ReceiveStarting
<1>10. GoneInv'
  BY <1>1, <1>2, <1>3, <1>4, <1>5, <1>6, ReplyFacts DEF ReceiveStarting
<1>11. SessionInv'
  BY <1>1, <1>2, <1>3, <1>4, <1>5, <1>6, ReplyFacts DEF ReceiveStarting
<1>12. MarkerInv'
  BY <1>1, <1>2, <1>3, <1>4, <1>5, <1>6, ReplyFacts DEF ReceiveStarting
<1>13. CutShortInv'
  BY <1>1, <1>2, <1>3, <1>4, <1>5, <1>6, ReplyFacts DEF ReceiveStarting
<1> QED BY <1>7, <1>8, <1>9, <1>10, <1>11, <1>12, <1>13

\* 'stopped' comes after .capture_done, and its stop flag is still there.
LEMMA ReceiveStoppedStep == IInv /\ ReceiveStopped => IInv'
<1> SUFFICES ASSUME IInv, ReceiveStopped PROVE IInv'
  OBVIOUS
<1> USE ConstantsAssumption
    DEF IInv, TypeOK, SubInv, OpenInv, GoneInv, SessionInv, MarkerInv, CutShortInv,
        DaqPcs, VmmPcs, SubRuns, Commands, Replies, Flags, Endings, InHand,
        Chosen, AtVoltage, Waiting, Quiet, Starting, Running, Session,
        LoopLeft, StopFlags, orchVars, srvVars, netVars, fileVars, opVars,
        histVars, perRun
<1>1. s2c = <<"stopped">> /\ conn \in {"open", "serverGone"}
  BY DEF ReceiveStopped
<1>2. s2c' = <<>> /\ <<>> \in Seq(Replies) /\ dpc' = "readStops"
  BY <1>1, ReplyFacts DEF ReceiveStopped
<1>3. sub \in done
  BY <1>1 DEF ReceiveStopped
<1>4. conn = "open" => vpc = "idle" /\ c2s = <<>>
  BY <1>1, ReplyFacts DEF ReceiveStopped
<1>5. ended[sub] = "stopped" => StopFlags # {}
  BY <1>1, <1>4 DEF ReceiveStopped
<1>6. TypeOK'
  BY <1>1, <1>2, <1>3, <1>4, <1>5, ReplyFacts DEF ReceiveStopped
<1>7. SubInv'
  BY <1>1, <1>2, <1>3, <1>4, <1>5, ReplyFacts DEF ReceiveStopped
<1>8. OpenInv'
  BY <1>1, <1>2, <1>3, <1>4, <1>5, ReplyFacts DEF ReceiveStopped
<1>9. GoneInv'
  BY <1>1, <1>2, <1>3, <1>4, <1>5, ReplyFacts DEF ReceiveStopped
<1>10. SessionInv'
  BY <1>1, <1>2, <1>3, <1>4, <1>5, ReplyFacts DEF ReceiveStopped
<1>11. MarkerInv'
  BY <1>1, <1>2, <1>3, <1>4, <1>5, ReplyFacts DEF ReceiveStopped
<1>12. CutShortInv'
  BY <1>1, <1>2, <1>3, <1>4, <1>5, ReplyFacts DEF ReceiveStopped
<1> QED BY <1>6, <1>7, <1>8, <1>9, <1>10, <1>11, <1>12

\* Finished is the only command of a client that has gone in good order.
LEMMA CloseDownStep == IInv /\ CloseDown => IInv'
<1> SUFFICES ASSUME IInv, CloseDown PROVE IInv'
  OBVIOUS
<1> USE ConstantsAssumption
    DEF IInv, TypeOK, SubInv, OpenInv, GoneInv, SessionInv, MarkerInv, CutShortInv,
        DaqPcs, VmmPcs, SubRuns, Commands, Replies, Flags, Endings, InHand,
        Chosen, AtVoltage, Waiting, Quiet, Starting, Running, Session,
        LoopLeft, StopFlags, orchVars, srvVars, netVars, fileVars, opVars,
        histVars, perRun
<1>1. Cmd("Finished", 0) \in Commands
  BY CmdType
<1>2. c2s' \in Seq(Commands)
  <2>1. CASE c2s' = Append(c2s, Cmd("Finished", 0))
    BY <2>1, SendType
  <2>2. CASE c2s' = c2s
    BY <2>2
  <2> QED BY <2>1, <2>2 DEF CloseDown
<1>2a. s2c' = <<>> /\ <<>> \in Seq(Replies)
  BY DEF CloseDown, ClientCloses
<1>3. conn = "open" => c2s = <<>> /\ vpc = "idle"
  BY DEF CloseDown
<1>4. conn = "open" => c2s' = <<Cmd("Finished", 0)>> /\ conn' = "clientGone"
  BY <1>1, <1>3, CommandFacts DEF CloseDown, ClientCloses
<1>5. TypeOK'
  BY <1>2, <1>2a, <1>3, <1>4 DEF CloseDown, ClientCloses
<1>6. SubInv'
  BY <1>2, <1>2a, <1>3, <1>4 DEF CloseDown, ClientCloses
<1>7. OpenInv'
  BY <1>2, <1>2a, <1>3, <1>4 DEF CloseDown, ClientCloses
<1>8. GoneInv'
  BY <1>2, <1>2a, <1>3, <1>4 DEF CloseDown, ClientCloses
<1>9. SessionInv'
  BY <1>2, <1>2a, <1>3, <1>4 DEF CloseDown, ClientCloses
<1>10. MarkerInv'
  BY <1>2, <1>2a, <1>3, <1>4 DEF CloseDown, ClientCloses
<1>11. CutShortInv'
  BY <1>2, <1>2a, <1>3, <1>4 DEF CloseDown, ClientCloses
<1> QED BY <1>5, <1>6, <1>7, <1>8, <1>9, <1>10, <1>11

\* The greeting empties one queue and fills the other.
LEMMA AcceptClientStep == IInv /\ AcceptClient => IInv'
<1> SUFFICES ASSUME IInv, AcceptClient PROVE IInv'
  OBVIOUS
<1> USE ConstantsAssumption
    DEF IInv, TypeOK, SubInv, OpenInv, GoneInv, SessionInv, MarkerInv, CutShortInv,
        DaqPcs, VmmPcs, SubRuns, Commands, Replies, Flags, Endings, InHand,
        Chosen, AtVoltage, Waiting, Quiet, Starting, Running, Session,
        LoopLeft, StopFlags, orchVars, srvVars, netVars, fileVars, opVars,
        histVars, perRun
<1>1. dpc = "hello" /\ c2s = <<Cmd("hello", 0)>> /\ s2c = <<>>
  BY DEF AcceptClient
<1>2. c2s' = <<>>
  BY <1>1, CmdType, CommandFacts DEF AcceptClient
<1>3. s2c' = <<"connected">>
  BY <1>1, ReplyFacts DEF AcceptClient, Reply
<1>4. TypeOK'
  BY <1>1, <1>2, <1>3 DEF AcceptClient, Reply
<1>5. SubInv'
  BY <1>1, <1>2, <1>3 DEF AcceptClient, Reply
<1>6. OpenInv'
  BY <1>1, <1>2, <1>3 DEF AcceptClient, Reply
<1>7. GoneInv'
  BY <1>1, <1>2, <1>3 DEF AcceptClient, Reply
<1>8. SessionInv'
  BY <1>1, <1>2, <1>3 DEF AcceptClient, Reply
<1>9. MarkerInv'
  BY <1>1, <1>2, <1>3 DEF AcceptClient, Reply
<1>10. CutShortInv'
  BY <1>1, <1>2, <1>3 DEF AcceptClient, Reply
<1> QED BY <1>4, <1>5, <1>6, <1>7, <1>8, <1>9, <1>10

\* A server that drops a client that has gone is back to no connection.
LEMMA ClientVanishedStep == IInv /\ ClientVanished => IInv'
<1> SUFFICES ASSUME IInv, ClientVanished PROVE IInv'
  OBVIOUS
<1> USE ConstantsAssumption
    DEF IInv, TypeOK, SubInv, OpenInv, GoneInv, SessionInv, MarkerInv, CutShortInv,
        DaqPcs, VmmPcs, SubRuns, Commands, Replies, Flags, Endings, InHand,
        Chosen, AtVoltage, Waiting, Quiet, Starting, Running, Session,
        LoopLeft, StopFlags, orchVars, srvVars, netVars, fileVars, opVars,
        histVars, perRun
<1>1. c2s' = <<>> /\ <<>> \in Seq(Commands) /\ conn' = "none"
  BY DEF ClientVanished, Exception, ServerCloses
<1>2. lock' \in BOOLEAN /\ vpc' = "accept"
  BY DEF ClientVanished, Exception
<1>3. TypeOK'
  BY <1>1, <1>2 DEF ClientVanished, Exception, ServerCloses
<1>4. SubInv'
  BY <1>1, <1>2 DEF ClientVanished, Exception, ServerCloses
<1>5. OpenInv'
  BY <1>1, <1>2 DEF ClientVanished, Exception, ServerCloses
<1>6. GoneInv'
  BY <1>1, <1>2 DEF ClientVanished, Exception, ServerCloses
<1>7. SessionInv'
  BY <1>1, <1>2 DEF ClientVanished, Exception, ServerCloses
<1>8. MarkerInv'
  BY <1>1, <1>2 DEF ClientVanished, Exception, ServerCloses
<1>9. CutShortInv'
  BY <1>1, <1>2 DEF ClientVanished, Exception, ServerCloses
<1> QED BY <1>3, <1>4, <1>5, <1>6, <1>7, <1>8, <1>9

\* The Start received is the one the waiting orchestrator sent, or that of
\* a client that died just after sending it with the HV of that sub-run set.
LEMMA ReceiveStartStep == IInv /\ ReceiveStart => IInv'
<1> SUFFICES ASSUME IInv, ReceiveStart PROVE IInv'
  OBVIOUS
<1> USE ConstantsAssumption
    DEF IInv, TypeOK, SubInv, OpenInv, GoneInv, SessionInv, MarkerInv, CutShortInv,
        DaqPcs, VmmPcs, SubRuns, Commands, Replies, Flags, Endings, InHand,
        Chosen, AtVoltage, Waiting, Quiet, Starting, Running, Session,
        LoopLeft, StopFlags, orchVars, srvVars, netVars, fileVars, opVars,
        histVars, perRun
<1>1. \A c \in {"hello", "Finished"} : Cmd(c, 0).cmd # "Start"
  BY CmdType
<1>2. \A c \in {"hello", "Finished"} : Head(<<Cmd(c, 0)>>) = Cmd(c, 0)
  BY CmdType, CommandFacts
<1>3. PICK s \in SubRuns :
        /\ c2s = <<Cmd("Start", s)>> /\ hv = s
        /\ resume => s \notin marker
        /\ conn \in {"open", "clientGone"}
        /\ conn = "open" => s = sub /\ dpc = "waitStarting" /\ s2c = <<>>
        /\ conn = "clientGone" => dpc = "off"
  <2>1. CASE conn = "open"
    <3>1. dpc = "waitStarting" /\ c2s = <<Cmd("Start", sub)>> /\ s2c = <<>>
      BY <2>1, <1>1, <1>2 DEF ReceiveStart
    <3> QED BY <2>1, <3>1
  <2>2. CASE conn = "clientGone"
    <3>1. dpc = "off" /\ vpc = "idle" /\ c2s # <<>> /\ Head(c2s).cmd = "Start"
      BY <2>2 DEF ReceiveStart
    <3>2. PICK s \in SubRuns : /\ c2s = <<Cmd("Start", s)>> /\ hv = s
                               /\ resume => s \notin marker
      BY <2>2, <3>1, <1>1, <1>2
    <3> QED BY <2>2, <3>1, <3>2
  <2> QED BY <2>1, <2>2 DEF ReceiveStart
<1>4. Cmd("Start", s) \in Commands /\ Cmd("Start", s).sub = s /\ s \in 0..NSub
  BY CmdType
<1>5. c2s' = <<>> /\ <<>> \in Seq(Commands) /\ vsub' = s
  BY <1>3, <1>4, CommandFacts DEF ReceiveStart
<1>6. TypeOK'
  BY <1>3, <1>4, <1>5 DEF ReceiveStart
<1>7. SubInv'
  BY <1>3, <1>4, <1>5 DEF ReceiveStart
<1>8. OpenInv'
  BY <1>3, <1>4, <1>5 DEF ReceiveStart
<1>9. GoneInv'
  BY <1>3, <1>4, <1>5 DEF ReceiveStart
<1>10. SessionInv'
  BY <1>3, <1>4, <1>5 DEF ReceiveStart
<1>11. MarkerInv'
  BY <1>3, <1>4, <1>5 DEF ReceiveStart
<1>12. CutShortInv'
  BY <1>3, <1>4, <1>5 DEF ReceiveStart
<1> QED BY <1>6, <1>7, <1>8, <1>9, <1>10, <1>11, <1>12

\* A lock that is not had ends the session with an error reply.
LEMMA AcquireLockStep == IInv /\ AcquireLock => IInv'
<1> SUFFICES ASSUME IInv, AcquireLock PROVE IInv'
  OBVIOUS
<1> USE ConstantsAssumption
    DEF IInv, TypeOK, SubInv, OpenInv, GoneInv, SessionInv, MarkerInv, CutShortInv,
        DaqPcs, VmmPcs, SubRuns, Commands, Replies, Flags, Endings, InHand,
        Chosen, AtVoltage, Waiting, Quiet, Starting, Running, Session,
        LoopLeft, StopFlags, orchVars, srvVars, netVars, fileVars, opVars,
        histVars, perRun
<1>1. conn \in {"open", "clientGone"}
  BY DEF AcquireLock
<1>2. conn = "open" => /\ dpc = "waitStarting" /\ c2s = <<>> /\ s2c = <<>>
                       /\ vsub = sub
  BY DEF AcquireLock
<1>3. s2c' = s2c \/ (conn = "open" /\ s2c' = <<"error">> /\ vpc' = "idle")
  BY <1>1, <1>2, ReplyFacts DEF AcquireLock, Reply
<1>4. s2c' \in Seq(Replies)
  BY ServerReplyType
<1>5. lock' \in BOOLEAN
  BY DEF AcquireLock
<1>6. (vpc' = "acqOn" /\ s2c' = s2c /\ lock') \/ vpc' = "idle"
  BY DEF AcquireLock
<1>7. vpc' = "idle" /\ conn = "open" => s2c' = <<"error">>
  BY <1>2, ReplyFacts DEF AcquireLock, Reply
<1>8. TypeOK'
  BY <1>1, <1>2, <1>3, <1>4, <1>5, <1>6, <1>7 DEF AcquireLock, Reply
<1>9. SubInv'
  BY <1>1, <1>2, <1>3, <1>4, <1>5, <1>6, <1>7 DEF AcquireLock, Reply
<1>10. OpenInv'
  BY <1>1, <1>2, <1>3, <1>4, <1>5, <1>6, <1>7 DEF AcquireLock, Reply
<1>11. GoneInv'
  BY <1>1, <1>2, <1>3, <1>4, <1>5, <1>6, <1>7 DEF AcquireLock, Reply
<1>12. SessionInv'
  BY <1>1, <1>2, <1>3, <1>4, <1>5, <1>6, <1>7 DEF AcquireLock, Reply
<1>13. MarkerInv'
  BY <1>1, <1>2, <1>3, <1>4, <1>5, <1>6, <1>7 DEF AcquireLock, Reply
<1>14. CutShortInv'
  BY <1>1, <1>2, <1>3, <1>4, <1>5, <1>6, <1>7 DEF AcquireLock, Reply
<1> QED BY <1>8, <1>9, <1>10, <1>11, <1>12, <1>13, <1>14

\* Front ends all armed, or an error reply with some of them on.
LEMMA AcqOnStep == IInv /\ AcqOn => IInv'
<1> SUFFICES ASSUME IInv, AcqOn PROVE IInv'
  OBVIOUS
<1> USE ConstantsAssumption
    DEF IInv, TypeOK, SubInv, OpenInv, GoneInv, SessionInv, MarkerInv, CutShortInv,
        DaqPcs, VmmPcs, SubRuns, Commands, Replies, Flags, Endings, InHand,
        Chosen, AtVoltage, Waiting, Quiet, Starting, Running, Session,
        LoopLeft, StopFlags, orchVars, srvVars, netVars, fileVars, opVars,
        histVars, perRun
<1>1. conn \in {"open", "clientGone"}
  BY DEF AcqOn
<1>2. conn = "open" => /\ dpc = "waitStarting" /\ c2s = <<>> /\ s2c = <<>>
                       /\ vsub = sub
  BY DEF AcqOn
<1>3. \/ vpc' = "launch" /\ acq' = Ifaces /\ s2c' = s2c /\ lock' = lock
      \/ /\ vpc' = "idle" /\ acq' \subseteq Ifaces /\ lock' = FALSE
         /\ s2c' = IF conn = "open" THEN <<"error">> ELSE s2c
  BY <1>2, ReplyFacts DEF AcqOn, Reply
<1>4. s2c' \in Seq(Replies)
  BY ServerReplyType
<1>5. lock' \in BOOLEAN /\ acq' \subseteq Ifaces
  BY <1>3
<1>6. UNCHANGED <<orchVars, vsub, procs, orphans, conn, c2s, fileVars, hv,
                  opVars, histVars>> /\ vpc = "acqOn"
  BY DEF AcqOn
<1>7. TypeOK'
  BY <1>1, <1>2, <1>3, <1>4, <1>5, <1>6, ReplyFacts DEF AcqOn, Reply
<1>8. SubInv'
  BY <1>1, <1>2, <1>3, <1>4, <1>5, <1>6, ReplyFacts DEF AcqOn, Reply
<1>9. OpenInv'
  BY <1>1, <1>2, <1>3, <1>4, <1>5, <1>6, ReplyFacts DEF AcqOn, Reply
<1>10. GoneInv'
  BY <1>1, <1>2, <1>3, <1>4, <1>5, <1>6, ReplyFacts DEF AcqOn, Reply
<1>11. SessionInv'
  BY <1>3, <1>6
<1>12. MarkerInv'
  BY <1>1, <1>2, <1>3, <1>4, <1>5, <1>6, ReplyFacts DEF AcqOn, Reply
<1>13. CutShortInv'
  <2>1. CASE vpc' = "launch"
    BY <2>1, <1>3, <1>6
  <2>2. CASE vpc' = "idle"
    <3>1. ~LoopLeft'
      BY <2>2, <1>1, <1>2, <1>3, ReplyFacts
    <3>2. vpc' \notin {"lock", "acqOn", "launch", "run"}
      BY <2>2
    <3> QED BY <3>1, <3>2, <1>6 DEF CutShortInv
  <2> QED BY <2>1, <2>2, <1>3
<1> QED BY <1>7, <1>8, <1>9, <1>10, <1>11, <1>12, <1>13

\* Captures start under the lock with every front end armed.
LEMMA LaunchStep == IInv /\ Launch => IInv'
<1> SUFFICES ASSUME IInv, Launch PROVE IInv'
  OBVIOUS
<1> USE ConstantsAssumption
    DEF IInv, TypeOK, SubInv, OpenInv, GoneInv, SessionInv, MarkerInv, CutShortInv,
        DaqPcs, VmmPcs, SubRuns, Commands, Replies, Flags, Endings, InHand,
        Chosen, AtVoltage, Waiting, Quiet, Starting, Running, Session,
        LoopLeft, StopFlags, orchVars, srvVars, netVars, fileVars, opVars,
        histVars, perRun
<1>1. conn \in {"open", "clientGone"}
  BY DEF Launch
<1>2. conn = "open" => /\ dpc = "waitStarting" /\ c2s = <<>> /\ s2c = <<>>
                       /\ vsub = sub
  BY DEF Launch
<1>3. s2c' = IF conn = "open" THEN <<"starting">> ELSE s2c
  BY <1>2, ReplyFacts DEF Launch, Reply
<1>4. s2c' \in Seq(Replies)
  BY ServerReplyType
<1>5. TypeOK'
  BY <1>1, <1>2, <1>3, <1>4 DEF Launch, Reply
<1>6. SubInv'
  BY <1>1, <1>2, <1>3, <1>4 DEF Launch, Reply
<1>7. OpenInv'
  BY <1>1, <1>2, <1>3, <1>4 DEF Launch, Reply
<1>8. GoneInv'
  BY <1>1, <1>2, <1>3, <1>4 DEF Launch, Reply
<1>9. SessionInv'
  BY <1>1, <1>2, <1>3, <1>4 DEF Launch, Reply
<1>10. MarkerInv'
  BY <1>1, <1>2, <1>3, <1>4 DEF Launch, Reply
<1>11. CutShortInv'
  BY <1>1, <1>2, <1>3, <1>4 DEF Launch, Reply
<1> QED BY <1>5, <1>6, <1>7, <1>8, <1>9, <1>10, <1>11

\* 'stopped' follows the 'starting' the orchestrator has read or will read.
LEMMA ReportStoppedStep == IInv /\ ReportStopped => IInv'
<1> SUFFICES ASSUME IInv, ReportStopped PROVE IInv'
  OBVIOUS
<1> USE ConstantsAssumption
    DEF IInv, TypeOK, SubInv, OpenInv, GoneInv, SessionInv, MarkerInv, CutShortInv,
        DaqPcs, VmmPcs, SubRuns, Commands, Replies, Flags, Endings, InHand,
        Chosen, AtVoltage, Waiting, Quiet, Starting, Running, Session,
        LoopLeft, StopFlags, orchVars, srvVars, netVars, fileVars, opVars,
        histVars, perRun
<1>1. conn \in {"open", "clientGone"}
  BY DEF ReportStopped
<1>2. conn = "open" =>
        /\ c2s = <<>> /\ vsub = sub
        /\ \/ dpc = "waitStarting" /\ s2c = <<"starting">>
           \/ dpc = "waitStopped" /\ s2c = <<>>
  BY DEF ReportStopped
<1>3. /\ conn = "open" /\ dpc = "waitStarting" => s2c' = <<"starting", "stopped">>
      /\ conn = "open" /\ dpc = "waitStopped" => s2c' = <<"stopped">>
      /\ conn = "clientGone" => s2c' = s2c
  BY <1>2, ReplyFacts DEF ReportStopped, Reply
<1>4. s2c' \in Seq(Replies)
  BY ServerReplyType
<1>5. TypeOK'
  BY <1>1, <1>2, <1>3, <1>4 DEF ReportStopped, Reply
<1>6. SubInv'
  BY <1>1, <1>2, <1>3, <1>4 DEF ReportStopped, Reply
<1>7. OpenInv'
  BY <1>1, <1>2, <1>3, <1>4 DEF ReportStopped, Reply
<1>8. GoneInv'
  BY <1>1, <1>2, <1>3, <1>4 DEF ReportStopped, Reply
<1>9. SessionInv'
  BY <1>1, <1>2, <1>3, <1>4 DEF ReportStopped, Reply
<1>10. MarkerInv'
  BY <1>1, <1>2, <1>3, <1>4 DEF ReportStopped, Reply
<1>11. CutShortInv'
  BY <1>1, <1>2, <1>3, <1>4 DEF ReportStopped, Reply
<1> QED BY <1>5, <1>6, <1>7, <1>8, <1>9, <1>10, <1>11

\* A new orchestrator finds the queues empty but for its greeting.
LEMMA StartRunStep == IInv /\ StartRun => IInv'
<1> SUFFICES ASSUME IInv, StartRun PROVE IInv'
  OBVIOUS
<1> USE ConstantsAssumption
    DEF IInv, TypeOK, SubInv, OpenInv, GoneInv, SessionInv, MarkerInv, CutShortInv,
        DaqPcs, VmmPcs, SubRuns, Commands, Replies, Flags, Endings, InHand,
        Chosen, AtVoltage, Waiting, Quiet, Starting, Running, Session,
        LoopLeft, StopFlags, orchVars, srvVars, netVars, fileVars, opVars,
        histVars, perRun
<1>1. runs' \in 0..MaxRuns /\ sub' \in 1..(NSub + 1)
  BY DEF StartRun
<1>2. c2s' \in Seq(Commands) /\ s2c' \in Seq(Replies)
  BY CmdType, CommandFacts DEF StartRun
<1>3. started' \in BOOLEAN
  BY DEF StartRun
<1>4. TypeOK'
  BY <1>1, <1>2, <1>3 DEF StartRun
<1>5. SubInv'
  BY <1>1, <1>2, <1>3 DEF StartRun
<1>6. OpenInv'
  BY <1>1, <1>2, <1>3 DEF StartRun
<1>7. GoneInv'
  BY <1>1, <1>2, <1>3 DEF StartRun
<1>8. SessionInv'
  BY <1>1, <1>2, <1>3 DEF StartRun
<1>9. MarkerInv'
  BY <1>1, <1>2, <1>3 DEF StartRun
<1>10. CutShortInv'
  BY <1>1, <1>2, <1>3 DEF StartRun
<1> QED BY <1>4, <1>5, <1>6, <1>7, <1>8, <1>9, <1>10

\* The client is greeted, and the connection closed behind the greeting.
LEMMA SetupRaisesStep == IInv /\ SetupRaises => IInv'
<1> SUFFICES ASSUME IInv, SetupRaises PROVE IInv'
  OBVIOUS
<1> USE ConstantsAssumption
    DEF IInv, TypeOK, SubInv, OpenInv, GoneInv, SessionInv, MarkerInv, CutShortInv,
        DaqPcs, VmmPcs, SubRuns, Commands, Replies, Flags, Endings, InHand,
        Chosen, AtVoltage, Waiting, Quiet, Starting, Running, Session,
        LoopLeft, StopFlags, orchVars, srvVars, netVars, fileVars, opVars,
        histVars, perRun
<1>1. dpc = "hello" /\ s2c = <<>>
  BY DEF SetupRaises
<1>2. s2c' = <<"connected">> /\ s2c' \in Seq(Replies)
  BY <1>1, ReplyFacts DEF SetupRaises, Reply
<1>3. c2s' = <<>> /\ <<>> \in Seq(Commands) /\ conn' = "serverGone"
  BY DEF SetupRaises, Exception, ServerCloses
<1>4. lock' \in BOOLEAN /\ vpc' = "accept"
  BY DEF SetupRaises, Exception
<1>5. TypeOK'
  BY <1>1, <1>2, <1>3, <1>4 DEF SetupRaises, Exception, ServerCloses,
     Reply
<1>6. SubInv'
  BY <1>1, <1>2, <1>3, <1>4 DEF SetupRaises, Exception, ServerCloses,
     Reply
<1>7. OpenInv'
  BY <1>1, <1>2, <1>3, <1>4 DEF SetupRaises, Exception, ServerCloses,
     Reply
<1>8. GoneInv'
  BY <1>1, <1>2, <1>3, <1>4 DEF SetupRaises, Exception, ServerCloses,
     Reply
<1>9. SessionInv'
  BY <1>1, <1>2, <1>3, <1>4 DEF SetupRaises, Exception, ServerCloses,
     Reply
<1>10. MarkerInv'
  BY <1>1, <1>2, <1>3, <1>4 DEF SetupRaises, Exception, ServerCloses,
     Reply
<1>11. CutShortInv'
  BY <1>1, <1>2, <1>3, <1>4 DEF SetupRaises, Exception, ServerCloses,
     Reply
<1> QED BY <1>5, <1>6, <1>7, <1>8, <1>9, <1>10, <1>11

\* A capture that cannot be started ends the session and the connection.
LEMMA LaunchRaisesStep == IInv /\ LaunchRaises => IInv'
<1> SUFFICES ASSUME IInv, LaunchRaises PROVE IInv'
  OBVIOUS
<1> USE ConstantsAssumption
    DEF IInv, TypeOK, SubInv, OpenInv, GoneInv, SessionInv, MarkerInv, CutShortInv,
        DaqPcs, VmmPcs, SubRuns, Commands, Replies, Flags, Endings, InHand,
        Chosen, AtVoltage, Waiting, Quiet, Starting, Running, Session,
        LoopLeft, StopFlags, orchVars, srvVars, netVars, fileVars, opVars,
        histVars, perRun
<1>1. orphans' \subseteq SubRuns
  BY DEF LaunchRaises
<1>2. c2s' = <<>> /\ <<>> \in Seq(Commands)
  BY DEF LaunchRaises, Exception, ServerCloses
<1>3. lock' \in BOOLEAN /\ vpc' = "accept"
  BY DEF LaunchRaises, Exception
<1>4. TypeOK'
  BY <1>1, <1>2, <1>3 DEF LaunchRaises, Exception, ServerCloses
<1>5. SubInv'
  BY <1>1, <1>2, <1>3 DEF LaunchRaises, Exception, ServerCloses
<1>6. OpenInv'
  BY <1>1, <1>2, <1>3 DEF LaunchRaises, Exception, ServerCloses
<1>7. GoneInv'
  BY <1>1, <1>2, <1>3 DEF LaunchRaises, Exception, ServerCloses
<1>8. SessionInv'
  BY <1>1, <1>2, <1>3 DEF LaunchRaises, Exception, ServerCloses
<1>9. MarkerInv'
  BY <1>1, <1>2, <1>3 DEF LaunchRaises, Exception, ServerCloses
<1>10. CutShortInv'
  <2>1. UNCHANGED <<dpc, sub, s2c, flags, script, marker, retaken, ended>> /\ vpc' = "accept"
    BY DEF LaunchRaises, Exception
  <2>2. dpc \in Waiting => conn \in {"open", "serverGone"}
    OBVIOUS
  <2>3. dpc \in Waiting /\ LoopLeft' => LoopLeft
    BY <2>1, <2>2, ReplyFacts
  <2> QED BY <2>1, <2>3
<1> QED BY <1>4, <1>5, <1>6, <1>7, <1>8, <1>9, <1>10

\* A session that raises leaves no markers and no processes.
LEMMA SessionRaisesStep == IInv /\ SessionRaises => IInv'
<1> SUFFICES ASSUME IInv, SessionRaises PROVE IInv'
  OBVIOUS
<1> USE ConstantsAssumption
    DEF IInv, TypeOK, SubInv, OpenInv, GoneInv, SessionInv, MarkerInv, CutShortInv,
        DaqPcs, VmmPcs, SubRuns, Commands, Replies, Flags, Endings, InHand,
        Chosen, AtVoltage, Waiting, Quiet, Starting, Running, Session,
        LoopLeft, StopFlags, orchVars, srvVars, netVars, fileVars, opVars,
        histVars, perRun
<1>1. c2s' = <<>> /\ <<>> \in Seq(Commands)
  BY DEF SessionRaises, Exception, ServerCloses
<1>2. lock' \in BOOLEAN /\ vpc' = "accept"
  BY DEF SessionRaises, Exception
<1>3. TypeOK'
  BY <1>1, <1>2 DEF SessionRaises, Exception, ServerCloses
<1>4. SubInv'
  BY <1>1, <1>2 DEF SessionRaises, Exception, ServerCloses
<1>5. OpenInv'
  BY <1>1, <1>2 DEF SessionRaises, Exception, ServerCloses
<1>6. GoneInv'
  BY <1>1, <1>2 DEF SessionRaises, Exception, ServerCloses
<1>7. SessionInv'
  BY <1>1, <1>2 DEF SessionRaises, Exception, ServerCloses
<1>8. MarkerInv'
  BY <1>1, <1>2 DEF SessionRaises, Exception, ServerCloses
<1>9. CutShortInv'
  <2>1. UNCHANGED <<dpc, sub, s2c, flags, script, marker, retaken, ended>> /\ vpc' = "accept"
    BY DEF SessionRaises, Exception
  <2>2. dpc \in Waiting => conn \in {"open", "serverGone"}
    OBVIOUS
  <2>3. dpc \in Waiting /\ LoopLeft' => LoopLeft
    BY <2>1, <2>2, ReplyFacts
  <2> QED BY <2>1, <2>3
<1> QED BY <1>3, <1>4, <1>5, <1>6, <1>7, <1>8, <1>9

\* A killed server leaves a client with the replies already sent.
LEMMA ServerKilledStep == IInv /\ ServerKilled => IInv'
<1> SUFFICES ASSUME IInv, ServerKilled PROVE IInv'
  OBVIOUS
<1> USE ConstantsAssumption
    DEF IInv, TypeOK, SubInv, OpenInv, GoneInv, SessionInv, MarkerInv, CutShortInv,
        DaqPcs, VmmPcs, SubRuns, Commands, Replies, Flags, Endings, InHand,
        Chosen, AtVoltage, Waiting, Quiet, Starting, Running, Session,
        LoopLeft, StopFlags, orchVars, srvVars, netVars, fileVars, opVars,
        histVars, perRun
<1>1. vsub' = vsub /\ orphans' \subseteq SubRuns
  BY DEF ServerKilled
<1>2. c2s' = <<>> /\ <<>> \in Seq(Commands)
  BY DEF ServerKilled, Exception, ServerCloses
<1>3. lock' \in BOOLEAN /\ vpc' = "accept"
  BY DEF ServerKilled, Exception
<1>4. TypeOK'
  BY <1>1, <1>2, <1>3 DEF ServerKilled, Exception, ServerCloses
<1>5. SubInv'
  BY <1>1, <1>2, <1>3 DEF ServerKilled, Exception, ServerCloses
<1>6. OpenInv'
  BY <1>1, <1>2, <1>3 DEF ServerKilled, Exception, ServerCloses
<1>7. GoneInv'
  BY <1>1, <1>2, <1>3 DEF ServerKilled, Exception, ServerCloses
<1>8. SessionInv'
  BY <1>1, <1>2, <1>3 DEF ServerKilled, Exception, ServerCloses
<1>9. MarkerInv'
  BY <1>1, <1>2, <1>3 DEF ServerKilled, Exception, ServerCloses
<1>10. CutShortInv'
  <2>1. UNCHANGED <<dpc, sub, s2c, flags, script, marker, retaken, ended>> /\ vpc' = "accept"
    BY DEF ServerKilled, Exception
  <2>2. dpc \in Waiting => conn \in {"open", "serverGone"}
    OBVIOUS
  <2>3. dpc \in Waiting /\ LoopLeft' => LoopLeft
    BY <2>1, <2>2, ReplyFacts
  <2> QED BY <2>1, <2>3
<1> QED BY <1>4, <1>5, <1>6, <1>7, <1>8, <1>9, <1>10

\* Every step of the orchestrator keeps the invariant.
LEMMA OrchestratorStep == IInv /\ Orchestrator => IInv'
<1> SUFFICES ASSUME IInv, Orchestrator PROVE IInv'
  OBVIOUS
<1> USE ConstantsAssumption
    DEF IInv, TypeOK, SubInv, OpenInv, GoneInv, SessionInv, MarkerInv, CutShortInv,
        DaqPcs, VmmPcs, SubRuns, Commands, Replies, Flags, Endings, InHand,
        Chosen, AtVoltage, Waiting, Quiet, Starting, Running, Session,
        LoopLeft, StopFlags, orchVars, srvVars, netVars, fileVars, opVars,
        histVars, perRun
<1>1. CASE Greeted
  BY <1>1, GreetedStep
<1>2. CASE GreetingLost
  BY SMTT(60), <1>2 DEF GreetingLost, ClientCloses
<1>3. CASE ClearFlags
  BY SMTT(60), <1>3 DEF ClearFlags
<1>4. CASE StopCheck
  BY SMTT(60), <1>4 DEF StopCheck
<1>5. CASE PauseCheck
  BY SMTT(60), <1>5 DEF PauseCheck
<1>6. CASE PauseEnds
  BY SMTT(60), <1>6 DEF PauseEnds
<1>7. CASE SelectSubRun
  BY SMTT(60), <1>7 DEF SelectSubRun
<1>8. CASE LVGate
  BY SMTT(60), <1>8 DEF LVGate
<1>9. CASE RampHV
  BY <1>9, RampHVStep
<1>10. CASE StartDaq
  BY <1>10, StartDaqStep
<1>11. CASE ReceiveStarting
  BY <1>11, ReceiveStartingStep
<1>12. CASE ReceiveStopped
  BY <1>12, ReceiveStoppedStep
<1>13. CASE LostWhileRunning
  BY SMTT(60), <1>13 DEF LostWhileRunning
<1>14. CASE ConnectionLost
  BY SMTT(60), <1>14 DEF ConnectionLost, ClientCloses
<1>15. CASE ReadStops
  BY SMTT(60), <1>15 DEF ReadStops
<1>16. CASE MarkComplete
  BY SMTT(60), <1>16 DEF MarkComplete
<1>17. CASE PostSleep
  BY SMTT(60), <1>17 DEF PostSleep
<1>18. CASE Finally
  BY SMTT(60), <1>18 DEF Finally
<1>19. CASE CloseDown
  BY <1>19, CloseDownStep
<1> QED
  BY <1>1, <1>2, <1>3, <1>4, <1>5, <1>6, <1>7, <1>8, <1>9, <1>10, <1>11,
     <1>12, <1>13, <1>14, <1>15, <1>16, <1>17, <1>18, <1>19 DEF
     Orchestrator

\* Every step of the capture server keeps the invariant.
LEMMA ServerStep == IInv /\ Server => IInv'
<1> SUFFICES ASSUME IInv, Server PROVE IInv'
  OBVIOUS
<1> USE ConstantsAssumption
    DEF IInv, TypeOK, SubInv, OpenInv, GoneInv, SessionInv, MarkerInv, CutShortInv,
        DaqPcs, VmmPcs, SubRuns, Commands, Replies, Flags, Endings, InHand,
        Chosen, AtVoltage, Waiting, Quiet, Starting, Running, Session,
        LoopLeft, StopFlags, orchVars, srvVars, netVars, fileVars, opVars,
        histVars, perRun
<1>1. CASE AcceptClient
  BY <1>1, AcceptClientStep
<1>2. CASE ClientVanished
  BY <1>2, ClientVanishedStep
<1>3. CASE ReceiveStart
  BY <1>3, ReceiveStartStep
<1>4. CASE ReceiveFinished
  BY SMTT(60), <1>4 DEF ReceiveFinished, ServerCloses
<1>5. CASE ClearStale
  BY SMTT(60), <1>5 DEF ClearStale
<1>6. CASE AcquireLock
  BY <1>6, AcquireLockStep
<1>7. CASE AcqOn
  BY <1>7, AcqOnStep
<1>8. CASE Launch
  BY <1>8, LaunchStep
<1>9. CASE TimeUp
  BY SMTT(60), <1>9 DEF TimeUp, RunLoopEnds
<1>10. CASE StopSeen
  BY SMTT(60), <1>10 DEF StopSeen, RunLoopEnds
<1>11. CASE AllDied
  BY SMTT(60), <1>11 DEF AllDied, RunLoopEnds
<1>12. CASE StopCaptures
  BY SMTT(60), <1>12 DEF StopCaptures
<1>13. CASE AcqOff
  BY SMTT(60), <1>13 DEF AcqOff
<1>14. CASE ReleaseLock
  <2>1. TypeOK'
    BY <1>14 DEF ReleaseLock
  <2>2. SubInv'
    BY <1>14 DEF ReleaseLock
  <2>3. OpenInv'
    BY <1>14 DEF ReleaseLock
  <2>4. GoneInv'
    BY <1>14 DEF ReleaseLock
  <2>5. SessionInv'
    BY <1>14 DEF ReleaseLock
  <2>6. MarkerInv'
    BY <1>14 DEF ReleaseLock
  <2>7. CutShortInv'
    BY <1>14 DEF ReleaseLock
  <2> QED BY <2>1, <2>2, <2>3, <2>4, <2>5, <2>6, <2>7
<1>15. CASE MarkDone
  BY SMTT(60), <1>15 DEF MarkDone
<1>16. CASE ReportStopped
  BY <1>16, ReportStoppedStep
<1> QED
  BY <1>1, <1>2, <1>3, <1>4, <1>5, <1>6, <1>7, <1>8, <1>9, <1>10, <1>11,
     <1>12, <1>13, <1>14, <1>15, <1>16 DEF Server

\* Every step of the operator, of the captures and of what fails keeps it.
LEMMA OthersStep == IInv /\ (StopVmm \/ Resume \/ Environment) => IInv'
<1> SUFFICES ASSUME IInv, (StopVmm \/ Resume \/ Environment) PROVE IInv'
  OBVIOUS
<1> USE ConstantsAssumption
    DEF IInv, TypeOK, SubInv, OpenInv, GoneInv, SessionInv, MarkerInv, CutShortInv,
        DaqPcs, VmmPcs, SubRuns, Commands, Replies, Flags, Endings, InHand,
        Chosen, AtVoltage, Waiting, Quiet, Starting, Running, Session,
        LoopLeft, StopFlags, orchVars, srvVars, netVars, fileVars, opVars,
        histVars, perRun
<1>1. CASE StopVmm
  <2>1. TypeOK'
    <3>1. flags' \subseteq Flags /\ script' \in BOOLEAN /\ safetynet' \in BOOLEAN
      BY <1>1 DEF StopVmm, TouchStopVmm
    <3> QED BY <1>1, <3>1 DEF StopVmm, TouchStopVmm
  <2>2. SubInv'
    BY <1>1 DEF StopVmm, TouchStopVmm
  <2>3. OpenInv'
    BY <1>1 DEF StopVmm, TouchStopVmm
  <2>4. GoneInv'
    BY <1>1 DEF StopVmm, TouchStopVmm
  <2>5. SessionInv'
    BY <1>1 DEF StopVmm, TouchStopVmm
  <2>6. MarkerInv'
    BY <1>1 DEF StopVmm, TouchStopVmm
  <2>7. CutShortInv'
    BY <1>1 DEF StopVmm, TouchStopVmm
  <2> QED BY <2>1, <2>2, <2>3, <2>4, <2>5, <2>6, <2>7
<1>2. CASE Resume
  BY SMTT(60), <1>2 DEF Resume
<1>3. CASE StartRun
  BY <1>3, StartRunStep
<1>4. CASE OrchestratorKilled
  BY SMTT(60), <1>4 DEF OrchestratorKilled, ClientCloses
<1>5. CASE SetupRaises
  BY <1>5, SetupRaisesStep
<1>6. CASE LaunchRaises
  BY <1>6, LaunchRaisesStep
<1>7. CASE SessionRaises
  BY <1>7, SessionRaisesStep
<1>8. CASE ServerKilled
  BY <1>8, ServerKilledStep
<1>9. CASE CaptureDies
  BY SMTT(60), <1>9 DEF CaptureDies
<1>10. CASE StopRun
  BY SMTT(60), <1>10 DEF StopRun, RequestStop, InLoop
<1>11. CASE StopSubRun
  BY SMTT(60), <1>11 DEF StopSubRun, RequestStop, InLoop
<1>12. CASE SafetyNet
  <2>1. TypeOK'
    <3>1. procs' \subseteq Ifaces /\ orphans' \subseteq SubRuns /\ safetynet' \in BOOLEAN
      BY <1>12 DEF SafetyNet
    <3> QED BY <1>12, <3>1 DEF SafetyNet
  <2>2. SubInv'
    BY <1>12 DEF SafetyNet
  <2>3. OpenInv'
    BY <1>12 DEF SafetyNet
  <2>4. GoneInv'
    BY <1>12 DEF SafetyNet
  <2>5. SessionInv'
    BY <1>12 DEF SafetyNet
  <2>6. MarkerInv'
    BY <1>12 DEF SafetyNet
  <2>7. CutShortInv'
    BY <1>12 DEF SafetyNet
  <2> QED BY <2>1, <2>2, <2>3, <2>4, <2>5, <2>6, <2>7
<1>13. CASE Pause
  BY SMTT(60), <1>13 DEF Pause
<1> QED
  BY <1>1, <1>2, <1>3, <1>4, <1>5, <1>6, <1>7, <1>8, <1>9, <1>10, <1>11,
     <1>12, <1>13 DEF Environment

\* The invariant holds initially.
LEMMA InitIInv == Init => IInv
<1> SUFFICES ASSUME Init PROVE IInv
  OBVIOUS
<1> USE ConstantsAssumption DEF Init, SubRuns
<1>1. sub \in 1..(NSub + 1) /\ runs \in 0..MaxRuns /\ requests \in 0..MaxRequests
  OBVIOUS
<1>2. c2s \in Seq(Commands) /\ s2c \in Seq(Replies)
  OBVIOUS
<1>3. /\ started \in BOOLEAN /\ lock \in BOOLEAN /\ script \in BOOLEAN
      /\ safetynet \in BOOLEAN /\ resume \in BOOLEAN
  OBVIOUS
<1>4. ended \in [SubRuns -> Endings] /\ vsub \in 0..NSub /\ hv \in 0..NSub
  BY DEF Endings
<1>5. TypeOK
  BY <1>1, <1>2, <1>3, <1>4 DEF TypeOK, DaqPcs, VmmPcs, Flags
<1>6. SubInv /\ OpenInv /\ GoneInv
  BY DEF SubInv, OpenInv, GoneInv, InHand, Chosen
<1>7. SessionInv /\ MarkerInv /\ CutShortInv
  BY DEF SessionInv, MarkerInv, CutShortInv, AtVoltage, Waiting, Starting,
         Running, Session
<1> QED BY <1>5, <1>6, <1>7 DEF IInv

\* The invariant speaks of the state only.
LEMMA StutterIInv == IInv /\ UNCHANGED vars => IInv'
<1> SUFFICES ASSUME IInv, UNCHANGED vars PROVE IInv'
  OBVIOUS
<1> USE DEF vars, orchVars, perRun, srvVars, netVars, fileVars, opVars, histVars
<1>1. TypeOK' /\ SubInv' /\ OpenInv' /\ GoneInv' /\ SessionInv'
  BY DEF IInv, TypeOK, SubInv, OpenInv, GoneInv, SessionInv
<1>2. MarkerInv' /\ CutShortInv'
  BY DEF IInv, MarkerInv, CutShortInv, LoopLeft, StopFlags
<1> QED BY <1>1, <1>2 DEF IInv

\* Every step keeps the invariant.
LEMMA StepIInv == IInv /\ [Next]_vars => IInv'
  BY OrchestratorStep, ServerStep, OthersStep, StutterIInv DEF Next

\* The inductive invariant of a run without Ctrl-C, for any number of
\* sub-runs, interfaces, restarts and requests.
THEOREM Invariance == Spec => []IInv
  BY InitIInv, StepIInv, PTL DEF Spec

\* Every variable keeps its type.
THEOREM TypeCorrect == Spec => []TypeOK
<1>1. IInv => TypeOK
  BY DEF IInv
<1> QED BY <1>1, Invariance, PTL

\* .subrun_complete stands for a capture whose .capture_done is there, whatever
\* dies and whenever the operator stops or pauses, unless a run that does not
\* resume has begun to take that sub-run again.
THEOREM MarkedIsCaptured == Spec => []MarkerMeansCaptured
<1>1. IInv => MarkerMeansCaptured
  BY DEF IInv, MarkerInv, MarkerMeansCaptured
<1> QED BY <1>1, Invariance, PTL

\* A sub-run that a stop request cut short is never marked complete for that
\* capture: only a marker older than the capture can be there.
THEOREM MarkedIsNotCutShort == Spec => []MarkerNotCutShort
<1>1. IInv => MarkerNotCutShort
  BY DEF IInv, CutShortInv, MarkerNotCutShort
<1> QED BY <1>1, Invariance, PTL

\* Data are taken at the voltage of the sub-run they are filed under.
THEOREM VoltageMatches == Spec => []DataAtOwnVoltage
<1>1. IInv => DataAtOwnVoltage
  BY DEF IInv, SessionInv, DataAtOwnVoltage, Session, Running
<1> QED BY <1>1, Invariance, PTL

\* Captures run under the session lock with every front end armed.
THEOREM CapturesProtected == Spec => []CaptureProtected
<1>1. IInv => CaptureProtected
  BY DEF IInv, SessionInv, CaptureProtected
<1> QED BY <1>1, Invariance, PTL

\* Nothing of a session writes to a sub-run that has .capture_done.
THEOREM DoneIsFinal == Spec => []DoneMeansFinal
<1>1. IInv => DoneMeansFinal
  BY DEF IInv, SessionInv, DoneMeansFinal, Session, Running
<1> QED BY <1>1, Invariance, PTL

\* The conversation of orchestrator and server never slips by a reply.
THEOREM ConversationInStep == Spec => []InStep
<1>1. IInv => InStep
  <2> SUFFICES ASSUME IInv, dpc \in Waiting, conn = "open" PROVE InStep
    BY DEF InStep, Waiting
  <2> USE DEF IInv, OpenInv, InStep, Starting, Running
  <2>1. CASE dpc = "waitStarting"
    BY <2>1, ReplyFacts
  <2>2. CASE dpc = "waitStopped"
    BY <2>2, ReplyFacts
  <2> QED BY <2>1, <2>2 DEF Waiting
<1> QED BY <1>1, Invariance, PTL

\* No markers, no session.
LEMMA LedgerInit == Init => Ledger!Init
  BY DEF Init, Ledger!Init, Capturing

\* A process may resume what is there or not; no session is going on.
LEMMA StartIsBegin == IInv /\ StartRun => Ledger!Begin
<1> SUFFICES ASSUME IInv, StartRun PROVE Ledger!Begin
  OBVIOUS
<1>1. Capturing = 0 /\ Capturing' = Capturing
  BY DEF StartRun, Capturing, srvVars
<1>2. resume' \in BOOLEAN
  BY ConstantsAssumption DEF StartRun
<1> QED BY <1>1, <1>2 DEF Ledger!Begin, StartRun, fileVars, histVars

\* A session begins with .capture_done removed, in the ledger a capture; a
\* marker that is still there no longer counts.
LEMMA BeginIsCapture == IInv /\ ClearStale => Ledger!Capture(vsub) /\ vsub \in SubRuns
<1> SUFFICES ASSUME IInv, ClearStale
             PROVE  Ledger!Capture(vsub) /\ vsub \in SubRuns
  OBVIOUS
<1>1. vsub \in SubRuns /\ (resume => vsub \notin marker)
  BY DEF IInv, SessionInv, Session, Starting, ClearStale
<1>2. Capturing = 0 /\ Capturing' = vsub
  BY DEF ClearStale, Capturing
<1>3. UNCHANGED <<resume, marker>> /\ done' = done \ {vsub}
  BY DEF ClearStale, orchVars, perRun
<1>4. (marker \ retaken)' = (marker \ retaken) \ {vsub}
  BY <1>3 DEF ClearStale
<1> QED BY <1>1, <1>2, <1>3, <1>4 DEF Ledger!Capture

\* .capture_done is written: the capture has been carried to its end.
LEMMA DoneIsEnd == IInv /\ MarkDone => Ledger!CaptureEnds
<1> SUFFICES ASSUME IInv, MarkDone PROVE Ledger!CaptureEnds
  OBVIOUS
<1>1. vsub # 0
  BY ConstantsAssumption DEF IInv, SessionInv, Session, Running, MarkDone, SubRuns
<1>2. Capturing = vsub /\ Capturing' = 0
  BY DEF MarkDone, Capturing
<1>3. UNCHANGED <<resume, marker, retaken>>
  BY DEF MarkDone, orchVars, perRun, histVars
<1> QED BY <1>1, <1>2, <1>3 DEF Ledger!CaptureEnds, MarkDone

\* A session given up is a failed capture of the ledger.
LEMMA GivenUpIsFailure ==
    ASSUME AcquireLock \/ AcqOn \/ LaunchRaises \/ SessionRaises \/ ServerKilled
    PROVE  Ledger!CaptureFails \/ UNCHANGED Ledger!vars
<1>1. UNCHANGED <<resume, done, marker, retaken, vsub>>
  BY DEF AcquireLock, AcqOn, LaunchRaises, SessionRaises, ServerKilled, fileVars,
         orchVars, perRun, histVars
<1>2. Capturing' = Capturing \/ Capturing' = 0
  BY <1>1 DEF AcquireLock, AcqOn, LaunchRaises, SessionRaises, ServerKilled,
              Exception, Capturing
<1> QED BY <1>1, <1>2 DEF Ledger!CaptureFails, Ledger!vars

\* The marker is written after a finished capture, with none in progress,
\* though the server the orchestrator talked to may have gone meanwhile.
LEMMA MarkIsComplete ==
    IInv /\ MarkComplete => Ledger!Complete(sub) /\ sub \in SubRuns
<1> SUFFICES ASSUME IInv, MarkComplete
             PROVE  Ledger!Complete(sub) /\ sub \in SubRuns
  OBVIOUS
<1>1. sub \in SubRuns /\ sub \in done
  BY DEF IInv, SubInv, MarkerInv, MarkComplete, InHand
<1>2. conn \in {"open", "serverGone"}
  BY DEF IInv, GoneInv, TypeOK, MarkComplete
<1>3. vpc \in {"idle", "accept"}
  BY <1>2 DEF IInv, GoneInv, OpenInv, MarkComplete, Quiet, DaqPcs
<1>4. Capturing = 0 /\ Capturing' = 0
  BY <1>3 DEF MarkComplete, Capturing, srvVars
<1>5. UNCHANGED <<resume, done>>
  BY DEF MarkComplete, perRun
<1>6. (marker \ retaken)' = (marker \ retaken) \cup {sub}
  BY DEF MarkComplete
<1> QED BY <1>1, <1>4, <1>5, <1>6 DEF Ledger!Complete

\* The rest of the orchestrator changes neither marker nor session.
LEMMA OrchestratorStutter ==
    ASSUME Orchestrator, ~MarkComplete PROVE UNCHANGED Ledger!vars
<1>1. UNCHANGED <<vpc, vsub, done, marker, retaken, resume>>
  BY DEF Orchestrator, Greeted, GreetingLost, ClearFlags, StopCheck,
         PauseCheck, PauseEnds, SelectSubRun, LVGate, RampHV,
         StartDaq, ReceiveStarting, ReceiveStopped,
         LostWhileRunning, ConnectionLost, ReadStops, MarkComplete,
         PostSleep, Finally, CloseDown, srvVars, fileVars, perRun, histVars
<1> QED BY <1>1 DEF Ledger!vars, Capturing

\* So does the rest of the server.
LEMMA ServerStutter ==
    ASSUME Server, ~ClearStale, ~AcquireLock, ~AcqOn, ~MarkDone
    PROVE  UNCHANGED Ledger!vars
<1>1. UNCHANGED <<done, marker, retaken, resume>>
  BY DEF Server, AcceptClient, ClientVanished, ReceiveStart, ReceiveFinished,
         ClearStale, AcquireLock, AcqOn, Launch, TimeUp, StopSeen,
         AllDied, StopCaptures, AcqOff, ReleaseLock, MarkDone,
         ReportStopped, RunLoopEnds, Exception, fileVars, orchVars, perRun,
         histVars
<1>2. UNCHANGED Capturing
  BY DEF Server, AcceptClient, ClientVanished, ReceiveStart, ReceiveFinished,
         ClearStale, AcquireLock, AcqOn, Launch, TimeUp, StopSeen,
         AllDied, StopCaptures, AcqOff, ReleaseLock, MarkDone,
         ReportStopped, RunLoopEnds, Exception, fileVars, Capturing
<1> QED BY <1>1, <1>2 DEF Ledger!vars

\* And what happens around them.
LEMMA OthersStutter ==
    ASSUME StopVmm \/ Resume \/ Environment, ~LaunchRaises, ~SessionRaises,
           ~ServerKilled, ~StartRun
    PROVE  UNCHANGED Ledger!vars
<1>1. UNCHANGED <<done, marker, retaken, resume>>
  BY DEF Environment, StopVmm, Resume, StartRun, OrchestratorKilled,
         SetupRaises, LaunchRaises, SessionRaises, ServerKilled,
         CaptureDies, StopRun, StopSubRun, SafetyNet, Pause,
         RequestStop, Exception, srvVars, fileVars, orchVars, perRun, histVars
<1>2. UNCHANGED Capturing
  BY DEF Environment, StopVmm, Resume, StartRun, OrchestratorKilled,
         SetupRaises, LaunchRaises, SessionRaises, ServerKilled,
         CaptureDies, StopRun, StopSubRun, SafetyNet, Pause,
         RequestStop, Exception, srvVars, fileVars, Capturing
<1> QED BY <1>1, <1>2 DEF Ledger!vars

\* Every step is a step of the ledger or leaves it as it is.
LEMMA LedgerStep == IInv /\ [Next]_vars => [Ledger!Next]_(Ledger!vars)
<1> SUFFICES ASSUME IInv, [Next]_vars PROVE Ledger!Next \/ UNCHANGED Ledger!vars
  OBVIOUS
<1> USE DEF Ledger!Next, Ledger!SubRuns, SubRuns
<1>1. CASE MarkComplete
  BY <1>1, MarkIsComplete
<1>2. CASE ClearStale
  BY <1>2, BeginIsCapture
<1>3. CASE MarkDone
  BY <1>3, DoneIsEnd
<1>4. CASE AcquireLock \/ AcqOn \/ LaunchRaises \/ SessionRaises \/ ServerKilled
  BY <1>4, GivenUpIsFailure
<1>5. CASE UNCHANGED vars
  BY <1>5 DEF vars, srvVars, fileVars, orchVars, perRun, histVars, Ledger!vars,
              Capturing
<1>6. CASE StartRun
  BY <1>6, StartIsBegin
<1> QED
  BY <1>1, <1>2, <1>3, <1>4, <1>5, <1>6, OrchestratorStutter, ServerStutter,
     OthersStutter DEF Next

\* A run implements the ledger: one capture at a time, complete only after a
\* finished capture of it and until the next, and runs that resume, in any order
\* with those that do not, capture nothing that is complete.
THEOREM RunImplementsLedger == Spec => LedgerSpec
  BY InitIInv, LedgerInit, LedgerStep, Invariance, PTL
     DEF Spec, Ledger!Spec, LedgerSpec
=============================================================================
