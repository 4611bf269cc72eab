---------------------------- MODULE Q2pcRudpProof ----------------------------
(***************************************************************************)
(* What holds of every cluster over rdp_ln, whatever its size, its limits  *)
(* and its network: the types, and then that stop and wait keeps the two   *)
(* ends of every connection in step and makes send_request the barrier of  *)
(* a phase.                                                                *)
(***************************************************************************)
EXTENDS Q2pcRudp, Q2pcProof, FiniteSetTheorems

-----------------------------------------------------------------------------
(* Types. *)

RTypeInv == TypeInv /\ EndTypeOK /\ ClientEndTypeOK /\ WiresTypeOK

BaseMain == \/ MSpawn \/ MLoop \/ MReset \/ MTimeout \/ MSum \/ MPause \/ MScanEnd
            \/ MScan \/ MClear \/ MUnpause \/ MReport \/ MCleanup \/ MJoin

BaseWorker(t) == \/ WStop(t) \/ WPause(t) \/ WZero(t) \/ WLoad(t) \/ WStore(t)
                 \/ WStat(t) \/ WDelete(t)

LEMMA RTypeInit == RInit => RTypeInv
<1>. SUFFICES ASSUME RInit PROVE RTypeInv
  OBVIOUS
<1>1. TypeInv
  BY TypeInit DEF RInit
<1>2. EndTypeOK
  BY RtosAssumption DEF RInit, EndTypeOK
<1>3. ClientEndTypeOK /\ WiresTypeOK
  BY RtosAssumption DEF RInit, ClientEndTypeOK, WiresTypeOK
<1>. QED
  BY <1>1, <1>2, <1>3 DEF RTypeInv

\* The connection that do_connectall or a loop of send_request is at.
LEMMA AtConnection ==
    ASSUME MainTypeOK, i < client_count
    PROVE  i \in Conns
  BY ClientCountAssumption DEF MainTypeOK, Conns

LEMMA NextConnTypes ==
    ASSUME MainTypeOK, NextConn
    PROVE  i' \in 0 .. client_count /\ i' < client_count
  BY ClientCountAssumption DEF MainTypeOK, NextConn

LEMMA PutTypes ==
    ASSUME NEW net \in [Conns -> SUBSET Datagram], NEW c \in Conns, NEW s \in Int,
           NEW m \in MsgType
    PROVE  Put(net, c, s, m) \in [Conns -> SUBSET Datagram]
<1>1. [seq |-> s, msg |-> m] \in Datagram
  BY DEF Datagram
<1>. QED
  BY <1>1 DEF Put

LEMMA CloseUpTypes ==
    ASSUME WiresTypeOK, CloseUp, UNCHANGED down
    PROVE  WiresTypeOK'
  BY DEF WiresTypeOK, CloseUp

\* What is left on the wires was there.
LEMMA CloseUpSubset ==
    ASSUME WiresTypeOK, CloseUp
    PROVE  \A c \in Conns : up'[c] \subseteq up[c]
  BY DEF WiresTypeOK, CloseUp

LEMMA RequestType == Request \in MsgType
  BY DEF Request, MsgType

\* The main thread in do_connectall.
LEMMA RConnectTypes ==
    ASSUME RTypeInv, RMConnectNone \/ RMConnect
    PROVE  RTypeInv'
<1>0. /\ NetTypeOK /\ MainTypeOK /\ SharedTypeOK /\ WorkerTypeOK /\ ClientTypeOK
      /\ LocalsOK
  BY DEF RTypeInv, TypeInv, TypeOK
<1>1. i \in Conns
  BY <1>0, AtConnection DEF RMConnectNone, RMConnect, LocalsOK
<1>2. /\ NextConn
      /\ connected' \in Nat /\ mpc' \in {"connect", "spawn"}
      /\ mpc = "connect"
      /\ UNCHANGED <<requests, status, phase, result, total_votes>>
      /\ UNCHANGED <<sharedVars, workerVars, clientVars>>
      /\ UNCHANGED <<toServer, toClient, gone, closed, faults>>
      /\ peers' \subseteq Conns
      /\ UNCHANGED <<netRVars, s_read, writeRVars, clientRVars>>
  <2>1. CASE RMConnectNone
    BY <1>0, <1>1, <2>1
    DEF RMConnectNone, netVars, rudpVars, endRVars, NetTypeOK, MainTypeOK
  <2>2. CASE RMConnect
    <3>1. connected + 1 \in Nat /\ peers \cup {i} \subseteq Conns
      BY <1>0, <1>1 DEF NetTypeOK, MainTypeOK
    <3>. QED
      BY <2>2, <3>1 DEF RMConnect
  <2>. QED
    BY <2>1, <2>2
<1>3. NetTypeOK'
  BY <1>0, <1>2 DEF NetTypeOK
<1>4. MainTypeOK'
  BY <1>0, <1>2, NextConnTypes DEF MainTypeOK, MainPc
<1>5. LocalsOK'
  BY <1>0, <1>2, NextConnTypes DEF LocalsOK, MainTypeOK, workerVars
<1>6. s_seq' \in [Conns -> Int]
  <2>1. CASE RMConnectNone
    BY <2>1 DEF RMConnectNone, rudpVars, endRVars, RTypeInv, EndTypeOK
  <2>2. CASE RMConnect
    <3>1. PICK d \in up[i] : s_seq' = [s_seq EXCEPT ![i] = d.seq]
      BY <2>2 DEF RMConnect, RBegRead
    <3>2. d.seq \in Int
      BY <1>1 DEF RTypeInv, WiresTypeOK, Datagram
    <3>. QED
      BY <1>1, <3>1, <3>2 DEF RTypeInv, EndTypeOK
  <2>. QED
    BY <2>1, <2>2
<1>7. EndTypeOK' /\ ClientEndTypeOK' /\ WiresTypeOK'
  BY <1>2, <1>6
  DEF RTypeInv, EndTypeOK, ClientEndTypeOK, WiresTypeOK, netRVars, writeRVars, clientRVars
<1>. QED
  BY <1>0, <1>2, <1>3, <1>4, <1>5, <1>7
  DEF RTypeInv, TypeInv, TypeOK, SharedTypeOK, WorkerTypeOK, ClientTypeOK, sharedVars,
      workerVars, clientVars

\* What all of send_request has in common.
LEMMA InSendTypes ==
    ASSUME RTypeInv, InSend,
           mpc' \in {"send", "write", "wait", "cleanup"},
           i' \in 0 .. client_count, mpc' = "write" => i' < client_count,
           mpc' = "wait" => i' = 0,
           mpc \in {"send", "write"},
           total_votes' \in Nat
    PROVE  TypeInv'
<1>0. /\ NetTypeOK /\ MainTypeOK /\ SharedTypeOK /\ WorkerTypeOK /\ ClientTypeOK
      /\ LocalsOK
  BY DEF RTypeInv, TypeInv, TypeOK
<1>1. /\ UNCHANGED <<netVars, sharedVars, connected, requests, status, phase,
                     result, workerVars, clientVars>>
  BY DEF InSend
<1>2. MainTypeOK'
  BY <1>0, <1>1 DEF MainTypeOK, MainPc
<1>3. LocalsOK'
  BY <1>0, <1>1, ThreadsExist DEF LocalsOK, workerVars
<1>. QED
  BY <1>0, <1>1, <1>2, <1>3
  DEF TypeInv, TypeOK, NetTypeOK, SharedTypeOK, WorkerTypeOK, ClientTypeOK, netVars,
      sharedVars, workerVars, clientVars

LEMMA RSendTypes ==
    ASSUME RTypeInv, RMSendRequest
    PROVE  RTypeInv'
<1>0. /\ MainTypeOK /\ LocalsOK /\ EndTypeOK /\ ClientEndTypeOK /\ WiresTypeOK
  BY DEF RTypeInv, TypeInv, TypeOK
<1>1. ASSUME InSend PROVE ClientEndTypeOK' /\ up' = up /\ s_seq' = s_seq /\ s_read' = s_read
  BY <1>0, <1>1 DEF InSend, ClientEndTypeOK, clientRVars, endRVars
<1>2. CASE RMCollect
  <2>1. i \in Conns /\ i + 1 \in 0 .. client_count
    BY <1>0, <1>2, AtConnection, ClientCountAssumption DEF RMCollect, MainTypeOK
  <2>2. TypeInv'
    BY <1>0, <1>2, <2>1, InSendTypes DEF RMCollect, MainTypeOK
  <2>3. EndTypeOK' /\ WiresTypeOK'
    BY <1>0, <1>1, <1>2, <2>1 DEF RMCollect, EndTypeOK, WiresTypeOK
  <2>. QED
    BY <1>1, <1>2, <2>2, <2>3 DEF RMCollect, RTypeInv
<1>3. CASE RMCollected
  <2>1. TypeInv'
    BY <1>0, <1>3, InSendTypes, ClientCountAssumption DEF RMCollected, MainTypeOK
  <2>2. EndTypeOK' /\ WiresTypeOK'
    BY <1>0, <1>1, <1>3 DEF RMCollected, EndTypeOK, WiresTypeOK
  <2>. QED
    BY <1>1, <1>3, <2>1, <2>2 DEF RMCollected, RTypeInv
<1>4. CASE RMSent
  <2>1. TypeInv'
    BY <1>0, <1>4, InSendTypes, ClientCountAssumption DEF RMSent, MainTypeOK
  <2>2. rtofired' \in [Conns -> -1 .. MAX_RTOS]
    BY <1>4, RtosAssumption DEF RMSent
  <2>3. EndTypeOK' /\ WiresTypeOK'
    BY <1>0, <1>1, <1>4, <2>2 DEF RMSent, EndTypeOK, WiresTypeOK
  <2>. QED
    BY <1>1, <1>4, <2>1, <2>3 DEF RMSent, RTypeInv
<1>5. ASSUME mpc = "write" PROVE i \in Conns
  BY <1>0, <1>5, AtConnection DEF LocalsOK
<1>6. CASE RMSkip \/ RMAgain
  <2>1. mpc = "write" /\ NextConn /\ InSend
        /\ UNCHANGED <<mpc, total_votes, down, s_stamp, s_current, s_out, epc, rtofired>>
    BY <1>6 DEF RMSkip, RMAgain, Sending, Waiting
  <2>2. TypeInv'
    BY <1>0, <2>1, InSendTypes, NextConnTypes DEF MainTypeOK
  <2>3. EndTypeOK' /\ WiresTypeOK'
    BY <1>0, <1>1, <2>1 DEF EndTypeOK, WiresTypeOK
  <2>. QED
    BY <1>1, <2>1, <2>2, <2>3 DEF RTypeInv
<1>7. CASE RMWrite
  <2>1. mpc = "write" /\ InSend /\ UNCHANGED <<mpc, i, total_votes>>
    BY <1>7 DEF RMWrite, Sending
  <2>2. TypeInv'
    BY <1>0, <2>1, InSendTypes DEF MainTypeOK, LocalsOK
  <2>3. down' \in [Conns -> SUBSET Datagram]
    BY <1>0, <1>5, <1>7, <2>1, PutTypes, RequestType DEF RMWrite, WiresTypeOK, EndTypeOK
  <2>4. EndTypeOK' /\ WiresTypeOK'
    BY <1>0, <1>1, <1>7, <2>1, <2>3 DEF RMWrite, EndTypeOK, WiresTypeOK
  <2>. QED
    BY <1>1, <2>1, <2>2, <2>4 DEF RTypeInv
<1>8. CASE RMSample
  <2>1. mpc = "write" /\ InSend /\ UNCHANGED <<mpc, i, total_votes>>
    BY <1>8 DEF RMSample
  <2>2. TypeInv'
    BY <1>0, <2>1, InSendTypes DEF MainTypeOK, LocalsOK
  <2>3. EndTypeOK' /\ WiresTypeOK'
    BY <1>0, <1>1, <1>5, <1>8, <2>1 DEF RMSample, EndTypeOK, WiresTypeOK
  <2>. QED
    BY <1>1, <2>1, <2>2, <2>3 DEF RTypeInv
<1>9. CASE RMAnswered
  <2>1. mpc = "write" /\ InSend /\ NextConn /\ UNCHANGED <<mpc, total_votes>>
    BY <1>9 DEF RMAnswered, Waiting, Sending
  <2>2. TypeInv'
    BY <1>0, <2>1, InSendTypes, NextConnTypes DEF MainTypeOK
  <2>3. -1 \in -1 .. MAX_RTOS
    BY RtosAssumption
  <2>4. EndTypeOK' /\ WiresTypeOK'
    BY <1>0, <1>1, <1>5, <1>9, <2>1, <2>3 DEF RMAnswered, EndTypeOK, WiresTypeOK
  <2>. QED
    BY <1>1, <2>1, <2>2, <2>4 DEF RTypeInv
<1>10. CASE RMRto
  <2>1. mpc = "write" /\ InSend /\ UNCHANGED <<mpc, total_votes>> /\ i \in Conns
    BY <1>5, <1>10 DEF RMRto, Waiting, Sending
  <2>2. \/ epc' = "failed" /\ UNCHANGED <<i, rtofired>>
        \/ /\ rtofired[i] < MAX_RTOS
           /\ rtofired' = [rtofired EXCEPT ![i] = @ + 1]
           /\ NextConn /\ UNCHANGED epc
    BY <1>0, <1>10, <2>1, RtosAssumption DEF RMRto, EndTypeOK
  <2>3. i' \in 0 .. client_count /\ i' < client_count
    BY <1>0, <2>1, <2>2, NextConnTypes, ClientCountAssumption DEF Conns
  <2>4. TypeInv'
    BY <1>0, <2>1, <2>3, InSendTypes DEF MainTypeOK
  <2>5. down' \in [Conns -> SUBSET Datagram]
    BY <1>0, <1>10, <2>1, PutTypes, RequestType DEF RMRto, WiresTypeOK, EndTypeOK
  <2>6. rtofired' \in [Conns -> -1 .. MAX_RTOS]
    <3>1. CASE UNCHANGED rtofired
      BY <1>0, <3>1 DEF EndTypeOK
    <3>2. CASE rtofired[i] < MAX_RTOS /\ rtofired' = [rtofired EXCEPT ![i] = @ + 1]
      <4>1. rtofired[i] \in -1 .. MAX_RTOS /\ rtofired[i] + 1 \in -1 .. MAX_RTOS
        BY <1>0, <2>1, <3>2, RtosAssumption DEF EndTypeOK
      <4>. QED
        BY <1>0, <2>1, <3>2, <4>1 DEF EndTypeOK
    <3>. QED
      BY <2>2, <3>1, <3>2
  <2>7. EndTypeOK' /\ WiresTypeOK'
    BY <1>0, <1>1, <1>10, <2>1, <2>2, <2>5, <2>6 DEF RMRto, EndTypeOK, WiresTypeOK
  <2>. QED
    BY <1>1, <2>1, <2>4, <2>7 DEF RTypeInv
<1>11. CASE RMEfin \/ RMFailed
  <2>1. /\ mpc = "write" /\ mpc' = "cleanup" /\ InSend
        /\ UNCHANGED <<i, total_votes, down, s_stamp, s_current, s_out>>
        /\ epc' \in {epc, "loop"}
        /\ rtofired' = [c \in Conns |-> 0]
    BY <1>11 DEF RMEfin, RMFailed
  <2>2. TypeInv'
    BY <1>0, <2>1, InSendTypes DEF MainTypeOK
  <2>3. rtofired' \in [Conns -> -1 .. MAX_RTOS]
    BY <2>1, RtosAssumption
  <2>4. EndTypeOK' /\ WiresTypeOK'
    BY <1>0, <1>1, <2>1, <2>3 DEF EndTypeOK, WiresTypeOK
  <2>. QED
    BY <1>1, <2>1, <2>2, <2>4 DEF RTypeInv
<1>12. CASE RMDies
  <2>1. TypeInv'
    BY <1>12, DieTypes DEF RMDies, RTypeInv
  <2>2. rtofired' \in [Conns -> -1 .. MAX_RTOS]
    BY <1>12, RtosAssumption DEF RMDies
  <2>3. WiresTypeOK'
    BY <1>0, <1>12, CloseUpTypes DEF RMDies
  <2>4. EndTypeOK' /\ ClientEndTypeOK'
    BY <1>0, <1>12, <2>2 DEF RMDies, EndTypeOK, ClientEndTypeOK, endRVars, clientRVars
  <2>. QED
    BY <2>1, <2>3, <2>4 DEF RTypeInv
<1>. QED
  BY <1>2, <1>3, <1>4, <1>6, <1>7, <1>8, <1>9, <1>10, <1>11, <1>12 DEF RMSendRequest

LEMMA RBaseTypes ==
    ASSUME RTypeInv, TypeInv', CloseUp,
           UNCHANGED <<down, endRVars, writeRVars, clientRVars>>
    PROVE  RTypeInv'
<1>1. WiresTypeOK'
  BY CloseUpTypes DEF RTypeInv
<1>2. EndTypeOK' /\ ClientEndTypeOK'
  BY DEF RTypeInv, EndTypeOK, ClientEndTypeOK, endRVars, writeRVars, clientRVars
<1>. QED
  BY <1>1, <1>2 DEF RTypeInv

LEMMA RMainTypes ==
    ASSUME RTypeInv, RMain \/ RMSignal
    PROVE  RTypeInv'
<1>1. CASE RMConnectNone \/ RMConnect
  BY <1>1, RConnectTypes
<1>2. CASE RMSendRequest
  BY <1>2, RSendTypes
<1>3. CASE /\ BaseMain
           /\ CloseUp
           /\ UNCHANGED <<clientVars, down, endRVars, writeRVars, clientRVars>>
  <2>1. Main
    BY <1>3 DEF BaseMain, Main
  <2>. QED
    BY <1>3, <2>1, MainTypes, RBaseTypes DEF RTypeInv
<1>4. CASE RMSignal
  <2>1. TypeInv'
    BY <1>4, MainTypes DEF RMSignal, RTypeInv
  <2>2. rtofired' \in [Conns -> -1 .. MAX_RTOS]
    BY <1>4, RtosAssumption DEF RMSignal
  <2>3. WiresTypeOK'
    BY <1>4, CloseUpTypes DEF RMSignal, RTypeInv
  <2>4. EndTypeOK' /\ ClientEndTypeOK'
    BY <1>4, <2>2
    DEF RMSignal, RTypeInv, EndTypeOK, ClientEndTypeOK, endRVars, clientRVars
  <2>. QED
    BY <2>1, <2>3, <2>4 DEF RTypeInv
<1>. QED
  BY <1>1, <1>2, <1>3, <1>4 DEF RMain, BaseMain

\* The workers: what they do on a connection, and everything else.
LEMMA RWorkerTypes ==
    ASSUME RTypeInv, NEW t \in Threads, RWorker(t)
    PROVE  RTypeInv'
<1>0. /\ NetTypeOK /\ MainTypeOK /\ SharedTypeOK /\ WorkerTypeOK /\ ClientTypeOK
      /\ LocalsOK
  BY DEF RTypeInv, TypeInv, TypeOK
<1>1. ASSUME wpc[t] = "poll" PROVE wi[t] \in Conns /\ wi[t] < Hi(t)
  BY <1>0, <1>1, WorkerConns DEF LocalsOK, RTypeInv
<1>2. CASE RWRead(t)
  <2>1. TypeInv'
    BY <1>2, StutterTypes DEF RWRead, RTypeInv
  <2>2. wi[t] \in Conns
    BY <1>1, <1>2 DEF RWRead
  <2>3. PICK d \in up[wi[t]] : /\ s_seq' = [s_seq EXCEPT ![wi[t]] = d.seq]
                               /\ s_read' = [s_read EXCEPT ![wi[t]] = d.msg]
    BY <1>2 DEF RWRead, RBegRead
  <2>4. d.seq \in Int /\ d.msg \in MsgType
    BY <2>2 DEF RTypeInv, WiresTypeOK, Datagram
  <2>5. EndTypeOK'
    BY <1>2, <2>2, <2>3, <2>4 DEF RWRead, RTypeInv, EndTypeOK, writeRVars
  <2>6. ClientEndTypeOK' /\ WiresTypeOK'
    BY <1>2 DEF RWRead, RTypeInv, ClientEndTypeOK, WiresTypeOK, netRVars, clientRVars
  <2>. QED
    BY <2>1, <2>5, <2>6 DEF RTypeInv
<1>3. CASE RWVote(t)
  <2>. DEFINE c == wi[t]
  <2>1. c \in Conns /\ c < Hi(t)
    BY <1>1, <1>3 DEF RWVote
  <2>2. s_read[c] \in MsgType
    BY <1>3, <2>1 DEF RWVote, RTypeInv, EndTypeOK
  <2>3. SharedTypeOK'
    BY <1>0, <1>3, <2>2 DEF RWVote, SharedTypeOK, Slot
  <2>4. WorkerTypeOK'
    BY <1>0, <1>3 DEF RWVote, WorkerTypeOK, WorkerPc
  <2>5. LocalsOK'
    BY <1>0, <1>3, <2>1 DEF RWVote, WorkerTypeOK, LocalsOK, mainVars
  <2>6. TypeInv'
    BY <1>0, <1>3, <2>3, <2>4, <2>5
    DEF RWVote, TypeInv, TypeOK, NetTypeOK, MainTypeOK, ClientTypeOK, netVars, mainVars,
        clientVars
  <2>7. EndTypeOK'
    BY <1>3, <2>1 DEF RWVote, RTypeInv, EndTypeOK, writeRVars
  <2>8. ClientEndTypeOK' /\ WiresTypeOK'
    BY <1>3 DEF RWVote, RTypeInv, ClientEndTypeOK, WiresTypeOK, netRVars, clientRVars
  <2>. QED
    BY <2>6, <2>7, <2>8 DEF RTypeInv
<1>4. CASE RWAgain(t) \/ RWEfin(t)
  <2>1. wpc[t] = "poll" /\ wi[t] < Hi(t)
    BY <1>1, <1>4 DEF RWAgain, RWEfin
  <2>2. /\ Advance(t) \/ Break(t)
        /\ stop_signal' \in BOOLEAN
        /\ UNCHANGED <<netVars, pause_signal, votes_scoreboard, votes_count, mainVars,
                       wtmp, stats_idx, unread, clientVars, rudpVars>>
    BY <1>0, <1>4 DEF RWAgain, RWEfin, SharedTypeOK, sharedVars
  <2>3. WorkerTypeOK'
    BY <1>0, <2>1, <2>2, AdvanceTypes, ThreadInts DEF Break, WorkerTypeOK, WorkerPc
  <2>4. LocalsOK'
    BY <1>0, <2>1, <2>2, ThreadInts
    DEF Advance, Break, WorkerTypeOK, LocalsOK, mainVars
  <2>5. TypeInv'
    BY <1>0, <2>2, <2>3, <2>4
    DEF TypeInv, TypeOK, NetTypeOK, MainTypeOK, SharedTypeOK, ClientTypeOK, netVars,
        mainVars, clientVars
  <2>6. EndTypeOK' /\ ClientEndTypeOK' /\ WiresTypeOK'
    BY <2>2
    DEF RTypeInv, EndTypeOK, ClientEndTypeOK, WiresTypeOK, rudpVars, netRVars, endRVars,
        writeRVars, clientRVars
  <2>. QED
    BY <2>5, <2>6 DEF RTypeInv
<1>5. CASE /\ BaseWorker(t)
           /\ CloseUp
           /\ UNCHANGED <<clientVars, down, endRVars, writeRVars, clientRVars>>
  <2>1. Worker(t)
    BY <1>5 DEF BaseWorker, Worker
  <2>. QED
    BY <1>5, <2>1, WorkerTypes, RBaseTypes DEF RTypeInv
<1>. QED
  BY <1>2, <1>3, <1>4, <1>5 DEF RWorker, BaseWorker

\* The clients.
LEMMA SayTypes ==
    ASSUME RTypeInv, NEW c \in Conns, NEW m \in MsgType, Say(c, m)
    PROVE  /\ up' \in [Conns -> SUBSET Datagram]
           /\ c_out' \in [Conns -> BOOLEAN]
           /\ c_busy' \in [Conns -> BOOLEAN]
<1>1. ClientEndTypeOK /\ WiresTypeOK
  BY DEF RTypeInv
<1>2. c_seq[c] \in Int
  BY <1>1 DEF ClientEndTypeOK
<1>3. Put(up, c, c_seq[c], m) \in [Conns -> SUBSET Datagram]
  BY <1>1, <1>2, PutTypes DEF WiresTypeOK
<1>4. (~ c_out[c]) \in BOOLEAN
  OBVIOUS
<1>5. c_out' \in [Conns -> BOOLEAN] /\ c_busy' \in [Conns -> BOOLEAN]
  BY <1>1, <1>4 DEF Say, ClientEndTypeOK
<1>. QED
  BY <1>1, <1>3, <1>5 DEF Say, WiresTypeOK

LEMMA SayingType ==
    ASSUME NEW c \in Conns
    PROVE  Saying(c) \in MsgType
  BY DEF Saying, MsgType

LEMMA RClientTypes ==
    ASSUME RTypeInv, NEW c \in Conns, RClient(c),
           UNCHANGED <<serverVars, endRVars, writeRVars>>
    PROVE  RTypeInv'
<1>0. /\ NetTypeOK /\ MainTypeOK /\ SharedTypeOK /\ WorkerTypeOK /\ ClientTypeOK
      /\ LocalsOK /\ ClientEndTypeOK /\ WiresTypeOK /\ EndTypeOK
  BY DEF RTypeInv, TypeInv, TypeOK
<1>1. MainTypeOK' /\ SharedTypeOK' /\ WorkerTypeOK' /\ EndTypeOK'
  BY <1>0
  DEF MainTypeOK, SharedTypeOK, WorkerTypeOK, EndTypeOK, serverVars, mainVars,
      sharedVars, workerVars, endRVars, writeRVars
<1>2. LocalsOK'
  BY <1>0 DEF LocalsOK, serverVars, mainVars, sharedVars, workerVars
<1>3. ASSUME NetTypeOK', ClientTypeOK', ClientEndTypeOK', WiresTypeOK'
      PROVE  RTypeInv'
  BY <1>1, <1>2, <1>3 DEF RTypeInv, TypeInv, TypeOK
<1>4. ASSUME UNCHANGED netVars PROVE NetTypeOK'
  BY <1>0, <1>4 DEF NetTypeOK, netVars
<1>5. CASE RCConnect(c)
  <2>1. /\ Say(c, "con") /\ UNCHANGED <<netVars, vote_count, log, down, c_seq, c_read, c_rtos>>
        /\ cpc' = [cpc EXCEPT ![c] = "phase1"]
    BY <1>5 DEF RCConnect
  <2>2. "con" \in MsgType
    BY DEF MsgType
  <2>3. ClientEndTypeOK' /\ WiresTypeOK'
    BY <1>0, <2>1, <2>2, SayTypes DEF ClientEndTypeOK, WiresTypeOK
  <2>4. ClientTypeOK'
    BY <1>0, <2>1 DEF ClientTypeOK
  <2>. QED
    BY <1>3, <1>4, <2>1, <2>3, <2>4
<1>6. CASE RCRead(c)
  <2>1. PICK d \in down[c] : Expects(c, d) /\ c_read' = [c_read EXCEPT ![c] = d.msg]
    BY <1>6 DEF RCRead
  <2>2. d.msg \in MsgType
    BY <1>0 DEF WiresTypeOK, Datagram
  <2>3. c_read' \in [Conns -> MsgType \cup {"none"}]
    BY <1>0, <2>1, <2>2 DEF ClientEndTypeOK
  <2>4. c_seq' \in [Conns -> Nat] /\ c_rtos' \in [Conns -> 0 .. RTOS_MAX - 1]
    BY <1>0, <1>6, RtosAssumption DEF RCRead, ClientEndTypeOK
  <2>5. (c_out[c] /\ ~ c_busy[c]) \in BOOLEAN
    OBVIOUS
  <2>6. c_out' \in [Conns -> BOOLEAN] /\ c_busy' \in [Conns -> BOOLEAN]
    BY <1>0, <1>6, <2>5 DEF RCRead, ClientEndTypeOK
  <2>7. ClientEndTypeOK'
    BY <2>3, <2>4, <2>6 DEF ClientEndTypeOK
  <2>8. WiresTypeOK' /\ ClientTypeOK'
    BY <1>0, <1>6 DEF RCRead, WiresTypeOK, netRVars, ClientTypeOK, clientVars
  <2>. QED
    BY <1>3, <1>4, <1>6, <2>7, <2>8 DEF RCRead
<1>7. CASE RCRto(c)
  <2>1. c_seq[c] \in Int
    BY <1>0 DEF ClientEndTypeOK
  <2>2. up' \in [Conns -> SUBSET Datagram]
    BY <1>0, <1>7, <2>1, SayingType, PutTypes DEF RCRto, WiresTypeOK
  <2>3. c_rtos' \in [Conns -> 0 .. RTOS_MAX - 1]
    <3>1. CASE UNCHANGED c_rtos
      BY <1>0, <3>1 DEF ClientEndTypeOK
    <3>2. CASE c_rtos[c] + 1 < RTOS_MAX /\ c_rtos' = [c_rtos EXCEPT ![c] = @ + 1]
      <4>1. c_rtos[c] + 1 \in 0 .. RTOS_MAX - 1
        BY <1>0, <3>2, RtosAssumption DEF ClientEndTypeOK
      <4>. QED
        BY <1>0, <3>2, <4>1 DEF ClientEndTypeOK
    <3>3. CASE c_rtos' = [c_rtos EXCEPT ![c] = 0]
      BY <1>0, <3>3, RtosAssumption DEF ClientEndTypeOK
    <3>. QED
      BY <1>7, <3>1, <3>2, <3>3 DEF RCRto
  <2>4. c_busy' \in [Conns -> BOOLEAN]
    BY <1>0, <1>7 DEF RCRto, ClientEndTypeOK
  <2>5. ClientEndTypeOK' /\ WiresTypeOK' /\ ClientTypeOK'
    BY <1>0, <1>7, <2>2, <2>3, <2>4
    DEF RCRto, ClientEndTypeOK, WiresTypeOK, ClientTypeOK, clientVars
  <2>. QED
    BY <1>3, <1>4, <1>7, <2>5 DEF RCRto
<1>8. ASSUME NEW m \in MsgType, NEW e \in {"yes", "no"} \cup Decisions,
             NEW p \in {"phase1", "phase2"},
             Say(c, m), c_read' = [c_read EXCEPT ![c] = "none"],
             log' = [log EXCEPT ![c] = Append(@, e)],
             cpc' = [cpc EXCEPT ![c] = p],
             UNCHANGED <<netVars, down, c_seq, c_rtos>>,
             vote_count' \in [Conns -> Nat]
      PROVE  RTypeInv'
  <2>1. ClientEndTypeOK' /\ WiresTypeOK'
    BY <1>0, <1>8, SayTypes DEF ClientEndTypeOK, WiresTypeOK
  <2>2. log' \in [Conns -> Seq({"yes", "no"} \cup Decisions)]
    BY <1>0, <1>8 DEF ClientTypeOK
  <2>3. ClientTypeOK'
    BY <1>0, <1>8, <2>2 DEF ClientTypeOK
  <2>. QED
    BY <1>3, <1>4, <1>8, <2>1, <2>3
<1>9. CASE RCPhase1(c)
  <2>1. vote_count' \in [Conns -> Nat]
    BY <1>0, <1>9 DEF RCPhase1, ClientTypeOK
  <2>2. "vote_yes" \in MsgType /\ "vote_no" \in MsgType
    BY DEF MsgType
  <2>. QED
    BY <1>8, <1>9, <2>1, <2>2 DEF RCPhase1, Takes
<1>10. CASE RCPhase2(c)
  <2>1. vote_count' \in [Conns -> Nat]
    BY <1>0, <1>10 DEF RCPhase2, ClientTypeOK
  <2>2. "ack" \in MsgType
    BY DEF MsgType
  <2>. QED
    BY <1>8, <1>10, <2>1, <2>2 DEF RCPhase2, Takes
<1>11. CASE RCExit(c)
  <2>1. NetTypeOK'
    BY <1>0, <1>11, DroppedTypes DEF RCExit, Exit, NetTypeOK
  <2>2. ClientEndTypeOK' /\ WiresTypeOK' /\ ClientTypeOK'
    BY <1>0, <1>11
    DEF RCExit, ClientEndTypeOK, WiresTypeOK, ClientTypeOK, clientVars, clientRVars
  <2>. QED
    BY <1>3, <2>1, <2>2
<1>. QED
  BY <1>5, <1>6, <1>7, <1>9, <1>10, <1>11 DEF RClient

LEMMA RStutterTypes == ASSUME RTypeInv, UNCHANGED rvars PROVE RTypeInv'
<1>1. TypeInv'
  BY StutterTypes DEF RTypeInv, rvars
<1>. QED
  BY <1>1
  DEF RTypeInv, EndTypeOK, ClientEndTypeOK, WiresTypeOK, rvars, rudpVars, netRVars,
      endRVars, writeRVars, clientRVars

\* The types and the indexes are an inductive invariant.
LEMMA RTypeStep == RTypeInv /\ [RNext]_rvars => RTypeInv'
<1>. SUFFICES ASSUME RTypeInv, [RNext]_rvars PROVE RTypeInv'
  OBVIOUS
<1>1. CASE RMain \/ RMSignal
  BY <1>1, RMainTypes
<1>2. CASE \E t \in Threads : RWorker(t)
  BY <1>2, RWorkerTypes
<1>3. CASE RClientStep
  BY <1>3, RClientTypes DEF RClientStep
<1>4. CASE RTerminated \/ UNCHANGED rvars
  BY <1>4, RStutterTypes DEF RTerminated
<1>. QED
  BY <1>1, <1>2, <1>3, <1>4 DEF RNext

LEMMA RTypeInvariant == RSpec => []RTypeInv
  BY RTypeInit, RTypeStep, PTL DEF RSpec

\* Every variable of the cluster over rdp_ln keeps its type, whatever the network
\* does: in particular conn_rtofired_count stays within MAX_RTOS
\* (q2pc_server.c:355) and the client's count below its own limit
\* (q2pc_client.c:191).
THEOREM RudpTypeCorrect == RSpec => []RTypeOK
<1>1. RTypeInv => RTypeOK
  BY DEF RTypeInv, RTypeOK, TypeInv
<1>. QED
  BY <1>1, RTypeInvariant, PTL

-----------------------------------------------------------------------------
(* The clients.  What each has said is right whatever the server does. *)

\* What a client knows about its own connection: its sequence number counts what
\* it has done, and a message it has read but not acted on; while it sends again
\* there is none.
Own(c) ==
    /\ cpc[c] = "connect" => log[c] = <<>> /\ c_read[c] = "none" /\ ~ c_busy[c]
    /\ c_read[c] = "none" => c_seq[c] = Len(log[c])
    /\ c_read[c] # "none" => c_seq[c] = Len(log[c]) + 1
    /\ c_busy[c] => c_read[c] = "none"
    /\ cpc[c] = "phase2" => Len(log[c]) > 0 /\ log[c][Len(log[c])] \in {"yes", "no"}
    /\ cpc[c] = "phase1" =>
          log[c] = <<>> \/ (Len(log[c]) > 0 /\ log[c][Len(log[c])] \in Decisions)

\* A datagram on the way to the server says what its sender did.
Said(c, d) == IF d.seq = 0 THEN d.msg = "con"
              ELSE d.seq \in DOMAIN log[c] /\ d.msg = AnswerTo[log[c][d.seq]]

SaidInv == \A c \in Conns : Own(c) /\ \A d \in up[c] : Said(c, d)

\* What has been said stays right when the client does one thing more.
LEMMA SaidStays ==
    ASSUME NEW c \in Conns, NEW d \in Datagram, NEW e \in LogEntry,
           log \in [Conns -> Seq(LogEntry)],
           log'[c] \in {log[c], Append(log[c], e)},
           Said(c, d)
    PROVE  Said(c, d)'
<1>1. log[c] \in Seq(LogEntry) /\ d.seq \in Int
  BY DEF Datagram
<1>2. CASE d.seq = 0
  BY <1>2 DEF Said
<1>3. CASE d.seq # 0
  <2>1. d.seq \in DOMAIN log[c] /\ d.msg = AnswerTo[log[c][d.seq]]
    BY <1>3 DEF Said
  <2>2. d.seq \in DOMAIN log'[c] /\ log'[c][d.seq] = log[c][d.seq]
    BY <1>1, <2>1
  <2>. QED
    BY <1>3, <2>1, <2>2 DEF Said
<1>. QED
  BY <1>2, <1>3

\* Nothing but the server's sockets can lose what has been said.
LEMMA SaidKept ==
    ASSUME RTypeInv, SaidInv, UNCHANGED <<clientVars, clientRVars>>,
           \A c \in Conns : up'[c] \subseteq up[c]
    PROVE  SaidInv'
<1>1. ASSUME NEW c \in Conns, NEW d \in up'[c] PROVE Said(c, d)'
  BY <1>1 DEF SaidInv, Said, clientVars
<1>2. ASSUME NEW c \in Conns PROVE Own(c)'
  <2>1. Own(c)
    BY DEF SaidInv
  <2>. QED
    BY <2>1 DEF Own, clientVars, clientRVars
<1>. QED
  BY <1>1, <1>2 DEF SaidInv

\* The server does not touch what the clients keep, and adds nothing to what
\* they have said.
LEMMA ServerFrame ==
    ASSUME RTypeInv, RMain \/ RMSignal \/ \E t \in Threads : RWorker(t)
    PROVE  /\ UNCHANGED <<clientVars, clientRVars>>
           /\ \A c \in Conns : up'[c] \subseteq up[c]
<1>1. CASE RMConnectNone \/ RMConnect
  BY <1>1 DEF RMConnectNone, RMConnect, rudpVars, netRVars
<1>2. CASE InSend
  BY <1>2 DEF InSend
<1>3. CASE CloseUp /\ UNCHANGED <<clientVars, clientRVars>>
  BY <1>3, CloseUpSubset DEF RTypeInv
<1>4. CASE \E t \in Threads : RWRead(t) \/ RWVote(t) \/ RWAgain(t) \/ RWEfin(t)
  BY <1>4 DEF RWRead, RWVote, RWAgain, RWEfin, vars, rudpVars, netRVars
<1>5. CASE RMain
  BY <1>1, <1>2, <1>3, <1>5
  DEF RMain, RMSendRequest, RMCollect, RMCollected, RMSent, RMSkip, RMWrite, RMSample,
      RMAnswered, RMAgain, RMRto, RMEfin, RMFailed, RMDies
<1>6. CASE RMSignal
  BY <1>3, <1>6 DEF RMSignal
<1>7. CASE \E t \in Threads : RWorker(t)
  BY <1>3, <1>4, <1>7 DEF RWorker
<1>. QED
  BY <1>5, <1>6, <1>7

\* A client acts on the message it has read, and says so.
LEMMA ActKept ==
    ASSUME RTypeInv, SaidInv, NEW c \in Conns, NEW e \in LogEntry,
           c_read[c] # "none", Say(c, AnswerTo[e]),
           c_read' = [c_read EXCEPT ![c] = "none"],
           log' = [log EXCEPT ![c] = Append(@, e)],
           cpc' = [cpc EXCEPT ![c] = IF e \in Decisions THEN "phase1" ELSE "phase2"],
           UNCHANGED c_seq
    PROVE  SaidInv'
<1>0. /\ log \in [Conns -> Seq(LogEntry)]
      /\ cpc \in [Conns -> {"connect", "phase1", "phase2"}]
      /\ c_read \in [Conns -> MsgType \cup {"none"}]
      /\ c_busy \in [Conns -> BOOLEAN] /\ c_out \in [Conns -> BOOLEAN]
      /\ c_seq \in [Conns -> Nat] /\ up \in [Conns -> SUBSET Datagram]
  BY DEF RTypeInv, TypeInv, TypeOK, ClientTypeOK, ClientEndTypeOK, WiresTypeOK, LogEntry
<1>1. /\ log'[c] = Append(log[c], e)
      /\ c_read'[c] = "none"
      /\ cpc'[c] = IF e \in Decisions THEN "phase1" ELSE "phase2"
  BY <1>0
<1>2. log[c] \in Seq(LogEntry) /\ c_seq[c] = Len(log[c]) + 1
  BY <1>0 DEF SaidInv, Own
<1>3. Len(log'[c]) = c_seq[c] /\ log'[c][c_seq[c]] = e /\ c_seq[c] \in DOMAIN log'[c]
      /\ c_seq[c] > 0
  BY <1>1, <1>2
<1>4. Own(c)'
  <2>1. e \in Decisions \/ e \in {"yes", "no"}
    BY DEF LogEntry
  <2>. QED
    BY <1>1, <1>3, <2>1 DEF Own, Decisions
<1>5. ASSUME NEW b \in Conns \ {c} PROVE Own(b)'
  <2>1. /\ log'[b] = log[b] /\ c_read'[b] = c_read[b] /\ cpc'[b] = cpc[b]
        /\ c_busy'[b] = c_busy[b] /\ c_seq'[b] = c_seq[b]
    BY <1>0 DEF Say
  <2>2. Own(b)
    BY DEF SaidInv
  <2>. QED
    BY <2>1, <2>2 DEF Own
<1>6. ASSUME NEW b \in Conns, NEW d \in up'[b] PROVE Said(b, d)'
  <2>1. d \in up[b] \/ (b = c /\ d = [seq |-> c_seq[c], msg |-> AnswerTo[e]])
    BY <1>0 DEF Say, Put
  <2>2. CASE d \in up[b]
    <3>1. d \in Datagram /\ Said(b, d)
      BY <1>0, <2>2 DEF SaidInv
    <3>2. log'[b] \in {log[b], Append(log[b], e)}
      BY <1>0
    <3>. QED
      BY <1>0, <3>1, <3>2, SaidStays
  <2>3. CASE b = c /\ d = [seq |-> c_seq[c], msg |-> AnswerTo[e]]
    BY <1>3, <2>3 DEF Said
  <2>. QED
    BY <2>1, <2>2, <2>3
<1>. QED
  BY <1>4, <1>5, <1>6 DEF SaidInv

\* Whatever a client sends again is what it said.
LEMMA SayingIsSaid ==
    ASSUME RTypeInv, SaidInv, NEW c \in Conns, c_busy[c]
    PROVE  Said(c, [seq |-> c_seq[c], msg |-> Saying(c)])
<1>0. /\ log[c] \in Seq(LogEntry) /\ cpc[c] \in {"connect", "phase1", "phase2"}
      /\ Own(c)
  BY DEF RTypeInv, TypeInv, TypeOK, ClientTypeOK, LogEntry, SaidInv
<1>1. c_seq[c] = Len(log[c]) /\ cpc[c] # "connect"
  BY <1>0 DEF Own
<1>2. CASE log[c] = <<>>
  <2>1. cpc[c] = "phase1"
    BY <1>0, <1>1, <1>2 DEF Own
  <2>. QED
    BY <1>1, <1>2, <2>1 DEF Said, Saying
<1>3. CASE log[c] # <<>>
  <2>1. c_seq[c] > 0 /\ c_seq[c] \in DOMAIN log[c] /\ log[c][c_seq[c]] = log[c][Len(log[c])]
    BY <1>0, <1>1, <1>3
  <2>2. Saying(c) = AnswerTo[log[c][Len(log[c])]]
    BY <1>0, <1>1, <1>3 DEF Own, Saying, AnswerTo, Decisions
  <2>. QED
    BY <2>1, <2>2 DEF Said
<1>. QED
  BY <1>2, <1>3

LEMMA ClientSaidKept ==
    ASSUME RTypeInv, SaidInv, NEW c \in Conns, RClient(c)
    PROVE  SaidInv'
<1>0. /\ log \in [Conns -> Seq(LogEntry)]
      /\ cpc \in [Conns -> {"connect", "phase1", "phase2"}]
      /\ c_read \in [Conns -> MsgType \cup {"none"}]
      /\ c_busy \in [Conns -> BOOLEAN] /\ c_out \in [Conns -> BOOLEAN]
      /\ c_seq \in [Conns -> Nat] /\ up \in [Conns -> SUBSET Datagram]
      /\ down \in [Conns -> SUBSET Datagram]
  BY DEF RTypeInv, TypeInv, TypeOK, ClientTypeOK, ClientEndTypeOK, WiresTypeOK, LogEntry
<1>1. \A b \in Conns : Own(b) /\ \A d \in up[b] : Said(b, d)
  BY DEF SaidInv
<1>2. CASE RCConnect(c)
  <2>1. /\ cpc[c] = "connect" /\ Say(c, "con")
        /\ cpc' = [cpc EXCEPT ![c] = "phase1"]
        /\ UNCHANGED <<log, c_seq, c_read>>
    BY <1>2 DEF RCConnect
  <2>2. log[c] = <<>> /\ c_read[c] = "none" /\ c_seq[c] = 0
    BY <1>1, <2>1 DEF Own
  <2>3. ASSUME NEW b \in Conns PROVE Own(b)'
    BY <1>0, <1>1, <2>1, <2>2 DEF Own, Say
  <2>4. ASSUME NEW b \in Conns, NEW d \in up'[b] PROVE Said(b, d)'
    <3>1. d \in up[b] \/ d = [seq |-> 0, msg |-> "con"]
      BY <1>0, <2>1, <2>2 DEF Say, Put
    <3>. QED
      BY <1>1, <2>1, <3>1 DEF Said
  <2>. QED
    BY <2>3, <2>4 DEF SaidInv
<1>3. CASE RCRead(c)
  <2>1. PICK d \in down[c] : c_read' = [c_read EXCEPT ![c] = d.msg]
    BY <1>3 DEF RCRead
  <2>2. d.msg # "none"
    <3>1. d \in Datagram
      BY <1>0
    <3>2. d.msg \in MsgType
      BY <3>1 DEF Datagram
    <3>. QED
      BY <3>2 DEF MsgType
  <2>3. ASSUME NEW b \in Conns PROVE Own(b)'
    <3>1. /\ c_read[c] = "none" /\ cpc[c] # "connect"
          /\ c_seq' = [c_seq EXCEPT ![c] = @ + 1]
          /\ c_busy' = [c_busy EXCEPT ![c] = FALSE]
          /\ UNCHANGED <<cpc, log>>
      BY <1>3 DEF RCRead, clientVars
    <3>2. CASE b = c
      <4>1. c_seq'[c] = Len(log[c]) + 1 /\ c_read'[c] # "none" /\ ~ c_busy'[c]
        BY <1>0, <1>1, <2>1, <2>2, <3>1 DEF Own
      <4>. QED
        BY <1>1, <3>1, <3>2, <4>1 DEF Own
    <3>3. CASE b # c
      <4>1. c_read'[b] = c_read[b] /\ c_busy'[b] = c_busy[b] /\ c_seq'[b] = c_seq[b]
        BY <1>0, <2>1, <3>1, <3>3
      <4>. QED
        BY <1>1, <3>1, <4>1 DEF Own
    <3>. QED
      BY <3>2, <3>3
  <2>4. ASSUME NEW b \in Conns, NEW e \in up'[b] PROVE Said(b, e)'
    BY <1>1, <1>3 DEF RCRead, netRVars, clientVars, Said
  <2>. QED
    BY <2>3, <2>4 DEF SaidInv
<1>4. CASE RCRto(c)
  <2>1. /\ c_busy[c] /\ up' = Put(up, c, c_seq[c], Saying(c))
        /\ UNCHANGED <<cpc, log, c_seq, c_read>>
        /\ c_busy' \in {c_busy, [c_busy EXCEPT ![c] = FALSE]}
    BY <1>4 DEF RCRto, clientVars
  <2>2. ASSUME NEW b \in Conns PROVE Own(b)'
    <3>1. c_busy'[b] => c_busy[b]
      BY <1>0, <2>1
    <3>. QED
      BY <1>1, <2>1, <3>1 DEF Own
  <2>3. ASSUME NEW b \in Conns, NEW d \in up'[b] PROVE Said(b, d)'
    <3>1. d \in up[b] \/ (b = c /\ d = [seq |-> c_seq[c], msg |-> Saying(c)])
      BY <1>0, <2>1 DEF Put
    <3>2. Said(b, d)
      BY <1>1, <2>1, <3>1, SayingIsSaid
    <3>. QED
      BY <2>1, <3>2 DEF Said
  <2>. QED
    BY <2>2, <2>3 DEF SaidInv
<1>5. CASE RCPhase1(c)
  <2>. DEFINE e == IF VotesYes(c) THEN "yes" ELSE "no"
  <2>1. e \in LogEntry /\ e \notin Decisions
    BY DEF LogEntry, Decisions
  <2>2. AnswerTo[e] = IF VotesYes(c) THEN "vote_yes" ELSE "vote_no"
    BY DEF AnswerTo
  <2>. QED
    BY <1>5, <2>1, <2>2, ActKept DEF RCPhase1, Takes
<1>6. CASE RCPhase2(c)
  <2>1. c_read[c] \in Decisions /\ c_read[c] \in LogEntry /\ c_read[c] # "none"
    BY <1>6 DEF RCPhase2, Takes, LogEntry, Decisions
  <2>2. AnswerTo[c_read[c]] = "ack"
    BY <2>1 DEF AnswerTo, Decisions
  <2>. QED
    BY <1>6, <2>1, <2>2, ActKept DEF RCPhase2, Takes
<1>7. CASE RCExit(c)
  BY <1>7, SaidKept DEF RCExit
<1>. QED
  BY <1>2, <1>3, <1>4, <1>5, <1>6, <1>7 DEF RClient

LEMMA SaidStep == RTypeInv /\ SaidInv /\ [RNext]_rvars => SaidInv'
<1>. SUFFICES ASSUME RTypeInv, SaidInv, [RNext]_rvars PROVE SaidInv'
  OBVIOUS
<1>1. CASE RMain \/ RMSignal \/ \E t \in Threads : RWorker(t)
  BY <1>1, ServerFrame, SaidKept
<1>2. CASE RClientStep
  BY <1>2, ClientSaidKept DEF RClientStep
<1>3. CASE UNCHANGED rvars
  BY <1>3, SaidKept DEF rvars, vars, rudpVars, netRVars
<1>. QED
  BY <1>1, <1>2, <1>3 DEF RNext, RTerminated

LEMMA SaidInit == RInit => SaidInv
<1>. SUFFICES ASSUME RInit, NEW c \in Conns
              PROVE  Own(c) /\ \A d \in up[c] : Said(c, d)
  BY DEF SaidInv
<1>1. log[c] = <<>> /\ cpc[c] = "connect" /\ c_seq[c] = 0 /\ c_read[c] = "none"
      /\ ~ c_busy[c] /\ up[c] = {}
  BY DEF RInit, Init, ClientInit
<1>. QED
  BY <1>1 DEF Own

LEMMA SaidInvariant == RSpec => []SaidInv
  BY SaidInit, SaidStep, RTypeInvariant, PTL DEF RSpec

\* The sequence number of a client's datagram tells which of its messages it is,
\* however often it was sent again, and by which of the two loops
\* (q2pc_client.c:185-206).
THEOREM EachSaysOneThing == RSpec => []SaidOnce
<1>1. SaidInv => SaidOnce
  BY DEF SaidInv, SaidOnce, Said
<1>. QED
  BY <1>1, SaidInvariant, PTL

-----------------------------------------------------------------------------
(* Stop and wait: the two ends of every connection stay in step. *)

\* What the rest of the cluster sees of a client's step: the number grows by one
\* at most, and only by a datagram that had it; nothing is added to what it is to
\* read, and only its present number to what it says.
ClientMoves ==
    /\ \A c \in Conns : /\ \/ c_seq'[c] = c_seq[c]
                           \/ /\ c_seq'[c] = c_seq[c] + 1
                              /\ \E d \in down[c] : d.seq = c_seq[c]
                        /\ down'[c] \subseteq down[c]
                        /\ \A d \in up'[c] : d \in up[c] \/ d.seq = c_seq[c]
                        /\ Len(log[c]) <= Len(log'[c])
    /\ UNCHANGED <<serverVars, endRVars, writeRVars, peers>>

LEMMA ClientStepMoves ==
    ASSUME RTypeInv, RClientStep
    PROVE  ClientMoves
<1>0. /\ log \in [Conns -> Seq(LogEntry)] /\ c_seq \in [Conns -> Nat]
      /\ up \in [Conns -> SUBSET Datagram] /\ down \in [Conns -> SUBSET Datagram]
  BY DEF RTypeInv, TypeInv, TypeOK, ClientTypeOK, ClientEndTypeOK, WiresTypeOK, LogEntry
<1>1. PICK b \in Conns : RClient(b)
  BY DEF RClientStep
<1>2. UNCHANGED <<serverVars, endRVars, writeRVars>>
  BY DEF RClientStep
<1>3. UNCHANGED peers
  BY <1>1 DEF RClient, RCConnect, RCRead, RCRto, RCPhase1, RCPhase2, RCExit, netVars
<1>. SUFFICES ASSUME NEW c \in Conns
              PROVE  /\ \/ c_seq'[c] = c_seq[c]
                        \/ /\ c_seq'[c] = c_seq[c] + 1
                           /\ \E d \in down[c] : d.seq = c_seq[c]
                     /\ down'[c] \subseteq down[c]
                     /\ \A d \in up'[c] : d \in up[c] \/ d.seq = c_seq[c]
                     /\ Len(log[c]) <= Len(log'[c])
  BY <1>2, <1>3 DEF ClientMoves
<1>4. log[c] \in Seq(LogEntry) /\ Len(log[c]) \in Nat
  BY <1>0
<1>5. ASSUME NEW m, up' \in {up, Put(up, b, c_seq[b], m)}
      PROVE  \A d \in up'[c] : d \in up[c] \/ d.seq = c_seq[c]
  <2>1. CASE up' = up
    BY <2>1
  <2>2. CASE up' = Put(up, b, c_seq[b], m)
    <3>1. c # b => up'[c] = up[c]
      BY <1>0, <2>2 DEF Put
    <3>2. c = b => up'[c] = up[c] \cup {[seq |-> c_seq[c], msg |-> m]}
      BY <1>0, <2>2 DEF Put
    <3>. QED
      BY <3>1, <3>2
  <2>. QED
    BY <1>5, <2>1, <2>2
<1>6. ASSUME NEW e \in LogEntry, log' = [log EXCEPT ![b] = Append(@, e)]
      PROVE  Len(log[c]) <= Len(log'[c])
  <2>1. log'[c] \in {log[c], Append(log[c], e)}
    BY <1>0, <1>6
  <2>2. Len(Append(log[c], e)) = Len(log[c]) + 1
    BY <1>4
  <2>. QED
    BY <1>4, <2>1, <2>2
<1>7. CASE RCConnect(b) \/ RCRto(b)
  <2>1. UNCHANGED <<log, down, c_seq>>
    BY <1>7 DEF RCConnect, RCRto, clientVars
  <2>2. \E m : up' \in {up, Put(up, b, c_seq[b], m)}
    BY <1>7 DEF RCConnect, RCRto, Say
  <2>. QED
    BY <1>4, <1>5, <2>1, <2>2
<1>8. CASE RCRead(b)
  <2>1. UNCHANGED <<log, down, up>> /\ c_seq' = [c_seq EXCEPT ![b] = @ + 1]
    BY <1>8 DEF RCRead, clientVars, netRVars
  <2>2. \E d \in down[b] : d.seq = c_seq[b]
    BY <1>8 DEF RCRead, Expects
  <2>3. \/ c_seq'[c] = c_seq[c]
        \/ c_seq'[c] = c_seq[c] + 1 /\ \E d \in down[c] : d.seq = c_seq[c]
    BY <1>0, <2>1, <2>2
  <2>. QED
    BY <1>4, <2>1, <2>3
<1>9. CASE RCPhase1(b) \/ RCPhase2(b)
  <2>1. UNCHANGED <<down, c_seq>>
    BY <1>9 DEF RCPhase1, RCPhase2
  <2>2. \E m : up' \in {up, Put(up, b, c_seq[b], m)}
    BY <1>9 DEF RCPhase1, RCPhase2, Say
  <2>3. \E e \in LogEntry : log' = [log EXCEPT ![b] = Append(@, e)]
    <3>1. CASE RCPhase1(b)
      <4>1. (IF VotesYes(b) THEN "yes" ELSE "no") \in LogEntry
        BY DEF LogEntry
      <4>. QED
        BY <3>1, <4>1 DEF RCPhase1
    <3>2. CASE RCPhase2(b)
      BY <3>2 DEF RCPhase2, Takes, LogEntry
    <3>. QED
      BY <1>9, <3>1, <3>2
  <2>. QED
    BY <1>5, <1>6, <2>1, <2>2, <2>3
<1>10. CASE RCExit(b)
  <2>1. UNCHANGED <<log, up, c_seq>> /\ down' = [down EXCEPT ![b] = {}]
    BY <1>10 DEF RCExit, clientVars, clientRVars
  <2>2. down'[c] \subseteq down[c]
    BY <1>0, <2>1
  <2>. QED
    BY <1>4, <2>1, <2>2
<1>. QED
  BY <1>1, <1>7, <1>8, <1>9, <1>10 DEF RClient

\* The four things the server does to a connection.
ReadsOne == \E c \in Conns : \E d \in up[c] :
                /\ Accepts(c, d)
                /\ s_seq' = [s_seq EXCEPT ![c] = d.seq]
                /\ UNCHANGED <<down, s_stamp>>

StampsOne == \E c \in Conns : /\ s_stamp' = [s_stamp EXCEPT ![c] = s_seq[c]]
                              /\ UNCHANGED <<down, s_seq>>

AsksOne == /\ mpc = "write" /\ ~ stop_signal /\ i \in Conns
           /\ down' = Put(down, i, s_stamp[i], Request)
           /\ UNCHANGED <<s_seq, s_stamp>>

LEMMA ServerKinds ==
    ASSUME RTypeInv, RMain \/ RMSignal \/ \E t \in Threads : RWorker(t)
    PROVE  UNCHANGED <<down, s_seq, s_stamp>> \/ ReadsOne \/ StampsOne \/ AsksOne
<1>0. MainTypeOK /\ LocalsOK
  BY DEF RTypeInv, TypeInv, TypeOK
<1>1. CASE RMConnectNone
  BY <1>1 DEF RMConnectNone, rudpVars, netRVars, endRVars, writeRVars
<1>2. CASE RMConnect
  <2>1. i \in Conns
    BY <1>0, <1>2, AtConnection DEF RMConnect, LocalsOK
  <2>2. UNCHANGED <<down, s_stamp>> /\ \E d \in up[i] : RBegRead(i, d)
    BY <1>2 DEF RMConnect, netRVars, writeRVars
  <2>. QED
    BY <2>1, <2>2 DEF ReadsOne, RBegRead
<1>3. CASE RMCollect
  <2>1. i \in Conns
    BY <1>0, <1>3, AtConnection, ClientCountAssumption DEF RMCollect, MainTypeOK
  <2>. QED
    BY <1>3, <2>1 DEF RMCollect, InSend, endRVars, StampsOne
<1>4. CASE RMWrite \/ RMRto
  <2>1. mpc = "write" /\ ~ stop_signal
    BY <1>4 DEF RMWrite, RMRto, Waiting, Sending
  <2>2. i \in Conns
    BY <1>0, <2>1, AtConnection DEF LocalsOK
  <2>. QED
    BY <1>4, <2>1, <2>2 DEF RMWrite, RMRto, InSend, endRVars, AsksOne
<1>5. CASE RMCollected \/ RMSent \/ RMSkip \/ RMSample \/ RMAnswered \/ RMAgain \/ RMEfin
           \/ RMFailed
  BY <1>5
  DEF RMCollected, RMSent, RMSkip, RMSample, RMAnswered, RMAgain, RMEfin, RMFailed, InSend,
      endRVars
<1>6. CASE UNCHANGED <<down, endRVars, s_stamp>>
  BY <1>6 DEF endRVars
<1>7. CASE RMain
  BY <1>1, <1>2, <1>3, <1>4, <1>5, <1>6, <1>7
  DEF RMain, RMSendRequest, RMDies, writeRVars
<1>8. CASE RMSignal
  BY <1>6, <1>8 DEF RMSignal
<1>9. CASE \E t \in Threads : RWorker(t)
  <2>1. PICK t \in Threads : RWorker(t)
    BY <1>9
  <2>2. CASE RWRead(t)
    <3>1. wi[t] \in Conns
      BY <1>0, <2>2, WorkerConns DEF RWRead, LocalsOK, RTypeInv
    <3>. QED
      BY <2>2, <3>1 DEF RWRead, RBegRead, ReadsOne, netRVars, writeRVars
  <2>3. CASE RWVote(t) \/ RWAgain(t) \/ RWEfin(t)
    BY <2>3
    DEF RWVote, RWAgain, RWEfin, rudpVars, netRVars, endRVars, writeRVars
  <2>. QED
    BY <2>1, <2>2, <2>3, <1>6 DEF RWorker, writeRVars
<1>. QED
  BY <1>7, <1>8, <1>9

\* Every connection that has been met has a first datagram, and the server does
\* not go on before it has met them all.
Gone == {"cleanup", "join", "hung", "exited"}

MetInv == /\ \A c \in peers : s_seq[c] >= 0
          /\ mpc = "connect" => connected = Cardinality(peers)
          /\ mpc \notin Gone \cup {"connect"} => peers = Conns

\* What a sender has is never behind what the wire or the receiver has.
StepInv ==
    /\ InStep
    /\ \A c \in Conns : /\ s_stamp[c] <= 0 \/ s_stamp[c] <= s_seq[c]
                        /\ s_seq[c] <= Len(log[c])

LEMMA EndTypes ==
    ASSUME RTypeInv
    PROVE  /\ s_seq \in [Conns -> Int] /\ c_seq \in [Conns -> Nat]
           /\ s_stamp \in [Conns -> Int] /\ s_current \in [Conns -> Int]
           /\ s_out \in [Conns -> BOOLEAN] /\ rtofired \in [Conns -> -1 .. MAX_RTOS]
           /\ up \in [Conns -> SUBSET Datagram] /\ down \in [Conns -> SUBSET Datagram]
           /\ log \in [Conns -> Seq(LogEntry)]
           /\ \A c \in Conns : Len(log[c]) \in Nat
<1>1. log \in [Conns -> Seq(LogEntry)]
  BY DEF RTypeInv, TypeInv, TypeOK, ClientTypeOK, LogEntry
<1>. QED
  BY <1>1 DEF RTypeInv, EndTypeOK, ClientEndTypeOK, WiresTypeOK

LEMMA DatagramTypes ==
    ASSUME RTypeInv, NEW c \in Conns
    PROVE  \A d \in up[c] \cup down[c] : d \in Datagram /\ d.seq \in Int
  BY EndTypes DEF Datagram

LEMMA AllMet ==
    ASSUME NEW S \in SUBSET Conns, Cardinality(S) >= client_count
    PROVE  S = Conns
<1>1. IsFiniteSet(Conns) /\ Cardinality(Conns) = client_count
  BY FS_Interval, ClientCountAssumption DEF Conns
<1>. QED
  BY <1>1, FS_Subset, FS_CardinalityType, ClientCountAssumption

LEMMA StepInit == RInit => StepInv /\ MetInv
<1>. SUFFICES ASSUME RInit PROVE StepInv /\ MetInv
  OBVIOUS
<1>1. StepInv
  <2>1. ASSUME NEW c \in Conns
        PROVE  /\ s_seq[c] = -1 /\ c_seq[c] = 0 /\ s_stamp[c] = 0 /\ Len(log[c]) = 0
               /\ up[c] = {} /\ down[c] = {}
    BY DEF RInit, Init, ClientInit
  <2>. QED
    BY <2>1 DEF StepInv, InStep
<1>2. peers = {} /\ mpc = "connect" /\ connected = 0
  BY DEF RInit, Init, NetInit, ServerInit
<1>. QED
  BY <1>1, <1>2, FS_EmptySet DEF MetInv

\* One connection's part of StepInv, and how it is kept.
StepOf(c) == /\ c_seq[c] \in {s_seq[c], s_seq[c] + 1}
             /\ \A d \in up[c] : d.seq <= c_seq[c]
             /\ \A d \in down[c] : d.seq <= s_seq[c]
             /\ s_stamp[c] <= 0 \/ s_stamp[c] <= s_seq[c]
             /\ s_seq[c] <= Len(log[c])

LEMMA StepInvOf == StepInv <=> \A c \in Conns : StepOf(c)
  BY DEF StepInv, StepOf, InStep

\* What is accepted has been said, and so done.
LEMMA ReadsDone ==
    ASSUME RTypeInv, SaidInv, NEW c \in Conns, NEW d \in up[c]
    PROVE  /\ d.seq <= Len(log[c]) /\ d.seq >= 0
           /\ d.msg = "con" => d.seq = 0
<1>1. d.seq \in Int /\ log[c] \in Seq(LogEntry) /\ Said(c, d)
  BY DatagramTypes, EndTypes DEF SaidInv
<1>2. CASE d.seq = 0
  BY <1>1, <1>2
<1>3. CASE d.seq # 0
  <2>1. d.seq \in 1 .. Len(log[c]) /\ d.msg = AnswerTo[log[c][d.seq]]
    BY <1>1, <1>3 DEF Said
  <2>2. log[c][d.seq] \in LogEntry
    BY <1>1, <2>1
  <2>3. d.msg # "con"
    BY <2>1, <2>2 DEF AnswerTo, LogEntry, Decisions
  <2>. QED
    BY <1>1, <2>1, <2>3
<1>. QED
  BY <1>2, <1>3

LEMMA StepKept == RTypeInv /\ SaidInv /\ MetInv /\ StepInv /\ [RNext]_rvars => StepInv'
<1>. SUFFICES ASSUME RTypeInv, SaidInv, MetInv, StepInv, [RNext]_rvars, NEW c \in Conns
              PROVE  StepOf(c)'
  BY StepInvOf DEF StepOf, StepInv, InStep
<1>0. StepOf(c)
  BY StepInvOf
<1>1. /\ s_seq \in [Conns -> Int] /\ c_seq[c] \in Nat /\ s_stamp \in [Conns -> Int]
      /\ s_seq[c] \in Int /\ s_stamp[c] \in Int /\ Len(log[c]) \in Nat
      /\ \A d \in up[c] \cup down[c] : d.seq \in Int
      /\ down \in [Conns -> SUBSET Datagram]
  BY EndTypes, DatagramTypes
<1>2. CASE UNCHANGED rvars
  BY <1>0, <1>2
  DEF StepOf, rvars, vars, rudpVars, netRVars, endRVars, writeRVars, clientRVars, clientVars
<1>3. CASE RClientStep
  <2>1. ClientMoves
    BY <1>3, ClientStepMoves
  <2>2. /\ s_seq'[c] = s_seq[c] /\ s_stamp'[c] = s_stamp[c]
        /\ \/ c_seq'[c] = c_seq[c]
           \/ c_seq'[c] = c_seq[c] + 1 /\ \E d \in down[c] : d.seq = c_seq[c]
        /\ down'[c] \subseteq down[c]
        /\ \A d \in up'[c] : d \in up[c] \/ d.seq = c_seq[c]
        /\ Len(log[c]) <= Len(log'[c])
    BY <2>1 DEF ClientMoves, endRVars, writeRVars
  <2>3. Len(log'[c]) \in Nat
    <3>1. RTypeInv'
      BY RTypeStep
    <3>2. log' \in [Conns -> Seq(LogEntry)]
      BY <3>1 DEF RTypeInv, TypeInv, TypeOK, ClientTypeOK, LogEntry
    <3>. QED
      BY <3>2
  <2>4. c_seq'[c] \in {s_seq'[c], s_seq'[c] + 1}
    BY <1>0, <1>1, <2>2 DEF StepOf
  <2>5. \A d \in up'[c] : d.seq <= c_seq'[c]
    BY <1>0, <1>1, <2>2 DEF StepOf
  <2>. QED
    BY <1>0, <1>1, <2>2, <2>3, <2>4, <2>5 DEF StepOf
<1>4. CASE RMain \/ RMSignal \/ \E t \in Threads : RWorker(t)
  <2>1. UNCHANGED <<clientVars, clientRVars>> /\ up'[c] \subseteq up[c]
    BY <1>4, ServerFrame
  <2>2. c_seq' = c_seq /\ log' = log
    BY <2>1 DEF clientVars, clientRVars
  <2>3. CASE UNCHANGED <<down, s_seq, s_stamp>>
    BY <1>0, <2>1, <2>2, <2>3 DEF StepOf
  <2>4. CASE ReadsOne
    <3>1. PICK b \in Conns : \E d \in up[b] :
                 /\ Accepts(b, d)
                 /\ s_seq' = [s_seq EXCEPT ![b] = d.seq]
                 /\ UNCHANGED <<down, s_stamp>>
      BY <2>4 DEF ReadsOne
    <3>2. CASE b # c
      <4>1. s_seq'[c] = s_seq[c] /\ UNCHANGED <<down, s_stamp>>
        BY <1>1, <3>1, <3>2
      <4>. QED
        BY <1>0, <2>1, <2>2, <4>1 DEF StepOf
    <3>3. CASE b = c
      <4>1. PICK d \in up[c] : /\ d.seq > s_seq[c] /\ s_seq'[c] = d.seq
                               /\ UNCHANGED <<down, s_stamp>>
        BY <1>1, <3>1, <3>3 DEF Accepts
      <4>2. d.seq \in Int /\ d.seq <= c_seq[c] /\ d.seq <= Len(log[c])
        BY <1>0, <1>1, ReadsDone DEF StepOf
      <4>3. \A e \in down'[c] : e.seq <= s_seq'[c]
        BY <1>0, <1>1, <4>1, <4>2 DEF StepOf
      <4>4. s_seq'[c] = s_seq[c] + 1 /\ c_seq'[c] = s_seq'[c]
        BY <1>0, <1>1, <2>2, <4>1, <4>2 DEF StepOf
      <4>. QED
        BY <1>0, <1>1, <2>1, <2>2, <4>1, <4>2, <4>3, <4>4 DEF StepOf
    <3>. QED
      BY <3>2, <3>3
  <2>5. CASE StampsOne
    <3>1. s_stamp'[c] \in {s_stamp[c], s_seq[c]} /\ UNCHANGED <<down, s_seq>>
      BY <1>1, <2>5 DEF StampsOne
    <3>. QED
      BY <1>0, <1>1, <2>1, <2>2, <3>1 DEF StepOf
  <2>6. CASE AsksOne
    <3>1. /\ mpc = "write" /\ down' = Put(down, i, s_stamp[i], Request)
          /\ UNCHANGED <<s_seq, s_stamp>>
      BY <2>6 DEF AsksOne
    <3>2. s_seq[c] >= 0
      BY <3>1 DEF MetInv, Gone
    <3>3. \A d \in down'[c] : d \in down[c] \/ d.seq = s_stamp[c]
      <4>1. c # i => down'[c] = down[c]
        BY <1>1, <3>1 DEF Put
      <4>2. c = i => down'[c] = down[c] \cup {[seq |-> s_stamp[c], msg |-> Request]}
        BY <1>1, <3>1 DEF Put
      <4>. QED
        BY <4>1, <4>2
    <3>4. \A d \in down'[c] : d.seq <= s_seq'[c]
      BY <1>0, <1>1, <3>1, <3>2, <3>3 DEF StepOf
    <3>. QED
      BY <1>0, <2>1, <2>2, <3>1, <3>4 DEF StepOf
  <2>. QED
    BY <1>4, ServerKinds, <2>3, <2>4, <2>5, <2>6
<1>. QED
  BY <1>2, <1>3, <1>4 DEF RNext, RTerminated

\* Apart from do_connectall the main thread meets nobody, and once it is on its
\* way out it stays there.
LEMMA MainOnward ==
    ASSUME RTypeInv, RMain \/ RMSignal, ~ RMConnectNone, ~ RMConnect
    PROVE  /\ UNCHANGED peers
           /\ mpc' # "connect"
           /\ mpc' \notin Gone => mpc \notin Gone \cup {"connect"}
<1>. USE DEF Gone
<1>1. CASE RMCollect \/ RMCollected \/ RMSent \/ RMSkip \/ RMWrite
  BY <1>1
  DEF RMCollect, RMCollected, RMSent, RMSkip, RMWrite, Sending, InSend, netVars
<1>2. CASE RMSample \/ RMAnswered \/ RMAgain \/ RMRto
  BY <1>2
  DEF RMSample, RMAnswered, RMAgain, RMRto, Waiting, Sending, InSend, netVars
<1>3. CASE RMEfin \/ RMFailed \/ RMDies \/ RMSignal
  BY <1>3
  DEF RMEfin, RMFailed, RMDies, RMSignal, MSignal, MInterrupted, MInterruptedAgain,
      MHangs, Die, InSend, netVars
<1>4. CASE MSpawn \/ MLoop \/ MReset \/ MTimeout \/ MSum \/ MPause
  BY <1>4
  DEF MSpawn, MLoop, MReset, AfterReset, MTimeout, MSum, MPause, netVars
<1>5. CASE MScanEnd \/ MScan \/ MClear \/ MUnpause \/ MReport \/ MCleanup \/ MJoin
  BY <1>5
  DEF MScanEnd, MScan, MClear, MUnpause, MReport, MCleanup, MJoin, netVars
<1>. QED
  BY <1>1, <1>2, <1>3, <1>4, <1>5 DEF RMain, RMSendRequest

\* The workers move neither.
LEMMA WorkerOnward ==
    ASSUME NEW t \in Threads, RWorker(t)
    PROVE  /\ UNCHANGED <<peers, mainVars, down, writeRVars>>
           /\ stop_signal => stop_signal'
<1>1. CASE RWRead(t) \/ RWVote(t) \/ RWAgain(t) \/ RWEfin(t)
  BY <1>1
  DEF RWRead, RWVote, RWAgain, RWEfin, vars, netVars, serverVars, sharedVars, rudpVars,
      netRVars
<1>2. CASE /\ BaseWorker(t)
           /\ UNCHANGED <<down, writeRVars>>
  BY <1>2
  DEF BaseWorker, WStop, WPause, WZero, WLoad, WStore, WStat, WDelete, Advance, Break,
      netVars, sharedVars
<1>. QED
  BY <1>1, <1>2 DEF RWorker, BaseWorker

LEMMA MetKept == RTypeInv /\ SaidInv /\ MetInv /\ [RNext]_rvars => MetInv'
<1>. SUFFICES ASSUME RTypeInv, SaidInv, MetInv, [RNext]_rvars
              PROVE  MetInv'
  OBVIOUS
<1>0. /\ MainTypeOK /\ LocalsOK
      /\ peers \subseteq Conns /\ connected \in Nat /\ s_seq \in [Conns -> Int]
  BY EndTypes DEF RTypeInv, TypeInv, TypeOK, NetTypeOK, MainTypeOK
<1>1. CASE UNCHANGED <<peers, mpc, connected, s_seq>>
  BY <1>1 DEF MetInv
<1>2. CASE RMConnectNone
  <2>1. /\ mpc = "connect" /\ UNCHANGED <<peers, connected, s_seq>>
        /\ mpc' = IF i + 1 = client_count /\ connected >= client_count
                  THEN "spawn" ELSE "connect"
    BY <1>2 DEF RMConnectNone, netVars, rudpVars, endRVars
  <2>2. mpc' = "spawn" => peers = Conns
    BY <1>0, <2>1, AllMet DEF MetInv
  <2>. QED
    BY <2>1, <2>2 DEF MetInv
<1>3. CASE RMConnect
  <2>1. /\ mpc = "connect"
        /\ peers' = peers \cup {i} /\ connected' = connected + 1
        /\ mpc' = IF i + 1 = client_count /\ connected + 1 >= client_count
                  THEN "spawn" ELSE "connect"
    BY <1>3 DEF RMConnect
  <2>2. i \in Conns
    BY <1>0, <2>1, AtConnection DEF LocalsOK
  <2>3. PICK d \in up[i] : RBegRead(i, d) /\ d.msg = "con"
    BY <1>3 DEF RMConnect
  <2>4. d.seq = 0 /\ s_seq[i] < 0 /\ s_seq' = [s_seq EXCEPT ![i] = 0]
    BY <2>2, <2>3, ReadsDone DEF RBegRead, Accepts
  <2>5. i \notin peers
    BY <1>0, <2>2, <2>4 DEF MetInv
  <2>6. IsFiniteSet(peers)
    <3>1. IsFiniteSet(Conns)
      BY FS_Interval, ClientCountAssumption DEF Conns
    <3>. QED
      BY <1>0, <3>1, FS_Subset
  <2>7. Cardinality(peers') = connected'
    BY <2>1, <2>5, <2>6, FS_AddElement DEF MetInv
  <2>8. mpc' = "spawn" => peers' = Conns
    BY <1>0, <2>1, <2>2, <2>7, AllMet
  <2>9. \A c \in peers' : s_seq'[c] >= 0
    BY <1>0, <2>1, <2>2, <2>4 DEF MetInv
  <2>. QED
    BY <2>1, <2>7, <2>8, <2>9 DEF MetInv
<1>4. ASSUME RMain \/ RMSignal \/ \E t \in Threads : RWorker(t), UNCHANGED peers
      PROVE  \A c \in peers : s_seq'[c] >= 0
  <2>1. ASSUME NEW c \in peers PROVE s_seq'[c] >= 0
    <3>1. c \in Conns /\ s_seq[c] \in Int /\ s_seq[c] >= 0
      BY <1>0 DEF MetInv
    <3>2. CASE ReadsOne
      <4>1. PICK b \in Conns : \E d \in up[b] : Accepts(b, d) /\ s_seq' = [s_seq EXCEPT ![b] = d.seq]
        BY <3>2 DEF ReadsOne
      <4>2. CASE b = c
        BY <1>0, <3>1, <4>1, <4>2, DatagramTypes DEF Accepts
      <4>3. CASE b # c
        BY <1>0, <3>1, <4>1, <4>3
      <4>. QED
        BY <4>2, <4>3
    <3>. QED
      BY <1>4, <3>1, <3>2, ServerKinds DEF StampsOne, AsksOne
  <2>. QED
    BY <2>1
<1>5. CASE (RMain \/ RMSignal) /\ ~ RMConnectNone /\ ~ RMConnect
  BY <1>4, <1>5, MainOnward DEF MetInv
<1>6. CASE \E t \in Threads : RWorker(t)
  <2>1. UNCHANGED <<peers, mpc, connected>>
    BY <1>6, WorkerOnward DEF mainVars
  <2>. QED
    BY <1>4, <1>6, <2>1 DEF MetInv
<1>7. CASE RClientStep
  BY <1>1, <1>7, ClientStepMoves DEF ClientMoves, serverVars, mainVars, endRVars
<1>8. CASE UNCHANGED rvars
  BY <1>1, <1>8 DEF rvars, vars, netVars, serverVars, mainVars, rudpVars, endRVars
<1>. QED
  BY <1>2, <1>3, <1>5, <1>6, <1>7, <1>8 DEF RNext, RTerminated

LEMMA StepInvariant == RSpec => [](MetInv /\ StepInv)
  BY StepInit, StepKept, MetKept, RTypeInvariant, SaidInvariant, PTL DEF RSpec

\* The two ends of a connection are never more than one message apart, so the
\* server's reader, which takes over any newer number (q2pc_trans_rudp.c:114),
\* never skips one.
THEOREM EndsInStep == RSpec => []InStep
<1>1. StepInv => InStep
  BY DEF StepInv
<1>. QED
  BY <1>1, StepInvariant, PTL

-----------------------------------------------------------------------------
(* send_request is the barrier of a phase.                                   *)

\* Between two calls of send_request nothing is on its way in either direction
\* that its receiver would accept.
Quiet(c, n) == s_seq[c] = n /\ c_seq[c] = n /\ \A d \in down[c] : d.seq < n

\* During one, the connection is between its question, which has the number n,
\* and the answer; once the main thread takes it for answered, it is.
Asking(c, n) ==
    /\ s_stamp[c] = n
    /\ n <= s_seq[c] /\ c_seq[c] <= n + 1
    /\ \A d \in down[c] : d.seq < n \/ d = [seq |-> n, msg |-> Request]
    /\ rtofired[c] < 0 => s_seq[c] = n + 1 /\ ~ s_out[c]
    /\ s_out[c] => n <= s_current[c] /\ s_current[c] <= s_seq[c]

Idle == \A c \in Conns : ~ s_out[c] /\ rtofired[c] = 0

QuietPc == {"spawn", "loop", "reset", "send", "wait", "pause", "scan", "clear",
            "unpause", "report"}

\* The number of answers the server has had from every client.
Level == IF mpc \in {"spawn", "loop"} THEN 2 * requests
         ELSE IF mpc \in {"reset", "send", "write"} THEN Progress - 1
         ELSE Progress

TurnInv ==
    ~ stop_signal =>
        /\ mpc = "connect" =>
              requests = 0 /\ \A c \in Conns : c_seq[c] = 0 /\ down[c] = {}
        /\ mpc \in QuietPc => \A c \in Conns : Quiet(c, Level)
        /\ mpc = "send" => \A c \in Conns : c < i => s_stamp[c] = Level
        /\ mpc = "write" => \A c \in Conns : Asking(c, Level)
        /\ mpc = "write" /\ epc = "sample" => rtofired[i] >= 0
        /\ mpc = "report" => phase = 2
        /\ mpc \notin {"write"} \cup Gone => Idle

LEMMA LevelType == RTypeInv => Level \in Int
  BY DEF RTypeInv, TypeInv, TypeOK, MainTypeOK, Level, Progress

LEMMA TurnInit == RInit => TurnInv
  BY DEF RInit, Init, ServerInit, TurnInv, QuietPc, Idle

\* What the clients do.
LEMMA ClientTurn ==
    ASSUME RTypeInv, StepInv, TurnInv, ClientMoves
    PROVE  TurnInv'
<1>1. /\ UNCHANGED <<stop_signal, mpc, requests, phase, status, i>>
      /\ UNCHANGED <<s_seq, s_stamp, s_current, s_out, epc, rtofired>>
      /\ Level' = Level /\ Request' = Request
  BY DEF ClientMoves, serverVars, sharedVars, mainVars, endRVars, writeRVars, Level,
         Progress, Request
<1>2. ASSUME NEW c \in Conns
      PROVE  /\ \/ c_seq'[c] = c_seq[c]
                \/ c_seq'[c] = c_seq[c] + 1 /\ \E d \in down[c] : d.seq = c_seq[c]
             /\ down'[c] \subseteq down[c]
  BY DEF ClientMoves
<1>3. ASSUME NEW c \in Conns, NEW n \in Int, Quiet(c, n)
      PROVE  Quiet(c, n)'
  <2>1. c_seq[c] = n /\ \A d \in down[c] : d.seq < n /\ d.seq \in Int
    BY <1>3, DatagramTypes DEF Quiet
  <2>2. ~ \E d \in down[c] : d.seq = c_seq[c]
    BY <2>1
  <2>3. c_seq'[c] = n
    BY <1>2, <2>1, <2>2
  <2>. QED
    BY <1>1, <1>2, <1>3, <2>3 DEF Quiet
<1>4. ASSUME NEW c \in Conns, NEW n \in Int, Asking(c, n)
      PROVE  Asking(c, n)'
  <2>1. \A d \in down[c] : d.seq <= n /\ d.seq \in Int
    BY <1>4, DatagramTypes DEF Asking
  <2>2. c_seq'[c] <= n + 1
    <3>1. c_seq[c] \in Nat /\ c_seq[c] <= n + 1
      BY <1>4, EndTypes DEF Asking
    <3>2. CASE c_seq'[c] = c_seq[c]
      BY <3>1, <3>2
    <3>3. CASE c_seq'[c] = c_seq[c] + 1 /\ \E d \in down[c] : d.seq = c_seq[c]
      BY <2>1, <3>1, <3>3
    <3>. QED
      BY <1>2, <3>2, <3>3
  <2>3. \A d \in down'[c] : d.seq < n \/ d = [seq |-> n, msg |-> Request]
    BY <1>2, <1>4 DEF Asking
  <2>. QED
    BY <1>1, <1>4, <2>2, <2>3 DEF Asking
<1>5. ASSUME NEW c \in Conns, c_seq[c] = 0, down[c] = {}
      PROVE  c_seq'[c] = 0 /\ down'[c] = {}
  BY <1>2, <1>5
<1>6. SUFFICES ASSUME ~ stop_signal PROVE TurnInv'
  BY <1>1 DEF TurnInv
<1>7. mpc \in QuietPc => \A c \in Conns : Quiet(c, Level)'
  <2>1. mpc \in QuietPc => \A c \in Conns : Quiet(c, Level)
    BY <1>6 DEF TurnInv
  <2>2. ASSUME NEW n \in Int, n = Level, mpc \in QuietPc, NEW c \in Conns
        PROVE  Quiet(c, n)'
    BY <1>3, <2>1, <2>2
  <2>. QED
    BY <1>1, <2>2, LevelType DEF Quiet
<1>8. mpc = "write" => \A c \in Conns : Asking(c, Level)'
  <2>1. mpc = "write" => \A c \in Conns : Asking(c, Level)
    BY <1>6 DEF TurnInv
  <2>2. ASSUME NEW n \in Int, n = Level, mpc = "write", NEW c \in Conns
        PROVE  Asking(c, n)'
    BY <1>4, <2>1, <2>2
  <2>. QED
    BY <1>1, <2>2, LevelType DEF Asking
<1>. QED
  BY <1>1, <1>5, <1>6, <1>7, <1>8 DEF TurnInv, Idle

\* What the workers do: they read an answer to the question of this phase, if
\* there is one, and nothing else.
LEMMA WorkerTurn ==
    ASSUME RTypeInv, SaidInv, StepInv, TurnInv, NEW t \in Threads, RWorker(t)
    PROVE  TurnInv'
<1>1. /\ UNCHANGED <<mpc, requests, phase, status, i>>
      /\ UNCHANGED <<s_stamp, s_current, s_out, epc, rtofired, down>>
      /\ c_seq' = c_seq /\ Level' = Level /\ Request' = Request
      /\ stop_signal => stop_signal'
  BY WorkerOnward, ServerFrame
  DEF mainVars, writeRVars, clientRVars, Level, Progress, Request
<1>2. ASSUME NEW c \in Conns
      PROVE  /\ s_seq[c] \in Int /\ s_seq'[c] \in Int
             /\ s_seq'[c] = s_seq[c] \/ (s_seq[c] < s_seq'[c] /\ s_seq'[c] <= c_seq[c])
  <2>1. CASE s_seq'[c] = s_seq[c]
    BY <2>1, EndTypes
  <2>2. CASE ReadsOne
    <3>1. PICK b \in Conns : \E d \in up[b] : Accepts(b, d) /\ s_seq' = [s_seq EXCEPT ![b] = d.seq]
      BY <2>2 DEF ReadsOne
    <3>2. CASE b = c
      <4>1. PICK d \in up[c] : d.seq > s_seq[c] /\ s_seq' = [s_seq EXCEPT ![c] = d.seq]
        BY <3>1, <3>2 DEF Accepts
      <4>2. d.seq \in Int /\ d.seq <= c_seq[c] /\ s_seq'[c] = d.seq
        BY <4>1, EndTypes, DatagramTypes DEF StepInv, InStep
      <4>. QED
        BY <4>1, <4>2, EndTypes
    <3>3. CASE b # c
      BY <2>1, <3>1, <3>3, EndTypes
    <3>. QED
      BY <3>2, <3>3
  <2>. QED
    BY <2>1, <2>2, ServerKinds DEF StampsOne, AsksOne
<1>3. ASSUME NEW c \in Conns, NEW n \in Int, Quiet(c, n)
      PROVE  Quiet(c, n)'
  <2>1. s_seq'[c] = n
    BY <1>2, <1>3 DEF Quiet
  <2>. QED
    BY <1>1, <1>3, <2>1 DEF Quiet
<1>4. ASSUME NEW c \in Conns, NEW n \in Int, Asking(c, n)
      PROVE  Asking(c, n)'
  <2>1. c_seq[c] \in Int /\ s_current[c] \in Int
    BY EndTypes
  <2>2. n <= s_seq'[c] /\ (rtofired[c] < 0 => s_seq'[c] = n + 1)
        /\ (s_out[c] => s_current[c] <= s_seq'[c])
    BY <1>2, <1>4, <2>1 DEF Asking
  <2>. QED
    BY <1>1, <1>4, <2>2 DEF Asking
<1>6. SUFFICES ASSUME ~ stop_signal PROVE TurnInv'
  BY <1>1 DEF TurnInv
<1>7. mpc \in QuietPc => \A c \in Conns : Quiet(c, Level)'
  <2>1. mpc \in QuietPc => \A c \in Conns : Quiet(c, Level)
    BY <1>6 DEF TurnInv
  <2>2. ASSUME NEW n \in Int, n = Level, mpc \in QuietPc, NEW c \in Conns
        PROVE  Quiet(c, n)'
    BY <1>3, <2>1, <2>2
  <2>. QED
    BY <1>1, <2>2, LevelType DEF Quiet
<1>8. mpc = "write" => \A c \in Conns : Asking(c, Level)'
  <2>1. mpc = "write" => \A c \in Conns : Asking(c, Level)
    BY <1>6 DEF TurnInv
  <2>2. ASSUME NEW n \in Int, n = Level, mpc = "write", NEW c \in Conns
        PROVE  Asking(c, n)'
    BY <1>4, <2>1, <2>2
  <2>. QED
    BY <1>1, <2>2, LevelType DEF Asking
<1>. QED
  BY <1>1, <1>6, <1>7, <1>8 DEF TurnInv, Idle

\* When do_connectall has met everyone, every client waits for its first request.
LEMMA ConnectTurn ==
    ASSUME RTypeInv, StepInv', MetInv', TurnInv, RMConnectNone \/ RMConnect
    PROVE  TurnInv'
<1>1. /\ mpc = "connect" /\ mpc' \in {"connect", "spawn"}
      /\ UNCHANGED <<stop_signal, requests, down, s_out, rtofired, c_seq>>
  BY DEF RMConnectNone, RMConnect, sharedVars, rudpVars, netRVars, writeRVars, clientRVars
<1>2. SUFFICES ASSUME ~ stop_signal PROVE TurnInv'
  BY <1>1 DEF TurnInv
<1>3. /\ requests = 0 /\ \A c \in Conns : c_seq[c] = 0 /\ down[c] = {}
      /\ Idle
  BY <1>1, <1>2 DEF TurnInv, Gone
<1>4. ASSUME mpc' = "spawn", NEW c \in Conns PROVE Quiet(c, Level)'
  <2>1. s_seq'[c] >= 0 /\ s_seq'[c] \in Int
    <3>1. s_seq' \in [Conns -> Int]
      BY RConnectTypes DEF RTypeInv, EndTypeOK
    <3>. QED
      BY <1>4, <3>1 DEF MetInv, Gone
  <2>2. c_seq'[c] \in {s_seq'[c], s_seq'[c] + 1} /\ c_seq'[c] = 0
    BY <1>1, <1>3 DEF StepInv, InStep
  <2>3. s_seq'[c] = 0
    BY <2>1, <2>2
  <2>. QED
    BY <1>1, <1>3, <1>4, <2>2, <2>3 DEF Quiet, Level
<1>5. Idle'
  BY <1>1, <1>3 DEF Idle
<1>. QED
  BY <1>1, <1>3, <1>4, <1>5 DEF TurnInv, QuietPc

\* What the main thread does outside of send_request leaves the level as it is:
\* the next phase, or the next round, starts where the last one ended.
LEMMA BaseLevel ==
    ASSUME RTypeInv, BaseMain, ~ stop_signal', mpc = "report" => phase = 2
    PROVE  /\ ~ stop_signal
           /\ \/ mpc' \in Gone
              \/ /\ mpc \in QuietPc /\ mpc' \in QuietPc
                 /\ Level' = Level
                 /\ mpc' = "report" => phase' = 2
                 /\ mpc' = "send" => i' = 0
<1>0. phase \in {1, 2} /\ requests \in Nat
  BY DEF RTypeInv, TypeInv, TypeOK, MainTypeOK
<1>. USE DEF Gone, QuietPc, Level, Progress
<1>1. CASE MSpawn
  BY <1>1 DEF MSpawn, sharedVars
<1>2. CASE MLoop
  BY <1>0, <1>2 DEF MLoop, sharedVars
<1>3. CASE MReset
  <2>1. /\ mpc = "reset" /\ mpc' \in {"reset", "send", "cleanup"}
        /\ UNCHANGED <<requests, phase, stop_signal>>
        /\ mpc' = "send" => i' = 0
    BY <1>3, BaseAssumption DEF MReset, AfterReset
  <2>. QED
    BY <2>1
<1>4. CASE MTimeout \/ MSum \/ MPause \/ MScanEnd \/ MScan \/ MClear
  <2>1. /\ mpc \in {"wait", "pause", "scan", "clear"}
        /\ mpc' \in {"wait", "pause", "scan", "clear", "unpause", "cleanup"}
        /\ UNCHANGED <<requests, phase, stop_signal>>
    BY <1>4 DEF MTimeout, MSum, MPause, MScanEnd, MScan, MClear, sharedVars
  <2>. QED
    BY <2>1
<1>5. CASE MUnpause
  BY <1>0, <1>5 DEF MUnpause
<1>6. CASE MReport
  BY <1>0, <1>6 DEF MReport, sharedVars
<1>7. CASE MCleanup \/ MJoin
  BY <1>7 DEF MCleanup, MJoin, sharedVars
<1>. QED
  BY <1>1, <1>2, <1>3, <1>4, <1>5, <1>6, <1>7 DEF BaseMain

LEMMA BaseTurn ==
    ASSUME RTypeInv, TurnInv, BaseMain,
           UNCHANGED <<down, endRVars, writeRVars, clientRVars>>
    PROVE  TurnInv'
<1>1. SUFFICES ASSUME ~ stop_signal' PROVE TurnInv'
  BY DEF TurnInv
<1>2. ~ stop_signal
  <2>1. CASE MCleanup
    BY <1>1, <2>1 DEF MCleanup
  <2>2. CASE ~ MCleanup
    BY <1>1, <2>2
    DEF BaseMain, MSpawn, MLoop, MReset, MTimeout, MSum, MPause, MScanEnd, MScan, MClear,
        MUnpause, MReport, MJoin, sharedVars
  <2>. QED
    BY <2>1, <2>2
<1>3. mpc = "report" => phase = 2
  BY <1>2 DEF TurnInv
<1>4. \/ mpc' \in Gone
      \/ /\ mpc \in QuietPc /\ mpc' \in QuietPc
         /\ Level' = Level
         /\ mpc' = "report" => phase' = 2
         /\ mpc' = "send" => i' = 0
  BY <1>1, <1>3, BaseLevel
<1>5. CASE mpc' \in Gone
  BY <1>5 DEF TurnInv, Gone, QuietPc
<1>6. CASE /\ mpc \in QuietPc /\ mpc' \in QuietPc
           /\ Level' = Level
           /\ mpc' = "report" => phase' = 2
           /\ mpc' = "send" => i' = 0
  <2>1. (\A c \in Conns : Quiet(c, Level)) /\ Idle
    BY <1>2, <1>6 DEF TurnInv, QuietPc, Gone
  <2>2. ASSUME NEW c \in Conns PROVE Quiet(c, Level)'
    BY <1>6, <2>1 DEF Quiet, endRVars, clientRVars
  <2>3. Idle'
    BY <2>1 DEF Idle, writeRVars
  <2>4. mpc' = "send" => \A c \in Conns : ~ (c < i')
    BY <1>6, ClientCountAssumption DEF Conns
  <2>. QED
    BY <1>6, <2>2, <2>3, <2>4 DEF TurnInv, QuietPc
<1>. QED
  BY <1>4, <1>5, <1>6

\* send_request itself.
LEMMA SendTurn ==
    ASSUME RTypeInv, StepInv, TurnInv, RMSendRequest
    PROVE  TurnInv'
<1>1. SUFFICES ASSUME ~ stop_signal', mpc' \notin Gone PROVE TurnInv'
  BY DEF TurnInv, Gone, QuietPc
<1>2. InSend /\ ~ RMDies
  BY <1>1
  DEF RMSendRequest, RMCollect, RMCollected, RMSent, RMSkip, RMWrite, RMSample, RMAnswered,
      RMAgain, RMRto, RMEfin, RMFailed, RMDies, Die, Gone
<1>3. /\ UNCHANGED <<stop_signal, requests, phase, status, s_seq, c_seq>>
      /\ ~ stop_signal /\ Progress' = Progress /\ Request' = Request
  BY <1>1, <1>2 DEF InSend, sharedVars, endRVars, clientRVars, Progress, Request
<1>4. /\ s_seq \in [Conns -> Int] /\ c_seq \in [Conns -> Nat]
      /\ s_stamp \in [Conns -> Int] /\ s_current \in [Conns -> Int]
      /\ s_out \in [Conns -> BOOLEAN] /\ rtofired \in [Conns -> -1 .. MAX_RTOS]
      /\ down \in [Conns -> SUBSET Datagram]
      /\ MainTypeOK /\ LocalsOK /\ Level \in Int
  BY EndTypes, LevelType DEF RTypeInv, TypeInv, TypeOK
<1>5. PICK n \in Int : n = Level
  BY <1>4
<1>6. CASE RMCollect
  <2>1. /\ mpc = "send" /\ i < client_count /\ i' = i + 1
        /\ s_stamp' = [s_stamp EXCEPT ![i] = s_seq[i]]
        /\ UNCHANGED <<mpc, down, s_out, rtofired>>
    BY <1>6 DEF RMCollect
  <2>2. i \in Conns /\ i \in Nat
    BY <1>4, <2>1, AtConnection DEF MainTypeOK
  <2>3. /\ \A c \in Conns : Quiet(c, n) /\ (c < i => s_stamp[c] = n)
        /\ Idle
    BY <1>3, <1>5, <2>1 DEF TurnInv, QuietPc, Gone
  <2>4. Level' = n
    BY <1>3, <1>5, <2>1 DEF Level
  <2>5. ASSUME NEW c \in Conns, c < i' PROVE s_stamp'[c] = n
    <3>1. c < i \/ c = i
      BY <2>1, <2>2, <2>5 DEF Conns
    <3>. QED
      BY <1>4, <2>1, <2>2, <2>3, <3>1 DEF Quiet
  <2>6. Idle' /\ \A c \in Conns : Quiet(c, n)'
    BY <1>3, <2>1, <2>3 DEF Quiet, Idle
  <2>. QED
    BY <2>1, <2>4, <2>5, <2>6 DEF TurnInv, Quiet
<1>7. CASE RMCollected
  <2>1. /\ mpc = "send" /\ mpc' = "write" /\ i = client_count
        /\ UNCHANGED <<down, s_stamp, s_current, s_out, rtofired>> /\ i' = 0
    BY <1>3, <1>7 DEF RMCollected
  <2>2. /\ \A c \in Conns : Quiet(c, n) /\ (c < i => s_stamp[c] = n)
        /\ Idle
    BY <1>3, <1>5, <2>1 DEF TurnInv, QuietPc, Gone
  <2>3. \A c \in Conns : c < i /\ s_stamp[c] = n
    BY <2>1, <2>2, ClientCountAssumption DEF Conns
  <2>4. ASSUME NEW c \in Conns PROVE Asking(c, n)'
    BY <1>3, <1>4, <2>1, <2>2, <2>3 DEF Asking, Quiet, Idle
  <2>5. Level' = n
    BY <1>3, <1>5, <2>1 DEF Level
  <2>6. rtofired'[i'] >= 0
    BY <2>1, <2>2, ClientCountAssumption DEF Idle, Conns
  <2>. QED
    BY <2>1, <2>4, <2>5, <2>6 DEF TurnInv, QuietPc, Asking
<1>8. ASSUME mpc = "write"
      PROVE  /\ i \in Conns
             /\ \A c \in Conns : Asking(c, n)
             /\ epc = "sample" => rtofired[i] >= 0
  BY <1>3, <1>4, <1>5, <1>8, AtConnection DEF TurnInv, LocalsOK
<1>9. CASE RMSent
  <2>1. /\ mpc = "write" /\ mpc' = "wait"
        /\ \A c \in Conns : rtofired[c] < 0
        /\ rtofired' = [c \in Conns |-> 0]
        /\ UNCHANGED <<down, s_out>>
    BY <1>3, <1>9 DEF RMSent
  <2>2. Level' = n + 1
    BY <1>3, <1>4, <1>5, <2>1 DEF Level, Progress, MainTypeOK
  <2>3. ASSUME NEW c \in Conns PROVE Quiet(c, n + 1)' /\ ~ s_out[c]
    <3>1. Asking(c, n) /\ rtofired[c] < 0
      BY <1>8, <2>1
    <3>2. s_seq[c] = n + 1 /\ c_seq[c] <= n + 1 /\ c_seq[c] \in Nat
          /\ ~ s_out[c]
      BY <1>4, <3>1 DEF Asking
    <3>3. c_seq[c] = n + 1
      BY <3>2 DEF StepInv, InStep
    <3>4. \A d \in down[c] : d.seq < n + 1
      <4>1. \A d \in down[c] : d.seq \in Int /\ (d.seq < n \/ d.seq = n)
        BY <3>1, DatagramTypes DEF Asking
      <4>. QED
        BY <4>1
    <3>. QED
      BY <1>3, <2>1, <3>2, <3>3, <3>4 DEF Quiet
  <2>4. Idle'
    BY <2>1, <2>3 DEF Idle
  <2>. QED
    BY <2>1, <2>2, <2>3, <2>4 DEF TurnInv, QuietPc, Quiet
<1>10. ASSUME mpc = "write", mpc' = "write",
              \A c \in Conns : Asking(c, n)', epc' = "sample" => rtofired'[i'] >= 0
       PROVE  TurnInv'
  <2>1. Level' = n
    BY <1>3, <1>5, <1>10 DEF Level
  <2>. QED
    BY <1>10, <2>1 DEF TurnInv, QuietPc, Asking
<1>11. CASE RMSkip \/ RMAgain
  <2>1. /\ mpc = "write" /\ epc = "loop"
        /\ UNCHANGED <<mpc, down, s_stamp, s_current, s_out, epc, rtofired>>
    BY <1>11 DEF RMSkip, RMAgain, Waiting, Sending
  <2>2. ASSUME NEW c \in Conns PROVE Asking(c, n)'
    BY <1>3, <1>8, <2>1 DEF Asking
  <2>. QED
    BY <1>10, <2>1, <2>2
\* The question may be put on the wire again, with the number and the message of
\* its first copy.
<1>12. ASSUME mpc = "write", down' = Put(down, i, s_stamp[i], Request),
              UNCHANGED <<s_stamp, s_current, s_out>>,
              \A c \in Conns : rtofired'[c] < 0 => rtofired[c] < 0
       PROVE  \A c \in Conns : Asking(c, n)'
  <2>1. i \in Conns /\ s_stamp[i] = n
    BY <1>8, <1>12 DEF Asking
  <2>2. ASSUME NEW c \in Conns
        PROVE  \A d \in down'[c] : d \in down[c] \/ d = [seq |-> n, msg |-> Request]
    BY <1>4, <1>12, <2>1 DEF Put
  <2>3. ASSUME NEW c \in Conns PROVE Asking(c, n)'
    <3>1. \A d \in down'[c] : d.seq < n \/ d = [seq |-> n, msg |-> Request]
      BY <1>8, <1>12, <2>2 DEF Asking
    <3>. QED
      BY <1>3, <1>8, <1>12, <3>1 DEF Asking
  <2>. QED
    BY <2>3
<1>13. CASE RMWrite
  <2>1. /\ mpc = "write" /\ rtofired[i] >= 0
        /\ down' = Put(down, i, s_stamp[i], Request)
        /\ UNCHANGED <<mpc, i, s_stamp, s_current, s_out, rtofired>>
    BY <1>13 DEF RMWrite, Sending
  <2>. QED
    BY <1>10, <1>12, <2>1
<1>14. CASE RMSample
  <2>1. /\ mpc = "write" /\ epc = "sample" /\ epc' = "loop"
        /\ s_current' = [s_current EXCEPT ![i] = s_seq[i]]
        /\ s_out' = [s_out EXCEPT ![i] = TRUE]
        /\ UNCHANGED <<mpc, down, s_stamp, rtofired>>
    BY <1>14 DEF RMSample
  <2>2. i \in Conns /\ rtofired[i] >= 0
    BY <1>8, <2>1
  <2>3. ASSUME NEW c \in Conns PROVE Asking(c, n)'
    <3>1. CASE c = i
      <4>1. s_current'[c] = s_seq[c] /\ rtofired[c] \in Int /\ s_seq[c] \in Int
        BY <1>4, <2>1, <2>2, <3>1
      <4>2. Asking(c, n) /\ ~ (rtofired[c] < 0)
        BY <1>8, <2>1, <2>2, <3>1, <4>1
      <4>. QED
        BY <1>3, <2>1, <4>1, <4>2 DEF Asking
    <3>2. CASE c # i
      <4>1. s_current'[c] = s_current[c] /\ s_out'[c] = s_out[c]
        BY <1>4, <2>1, <3>2
      <4>. QED
        BY <1>3, <1>8, <2>1, <4>1 DEF Asking
    <3>. QED
      BY <3>1, <3>2
  <2>. QED
    BY <1>10, <2>1, <2>3
<1>15. CASE RMAnswered
  <2>1. /\ mpc = "write" /\ epc = "loop"
        /\ s_out[i] /\ s_current[i] # s_seq[i]
        /\ s_out' = [s_out EXCEPT ![i] = FALSE]
        /\ rtofired' = [rtofired EXCEPT ![i] = -1]
        /\ UNCHANGED <<mpc, down, s_stamp, s_current, epc>>
    BY <1>15 DEF RMAnswered, Waiting, Sending
  <2>2. i \in Conns
    BY <1>8, <2>1
  <2>3. ASSUME NEW c \in Conns PROVE Asking(c, n)'
    <3>1. CASE c = i
      <4>1. /\ Asking(c, n) /\ s_out[c] /\ s_current[c] # s_seq[c]
            /\ s_seq[c] \in Int /\ s_current[c] \in Int /\ c_seq[c] \in Int
            /\ c_seq[c] \in {s_seq[c], s_seq[c] + 1}
        BY <1>4, <1>8, <2>1, <3>1 DEF StepInv, InStep
      <4>2. s_seq[c] = n + 1
        BY <4>1 DEF Asking
      <4>3. ~ s_out'[c]
        BY <1>4, <2>1, <3>1
      <4>. QED
        BY <1>3, <2>1, <4>1, <4>2, <4>3 DEF Asking
    <3>2. CASE c # i
      <4>1. rtofired'[c] = rtofired[c] /\ s_out'[c] = s_out[c]
        BY <1>4, <2>1, <3>2
      <4>. QED
        BY <1>3, <1>8, <2>1, <4>1 DEF Asking
    <3>. QED
      BY <3>1, <3>2
  <2>. QED
    BY <1>10, <2>1, <2>3
<1>16. CASE RMRto
  <2>1. /\ mpc = "write" /\ mpc' = "write" /\ epc = "loop" /\ epc' # "sample"
        /\ rtofired[i] >= 0
        /\ down' = Put(down, i, s_stamp[i], Request)
        /\ rtofired' \in {rtofired, [rtofired EXCEPT ![i] = @ + 1]}
        /\ UNCHANGED <<s_stamp, s_current, s_out>>
    BY <1>16 DEF RMRto, Waiting, Sending
  <2>2. ASSUME NEW c \in Conns, rtofired'[c] < 0 PROVE rtofired[c] < 0
    <3>1. CASE c = i
      <4>1. rtofired[c] \in Int /\ rtofired'[c] \in {rtofired[c], rtofired[c] + 1}
        BY <1>4, <2>1, <3>1
      <4>. QED
        BY <2>1, <2>2, <3>1, <4>1
    <3>2. CASE c # i
      BY <1>4, <2>1, <2>2, <3>2
    <3>. QED
      BY <3>1, <3>2
  <2>. QED
    BY <1>10, <1>12, <2>1, <2>2
<1>17. CASE RMEfin \/ RMFailed
  BY <1>1, <1>17 DEF RMEfin, RMFailed, Gone
<1>. QED
  BY <1>2, <1>6, <1>7, <1>9, <1>11, <1>13, <1>14, <1>15, <1>16, <1>17 DEF RMSendRequest

LEMMA TurnStep ==
    /\ RTypeInv /\ SaidInv /\ MetInv /\ StepInv /\ TurnInv
    /\ MetInv' /\ StepInv'
    /\ [RNext]_rvars
    => TurnInv'
<1>. SUFFICES ASSUME RTypeInv, SaidInv, MetInv, StepInv, TurnInv, MetInv', StepInv',
                     [RNext]_rvars
              PROVE  TurnInv'
  OBVIOUS
<1>1. CASE RMConnectNone \/ RMConnect
  BY <1>1, ConnectTurn
<1>2. CASE RMSendRequest
  BY <1>2, SendTurn
<1>3. CASE BaseMain /\ UNCHANGED <<down, endRVars, writeRVars, clientRVars>>
  BY <1>3, BaseTurn
<1>4. CASE RMSignal
  <2>1. mpc' \in Gone
    BY <1>4 DEF RMSignal, MSignal, MInterrupted, MInterruptedAgain, MHangs, Die, Gone
  <2>. QED
    BY <2>1 DEF TurnInv, Gone, QuietPc
<1>5. CASE \E t \in Threads : RWorker(t)
  BY <1>5, WorkerTurn
<1>6. CASE RClientStep
  BY <1>6, ClientTurn, ClientStepMoves
<1>7. CASE UNCHANGED rvars
  BY <1>7
  DEF TurnInv, Idle, Quiet, Asking, Level, Progress, Request, rvars, vars, serverVars,
      sharedVars, mainVars, rudpVars, netRVars, endRVars, writeRVars, clientRVars
<1>8. RMain => \/ RMConnectNone \/ RMConnect \/ RMSendRequest
               \/ BaseMain /\ UNCHANGED <<down, endRVars, writeRVars, clientRVars>>
  BY DEF RMain, BaseMain
<1>. QED
  BY <1>1, <1>2, <1>3, <1>4, <1>5, <1>6, <1>7, <1>8 DEF RNext, RTerminated

LEMMA TurnInvariant == RSpec => [](MetInv /\ StepInv /\ TurnInv)
  BY StepInvariant, TurnInit, TurnStep, RTypeInvariant, SaidInvariant, PTL DEF RSpec

\* send_request is the barrier of a phase (q2pc_server.c:326-371): when it is over
\* and the server is not stopping, every client has acted on the message of this
\* phase, and the server has read its answer.
THEOREM EveryoneAnswered == RSpec => []AnsweredInTurn
<1>1. RTypeInv /\ SaidInv /\ StepInv /\ TurnInv => AnsweredInTurn
  <2>. SUFFICES ASSUME RTypeInv, SaidInv, StepInv, TurnInv,
                       mpc \in {"wait", "pause", "scan"}, ~ stop_signal, NEW c \in Conns
                PROVE  s_seq[c] = Progress /\ Len(log[c]) = Progress
    BY DEF AnsweredInTurn
  <2>1. s_seq[c] = Progress /\ c_seq[c] = Progress
    BY DEF TurnInv, QuietPc, Quiet, Level
  <2>2. Len(log[c]) \in Nat /\ Len(log[c]) <= c_seq[c]
    <3>1. Len(log[c]) \in Nat /\ c_seq[c] \in Nat
      BY EndTypes
    <3>2. c_seq[c] = Len(log[c]) \/ c_seq[c] = Len(log[c]) + 1
      BY DEF SaidInv, Own
    <3>. QED
      BY <3>1, <3>2
  <2>3. s_seq[c] <= Len(log[c]) /\ s_seq[c] \in Int
    BY EndTypes DEF StepInv
  <2>. QED
    BY <2>1, <2>2, <2>3
<1>. QED
  BY <1>1, RTypeInvariant, SaidInvariant, TurnInvariant, PTL

\* Only send_request puts questions on the wire, and while it is at it all of one
\* number are the same.
LEMMA AskedStep ==
    RTypeInv /\ TurnInv /\ AskedOnce /\ [RNext]_rvars => AskedOnce'
<1>. SUFFICES ASSUME RTypeInv, TurnInv, AskedOnce, [RNext]_rvars, NEW c \in Conns,
                     NEW d \in down'[c], NEW e \in down'[c], d.seq = e.seq
              PROVE  d = e
  BY DEF AskedOnce
<1>1. CASE down'[c] \subseteq down[c]
  BY <1>1 DEF AskedOnce
<1>2. CASE AsksOne
  <2>1. /\ mpc = "write" /\ ~ stop_signal /\ i \in Conns
        /\ down' = Put(down, i, s_stamp[i], Request)
    BY <1>2 DEF AsksOne
  <2>2. CASE c # i
    BY <1>1, <2>1, <2>2, EndTypes DEF Put
  <2>3. CASE c = i
    <3>1. Asking(c, Level)
      BY <2>1 DEF TurnInv
    <3>2. PICK n \in Int : n = Level
      BY LevelType
    <3>3. \A b \in down'[c] : b \in down[c] \/ b = [seq |-> n, msg |-> Request]
      BY <2>1, <2>3, <3>1, <3>2, EndTypes DEF Put, Asking
    <3>4. \A b \in down[c] : b.seq \in Int /\ (b.seq < n \/ b = [seq |-> n, msg |-> Request])
      BY <3>1, <3>2, DatagramTypes DEF Asking
    <3>5. \A b \in down[c] : b.seq = n => b = [seq |-> n, msg |-> Request]
      BY <3>4
    <3>. QED
      BY <3>3, <3>5 DEF AskedOnce
  <2>. QED
    BY <2>2, <2>3
<1>3. CASE RMain \/ RMSignal \/ \E t \in Threads : RWorker(t)
  BY <1>1, <1>2, <1>3, ServerKinds DEF ReadsOne, StampsOne
<1>4. CASE RClientStep
  BY <1>1, <1>4, ClientStepMoves DEF ClientMoves
<1>5. CASE UNCHANGED rvars
  BY <1>1, <1>5 DEF rvars, rudpVars, netRVars
<1>. QED
  BY <1>3, <1>4, <1>5 DEF RNext, RTerminated

\* The server's question of a number is one question, however often the main
\* thread puts it on the wire again (q2pc_trans_rudp.c:224-236).
THEOREM EachAsksOneThing == RSpec => []AskedOnce
<1>1. RInit => AskedOnce
  BY DEF RInit, AskedOnce
<1>. QED
  BY <1>1, AskedStep, RTypeInvariant, TurnInvariant, PTL DEF RSpec
=============================================================================
