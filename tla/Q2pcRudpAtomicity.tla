-------------------------- MODULE Q2pcRudpAtomicity --------------------------
(***************************************************************************)
(* Over rdp_ln, with clients that are numbered as the server expects, a    *)
(* cluster of any size implements atomic commitment, however often the     *)
(* network loses, repeats and reorders what is sent, and whatever stops or *)
(* kills its processes in the middle.                                      *)
(*                                                                         *)
(* The sequence numbers do what counting does over TCP (Q2pcAtomicity):    *)
(* they tell which request a message is about.  That every client has      *)
(* answered before a phase goes on to its scan is TurnInv; what is left is *)
(* what the server makes of the answers.                                   *)
(***************************************************************************)
EXTENDS Q2pcRudpProof

\* What the theorem assumes of the cluster.
Numbered ==
    /\ HostId \in [Conns -> 1 .. client_count]
    /\ \A c, d \in Conns : HostId[c] = HostId[d] => c = d

-----------------------------------------------------------------------------
(* The invariant. *)

\* A decision on its way to a client, or read by it, is justified by the votes
\* that its number names.
ToldRight ==
    \A c \in Conns : /\ \A d \in down[c] : Justified(d.msg, d.seq)
                     /\ Justified(c_read[c], Len(log[c]))

\* What a worker has read and not recorded yet, the client did say.
ReadSaid ==
    \A c \in Conns : s_read[c] # "none" =>
        Said(c, [seq |-> s_seq[c], msg |-> s_read[c]])

\* A vote on the scoreboard was cast on the request under way, by the client
\* whose slot it is.
VoteOf(s) ==
    /\ \A c \in Conns : HostId[c] = s + 1 =>
          /\ votes_scoreboard[s] = "vote_yes" => Voted(c, Ballot, "yes")
          /\ votes_scoreboard[s] = "vote_no" => Voted(c, Ballot, "no")
    /\ votes_scoreboard[s] = "vote_no" => SomeNo(Ballot)

VotingPc == {"reset", "send", "write", "wait", "pause", "scan"}

SlotsRight ==
    ~ stop_signal /\ phase = 1 /\ mpc \in VotingPc =>
        \A s \in Slots : (mpc = "reset" => s < i) => VoteOf(s)

\* What the scan of the votes has concluded from the slots it has seen.
Seen(c) == mpc = "scan" => HostId[c] <= i

ScanRight ==
    ~ stop_signal /\ phase = 1 /\ mpc \in {"scan", "clear", "unpause"} =>
        /\ result = "request_success" =>
              \A c \in Conns : Seen(c) => Voted(c, Ballot, "yes")
        /\ result = "request_fail" => SomeNo(Ballot)

\* What do_phase2 does with it.
StatusRight ==
    ~ stop_signal /\ phase = 2 /\ mpc \in {"reset", "send", "write"} =>
        /\ status # "none"
        /\ status = "request_success" => AllYes(Ballot)
        /\ status = "request_fail" => SomeNo(Ballot)
        /\ mpc # "reset" => status # "cluster_fail"

RCommitInv == LogInv /\ ToldRight /\ ReadSaid /\ SlotsRight /\ ScanRight /\ StatusRight

\* What the proofs below know of a state: stop and wait works, and the above.
RState == /\ Numbered
          /\ RTypeInv /\ SaidInv /\ MetInv /\ StepInv /\ TurnInv
          /\ RCommitInv

-----------------------------------------------------------------------------
(* Frames. *)

\* Nobody but a client that votes or acts adds to a log.
LEMMA RLogOnly ==
    ASSUME RState, [RNext]_rvars
    PROVE  UNCHANGED log \/ (RClientStep /\ \E c \in Conns : RCPhase1(c) \/ RCPhase2(c))
<1>1. CASE RMain \/ RMSignal \/ \E t \in Threads : RWorker(t)
  BY <1>1, ServerFrame DEF RState, clientVars
<1>2. CASE RClientStep
  <2>1. PICK c \in Conns : RClient(c)
    BY <1>2 DEF RClientStep
  <2>. QED
    BY <1>2, <2>1 DEF RClient, RCConnect, RCRead, RCRto, RCExit, clientVars
<1>3. CASE UNCHANGED rvars
  BY <1>3 DEF rvars, vars, clientVars
<1>. QED
  BY <1>1, <1>2, <1>3 DEF RNext, RTerminated

LEMMA RLogSteps ==
    ASSUME RState, [RNext]_rvars
    PROVE  UNCHANGED log \/ \E c \in Conns : \E e \in LogEntry : Does(c, e)
<1>1. ASSUME NEW c \in Conns, RCPhase1(c)
      PROVE  \E e \in LogEntry : Does(c, e)
  <2>1. (IF VotesYes(c) THEN "yes" ELSE "no") \in LogEntry
    BY DEF LogEntry
  <2>. QED
    BY <1>1, <2>1 DEF RCPhase1, Does
<1>2. ASSUME NEW c \in Conns, RCPhase2(c)
      PROVE  \E e \in LogEntry : Does(c, e)
  BY <1>2 DEF RCPhase2, Takes, Does, LogEntry
<1>. QED
  BY <1>1, <1>2, RLogOnly

\* So reasons stay.
LEMMA RReasonsStay ==
    ASSUME RState, [RNext]_rvars, NEW n
    PROVE  /\ AllYes(n) => AllYes(n)'
           /\ SomeNo(n) => SomeNo(n)'
           /\ \A d : Justified(d, n) => Justified(d, n)'
           /\ \A c \in Conns : \A v : Voted(c, n, v) => Voted(c, n, v)'
<1>1. TypeInv
  BY DEF RState, RTypeInv
<1>. QED
  BY <1>1, RLogSteps, ReasonsLast, VotesLast

\* What send_request leaves alone, and where it goes.
LEMMA SendFrame ==
    ASSUME RMSendRequest
    PROVE  \/ mpc' = "exited"
           \/ /\ InSend
              /\ mpc \in {"send", "write"} /\ mpc' \in {"send", "write", "wait", "cleanup"}
<1>1. CASE RMCollect \/ RMCollected \/ RMSent \/ RMSkip \/ RMWrite \/ RMSample
  BY <1>1 DEF RMCollect, RMCollected, RMSent, RMSkip, RMWrite, RMSample, Sending
<1>2. CASE RMAnswered \/ RMAgain \/ RMRto \/ RMEfin \/ RMFailed
  BY <1>2 DEF RMAnswered, RMAgain, RMRto, RMEfin, RMFailed, Waiting, Sending
<1>3. CASE RMDies
  BY <1>3 DEF RMDies, Die
<1>. QED
  BY <1>1, <1>2, <1>3 DEF RMSendRequest

\* The steps of the cluster, as far as what follows is concerned.
LEMMA RStepKinds ==
    ASSUME RState, [RNext]_rvars
    PROVE  \/ RMConnectNone \/ RMConnect
           \/ RMSendRequest
           \/ BaseMain /\ UNCHANGED <<clientVars, down, endRVars>>
           \/ RMSignal
           \/ \E t \in Threads : RWorker(t)
           \/ RClientStep
           \/ UNCHANGED rvars
  BY DEF RNext, RMain, BaseMain, RTerminated

\* A worker records what it has read, and does nothing else to the scoreboard.
LEMMA RWorkerSlots ==
    ASSUME NEW t \in Threads, RWorker(t)
    PROVE  /\ RWVote(t) \/ UNCHANGED votes_scoreboard
           /\ RWVote(t) \/ RWRead(t) \/ UNCHANGED endRVars
           /\ UNCHANGED mainVars
           /\ stop_signal => stop_signal'
<1>1. CASE RWRead(t) \/ RWVote(t) \/ RWAgain(t) \/ RWEfin(t)
  BY <1>1
  DEF RWRead, RWVote, RWAgain, RWEfin, vars, serverVars, sharedVars, rudpVars
<1>2. CASE BaseWorker(t) /\ UNCHANGED endRVars
  BY <1>2
  DEF BaseWorker, WStop, WPause, WZero, WLoad, WStore, WStat, WDelete, sharedVars
<1>. QED
  BY <1>1, <1>2, WorkerOnward DEF RWorker, BaseWorker

-----------------------------------------------------------------------------
(* The clients' side: each part of the invariant that speaks of them. *)

\* Clients vote and act in turns.
LEMMA Turns ==
    ASSUME RState, NEW c \in Conns
    PROVE  /\ cpc[c] = "phase1" => Len(log[c]) % 2 = 0
           /\ cpc[c] = "phase2" => Len(log[c]) % 2 = 1
<1>0. /\ TypeInv /\ LogInv /\ Own(c)
  BY DEF RState, RTypeInv, RCommitInv, SaidInv
<1>1. PICK n \in Nat : n = Len(log[c])
  BY <1>0, LogType
<1>2. n % 2 \in {0, 1}
  OBVIOUS
<1>3. CASE n = 0
  BY <1>0, <1>1, <1>3 DEF Own
<1>4. CASE n > 0
  <2>1. log[c] # <<>> /\ n \in 1 .. Len(log[c])
    BY <1>0, <1>1, <1>4, LogType
  <2>2. /\ n % 2 = 0 <=> log[c][n] \in Decisions
        /\ n % 2 = 1 <=> log[c][n] \in {"yes", "no"}
    BY <1>0, <2>1, EvenEntries
  <2>3. /\ cpc[c] = "phase1" => log[c][n] \in Decisions
        /\ cpc[c] = "phase2" => log[c][n] \in {"yes", "no"}
    BY <1>0, <1>1, <2>1 DEF Own
  <2>. QED
    BY <1>1, <2>2, <2>3
<1>5. n = 0 \/ n > 0
  OBVIOUS
<1>. QED
  BY <1>3, <1>4, <1>5

\* They act as the votes allow.
LEMMA RLogKept ==
    ASSUME RState, [RNext]_rvars
    PROVE  LogInv'
<1>0. TypeInv /\ LogInv /\ ToldRight
  BY DEF RState, RTypeInv, RCommitInv
<1>1. CASE UNCHANGED log
  BY <1>0, <1>1 DEF LogInv, Justified, AllYes, SomeNo, Voted
<1>2. ASSUME NEW c \in Conns, RCPhase1(c)
      PROVE  LogInv'
  <2>1. PICK e \in {"yes", "no"} : Does(c, e)
    BY <1>2 DEF RCPhase1, Does
  <2>2. e \in LogEntry /\ Justified(e, Len(log[c]))
    BY DEF LogEntry, Justified
  <2>3. Len(log[c]) % 2 = 0
    BY <1>2, Turns DEF RCPhase1
  <2>. QED
    BY <1>0, <2>1, <2>2, <2>3, LogGrows
<1>3. ASSUME NEW c \in Conns, RCPhase2(c)
      PROVE  LogInv'
  <2>1. c_read[c] \in Decisions /\ Does(c, c_read[c])
    BY <1>3 DEF RCPhase2, Takes, Does
  <2>2. c_read[c] \in LogEntry /\ Justified(c_read[c], Len(log[c]))
    BY <1>0, <2>1 DEF LogEntry, ToldRight
  <2>3. Len(log[c]) % 2 = 1
    BY <1>3, Turns DEF RCPhase2
  <2>. QED
    BY <1>0, <2>1, <2>2, <2>3, LogGrows
<1>. QED
  BY <1>1, <1>2, <1>3, RLogOnly

\* What do_phase2 sends is justified, and its number is that of the votes.
LEMMA AskedRight ==
    ASSUME RState, AsksOne
    PROVE  Justified(Request, s_stamp[i])
<1>1. mpc = "write" /\ ~ stop_signal /\ i \in Conns
  BY DEF AsksOne
<1>2. s_stamp[i] = Level
  BY <1>1 DEF RState, TurnInv, Asking
<1>3. phase \in {1, 2} /\ requests \in Nat /\ status \in Phase1Result \cup {"none"}
  BY DEF RState, RTypeInv, TypeInv, TypeOK, MainTypeOK
<1>4. CASE phase = 1
  BY <1>4 DEF Request, Justified
<1>5. CASE phase = 2
  <2>1. Level = Ballot
    BY <1>1, <1>3, <1>5 DEF Level, Progress, Ballot
  <2>2. /\ status \in {"request_success", "request_fail"}
        /\ status = "request_success" => AllYes(Ballot)
        /\ status = "request_fail" => SomeNo(Ballot)
    BY <1>1, <1>3, <1>5 DEF RState, RCommitInv, StatusRight, Phase1Result
  <2>. QED
    BY <1>2, <1>5, <2>1, <2>2 DEF Request, Justified
<1>. QED
  BY <1>3, <1>4, <1>5

\* Decisions under way stay justified, and new ones are.
LEMMA ToldRightKept ==
    ASSUME RState, [RNext]_rvars
    PROVE  ToldRight'
<1>0. /\ ToldRight
      /\ c_read \in [Conns -> MsgType \cup {"none"}]
      /\ down \in [Conns -> SUBSET Datagram]
      /\ log \in [Conns -> Seq(LogEntry)]
  BY LogType
  DEF RState, RCommitInv, RTypeInv, ClientEndTypeOK, WiresTypeOK
\* A datagram that was there before, or that the server has just sent.
<1>1. ASSUME NEW c \in Conns, NEW d \in down[c]
      PROVE  Justified(d.msg, d.seq)'
  BY <1>0, <1>1, RReasonsStay DEF ToldRight
<1>2. ASSUME NEW c \in Conns, c_read'[c] = c_read[c], Len(log'[c]) = Len(log[c])
      PROVE  Justified(c_read[c], Len(log[c]))'
  <2>1. Justified(c_read[c], Len(log[c]))
    BY <1>0 DEF ToldRight
  <2>. QED
    BY <1>2, <2>1, RReasonsStay DEF Justified
<1>3. CASE RMain \/ RMSignal \/ \E t \in Threads : RWorker(t)
  <2>1. UNCHANGED <<c_read, log>>
    BY <1>3, ServerFrame DEF RState, clientVars, clientRVars
  <2>2. ASSUME NEW c \in Conns, NEW d \in down'[c]
        PROVE  Justified(d.msg, d.seq)'
    <3>1. CASE UNCHANGED down
      BY <1>1, <3>1
    <3>2. CASE AsksOne
      <4>1. i \in Conns /\ down' = Put(down, i, s_stamp[i], Request)
        BY <3>2 DEF AsksOne
      <4>2. d \in down[c] \/ d = [seq |-> s_stamp[i], msg |-> Request]
        BY <1>0, <4>1 DEF Put
      <4>3. \A m, n : Justified(m, n) => Justified(m, n)'
        BY RReasonsStay
      <4>4. d \in down[c] \/ Justified(d.msg, d.seq)
        BY <3>2, <4>2, AskedRight
      <4>5. CASE d \in down[c]
        BY <1>1, <4>5
      <4>6. CASE Justified(d.msg, d.seq)
        BY <4>3, <4>6
      <4>. QED
        BY <4>4, <4>5, <4>6
    <3>. QED
      BY <1>3, <3>1, <3>2, ServerKinds DEF RState, ReadsOne, StampsOne
  <2>. QED
    BY <1>2, <2>1, <2>2 DEF ToldRight
<1>4. ASSUME RClientStep, NEW b \in Conns, RClient(b)
      PROVE  ToldRight'
  <2>1. ASSUME NEW c \in Conns, NEW d \in down'[c]
        PROVE  Justified(d.msg, d.seq)'
    <3>1. down'[c] \subseteq down[c]
      BY <1>4, ClientStepMoves DEF ClientMoves, RState
    <3>. QED
      BY <1>1, <2>1, <3>1
  <2>2. ASSUME NEW c \in Conns
        PROVE  Justified(c_read[c], Len(log[c]))'
    <3>1. CASE RCConnect(b) \/ RCRto(b) \/ RCExit(b)
      <4>1. UNCHANGED <<c_read, log>>
        BY <3>1 DEF RCConnect, RCRto, RCExit, clientVars, clientRVars
      <4>. QED
        BY <1>2, <4>1
    <3>2. CASE RCRead(b)
      <4>1. PICK d \in down[b] : d.seq = c_seq[b] /\ c_read' = [c_read EXCEPT ![b] = d.msg]
        BY <3>2 DEF RCRead, Expects
      <4>2. c_read[b] = "none" /\ UNCHANGED log
        BY <3>2 DEF RCRead, clientVars
      <4>3. c_seq[b] = Len(log[b])
        BY <4>2 DEF RState, SaidInv, Own
      <4>4. CASE c = b
        <5>1. c_read'[c] = d.msg /\ Len(log'[c]) = d.seq
          BY <1>0, <4>1, <4>2, <4>3, <4>4
        <5>2. Justified(d.msg, d.seq)'
          BY <1>1
        <5>. QED
          BY <5>1, <5>2 DEF Justified
      <4>5. CASE c # b
        <5>1. c_read'[c] = c_read[c]
          BY <1>0, <4>1, <4>5
        <5>. QED
          BY <1>2, <4>2, <5>1
      <4>. QED
        BY <4>4, <4>5
    <3>3. CASE RCPhase1(b) \/ RCPhase2(b)
      <4>1. /\ c_read' = [c_read EXCEPT ![b] = "none"]
            /\ \E e : log' = [log EXCEPT ![b] = Append(@, e)]
        BY <3>3 DEF RCPhase1, RCPhase2, Takes
      <4>2. CASE c = b
        <5>1. c_read'[c] = "none"
          BY <1>0, <4>1, <4>2
        <5>. QED
          BY <5>1 DEF Justified
      <4>3. CASE c # b
        <5>1. c_read'[c] = c_read[c] /\ log'[c] = log[c]
          BY <1>0, <4>1, <4>3
        <5>. QED
          BY <1>2, <5>1
      <4>. QED
        BY <4>2, <4>3
    <3>. QED
      BY <1>4, <3>1, <3>2, <3>3 DEF RClient
  <2>. QED
    BY <2>1, <2>2 DEF ToldRight
<1>5. CASE UNCHANGED rvars
  BY <1>1, <1>2, <1>5
  DEF ToldRight, rvars, vars, clientVars, rudpVars, netRVars, clientRVars
<1>. QED
  BY <1>3, <1>4, <1>5 DEF RNext, RTerminated, RClientStep

-----------------------------------------------------------------------------
(* The server's side. *)

\* What a worker has read was said, and stays so.
LEMMA ReadSaidKept ==
    ASSUME RState, [RNext]_rvars
    PROVE  ReadSaid'
<1>0. /\ ReadSaid
      /\ s_read \in [Conns -> MsgType \cup {"none"}]
      /\ s_seq \in [Conns -> Int]
      /\ up \in [Conns -> SUBSET Datagram]
      /\ log \in [Conns -> Seq(LogEntry)]
  BY LogType DEF RState, RCommitInv, RTypeInv, EndTypeOK, WiresTypeOK
<1>1. ASSUME NEW c \in Conns,
             s_read'[c] # "none" => s_read'[c] = s_read[c] /\ s_seq'[c] = s_seq[c],
             UNCHANGED log
      PROVE  s_read'[c] # "none" => Said(c, [seq |-> s_seq[c], msg |-> s_read[c]])'
  BY <1>0, <1>1 DEF ReadSaid, Said
<1>2. CASE UNCHANGED <<endRVars, log>>
  BY <1>1, <1>2 DEF ReadSaid, endRVars
<1>3. CASE RMConnect
  <2>1. UNCHANGED <<s_read, log>>
    BY <1>3 DEF RMConnect, clientVars
  <2>2. s_read[i] = "none" /\ \E n : s_seq' = [s_seq EXCEPT ![i] = n]
    BY <1>3 DEF RMConnect, RBegRead
  <2>3. ASSUME NEW c \in Conns, s_read'[c] # "none"
        PROVE  s_seq'[c] = s_seq[c]
    BY <1>0, <2>1, <2>2, <2>3
  <2>. QED
    BY <1>1, <2>1, <2>3 DEF ReadSaid
<1>4. ASSUME NEW t \in Threads, RWRead(t)
      PROVE  ReadSaid'
  <2>1. PICK d \in up[wi[t]] : /\ s_seq' = [s_seq EXCEPT ![wi[t]] = d.seq]
                               /\ s_read' = [s_read EXCEPT ![wi[t]] = d.msg]
    BY <1>4 DEF RWRead, RBegRead
  <2>2. UNCHANGED log
    BY <1>4 DEF RWRead, vars, clientVars
  <2>3. ASSUME NEW c \in Conns, c = wi[t]
        PROVE  Said(c, [seq |-> s_seq[c], msg |-> s_read[c]])'
    <3>1. s_seq'[c] = d.seq /\ s_read'[c] = d.msg
      BY <1>0, <2>1, <2>3
    <3>2. Said(c, d)
      BY <2>1, <2>3 DEF RState, SaidInv
    <3>. QED
      BY <2>2, <3>1, <3>2 DEF Said
  <2>4. ASSUME NEW c \in Conns, c # wi[t]
        PROVE  s_seq'[c] = s_seq[c] /\ s_read'[c] = s_read[c]
    BY <1>0, <2>1, <2>4
  <2>. QED
    BY <1>1, <2>2, <2>3, <2>4 DEF ReadSaid
<1>5. ASSUME NEW t \in Threads, RWVote(t)
      PROVE  ReadSaid'
  <2>1. /\ s_read' = [s_read EXCEPT ![wi[t]] = "none"]
        /\ UNCHANGED <<s_seq, log>>
    BY <1>5 DEF RWVote, clientVars
  <2>2. ASSUME NEW c \in Conns, s_read'[c] # "none"
        PROVE  s_read'[c] = s_read[c]
    BY <1>0, <2>1, <2>2
  <2>. QED
    BY <1>1, <2>1, <2>2 DEF ReadSaid
<1>6. CASE RClientStep
  <2>1. UNCHANGED <<s_seq, s_read>>
    BY <1>6 DEF RClientStep, endRVars
  <2>2. ASSUME NEW c \in Conns, s_read[c] # "none"
        PROVE  Said(c, [seq |-> s_seq[c], msg |-> s_read[c]])'
    <3>1. PICK d \in Datagram : d = [seq |-> s_seq[c], msg |-> s_read[c]] /\ Said(c, d)
      BY <1>0, <2>2 DEF ReadSaid, Datagram
    <3>2. PICK e \in LogEntry : log'[c] \in {log[c], Append(log[c], e)}
      <4>1. CASE UNCHANGED log
        BY <4>1 DEF LogEntry
      <4>2. CASE \E b \in Conns : \E e \in LogEntry : Does(b, e)
        BY <1>0, <4>2 DEF Does
      <4>. QED
        BY <4>1, <4>2, RLogSteps
    <3>3. Said(c, d)'
      BY <1>0, <3>1, <3>2, SaidStays
    <3>. QED
      BY <2>1, <3>1, <3>3 DEF Said
  <2>. QED
    BY <2>1, <2>2 DEF ReadSaid
<1>7. CASE \/ RMConnectNone \/ RMSendRequest \/ RMSignal
           \/ BaseMain /\ UNCHANGED <<clientVars, endRVars>>
  <2>1. UNCHANGED endRVars
    BY <1>7
    DEF RMConnectNone, RMSendRequest, RMCollect, RMCollected, RMSent, RMSkip, RMWrite,
        RMSample, RMAnswered, RMAgain, RMRto, RMEfin, RMFailed, RMDies, RMSignal, InSend,
        rudpVars
  <2>2. UNCHANGED log
    BY <1>7, ServerFrame DEF RState, RMain, clientVars
  <2>. QED
    BY <1>2, <1>7, <2>1, <2>2
<1>8. CASE \E t \in Threads : RWorker(t)
  BY <1>2, <1>4, <1>5, <1>8, RWorkerSlots, ServerFrame DEF RState, clientVars
<1>9. CASE UNCHANGED rvars
  BY <1>2, <1>9 DEF rvars, vars, clientVars, rudpVars
<1>. QED
  BY <1>3, <1>6, <1>7, <1>8, <1>9, RStepKinds

\* A vote that a worker has read while the votes are being collected was cast on
\* the request under way: a vote has an odd number, and there is only one the
\* connection can have now.
LEMMA ReadIsBallot ==
    ASSUME RState, ~ stop_signal, phase = 1, mpc \in VotingPc, NEW c \in Conns
    PROVE  /\ s_read[c] = "vote_yes" => Voted(c, Ballot, "yes")
           /\ s_read[c] = "vote_no" => Voted(c, Ballot, "no")
<1>. SUFFICES ASSUME s_read[c] \in {"vote_yes", "vote_no"}
              PROVE  /\ s_read[c] = "vote_yes" => Voted(c, Ballot, "yes")
                     /\ s_read[c] = "vote_no" => Voted(c, Ballot, "no")
  OBVIOUS
<1>0. /\ requests \in Nat /\ s_seq[c] \in Int /\ c_seq[c] \in Int
      /\ log[c] \in Seq(LogEntry) /\ TypeInv /\ LogInv
  BY EndTypes DEF RState, RTypeInv, RCommitInv, TypeInv, TypeOK, MainTypeOK
<1>1. s_seq[c] \in {2 * requests, 2 * requests + 1}
  <2>1. CASE mpc \in {"reset", "send"}
    BY <1>0, <2>1 DEF RState, TurnInv, QuietPc, Quiet, Level, Progress
  <2>2. CASE mpc \in {"wait", "pause", "scan"}
    BY <1>0, <2>2 DEF RState, TurnInv, QuietPc, Quiet, Level, Progress
  <2>3. CASE mpc = "write"
    <3>1. Level = 2 * requests
      BY <1>0, <2>3 DEF Level, Progress
    <3>2. 2 * requests <= s_seq[c] /\ c_seq[c] <= 2 * requests + 1
      BY <2>3, <3>1 DEF RState, TurnInv, Asking
    <3>3. c_seq[c] \in {s_seq[c], s_seq[c] + 1}
      BY DEF RState, StepInv, InStep
    <3>. QED
      BY <1>0, <3>2, <3>3
  <2>. QED
    BY <2>1, <2>2, <2>3 DEF VotingPc
<1>2. s_seq[c] \in DOMAIN log[c] /\ s_read[c] = AnswerTo[log[c][s_seq[c]]]
  <2>1. Said(c, [seq |-> s_seq[c], msg |-> s_read[c]])
    BY DEF RState, RCommitInv, ReadSaid
  <2>. QED
    BY <2>1 DEF Said
<1>3. PICK n \in Nat : n = s_seq[c] /\ n \in 1 .. Len(log[c])
  BY <1>0, <1>2
<1>4. log[c][n] \notin Decisions
  BY <1>2, <1>3 DEF AnswerTo, Decisions
<1>5. n % 2 # 0
  BY <1>0, <1>3, <1>4, EvenEntries
<1>6. n = Ballot
  BY <1>0, <1>1, <1>3, <1>5 DEF Ballot
<1>7. log[c][n] \in LogEntry
  BY <1>0, <1>3
<1>. QED
  BY <1>2, <1>3, <1>6, <1>7 DEF Voted, AnswerTo, LogEntry, Decisions

\* A slot that stays, stays right.
LEMMA VoteStays ==
    ASSUME RState, [RNext]_rvars, NEW s \in Slots, VoteOf(s), UNCHANGED requests,
           votes_scoreboard'[s] = votes_scoreboard[s]
    PROVE  VoteOf(s)'
<1>1. Ballot' = Ballot
  BY DEF Ballot
<1>2. ASSUME votes_scoreboard[s] = "vote_yes", NEW c \in Conns, HostId[c] = s + 1
      PROVE  Voted(c, Ballot, "yes")'
  <2>1. Voted(c, Ballot, "yes")
    BY <1>2 DEF VoteOf
  <2>. QED
    BY <1>1, <2>1, RReasonsStay
<1>3. ASSUME votes_scoreboard[s] = "vote_no", NEW c \in Conns, HostId[c] = s + 1
      PROVE  Voted(c, Ballot, "no")'
  <2>1. Voted(c, Ballot, "no")
    BY <1>3 DEF VoteOf
  <2>. QED
    BY <1>1, <2>1, RReasonsStay
<1>4. ASSUME votes_scoreboard[s] = "vote_no"
      PROVE  SomeNo(Ballot)'
  <2>1. SomeNo(Ballot)
    BY <1>4 DEF VoteOf
  <2>. QED
    BY <1>1, <2>1, RReasonsStay
<1>. QED
  BY <1>2, <1>3, <1>4 DEF VoteOf

\* Where do_phase1 can have come from.
LEMMA BaseVoting ==
    ASSUME BaseMain, phase' = 1, mpc' \in VotingPc
    PROVE  \/ MReset \/ MLoop
           \/ /\ UNCHANGED <<votes_scoreboard, phase, requests, stop_signal>>
              /\ mpc \in VotingPc \ {"reset"} /\ mpc' # "reset"
<1>. USE DEF VotingPc
<1>1. CASE MSpawn \/ MTimeout \/ MSum \/ MPause \/ MScanEnd \/ MScan
  BY <1>1 DEF MSpawn, MTimeout, MSum, MPause, MScanEnd, MScan, sharedVars
<1>2. CASE MClear \/ MUnpause \/ MReport \/ MCleanup \/ MJoin
  BY <1>2 DEF MClear, MUnpause, MReport, MCleanup, MJoin, sharedVars
<1>. QED
  BY <1>1, <1>2 DEF BaseMain

\* Slots that do_phase1 has cleared hold votes on the request of the round.
LEMMA SlotsRightKept ==
    ASSUME RState, [RNext]_rvars
    PROVE  SlotsRight'
<1>0. /\ SlotsRight /\ MainTypeOK /\ LocalsOK
      /\ votes_scoreboard \in [Slots -> Slot] /\ stop_signal \in BOOLEAN
  BY DEF RState, RCommitInv, RTypeInv, TypeInv, TypeOK, SharedTypeOK
<1>. SUFFICES ASSUME ~ stop_signal', phase' = 1, mpc' \in VotingPc, NEW s \in Slots,
                     mpc' = "reset" => s < i'
              PROVE  VoteOf(s)'
  BY DEF SlotsRight
<1>1. ASSUME ~ stop_signal, phase = 1, mpc \in VotingPc, mpc = "reset" => s < i,
             UNCHANGED requests, votes_scoreboard'[s] = votes_scoreboard[s]
      PROVE  VoteOf(s)'
  <2>1. VoteOf(s)
    BY <1>0, <1>1 DEF SlotsRight
  <2>. QED
    BY <1>1, <2>1, VoteStays
<1>2. CASE RMConnectNone \/ RMConnect \/ RMSignal
  <2>1. mpc' \notin VotingPc
    BY <1>2
    DEF RMConnectNone, RMConnect, RMSignal, MSignal, MInterrupted, MInterruptedAgain,
        MHangs, Die, VotingPc
  <2>. QED
    BY <2>1
<1>3. CASE RMSendRequest
  <2>1. InSend /\ mpc \in {"send", "write"}
    BY <1>3, SendFrame DEF VotingPc
  <2>. QED
    BY <1>1, <2>1 DEF InSend, sharedVars, VotingPc
<1>4. CASE MLoop
  <2>1. mpc' = "reset" /\ i' = 0
    BY <1>4 DEF MLoop, VotingPc
  <2>. QED
    BY <2>1 DEF Slots
<1>5. CASE MReset
  <2>1. /\ mpc = "reset" /\ UNCHANGED <<stop_signal, phase, requests>>
        /\ votes_scoreboard' = [votes_scoreboard EXCEPT ![i] = "lost"]
        /\ i + 1 < client_count => mpc' = "reset" /\ i' = i + 1
    BY <1>5 DEF MReset
  <2>2. s \in Int /\ s < client_count /\ i \in Int /\ client_count \in Int
    BY <1>0, ClientCountAssumption DEF Slots, MainTypeOK
  <2>3. i + 1 < client_count => s < i + 1
    BY <2>1
  <2>4. s < i \/ s = i
    BY <2>2, <2>3
  <2>5. CASE s = i
    BY <1>0, <2>1, <2>5 DEF VoteOf
  <2>6. CASE s < i
    <3>1. votes_scoreboard'[s] = votes_scoreboard[s]
      BY <1>0, <2>1, <2>2, <2>6
    <3>. QED
      BY <1>1, <2>1, <2>6, <3>1 DEF VotingPc
  <2>. QED
    BY <2>4, <2>5, <2>6
<1>6. CASE /\ UNCHANGED <<votes_scoreboard, phase, requests, stop_signal>>
           /\ mpc \in VotingPc \ {"reset"} /\ mpc' # "reset"
  BY <1>1, <1>6
<1>7. ASSUME NEW t \in Threads, RWorker(t)
      PROVE  VoteOf(s)'
  <2>1. /\ UNCHANGED <<phase, mpc, i, requests>>
        /\ ~ stop_signal
        /\ RWVote(t) \/ UNCHANGED votes_scoreboard
    BY <1>7, RWorkerSlots DEF mainVars
  <2>2. CASE votes_scoreboard'[s] = votes_scoreboard[s]
    BY <1>1, <2>1, <2>2
  <2>3. CASE RWVote(t) /\ votes_scoreboard'[s] # votes_scoreboard[s]
    <3>1. PICK c \in Conns : c = wi[t]
      BY <1>0, <2>3, WorkerConns DEF RWVote, LocalsOK, RState, RTypeInv
    <3>2. HostId[c] \in Int
      BY HostIdType
    <3>3. s = HostId[c] - 1 /\ votes_scoreboard'[s] = s_read[c]
      BY <1>0, <2>3, <3>1 DEF RWVote
    <3>4. HostId[c] = s + 1 /\ \A d \in Conns : HostId[d] = s + 1 => d = c
      BY <3>2, <3>3 DEF RState, Numbered
    <3>5. /\ s_read[c] = "vote_yes" => Voted(c, Ballot, "yes")
          /\ s_read[c] = "vote_no" => Voted(c, Ballot, "no")
      BY <2>1, ReadIsBallot
    <3>6. UNCHANGED log /\ Ballot' = Ballot
      BY <1>7, <2>1, ServerFrame DEF RState, clientVars, Ballot
    <3>7. /\ s_read[c] = "vote_yes" => Voted(c, Ballot, "yes")'
          /\ s_read[c] = "vote_no" => Voted(c, Ballot, "no")'
      BY <3>5, <3>6 DEF Voted
    <3>. QED
      BY <3>3, <3>4, <3>7 DEF VoteOf, SomeNo
  <2>. QED
    BY <2>1, <2>2, <2>3
<1>8. CASE UNCHANGED serverVars
  BY <1>1, <1>8 DEF serverVars, sharedVars, mainVars
<1>. QED
  BY <1>2, <1>3, <1>4, <1>5, <1>6, <1>7, <1>8, RStepKinds, BaseVoting
  DEF RClientStep, rvars, vars

\* The scan concludes what the votes were.
LEMMA ScanRightKept ==
    ASSUME RState, [RNext]_rvars
    PROVE  ScanRight'
<1>0. /\ ScanRight /\ SlotsRight /\ MainTypeOK
      /\ HostId \in [Conns -> Int] /\ \A c \in Conns : 1 <= HostId[c] /\ HostId[c] <= client_count
  BY HostIdType DEF RState, RCommitInv, RTypeInv, TypeInv, TypeOK, Numbered
<1>. SUFFICES ASSUME ~ stop_signal', phase' = 1, mpc' \in {"scan", "clear", "unpause"}
              PROVE  /\ result' = "request_success" =>
                           \A c \in Conns : Seen(c)' => Voted(c, Ballot, "yes")'
                     /\ result' = "request_fail" => SomeNo(Ballot)'
  BY DEF ScanRight
\* Nothing is concluded that was not concluded before.
<1>1. ASSUME ~ stop_signal, phase = 1, mpc \in {"scan", "clear", "unpause"},
             UNCHANGED <<requests, result>>, \A c \in Conns : Seen(c)' => Seen(c)
      PROVE  /\ result' = "request_success" =>
                   \A c \in Conns : Seen(c)' => Voted(c, Ballot, "yes")'
             /\ result' = "request_fail" => SomeNo(Ballot)'
  <2>1. Ballot' = Ballot
    BY <1>1 DEF Ballot
  <2>2. ASSUME result = "request_success", NEW c \in Conns, Seen(c)'
        PROVE  Voted(c, Ballot, "yes")'
    <3>1. Voted(c, Ballot, "yes")
      BY <1>0, <1>1, <2>2 DEF ScanRight
    <3>. QED
      BY <2>1, <3>1, RReasonsStay
  <2>3. ASSUME result = "request_fail"
        PROVE  SomeNo(Ballot)'
    <3>1. SomeNo(Ballot)
      BY <1>0, <1>1, <2>3 DEF ScanRight
    <3>. QED
      BY <2>1, <3>1, RReasonsStay
  <2>. QED
    BY <1>1, <2>2, <2>3
<1>2. CASE MPause
  <2>1. mpc' = "scan" /\ i' = 0 /\ result' = "request_success"
    BY <1>2 DEF MPause
  <2>. QED
    BY <1>0, <2>1 DEF Seen
<1>3. CASE MScanEnd
  <2>1. /\ mpc = "scan" /\ mpc' = "clear" /\ ~ stop_signal /\ i = client_count
        /\ UNCHANGED <<phase, requests, result>>
    BY <1>3 DEF MScanEnd, sharedVars
  <2>2. \A c \in Conns : Seen(c)
    BY <1>0, <2>1 DEF Seen
  <2>. QED
    BY <1>1, <2>1, <2>2
<1>4. CASE MScan
  <2>1. /\ mpc = "scan" /\ mpc' = "scan" /\ ~ stop_signal /\ phase = 1
        /\ ~ ProtocolViolation(votes_scoreboard[i])
        /\ result' = Scanned(votes_scoreboard[i]) /\ i' = i + 1
        /\ UNCHANGED <<phase, requests>>
        /\ i \in Slots
    BY <1>0, <1>4, ClientCountAssumption DEF MScan, sharedVars, MainTypeOK, Slots
  <2>2. VoteOf(i)
    BY <1>0, <2>1 DEF SlotsRight, VotingPc
  <2>3. Ballot' = Ballot
    BY <2>1 DEF Ballot
  <2>4. ASSUME result' = "request_success", NEW c \in Conns, Seen(c)'
        PROVE  Voted(c, Ballot, "yes")'
    <3>1. result = "request_success" /\ votes_scoreboard[i] = "vote_yes"
      BY <2>1, <2>4 DEF Scanned, ProtocolViolation
    <3>2. HostId[c] <= i \/ HostId[c] = i + 1
      BY <1>0, <2>1, <2>4 DEF Seen, Slots
    <3>3. Voted(c, Ballot, "yes")
      BY <1>0, <2>1, <2>2, <3>1, <3>2 DEF ScanRight, Seen, VoteOf
    <3>. QED
      BY <2>3, <3>3, RReasonsStay
  <2>5. ASSUME result' = "request_fail"
        PROVE  SomeNo(Ballot)'
    <3>1. result = "request_fail" \/ votes_scoreboard[i] = "vote_no"
      BY <2>1, <2>5 DEF Scanned
    <3>2. SomeNo(Ballot)
      BY <1>0, <2>1, <2>2, <3>1 DEF ScanRight, VoteOf
    <3>. QED
      BY <2>3, <3>2, RReasonsStay
  <2>. QED
    BY <2>4, <2>5
<1>5. CASE MClear
  <2>1. /\ UNCHANGED <<stop_signal, phase, requests, result>>
        /\ mpc = "clear" /\ mpc' \in {"clear", "unpause"}
    BY <1>5 DEF MClear
  <2>2. \A c \in Conns : Seen(c)
    BY <2>1 DEF Seen
  <2>. QED
    BY <1>1, <2>1, <2>2
<1>6. CASE MSpawn \/ MLoop \/ MReset \/ MTimeout \/ MSum \/ MUnpause \/ MReport
           \/ MCleanup \/ MJoin
  BY <1>6
  DEF MSpawn, MLoop, MReset, AfterReset, MTimeout, MSum, MUnpause, MReport, MCleanup, MJoin
<1>7. CASE RMConnectNone \/ RMConnect \/ RMSignal \/ RMSendRequest
  BY <1>7, SendFrame
  DEF RMConnectNone, RMConnect, RMSignal, MSignal, MInterrupted, MInterruptedAgain,
      MHangs, Die
<1>8. ASSUME UNCHANGED mainVars, ~ stop_signal
      PROVE  /\ result' = "request_success" =>
                   \A c \in Conns : Seen(c)' => Voted(c, Ballot, "yes")'
             /\ result' = "request_fail" => SomeNo(Ballot)'
  BY <1>1, <1>8 DEF mainVars, Seen
<1>9. CASE \E t \in Threads : RWorker(t)
  BY <1>8, <1>9, RWorkerSlots
<1>10. CASE UNCHANGED serverVars
  BY <1>8, <1>10 DEF serverVars, sharedVars
<1>. QED
  BY <1>2, <1>3, <1>4, <1>5, <1>6, <1>7, <1>9, <1>10, RStepKinds
  DEF BaseMain, RClientStep, rvars, vars
\* do_phase2 carries out what do_phase1 has concluded.
LEMMA StatusRightKept ==
    ASSUME RState, [RNext]_rvars
    PROVE  StatusRight'
<1>0. /\ StatusRight /\ ScanRight
      /\ status \in Phase1Result \cup {"none"} /\ phase \in {1, 2}
  BY DEF RState, RCommitInv, RTypeInv, TypeInv, TypeOK, MainTypeOK
<1>. SUFFICES ASSUME ~ stop_signal', phase' = 2, mpc' \in {"reset", "send", "write"}
              PROVE  /\ status' # "none"
                     /\ status' = "request_success" => AllYes(Ballot)'
                     /\ status' = "request_fail" => SomeNo(Ballot)'
                     /\ mpc' # "reset" => status' # "cluster_fail"
  BY DEF StatusRight
\* As long as the main thread stays in do_phase2, the reasons stay.
<1>1. ASSUME ~ stop_signal, UNCHANGED <<phase, requests, status>>,
             mpc \in {"reset", "send", "write"},
             mpc' # "reset" => mpc # "reset" \/ status # "cluster_fail"
      PROVE  /\ status' # "none"
             /\ status' = "request_success" => AllYes(Ballot)'
             /\ status' = "request_fail" => SomeNo(Ballot)'
             /\ mpc' # "reset" => status' # "cluster_fail"
  <2>1. Ballot' = Ballot
    BY <1>1 DEF Ballot
  <2>2. /\ AllYes(Ballot) => AllYes(Ballot)'
        /\ SomeNo(Ballot) => SomeNo(Ballot)'
    BY <2>1, RReasonsStay
  <2>. QED
    BY <1>0, <1>1, <2>2 DEF StatusRight
<1>2. CASE MReset
  <2>1. /\ mpc = "reset" /\ UNCHANGED <<stop_signal, phase, requests, status>>
        /\ mpc' = "reset" \/ mpc' = AfterReset
    BY <1>2 DEF MReset
  <2>2. mpc' # "reset" => status # "cluster_fail"
    BY <2>1 DEF AfterReset
  <2>. QED
    BY <1>1, <2>1, <2>2
<1>3. CASE RMSendRequest
  <2>1. InSend /\ mpc \in {"send", "write"}
    BY <1>3, SendFrame
  <2>. QED
    BY <1>1, <2>1 DEF InSend, sharedVars
<1>4. CASE MUnpause
  <2>1. /\ mpc = "unpause" /\ mpc' = "reset" /\ ~ stop_signal /\ phase = 1
        /\ status' = result /\ UNCHANGED requests /\ result \in Phase1Result
    BY <1>0, <1>4 DEF MUnpause, RState, RTypeInv, TypeInv, LocalsOK
  <2>2. /\ result = "request_success" => AllYes(Ballot)
        /\ result = "request_fail" => SomeNo(Ballot)
    BY <1>0, <2>1 DEF ScanRight, Seen, AllYes
  <2>3. Ballot' = Ballot
    BY <2>1 DEF Ballot
  <2>. QED
    BY <2>1, <2>2, <2>3, RReasonsStay DEF Phase1Result
<1>5. CASE MSpawn \/ MLoop \/ MTimeout \/ MSum \/ MPause \/ MScanEnd \/ MScan
  BY <1>5 DEF MSpawn, MLoop, MTimeout, MSum, MPause, MScanEnd, MScan
<1>6. CASE MClear \/ MReport \/ MCleanup \/ MJoin
  BY <1>6 DEF MClear, MReport, MCleanup, MJoin
<1>7. CASE RMConnectNone \/ RMConnect \/ RMSignal
  BY <1>7
  DEF RMConnectNone, RMConnect, RMSignal, MSignal, MInterrupted, MInterruptedAgain,
      MHangs, Die
<1>8. CASE \E t \in Threads : RWorker(t)
  BY <1>1, <1>8, RWorkerSlots DEF mainVars
<1>9. CASE UNCHANGED serverVars
  BY <1>1, <1>9 DEF serverVars, sharedVars, mainVars
<1>. QED
  BY <1>2, <1>3, <1>4, <1>5, <1>6, <1>7, <1>8, <1>9, RStepKinds
  DEF BaseMain, RClientStep, rvars, vars

-----------------------------------------------------------------------------
(* The invariant holds. *)

LEMMA RCommitInit == RInit => RCommitInv
<1>. SUFFICES ASSUME RInit
              PROVE  RCommitInv
  OBVIOUS
<1>0. /\ mpc = "connect" /\ log = [c \in Conns |-> <<>>]
      /\ down = [c \in Conns |-> {}]
      /\ s_read = [c \in Conns |-> "none"] /\ c_read = [c \in Conns |-> "none"]
  BY DEF RInit, Init, ServerInit, ClientInit
<1>1. LogInv
  BY <1>0 DEF LogInv
<1>2. ToldRight /\ ReadSaid
  BY <1>0 DEF ToldRight, ReadSaid, Justified
<1>3. SlotsRight /\ ScanRight /\ StatusRight
  BY <1>0 DEF SlotsRight, VotingPc, ScanRight, StatusRight
<1>. QED
  BY <1>1, <1>2, <1>3 DEF RCommitInv

LEMMA RCommitStep ==
    ASSUME RState, [RNext]_rvars
    PROVE  RState'
<1>1. RCommitInv'
  BY RLogKept, ToldRightKept, ReadSaidKept, SlotsRightKept, ScanRightKept, StatusRightKept
  DEF RCommitInv
<1>2. RTypeInv' /\ SaidInv' /\ MetInv' /\ StepInv'
  BY RTypeStep, SaidStep, MetKept, StepKept DEF RState
<1>3. TurnInv'
  BY <1>2, TurnStep DEF RState
<1>4. Numbered'
  BY DEF RState, Numbered
<1>. QED
  BY <1>1, <1>2, <1>3, <1>4 DEF RState

LEMMA RCommitInvariant ==
    ASSUME Numbered
    PROVE  RSpec => []RState
<1>1. RInit => RCommitInv
  BY RCommitInit
<1>2. RState /\ [RNext]_rvars => RState'
  BY RCommitStep
<1>3. RInit => RState
  BY <1>1, RTypeInit, SaidInit, StepInit, TurnInit DEF RState
<1>. QED
  BY <1>2, <1>3, PTL DEF RSpec

\* Whatever the clients have acted on over rdp_ln, the votes on that request
\* justify it, and they all did the same: a commit needs every vote, a cancel a
\* no (do_phase1 and do_phase2 of q2pc_server.c), and no datagram that is lost,
\* repeated or late is taken for one of another request.
THEOREM RudpDecisions ==
    ASSUME Numbered
    PROVE  RSpec => [](CommitValidity /\ CancelValidity /\ Agreement)
<1>1. RState => TypeInv /\ LogInv
  BY DEF RState, RTypeInv, RCommitInv
<1>2. RState => CommitValidity /\ CancelValidity
  BY <1>1, EvenEntries
  DEF CommitValidity, CancelValidity, Justified, AllYes, SomeNo, Voted, AC!Did
<1>3. ASSUME RState, NEW c \in Conns, NEW d \in Conns,
             NEW n \in 1 .. Least(Len(log[c]), Len(log[d])), log[c][n] \in Decisions
      PROVE  log[d][n] = log[c][n]
  <2>1. Len(log[c]) \in Nat /\ Len(log[d]) \in Nat
    BY <1>1, <1>3, LogType
  <2>2. n \in Nat /\ n \in 1 .. Len(log[c]) /\ n \in 1 .. Len(log[d])
    BY <2>1 DEF Least
  <2>3. /\ log[d][n] \in Decisions
        /\ Justified(log[c][n], n - 1) /\ Justified(log[d][n], n - 1)
    BY <1>1, <1>3, <2>2, EvenEntries
  <2>4. ~ (AllYes(n - 1) /\ SomeNo(n - 1))
    BY DEF AllYes, SomeNo, Voted
  <2>. QED
    BY <1>3, <2>3, <2>4 DEF Justified, Decisions
<1>4. RState => Agreement
  BY <1>3 DEF Agreement
<1>. QED
  BY <1>2, <1>4, RCommitInvariant, PTL

-----------------------------------------------------------------------------
(* The rounds. *)

\* Between two calls of send_request every client has done as much as the server
\* has had answers from it.
LEMMA QuietLog ==
    ASSUME RState, ~ stop_signal, mpc \in QuietPc, NEW c \in Conns
    PROVE  Len(log[c]) = Level
<1>1. c_seq[c] = Level /\ s_seq[c] = Level
  BY DEF RState, TurnInv, Quiet
<1>2. Len(log[c]) \in Nat /\ c_seq[c] \in Nat /\ s_seq[c] \in Int
  BY EndTypes DEF RState
<1>3. c_seq[c] = Len(log[c]) \/ c_seq[c] = Len(log[c]) + 1
  BY DEF RState, SaidInv, Own
<1>4. s_seq[c] <= Len(log[c])
  BY DEF RState, StepInv
<1>. QED
  BY <1>1, <1>2, <1>3, <1>4

\* When the server goes on to its next request, every client has acted on the
\* decision about the one before, and nobody is ahead or behind (server_run and
\* send_request of q2pc_server.c), although nothing but the sequence numbers
\* tells a late datagram from a new one.
THEOREM RudpRoundsInStep ==
    ASSUME Numbered
    PROVE  RSpec => []EveryoneDecided
<1>1. RState => EveryoneDecided
  BY QuietLog DEF EveryoneDecided, Level, QuietPc
<1>. QED
  BY <1>1, RCommitInvariant, PTL

\* What do_phase1 and do_phase2 find on the scoreboard was said in their phase,
\* by the client whose slot it is: a repeated vote is not counted in the next
\* request, and no vote is taken for an ack (q2pc_server.c:439).
THEOREM RudpSlotsFresh ==
    ASSUME Numbered
    PROVE  RSpec => []FreshSlots
<1>1. ASSUME RState, mpc = "scan", ~ stop_signal, NEW c \in Conns, InRange(HostId[c]),
             votes_scoreboard[HostId[c] - 1] \in
                 (IF phase = 1 THEN {"vote_yes", "vote_no"} ELSE {"ack"})
      PROVE  /\ Len(log[c]) = Progress
             /\ log[c][Progress] \in Answered[votes_scoreboard[HostId[c] - 1]]
  <2>0. /\ TypeInv /\ LogInv /\ SlotsRight /\ requests \in Nat /\ phase \in {1, 2}
    BY <1>1 DEF RState, RTypeInv, RCommitInv, TypeInv, TypeOK, MainTypeOK
  <2>1. Len(log[c]) = Progress
    BY <1>1, QuietLog DEF Level, QuietPc
  <2>2. CASE phase = 1
    <3>1. PICK s \in Slots : s = HostId[c] - 1
      BY <1>1, HostIdType, ClientCountAssumption DEF Slots, InRange
    <3>2. VoteOf(s) /\ HostId[c] = s + 1
      BY <1>1, <2>0, <2>2, <3>1, HostIdType DEF SlotsRight, VotingPc
    <3>3. Progress = Ballot
      BY <2>0, <2>2 DEF Progress, Ballot
    <3>4. CASE votes_scoreboard[s] = "vote_yes"
      <4>1. Voted(c, Ballot, "yes")
        BY <3>2, <3>4 DEF VoteOf
      <4>. QED
        BY <2>1, <3>1, <3>3, <3>4, <4>1 DEF Voted, Answered
    <3>5. CASE votes_scoreboard[s] = "vote_no"
      <4>1. Voted(c, Ballot, "no")
        BY <3>2, <3>5 DEF VoteOf
      <4>. QED
        BY <2>1, <3>1, <3>3, <3>5, <4>1 DEF Voted, Answered
    <3>. QED
      BY <1>1, <2>2, <3>1, <3>4, <3>5
  <2>3. CASE phase = 2
    <3>1. PICK n \in Nat : n = Progress /\ n = 2 * requests + 2
      BY <2>0, <2>3 DEF Progress
    <3>2. n \in 1 .. Len(log[c]) /\ n % 2 = 0
      BY <2>0, <2>1, <3>1
    <3>3. log[c][n] \in Decisions
      BY <2>0, <3>2, EvenEntries
    <3>. QED
      BY <1>1, <2>1, <2>3, <3>1, <3>3 DEF Answered
  <2>. QED
    BY <2>0, <2>2, <2>3
<1>2. RState => FreshSlots
  BY <1>1 DEF FreshSlots
<1>. QED
  BY <1>2, RCommitInvariant, PTL

-----------------------------------------------------------------------------
(* Refinement. *)

LEMMA RRefinementStep ==
    ASSUME RState, [RNext]_rvars
    PROVE  [AC!Next]_log
<1>0. TypeInv /\ LogInv /\ ToldRight
  BY DEF RState, RTypeInv, RCommitInv
<1>1. ASSUME NEW c \in Conns, RCPhase1(c)
      PROVE  \E v \in AC!Votes : AC!Vote(c, v)
  BY <1>1, Turns DEF RCPhase1, AC!Vote, AC!Votes
<1>2. ASSUME NEW c \in Conns, RCPhase2(c)
      PROVE  \E d \in AC!Decisions : AC!Decide(c, d)
  <2>1. c_read[c] \in Decisions /\ Does(c, c_read[c])
    BY <1>2 DEF RCPhase2, Takes, Does
  <2>2. Justified(c_read[c], Len(log[c])) /\ Len(log[c]) % 2 = 1
    BY <1>0, <1>2, Turns DEF ToldRight, RCPhase2
  <2>. QED
    BY <1>0, <2>1, <2>2, Decides DEF Decisions, AC!Decisions
<1>. QED
  BY <1>1, <1>2, RLogOnly DEF AC!Next

\* A q2pc cluster over rdp_ln implements atomic commitment: however many clients
\* and workers it has, however its threads interleave, whatever the network loses,
\* repeats or reorders, and whatever stops or kills its processes (server_run of
\* q2pc_server.c, conn_beg_read and conn_end_write of q2pc_trans_rudp.c).
THEOREM RudpRefinement ==
    ASSUME Numbered
    PROVE  RSpec => Atomicity
<1>1. RInit => AC!Init
  BY DEF RInit, Init, ClientInit, AC!Init
<1>2. RState /\ [RNext]_rvars => [AC!Next]_log
  BY RRefinementStep
<1>. QED
  BY <1>1, <1>2, RCommitInvariant, PTL DEF RSpec, Atomicity, AC!Spec
=============================================================================
