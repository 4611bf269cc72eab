------------------------------ MODULE Q2pcRudp ------------------------------
(***************************************************************************)
(* The cluster over rdp_ln, the reliable datagrams of q2pc_trans_rudp.c:   *)
(* every message carries the sequence number of its sender, an answer is   *)
(* also the acknowledgement, and whoever waits for one sends again.  The   *)
(* layer keeps its state in the connection, where the server's main thread *)
(* (which writes) and a worker (which reads) share it without a lock.      *)
(*                                                                         *)
(* What does not touch a connection is taken from Q2pcServer as it is.     *)
(* The base transport is UDP; its queues stay empty here.  In their place  *)
(* up and down hold every datagram ever sent: each may arrive any number   *)
(* of times, in any order, or never.                                       *)
(***************************************************************************)
EXTENDS Q2pc

CONSTANTS MAX_RTOS,       \* retransmissions before the server gives up
          RTOS_MAX        \* and before a client does (200000 both)

ASSUME RtosAssumption == MAX_RTOS \in Nat /\ RTOS_MAX \in Nat \ {0}
ASSUME BaseAssumption == Transport = "udp_ln"

VARIABLES
    up, down,             \* datagrams sent to the server, and to the client
    \* the server's end of each connection (q2pc_rudp_conn_priv)
    s_seq,                \* seq_no, -1 before the first datagram
    s_read,               \* read_data: accepted and not consumed
    s_stamp,              \* the sequence number in the write buffer
    s_current, s_out,     \* current_seq, ack_outstanding
    \* locals of send_request
    epc,                  \* where the main thread is in its loops
    rtofired,             \* conn_rtofired_count, -1 when answered
    \* the client's end
    c_seq, c_read, c_out, \* its current_seq is c_seq while it waits
    c_busy, c_rtos        \* it is in a retransmission loop, and its count

netRVars    == <<up, down>>
endRVars    == <<s_seq, s_read>>
writeRVars  == <<s_stamp, s_current, s_out, epc, rtofired>>
clientRVars == <<c_seq, c_read, c_out, c_busy, c_rtos>>
rudpVars    == <<netRVars, endRVars, writeRVars, clientRVars>>
rvars       == <<vars, rudpVars>>

Datagram == [seq : Int, msg : MsgType]

RInit ==
    /\ Init
    /\ up = [c \in Conns |-> {}] /\ down = [c \in Conns |-> {}]
    /\ s_seq = [c \in Conns |-> -1]
    /\ s_read = [c \in Conns |-> "none"]
    /\ s_stamp = [c \in Conns |-> 0]
    /\ s_current = [c \in Conns |-> 0]
    /\ s_out = [c \in Conns |-> FALSE]
    /\ epc = "loop"
    /\ rtofired = [c \in Conns |-> 0]
    /\ c_seq = [c \in Conns |-> 0]
    /\ c_read = [c \in Conns |-> "none"]
    /\ c_out = [c \in Conns |-> FALSE]
    /\ c_busy = [c \in Conns |-> FALSE]
    /\ c_rtos = [c \in Conns |-> 0]

\* A datagram on its way.
Put(net, c, seq, msg) == [net EXCEPT ![c] = @ \cup {[seq |-> seq, msg |-> msg]}]

\* What is on its way to a socket is lost when it is closed.
CloseUp == up' = [c \in Conns |-> IF c \in closed' \ closed THEN {} ELSE up[c]]

\* A datagram sent to a closed socket is refused, and the next call on the
\* sender's socket reports it (ECONNREFUSED).
ServerRefused(c) == c \in gone /\ down[c] # {}
ClientRefused(c) == c \in closed /\ up[c] # {}

-----------------------------------------------------------------------------
(* The server's end: reading. *)

\* Mutant: an old datagram is accepted too.
AcceptsOld(c, d) == d.seq # s_seq[c]

\* conn_beg_read in the server process, whose is_server is false: whatever is
\* newer than the last datagram is accepted, and its number taken over.
Accepts(c, d) == d.seq > s_seq[c]

RBegRead(c, d) ==
    /\ s_read[c] = "none"
    /\ d \in up[c] /\ Accepts(c, d)
    /\ s_seq' = [s_seq EXCEPT ![c] = d.seq]

\* do_connectall.  A read that finds nothing, or something old, moves on.
RMConnectNone ==
    /\ mpc = "connect"
    /\ NextConn
    /\ mpc' = IF i + 1 = client_count /\ connected >= client_count
              THEN "spawn" ELSE "connect"
    /\ UNCHANGED <<netVars, sharedVars, connected, requests, status, phase,
                   result, total_votes, workerVars, clientVars, rudpVars>>

\* A connection message is read and consumed at once.
RMConnect ==
    /\ mpc = "connect"
    /\ \E d \in up[i] : RBegRead(i, d) /\ d.msg = "con"
    /\ peers' = peers \cup {i}
    /\ connected' = connected + 1
    /\ NextConn
    /\ mpc' = IF i + 1 = client_count /\ connected + 1 >= client_count
              THEN "spawn" ELSE "connect"
    /\ UNCHANGED <<toServer, toClient, gone, closed, faults>>
    /\ UNCHANGED <<sharedVars, requests, status, phase, result, total_votes,
                   workerVars, clientVars>>
    /\ UNCHANGED <<netRVars, s_read, writeRVars, clientRVars>>

\* A worker's beg_read accepts a datagram.  From here on the main thread may
\* see the new sequence number, although nothing is on the scoreboard yet.
RWRead(t) ==
    /\ wpc[t] = "poll"
    /\ LET c == wi[t] IN
       \E d \in up[c] : /\ RBegRead(c, d)
                        /\ s_read' = [s_read EXCEPT ![c] = d.msg]
    /\ UNCHANGED <<vars, netRVars, writeRVars, clientRVars>>

\* It records it, consumes it, and goes on to count it.
RWVote(t) ==
    LET c == wi[t] IN
    /\ wpc[t] = "poll"
    /\ s_read[c] # "none" /\ InRange(HostId[c])
    /\ votes_scoreboard' = [votes_scoreboard EXCEPT ![HostId[c] - 1] = s_read[c]]
    /\ s_read' = [s_read EXCEPT ![c] = "none"]
    /\ wpc' = [wpc EXCEPT ![t] = "load"]
    /\ UNCHANGED <<netVars, stop_signal, pause_signal, votes_count, mainVars, wi,
                   wtmp, stats_idx, unread, clientVars>>
    /\ UNCHANGED <<netRVars, s_seq, writeRVars, clientRVars>>

\* Nothing (new) to read, or a message from outside [1, count], which stays in
\* read_data and is all this connection will ever report again.
RWAgain(t) ==
    LET c == wi[t] IN
    /\ wpc[t] = "poll"
    /\ s_read[c] # "none" => ~ InRange(HostId[c])
    /\ Advance(t)
    /\ UNCHANGED <<netVars, sharedVars, mainVars, wtmp, stats_idx, unread,
                   clientVars, rudpVars>>

RWEfin(t) ==
    /\ wpc[t] = "poll"
    /\ s_read[wi[t]] = "none" /\ ServerRefused(wi[t])
    /\ stop_signal' = TRUE
    /\ Break(t)
    /\ UNCHANGED <<netVars, pause_signal, votes_scoreboard, votes_count, mainVars,
                   wtmp, stats_idx, unread, clientVars, rudpVars>>

\* What a worker does outside of its connections, and their deletion.
RWorker(t) ==
    \/ RWRead(t) \/ RWVote(t) \/ RWAgain(t) \/ RWEfin(t)
    \/ /\ WStop(t) \/ WPause(t) \/ WZero(t) \/ WLoad(t) \/ WStore(t) \/ WStat(t)
          \/ WDelete(t)
       /\ CloseUp
       /\ UNCHANGED <<clientVars, down, endRVars, writeRVars, clientRVars>>

-----------------------------------------------------------------------------
(* The server's end: send_request. *)

\* The main thread moves within send_request; nothing else of the base changes.
InSend == /\ UNCHANGED <<netVars, sharedVars, connected, requests, status, phase,
                         result, workerVars, clientVars>>
          /\ UNCHANGED <<up, endRVars, clientRVars>>

\* Mutant: the buffer keeps the number it had.
RMCollectUnstamped ==
    /\ mpc = "send"
    /\ ~ stop_signal /\ i < client_count
    /\ i' = i + 1
    /\ UNCHANGED <<mpc, total_votes, down, s_stamp, s_current, s_out, epc, rtofired>>
    /\ InSend

\* Both of its loops test stop_signal before each connection; the test and the
\* call it guards are one step here, but a connection that is gone by the time
\* of the call is provided for (RMEfin, RMDies).  The first loop collects the
\* write buffers, and beg_write stamps them.
RMCollect ==
    /\ mpc = "send"
    /\ ~ stop_signal /\ i < client_count
    /\ s_stamp' = [s_stamp EXCEPT ![i] = s_seq[i]]
    /\ i' = i + 1
    /\ UNCHANGED <<mpc, total_votes, down, s_current, s_out, epc, rtofired>>
    /\ InSend

RMCollected ==
    /\ mpc = "send"
    /\ stop_signal \/ i = client_count
    /\ mpc' = "write" /\ i' = 0
    /\ UNCHANGED <<total_votes, down, s_stamp, s_current, s_out, epc, rtofired>>
    /\ InSend

\* Mutant: the loop ends when one connection is answered.
RMSentFirst ==
    /\ mpc = "write" /\ epc = "loop"
    /\ stop_signal \/ \E c \in Conns : rtofired[c] < 0
    /\ mpc' = "wait" /\ i' = 0 /\ total_votes' = 0
    /\ rtofired' = [c \in Conns |-> 0]
    /\ UNCHANGED <<down, s_stamp, s_current, s_out, epc>>
    /\ InSend

\* The second loop goes round until every connection is answered.  Its counters
\* start from zero, and mean nothing outside of it: they are reset at its end.
RMSent ==
    /\ mpc = "write" /\ epc = "loop"
    /\ stop_signal \/ \A c \in Conns : rtofired[c] < 0
    /\ mpc' = "wait" /\ i' = 0 /\ total_votes' = 0
    /\ rtofired' = [c \in Conns |-> 0]
    /\ UNCHANGED <<down, s_stamp, s_current, s_out, epc>>
    /\ InSend

Sending == mpc = "write" /\ epc = "loop" /\ ~ stop_signal

RMSkip ==
    /\ Sending
    /\ rtofired[i] < 0 /\ \E c \in Conns : rtofired[c] >= 0
    /\ NextConn
    /\ UNCHANGED <<mpc, total_votes, down, s_stamp, s_current, s_out, epc, rtofired>>
    /\ InSend

\* conn_end_write: the first call writes to the base transport.
RMWrite ==
    /\ Sending /\ rtofired[i] >= 0
    /\ ~ s_out[i]
    /\ down' = Put(down, i, s_stamp[i], Request)
    /\ epc' = "sample"
    /\ UNCHANGED <<mpc, i, total_votes, s_stamp, s_current, s_out, rtofired>>
    /\ InSend

\* Only then does it note the number whose change it waits for.  The answer may
\* have been read in between.
RMSample ==
    /\ mpc = "write" /\ epc = "sample"
    /\ s_current' = [s_current EXCEPT ![i] = s_seq[i]]
    /\ s_out' = [s_out EXCEPT ![i] = TRUE]
    /\ epc' = "loop"
    /\ UNCHANGED <<mpc, i, total_votes, down, s_stamp, rtofired>>
    /\ InSend

\* The first call goes on to compare the two numbers, and so does every other.
Waiting == Sending /\ rtofired[i] >= 0 /\ s_out[i]

\* Q2PC_ENONE: they differ.
RMAnswered ==
    /\ Waiting
    /\ s_current[i] # s_seq[i]
    /\ s_out' = [s_out EXCEPT ![i] = FALSE]
    /\ rtofired' = [rtofired EXCEPT ![i] = -1]
    /\ NextConn
    /\ UNCHANGED <<mpc, total_votes, down, s_stamp, s_current, epc>>
    /\ InSend

\* Q2PC_EAGAIN: they do not, and there is still time.
RMAgain ==
    /\ Waiting
    /\ s_current[i] = s_seq[i]
    /\ NextConn
    /\ UNCHANGED <<mpc, total_votes, down, s_stamp, s_current, s_out, epc, rtofired>>
    /\ InSend

\* Mutant: the limit is off by one.
RMRtoOneMore ==
    /\ Waiting
    /\ s_current[i] = s_seq[i]
    /\ down' = Put(down, i, s_stamp[i], Request)
    /\ IF rtofired[i] > MAX_RTOS
       THEN epc' = "failed" /\ UNCHANGED <<i, rtofired>>
       ELSE /\ rtofired' = [rtofired EXCEPT ![i] = @ + 1]
            /\ NextConn /\ UNCHANGED epc
    /\ UNCHANGED <<mpc, total_votes, s_stamp, s_current, s_out>>
    /\ InSend

\* Mutant: nobody counts the retransmissions.
RMRtoUncounted ==
    /\ Waiting
    /\ s_current[i] = s_seq[i]
    /\ down' = Put(down, i, s_stamp[i], Request)
    /\ NextConn
    /\ UNCHANGED <<mpc, total_votes, s_stamp, s_current, s_out, epc, rtofired>>
    /\ InSend

\* Q2PC_RTOFIRED: the datagram is sent again, so often.
RMRto ==
    /\ Waiting
    /\ s_current[i] = s_seq[i]
    /\ down' = Put(down, i, s_stamp[i], Request)
    /\ IF rtofired[i] >= MAX_RTOS
       THEN epc' = "failed" /\ UNCHANGED <<i, rtofired>>
       ELSE /\ rtofired' = [rtofired EXCEPT ![i] = @ + 1]
            /\ NextConn /\ UNCHANGED epc
    /\ UNCHANGED <<mpc, total_votes, s_stamp, s_current, s_out>>
    /\ InSend

\* Q2PC_EFIN: the base transport refuses the datagram, or writes it to a
\* descriptor that a worker has closed.
RMEfin ==
    /\ mpc = "write" /\ epc = "loop" /\ rtofired[i] >= 0
    /\ s_out[i] => s_current[i] = s_seq[i]
    /\ i \in closed \/ ServerRefused(i)
    /\ mpc' = "cleanup"
    /\ rtofired' = [c \in Conns |-> 0]
    /\ UNCHANGED <<i, total_votes, down, s_stamp, s_current, s_out, epc>>
    /\ InSend

\* "Connection failed to client %li": the server gives up.
RMFailed ==
    /\ mpc = "write" /\ epc = "failed"
    /\ mpc' = "cleanup" /\ epc' = "loop"
    /\ rtofired' = [c \in Conns |-> 0]
    /\ UNCHANGED <<i, total_votes, down, s_stamp, s_current, s_out>>
    /\ InSend

\* A worker has freed the connection under the main thread's feet.
RMDies ==
    /\ mpc \in {"send", "write"} /\ i \in closed
    /\ Die
    /\ CloseUp
    /\ epc' = "loop" /\ rtofired' = [c \in Conns |-> 0]
    /\ UNCHANGED <<clientVars, down, endRVars, s_stamp, s_current, s_out,
                   clientRVars>>

RMSendRequest == \/ RMCollect \/ RMCollected \/ RMSent \/ RMSkip \/ RMWrite
                 \/ RMSample \/ RMAnswered \/ RMAgain \/ RMRto \/ RMEfin
                 \/ RMFailed \/ RMDies

\* The rest of the main thread is as it is over any transport.
RMain ==
    \/ RMConnectNone \/ RMConnect \/ RMSendRequest
    \/ /\ MSpawn \/ MLoop \/ MReset \/ MTimeout \/ MSum \/ MPause \/ MScanEnd
          \/ MScan \/ MClear \/ MUnpause \/ MReport \/ MCleanup \/ MJoin
       /\ CloseUp
       /\ UNCHANGED <<clientVars, down, endRVars, writeRVars, clientRVars>>

RMSignal == /\ MSignal
            /\ epc' = "loop" /\ rtofired' = [c \in Conns |-> 0]
            /\ CloseUp
            /\ UNCHANGED <<clientVars, down, endRVars, s_stamp, s_current, s_out,
                           clientRVars>>

-----------------------------------------------------------------------------
(* The client's end. *)

\* The answer in the write buffer.
Saying(c) ==
    IF cpc[c] = "phase2"
    THEN IF log[c][Len(log[c])] = "yes" THEN "vote_yes" ELSE "vote_no"
    ELSE IF log[c] = <<>> THEN "con" ELSE "ack"

\* beg_write and the first end_write.  After the client has given up waiting
\* for the answer to its last message, end_write takes the message that has
\* come since for that answer, and the new one is swallowed.
Say(c, m) ==
    /\ up' = IF c_out[c] THEN up ELSE Put(up, c, c_seq[c], m)
    /\ c_out' = [c_out EXCEPT ![c] = ~ @]
    /\ c_busy' = [c_busy EXCEPT ![c] = ~ c_out[c]]

RCConnect(c) ==
    /\ c \notin gone /\ cpc[c] = "connect"
    /\ Say(c, "con")
    /\ cpc' = [cpc EXCEPT ![c] = "phase1"]
    /\ UNCHANGED <<netVars, vote_count, log, down, c_seq, c_read, c_rtos>>

\* conn_beg_read in the client process, whose is_server is true: called by
\* get_messge, and by every conn_end_write, whose loop it ends (Q2PC_ENONE).
Expects(c, d) == d.seq = c_seq[c]

\* Mutant: the number stays what it was.
RCReadUncounted(c) ==
    /\ c \notin gone /\ cpc[c] # "connect"
    /\ c_read[c] = "none"
    /\ \E d \in down[c] : Expects(c, d) /\ c_read' = [c_read EXCEPT ![c] = d.msg]
    /\ c_out' = [c_out EXCEPT ![c] = @ /\ ~ c_busy[c]]
    /\ c_busy' = [c_busy EXCEPT ![c] = FALSE]
    /\ c_rtos' = [c_rtos EXCEPT ![c] = 0]
    /\ UNCHANGED <<netVars, clientVars, netRVars, c_seq>>

RCRead(c) ==
    /\ c \notin gone /\ cpc[c] # "connect"
    /\ c_read[c] = "none"
    /\ \E d \in down[c] : Expects(c, d) /\ c_read' = [c_read EXCEPT ![c] = d.msg]
    /\ c_seq' = [c_seq EXCEPT ![c] = @ + 1]
    /\ c_out' = [c_out EXCEPT ![c] = @ /\ ~ c_busy[c]]
    /\ c_busy' = [c_busy EXCEPT ![c] = FALSE]
    /\ c_rtos' = [c_rtos EXCEPT ![c] = 0]
    /\ UNCHANGED <<netVars, clientVars, netRVars>>

\* Q2PC_RTOFIRED: the datagram is sent again.  init goes on for ever,
\* send_response gives up and leaves ack_outstanding set.
RCRto(c) ==
    /\ c \notin gone /\ c_busy[c]
    /\ up' = Put(up, c, c_seq[c], Saying(c))
    /\ IF log[c] = <<>>
       THEN UNCHANGED <<c_rtos, c_busy>>
       ELSE IF c_rtos[c] + 1 < RTOS_MAX
       THEN c_rtos' = [c_rtos EXCEPT ![c] = @ + 1] /\ UNCHANGED c_busy
       ELSE /\ c_rtos' = [c_rtos EXCEPT ![c] = 0]
            /\ c_busy' = [c_busy EXCEPT ![c] = FALSE]
    /\ UNCHANGED <<netVars, clientVars, down, c_seq, c_read, c_out>>

\* get_messge has a message; it is consumed before it is looked at.
Takes(c, M) == /\ c \notin gone /\ ~ c_busy[c]
               /\ c_read[c] \in M
               /\ c_read' = [c_read EXCEPT ![c] = "none"]

RCPhase1(c) ==
    /\ cpc[c] = "phase1" /\ Takes(c, {"request"})
    /\ Say(c, IF VotesYes(c) THEN "vote_yes" ELSE "vote_no")
    /\ log' = [log EXCEPT ![c] = Append(@, IF VotesYes(c) THEN "yes" ELSE "no")]
    /\ vote_count' = [vote_count EXCEPT ![c] = @ + 1]
    /\ cpc' = [cpc EXCEPT ![c] = "phase2"]
    /\ UNCHANGED <<netVars, down, c_seq, c_rtos>>

RCPhase2(c) ==
    /\ cpc[c] = "phase2" /\ Takes(c, Decisions)
    /\ Say(c, "ack")
    /\ log' = [log EXCEPT ![c] = Append(@, c_read[c])]
    /\ cpc' = [cpc EXCEPT ![c] = "phase1"]
    /\ UNCHANGED <<netVars, vote_count, down, c_seq, c_rtos>>

\* The ways out: a message of the other phase, a decision that does not come,
\* a datagram refused.
Quits(c) ==
    \/ ~ c_busy[c] /\ cpc[c] = "phase1" /\ c_read[c] \notin {"none", "request"}
    \/ ~ c_busy[c] /\ cpc[c] = "phase2" /\ c_read[c] \notin {"none"} \cup Decisions
    \/ ~ c_busy[c] /\ cpc[c] = "phase2" /\ c_read[c] = "none" /\ ClientTimeouts
    \/ c_read[c] = "none" /\ ClientRefused(c)

RCExit(c) ==
    /\ c \notin gone
    /\ Quits(c) \/ c \in Killable
    /\ Exit(c)
    /\ down' = [down EXCEPT ![c] = {}]
    /\ UNCHANGED <<toServer, closed, peers, faults, clientVars, up, clientRVars>>

RClient(c) == \/ RCConnect(c) \/ RCRead(c) \/ RCRto(c)
              \/ RCPhase1(c) \/ RCPhase2(c) \/ RCExit(c)

-----------------------------------------------------------------------------

\* A client that waits for a message that nobody will send.
RStranded(c) ==
    /\ ~ c_busy[c] /\ c_read[c] = "none" /\ ~ ClientRefused(c)
    /\ \A d \in down[c] : ~ Expects(c, d)
    /\ \/ cpc[c] = "phase1"
       \/ cpc[c] = "phase2" /\ ~ ClientTimeouts

\* Everything has come to an end.
RTerminated == /\ mpc = "exited"
               /\ \A c \in Conns : c \in gone \/ RStranded(c)
               /\ UNCHANGED rvars

RClientStep == /\ \E c \in Conns : RClient(c)
               /\ UNCHANGED <<serverVars, endRVars, writeRVars>>

RNext == \/ RMain \/ RMSignal
         \/ \E t \in Threads : RWorker(t)
         \/ RClientStep
         \/ RTerminated

RSpec == RInit /\ [][RNext]_rvars

\* As in Fairness of Q2pc, and the retransmission timer of an unanswered
\* request expires in the end.  The network need not deliver anything.
RFairness ==
    /\ WF_rvars(RMain)
    /\ SF_rvars(MTimeout /\ RMain)
    /\ SF_rvars(RMRto)
    /\ \A t \in Threads : WF_rvars(RWorker(t))

RFairSpec == RSpec /\ RFairness

-----------------------------------------------------------------------------
(* Properties. *)

EndTypeOK == /\ s_seq \in [Conns -> Int]
             /\ s_read \in [Conns -> MsgType \cup {"none"}]
             /\ s_stamp \in [Conns -> Int]
             /\ s_current \in [Conns -> Int]
             /\ s_out \in [Conns -> BOOLEAN]
             /\ epc \in {"loop", "sample", "failed"}
             /\ rtofired \in [Conns -> -1 .. MAX_RTOS]

ClientEndTypeOK == /\ c_seq \in [Conns -> Nat]
                   /\ c_read \in [Conns -> MsgType \cup {"none"}]
                   /\ c_out \in [Conns -> BOOLEAN]
                   /\ c_busy \in [Conns -> BOOLEAN]
                   /\ c_rtos \in [Conns -> 0 .. RTOS_MAX - 1]

WiresTypeOK == /\ up \in [Conns -> SUBSET Datagram]
               /\ down \in [Conns -> SUBSET Datagram]

\* Every variable of the cluster over rdp_ln has its type; no retransmission
\* counter runs past its limit.
RTypeOK == TypeOK /\ EndTypeOK /\ ClientEndTypeOK /\ WiresTypeOK

\* Stop and wait: the two ends of a connection are never more than one message
\* apart, and nothing on the wire is ahead of its receiver by more than that.
\* So the server, which takes over any newer number (q2pc_trans_rudp.c:114),
\* never skips one.
InStep ==
    \A c \in Conns :
        /\ c_seq[c] \in {s_seq[c], s_seq[c] + 1}
        /\ \A d \in up[c] : d.seq <= c_seq[c]
        /\ \A d \in down[c] : d.seq <= s_seq[c]

\* A sequence number names one message: whichever copy of it arrives, however
\* often it was sent again (q2pc_trans_rudp.c:233), says the same.  The n-th
\* datagram of a client says what the client did last.
AnswerTo == [yes |-> "vote_yes", no |-> "vote_no", commit |-> "ack", cancel |-> "ack"]

SaidOnce ==
    \A c \in Conns : \A d \in up[c] :
        IF d.seq = 0 THEN d.msg = "con"
        ELSE d.seq \in DOMAIN log[c] /\ d.msg = AnswerTo[log[c][d.seq]]

AskedOnce == \A c \in Conns : \A d, e \in down[c] : d.seq = e.seq => d = e

\* send_request is itself the barrier of a phase: when it is over, and the server
\* not stopping, every client has acted on the message of this phase, none is
\* ahead or behind, and its answer has been read, even if wait_for_votes then
\* times out before a worker has counted it.
AnsweredInTurn ==
    mpc \in {"wait", "pause", "scan"} /\ ~ stop_signal =>
        \A c \in Conns : s_seq[c] = Progress /\ Len(log[c]) = Progress

\* "Connection failed to client %li" (q2pc_server.c:357): a client that the
\* server gives up had not answered the request when the server began to wait.
FailedIsSilent ==
    epc = "failed" => s_current[i] = s_stamp[i]
=============================================================================
