-------------------------------- MODULE Q2pc --------------------------------
(***************************************************************************)
(* A q2pc cluster: the server with its worker threads, its clients, and    *)
(* the network between them.                                               *)
(***************************************************************************)
EXTENDS Q2pcServer, Q2pcClient

vars == <<netVars, serverVars, clientVars>>

Init == NetInit /\ ServerInit /\ ClientInit

\* A datagram client waits for its next request forever, whatever becomes of
\* the server, and so does one waiting for a decision without a timeout.
Stranded(c) == /\ Transport # "tcp_ln" /\ toClient[c] = <<>>
               /\ \/ cpc[c] = "phase1"
                  \/ cpc[c] = "phase2" /\ ~ ClientTimeouts

\* Everything has come to an end.
Terminated == /\ mpc = "exited"
              /\ \A c \in Conns : c \in gone \/ Stranded(c)
              /\ UNCHANGED vars

ServerStep == /\ \/ Main
                 \/ MSignal
                 \/ \E t \in Threads : Worker(t)
              /\ UNCHANGED clientVars

ClientStep == /\ \E c \in Conns : Client(c) \/ ClientKill(c)
              /\ UNCHANGED serverVars

NetStep == NetFault /\ UNCHANGED <<serverVars, clientVars>>

Next == ServerStep \/ ClientStep \/ NetStep \/ Terminated

Spec == Init /\ [][Next]_vars

(***************************************************************************)
(* Every thread and process keeps running: the main thread and the workers *)
(* never block but spin, and a client spins on its socket.  The clock that *)
(* wait_for_votes reads advances, so a wait that is never satisfied times  *)
(* out.  Nobody is obliged to send a signal or to kill a client, and the   *)
(* network is not obliged to fail.                                         *)
(***************************************************************************)
Fairness ==
    /\ WF_vars(Main /\ UNCHANGED clientVars)
    /\ SF_vars(MTimeout /\ UNCHANGED clientVars)
    /\ \A t \in Threads : WF_vars(Worker(t) /\ UNCHANGED clientVars)
    /\ \A c \in Conns : WF_vars(Client(c) /\ UNCHANGED serverVars)

FairSpec == Spec /\ Fairness

-----------------------------------------------------------------------------
(* Types. *)

Slot == MsgType \cup {"zeroed", "lost"}
MainPc == {"connect", "spawn", "loop", "reset", "broadcast", "send", "write",
           "wait", "pause", "scan", "clear", "unpause", "report", "cleanup",
           "join", "hung", "exited"}
WorkerPc == {"off", "top", "pause", "zero", "poll", "load", "store", "stat",
             "delete", "exited"}
Phase1Result == {"request_success", "request_fail", "cluster_fail"}
Result == Phase1Result \cup {"commit_success"}

NetTypeOK == /\ toServer \in [Conns -> Seq(MsgType)]
             /\ toClient \in [Conns -> Seq(MsgType)]
             /\ gone \subseteq Conns
             /\ closed \subseteq Conns
             /\ peers \subseteq Conns
             /\ faults \in 0 .. MaxFaults

MainTypeOK == /\ mpc \in MainPc
              /\ i \in 0 .. client_count
              /\ connected \in Nat
              /\ requests \in Nat
              /\ status \in Phase1Result \cup {"none"}
              /\ phase \in {1, 2}
              /\ result \in Result \cup {"none"}
              /\ total_votes \in Nat

SharedTypeOK == /\ stop_signal \in BOOLEAN
                /\ pause_signal \in BOOLEAN
                /\ votes_scoreboard \in [Slots -> Slot]
                /\ votes_count \in [Threads -> Nat]

WorkerTypeOK == /\ wpc \in [Threads -> WorkerPc]
                /\ wi \in [Threads -> 0 .. client_count]
                /\ wtmp \in [Threads -> Nat]
                /\ stats_idx \in [Threads -> Nat]
                /\ unread \subseteq Conns

ClientTypeOK == /\ cpc \in [Conns -> {"connect", "phase1", "phase2"}]
                /\ vote_count \in [Conns -> Nat]
                /\ log \in [Conns -> Seq({"yes", "no"} \cup Decisions)]

\* Every variable has its type: the codes of q2pc_protocol.h and
\* q2pc_commit_status_t, and indexes that stay within the arrays.
TypeOK == NetTypeOK /\ MainTypeOK /\ SharedTypeOK /\ WorkerTypeOK /\ ClientTypeOK

-----------------------------------------------------------------------------
(* Safety. *)

AC == INSTANCE AtomicCommit WITH Participants <- Conns

\* The cluster implements atomic commitment as its participants see it: the
\* whole of server, workers, sockets and clients, under every interleaving and
\* failure the constants allow, is a refinement of AtomicCommit (README.md:4).
Atomicity == AC!Spec

\* The commit half of it as an invariant: nobody acts on a commit (do_phase2 of
\* q2pc_client.c) of a request that somebody has not voted yes on.
CommitValidity ==
    \A c, d \in Conns : \A n \in 1 .. Len(log[c]) :
        log[c][n] = "commit" => AC!Did(d, n - 1, "yes")

\* The cancel half: a cancelled request has a no vote.  A lost vote never
\* passes for one.
CancelValidity ==
    \A c \in Conns : \A n \in 1 .. Len(log[c]) :
        log[c][n] = "cancel" => \E d \in Conns : AC!Did(d, n - 1, "no")

\* Two clients that act on the same request act on the same decision, even if
\* the server stops in the middle of telling them.
Agreement ==
    \A c, d \in Conns : \A n \in 1 .. Least(Len(log[c]), Len(log[d])) :
        log[c][n] \in Decisions => log[d][n] = log[c][n]

\* What the scan of a phase finds on the scoreboard was said in that phase: a
\* vote was cast on the request of this round, an ack answers its decision.
\* Workers write slots without regard to the phase the main thread is in (the
\* "Stop all the receiver threads" at q2pc_server.c:439 does not wait for
\* them), so a late answer of the phase or the round before could be there.
Progress == 2 * requests + phase
Answered == [vote_yes |-> {"yes"}, vote_no |-> {"no"}, ack |-> Decisions]

FreshSlots ==
    mpc = "scan" /\ ~ stop_signal =>
        \A c \in Conns : InRange(HostId[c]) =>
            LET slot == votes_scoreboard[HostId[c] - 1] IN
            slot \in (IF phase = 1 THEN {"vote_yes", "vote_no"} ELSE {"ack"}) =>
                /\ Len(log[c]) = Progress
                /\ log[c][Progress] \in Answered[slot]

\* When the server goes on to its next request, every client has acted on the
\* decision about the one before and nobody is ahead or behind.
EveryoneDecided ==
    mpc = "loop" /\ ~ stop_signal =>
        \A c \in Conns : Len(log[c]) = 2 * requests

\* A worker never writes past the end of its statistics array
\* (q2pc_server_worker.c:118): whoever fills it stops before another message.
StatsInBounds ==
    \A t \in Threads : wpc[t] = "stat" => stats_idx[t] < stats_per_thread

\* No client id makes a worker write outside the scoreboard
\* (q2pc_server_worker.c:98).
BoardInBounds ==
    \A t \in Threads : wpc[t] = "load" => HostId[wi[t]] - 1 \in Slots

\* Without timeouts and failures, a wait that ends has every answer on the
\* scoreboard: an answer is recorded before it is counted, nothing is counted
\* twice, and no count is left over from the phase before.
AllRecorded ==
    mpc = "scan" /\ ~ stop_signal =>
        \A s \in Slots : votes_scoreboard[s] # "lost"

\* An answer on the scoreboard stays until the next phase clears it.
NoOverwrite ==
    [][\A s \in Slots : \/ votes_scoreboard[s] \in {"zeroed", "lost"}
                        \/ votes_scoreboard'[s] = votes_scoreboard[s]
                        \/ votes_scoreboard'[s] = "lost"]_vars

\* "Protocol failure, in phase 1 unexpected message type %i" (q2pc_client.c:243):
\* a client that gives up like that has been sent a message of the other phase.
FailureIsReal ==
    [][\A c \in Conns : ClientProtocolFailure(c) =>
                            Head(toClient[c]) \notin Expected(c)]_vars

-----------------------------------------------------------------------------
(* Liveness. *)

\* The main thread is done, or caught in its own signal handler (MHangs).
Over == mpc \in {"exited", "hung"}

\* Once something has raised stop_signal, be it a full statistics array, a
\* client that has left or the server's own clean up, the process ends: no wait
\* and no join holds it for ever.
StopCompletes == stop_signal ~> Over

\* The server does not run for ever: it ends when it has run out of
\* statistics memory, or earlier.
ServerEnds == mpc = "loop" ~> Over

\* When the server has gone, every client follows.
ClientsReleased == mpc = "exited" ~> gone = Conns

\* A request that the server starts is finished, unless the server stops.
RequestCompletes == mpc = "reset" ~> (mpc = "report" \/ stop_signal)
=============================================================================
