----------------------------- MODULE Q2pcServer -----------------------------
(***************************************************************************)
(* The server process: the main thread of q2pc_server.c, which drives the  *)
(* two phases of every request, and the worker threads of                  *)
(* q2pc_server_worker.c, which read the clients' answers.  They share four *)
(* volatile globals without locks, so every step below reads or writes at  *)
(* most one shared location that another thread writes.                    *)
(***************************************************************************)
EXTENDS Q2pcNet

CONSTANTS thread_count,   \* --threads
          stats_len,      \* --stats-len
          WaitForever,    \* --wait is negative: wait_for_votes never times out
          Signals         \* somebody may send the server SIGINT or SIGTERM

ASSUME ThreadCountAssumption == thread_count \in Nat \ {0}
ASSUME StatsLenAssumption == stats_len \in Nat
ASSUME SwitchesAssumption == WaitForever \in BOOLEAN /\ Signals \in BOOLEAN

VARIABLES
    \* shared by all threads
    stop_signal, pause_signal, votes_scoreboard, votes_count,
    \* locals of the main thread
    mpc,                  \* where it is
    i,                    \* the index of the loop it is in
    connected,            \* do_connectall
    requests, status,     \* run_server, with do_phase1's result in status
    phase, result,        \* which of do_phase1 and do_phase2, and its result
    total_votes,          \* wait_for_votes
    \* locals of the workers
    wpc, wi,              \* where each is, and the index of its loop
    wtmp,                 \* votes_count[thread_id] as loaded by the ++
    stats_idx,
    unread                \* datagrams whose end_read was skipped

sharedVars == <<stop_signal, pause_signal, votes_scoreboard, votes_count>>
mainVars   == <<mpc, i, connected, requests, status, phase, result, total_votes>>
workerVars == <<wpc, wi, wtmp, stats_idx, unread>>
serverVars == <<sharedVars, mainVars, workerVars>>

\* The connection to thread mapping of server_init.  Its loop computes lo and
\* hi one thread after the other; this is their closed form.
Least(a, b)       == IF a < b THEN a ELSE b
cons_per_thread   == (client_count + thread_count - 1) \div thread_count
real_thread_count == Least(thread_count, client_count)
Lo(t) == Least(t * cons_per_thread, client_count)
Hi(t) == Least((t + 1) * cons_per_thread, client_count)

Threads == 0 .. real_thread_count - 1
Slots   == 0 .. client_count - 1

\* params->stats_len, the length of a worker's statistics array.
stats_per_thread == stats_len \div real_thread_count

\* Mutant: the upper bound is off by one.
InRangeOffByOne(h) == h >= 1 /\ h <= client_count + 1

\* A host id within the bounds run_thread checks.
InRange(h) == h >= 1 /\ h <= client_count

ServerInit ==
    /\ stop_signal = FALSE
    /\ pause_signal = FALSE
    /\ votes_scoreboard = [s \in Slots |-> "zeroed"]
    /\ votes_count = [t \in Threads |-> 0]
    /\ mpc = "connect" /\ i = 0 /\ connected = 0
    /\ requests = 0 /\ status = "none"
    /\ phase = 1 /\ result = "none" /\ total_votes = 0
    /\ wpc = [t \in Threads |-> "off"]
    /\ wi = [t \in Threads |-> Lo(t)]
    /\ wtmp = [t \in Threads |-> 0]
    /\ stats_idx = [t \in Threads |-> 0]
    /\ unread = {}

\* The process is gone at once: ch_log_fatal, a fatal signal, or an access to
\* freed memory that faults.
Die == /\ mpc' = "exited"
       /\ wpc' = [t \in Threads |-> "exited"]
       /\ Close(Conns)
       /\ UNCHANGED <<sharedVars, i, connected, requests, status, phase, result,
                      total_votes, wi, wtmp, stats_idx, unread>>
       /\ UNCHANGED <<toClient, gone, peers, faults>>

-----------------------------------------------------------------------------
(* The main thread. *)

\* do_connectall: one pass of its inner loop.  A failed read, whatever the
\* reason, means "try the next one"; a message is either a connection message
\* or ends the server.  The wrap around is where the outer loop tests.
NextConn == i' = IF i + 1 < client_count THEN i + 1 ELSE 0

MConnect ==
    /\ mpc = "connect"
    /\ \/ /\ toServer[i] = <<>>
          /\ UNCHANGED <<toServer, peers, connected>>
          /\ NextConn
          /\ mpc' = IF i + 1 = client_count /\ connected >= client_count
                    THEN "spawn" ELSE "connect"
       \/ /\ toServer[i] # <<>> /\ Head(toServer[i]) = "con"
          /\ toServer' = [toServer EXCEPT ![i] = Tail(@)]
          /\ peers' = peers \cup {i}
          /\ connected' = connected + 1
          /\ NextConn
          /\ mpc' = IF i + 1 = client_count /\ connected + 1 >= client_count
                    THEN "spawn" ELSE "connect"
       \/ /\ toServer[i] # <<>> /\ Head(toServer[i]) # "con"
          /\ mpc' = "cleanup"
          /\ UNCHANGED <<toServer, peers, connected, i>>
    /\ UNCHANGED <<toClient, gone, closed, faults>>
    /\ UNCHANGED <<sharedVars, requests, status, phase, result, total_votes,
                   workerVars>>

\* The rest of server_init: the threads start.
MSpawn ==
    /\ mpc = "spawn"
    /\ mpc' = "loop"
    /\ wpc' = [t \in Threads |-> "top"]
    /\ UNCHANGED <<netVars, sharedVars, i, connected, requests, status, phase,
                   result, total_votes, wi, wtmp, stats_idx, unread>>

\* The head of run_server's loop, and the entry of do_phase1.
MLoop ==
    /\ mpc = "loop"
    /\ mpc' = IF stop_signal THEN "cleanup" ELSE "reset"
    /\ phase' = 1 /\ i' = 0 /\ result' = "request_success"
    /\ UNCHANGED <<netVars, sharedVars, connected, requests, status, total_votes,
                   workerVars>>

\* Both phases clear the scoreboard slot by slot.  do_phase2 tests for a
\* failed cluster only after that.
AfterReset == IF phase = 2 /\ status = "cluster_fail" THEN "cleanup"
              ELSE IF Transport = "udp_qj" THEN "broadcast" ELSE "send"

\* Mutant: the slots keep what the phase before left there.
MResetForgotten ==
    /\ mpc = "reset"
    /\ IF i + 1 < client_count THEN i' = i + 1 /\ UNCHANGED mpc
                               ELSE i' = 0 /\ mpc' = AfterReset
    /\ UNCHANGED <<netVars, sharedVars, connected, requests, status, phase,
                   result, total_votes, workerVars>>

MReset ==
    /\ mpc = "reset"
    /\ votes_scoreboard' = [votes_scoreboard EXCEPT ![i] = "lost"]
    /\ IF i + 1 < client_count THEN i' = i + 1 /\ UNCHANGED mpc
                               ELSE i' = 0 /\ mpc' = AfterReset
    /\ UNCHANGED <<netVars, stop_signal, pause_signal, votes_count, connected,
                   requests, status, phase, result, total_votes, workerVars>>

\* Mutant: a stopping server tells the rest of the clients to cancel.
RequestStopCancels ==
    IF phase = 1 THEN "request"
    ELSE IF status = "request_success" /\ ~ stop_signal THEN "commit" ELSE "cancel"

\* What the phase sends: do_phase2 has only a success or a failure left here.
Request == IF phase = 1 THEN "request"
           ELSE IF status = "request_success" THEN "commit" ELSE "cancel"

\* send_request over Q-Jump: one write to the broadcast address through the
\* first connection, whether or not the server is stopping.
MBroadcast ==
    /\ mpc = "broadcast"
    /\ toClient' = Broadcast(Request)
    /\ mpc' = "wait" /\ i' = 0 /\ total_votes' = 0
    /\ UNCHANGED <<toServer, gone, closed, peers, faults>>
    /\ UNCHANGED <<sharedVars, connected, requests, status, phase, result,
                   workerVars>>

\* Mutant: the loop over the connections runs one too far.
MSendTooFar ==
    /\ mpc = "send"
    /\ IF stop_signal \/ i > client_count
       THEN mpc' = "wait" /\ i' = 0 /\ total_votes' = 0
       ELSE mpc' = "write" /\ UNCHANGED <<i, total_votes>>
    /\ UNCHANGED <<netVars, sharedVars, connected, requests, status, phase,
                   result, workerVars>>

\* send_request elsewhere: the loops test stop_signal before every connection.
MSend ==
    /\ mpc = "send"
    /\ IF stop_signal \/ i = client_count
       THEN mpc' = "wait" /\ i' = 0 /\ total_votes' = 0
       ELSE mpc' = "write" /\ UNCHANGED <<i, total_votes>>
    /\ UNCHANGED <<netVars, sharedVars, connected, requests, status, phase,
                   result, workerVars>>

\* beg_write and end_write on connection i.
MWrite ==
    /\ mpc = "write"
    /\ i \notin closed
    /\ Transport = "udp_ln" => i \in peers
    /\ toClient' = Sent(toClient, i, Request)
    /\ mpc' = "send" /\ i' = i + 1
    /\ UNCHANGED <<toServer, gone, closed, peers, faults>>
    /\ UNCHANGED <<sharedVars, connected, requests, status, phase, result,
                   total_votes, workerVars>>

\* end_write returns Q2PC_EFIN, or finds the descriptor closed by a worker.
MWriteEfin ==
    /\ mpc = "write"
    /\ i \in closed \/ WritesEfin(i)
    /\ mpc' = "cleanup"
    /\ UNCHANGED <<netVars, sharedVars, i, connected, requests, status, phase,
                   result, total_votes, workerVars>>

\* The write kills the process: SIGPIPE, or private state a worker has freed.
MWriteDies ==
    /\ \/ mpc = "write" /\ (i \in closed \/ WritesSigpipe(i))
       \/ mpc = "broadcast" /\ 0 \in closed
    /\ Die

\* Mutant: only the first phase has a timeout.
MTimeoutPhase1 ==
    /\ mpc = "wait" /\ i = 0
    /\ ~ WaitForever /\ phase = 1
    /\ mpc' = "pause"
    /\ UNCHANGED <<netVars, sharedVars, i, connected, requests, status, phase,
                   result, total_votes, workerVars>>

\* wait_for_votes: the clock is read once per round of the loop.
MTimeout ==
    /\ mpc = "wait" /\ i = 0
    /\ ~ WaitForever
    /\ mpc' = "pause"
    /\ UNCHANGED <<netVars, sharedVars, i, connected, requests, status, phase,
                   result, total_votes, workerVars>>

\* It adds up the threads' counters, one load each.
MSum ==
    /\ mpc = "wait"
    /\ LET total == total_votes + votes_count[i] IN
       IF i + 1 < real_thread_count
       THEN i' = i + 1 /\ total_votes' = total /\ UNCHANGED mpc
       ELSE /\ i' = 0 /\ total_votes' = 0
            /\ mpc' = IF total >= client_count THEN "pause" ELSE "wait"
    /\ UNCHANGED <<netVars, sharedVars, connected, requests, status, phase,
                   result, workerVars>>

\* dopause_all does not wait for the workers to notice.
MPause ==
    /\ mpc = "pause"
    /\ pause_signal' = TRUE
    /\ mpc' = "scan" /\ i' = 0
    /\ result' = IF phase = 1 THEN "request_success" ELSE "commit_success"
    /\ UNCHANGED <<netVars, stop_signal, votes_scoreboard, votes_count, connected,
                   requests, status, phase, total_votes, workerVars>>

\* The scan of the scoreboard ends early when the server is stopping.
MScanEnd ==
    /\ mpc = "scan"
    /\ stop_signal \/ i = client_count
    /\ mpc' = "clear" /\ i' = 0
    /\ UNCHANGED <<netVars, sharedVars, connected, requests, status, phase,
                   result, total_votes, workerVars>>

\* Mutants: a lost vote counts as a yes; as a no; a lost ack does not matter.
ScannedLostIsYes(slot) ==
    CASE phase = 1 /\ slot = "vote_no" -> "request_fail"
      [] phase = 2 /\ slot # "ack"     -> "cluster_fail"
      [] OTHER                         -> result

ScannedLostIsNo(slot) ==
    CASE phase = 1 /\ slot \in {"vote_no", "lost"} -> "request_fail"
      [] phase = 2 /\ slot # "ack"                 -> "cluster_fail"
      [] OTHER                                     -> result

ScannedNoAck(slot) ==
    CASE phase = 1 /\ slot = "vote_no" -> "request_fail"
      [] phase = 1 /\ slot = "lost"    -> "cluster_fail"
      [] OTHER                         -> result

\* What one slot does to the result.  The breaks of the switch leave the
\* switch only: a later slot may replace what an earlier one has decided.
Scanned(slot) ==
    CASE phase = 1 /\ slot = "vote_no" -> "request_fail"
      [] phase = 1 /\ slot = "lost"    -> "cluster_fail"
      [] phase = 2 /\ slot # "ack"     -> "cluster_fail"
      [] OTHER                         -> result

ProtocolViolation(slot) ==
    phase = 1 /\ slot \notin {"vote_yes", "vote_no", "lost"}

MScan ==
    /\ mpc = "scan"
    /\ ~ stop_signal /\ i < client_count
    /\ IF ProtocolViolation(votes_scoreboard[i])
       THEN mpc' = "cleanup" /\ UNCHANGED <<i, result>>
       ELSE /\ result' = Scanned(votes_scoreboard[i])
            /\ i' = i + 1
            /\ UNCHANGED mpc
    /\ UNCHANGED <<netVars, sharedVars, connected, requests, status, phase,
                   total_votes, workerVars>>

\* Mutant: the counters keep what they have.
MClearForgotten ==
    /\ mpc = "clear"
    /\ IF i + 1 < real_thread_count THEN i' = i + 1 /\ UNCHANGED mpc
                                    ELSE i' = 0 /\ mpc' = "unpause"
    /\ UNCHANGED <<netVars, sharedVars, connected, requests, status, phase,
                   result, total_votes, workerVars>>

MClear ==
    /\ mpc = "clear"
    /\ votes_count' = [votes_count EXCEPT ![i] = 0]
    /\ IF i + 1 < real_thread_count THEN i' = i + 1 /\ UNCHANGED mpc
                                    ELSE i' = 0 /\ mpc' = "unpause"
    /\ UNCHANGED <<netVars, stop_signal, pause_signal, votes_scoreboard, connected,
                   requests, status, phase, result, total_votes, workerVars>>

\* Mutant: the workers stay paused.
MUnpauseForgotten ==
    /\ mpc = "unpause"
    /\ IF phase = 1
       THEN mpc' = "reset" /\ phase' = 2 /\ status' = result
       ELSE mpc' = "report" /\ UNCHANGED <<phase, status>>
    /\ UNCHANGED <<netVars, sharedVars, i, connected, requests, result,
                   total_votes, workerVars>>

\* unpause_all, and the return from the phase.
MUnpause ==
    /\ mpc = "unpause"
    /\ pause_signal' = FALSE
    /\ IF phase = 1
       THEN mpc' = "reset" /\ phase' = 2 /\ status' = result
       ELSE mpc' = "report" /\ UNCHANGED <<phase, status>>
    /\ UNCHANGED <<netVars, stop_signal, votes_scoreboard, votes_count, i,
                   connected, requests, result, total_votes, workerVars>>

\* The switch at the end of run_server's loop.
MReport ==
    /\ mpc = "report"
    /\ IF result = "cluster_fail"
       THEN mpc' = "cleanup" /\ UNCHANGED requests
       ELSE mpc' = "loop" /\ requests' = requests + 1
    /\ UNCHANGED <<netVars, sharedVars, i, connected, status, phase, result,
                   total_votes, workerVars>>

\* Mutant: the workers are not told to stop.
MCleanupSilent ==
    /\ mpc = "cleanup"
    /\ mpc' = "join"
    /\ UNCHANGED <<netVars, sharedVars, i, connected, requests, status, phase,
                   result, total_votes, workerVars>>

\* term: cleanup stops the workers, joins them, and the process exits.
MCleanup ==
    /\ mpc = "cleanup"
    /\ stop_signal' = TRUE
    /\ mpc' = "join"
    /\ UNCHANGED <<netVars, pause_signal, votes_scoreboard, votes_count, i,
                   connected, requests, status, phase, result, total_votes,
                   workerVars>>

\* Mutant: threads that were never started are joined too.
MJoinUnstarted ==
    /\ mpc = "join"
    /\ \A t \in Threads : wpc[t] = "exited"
    /\ mpc' = "exited"
    /\ Close(Conns)
    /\ UNCHANGED <<toClient, gone, peers, faults>>
    /\ UNCHANGED <<sharedVars, i, connected, requests, status, phase, result,
                   total_votes, workerVars>>

MJoin ==
    /\ mpc = "join"
    /\ \A t \in Threads : wpc[t] \in {"off", "exited"}
    /\ mpc' = "exited"
    /\ Close(Conns)
    /\ UNCHANGED <<toClient, gone, peers, faults>>
    /\ UNCHANGED <<sharedVars, i, connected, requests, status, phase, result,
                   total_votes, workerVars>>

\* term as a signal handler interrupts the main thread wherever it is.
MInterrupted ==
    /\ mpc \notin {"spawn", "cleanup", "join", "hung", "exited"}
    /\ mpc' = "cleanup"
    /\ UNCHANGED <<netVars, sharedVars, i, connected, requests, status, phase,
                   result, total_votes, workerVars>>

\* Half way through server_init it finds threads that do not exist yet, and
\* during a clean up already under way it cannot join them a second time: it
\* goes on to free what the workers use and to exit, if nothing faults before.
MInterruptedAgain ==
    /\ mpc \in {"spawn", "cleanup", "join", "hung"}
    /\ Die

\* Where the main thread allocates or frees, the handler may also wait for ever
\* for the lock of malloc, after it has raised stop_signal: do_connectall makes
\* connections, server_init threads, and the clean up frees what it has joined.
\* The workers that server_init has started by then keep running.  A hang after
\* the connections are closed leaves the others where MJoin does.
MHangs ==
    /\ mpc \in {"connect", "spawn", "join"}
    /\ mpc = "join" => \A t \in Threads : wpc[t] \in {"off", "exited"}
    /\ mpc' = "hung"
    /\ stop_signal' = TRUE
    /\ IF mpc = "spawn"
       THEN \E started \in SUBSET Threads :
                wpc' = [t \in Threads |-> IF t \in started THEN "top" ELSE "off"]
       ELSE UNCHANGED wpc
    /\ UNCHANGED <<netVars, pause_signal, votes_scoreboard, votes_count, i, connected,
                   requests, status, phase, result, total_votes, wi, wtmp,
                   stats_idx, unread>>

MSignal == Signals /\ (MInterrupted \/ MInterruptedAgain \/ MHangs)

Main == \/ MConnect \/ MSpawn \/ MLoop \/ MReset \/ MBroadcast
        \/ MSend \/ MWrite \/ MWriteEfin \/ MWriteDies
        \/ MTimeout \/ MSum \/ MPause \/ MScanEnd \/ MScan \/ MClear
        \/ MUnpause \/ MReport \/ MCleanup \/ MJoin

-----------------------------------------------------------------------------
(* Worker thread t. *)

\* The two tests at the head of run_thread's loop.
WStop(t) ==
    /\ wpc[t] = "top"
    /\ wpc' = [wpc EXCEPT ![t] = IF stop_signal THEN "delete" ELSE "pause"]
    /\ UNCHANGED <<netVars, sharedVars, mainVars, wi, wtmp, stats_idx, unread>>

WPause(t) ==
    /\ wpc[t] = "pause"
    /\ wpc' = [wpc EXCEPT ![t] = IF pause_signal THEN "zero"
                                 ELSE IF Lo(t) < Hi(t) THEN "poll" ELSE "top"]
    /\ UNCHANGED <<netVars, sharedVars, mainVars, wi, wtmp, stats_idx, unread>>

WZero(t) ==
    /\ wpc[t] = "zero"
    /\ votes_count' = [votes_count EXCEPT ![t] = 0]
    /\ wpc' = [wpc EXCEPT ![t] = "top"]
    /\ UNCHANGED <<netVars, stop_signal, pause_signal, votes_scoreboard, mainVars,
                   wi, wtmp, stats_idx, unread>>

\* Back to the head of the loop, by the break of the inner one or its end.
Break(t) ==
    /\ wi' = [wi EXCEPT ![t] = Lo(t)]
    /\ wpc' = [wpc EXCEPT ![t] = "top"]

\* On to the next connection.
Advance(t) ==
    IF wi[t] + 1 < Hi(t)
    THEN /\ wi' = [wi EXCEPT ![t] = @ + 1]
         /\ wpc' = [wpc EXCEPT ![t] = "poll"]
    ELSE Break(t)

\* beg_read returns Q2PC_EAGAIN.
WAgain(t) ==
    /\ wpc[t] = "poll"
    /\ toServer[wi[t]] = <<>> /\ wi[t] \notin unread
    /\ Advance(t)
    /\ UNCHANGED <<netVars, sharedVars, mainVars, wtmp, stats_idx, unread>>

\* beg_read returns Q2PC_EFIN: the whole server stops.
WEfin(t) ==
    /\ wpc[t] = "poll"
    /\ ReadsEfin(wi[t])
    /\ stop_signal' = TRUE
    /\ Break(t)
    /\ UNCHANGED <<netVars, pause_signal, votes_scoreboard, votes_count, mainVars,
                   wtmp, stats_idx, unread>>

\* beg_read dies: the stream was reset, or it reports the datagram whose
\* end_read was skipped as there but hands out no pointer to it.
WReadDies(t) ==
    /\ wpc[t] = "poll"
    /\ ReadsReset(wi[t]) \/ wi[t] \in unread
    /\ Die

\* A message from outside [1, count] is not counted, and not consumed either:
\* a stream keeps it at the front, a datagram socket in its read buffer.
WIgnore(t) ==
    LET c == wi[t] IN
    /\ wpc[t] = "poll"
    /\ toServer[c] # <<>> /\ c \notin unread
    /\ ~ InRange(HostId[c])
    /\ IF Transport = "tcp_ln"
       THEN UNCHANGED <<toServer, unread>>
       ELSE /\ toServer' = [toServer EXCEPT ![c] = Tail(@)]
            /\ unread' = unread \cup {c}
    /\ Advance(t)
    /\ UNCHANGED <<toClient, gone, closed, peers, faults>>
    /\ UNCHANGED <<sharedVars, mainVars, wtmp, stats_idx>>

\* Mutant: the slot is chosen by connection instead of client id.
WVoteByConnection(t) ==
    LET c == wi[t] IN
    /\ wpc[t] = "poll"
    /\ toServer[c] # <<>> /\ c \notin unread
    /\ InRange(HostId[c])
    /\ votes_scoreboard' = [votes_scoreboard EXCEPT ![c] = Head(toServer[c])]
    /\ toServer' = [toServer EXCEPT ![c] = Tail(@)]
    /\ peers' = peers \cup {c}
    /\ wpc' = [wpc EXCEPT ![t] = "load"]
    /\ UNCHANGED <<toClient, gone, closed, faults>>
    /\ UNCHANGED <<stop_signal, pause_signal, votes_count, mainVars, wi, wtmp,
                   stats_idx, unread>>

\* A message is read, recorded on the scoreboard and consumed, and only then
\* counted, by a load and a store, and noted in the statistics.
WVote(t) ==
    LET c == wi[t] IN
    /\ wpc[t] = "poll"
    /\ toServer[c] # <<>> /\ c \notin unread
    /\ InRange(HostId[c])
    /\ votes_scoreboard' = [votes_scoreboard EXCEPT ![HostId[c] - 1] =
                                                        Head(toServer[c])]
    /\ toServer' = [toServer EXCEPT ![c] = Tail(@)]
    /\ peers' = peers \cup {c}
    /\ wpc' = [wpc EXCEPT ![t] = "load"]
    /\ UNCHANGED <<toClient, gone, closed, faults>>
    /\ UNCHANGED <<stop_signal, pause_signal, votes_count, mainVars, wi, wtmp,
                   stats_idx, unread>>

WLoad(t) ==
    /\ wpc[t] = "load"
    /\ wtmp' = [wtmp EXCEPT ![t] = votes_count[t]]
    /\ wpc' = [wpc EXCEPT ![t] = "store"]
    /\ UNCHANGED <<netVars, sharedVars, mainVars, wi, stats_idx, unread>>

WStore(t) ==
    /\ wpc[t] = "store"
    /\ votes_count' = [votes_count EXCEPT ![t] = wtmp[t] + 1]
    /\ wtmp' = [wtmp EXCEPT ![t] = 0]                     \* dead until WLoad
    /\ wpc' = [wpc EXCEPT ![t] = "stat"]
    /\ UNCHANGED <<netVars, stop_signal, pause_signal, votes_scoreboard, mainVars,
                   wi, stats_idx, unread>>

\* Mutant: the test for a full array is off by one.
WStatOffByOne(t) ==
    /\ wpc[t] = "stat"
    /\ stats_idx' = [stats_idx EXCEPT ![t] = @ + 1]
    /\ IF stats_idx[t] + 1 > stats_per_thread
       THEN Break(t) /\ stop_signal' = TRUE
       ELSE Advance(t) /\ UNCHANGED stop_signal
    /\ UNCHANGED <<netVars, pause_signal, votes_scoreboard, votes_count, mainVars,
                   wtmp, unread>>

\* A full statistics array stops the whole server.
WStat(t) ==
    /\ wpc[t] = "stat"
    /\ stats_idx' = [stats_idx EXCEPT ![t] = @ + 1]
    /\ IF stats_idx[t] + 1 >= stats_per_thread
       THEN Break(t) /\ stop_signal' = TRUE
       ELSE Advance(t) /\ UNCHANGED stop_signal
    /\ UNCHANGED <<netVars, pause_signal, votes_scoreboard, votes_count, mainVars,
                   wtmp, unread>>

\* The connections of the thread are deleted one by one, then it is done.
WDelete(t) ==
    /\ wpc[t] = "delete"
    /\ IF wi[t] < Hi(t)
       THEN /\ Close({wi[t]})
            /\ wi' = [wi EXCEPT ![t] = @ + 1]
            /\ UNCHANGED wpc
       ELSE /\ wpc' = [wpc EXCEPT ![t] = "exited"]
            /\ UNCHANGED <<toServer, closed, wi>>
    /\ UNCHANGED <<toClient, gone, peers, faults>>
    /\ UNCHANGED <<sharedVars, mainVars, wtmp, stats_idx, unread>>

Worker(t) == \/ WStop(t) \/ WPause(t) \/ WZero(t)
             \/ WAgain(t) \/ WEfin(t) \/ WReadDies(t) \/ WIgnore(t)
             \/ WVote(t) \/ WLoad(t) \/ WStore(t) \/ WStat(t) \/ WDelete(t)
=============================================================================
