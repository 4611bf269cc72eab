# Specifications of q2pc

q2pc is a two-phase commit benchmark over several transports: one server with a
main thread and worker threads, and a number of client processes.  This
directory holds TLA+ specifications of it, TLC configurations that check them on
small clusters, and TLAPS proofs for clusters of any size.  Paths below are
relative to `src/`.

- [1. The system](#1-the-system)
- [2. The modules](#2-the-modules)
- [3. From the code to the model](#3-from-the-code-to-the-model)
- [4. What TLC checks](#4-what-tlc-checks)
- [5. Fairness](#5-fairness)
- [6. What is proved](#6-what-is-proved)
- [7. Findings](#7-findings)
- [8. What is not modelled](#8-what-is-not-modelled)
- [9. Plan](#9-plan)

## 1. The system

| component | source | state it keeps | operations |
|---|---|---|---|
| server, main thread | `src/server/q2pc_server.c` | request number, phase, result of the phase, loop indexes | `do_connectall`, `server_init`, `send_request`, `wait_for_votes`, `do_phase1`, `do_phase2`, `run_server`, `cleanup`, `term` |
| server, worker threads | `src/server/q2pc_server_worker.c` | a range of connections, a statistics array and its index | `run_thread`: read an answer, record it, count it, note it in the statistics |
| shared by both | globals of `q2pc_server.c` | `votes_scoreboard` (one slot per client id), `votes_count` (one per worker), `pause_signal`, `stop_signal` | read and written without locks |
| client | `src/client/q2pc_client.c` | where it is, `vote_count` | `init`, `get_messge`, `send_response`, `do_phase1`, `do_phase2`, `term` |
| `tcp_ln` | `src/transport/q2pc_trans_tcp.c` | a stream, a delimiter buffer | read, delimit, write, delete, accept |
| `udp_ln` | `src/transport/q2pc_trans_udp.c` | a socket, whether its peer is known, a read buffer | the same |
| `udp_qj` | `src/transport/q2pc_trans_qj.c` | a broadcast socket out, a socket per client back | the same |
| `rdp_ln` | `src/transport/q2pc_trans_rudp.c` | `seq_no`, `current_seq`, `ack_outstanding`, a read buffer | stop and wait over `udp_ln` |
| protocol | `src/protocol/q2pc_protocol.h` | - | the seven message types |
| containers, options, build | `conn_array`, `conn_vector`, `q2pc.c`, `build.sh`, libchaste | - | - |

**How they interact.**  The main thread waits until every client has sent a
connection message and then starts the workers.  For every request it clears the
scoreboard, sends the request to all clients (one by one, or over Q-Jump with a
single broadcast), and spins on the sum of the workers' counters until there are
as many answers as clients or the clock says it has waited long enough.  It sets
`pause_signal`, scans the scoreboard, clears the counters, clears `pause_signal`
and does the same again with the decision.  Workers poll their connections and
put what they read on the slot of the client that sent it, whichever phase the
main thread is in.  Whoever finds a reason to stop (a full statistics array, the
end of a connection, a failed cluster, a signal) sets `stop_signal`; the workers
close their connections and the main thread joins them and exits.  The clients
exit when their connection ends, when they wait too long for a decision, or when
they get a message of the wrong phase.

**What makes it hard.**

- *Nothing is locked.*  `votes_count[t]++` is a load and a store, and the main
  thread writes 0 in between; `dopause_all` sets a flag and does not wait until
  anybody has paused; a worker may store an answer at any point of the scan.
- *Messages carry no request number.*  An answer that arrives after its wait has
  timed out could be taken for an answer to something else.
- *Stopping happens anywhere.*  `stop_signal` may rise in the middle of sending a
  decision, of scanning votes, of clearing slots; a worker frees connections that
  the main thread is about to write to.
- *Loss.*  Over plain UDP requests, votes, decisions and acks vanish, are
  duplicated and reordered.
- *Framing.*  The TCP delimiter keeps several messages and a partial one in a
  buffer that its callers look into after they have released a message.
- *Retransmission.*  Over `rdp_ln` an answer is also the acknowledgement; the main
  thread, which writes, and a worker, which reads, share the sequence number of a
  connection without the mutex that is there for it.

**What correctness means.**

| component | properties |
|---|---|
| cluster | it implements atomic commitment (`Atomicity`; as invariants `CommitValidity`, `CancelValidity`, `Agreement`), and client and server stay in step (`EveryoneDecided`) |
| main thread | a scan sees only what was said in its own phase (`FreshSlots`), sees everything when nobody timed out (`AllRecorded`), a request that was started is finished (`RequestCompletes`), the server ends (`ServerEnds`, `StopCompletes`), loops stay in their arrays (`TypeOK`) |
| workers | answers are not overwritten before they are scanned (`NoOverwrite`), no write outside the statistics array or the scoreboard (`StatsInBounds`, `BoardInBounds`) |
| clients | nobody is left behind when the server has gone (`ClientsReleased`), nobody gives up without a reason (`FailureIsReal`: it is violated, section 7) |
| `rdp_ln` | the two ends never skip a message (`InStep`), a number names one message (`SaidOnce`, `AskedOnce`), a phase that is over has been answered by everybody (`AnsweredInTurn`), `Atomicity` and `ServerEnds` as above |
| `tcp_ln` delimiter | it implements a stream of messages (`InOrder`, `Delivered`) in a bounded buffer (`Bounded`, `DelimTypeOK`, `NoCaseTwo`), and what can be read of a message after its release is known byte by byte (`AfterRelease`) |

`PROJECT.json` lists the hazards of the code at their lines, each with the
properties that would catch it going wrong, or the reason why none does.

## 2. The modules

```
AtomicCommit                the promise: votes and decisions of the participants
Q2pcNet                     sockets: tcp_ln, udp_ln, udp_qj
  Q2pcServer                main thread and worker threads
  Q2pcClient                client processes
    Q2pc                    the cluster: Next, fairness, properties, refinement of AtomicCommit
      MCQ2pc  + *.cfg       small clusters for TLC
      Q2pcProof             types, array bounds: any constants
        Q2pcAtomicity       atomic commitment over tcp_ln, lossy udp_ln and udp_qj: any number of both
        Q2pcPatient         counting without locks, when nobody times out: any number of both
      Q2pcRudp              the cluster over rdp_ln, both ends of every connection included
        MCRudp  + *.cfg     small clusters for TLC
        Q2pcRudpProof       stop and wait: any number of clients, any network
          Q2pcRudpAtomicity atomic commitment over rdp_ln: any number of clients and threads

MessageStream               the promise of a stream connection: whole messages, in order
  TcpDelimit + delimit.cfg  the delimiter of tcp_ln
    TcpDelimitProof         it keeps the promise: any sizes, any splits
```

`Q2pcServer` and `Q2pcClient` both extend `Q2pcNet`; `Q2pc` extends both and
interleaves their steps.  The refinement mapping to `AtomicCommit` is the history
variable `log` (over every transport): `log[c]` is what client `c` has done, a vote at each odd position
and the decision it acted on at the even position after it.

Definitions whose comment begins with "Mutant" are deliberately wrong variants
of the definition after them.  Nothing uses them; put in its place, each makes a
property fail, and so shows that the property depends on that piece of the code.
`PROJECT.json` pairs them.

## 3. From the code to the model

**Granularity.**  One action is one access of a thread to something another
thread writes, together with the local computation around it.  So the scan, the
clearing of the scoreboard and of the counters, and the summation go slot by
slot; `votes_count[t]++` is `WLoad` and `WStore`; a worker's read of a message
and its write to the scoreboard are one step (`WVote`), because no other thread
of the server reads that connection any more and the write is the only access to
something shared.  Clients have a
single thread: reading, deciding and answering is one step.

| model | code |
|---|---|
| `mpc = "connect"`, `MConnect` | `do_connectall` |
| `"spawn"`, `MSpawn` | thread start in `server_init`; `Lo`, `Hi`, `real_thread_count` its partition of the connections |
| `"loop"`, `MLoop`; `"report"`, `MReport` | head and end of the loop of `run_server` |
| `"reset"`, `MReset`, `AfterReset` | `do_phase1`/`do_phase2` clear the scoreboard; `do_phase2` gives up on a failed cluster |
| `"send"`, `"write"`, `"broadcast"` | `send_request` |
| `"wait"`, `MSum`, `MTimeout` | `wait_for_votes` |
| `"pause"`, `"scan"`, `"clear"`, `"unpause"` | the rest of `do_phase1`/`do_phase2` |
| `"cleanup"`, `"join"`, `MSignal` | `cleanup`, `term` |
| `wpc`, `W...` | `run_thread` |
| `cpc`, `Client...` | `q2pc_client.c` |
| `ReadsEfin`, `ReadsReset`, `WritesEfin`, `WritesSigpipe`, `ClientSeesEfin` | what `beg_read`, `end_write` of each transport return once the other side has gone |

**Abstractions**, each a simplification of data, not of control:

- A message is its type.  `src_hostid` is a function `HostId` of the connection,
  since a client never changes its id: the id of its command line (`ClientId`) cut
  to the 16 bits of the field.  Time stamps and the retransmission counts inside
  messages only feed the statistics.
- A connection is one queue per direction; that a TCP stream is a queue of
  messages is what `TcpDelimit` is about.  Over TCP the queues lose nothing.  `NetFault` loses,
  duplicates and reorders over `udp_ln`; Q-Jump promises delivery, and so does
  the model of `udp_qj`.
- The clock is a choice: `wait_for_votes` may time out at the start of any round
  of its loop (`MTimeout`), a waiting client in any read that finds nothing.
- Clients start after the server has bound its sockets; `accept` blocking until
  all are there is modelled as polling.  `send_request` first collects all write
  buffers and then writes; the buffers are private, so that loop is folded into
  `MSend`.
- A signal reaches the main thread anywhere.  While it is connecting or in its
  main loop the handler cleans up (`MInterrupted`).  Half way through
  `server_init`, or during a clean up already under way, the handler finds threads
  that do not exist or are being joined, frees what the workers use and exits, or
  faults before: either way the process is gone (`MInterruptedAgain`).  Where the main
  thread allocates or frees, the handler may also wait for ever for the lock of
  `malloc` (`MHangs`, `mpc = "hung"`), with the workers and sockets as they are, until
  a further signal.
- A write to a connection that a worker has freed returns an error or kills the
  process; over Q-Jump, whose connections share the server's socket, it may also
  succeed.
- `get_messge` returns a message it has released.  Over TCP the type its caller finds
  there is that of the message or of the next one, part of which `conn_end_delimit` may
  have moved over it (`Shown`).  `AfterRelease` of `TcpDelimit` is the reason: it says
  which bytes are whose.
- Local variables that the code will not read again are reset, which merges
  states that differ in nothing else.

**Over `rdp_ln`** (`Q2pcRudp`).  Everything that does not touch a connection is
taken from `Q2pcServer` as it is; `send_request`, `do_connectall`, the worker's
reads and the clients are new.

| model | code |
|---|---|
| `s_seq`, `s_read`, `s_current`, `s_out`; `c_seq`, `c_read`, `c_out` | `seq_no`, `read_data`, `current_seq`, `ack_outstanding` of the two ends of a connection |
| `s_stamp` | the sequence number in the server's write buffer |
| `rtofired`; `c_rtos` | `conn_rtofired_count`; `rtos` of `send_response` |
| `Accepts`, `Expects` | the two branches of `conn_beg_read` |
| `RMCollect` ... `RMSent` | `send_request`: the two loops |
| `RMWrite`, `RMSample`, `RMAnswered`, `RMAgain`, `RMRto` | the steps and results of the server's `conn_end_write` |
| `RWRead`, `RWVote` | a worker's `beg_read`, which moves `seq_no`, and what it does with the message |
| `Say`, `RCRead`, `RCRto` | the client's `beg_write` and `end_write` |

- `doconnect` sets `is_server` to the opposite of what it says.  The server process
  runs with `is_server` false: it starts at -1 and takes over any newer number.
  A client runs with `is_server` true: it starts at 0, takes exactly its own number
  and adds one, and reads in `end_write`.
- The network is two sets of datagrams per connection that are never emptied (but
  when a socket is closed): any datagram may arrive any number of times, at any
  time, or never.  There is no bound on faults.
- The main thread and a worker interleave at every access to `seq_no`: the stamp in
  `beg_write`, the write to the socket, the sample of `current_seq`, each comparison.
  `current_seq` of a client has no variable: it has one thread, and while it waits
  it is `c_seq`.
- A client that has given up (`RTOS_MAX`) leaves `ack_outstanding` set.  The next
  message it is sent then ends its next `end_write`, which has put nothing on the
  wire: `Say` swallows the answer.
- `conn_rtofired_count` is zeroed when the loop begins; the model does so when it
  ends, where it is dead, which merges states.

**The delimiter** (`TcpDelimit`).  A byte is its position in the stream and a
pointer its offset in `delim_buffer`; so that the right bytes are handed out is a
statement about numbers, and `delim_buffer` a function from offsets to positions.
A read takes any number of bytes up to the size of the read buffer.  The caller
takes a message and releases it when it likes.

## 4. What TLC checks

No bound on requests is needed: every answer takes a record of a worker's
statistics array, and a full array stops the server, so `stats_len` bounds a run
by the code itself.  In the code it is large; 3 to 20 here give between one and
two and a half requests, enough for an answer to be late by a phase or by a
request.
`VotePeriod` is 5 in the code; 3 (2 in one run) brings, with ids 1 and 2, a
unanimous and a split vote within those requests.  Two
clients are the least that can disagree, two threads the least that race with
each other; `tcp_patient` has three clients on two threads, so that one thread
serves two connections and another one.  `MaxFaults` bounds how often the network
misbehaves; one fault can already make the two sides lose step.  `Killable` is
one client: the interesting case is that one dies and another lives.

| run | cluster | what it shows |
|---|---|---|
| `tcp` | 2 clients connected in reverse order, 2 threads, timeouts | `TypeOK`; the cluster refines `AtomicCommit`; scans see fresh answers; clients are in step between requests |
| `tcp_failures` | 2 clients, 1 thread, one client killed, server signalled | `Agreement`, `StatsInBounds`, and that everything ends: `StopCompletes`, `ServerEnds`, `ClientsReleased` |
| `tcp_patient` | 3 clients, 2 threads, no timeouts or failures | the unlocked counting never loses, invents or carries over an answer: `AllRecorded`, `NoOverwrite`, `RequestCompletes` |
| `udp_loss` | one datagram lost, one client killed | loss ends the cluster or a client, never `Atomicity` |
| `udp_chaos` | one datagram duplicated or reordered | the server's memory stays intact and it still ends |
| `qj` | broadcast, 2 threads, one client killed | `Agreement`, `CancelValidity`, `FreshSlots`, `EveryoneDecided` |
| `bad_id` | a client with an id beyond the bounds | `BoardInBounds` |
| `qj_commit` | as `qj` | `CommitValidity` is violated: section 7 |
| `false_alarm` | 2 clients, 1 thread, TCP, timeouts | `FailureIsReal` is violated: section 7 |
| `rdp` | reliable UDP, 2 clients, 1 thread, `MAX_RTOS` = 0, `RTOS_MAX` = 1, timeouts and signals | stop and wait: `InStep`, `SaidOnce`, `AskedOnce`, `AnsweredInTurn`; the cluster refines `AtomicCommit` and ends |
| `rdp_race` | as `rdp` | `FailedIsSilent` is violated: section 7 |
| `delimit` | messages of 3 bytes, buffers of 7, a stream of 20 | the delimiter implements `MessageStream` and delivers everything; its buffer doubles once at most; what a released message looks like (`AfterRelease`) |

The two limits on retransmissions are 200000 in the code.  With these small ones both
sides send again and both give up, and since datagrams never vanish from the model's
network a further copy would change nothing.  `MAX_RTOS` of 0 keeps the liveness check
to minutes (a request is sent twice and no more); with 1 the same properties hold, and
`rdp_race` has 1.  `stats_len` of 3 is both phases of a request up to the first ack
that is recorded, in which copies of the first phase's messages are still about;
longer runs are what the theorems about `Q2pcRudp` are for.  A message of 3 bytes
and a buffer of 7 that is not a multiple of it give reads of two messages and a
third of one, messages in two and in three pieces, and a buffer that must grow; 20
bytes are six messages and two thirds.

All runs check for deadlock.  A cluster in which everybody has come to an end may
stutter (`Terminated`); that includes datagram clients waiting for a server that
has gone, which nothing in the code ever wakes (`Stranded`).

With duplication *and* reordering *and* loss, `MaxFaults = 3`, plain UDP breaks
`CommitValidity` and `Agreement`: an answer to one request is taken for an answer
to another.  A single duplicate already breaks `FreshSlots`.  Nothing in the
repository promises otherwise for `udp_ln`, so this is not a run; it is what `rdp_ln`
is for, where the network may do all of this as often as it likes and `Atomicity`
holds.

## 5. Fairness

`FairSpec` assumes what the operating system's scheduler gives to threads that
never block:

- weak fairness of the main thread, of each worker and of each client.  They all
  spin: reads return `EAGAIN`, waits are loops, a pause is a loop;
- strong fairness of `MTimeout`.  `wait_for_votes` compares the clock in every
  round, and the clock advances, so a thread that goes round for ever times out
  eventually.  It is strong because the action is enabled at the start of a round
  only.

Nobody is obliged to signal the server or kill a client, and the network is not
obliged to fail.  `tcp_patient` sets `WaitForever`, which disables `MTimeout`: its
liveness rests on weak fairness alone.

Over `rdp_ln` (`RFairness`) the same, with strong fairness of `RMRto`: the
retransmission timer of a request that is not answered compares the clock in every
round.  It is strong because the action is enabled only when the loop is at that
connection.  Nothing is assumed of the clients, so `ServerEnds` does not depend
on them, nor of the network.

For the delimiter: the caller polls (weak fairness of `beg_read` and the two steps
it is cut into) and releases what it is handed.  The second fails for one worker
only, the one that ignores a message from outside its bounds
(`q2pc_server_worker.c:94`), and nothing is claimed for it.

`StopCompletes` and `ServerEnds` take a main thread that is caught in its own signal
handler (`MHangs`) for one that has ended (`Over`); nothing in the code frees it, and
without a signal it does not happen.  They are claimed with timeouts only.  With a
negative `--wait` the server can hang, since `wait_for_votes` does not look at
`stop_signal`.

## 6. What is proved

The proof modules prove statements about every value of the constants (that the
`ASSUME`s and the premises named here allow).  The auxiliary invariants were put
to TLC, with the constants of `tcp.cfg`, `tcp_failures.cfg`, `tcp_patient.cfg`,
`udp_loss.cfg`, `qj.cfg`, `delimit.cfg` and `rdp.cfg` (those of `rdp` also with a `stats_len` of 4 and a `MAX_RTOS`
of 1, those of `tcp_patient` also with kills and signals, over `udp_ln` that loses and
reorders, and over `udp_qj`), before they were proved.  All proofs are checked by
`tlapm` down to the last leaf, with Z3, Zenon and LS4; run it in this directory, for
example as `tlapm Q2pcAtomicity.tla`.

**`Q2pcProof`** assumes nothing beyond the `ASSUME`s of the modules, that is, any
transport, any ids, any network faults:

| theorem | statement |
|---|---|
| `TypeCorrect` | `Spec => []TypeOK` |
| `StatsBounded` | `Spec => []StatsInBounds`, if a worker's array has room for one record |
| `BoardSafe` | `Spec => []BoardInBounds` |
| `MappingIsTheLoop` | `Lo` and `Hi` are what the loop of `server_init` computes |
| `EachPolledOnce` | the ranges of the workers partition the connections |

`TypeOK` is not inductive: that `i` stays within bounds depends on where the main
thread is, and which slots a worker polls on the partition of `server_init`
(`LoHi`: the ranges `Lo(t) .. Hi(t) - 1` lie within the connections for every
number of clients and threads).  `TypeInv` adds `LocalsOK`, an invariant of the proof
only: what the indexes are bounded by at each place of the loops.  `StatsInBounds`
needs to know that a worker whose array is full does not read on (`StatsInv`),
`BoardInBounds` that a worker in the middle of counting has passed the check on
the id (`CountedInv`).  `StatsBounded` has a real premise: with fewer records than
threads every worker's array is empty, and the first record is written past its
end; nothing in the code checks `--stats-len` for that.  `EachPolledOnce` needs the
division of `server_init` to round up, so that the threads suffice for the clients
(`ThreadsSuffice`); with uneven numbers the last threads may be left without any.

The last section of `Q2pcProof`, "What the clients have done, over any transport",
holds what the two proofs of atomicity share: `LogInv` says that what a client has
acted on was justified by the votes, `LogGrows` that acting with reason keeps it so, and
`Decides` that acting with reason is a step of `AtomicCommit`.

**`Q2pcAtomicity`** assumes `OrderedCluster`: the network may lose datagrams of `udp_ln`
but neither repeats nor reorders them, and the clients are numbered 1 to `client_count`,
each id used once.  For any number of clients and threads, over `tcp_ln`, `udp_ln` and
`udp_qj`, with timeouts, kills and signals at any time:

| theorem | statement |
|---|---|
| `ClientsAgree` | `Spec => []Agreement` |
| `CancelsValid` | `Spec => []CancelValidity` |
| `RoundsInStep` | `Spec => []EveryoneDecided` |
| `SlotsFresh` | `Spec => []FreshSlots` |
| `CommitsValid` | `Spec => []CommitValidity`, except over `udp_qj` |
| `Refinement` | `Spec => Atomicity`: the cluster implements `AtomicCommit`, except over `udp_qj` |

*The argument.*  Messages carry no request number.  What stands in for one is that
the server begins a request only when it has an ack of the decision before from
everybody, so that all clients are in the same round: that of the request, or, once
the server has stopped, of some earlier one.  `CommitInv` says this in parts:

- `RoundInv`: everybody is in round `r`, the server's own while it works on a request.
  Where the main thread is says how many messages of the round a client may have been
  sent (`Stage`).  What is under way to a client is the request, if it has not
  voted, and behind that the decision (`Downward`); what is under way from it is its vote
  of this round, and last the ack (`Upward`).  Losing messages keeps this, as does
  dropping all of them when a socket closes: that is what the lemmas about `Fewer` are for.
- So an answer that is read in a phase is of this round (`ReadIsFresh`), the slots hold what
  was said in the phase (`FreshInv`), the scan concludes what the votes were
  (`ScanInv`), and the decision is justified by them (`StatusInv`), while it is under
  way (`Downward`) and when it has been acted on (`HistoryInv`).
- When the scan of the second phase finds an ack on every slot, every client has acted
  (`Acked`), and nothing is under way to it or from it: the next round may begin
  (`RoundBegins`).  This is where a lost message makes a difference: the slot is
  "lost", and the cluster fails instead.
- The decision of a round is one (`Verdict`), because `status` changes only while no client
  has been told it.  So those who act on it agree (`AgreedInv`), whatever it is.

Once `stop_signal` is up the scan is skipped and its result is the initial value,
`request_success`.  Hence `ScanInv` and `StatusInv` claim that a success is
unanimous for a server that is not stopping, or already past the test that `MSend` makes
before each client.  That a failure has a no behind it they claim always, because only a
slot that was read can make one.  The Q-Jump branch has no such test: there cancels are valid and commits need not
be, which is the first finding of section 7.  `Reasoned` is what is left of the
justification of a decision over each transport.

*The layout.*  `Q2pcProof` has a lemma per action for types and frame lemmas for
the workers.  `Q2pcAtomicity` first proves what a step may do to one client and its
connection (`ConnSteps`: lose messages, be sent one, connect, vote or act) and that a
round only gets further (`RoundGoesOn`), then a lemma for each of these and
`RoundInv` (`RoundIdle` ... `RoundBegins`), then for each other part of `CommitInv`
that every step keeps it (`...Kept`), and last the theorems.

**`Q2pcPatient`** assumes `PatientServer`: the server does not time out
(`--wait` is negative), the network does not duplicate, and the clients are numbered 1
to `client_count`, each id used once.  Over every transport of `Q2pc`, with loss,
reordering, kills and signals:

| theorem | statement |
|---|---|
| `EveryAnswerRecorded` | `Spec => []AllRecorded` |
| `NothingOverwritten` | `Spec => NoOverwrite` |

*The argument.*  `votes_count[t]++` is a load and a store, the main thread adds the
counters up one at a time while they change, and writes 0 over them while their owners
run.  That nothing is lost has these reasons, which are the parts of `PatientInv`:

- `OneMessageInv`: of a client there is at most one message about at any time, a
  request on its way to it, its answer on the way back, or that answer being counted.
- `RangeInv`, `CountInv`: a worker records an answer before it counts it, and the slots of a worker
  are its own, so a counter is never more than the number of answers on its slots.
  The main thread's sum, of values read at different times, is no more than the
  number of all slots taken, because slots are only cleared by the main thread itself.
- `StartInv`, `PhaseInv`: it leaves the loop only with a sum of `client_count`.  Then every slot is taken,
  so every message has been answered and counted, and nothing is under way: whatever the workers do before the next request is written,
  they find nothing to read, and the counters may be cleared under their feet.

**`Q2pcRudpProof`** assumes nothing beyond the `ASSUME`s (any ids, any number of
clients, threads and retransmissions, any network, kills and signals at any
time):

| theorem | statement |
|---|---|
| `RudpTypeCorrect` | `RSpec => []RTypeOK` |
| `EachSaysOneThing` | `RSpec => []SaidOnce` |
| `EachAsksOneThing` | `RSpec => []AskedOnce` |
| `EndsInStep` | `RSpec => []InStep` |
| `EveryoneAnswered` | `RSpec => []AnsweredInTurn` |

*The argument* goes from the clients to the server.

- `SaidInv`: a client's number counts what it has done, so a datagram's number and
  what it says belong together.  The client that has given up is the difficulty:
  its next answer is swallowed, but it has moved on all the same, so no other answer
  is ever sent under that number.
- `MetInv`: a server that has left `do_connectall` has heard everybody (`peers`
  against `connected`), so no number is -1 any more.
- `StepInv`: what is under way is never ahead of its sender, and a client takes the
  server's number only, so the ends are at most one apart (`InStep`).
- `TurnInv`: while the server is not stopping, where the main thread is says where
  every connection is.  Outside of the second loop of `send_request` both ends are
  at the number of answers the server has had from everybody (`Quiet`, `Level`), and
  no request of that number is out yet; inside, each connection is between the
  request of that number and its answer (`Asking`).  A connection is marked as answered only when `current_seq` and `seq_no` differ, and
  the number sampled is never older than the stamp; the race of section 7 can make
  it newer, which loses a client but never claims an answer that has not come.

`AskedOnce` follows: requests are put on the wire inside that loop only, and while it
runs all of one number are the same.

**`Q2pcRudpAtomicity`** assumes `Numbered`: the clients are numbered 1 to
`client_count`, each id used once.  For any number of clients, threads and
retransmissions, whatever the network loses, repeats or reorders:

| theorem | statement |
|---|---|
| `RudpRefinement` | `RSpec => Atomicity`: the cluster implements `AtomicCommit` |
| `RudpDecisions` | `RSpec => [](CommitValidity /\ CancelValidity /\ Agreement)` |
| `RudpRoundsInStep` | `RSpec => []EveryoneDecided` |
| `RudpSlotsFresh` | `RSpec => []FreshSlots` |

*The argument.*  Here the sequence numbers tell which request a message is about.
While the votes are collected, `TurnInv` allows a connection two numbers only, that
of the answer to the last request and that of the vote on this one; a client votes
at odd numbers (`LogInv`), so a vote that a worker reads is a vote on this request
(`ReadIsBallot`), wherever the datagram was delayed and however often it was sent.
From there `RCommitInv` follows the votes: those on the scoreboard (`SlotsRight`, from
the moment the slot is cleared), what the scan concludes (`ScanRight`), what
`do_phase2` makes of it (`StatusRight`), and the decision on its way to a client
(`ToldRight`).  The client that has given up waiting is covered by `SaidInv`.  As over
the other transports, the conclusions of a server that is stopping are worth nothing, and nothing
follows from them, because its loops test `stop_signal` before each connection.

`RudpRoundsInStep` and `RudpSlotsFresh` say over `rdp_ln` what the runs of the other
transports check: `Quiet` and `StepInv` leave a client no entry of the log that the
server has not had (`QuietLog`), and the slot of a client holds its own vote of the
round (`VoteOf`), so a repeated answer is never counted a second time.

**`TcpDelimitProof`**, for every size of messages and buffers (a message must fit a
read buffer, which `conn_end_write` enforces):

| theorem | statement |
|---|---|
| `DelimTypes` | `Spec => []DelimTypeOK` |
| `DelimNoCaseTwo` | `Spec => []NoCaseTwo` |
| `DelimBounded` | `Spec => []Bounded` |
| `DelimAfterRelease` | `Spec => []AfterRelease` |
| `DelimInOrder` | `Spec => InOrder`: the delimiter implements `MessageStream` |

The inductive invariant `DelimInv` says that what the buffer holds, from the result
on (or from its front, if there is none), is what has been read from the socket and
not released, byte for byte (`InBuffer`); that there is a result exactly when it holds
a whole message (`Found`), so that nothing is read while there is one; and that the
buffer has its first size or twice that (`Doubled`).  A result is at the front or at
least a message behind it (`Turns`), so less than a message that is moved to the front
overwrites nothing but what was released there: that is `AfterRelease`, and of a worker
or a client that has one message outstanding it says that the message is whole.

**Only model-checked:** every liveness property (liveness under fairness is beyond
the prover), `Delivered` among them.  Over a `udp_ln` that repeats or reorders nothing is
claimed but types, array bounds and counting: the protocol has no request numbers, and a
copy of an ack that comes late can stand for the ack of a later round.  `NoOverwrite` is proved
of a server that does not time out, and holds of that only: a vote that is late, and
hidden by the no of another client, reaches its slot after the scan, and the ack is
written over it.

## 7. Findings

- **`qj_commit`: over Q-Jump, a stopping server commits a request that was not
  voted for.**  When `stop_signal` rises before `do_phase1` scans the scoreboard,
  the loop at `q2pc_server.c:441` is skipped and `do_phase1` returns its initial
  value, `q2pc_request_success`; a full statistics array is enough to raise it.
  `send_request` tests `stop_signal` before each
  write, except over Q-Jump (`q2pc_server.c:283-308`), where the commit is
  broadcast.  `README.md:4` calls q2pc "A 2-phase commit system".  Over the other
  transports the test makes the difference: `CommitsValid` is a theorem.  Over Q-Jump
  `ClientsAgree` still is: all that act on the wrong commit do.
- **`false_alarm`: a client takes a request for a protocol failure.**  When phase 1
  times out without the vote of a slow client and a later slot holds a no, the result
  is an ordinary failure of the request, although the log has just said "message lost,
  cluster failed": the `break` at `q2pc_server.c:455` leaves the `switch` and not the
  loop.  So the server sends a cancel behind a request that the client has not read.
  If one read brings the request and the beginning of the cancel, `get_messge` releases
  the request before it returns it (`q2pc_client.c:134`), and `conn_end_delimit` moves
  the beginning of the cancel over it (`q2pc_trans_tcp.c:198`).  `do_phase1` finds the type of
  the cancel at line 227, logs "Protocol failure, in phase 1 unexpected message type"
  (`q2pc_client.c:243`) and exits, and the cluster with it.  With `AfterRelease`
  nothing else can happen to it, and `ClientTakes` (`Q2pcAtomicity`) shows that a client
  never acts on the wrong message: `Refinement` holds all the same.
- **`rdp_race`: a client that has answered is given up as failed.**  The server's
  `conn_end_write` puts the request on the wire (`q2pc_trans_rudp.c:184`) and then
  notes the number whose change it waits for (line 194).  If the worker has read the
  answer in between, the number has changed already and will not change again until
  the server speaks.  The main thread sends the request again `MAX_RTOS` times to
  a client that ignores it, logs "Connection failed to client" (`q2pc_server.c:357`)
  and ends the cluster, though the vote is on its scoreboard.  `ServerEnds` shows
  that it ends, `EveryoneAnswered` that the race never works the other way round.

## 8. What is not modelled

- Setting up sockets, addresses, priorities, the `bind` retry loops: pure I/O.
- The statistics file and the logs: output only.  So are the retransmission counts
  in messages (`c_rto`, `s_rto`), which have 16 bits.
- A message size that differs between server and client (`--msize` is given to
  each): `TcpDelimit` has one.
- Option parsing (`q2pc.c`): its results are the constants.
- libchaste and the containers made from its templates: external; functions over
  the connection indexes stand for them.
- Two clients with the same id.  Nothing in the code rejects them; the runs and
  the proofs of atomicity and counting assume it does not happen.

## 9. Plan

Done: all modules of section 2, their runs and the proofs of section 6.  Every safety
property of the passing runs is a theorem.  What is left:

1. **The rounds under `dup` and `reorder`** over UDP: `udp_chaos` shows what still holds
   there on a small instance; which part of `OrderedState` survives is open.
2. **Liveness** stays with TLC.

