----------------------------- MODULE Q2pcProof -----------------------------
(***************************************************************************)
(* Theorems about Q2pc for every number of clients and threads, every      *)
(* transport and every length of the statistics.                           *)
(***************************************************************************)
EXTENDS Q2pc, TLAPS

-----------------------------------------------------------------------------
(* The connection to thread mapping. *)

\* There is at least one worker and no more than there are clients.
LEMMA ThreadsExist == /\ real_thread_count \in Nat \ {0}
                      /\ real_thread_count <= client_count
  BY ClientCountAssumption, ThreadCountAssumption DEF real_thread_count, Least

\* The quotient that server_init computes is a natural number.
LEMMA ConsPerThread == cons_per_thread \in Nat
<1>1. client_count + thread_count - 1 \in Nat
  BY ClientCountAssumption, ThreadCountAssumption
<1>2. ASSUME NEW a \in Nat, NEW b \in Nat \ {0}
      PROVE  a \div b \in Nat
  BY <1>2, SMT
<1>. QED
  BY <1>1, <1>2, ThreadCountAssumption DEF cons_per_thread

\* The product of naturals is a natural.
LEMMA NatTimes == ASSUME NEW a \in Nat, NEW b \in Nat PROVE a * b \in Nat
  BY SMT

\* A worker's connections are connections of the server.
LEMMA LoHi == ASSUME NEW t \in Threads
              PROVE  Lo(t) \in 0 .. client_count /\ Hi(t) \in 0 .. client_count
<1>1. t \in Nat /\ t + 1 \in Nat
  BY ThreadsExist DEF Threads
<1>2. t * cons_per_thread \in Nat /\ (t + 1) * cons_per_thread \in Nat
  BY <1>1, ConsPerThread, NatTimes
<1>. QED
  BY <1>2, ClientCountAssumption DEF Lo, Hi, Least

\* What division and multiplication of naturals give.
LEMMA Quotient ==
    ASSUME NEW a \in Nat, NEW b \in Nat \ {0}
    PROVE  /\ a \div b \in Nat
           /\ (a \div b) * b <= a /\ a < (a \div b) * b + b
  BY SMT

LEMMA TimesMonotonic ==
    ASSUME NEW a \in Nat, NEW b \in Nat, a <= b, NEW q \in Nat
    PROVE  a * q <= b * q
<1>1. PICK d \in Nat : b = a + d
  <2>1. b - a \in Nat /\ b = a + (b - a)
    OBVIOUS
  <2>. QED
    BY <2>1
<1>2. b * q = a * q + d * q
  BY <1>1
<1>. QED
  BY <1>2, NatTimes

\* Taken so many at a time, the threads suffice for the connections.
LEMMA ThreadsSuffice ==
    /\ cons_per_thread \in 1 .. client_count
    /\ client_count <= thread_count * cons_per_thread
<1>1. PICK q \in Nat : /\ q = cons_per_thread
                       /\ q * thread_count <= client_count + thread_count - 1
                       /\ client_count + thread_count - 1 < q * thread_count + thread_count
  <2>1. client_count + thread_count - 1 \in Nat /\ thread_count \in Nat \ {0}
    BY ClientCountAssumption, ThreadCountAssumption
  <2>. QED
    BY <2>1, Quotient DEF cons_per_thread
<1>2. PICK p \in Nat : p = q * thread_count /\ p = thread_count * q
  BY NatTimes, ThreadCountAssumption
<1>3. client_count <= p
  BY <1>1, <1>2, ClientCountAssumption, ThreadCountAssumption
<1>4. q # 0
  BY <1>2, <1>3, ClientCountAssumption, ThreadCountAssumption
<1>5. ~ (client_count + 1 <= q)
  <2>. SUFFICES ASSUME client_count + 1 <= q
                PROVE  FALSE
    OBVIOUS
  <2>1. (client_count + 1) * thread_count <= p
    BY <1>2, TimesMonotonic, ClientCountAssumption, ThreadCountAssumption
  <2>2. client_count * 1 <= client_count * thread_count
    <3>1. 1 * client_count <= thread_count * client_count
      BY TimesMonotonic, ClientCountAssumption, ThreadCountAssumption
    <3>. QED
      BY <3>1, ClientCountAssumption, ThreadCountAssumption
  <2>3. (client_count + 1) * thread_count = client_count * thread_count + thread_count
    BY ClientCountAssumption, ThreadCountAssumption
  <2>4. client_count * thread_count \in Nat
    BY NatTimes, ClientCountAssumption, ThreadCountAssumption
  <2>. QED
    BY <1>1, <1>2, <2>1, <2>2, <2>3, <2>4, ClientCountAssumption, ThreadCountAssumption
<1>. QED
  BY <1>1, <1>2, <1>3, <1>4, <1>5, ClientCountAssumption

\* The closed form of the mapping is what the loop of server_init computes
\* (q2pc_server.c:217-258).
THEOREM MappingIsTheLoop ==
    /\ Lo(0) = 0 /\ Hi(0) = cons_per_thread
    /\ \A t \in Threads : t + 1 \in Threads =>
          /\ Lo(t + 1) = Hi(t)
          /\ Hi(t + 1) = Least(client_count, Lo(t + 1) + cons_per_thread)
<1>1. PICK q \in 1 .. client_count : q = cons_per_thread
  BY ThreadsSuffice
<1>2. Lo(0) = 0 /\ Hi(0) = cons_per_thread
  BY <1>1, ClientCountAssumption DEF Lo, Hi, Least
<1>3. ASSUME NEW t \in Threads
      PROVE  Hi(t + 1) = Least(client_count, Lo(t + 1) + cons_per_thread)
  <2>1. PICK u \in Nat : u = t + 1
    BY ThreadsExist DEF Threads
  <2>2. PICK p \in Nat : p = u * q
    BY <1>1, NatTimes
  <2>3. (u + 1) * q = p + q
    BY <1>1, <2>2
  <2>. QED
    BY <1>1, <2>1, <2>2, <2>3, ClientCountAssumption DEF Lo, Hi, Least
<1>. QED
  BY <1>2, <1>3 DEF Lo, Hi

\* Every connection is polled by one worker, and by no other, however unevenly
\* the clients divide among the threads (q2pc_server.c:217-258).
THEOREM EachPolledOnce ==
    \A c \in Conns : \E t \in Threads :
        \A u \in Threads : c \in Lo(u) .. Hi(u) - 1 <=> u = t
<1>. SUFFICES ASSUME NEW c \in Conns
              PROVE  \E t \in Threads :
                         \A u \in Threads : c \in Lo(u) .. Hi(u) - 1 <=> u = t
  OBVIOUS
<1>1. PICK q \in Nat \ {0} : /\ q = cons_per_thread
                             /\ client_count <= thread_count * q
  BY ThreadsSuffice, ClientCountAssumption
<1>2. c \in Nat /\ c < client_count
  BY ClientCountAssumption DEF Conns
<1>3. PICK t \in Nat : t * q <= c /\ c < t * q + q
  BY <1>1, <1>2, Quotient
<1>4. t \in Threads
  <2>1. ~ (thread_count <= t)
    <3>1. thread_count <= t => thread_count * q <= t * q
      BY <1>1, TimesMonotonic, ThreadCountAssumption
    <3>2. t * q \in Nat /\ thread_count * q \in Nat
      BY <1>1, NatTimes, ThreadCountAssumption
    <3>. QED
      BY <1>1, <1>2, <1>3, <3>1, <3>2, ClientCountAssumption
  <2>2. t <= t * q
    <3>1. 1 * t <= q * t
      BY <1>1, TimesMonotonic
    <3>. QED
      BY <1>1, <3>1
  <2>3. t < client_count
    BY <1>1, <1>2, <1>3, <2>2, NatTimes, ClientCountAssumption
  <2>. QED
    BY <2>1, <2>3, ClientCountAssumption, ThreadCountAssumption
    DEF Threads, real_thread_count, Least
<1>5. ASSUME NEW u \in Threads
      PROVE  c \in Lo(u) .. Hi(u) - 1 <=> u = t
  <2>0. u \in Nat
    BY ThreadsExist DEF Threads
  <2>1. PICK a \in Nat : a = u * q
    BY <1>1, <2>0, NatTimes
  <2>2. PICK b \in Nat : b = t * q
    BY <1>1, NatTimes
  <2>3. (u + 1) * q = a + q /\ (t + 1) * q = b + q
    BY <1>1, <2>0, <2>1, <2>2
  <2>4. /\ Lo(u) = Least(a, client_count)
        /\ Hi(u) = Least(a + q, client_count)
    BY <1>1, <2>1, <2>3 DEF Lo, Hi
  <2>5. u < t => a + q <= b
    BY <1>1, <2>0, <2>2, <2>3, TimesMonotonic
  <2>6. t < u => b + q <= a
    BY <1>1, <2>0, <2>1, <2>3, TimesMonotonic
  <2>7. CASE u = t
    BY <1>1, <1>2, <1>3, <2>1, <2>2, <2>4, <2>7, ClientCountAssumption DEF Least
  <2>8. CASE u < t
    BY <1>1, <1>2, <1>3, <2>2, <2>4, <2>5, <2>8, ClientCountAssumption DEF Least
  <2>9. CASE t < u
    BY <1>1, <1>2, <1>3, <2>2, <2>4, <2>6, <2>9, ClientCountAssumption DEF Least
  <2>. QED
    BY <2>0, <2>7, <2>8, <2>9
<1>. QED
  BY <1>4, <1>5

\* The id that a message carries is an integer.
LEMMA HostIdType == HostId \in [Conns -> Int]
  BY ClientIdAssumption DEF HostId

-----------------------------------------------------------------------------
(* Types. *)

\* No loop of the main thread (q2pc_server.c:141-524) or of a worker
\* (q2pc_server_worker.c:68) runs past the connections, slots or threads it
\* indexes, do_phase1 returns no result of do_phase2, and no worker runs before
\* server_init starts it, whatever interrupts them.
LocalsOK ==
    /\ mpc \in {"connect", "reset", "write", "unpause"} => i < client_count
    /\ mpc \in {"wait", "clear"} => i < real_thread_count
    /\ phase = 1 /\ mpc \in {"scan", "clear", "unpause"} => result \in Phase1Result
    /\ mpc \in {"connect", "spawn"} => \A t \in Threads : wpc[t] = "off"
    /\ \A t \in Threads :
          /\ wpc[t] \in {"off", "top", "pause", "zero"} => wi[t] = Lo(t)
          /\ wpc[t] \in {"poll", "load", "store", "stat"} => wi[t] < Hi(t)

TypeInv == TypeOK /\ LocalsOK

LEMMA TypeInit == Init => TypeInv
<1>. SUFFICES ASSUME Init PROVE TypeInv
  OBVIOUS
<1>1. NetTypeOK
  BY FaultsAssumption DEF Init, NetInit, NetTypeOK
<1>2. MainTypeOK
  BY ClientCountAssumption DEF Init, ServerInit, MainTypeOK, MainPc
<1>3. SharedTypeOK
  BY DEF Init, ServerInit, SharedTypeOK, Slot
<1>4. WorkerTypeOK
  BY LoHi DEF Init, ServerInit, WorkerTypeOK, WorkerPc
<1>5. ClientTypeOK
  BY ClientIdAssumption DEF Init, ClientInit, ClientTypeOK
<1>6. LocalsOK
  BY ClientCountAssumption DEF Init, ServerInit, LocalsOK
<1>. QED
  BY <1>1, <1>2, <1>3, <1>4, <1>5, <1>6 DEF TypeInv, TypeOK

\* Lo and Hi are integers that server_init orders and keeps within the server.
LEMMA ThreadInts ==
    \A t \in Threads : Lo(t) \in 0 .. client_count /\ Hi(t) \in 0 .. client_count
  BY LoHi

\* A worker in its loop over its connections is at one of them.
LEMMA WorkerConns ==
    ASSUME TypeInv, NEW t \in Threads, wi[t] < Hi(t)
    PROVE  wi[t] \in Conns
  BY LoHi, ClientCountAssumption DEF TypeInv, TypeOK, WorkerTypeOK, Conns

\* Writing a message to a connection keeps the type of the channel.
LEMMA SentTypes ==
    ASSUME NEW ch \in [Conns -> Seq(MsgType)], NEW c \in Conns, NEW m \in MsgType
    PROVE  Sent(ch, c, m) \in [Conns -> Seq(MsgType)]
<1>1. Append(ch[c], m) \in Seq(MsgType)
  OBVIOUS
<1>. QED
  BY <1>1 DEF Sent

\* So does taking the first one off it.
LEMMA TakenTypes ==
    ASSUME NEW ch \in [Conns -> Seq(MsgType)], NEW c \in Conns, ch[c] # <<>>
    PROVE  /\ Head(ch[c]) \in MsgType
           /\ [ch EXCEPT ![c] = Tail(@)] \in [Conns -> Seq(MsgType)]
<1>1. ch[c] \in Seq(MsgType)
  OBVIOUS
<1>2. Head(ch[c]) \in MsgType /\ Tail(ch[c]) \in Seq(MsgType)
  BY <1>1
<1>. QED
  BY <1>2

\* And closing some of the connections.
LEMMA DroppedTypes ==
    ASSUME NEW ch \in [Conns -> Seq(MsgType)], NEW S
    PROVE  Dropped(ch, S) \in [Conns -> Seq(MsgType)]
<1>1. <<>> \in Seq(MsgType)
  OBVIOUS
<1>. QED
  BY <1>1 DEF Dropped

\* A loop over a worker's connections goes on to the next one or starts again.
LEMMA AdvanceTypes ==
    ASSUME WorkerTypeOK, NEW t \in Threads, wi[t] < Hi(t), Advance(t)
    PROVE  /\ wi' \in [Threads -> 0 .. client_count]
           /\ wpc' \in [Threads -> WorkerPc]
<1>1. wi[t] + 1 \in 0 .. client_count
  BY LoHi, ClientCountAssumption DEF WorkerTypeOK
<1>2. wi' = [wi EXCEPT ![t] = wi[t] + 1] \/ wi' = [wi EXCEPT ![t] = Lo(t)]
  BY DEF Advance, Break
<1>3. wpc' = [wpc EXCEPT ![t] = "poll"] \/ wpc' = [wpc EXCEPT ![t] = "top"]
  BY DEF Advance, Break
<1>. QED
  BY <1>1, <1>2, <1>3, LoHi DEF WorkerTypeOK, WorkerPc

\* A process that is gone at once leaves every variable its type.
LEMMA DieTypes ==
    ASSUME TypeInv, Die, UNCHANGED clientVars
    PROVE  TypeInv'
<1>. USE DEF Die
<1>1. NetTypeOK'
  BY DEF TypeInv, TypeOK, NetTypeOK, Close, Dropped
<1>2. MainTypeOK'
  BY DEF TypeInv, TypeOK, MainTypeOK, MainPc
<1>3. WorkerTypeOK'
  BY DEF TypeInv, TypeOK, WorkerTypeOK, WorkerPc
<1>4. LocalsOK'
  BY DEF TypeInv, LocalsOK
<1>. QED
  BY <1>1, <1>2, <1>3, <1>4
  DEF TypeInv, TypeOK, SharedTypeOK, ClientTypeOK, sharedVars, clientVars

\* The main thread keeps types and indexes right.
LEMMA MainTypes ==
    ASSUME TypeInv, Main \/ MSignal, UNCHANGED clientVars
    PROVE  TypeInv'
<1>0. NetTypeOK /\ MainTypeOK /\ SharedTypeOK
      /\ WorkerTypeOK /\ ClientTypeOK /\ LocalsOK
  BY DEF TypeInv, TypeOK
<1>1. CASE MConnect
  <2>1. NetTypeOK'
    <3>1. i \in Conns
      BY <1>0, <1>1, ClientCountAssumption DEF MConnect, MainTypeOK, LocalsOK, Conns
    <3>2. \/ toServer' = toServer
          \/ toServer[i] # <<>> /\ toServer' = [toServer EXCEPT ![i] = Tail(@)]
      BY <1>1 DEF MConnect
    <3>3. toServer' \in [Conns -> Seq(MsgType)]
      <4>1. CASE toServer[i] # <<>> /\ toServer' = [toServer EXCEPT ![i] = Tail(@)]
        BY <1>0, <3>1, <4>1, TakenTypes DEF NetTypeOK
      <4>. QED
        BY <1>0, <3>2, <4>1 DEF NetTypeOK
    <3>. QED
      BY <1>0, <1>1, <3>1, <3>3 DEF MConnect, NetTypeOK
  <2>2. MainTypeOK'
    BY <1>0, <1>1, ClientCountAssumption
    DEF MConnect, NextConn, MainTypeOK, LocalsOK, MainPc, mainVars
  <2>3. LocalsOK'
    BY <1>0, <1>1, ClientCountAssumption
    DEF MConnect, NextConn, MainTypeOK, LocalsOK, mainVars, workerVars
  <2>. QED
    BY <2>1, <2>2, <2>3, <1>0, <1>1
    DEF MConnect, NextConn, TypeInv, TypeOK, SharedTypeOK, WorkerTypeOK,
        ClientTypeOK, sharedVars, mainVars, workerVars, clientVars, netVars,
        serverVars
<1>2. CASE MSpawn
  <2>1. MainTypeOK'
    BY <1>0, <1>2
    DEF MSpawn, MainTypeOK, MainPc, mainVars
  <2>2. WorkerTypeOK'
    BY <1>0, <1>2
    DEF MSpawn, WorkerTypeOK, WorkerPc, workerVars
  <2>3. LocalsOK'
    BY <1>0, <1>2
    DEF MSpawn, LocalsOK, mainVars, workerVars
  <2>. QED
    BY <2>1, <2>2, <2>3, <1>0, <1>2
    DEF MSpawn, TypeInv, TypeOK, NetTypeOK, SharedTypeOK, ClientTypeOK,
        sharedVars, mainVars, workerVars, clientVars, netVars, serverVars
<1>3. CASE MLoop
  <2>1. MainTypeOK'
    BY <1>0, <1>3, ClientCountAssumption
    DEF MLoop, MainTypeOK, MainPc, Phase1Result, Result, mainVars
  <2>2. LocalsOK'
    BY <1>0, <1>3, ClientCountAssumption
    DEF MLoop, LocalsOK, mainVars, workerVars
  <2>. QED
    BY <2>1, <2>2, <1>0, <1>3
    DEF MLoop, TypeInv, TypeOK, NetTypeOK, SharedTypeOK, WorkerTypeOK,
        ClientTypeOK, sharedVars, mainVars, workerVars, clientVars, netVars,
        serverVars
<1>4. CASE MReset
  <2>1. MainTypeOK'
    BY <1>0, <1>4, ClientCountAssumption
    DEF MReset, AfterReset, MainTypeOK, LocalsOK, MainPc, mainVars
  <2>2. SharedTypeOK'
    BY <1>0, <1>4
    DEF MReset, AfterReset, SharedTypeOK, Slot, sharedVars
  <2>3. LocalsOK'
    BY <1>0, <1>4, ClientCountAssumption
    DEF MReset, AfterReset, MainTypeOK, LocalsOK, mainVars, workerVars
  <2>. QED
    BY <2>1, <2>2, <2>3, <1>0, <1>4
    DEF MReset, AfterReset, TypeInv, TypeOK, NetTypeOK, WorkerTypeOK,
        ClientTypeOK, sharedVars, mainVars, workerVars, clientVars, netVars,
        serverVars
<1>5. CASE MBroadcast
  <2>1. NetTypeOK'
    BY <1>0, <1>5
    DEF MBroadcast, NetTypeOK, Broadcast, Request, MsgType, netVars
  <2>2. MainTypeOK'
    BY <1>0, <1>5, ClientCountAssumption
    DEF MBroadcast, MainTypeOK, MainPc, mainVars
  <2>3. LocalsOK'
    BY <1>0, <1>5, ThreadsExist
    DEF MBroadcast, LocalsOK, mainVars, workerVars
  <2>. QED
    BY <2>1, <2>2, <2>3, <1>0, <1>5
    DEF MBroadcast, TypeInv, TypeOK, SharedTypeOK, WorkerTypeOK, ClientTypeOK,
        sharedVars, mainVars, workerVars, clientVars, netVars, serverVars
<1>6. CASE MSend
  <2>1. MainTypeOK'
    BY <1>0, <1>6, ClientCountAssumption
    DEF MSend, MainTypeOK, MainPc, mainVars
  <2>2. LocalsOK'
    BY <1>0, <1>6, ThreadsExist, ClientCountAssumption
    DEF MSend, MainTypeOK, LocalsOK, mainVars, workerVars
  <2>. QED
    BY <2>1, <2>2, <1>0, <1>6
    DEF MSend, TypeInv, TypeOK, NetTypeOK, SharedTypeOK, WorkerTypeOK,
        ClientTypeOK, sharedVars, mainVars, workerVars, clientVars, netVars,
        serverVars
<1>7. CASE MWrite
  <2>1. NetTypeOK'
    <3>1. i \in Conns
      BY <1>0, <1>7, ClientCountAssumption DEF MWrite, MainTypeOK, LocalsOK, Conns
    <3>2. Request \in MsgType
      BY DEF Request, MsgType
    <3>3. toClient' \in [Conns -> Seq(MsgType)]
      BY <1>0, <1>7, <3>1, <3>2, SentTypes DEF MWrite, NetTypeOK
    <3>. QED
      BY <1>0, <1>7, <3>3 DEF MWrite, NetTypeOK
  <2>2. MainTypeOK'
    BY <1>0, <1>7, ClientCountAssumption
    DEF MWrite, MainTypeOK, LocalsOK, MainPc, mainVars
  <2>3. LocalsOK'
    BY <1>0, <1>7
    DEF MWrite, LocalsOK, mainVars, workerVars
  <2>. QED
    BY <2>1, <2>2, <2>3, <1>0, <1>7
    DEF MWrite, TypeInv, TypeOK, SharedTypeOK, WorkerTypeOK, ClientTypeOK,
        sharedVars, mainVars, workerVars, clientVars, netVars, serverVars
<1>8. CASE MWriteEfin
  <2>1. MainTypeOK'
    BY <1>0, <1>8
    DEF MWriteEfin, MainTypeOK, MainPc, mainVars
  <2>2. LocalsOK'
    BY <1>0, <1>8
    DEF MWriteEfin, LocalsOK, mainVars, workerVars
  <2>. QED
    BY <2>1, <2>2, <1>0, <1>8
    DEF MWriteEfin, TypeInv, TypeOK, NetTypeOK, SharedTypeOK, WorkerTypeOK,
        ClientTypeOK, sharedVars, mainVars, workerVars, clientVars, netVars,
        serverVars
<1>9. CASE MWriteDies
  BY <1>9, DieTypes DEF MWriteDies
<1>10. CASE MTimeout
  <2>1. MainTypeOK'
    BY <1>0, <1>10
    DEF MTimeout, MainTypeOK, MainPc, mainVars
  <2>2. LocalsOK'
    BY <1>0, <1>10
    DEF MTimeout, LocalsOK, mainVars, workerVars
  <2>. QED
    BY <2>1, <2>2, <1>0, <1>10
    DEF MTimeout, TypeInv, TypeOK, NetTypeOK, SharedTypeOK, WorkerTypeOK,
        ClientTypeOK, sharedVars, mainVars, workerVars, clientVars, netVars,
        serverVars
<1>11. CASE MSum
  <2>1. MainTypeOK'
    BY <1>0, <1>11, ThreadsExist, ClientCountAssumption
    DEF MSum, MainTypeOK, SharedTypeOK, LocalsOK, MainPc, Threads, mainVars
  <2>2. LocalsOK'
    BY <1>0, <1>11, ThreadsExist
    DEF MSum, MainTypeOK, LocalsOK, mainVars, workerVars
  <2>. QED
    BY <2>1, <2>2, <1>0, <1>11
    DEF MSum, TypeInv, TypeOK, NetTypeOK, SharedTypeOK, WorkerTypeOK,
        ClientTypeOK, sharedVars, mainVars, workerVars, clientVars, netVars,
        serverVars
<1>12. CASE MPause
  <2>1. MainTypeOK'
    BY <1>0, <1>12, ClientCountAssumption
    DEF MPause, MainTypeOK, MainPc, Phase1Result, Result, mainVars
  <2>2. SharedTypeOK'
    BY <1>0, <1>12
    DEF MPause, SharedTypeOK, sharedVars
  <2>3. LocalsOK'
    BY <1>0, <1>12
    DEF MPause, MainTypeOK, LocalsOK, Phase1Result, mainVars, workerVars
  <2>. QED
    BY <2>1, <2>2, <2>3, <1>0, <1>12
    DEF MPause, TypeInv, TypeOK, NetTypeOK, WorkerTypeOK, ClientTypeOK,
        sharedVars, mainVars, workerVars, clientVars, netVars, serverVars
<1>13. CASE MScanEnd
  <2>1. MainTypeOK'
    BY <1>0, <1>13, ClientCountAssumption
    DEF MScanEnd, MainTypeOK, MainPc, mainVars
  <2>2. LocalsOK'
    BY <1>0, <1>13, ThreadsExist
    DEF MScanEnd, LocalsOK, mainVars, workerVars
  <2>. QED
    BY <2>1, <2>2, <1>0, <1>13
    DEF MScanEnd, TypeInv, TypeOK, NetTypeOK, SharedTypeOK, WorkerTypeOK,
        ClientTypeOK, sharedVars, mainVars, workerVars, clientVars, netVars,
        serverVars
<1>14. CASE MScan
  <2>1. MainTypeOK'
    BY <1>0, <1>14, ClientCountAssumption
    DEF MScan, ProtocolViolation, Scanned, MainTypeOK, MainPc, Phase1Result,
        Result, mainVars
  <2>2. LocalsOK'
    BY <1>0, <1>14
    DEF MScan, ProtocolViolation, Scanned, MainTypeOK, LocalsOK, Phase1Result,
        mainVars, workerVars
  <2>. QED
    BY <2>1, <2>2, <1>0, <1>14
    DEF MScan, ProtocolViolation, Scanned, TypeInv, TypeOK, NetTypeOK,
        SharedTypeOK, WorkerTypeOK, ClientTypeOK, sharedVars, mainVars,
        workerVars, clientVars, netVars, serverVars
<1>15. CASE MClear
  <2>1. MainTypeOK'
    BY <1>0, <1>15, ThreadsExist, ClientCountAssumption
    DEF MClear, MainTypeOK, LocalsOK, MainPc, mainVars
  <2>2. SharedTypeOK'
    BY <1>0, <1>15
    DEF MClear, SharedTypeOK, Threads, sharedVars
  <2>3. LocalsOK'
    BY <1>0, <1>15, ThreadsExist, ClientCountAssumption
    DEF MClear, MainTypeOK, LocalsOK, mainVars, workerVars
  <2>. QED
    BY <2>1, <2>2, <2>3, <1>0, <1>15
    DEF MClear, TypeInv, TypeOK, NetTypeOK, WorkerTypeOK, ClientTypeOK,
        sharedVars, mainVars, workerVars, clientVars, netVars, serverVars
<1>16. CASE MUnpause
  <2>1. MainTypeOK'
    BY <1>0, <1>16
    DEF MUnpause, MainTypeOK, LocalsOK, MainPc, Phase1Result, mainVars
  <2>2. SharedTypeOK'
    BY <1>0, <1>16
    DEF MUnpause, SharedTypeOK, sharedVars
  <2>3. LocalsOK'
    BY <1>0, <1>16
    DEF MUnpause, MainTypeOK, LocalsOK, mainVars, workerVars
  <2>. QED
    BY <2>1, <2>2, <2>3, <1>0, <1>16
    DEF MUnpause, TypeInv, TypeOK, NetTypeOK, WorkerTypeOK, ClientTypeOK,
        sharedVars, mainVars, workerVars, clientVars, netVars, serverVars
<1>17. CASE MReport
  <2>1. MainTypeOK'
    BY <1>0, <1>17
    DEF MReport, MainTypeOK, MainPc, mainVars
  <2>2. LocalsOK'
    BY <1>0, <1>17
    DEF MReport, LocalsOK, mainVars, workerVars
  <2>. QED
    BY <2>1, <2>2, <1>0, <1>17
    DEF MReport, TypeInv, TypeOK, NetTypeOK, SharedTypeOK, WorkerTypeOK,
        ClientTypeOK, sharedVars, mainVars, workerVars, clientVars, netVars,
        serverVars
<1>18. CASE MCleanup
  <2>1. MainTypeOK'
    BY <1>0, <1>18
    DEF MCleanup, MainTypeOK, MainPc, mainVars
  <2>2. SharedTypeOK'
    BY <1>0, <1>18
    DEF MCleanup, SharedTypeOK, sharedVars
  <2>3. LocalsOK'
    BY <1>0, <1>18
    DEF MCleanup, LocalsOK, mainVars, workerVars
  <2>. QED
    BY <2>1, <2>2, <2>3, <1>0, <1>18
    DEF MCleanup, TypeInv, TypeOK, NetTypeOK, WorkerTypeOK, ClientTypeOK,
        sharedVars, mainVars, workerVars, clientVars, netVars, serverVars
<1>19. CASE MJoin
  <2>1. NetTypeOK'
    BY <1>0, <1>19
    DEF MJoin, NetTypeOK, Close, Dropped, netVars
  <2>2. MainTypeOK'
    BY <1>0, <1>19
    DEF MJoin, MainTypeOK, MainPc, mainVars
  <2>3. LocalsOK'
    BY <1>0, <1>19
    DEF MJoin, LocalsOK, mainVars, workerVars
  <2>. QED
    BY <2>1, <2>2, <2>3, <1>0, <1>19
    DEF MJoin, TypeInv, TypeOK, SharedTypeOK, WorkerTypeOK, ClientTypeOK,
        sharedVars, mainVars, workerVars, clientVars, netVars, serverVars
<1>20. CASE MSignal
  <2>1. CASE MInterrupted
    <3>1. MainTypeOK'
      BY <1>0, <2>1 DEF MInterrupted, MainTypeOK, MainPc, mainVars
    <3>2. LocalsOK'
      BY <1>0, <2>1 DEF MInterrupted, LocalsOK, mainVars, workerVars
    <3>. QED
      BY <3>1, <3>2, <1>0, <2>1
      DEF MInterrupted, TypeInv, TypeOK, NetTypeOK, SharedTypeOK, WorkerTypeOK,
          ClientTypeOK, sharedVars, mainVars, workerVars, clientVars, netVars
  <2>2. CASE MInterruptedAgain
    BY <2>2, DieTypes DEF MInterruptedAgain
  <2>3. CASE MHangs
    <3>1. MainTypeOK'
      BY <1>0, <2>3 DEF MHangs, MainTypeOK, MainPc, mainVars
    <3>2. WorkerTypeOK'
      BY <1>0, <2>3 DEF MHangs, WorkerTypeOK, WorkerPc, workerVars
    <3>3. LocalsOK'
      BY <1>0, <2>3 DEF MHangs, LocalsOK, WorkerTypeOK, mainVars, workerVars
    <3>. QED
      BY <3>1, <3>2, <3>3, <1>0, <2>3
      DEF MHangs, TypeInv, TypeOK, NetTypeOK, SharedTypeOK,
          ClientTypeOK, sharedVars, mainVars, workerVars, clientVars, netVars
  <2>. QED
    BY <1>20, <2>1, <2>2, <2>3 DEF MSignal
<1>. QED
  BY <1>1, <1>2, <1>3, <1>4, <1>5, <1>6, <1>7, <1>8, <1>9, <1>10, <1>11, <1>12,
     <1>13, <1>14, <1>15, <1>16, <1>17, <1>18, <1>19, <1>20
  DEF Main

\* So does every worker.
LEMMA WorkerTypes ==
    ASSUME TypeInv, NEW t \in Threads, Worker(t), UNCHANGED clientVars
    PROVE  TypeInv'
<1>0. NetTypeOK /\ MainTypeOK /\ SharedTypeOK
      /\ WorkerTypeOK /\ ClientTypeOK /\ LocalsOK
  BY DEF TypeInv, TypeOK
<1>1. CASE WStop(t)
  <2>1. WorkerTypeOK'
    BY <1>0, <1>1
    DEF WStop, WorkerTypeOK, WorkerPc, workerVars
  <2>2. LocalsOK'
    BY <1>0, <1>1
    DEF WStop, WorkerTypeOK, LocalsOK, mainVars, workerVars
  <2>. QED
    BY <2>1, <2>2, <1>0, <1>1
    DEF WStop, TypeInv, TypeOK, NetTypeOK, MainTypeOK, SharedTypeOK,
        ClientTypeOK, sharedVars, mainVars, workerVars, clientVars, netVars,
        serverVars
<1>2. CASE WPause(t)
  <2>1. WorkerTypeOK'
    BY <1>0, <1>2
    DEF WPause, WorkerTypeOK, WorkerPc, workerVars
  <2>2. LocalsOK'
    BY <1>0, <1>2, ThreadInts
    DEF WPause, WorkerTypeOK, LocalsOK, mainVars, workerVars
  <2>. QED
    BY <2>1, <2>2, <1>0, <1>2
    DEF WPause, TypeInv, TypeOK, NetTypeOK, MainTypeOK, SharedTypeOK,
        ClientTypeOK, sharedVars, mainVars, workerVars, clientVars, netVars,
        serverVars
<1>3. CASE WZero(t)
  <2>1. SharedTypeOK'
    BY <1>0, <1>3
    DEF WZero, SharedTypeOK, sharedVars
  <2>2. WorkerTypeOK'
    BY <1>0, <1>3
    DEF WZero, WorkerTypeOK, WorkerPc, workerVars
  <2>3. LocalsOK'
    BY <1>0, <1>3
    DEF WZero, WorkerTypeOK, LocalsOK, mainVars, workerVars
  <2>. QED
    BY <2>1, <2>2, <2>3, <1>0, <1>3
    DEF WZero, TypeInv, TypeOK, NetTypeOK, MainTypeOK, ClientTypeOK, sharedVars,
        mainVars, workerVars, clientVars, netVars, serverVars
<1>4. CASE WAgain(t)
  <2>1. WorkerTypeOK'
    BY <1>0, <1>4, AdvanceTypes
    DEF WAgain, Advance, Break, WorkerTypeOK, LocalsOK, workerVars
  <2>2. LocalsOK'
    BY <1>0, <1>4, ThreadInts
    DEF WAgain, Advance, Break, WorkerTypeOK, LocalsOK, mainVars, workerVars
  <2>. QED
    BY <2>1, <2>2, <1>0, <1>4
    DEF WAgain, Advance, Break, TypeInv, TypeOK, NetTypeOK, MainTypeOK,
        SharedTypeOK, ClientTypeOK, sharedVars, mainVars, workerVars, clientVars,
        netVars, serverVars
<1>5. CASE WEfin(t)
  <2>1. SharedTypeOK'
    BY <1>0, <1>5
    DEF WEfin, Break, SharedTypeOK, sharedVars
  <2>2. WorkerTypeOK'
    BY <1>0, <1>5, ThreadInts
    DEF WEfin, Break, WorkerTypeOK, WorkerPc, workerVars
  <2>3. LocalsOK'
    BY <1>0, <1>5, ThreadInts
    DEF WEfin, Break, WorkerTypeOK, LocalsOK, mainVars, workerVars
  <2>. QED
    BY <2>1, <2>2, <2>3, <1>0, <1>5
    DEF WEfin, Break, TypeInv, TypeOK, NetTypeOK, MainTypeOK, ClientTypeOK,
        sharedVars, mainVars, workerVars, clientVars, netVars, serverVars
<1>6. CASE WReadDies(t)
  <2>1. NetTypeOK'
    BY <1>0, <1>6
    DEF WReadDies, Die, NetTypeOK, Close, Dropped, netVars
  <2>2. MainTypeOK'
    BY <1>0, <1>6
    DEF WReadDies, Die, MainTypeOK, MainPc, mainVars
  <2>3. WorkerTypeOK'
    BY <1>0, <1>6
    DEF WReadDies, Die, WorkerTypeOK, WorkerPc, workerVars
  <2>4. LocalsOK'
    BY <1>0, <1>6
    DEF WReadDies, Die, WorkerTypeOK, LocalsOK, mainVars, workerVars
  <2>. QED
    BY <2>1, <2>2, <2>3, <2>4, <1>0, <1>6
    DEF WReadDies, Die, TypeInv, TypeOK, SharedTypeOK, ClientTypeOK, sharedVars,
        mainVars, workerVars, clientVars, netVars, serverVars
<1>7. CASE WIgnore(t)
  <2>1. NetTypeOK'
    <3>1. wi[t] \in Conns
      BY <1>0, <1>7, WorkerConns DEF WIgnore, LocalsOK
    <3>2. \/ toServer' = toServer
          \/ /\ toServer[wi[t]] # <<>>
             /\ toServer' = [toServer EXCEPT ![wi[t]] = Tail(@)]
      BY <1>7 DEF WIgnore
    <3>3. toServer' \in [Conns -> Seq(MsgType)]
      <4>1. CASE toServer[wi[t]] # <<>> /\ toServer' = [toServer EXCEPT ![wi[t]] = Tail(@)]
        BY <1>0, <3>1, <4>1, TakenTypes DEF NetTypeOK
      <4>. QED
        BY <1>0, <3>2, <4>1 DEF NetTypeOK
    <3>. QED
      BY <1>0, <1>7, <3>3 DEF WIgnore, NetTypeOK
  <2>2. WorkerTypeOK'
    <3>1. wi[t] < Hi(t) /\ wi[t] \in Conns
      BY <1>0, <1>7, WorkerConns DEF WIgnore, LocalsOK
    <3>2. Advance(t) /\ wtmp' = wtmp /\ stats_idx' = stats_idx
          /\ unread' \in {unread, unread \cup {wi[t]}}
      BY <1>7 DEF WIgnore
    <3>. QED
      BY <1>0, <3>1, <3>2, AdvanceTypes DEF WorkerTypeOK
  <2>3. LocalsOK'
    BY <1>0, <1>7, ThreadInts
    DEF WIgnore, Advance, Break, WorkerTypeOK, LocalsOK, mainVars, workerVars
  <2>. QED
    BY <2>1, <2>2, <2>3, <1>0, <1>7
    DEF WIgnore, Advance, Break, TypeInv, TypeOK, MainTypeOK, SharedTypeOK,
        ClientTypeOK, sharedVars, mainVars, workerVars, clientVars, netVars,
        serverVars
<1>8. CASE WVote(t)
  <2>1. NetTypeOK'
    BY <1>0, <1>8, WorkerConns
    DEF WVote, NetTypeOK, WorkerTypeOK, LocalsOK, netVars
  <2>2. SharedTypeOK'
    BY <1>0, <1>8, WorkerConns, TakenTypes
    DEF WVote, NetTypeOK, SharedTypeOK, LocalsOK, Slot, sharedVars
  <2>3. WorkerTypeOK'
    BY <1>0, <1>8
    DEF WVote, WorkerTypeOK, WorkerPc, workerVars
  <2>4. LocalsOK'
    BY <1>0, <1>8, ThreadInts
    DEF WVote, WorkerTypeOK, LocalsOK, mainVars, workerVars
  <2>. QED
    BY <2>1, <2>2, <2>3, <2>4, <1>0, <1>8
    DEF WVote, TypeInv, TypeOK, MainTypeOK, ClientTypeOK, sharedVars, mainVars,
        workerVars, clientVars, netVars, serverVars
<1>9. CASE WLoad(t)
  <2>1. WorkerTypeOK'
    BY <1>0, <1>9
    DEF WLoad, SharedTypeOK, WorkerTypeOK, WorkerPc, workerVars
  <2>2. LocalsOK'
    BY <1>0, <1>9
    DEF WLoad, WorkerTypeOK, LocalsOK, mainVars, workerVars
  <2>. QED
    BY <2>1, <2>2, <1>0, <1>9
    DEF WLoad, TypeInv, TypeOK, NetTypeOK, MainTypeOK, SharedTypeOK,
        ClientTypeOK, sharedVars, mainVars, workerVars, clientVars, netVars,
        serverVars
<1>10. CASE WStore(t)
  <2>1. SharedTypeOK'
    BY <1>0, <1>10
    DEF WStore, SharedTypeOK, WorkerTypeOK, sharedVars
  <2>2. WorkerTypeOK'
    BY <1>0, <1>10
    DEF WStore, WorkerTypeOK, WorkerPc, workerVars
  <2>3. LocalsOK'
    BY <1>0, <1>10
    DEF WStore, WorkerTypeOK, LocalsOK, mainVars, workerVars
  <2>. QED
    BY <2>1, <2>2, <2>3, <1>0, <1>10
    DEF WStore, TypeInv, TypeOK, NetTypeOK, MainTypeOK, ClientTypeOK, sharedVars,
        mainVars, workerVars, clientVars, netVars, serverVars
<1>11. CASE WStat(t)
  <2>1. SharedTypeOK'
    BY <1>0, <1>11
    DEF WStat, Advance, Break, SharedTypeOK, sharedVars
  <2>2. WorkerTypeOK'
    <3>1. wi[t] < Hi(t)
      BY <1>0, <1>11 DEF WStat, LocalsOK
    <3>2. stats_idx' \in [Threads -> Nat]
      BY <1>0, <1>11 DEF WStat, WorkerTypeOK
    <3>3. CASE Advance(t)
      BY <1>0, <1>11, <3>1, <3>2, <3>3, AdvanceTypes DEF WStat, WorkerTypeOK
    <3>4. CASE Break(t)
      BY <1>0, <1>11, <3>2, <3>4, LoHi DEF WStat, Break, WorkerTypeOK, WorkerPc
    <3>. QED
      BY <1>11, <3>3, <3>4 DEF WStat
  <2>3. LocalsOK'
    BY <1>0, <1>11, ThreadInts
    DEF WStat, Advance, Break, WorkerTypeOK, LocalsOK, mainVars, workerVars
  <2>. QED
    BY <2>1, <2>2, <2>3, <1>0, <1>11
    DEF WStat, Advance, Break, TypeInv, TypeOK, NetTypeOK, MainTypeOK,
        ClientTypeOK, sharedVars, mainVars, workerVars, clientVars, netVars,
        serverVars
<1>12. CASE WDelete(t)
  <2>1. NetTypeOK'
    <3>1. toServer' = toServer \/ toServer' = Dropped(toServer, {wi[t]})
      BY <1>12 DEF WDelete, Close
    <3>2. toServer' \in [Conns -> Seq(MsgType)]
      <4>1. Dropped(toServer, {wi[t]}) \in [Conns -> Seq(MsgType)]
        BY <1>0, DroppedTypes DEF NetTypeOK
      <4>. QED
        BY <1>0, <3>1, <4>1 DEF NetTypeOK
    <3>3. closed' \subseteq Conns
      BY <1>0, <1>12, WorkerConns DEF WDelete, NetTypeOK, Close
    <3>. QED
      BY <1>0, <1>12, <3>2, <3>3 DEF WDelete, NetTypeOK
  <2>2. WorkerTypeOK'
    <3>1. wi[t] < Hi(t) => wi[t] + 1 \in 0 .. client_count
      BY <1>0, LoHi, ClientCountAssumption DEF WorkerTypeOK
    <3>. QED
      BY <1>0, <1>12, <3>1 DEF WDelete, WorkerTypeOK, WorkerPc
  <2>3. LocalsOK'
    BY <1>0, <1>12
    DEF WDelete, WorkerTypeOK, LocalsOK, mainVars, workerVars
  <2>. QED
    BY <2>1, <2>2, <2>3, <1>0, <1>12
    DEF WDelete, TypeInv, TypeOK, MainTypeOK, SharedTypeOK, ClientTypeOK,
        sharedVars, mainVars, workerVars, clientVars, netVars, serverVars
<1>. QED
  BY <1>1, <1>2, <1>3, <1>4, <1>5, <1>6, <1>7, <1>8, <1>9, <1>10, <1>11, <1>12
  DEF Worker

\* A client is shown a message that is on its way to it.
LEMMA ShownTypes ==
    ASSUME NetTypeOK, NEW c \in Conns, NEW m \in Shown(c)
    PROVE  m \in MsgType /\ toClient[c] \in Seq(MsgType) /\ toClient[c] # <<>>
  BY DEF NetTypeOK, Shown

\* And every client.
LEMMA ClientTypes ==
    ASSUME TypeInv, NEW c \in Conns, Client(c) \/ ClientKill(c),
           UNCHANGED serverVars
    PROVE  TypeInv'
<1>0. NetTypeOK /\ MainTypeOK /\ SharedTypeOK
      /\ WorkerTypeOK /\ ClientTypeOK /\ LocalsOK
  BY DEF TypeInv, TypeOK
<1>1. CASE ClientConnect(c)
  <2>1. NetTypeOK'
    BY <1>0, <1>1, SentTypes
    DEF ClientConnect, NetTypeOK, MsgType, netVars
  <2>2. ClientTypeOK'
    BY <1>0, <1>1
    DEF ClientConnect, ClientTypeOK, clientVars
  <2>. QED
    BY <2>1, <2>2, <1>0, <1>1
    DEF ClientConnect, TypeInv, TypeOK, MainTypeOK, SharedTypeOK, WorkerTypeOK,
        LocalsOK, sharedVars, mainVars, workerVars, clientVars, netVars,
        serverVars
<1>2. CASE ClientPhase1(c)
  <2>1. NetTypeOK'
    BY <1>0, <1>2, ShownTypes
    DEF ClientPhase1, NetTypeOK, Answer, Sent, MsgType, netVars
  <2>2. ClientTypeOK'
    BY <1>0, <1>2
    DEF ClientPhase1, ClientTypeOK, clientVars
  <2>. QED
    BY <2>1, <2>2, <1>0, <1>2
    DEF ClientPhase1, TypeInv, TypeOK, MainTypeOK, SharedTypeOK, WorkerTypeOK,
        LocalsOK, sharedVars, mainVars, workerVars, clientVars, netVars,
        serverVars
<1>3. CASE ClientPhase2(c)
  <2>1. NetTypeOK'
    BY <1>0, <1>3, ShownTypes
    DEF ClientPhase2, NetTypeOK, Answer, Sent, MsgType, netVars
  <2>2. ClientTypeOK'
    BY <1>0, <1>3
    DEF ClientPhase2, ClientTypeOK, Decisions, clientVars
  <2>. QED
    BY <2>1, <2>2, <1>0, <1>3
    DEF ClientPhase2, TypeInv, TypeOK, MainTypeOK, SharedTypeOK, WorkerTypeOK,
        LocalsOK, sharedVars, mainVars, workerVars, clientVars, netVars,
        serverVars
<1>4. CASE ClientProtocolFailure(c)
  <2>1. NetTypeOK'
    BY <1>0, <1>4
    DEF ClientProtocolFailure, NetTypeOK, Exit, Dropped, netVars
  <2>. QED
    BY <2>1, <1>0, <1>4
    DEF ClientProtocolFailure, TypeInv, TypeOK, MainTypeOK, SharedTypeOK,
        WorkerTypeOK, ClientTypeOK, LocalsOK, sharedVars, mainVars, workerVars,
        clientVars, netVars, serverVars
<1>5. CASE ClientTimeout(c)
  <2>1. NetTypeOK'
    BY <1>0, <1>5
    DEF ClientTimeout, NetTypeOK, Exit, Dropped, netVars
  <2>. QED
    BY <2>1, <1>0, <1>5
    DEF ClientTimeout, TypeInv, TypeOK, MainTypeOK, SharedTypeOK, WorkerTypeOK,
        ClientTypeOK, LocalsOK, sharedVars, mainVars, workerVars, clientVars,
        netVars, serverVars
<1>6. CASE ClientEfin(c)
  <2>1. NetTypeOK'
    BY <1>0, <1>6
    DEF ClientEfin, NetTypeOK, Exit, Dropped, netVars
  <2>. QED
    BY <2>1, <1>0, <1>6
    DEF ClientEfin, TypeInv, TypeOK, MainTypeOK, SharedTypeOK, WorkerTypeOK,
        ClientTypeOK, LocalsOK, sharedVars, mainVars, workerVars, clientVars,
        netVars, serverVars
<1>7. CASE ClientKill(c)
  <2>1. NetTypeOK'
    BY <1>0, <1>7
    DEF ClientKill, NetTypeOK, Exit, Dropped, netVars
  <2>. QED
    BY <2>1, <1>0, <1>7
    DEF ClientKill, TypeInv, TypeOK, MainTypeOK, SharedTypeOK, WorkerTypeOK,
        ClientTypeOK, LocalsOK, sharedVars, mainVars, workerVars, clientVars,
        netVars, serverVars
<1>. QED
  BY <1>1, <1>2, <1>3, <1>4, <1>5, <1>6, <1>7
  DEF Client

\* What an unreliable network does to a channel keeps its type.
LEMMA DisturbedTypes ==
    ASSUME NEW s \in Seq(MsgType), NEW k \in DOMAIN s,
           NEW kind \in {"lose", "dup", "reorder"}
    PROVE  Disturbed(kind, s, k) \in Seq(MsgType)
<1>1. s[k] \in MsgType /\ k \in 1 .. Len(s)
  OBVIOUS
<1>2. SubSeq(s, 1, k - 1) \in Seq(MsgType) /\ SubSeq(s, k + 1, Len(s)) \in Seq(MsgType)
  BY <1>1
<1>3. RemoveAt(s, k) \in Seq(MsgType)
  BY <1>2 DEF RemoveAt
<1>4. Append(s, s[k]) \in Seq(MsgType) /\ Append(RemoveAt(s, k), s[k]) \in Seq(MsgType)
  BY <1>1, <1>3
<1>. QED
  BY <1>3, <1>4 DEF Disturbed

\* The network keeps types and indexes right.
LEMMA NetTypes ==
    ASSUME TypeInv, NetFault, UNCHANGED <<serverVars, clientVars>>
    PROVE  TypeInv'
<1>0. NetTypeOK
  BY DEF TypeInv, TypeOK
<1>1. PICK kind \in FaultKinds, c \in Conns :
          \/ /\ \E k \in DOMAIN toServer[c] :
                   toServer' = [toServer EXCEPT ![c] = Disturbed(kind, @, k)]
             /\ UNCHANGED toClient
          \/ /\ \E k \in DOMAIN toClient[c] :
                   toClient' = [toClient EXCEPT ![c] = Disturbed(kind, @, k)]
             /\ UNCHANGED toServer
  BY DEF NetFault
<1>2. ASSUME NEW ch \in [Conns -> Seq(MsgType)], NEW k \in DOMAIN ch[c]
      PROVE  [ch EXCEPT ![c] = Disturbed(kind, @, k)] \in [Conns -> Seq(MsgType)]
  <2>1. Disturbed(kind, ch[c], k) \in Seq(MsgType)
    BY <1>2, DisturbedTypes, FaultsAssumption
  <2>. QED
    BY <1>2, <2>1
<1>3. toServer' \in [Conns -> Seq(MsgType)] /\ toClient' \in [Conns -> Seq(MsgType)]
  <2>1. CASE /\ \E k \in DOMAIN toServer[c] :
                   toServer' = [toServer EXCEPT ![c] = Disturbed(kind, @, k)]
             /\ UNCHANGED toClient
    <3>1. PICK k \in DOMAIN toServer[c] :
              toServer' = [toServer EXCEPT ![c] = Disturbed(kind, @, k)]
      BY <2>1
    <3>2. toServer \in [Conns -> Seq(MsgType)]
      BY <1>0 DEF NetTypeOK
    <3>3. [toServer EXCEPT ![c] = Disturbed(kind, @, k)] \in [Conns -> Seq(MsgType)]
      BY <1>2, <3>2
    <3>. QED
      BY <1>0, <2>1, <3>1, <3>3 DEF NetTypeOK
  <2>2. CASE /\ \E k \in DOMAIN toClient[c] :
                   toClient' = [toClient EXCEPT ![c] = Disturbed(kind, @, k)]
             /\ UNCHANGED toServer
    <3>1. PICK k \in DOMAIN toClient[c] :
              toClient' = [toClient EXCEPT ![c] = Disturbed(kind, @, k)]
      BY <2>2
    <3>2. toClient \in [Conns -> Seq(MsgType)]
      BY <1>0 DEF NetTypeOK
    <3>3. [toClient EXCEPT ![c] = Disturbed(kind, @, k)] \in [Conns -> Seq(MsgType)]
      BY <1>2, <3>2
    <3>. QED
      BY <1>0, <2>2, <3>1, <3>3 DEF NetTypeOK
  <2>. QED
    BY <1>1, <2>1, <2>2
<1>4. faults' \in 0 .. MaxFaults /\ UNCHANGED <<gone, closed, peers>>
  BY <1>0, FaultsAssumption DEF NetFault, NetTypeOK
<1>5. NetTypeOK'
  BY <1>0, <1>3, <1>4 DEF NetTypeOK
<1>. QED
  BY <1>5 DEF TypeInv, TypeOK, MainTypeOK, SharedTypeOK, WorkerTypeOK, ClientTypeOK,
              LocalsOK, serverVars, sharedVars, mainVars, workerVars, clientVars

\* Nothing happens to the types when nothing happens.
LEMMA StutterTypes == ASSUME TypeInv, UNCHANGED vars PROVE TypeInv'
  BY DEF TypeInv, TypeOK, NetTypeOK, MainTypeOK, SharedTypeOK, WorkerTypeOK,
         ClientTypeOK, LocalsOK, vars, netVars, serverVars, sharedVars, mainVars,
         workerVars, clientVars

\* The types and the indexes are an inductive invariant.
LEMMA TypeStep == TypeInv /\ [Next]_vars => TypeInv'
<1>. SUFFICES ASSUME TypeInv, [Next]_vars PROVE TypeInv'
  OBVIOUS
<1>1. CASE ServerStep
  BY <1>1, MainTypes, WorkerTypes DEF ServerStep
<1>2. CASE ClientStep
  BY <1>2, ClientTypes DEF ClientStep
<1>3. CASE NetStep
  BY <1>3, NetTypes DEF NetStep
<1>4. CASE Terminated \/ UNCHANGED vars
  BY <1>4, StutterTypes DEF Terminated
<1>. QED
  BY <1>1, <1>2, <1>3, <1>4 DEF Next

\* The two hold together in every reachable state.
LEMMA TypeInvariant == Spec => []TypeInv
  BY TypeInit, TypeStep, PTL DEF Spec

\* Every variable keeps its type: messages are codes of q2pc_protocol.h, slots
\* of the scoreboard hold one or a constant of their own, counters never become
\* negative and every index stays within its array's length.
THEOREM TypeCorrect == Spec => []TypeOK
<1>1. TypeInv => TypeOK
  BY DEF TypeInv
<1>. QED
  BY <1>1, TypeInvariant, PTL

-----------------------------------------------------------------------------
(* The arrays that workers write. *)

\* stats_len divided among the threads is a natural number.
LEMMA StatsPerThread == stats_per_thread \in Nat
<1>1. ASSUME NEW a \in Nat, NEW b \in Nat \ {0}
      PROVE  a \div b \in Nat
  BY <1>1, SMT
<1>. QED
  BY <1>1, ThreadsExist, StatsLenAssumption DEF stats_per_thread

\* What a step of the main thread means for the workers: it starts them, kills
\* the process, or leaves them alone, and it never lowers stop_signal.
LEMMA MainFrame ==
    ASSUME Main \/ MSignal
    PROVE  /\ UNCHANGED <<wi, wtmp, stats_idx, unread>>
           /\ stop_signal => stop_signal'
           /\ \/ UNCHANGED wpc
              \/ mpc = "spawn" /\ wpc' \in [Threads -> {"off", "top"}]
              \/ wpc' = [t \in Threads |-> "exited"]
<1>. USE DEF workerVars, sharedVars, serverVars
<1>1. CASE MSpawn
  BY <1>1 DEF MSpawn
<1>2. CASE MWriteDies
  BY <1>2 DEF MWriteDies, Die
<1>3. CASE MCleanup
  BY <1>3 DEF MCleanup
<1>4. CASE MConnect \/ MReset \/ MPause \/ MClear \/ MUnpause \/ MJoin \/ MScan
  BY <1>4 DEF MConnect, MReset, MPause, MClear, MUnpause, MJoin, MScan
<1>5. CASE MLoop \/ MBroadcast \/ MSend \/ MWrite \/ MWriteEfin \/ MTimeout
  BY <1>5 DEF MLoop, MBroadcast, MSend, MWrite, MWriteEfin, MTimeout
<1>6. CASE MSum \/ MScanEnd \/ MReport \/ MInterrupted \/ MInterruptedAgain
  BY <1>6 DEF MSum, MScanEnd, MReport, MInterrupted, MInterruptedAgain, Die
<1>7. CASE MHangs
  <2>1. UNCHANGED <<wi, wtmp, stats_idx, unread>>
    BY <1>7 DEF MHangs
  <2>2. stop_signal' = TRUE
    BY <1>7 DEF MHangs
  <2>3. CASE mpc = "spawn"
    <3>1. wpc' \in [Threads -> {"off", "top"}]
      BY <1>7, <2>3 DEF MHangs
    <3>. QED
      BY <2>1, <2>2, <2>3, <3>1
  <2>4. CASE mpc # "spawn"
    <3>1. UNCHANGED wpc
      BY <1>7, <2>4 DEF MHangs
    <3>. QED
      BY <2>1, <2>2, <3>1
  <2>. QED
    BY <2>3, <2>4
<1>. QED
  BY <1>1, <1>2, <1>3, <1>4, <1>5, <1>6, <1>7 DEF Main, MSignal

\* What a step of one worker means for the others: nothing, unless it kills the
\* process.  It never lowers stop_signal either.
LEMMA WorkerFrame ==
    ASSUME TypeInv, NEW t \in Threads, Worker(t)
    PROVE  /\ stop_signal => stop_signal'
           /\ \A u \in Threads \ {t} :
                 /\ wpc'[u] = wpc[u] \/ wpc'[u] = "exited"
                 /\ wi'[u] = wi[u]
                 /\ stats_idx'[u] = stats_idx[u]
<1>0. /\ wpc \in [Threads -> WorkerPc] /\ wi \in [Threads -> 0 .. client_count]
      /\ stats_idx \in [Threads -> Nat]
  BY DEF TypeInv, TypeOK, WorkerTypeOK
<1>. USE DEF sharedVars
<1>1. CASE WStop(t) \/ WPause(t) \/ WZero(t) \/ WLoad(t) \/ WStore(t) \/ WVote(t)
  BY <1>0, <1>1 DEF WStop, WPause, WZero, WLoad, WStore, WVote
<1>2. CASE WAgain(t) \/ WIgnore(t)
  BY <1>0, <1>2 DEF WAgain, WIgnore, Advance, Break
<1>3. CASE WEfin(t) \/ WStat(t)
  BY <1>0, <1>3 DEF WEfin, WStat, Advance, Break
<1>4. CASE WReadDies(t)
  BY <1>0, <1>4 DEF WReadDies, Die
<1>5. CASE WDelete(t)
  BY <1>0, <1>5 DEF WDelete
<1>. QED
  BY <1>1, <1>2, <1>3, <1>4, <1>5 DEF Worker

\* A worker has room for another message until it has stopped the server, and
\* then it is on its way out.
StatsRoom(t) ==
    \/ stats_idx[t] < stats_per_thread
    \/ stop_signal /\ wpc[t] \in {"top", "delete", "exited"}

StatsInv == \A t \in Threads : StatsRoom(t)

\* The worker that takes a step keeps it so.
LEMMA StatsWorker ==
    ASSUME TypeInv, NEW t \in Threads, Worker(t), StatsRoom(t)
    PROVE  StatsRoom(t)'
<1>0. /\ wpc \in [Threads -> WorkerPc] /\ stats_idx \in [Threads -> Nat]
      /\ stats_per_thread \in Nat
  BY StatsPerThread DEF TypeInv, TypeOK, WorkerTypeOK
<1>. USE DEF sharedVars, StatsRoom
<1>1. CASE WStop(t) \/ WPause(t) \/ WZero(t) \/ WLoad(t) \/ WStore(t) \/ WVote(t)
  BY <1>0, <1>1 DEF WStop, WPause, WZero, WLoad, WStore, WVote
<1>2. CASE WAgain(t) \/ WIgnore(t)
  BY <1>0, <1>2 DEF WAgain, WIgnore, Advance, Break
<1>3. CASE WEfin(t)
  BY <1>0, <1>3 DEF WEfin, Break
<1>4. CASE WStat(t)
  BY <1>0, <1>4 DEF WStat, Advance, Break
<1>5. CASE WReadDies(t)
  BY <1>0, <1>5 DEF WReadDies, Die
<1>6. CASE WDelete(t)
  BY <1>0, <1>6 DEF WDelete
<1>. QED
  BY <1>1, <1>2, <1>3, <1>4, <1>5, <1>6 DEF Worker

\* A worker never writes past the end of its statistics array, whatever the
\* other threads, the clients and the network do, as long as --stats-len leaves
\* room for one message per thread: the worker whose array is full raises
\* stop_signal in the step that fills it, nobody ever lowers it, and the worker
\* tests it before it reads again (q2pc_server_worker.c:43 and 118-125).
THEOREM StatsBounded ==
    ASSUME stats_per_thread >= 1
    PROVE  Spec => []StatsInBounds
<1>1. Init => StatsInv
  BY StatsPerThread DEF Init, ServerInit, StatsInv, StatsRoom
<1>2. ASSUME TypeInv, StatsInv, [Next]_vars
      PROVE  StatsInv'
  <2>0. /\ wpc \in [Threads -> WorkerPc] /\ stats_idx \in [Threads -> Nat]
        /\ mpc \in {"connect", "spawn"} => \A t \in Threads : wpc[t] = "off"
        /\ stats_per_thread \in Nat
    BY <1>2, StatsPerThread DEF TypeInv, TypeOK, WorkerTypeOK, LocalsOK
  <2>1. CASE Main \/ MSignal
    BY <1>2, <2>0, <2>1, MainFrame DEF StatsInv, StatsRoom
  <2>2. ASSUME NEW t \in Threads, Worker(t)
        PROVE  StatsInv'
    <3>1. ASSUME NEW u \in Threads \ {t} PROVE StatsRoom(u)'
      BY <1>2, <2>0, <2>2, <3>1, WorkerFrame DEF StatsInv, StatsRoom
    <3>. QED
      BY <1>2, <2>2, <3>1, StatsWorker DEF StatsInv
  <2>3. CASE ClientStep \/ NetStep \/ Terminated \/ UNCHANGED vars
    BY <1>2, <2>3 DEF ClientStep, NetStep, Terminated, vars, serverVars, sharedVars,
                      workerVars, StatsInv, StatsRoom
  <2>. QED
    BY <1>2, <2>1, <2>2, <2>3 DEF Next, ServerStep
<1>3. TypeInv /\ StatsInv => StatsInBounds
  BY DEF StatsInv, StatsRoom, StatsInBounds
<1>. QED
  BY <1>1, <1>2, <1>3, TypeInvariant, PTL DEF Spec

\* A worker that is about to count an answer has just put it on the scoreboard.
CountedInv == \A t \in Threads : wpc[t] = "load" => InRange(HostId[wi[t]])

\* No client, whatever id it was started with, makes a worker write outside the
\* scoreboard: run_thread tests the id before it indexes
\* (q2pc_server_worker.c:89-98), and the connection whose message it counts is
\* the one it has tested.
THEOREM BoardSafe == Spec => []BoardInBounds
<1>1. Init => CountedInv
  BY DEF Init, ServerInit, CountedInv
<1>2. ASSUME TypeInv, CountedInv, [Next]_vars
      PROVE  CountedInv'
  <2>0. /\ wpc \in [Threads -> WorkerPc] /\ wi \in [Threads -> 0 .. client_count]
    BY <1>2 DEF TypeInv, TypeOK, WorkerTypeOK
  <2>1. CASE Main \/ MSignal
    BY <1>2, <2>0, <2>1, MainFrame DEF CountedInv
  <2>2. ASSUME NEW t \in Threads, Worker(t)
        PROVE  CountedInv'
    <3>1. ASSUME NEW u \in Threads \ {t}, wpc'[u] = "load"
          PROVE  InRange(HostId[wi'[u]])
      BY <1>2, <2>0, <2>2, <3>1, WorkerFrame DEF CountedInv
    <3>2. ASSUME wpc'[t] = "load"
          PROVE  InRange(HostId[wi'[t]])
      <4>1. CASE WVote(t)
        BY <4>1 DEF WVote
      <4>2. CASE WStop(t) \/ WPause(t) \/ WZero(t) \/ WLoad(t) \/ WStore(t)
        BY <2>0, <3>2, <4>2 DEF WStop, WPause, WZero, WLoad, WStore
      <4>3. CASE WAgain(t) \/ WIgnore(t) \/ WEfin(t) \/ WStat(t)
        BY <2>0, <3>2, <4>3 DEF WAgain, WIgnore, WEfin, WStat, Advance, Break
      <4>4. CASE WReadDies(t) \/ WDelete(t)
        BY <2>0, <3>2, <4>4 DEF WReadDies, Die, WDelete
      <4>. QED
        BY <2>2, <4>1, <4>2, <4>3, <4>4 DEF Worker
    <3>. QED
      BY <3>1, <3>2 DEF CountedInv
  <2>3. CASE ClientStep \/ NetStep \/ Terminated \/ UNCHANGED vars
    BY <1>2, <2>3 DEF ClientStep, NetStep, Terminated, vars, serverVars, workerVars,
                      CountedInv
  <2>. QED
    BY <1>2, <2>1, <2>2, <2>3 DEF Next, ServerStep
<1>3. TypeInv /\ CountedInv => BoardInBounds
  <2>1. ASSUME TypeInv, CountedInv, NEW t \in Threads, wpc[t] = "load"
        PROVE  HostId[wi[t]] - 1 \in Slots
    <3>1. wi[t] \in Conns
      BY <2>1, WorkerConns DEF TypeInv, LocalsOK
    <3>. QED
      BY <2>1, <3>1, HostIdType, ClientCountAssumption DEF CountedInv, InRange, Slots
  <2>. QED
    BY <2>1 DEF BoardInBounds
<1>. QED
  BY <1>1, <1>2, <1>3, TypeInvariant, PTL DEF Spec

\* The kinds of steps there are.
LEMMA StepKinds ==
    ASSUME [Next]_vars
    PROVE  \/ (Main \/ MSignal) /\ UNCHANGED clientVars
           \/ \E t \in Threads : Worker(t) /\ UNCHANGED clientVars
           \/ \E c \in Conns : (Client(c) \/ ClientKill(c)) /\ UNCHANGED serverVars
           \/ NetFault /\ UNCHANGED <<serverVars, clientVars>>
           \/ UNCHANGED vars
  BY DEF Next, ServerStep, ClientStep, NetStep, Terminated

-----------------------------------------------------------------------------
(* What the clients have done, over any transport. *)

LogEntry == {"yes", "no"} \cup Decisions

\* Client c has cast vote v as the n-th thing it did.
Voted(c, n, v) == n \in 1 .. Len(log[c]) /\ log[c][n] = v
AllYes(n) == \A c \in Conns : Voted(c, n, "yes")
SomeNo(n) == \E c \in Conns : Voted(c, n, "no")

\* The votes on the request that is under way.
Ballot == 2 * requests + 1

\* A decision is justified by the votes before it.
Justified(d, n) == /\ d = "commit" => AllYes(n)
                   /\ d = "cancel" => SomeNo(n)

\* Clients vote and act in turns, and act as the votes allow.
LogInv ==
    \A c \in Conns : \A n \in 1 .. Len(log[c]) :
        /\ n % 2 = 1 => log[c][n] \in {"yes", "no"}
        /\ n % 2 = 0 => log[c][n] \in Decisions
        /\ Justified(log[c][n], n - 1)

\* Client c does one thing more.
Does(c, e) == log' = [log EXCEPT ![c] = Append(@, e)]

LEMMA LogType == ASSUME TypeInv PROVE log \in [Conns -> Seq(LogEntry)]
  BY DEF TypeInv, TypeOK, ClientTypeOK, LogEntry

\* The elements of a sequence that grows at its end.
LEMMA AppendNth ==
    ASSUME NEW X, NEW s \in Seq(X), NEW e \in X
    PROVE  /\ Len(s) \in Nat /\ Len(Append(s, e)) = Len(s) + 1
           /\ \A k \in 1 .. Len(s) + 1 :
                 Append(s, e)[k] = IF k = Len(s) + 1 THEN e ELSE s[k]
  OBVIOUS

\* Odd and even take turns.
LEMMA Parity == ASSUME NEW n \in Nat, NEW m, m = n + 1
                PROVE  /\ n % 2 = 0 => m % 2 = 1
                       /\ n % 2 = 1 => m % 2 = 0
  BY SMT

\* Decisions stand at even positions.
LEMMA EvenEntries ==
    ASSUME TypeInv, LogInv, NEW c \in Conns, NEW n \in 1 .. Len(log[c])
    PROVE  /\ n % 2 = 0 <=> log[c][n] \in Decisions
           /\ n % 2 = 1 <=> log[c][n] \in {"yes", "no"}
           /\ Justified(log[c][n], n - 1)
<1>1. n % 2 \in {0, 1}
  BY LogType
<1>. QED
  BY <1>1 DEF LogInv, Decisions

\* A vote that has been cast stays cast.
LEMMA VotesLast ==
    ASSUME TypeInv, UNCHANGED log \/ \E c \in Conns : \E e \in LogEntry : Does(c, e),
           NEW d \in Conns, NEW n, NEW v, Voted(d, n, v)
    PROVE  Voted(d, n, v)'
<1>1. CASE UNCHANGED log
  BY <1>1 DEF Voted
<1>2. ASSUME NEW c \in Conns, NEW e \in LogEntry, Does(c, e)
      PROVE  Voted(d, n, v)'
  <2>1. log[d] \in Seq(LogEntry)
    BY LogType
  <2>2. log'[d] = log[d] \/ log'[d] = Append(log[d], e)
    BY <1>2, LogType DEF Does
  <2>. QED
    BY <2>1, <2>2 DEF Voted
<1>. QED
  BY <1>1, <1>2

\* So what has been unanimous stays so, and what a no has decided.
LEMMA ReasonsLast ==
    ASSUME TypeInv, UNCHANGED log \/ \E c \in Conns : \E e \in LogEntry : Does(c, e),
           NEW n
    PROVE  /\ AllYes(n) => AllYes(n)'
           /\ SomeNo(n) => SomeNo(n)'
           /\ \A d : Justified(d, n) => Justified(d, n)'
<1>1. AllYes(n) => AllYes(n)'
  BY VotesLast DEF AllYes
<1>2. SomeNo(n) => SomeNo(n)'
  BY VotesLast DEF SomeNo
<1>. QED
  BY <1>1, <1>2 DEF Justified

\* A client that does the next thing, and does it with reason.
LEMMA LogGrows ==
    ASSUME TypeInv, LogInv, NEW c \in Conns, NEW e \in LogEntry, Does(c, e),
           Justified(e, Len(log[c])),
           \/ e \in {"yes", "no"} /\ Len(log[c]) % 2 = 0
           \/ e \in Decisions /\ Len(log[c]) % 2 = 1
    PROVE  LogInv'
<1>0. /\ log[c] \in Seq(LogEntry) /\ log'[c] = Append(log[c], e)
      /\ Len(log[c]) \in Nat /\ Len(log'[c]) = Len(log[c]) + 1
  BY LogType, AppendNth DEF Does
<1>1. ASSUME NEW n \in 1 .. Len(log'[c])
      PROVE  /\ n % 2 = 1 => log'[c][n] \in {"yes", "no"}
             /\ n % 2 = 0 => log'[c][n] \in Decisions
             /\ Justified(log[c][n], n - 1)'
  <2>1. CASE n = Len(log[c]) + 1
    <3>1. log'[c][n] = e /\ n - 1 = Len(log[c])
      BY <1>0, <2>1, AppendNth
    <3>2. /\ Len(log[c]) % 2 = 0 => n % 2 = 1
          /\ Len(log[c]) % 2 = 1 => n % 2 = 0
      BY <1>0, <2>1, Parity
    <3>3. Justified(log[c][n], n - 1)'
      BY <3>1, ReasonsLast
    <3>4. CASE e \in {"yes", "no"} /\ Len(log[c]) % 2 = 0
      <4>1. n % 2 = 1 /\ n % 2 # 0
        BY <3>2, <3>4
      <4>. QED
        BY <3>1, <3>3, <3>4, <4>1
    <3>5. CASE e \in Decisions /\ Len(log[c]) % 2 = 1
      <4>1. n % 2 = 0 /\ n % 2 # 1
        BY <3>2, <3>5
      <4>. QED
        BY <3>1, <3>3, <3>5, <4>1
    <3>. QED
      BY <3>4, <3>5
  <2>2. CASE n # Len(log[c]) + 1
    <3>1. n \in 1 .. Len(log[c]) /\ log'[c][n] = log[c][n]
      BY <1>0, <1>1, <2>2, AppendNth
    <3>. QED
      BY <3>1, ReasonsLast DEF LogInv
  <2>. QED
    BY <2>1, <2>2
<1>2. ASSUME NEW d \in Conns \ {c}, NEW n \in 1 .. Len(log'[d])
      PROVE  /\ n % 2 = 1 => log'[d][n] \in {"yes", "no"}
             /\ n % 2 = 0 => log'[d][n] \in Decisions
             /\ Justified(log[d][n], n - 1)'
  <2>1. log'[d] = log[d]
    BY <1>2, LogType DEF Does
  <2>. QED
    BY <1>2, <2>1, ReasonsLast DEF LogInv
<1>. QED
  BY <1>1, <1>2 DEF LogInv

\* Acting on a decision with reason is a step of AtomicCommit: whoever has acted
\* on the same votes has done the same.
LEMMA Decides ==
    ASSUME TypeInv, LogInv, NEW c \in Conns, NEW d \in Decisions, Does(c, d),
           Len(log[c]) % 2 = 1, Justified(d, Len(log[c]))
    PROVE  AC!Decide(c, d)
<1>0. PICK n \in Nat : n = Len(log[c])
  BY LogType
<1>1. n % 2 = 1 /\ Justified(d, n) /\ \A q \in Conns : Len(log[q]) \in Nat
  BY <1>0, LogType
<1>2. ASSUME NEW q \in Conns, n + 1 <= Len(log[q])
      PROVE  log[q][n + 1] = d
  <2>1. PICK m \in 1 .. Len(log[q]) : m = n + 1
    BY <1>1, <1>2
  <2>2. m % 2 = 0 /\ m - 1 = n
    BY <1>1, <2>1, Parity
  <2>3. log[q][m] \in Decisions /\ Justified(log[q][m], m - 1)
    BY <2>2, EvenEntries
  <2>4. ~ (AllYes(n) /\ SomeNo(n))
    BY DEF AllYes, SomeNo, Voted
  <2>. QED
    BY <1>1, <2>1, <2>2, <2>3, <2>4 DEF Justified, Decisions
<1>3. /\ d = "commit" => \A q \in Conns : AC!Did(q, n, "yes")
      /\ d = "cancel" => \E q \in Conns : AC!Did(q, n, "no")
  BY <1>1 DEF Justified, AllYes, SomeNo, Voted, AC!Did
<1>. QED
  BY <1>0, <1>1, <1>2, <1>3 DEF AC!Decide, Does
=============================================================================
