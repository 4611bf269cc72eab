----------------------------- MODULE Q2pcPatient -----------------------------
(***************************************************************************)
(* A server that waits for its votes as long as it takes (a negative       *)
(* --wait), over any transport whose network does not repeat messages.     *)
(*                                                                         *)
(* The workers count answers in a counter each, with a load and a store    *)
(* and no lock, and zero it when they see a pause; the main thread adds    *)
(* the counters up one by one, zeroes them as well, and never waits for    *)
(* the workers to notice anything.  What makes it right all the same is    *)
(* that no answer is counted before it stands on the scoreboard, and that  *)
(* a client has at most one message under way: when the sum is reached,    *)
(* everything is quiet, until the main thread writes again.                *)
(***************************************************************************)
EXTENDS Q2pcProof, FiniteSetTheorems

\* What the theorems assume: nothing of the clients but their numbers, nothing
\* of threads, signals and kills.
PatientServer ==
    /\ WaitForever
    /\ Transport = "udp_ln" => "dup" \notin FaultKinds
    /\ HostId \in [Conns -> 1 .. client_count]
    /\ \A c, d \in Conns : HostId[c] = HostId[d] => c = d

-----------------------------------------------------------------------------
(* The invariant. *)

\* Nothing is under way between the server and client c.
Quiet(c) == toServer[c] = <<>> /\ toClient[c] = <<>>

\* Something the client said stands on its slot of the scoreboard.
Recorded(c) == votes_scoreboard[HostId[c] - 1] \notin {"zeroed", "lost"}

\* Thread t has recorded an answer that it has not counted yet.
Counting(t) == wpc[t] \in {"load", "store"}

\* The connections whose answers have been recorded and counted.
Counted == {c \in Conns : Recorded(c) /\ \A t \in Threads : Counting(t) => wi[t] # c}

\* The connections of thread t, and those of the threads before t.
Mine(t)   == Lo(t) .. (Hi(t) - 1)
Before(t) == 0 .. (Lo(t) - 1)

Starting  == mpc \in {"connect", "spawn"}
Telling   == mpc \in {"broadcast", "send", "write"}
Complete  == mpc \in {"pause", "scan", "clear", "unpause", "report"}
Beginning == mpc \in {"loop", "reset"}

\* A worker stays within its connections.
RangeInv == \A t \in Threads : Lo(t) <= wi[t]

\* Every client has one message under way at most, and none while its answer
\* stands on the scoreboard.
OneMessageInv ==
    \A c \in Conns :
        /\ Len(toServer[c]) + Len(toClient[c]) <= 1
        /\ cpc[c] = "connect" => Quiet(c) /\ ~ Recorded(c)
        /\ Recorded(c) => Quiet(c)

\* do_connectall has counted the clients whose connection message it has read.
StartInv ==
    Starting =>
        /\ \A c \in Conns : ~ Recorded(c)
        /\ \A t \in Threads : votes_count[t] = 0
        /\ connected = Cardinality(peers)
        /\ \A c \in peers : Quiet(c) /\ cpc[c] # "connect"
        /\ mpc = "spawn" => peers = Conns

\* Where the main thread is, and what is on the connections and the scoreboard.
PhaseInv ==
    /\ Beginning \/ Telling \/ mpc = "wait" \/ Complete =>
          \A c \in Conns : cpc[c] # "connect"
    /\ Beginning => \A c \in Conns : Quiet(c)
    /\ mpc = "reset" => \A s \in Slots : s < i => votes_scoreboard[s] = "lost"
    /\ mpc \in {"broadcast", "unpause"} => i = 0
    /\ Telling => \A c \in Conns : c >= i => Quiet(c) /\ ~ Recorded(c)
    /\ Complete => \A c \in Conns : Recorded(c)

\* While the counters count, they count no more than what is recorded; before
\* and after, they have been zeroed and nobody is about to change them.
CountInv ==
    /\ \A t \in Threads : Counting(t) => Recorded(wi[t])
    /\ Beginning \/ Complete => \A t \in Threads : ~ Counting(t)
    /\ Beginning \/ mpc \in {"unpause", "report"} => \A t \in Threads : votes_count[t] = 0
    /\ mpc = "clear" => \A t \in Threads : t < i => votes_count[t] = 0
    /\ Telling \/ mpc = "wait" =>
          \A t \in Threads :
              /\ votes_count[t] <= Cardinality(Counted \cap Mine(t))
              /\ wpc[t] = "store" => wtmp[t] <= Cardinality(Counted \cap Mine(t))
    /\ mpc = "wait" => total_votes <= Cardinality(Counted \cap Before(i))

PatientInv == RangeInv /\ OneMessageInv /\ StartInv /\ PhaseInv /\ CountInv

\* What the proofs below know of a state.
PatientState == PatientServer /\ TypeInv /\ PatientInv

-----------------------------------------------------------------------------
(* The ranges of the workers, and counting over them. *)

\* The range of a worker may be empty, but is never inverted.
LEMMA LoBelowHi == ASSUME NEW t \in Threads PROVE Lo(t) <= Hi(t)
<1>1. PICK q \in Nat : q = cons_per_thread
  BY ConsPerThread
<1>2. t \in Nat /\ t + 1 \in Nat /\ t <= t + 1
  BY ThreadsExist DEF Threads
<1>3. t * q <= (t + 1) * q /\ t * q \in Nat /\ (t + 1) * q \in Nat
  BY <1>2, TimesMonotonic, NatTimes
<1>. QED
  BY <1>1, <1>3, ClientCountAssumption DEF Lo, Hi, Least

\* A worker's connections are connections.
LEMMA MineConns == ASSUME NEW t \in Threads, NEW c \in Mine(t) PROVE c \in Conns
  BY LoHi, ClientCountAssumption DEF Mine, Conns

\* No connection belongs to two workers.
LEMMA MineOnce ==
    ASSUME NEW t \in Threads, NEW u \in Threads, NEW c, c \in Mine(t), c \in Mine(u)
    PROVE  t = u
<1>1. c \in Conns
  BY MineConns
<1>. QED
  BY <1>1, EachPolledOnce DEF Mine

\* A worker that counts an answer is at one of its connections.
LEMMA CountingMine ==
    ASSUME TypeInv, RangeInv, NEW t \in Threads, wi[t] < Hi(t)
    PROVE  wi[t] \in Mine(t) /\ wi[t] \in Conns
  BY WorkerConns, LoHi DEF RangeInv, Mine, TypeInv, TypeOK, WorkerTypeOK

\* The connections before those of the first worker, and before those of the next.
LEMMA BeforeFirst == Before(0) = {}
  BY MappingIsTheLoop DEF Before

LEMMA BeforeNext ==
    ASSUME NEW t \in Threads
    PROVE  /\ Before(t) \cap Mine(t) = {}
           /\ t + 1 \in Threads => Before(t) \cup Mine(t) = Before(t + 1)
<1>1. Lo(t) \in Nat /\ Hi(t) \in Nat /\ Lo(t) <= Hi(t)
  BY LoHi, LoBelowHi, ClientCountAssumption
<1>. QED
  BY <1>1, MappingIsTheLoop DEF Before, Mine

\* There are client_count connections.
LEMMA ConnsFinite == IsFiniteSet(Conns) /\ Cardinality(Conns) = client_count
<1>1. 0 \in Int /\ client_count - 1 \in Int /\ ~ 0 > client_count - 1
  BY ClientCountAssumption
<1>. QED
  BY <1>1, FS_Interval, ClientCountAssumption DEF Conns

\* The part of a set of connections that lies in a range.
LEMMA PartFinite ==
    ASSUME NEW A \in SUBSET Conns, NEW X
    PROVE  IsFiniteSet(A \cap X) /\ Cardinality(A \cap X) \in Nat
<1>1. A \cap X \in SUBSET Conns
  OBVIOUS
<1>. QED
  BY <1>1, ConnsFinite, FS_Subset, FS_CardinalityType

\* It grows with the set.
LEMMA PartGrows ==
    ASSUME NEW A \in SUBSET Conns, NEW B \in SUBSET Conns, NEW X, A \subseteq B
    PROVE  Cardinality(A \cap X) <= Cardinality(B \cap X)
<1>1. A \cap X \in SUBSET (B \cap X)
  OBVIOUS
<1>. QED
  BY <1>1, PartFinite, FS_Subset

\* By one with every element of the range.
LEMMA PartGrowsByOne ==
    ASSUME NEW A \in SUBSET Conns, NEW B \in SUBSET Conns, NEW X,
           NEW c \in X, c \notin A, A \cup {c} \subseteq B
    PROVE  Cardinality(A \cap X) + 1 <= Cardinality(B \cap X)
<1>1. (A \cap X) \cup {c} \in SUBSET (B \cap X)
  OBVIOUS
<1>2. IsFiniteSet(A \cap X) /\ IsFiniteSet(B \cap X)
  BY PartFinite
<1>3. Cardinality((A \cap X) \cup {c}) = Cardinality(A \cap X) + 1
  BY <1>2, FS_AddElement
<1>. QED
  BY <1>1, <1>2, <1>3, FS_Subset

\* What lies in two ranges that do not overlap adds up.
LEMMA PartsAddUp ==
    ASSUME NEW A \in SUBSET Conns, NEW X, NEW Y, X \cap Y = {}
    PROVE  Cardinality(A \cap X) + Cardinality(A \cap Y) = Cardinality(A \cap (X \cup Y))
<1>1. /\ (A \cap X) \cup (A \cap Y) = A \cap (X \cup Y)
      /\ (A \cap X) \cap (A \cap Y) = {}
  OBVIOUS
<1>2. /\ IsFiniteSet(A \cap X) /\ Cardinality(A \cap X) \in Nat
      /\ IsFiniteSet(A \cap Y) /\ Cardinality(A \cap Y) \in Nat
  BY PartFinite
<1>3. Cardinality((A \cap X) \cup (A \cap Y)) =
          Cardinality(A \cap X) + Cardinality(A \cap Y)
              - Cardinality((A \cap X) \cap (A \cap Y))
  BY <1>2, FS_Union
<1>4. Cardinality((A \cap X) \cap (A \cap Y)) = 0
  BY <1>1, FS_EmptySet
<1>5. \A a, b \in Nat : a + b - 0 = a + b
  OBVIOUS
<1>. QED
  BY <1>1, <1>2, <1>3, <1>4, <1>5

\* A set of as many connections as there are leaves none out.
LEMMA PartIsAll ==
    ASSUME NEW A \in SUBSET Conns, NEW X, client_count <= Cardinality(A \cap X)
    PROVE  A = Conns
<1>1. A \cap X \in SUBSET Conns
  OBVIOUS
<1>2. Cardinality(A \cap X) <= Cardinality(Conns)
  BY <1>1, ConnsFinite, FS_Subset
<1>3. Cardinality(Conns) = Cardinality(A \cap X)
  BY <1>2, ConnsFinite, PartFinite, ClientCountAssumption
<1>4. Conns = A \cap X
  BY <1>1, <1>3, ConnsFinite, FS_Subset
<1>. QED
  BY <1>4

-----------------------------------------------------------------------------
(* What the steps do to the connections. *)

\* How many messages are under way between the server and client c.
Load(c) == Len(toServer[c]) + Len(toClient[c])

\* It is a number, and zero when nothing is under way.
LEMMA Loads ==
    ASSUME TypeInv, NEW c \in Conns
    PROVE  /\ toServer[c] \in Seq(MsgType) /\ toClient[c] \in Seq(MsgType)
           /\ Len(toServer[c]) \in Nat /\ Len(toClient[c]) \in Nat
           /\ Load(c) \in Nat
           /\ Quiet(c) <=> Load(c) = 0
           /\ toServer[c] # <<>> => Load(c) # 0 /\ Len(toServer[c]) # 0
  BY DEF TypeInv, TypeOK, NetTypeOK, Load, Quiet

\* The same of the next state.
LEMMA LoadsNext ==
    ASSUME TypeInv', NEW c \in Conns
    PROVE  /\ Len(toServer'[c]) \in Nat /\ Len(toClient'[c]) \in Nat
           /\ Load(c)' \in Nat /\ Load(c)' = Len(toServer'[c]) + Len(toClient'[c])
           /\ Quiet(c)' <=> Load(c)' = 0
  BY DEF TypeInv, TypeOK, NetTypeOK, Load, Quiet

\* How it changes.
LEMMA LoadChange ==
    ASSUME TypeInv, TypeInv', NEW c \in Conns, Len(toServer'[c]) <= Len(toServer[c])
    PROVE  /\ Len(toClient'[c]) <= Len(toClient[c]) => Load(c)' <= Load(c)
           /\ Len(toClient'[c]) = Len(toClient[c]) + 1 => Load(c)' <= Load(c) + 1
           /\ /\ Len(toServer'[c]) = Len(toServer[c]) - 1
              /\ Len(toClient'[c]) = Len(toClient[c])
              => Load(c)' = Load(c) - 1
<1>1. PICK a, b \in Nat : a = Len(toServer[c]) /\ b = Len(toClient[c])
  BY Loads
<1>2. PICK x, y \in Nat : x = Len(toServer'[c]) /\ y = Len(toClient'[c])
  BY LoadsNext
<1>3. Load(c) = a + b /\ Load(c)' = x + y
  BY <1>1, <1>2 DEF Load
<1>4. /\ x <= a /\ y <= b => x + y <= a + b
      /\ x <= a /\ y = b + 1 => x + y <= a + b + 1
      /\ x = a - 1 /\ y = b => x + y = a + b - 1
  OBVIOUS
<1>5. ASSUME Len(toClient'[c]) <= Len(toClient[c])
      PROVE  Load(c)' <= Load(c)
  <2>1. x <= a /\ y <= b
    BY <1>1, <1>2, <1>5
  <2>. QED
    BY <1>3, <1>4, <2>1
<1>6. ASSUME Len(toClient'[c]) = Len(toClient[c]) + 1
      PROVE  Load(c)' <= Load(c) + 1
  <2>1. x <= a /\ y = b + 1
    BY <1>1, <1>2, <1>6
  <2>. QED
    BY <1>3, <1>4, <2>1
<1>7. ASSUME Len(toServer'[c]) = Len(toServer[c]) - 1, Len(toClient'[c]) = Len(toClient[c])
      PROVE  Load(c)' = Load(c) - 1
  <2>1. x = a - 1 /\ y = b
    BY <1>1, <1>2, <1>7
  <2>. QED
    BY <1>3, <1>4, <2>1
<1>. QED
  BY <1>5, <1>6, <1>7

\* Taking a message off a connection.
LEMMA TakenLoad ==
    ASSUME NEW ch \in [Conns -> Seq(MsgType)], NEW d \in Conns, ch[d] # <<>>, NEW c \in Conns
    PROVE  Len([ch EXCEPT ![d] = Tail(@)][c]) = IF c = d THEN Len(ch[c]) - 1 ELSE Len(ch[c])
<1>1. ch[d] \in Seq(MsgType)
  OBVIOUS
<1>. QED
  BY <1>1

\* Putting one on it.
LEMMA SentLoad ==
    ASSUME NEW ch \in [Conns -> Seq(MsgType)], NEW d \in Conns, NEW m \in MsgType,
           NEW c \in Conns
    PROVE  Len(Sent(ch, d, m)[c]) = IF c = d THEN Len(ch[c]) + 1 ELSE Len(ch[c])
<1>1. ch[d] \in Seq(MsgType)
  OBVIOUS
<1>. QED
  BY <1>1 DEF Sent

\* Closing it.
LEMMA DroppedLoad ==
    ASSUME NEW ch \in [Conns -> Seq(MsgType)], NEW S, NEW c \in Conns
    PROVE  Len(Dropped(ch, S)[c]) <= Len(ch[c])
<1>1. ch[c] \in Seq(MsgType) /\ Len(<<>>) = 0
  OBVIOUS
<1>. QED
  BY <1>1 DEF Dropped

\* A network that repeats nothing adds nothing.
LEMMA DisturbedLoad ==
    ASSUME NEW s \in Seq(MsgType), NEW k \in DOMAIN s, NEW kind \in {"lose", "reorder"}
    PROVE  Len(Disturbed(kind, s, k)) <= Len(s)
<1>1. k \in 1 .. Len(s) /\ Len(s) \in Nat /\ s[k] \in MsgType
  OBVIOUS
<1>2. /\ SubSeq(s, 1, k - 1) \in Seq(MsgType) /\ Len(SubSeq(s, 1, k - 1)) = k - 1
      /\ SubSeq(s, k + 1, Len(s)) \in Seq(MsgType)
      /\ Len(SubSeq(s, k + 1, Len(s))) = Len(s) - k
  <2>1. SubSeq(s, 1, k - 1) \in Seq(MsgType) /\ SubSeq(s, k + 1, Len(s)) \in Seq(MsgType)
    BY <1>1
  <2>2. Len(SubSeq(s, 1, k - 1)) = k - 1
    BY <1>1
  <2>3. Len(SubSeq(s, k + 1, Len(s))) = Len(s) - k
    BY <1>1
  <2>. QED
    BY <2>1, <2>2, <2>3
<1>3. RemoveAt(s, k) \in Seq(MsgType) /\ Len(RemoveAt(s, k)) = Len(s) - 1
  <2>1. ASSUME NEW a \in Seq(MsgType), NEW b \in Seq(MsgType)
        PROVE  a \o b \in Seq(MsgType) /\ Len(a \o b) = Len(a) + Len(b)
    OBVIOUS
  <2>2. (k - 1) + (Len(s) - k) = Len(s) - 1
    BY <1>1
  <2>. QED
    BY <1>2, <2>1, <2>2 DEF RemoveAt
<1>4. Len(Append(RemoveAt(s, k), s[k])) = Len(s)
  BY <1>1, <1>3
<1>. QED
  BY <1>1, <1>3, <1>4 DEF Disturbed

\* The main thread adds a message where it writes, and nowhere else.
LEMMA MainLoad ==
    ASSUME TypeInv, Main \/ MSignal, NEW c \in Conns
    PROVE  /\ Len(toServer'[c]) <= Len(toServer[c])
           /\ \/ Len(toClient'[c]) <= Len(toClient[c])
              \/ /\ (MWrite /\ c = i) \/ MBroadcast
                 /\ Len(toClient'[c]) = Len(toClient[c]) + 1
<1>0. /\ toServer \in [Conns -> Seq(MsgType)] /\ toClient \in [Conns -> Seq(MsgType)]
      /\ Len(toServer[c]) \in Nat /\ Len(toClient[c]) \in Nat
  BY Loads DEF TypeInv, TypeOK, NetTypeOK
<1>1. Len(Dropped(toServer, Conns)[c]) <= Len(toServer[c])
  BY <1>0, DroppedLoad
<1>. USE DEF netVars
<1>2. CASE UNCHANGED <<toServer, toClient>>
  BY <1>0, <1>2
<1>3. CASE MConnect
  <2>1. i \in Conns
    BY <1>3, ClientCountAssumption
    DEF MConnect, TypeInv, TypeOK, MainTypeOK, LocalsOK, Conns
  <2>2. \/ UNCHANGED toServer
        \/ toServer[i] # <<>> /\ toServer' = [toServer EXCEPT ![i] = Tail(@)]
    BY <1>3 DEF MConnect
  <2>3. CASE toServer[i] # <<>> /\ toServer' = [toServer EXCEPT ![i] = Tail(@)]
    BY <1>0, <1>3, <2>1, <2>3, TakenLoad DEF MConnect
  <2>. QED
    BY <1>0, <1>3, <2>2, <2>3 DEF MConnect
<1>4. CASE MBroadcast
  <2>1. toServer' = toServer /\ toClient' = Broadcast(Request)
    BY <1>4 DEF MBroadcast
  <2>2. toClient[c] \in Seq(MsgType) /\ Request \in MsgType
    BY Loads DEF Request, MsgType
  <2>3. Len(Append(toClient[c], Request)) = Len(toClient[c]) + 1
    BY <2>2
  <2>. QED
    BY <1>0, <1>4, <2>1, <2>3 DEF Broadcast
<1>5. CASE MWrite
  <2>1. i \in Conns /\ Request \in MsgType
    BY <1>5, ClientCountAssumption
    DEF MWrite, TypeInv, TypeOK, MainTypeOK, LocalsOK, Conns, Request, MsgType
  <2>2. toServer' = toServer /\ toClient' = Sent(toClient, i, Request)
    BY <1>5 DEF MWrite
  <2>3. Len(toClient'[c]) = IF c = i THEN Len(toClient[c]) + 1 ELSE Len(toClient[c])
    BY <1>0, <2>1, <2>2, SentLoad
  <2>. QED
    BY <1>0, <1>5, <2>2, <2>3
<1>6. CASE MWriteDies \/ MJoin
  BY <1>0, <1>1, <1>6 DEF MWriteDies, MJoin, Die, Close
<1>7. CASE MSignal
  <2>1. CASE MInterrupted \/ MHangs
    BY <1>2, <2>1 DEF MInterrupted, MHangs
  <2>2. CASE MInterruptedAgain
    BY <1>0, <1>1, <2>2 DEF MInterruptedAgain, Die, Close
  <2>. QED
    BY <1>7, <2>1, <2>2 DEF MSignal
<1>8. CASE MSpawn \/ MLoop \/ MReset \/ MSend \/ MWriteEfin \/ MTimeout \/ MSum
  BY <1>2, <1>8 DEF MSpawn, MLoop, MReset, MSend, MWriteEfin, MTimeout, MSum
<1>9. CASE MPause \/ MScanEnd \/ MScan \/ MClear \/ MUnpause \/ MReport \/ MCleanup
  BY <1>2, <1>9 DEF MPause, MScanEnd, MScan, MClear, MUnpause, MReport, MCleanup
<1>. QED
  BY <1>3, <1>4, <1>5, <1>6, <1>7, <1>8, <1>9 DEF Main

\* A worker adds none, and takes one off the connection whose answer it records.
LEMMA WorkerLoad ==
    ASSUME TypeInv, NEW t \in Threads, Worker(t), NEW c \in Conns
    PROVE  /\ UNCHANGED toClient
           /\ Len(toServer'[c]) <= Len(toServer[c])
           /\ WVote(t) /\ c = wi[t] =>
                 toServer[c] # <<>> /\ Len(toServer'[c]) = Len(toServer[c]) - 1
<1>0. toServer \in [Conns -> Seq(MsgType)] /\ Len(toServer[c]) \in Nat
  BY Loads DEF TypeInv, TypeOK, NetTypeOK
<1>1. \A S : Len(Dropped(toServer, S)[c]) <= Len(toServer[c])
  BY <1>0, DroppedLoad
<1>2. wpc[t] = "poll" => wi[t] \in Conns
  BY WorkerConns DEF TypeInv, LocalsOK
<1>. USE DEF netVars
<1>3. CASE WStop(t) \/ WPause(t) \/ WZero(t) \/ WLoad(t) \/ WStore(t)
  <2>1. UNCHANGED <<toServer, toClient>> /\ ~ WVote(t)
    BY <1>3 DEF WStop, WPause, WZero, WLoad, WStore, WVote
  <2>. QED
    BY <1>0, <2>1
<1>4. CASE (WAgain(t) \/ WEfin(t) \/ WStat(t)) /\ ~ WVote(t)
  <2>1. UNCHANGED <<toServer, toClient>>
    BY <1>4 DEF WAgain, WEfin, WStat
  <2>. QED
    BY <1>0, <1>4, <2>1
<1>5. CASE (WReadDies(t) \/ WDelete(t)) /\ ~ WVote(t)
  BY <1>0, <1>1, <1>5 DEF WReadDies, WDelete, Die, Close
<1>6. CASE WIgnore(t) /\ ~ WVote(t)
  <2>1. \/ toServer' = toServer
        \/ toServer[wi[t]] # <<>> /\ toServer' = [toServer EXCEPT ![wi[t]] = Tail(@)]
    BY <1>6 DEF WIgnore
  <2>2. Len(toServer'[c]) <= Len(toServer[c])
    <3>1. CASE toServer' = toServer
      BY <1>0, <3>1
    <3>2. CASE toServer[wi[t]] # <<>> /\ toServer' = [toServer EXCEPT ![wi[t]] = Tail(@)]
      BY <1>0, <1>2, <1>6, <3>2, TakenLoad DEF WIgnore
    <3>. QED
      BY <2>1, <3>1, <3>2
  <2>. QED
    BY <1>6, <2>2 DEF WIgnore
<1>7. CASE WVote(t)
  <2>1. /\ wi[t] \in Conns /\ toServer[wi[t]] # <<>>
        /\ toServer' = [toServer EXCEPT ![wi[t]] = Tail(@)]
        /\ UNCHANGED toClient
    BY <1>2, <1>7 DEF WVote
  <2>. QED
    BY <1>0, <2>1, TakenLoad
<1>. QED
  BY <1>3, <1>4, <1>5, <1>6, <1>7 DEF Worker

\* A client answers what it takes; only the connection message comes unasked.
LEMMA ClientLoad ==
    ASSUME TypeInv, TypeInv', NEW d \in Conns, Client(d) \/ ClientKill(d), NEW c \in Conns
    PROVE  \/ Load(c)' <= Load(c) /\ (cpc'[c] = "connect" => cpc[c] = "connect")
           \/ /\ cpc[c] = "connect" /\ cpc'[c] # "connect"
              /\ Load(c)' = Load(c) + 1
<1>0. /\ toServer \in [Conns -> Seq(MsgType)] /\ toClient \in [Conns -> Seq(MsgType)]
      /\ Len(toServer[c]) \in Nat /\ Len(toClient[c]) \in Nat
      /\ cpc \in [Conns -> {"connect", "phase1", "phase2"}]
      /\ Load(c) = Len(toServer[c]) + Len(toClient[c])
      /\ Load(c)' = Len(toServer'[c]) + Len(toClient'[c])
      /\ Len(toServer'[c]) \in Nat /\ Len(toClient'[c]) \in Nat
  BY Loads, LoadsNext DEF TypeInv, TypeOK, NetTypeOK, ClientTypeOK, Load
<1>1. CASE ClientConnect(d)
  <2>1. Len(toServer'[c]) = IF c = d THEN Len(toServer[c]) + 1 ELSE Len(toServer[c])
    <3>1. "con" \in MsgType /\ toServer' = Sent(toServer, d, "con")
      BY <1>1 DEF ClientConnect, MsgType
    <3>. QED
      BY <1>0, <3>1, SentLoad
  <2>2. /\ toClient' = toClient /\ cpc[d] = "connect"
        /\ cpc'[c] = IF c = d THEN "phase1" ELSE cpc[c]
    BY <1>0, <1>1 DEF ClientConnect
  <2>. QED
    BY <1>0, <2>1, <2>2
<1>2. ASSUME NEW m \in MsgType, Answer(d, m), toClient[d] # <<>>
      PROVE  Load(c)' = Load(c)
  <2>1. Len(toServer'[c]) = IF c = d THEN Len(toServer[c]) + 1 ELSE Len(toServer[c])
    BY <1>0, <1>2, SentLoad DEF Answer
  <2>2. Len(toClient'[c]) = IF c = d THEN Len(toClient[c]) - 1 ELSE Len(toClient[c])
    BY <1>0, <1>2, TakenLoad DEF Answer
  <2>. QED
    BY <1>0, <2>1, <2>2
<1>3. CASE ClientPhase1(d)
  <2>1. Load(c)' = Load(c)
    BY <1>2, <1>3, ShownTypes DEF ClientPhase1, MsgType, TypeInv, TypeOK
  <2>2. cpc'[c] = "connect" => cpc[c] = "connect"
    BY <1>0, <1>3 DEF ClientPhase1
  <2>3. Load(c)' <= Load(c)
    BY <2>1, Loads
  <2>. QED
    BY <2>2, <2>3
<1>4. CASE ClientPhase2(d)
  <2>1. Load(c)' = Load(c)
    BY <1>2, <1>4, ShownTypes DEF ClientPhase2, MsgType, TypeInv, TypeOK
  <2>2. cpc'[c] = "connect" => cpc[c] = "connect"
    BY <1>0, <1>4 DEF ClientPhase2
  <2>3. Load(c)' <= Load(c)
    BY <2>1, Loads
  <2>. QED
    BY <2>2, <2>3
<1>5. CASE ClientProtocolFailure(d) \/ ClientTimeout(d) \/ ClientEfin(d) \/ ClientKill(d)
  <2>1. Exit(d) /\ UNCHANGED <<toServer, clientVars>>
    BY <1>5 DEF ClientProtocolFailure, ClientTimeout, ClientEfin, ClientKill
  <2>2. Len(Dropped(toClient, {d})[c]) <= Len(toClient[c])
    BY <1>0, DroppedLoad
  <2>. QED
    BY <1>0, <2>1, <2>2 DEF Exit, clientVars
<1>. QED
  BY <1>1, <1>3, <1>4, <1>5 DEF Client

\* Nor does a network that repeats nothing.
LEMMA NetLoad ==
    ASSUME PatientServer, TypeInv, TypeInv', NetFault, NEW c \in Conns
    PROVE  Load(c)' <= Load(c)
<1>0. /\ toServer \in [Conns -> Seq(MsgType)] /\ toClient \in [Conns -> Seq(MsgType)]
      /\ Len(toServer[c]) \in Nat /\ Len(toClient[c]) \in Nat
      /\ Load(c) = Len(toServer[c]) + Len(toClient[c])
      /\ Load(c)' = Len(toServer'[c]) + Len(toClient'[c])
      /\ Len(toServer'[c]) \in Nat /\ Len(toClient'[c]) \in Nat
  BY Loads, LoadsNext DEF TypeInv, TypeOK, NetTypeOK, Load
<1>1. PICK kind \in {"lose", "reorder"}, d \in Conns :
          \/ /\ \E k \in DOMAIN toServer[d] :
                   toServer' = [toServer EXCEPT ![d] = Disturbed(kind, @, k)]
             /\ UNCHANGED toClient
          \/ /\ \E k \in DOMAIN toClient[d] :
                   toClient' = [toClient EXCEPT ![d] = Disturbed(kind, @, k)]
             /\ UNCHANGED toServer
  BY FaultsAssumption DEF NetFault, PatientServer
<1>2. ASSUME NEW ch \in [Conns -> Seq(MsgType)], NEW k \in DOMAIN ch[d]
      PROVE  Len([ch EXCEPT ![d] = Disturbed(kind, @, k)][c]) <= Len(ch[c])
  <2>1. Len(Disturbed(kind, ch[d], k)) <= Len(ch[d])
    BY <1>2, DisturbedLoad
  <2>2. Len(ch[c]) \in Nat
    OBVIOUS
  <2>. QED
    BY <2>1, <2>2
<1>3. CASE /\ \E k \in DOMAIN toServer[d] :
                 toServer' = [toServer EXCEPT ![d] = Disturbed(kind, @, k)]
           /\ UNCHANGED toClient
  <2>1. Len(toServer'[c]) <= Len(toServer[c])
    BY <1>0, <1>2, <1>3
  <2>. QED
    BY <1>0, <1>3, <2>1
<1>4. CASE /\ \E k \in DOMAIN toClient[d] :
                 toClient' = [toClient EXCEPT ![d] = Disturbed(kind, @, k)]
           /\ UNCHANGED toServer
  <2>1. Len(toClient'[c]) <= Len(toClient[c])
    BY <1>0, <1>2, <1>4
  <2>. QED
    BY <1>0, <1>4, <2>1
<1>. QED
  BY <1>1, <1>3, <1>4

\* A message is added only for a client that has none under way and nothing on
\* the scoreboard.
LEMMA MessageSteps ==
    ASSUME PatientState, [Next]_vars, NEW c \in Conns
    PROVE  \/ Load(c)' <= Load(c) /\ (cpc'[c] = "connect" => cpc[c] = "connect")
           \/ /\ Quiet(c) /\ ~ Recorded(c) /\ Load(c)' <= 1
              /\ UNCHANGED votes_scoreboard /\ cpc'[c] # "connect"
              /\ (MWrite /\ c = i) \/ MBroadcast \/ cpc[c] = "connect"
<1>0. TypeInv /\ TypeInv'
  BY TypeStep DEF PatientState
<1>1. Load(c) \in Nat /\ Load(c)' \in Nat /\ (Quiet(c) => Load(c) = 0)
  BY <1>0, Loads, LoadsNext
<1>2. CASE (Main \/ MSignal) /\ UNCHANGED clientVars
  <2>0. Len(toServer'[c]) <= Len(toServer[c])
    BY <1>0, <1>2, MainLoad
  <2>1. CASE Len(toClient'[c]) <= Len(toClient[c])
    <3>1. Load(c)' <= Load(c)
      BY <1>0, <2>0, <2>1, LoadChange
    <3>. QED
      BY <1>2, <3>1 DEF clientVars
  <2>2. CASE /\ (MWrite /\ c = i) \/ MBroadcast
             /\ Len(toClient'[c]) = Len(toClient[c]) + 1
    <3>1. Telling /\ (mpc = "broadcast" => i = 0) /\ i \in Nat /\ UNCHANGED votes_scoreboard
      BY <1>0, <2>2
      DEF Telling, MWrite, MBroadcast, sharedVars, PatientState, PatientInv, PhaseInv,
          TypeInv, TypeOK, MainTypeOK
    <3>2. c >= i
      BY <2>2, <3>1, ClientCountAssumption DEF MBroadcast, Conns
    <3>3. Quiet(c) /\ ~ Recorded(c) /\ cpc[c] # "connect"
      BY <3>1, <3>2 DEF PatientState, PatientInv, PhaseInv
    <3>4. Load(c)' <= Load(c) + 1
      BY <1>0, <2>0, <2>2, LoadChange
    <3>5. Load(c)' <= 1
      BY <1>1, <3>3, <3>4
    <3>. QED
      BY <1>2, <2>2, <3>1, <3>3, <3>5 DEF clientVars
  <2>. QED
    BY <1>0, <1>2, <2>1, <2>2, MainLoad
<1>3. CASE \E t \in Threads : Worker(t) /\ UNCHANGED clientVars
  <2>1. /\ Len(toServer'[c]) <= Len(toServer[c])
        /\ toClient' = toClient
    BY <1>0, <1>3, WorkerLoad
  <2>2. Len(toClient'[c]) <= Len(toClient[c])
    BY <1>0, <2>1, Loads
  <2>3. Load(c)' <= Load(c)
    BY <1>0, <2>1, <2>2, LoadChange
  <2>. QED
    BY <1>3, <2>3 DEF clientVars
<1>4. CASE \E d \in Conns : (Client(d) \/ ClientKill(d)) /\ UNCHANGED serverVars
  <2>1. PICK d \in Conns : (Client(d) \/ ClientKill(d)) /\ UNCHANGED serverVars
    BY <1>4
  <2>2. CASE cpc[c] = "connect" /\ cpc'[c] # "connect" /\ Load(c)' = Load(c) + 1
    <3>1. Quiet(c) /\ ~ Recorded(c)
      BY <2>2 DEF PatientState, PatientInv, OneMessageInv
    <3>2. Load(c)' <= 1
      BY <1>1, <2>2, <3>1
    <3>. QED
      BY <2>1, <2>2, <3>1, <3>2 DEF serverVars, sharedVars
  <2>. QED
    BY <1>0, <2>1, <2>2, ClientLoad
<1>5. CASE NetFault /\ UNCHANGED <<serverVars, clientVars>>
  <2>1. Load(c)' <= Load(c)
    BY <1>0, <1>5, NetLoad DEF PatientState
  <2>. QED
    BY <1>5, <2>1 DEF clientVars
<1>6. CASE UNCHANGED vars
  <2>1. Load(c)' = Load(c) /\ UNCHANGED cpc
    BY <1>6 DEF vars, netVars, clientVars, Load
  <2>2. Load(c)' <= Load(c)
    BY <1>1, <2>1
  <2>. QED
    BY <2>1, <2>2
<1>. QED
  BY <1>2, <1>3, <1>4, <1>5, <1>6, StepKinds

\* The main thread clears slots, and only when it resets the scoreboard.
LEMMA MainBoard ==
    ASSUME Main \/ MSignal
    PROVE  UNCHANGED votes_scoreboard \/ MReset
<1>. USE DEF sharedVars
<1>1. CASE MConnect \/ MSpawn \/ MLoop \/ MBroadcast \/ MSend \/ MWrite \/ MWriteEfin
  BY <1>1 DEF MConnect, MSpawn, MLoop, MBroadcast, MSend, MWrite, MWriteEfin
<1>2. CASE MWriteDies \/ MTimeout \/ MSum \/ MPause \/ MScanEnd \/ MScan \/ MClear
  BY <1>2 DEF MWriteDies, Die, MTimeout, MSum, MPause, MScanEnd, MScan, MClear
<1>3. CASE MUnpause \/ MReport \/ MCleanup \/ MJoin \/ MSignal
  BY <1>3 DEF MUnpause, MReport, MCleanup, MJoin, MSignal, MInterrupted,
              MInterruptedAgain, MHangs, Die
<1>. QED
  BY <1>1, <1>2, <1>3 DEF Main

\* A worker fills a slot when it records an answer, and leaves the main thread alone.
LEMMA WorkerBoard ==
    ASSUME NEW t \in Threads, Worker(t)
    PROVE  /\ UNCHANGED votes_scoreboard \/ WVote(t)
           /\ UNCHANGED mainVars \/ WReadDies(t)
<1>. USE DEF sharedVars
<1>1. CASE WStop(t) \/ WPause(t) \/ WZero(t) \/ WLoad(t) \/ WStore(t) \/ WVote(t)
  BY <1>1 DEF WStop, WPause, WZero, WLoad, WStore, WVote
<1>2. CASE WAgain(t) \/ WIgnore(t) \/ WEfin(t) \/ WStat(t) \/ WReadDies(t) \/ WDelete(t)
  BY <1>2 DEF WAgain, WIgnore, WEfin, WStat, WReadDies, WDelete, Die
<1>. QED
  BY <1>1, <1>2 DEF Worker

\* Resetting a slot.
LEMMA ResetSlot ==
    ASSUME PatientState, MReset
    PROVE  /\ i \in Slots
           /\ \A s \in Slots : votes_scoreboard'[s] =
                                 IF s = i THEN "lost" ELSE votes_scoreboard[s]
<1>. QED
  BY ClientCountAssumption
  DEF PatientState, TypeInv, TypeOK, SharedTypeOK, MainTypeOK, LocalsOK, MReset, Slots

\* Recording an answer, on a slot that no other client has.
LEMMA RecordSlot ==
    ASSUME PatientState, NEW t \in Threads, WVote(t)
    PROVE  /\ wi[t] \in Conns /\ wi[t] \in Mine(t)
           /\ ~ Quiet(wi[t]) /\ ~ Recorded(wi[t]) /\ Recorded(wi[t])'
           /\ UNCHANGED wi
           /\ \A c \in Conns \ {wi[t]} : Recorded(c)' <=> Recorded(c)
<1>0. TypeInv /\ RangeInv /\ OneMessageInv /\ PatientServer
  BY DEF PatientState, PatientInv
<1>1. wi[t] \in Conns /\ wi[t] \in Mine(t)
  BY <1>0, CountingMine DEF WVote, TypeInv, LocalsOK
<1>2. ~ Quiet(wi[t]) /\ ~ Recorded(wi[t])
  BY <1>0, <1>1 DEF WVote, Quiet, OneMessageInv
<1>3. \A c \in Conns : HostId[c] - 1 \in Slots
  BY <1>0, ClientCountAssumption DEF PatientServer, Slots
<1>4. \A c \in Conns \ {wi[t]} : HostId[c] - 1 # HostId[wi[t]] - 1
  BY <1>0, <1>1, ClientCountAssumption DEF PatientServer
<1>5. /\ votes_scoreboard \in [Slots -> Slot]
      /\ votes_scoreboard' = [votes_scoreboard EXCEPT ![HostId[wi[t]] - 1] =
                                  Head(toServer[wi[t]])]
  BY <1>0 DEF WVote, TypeInv, TypeOK, SharedTypeOK
<1>6. Head(toServer[wi[t]]) \notin {"zeroed", "lost"}
  <2>1. toServer[wi[t]] \in Seq(MsgType) /\ toServer[wi[t]] # <<>>
    BY <1>0, <1>1, Loads DEF WVote
  <2>2. Head(toServer[wi[t]]) \in MsgType
    BY <2>1
  <2>. QED
    BY <2>2 DEF MsgType
<1>7. Recorded(wi[t])'
  BY <1>1, <1>3, <1>5, <1>6 DEF Recorded, WVote
<1>8. \A c \in Conns \ {wi[t]} : Recorded(c)' <=> Recorded(c)
  BY <1>3, <1>4, <1>5 DEF Recorded
<1>. QED
  BY <1>1, <1>2, <1>7, <1>8 DEF WVote

\* What happens to the slot of one client.
LEMMA SlotSteps ==
    ASSUME PatientState, [Next]_vars, NEW c \in Conns
    PROVE  \/ Recorded(c)' <=> Recorded(c)
           \/ MReset /\ ~ Recorded(c)'
           \/ \E t \in Threads : WVote(t) /\ c = wi[t]
<1>1. CASE UNCHANGED votes_scoreboard
  BY <1>1 DEF Recorded
<1>2. CASE MReset
  <2>1. HostId[c] - 1 \in Slots
    BY ClientCountAssumption DEF PatientState, PatientServer, Slots
  <2>. QED
    BY <1>2, <2>1, ResetSlot DEF Recorded
<1>3. ASSUME NEW t \in Threads, WVote(t)
      PROVE  (Recorded(c)' <=> Recorded(c)) \/ c = wi[t]
  BY <1>3, RecordSlot
<1>. QED
  BY <1>1, <1>2, <1>3, StepKinds, MainBoard, WorkerBoard
  DEF vars, serverVars, sharedVars

-----------------------------------------------------------------------------
(* Each part of the invariant is kept. *)

\* A client has one message under way at most.
LEMMA OneMessageKept ==
    ASSUME PatientState, [Next]_vars
    PROVE  OneMessageInv'
<1>. SUFFICES ASSUME NEW c \in Conns
              PROVE  /\ Load(c)' <= 1
                     /\ cpc'[c] = "connect" => Quiet(c)' /\ ~ Recorded(c)'
                     /\ Recorded(c)' => Quiet(c)'
  BY DEF OneMessageInv, Load
<1>0. /\ TypeInv /\ TypeInv'
      /\ Load(c) <= 1 /\ (cpc[c] = "connect" => Quiet(c) /\ ~ Recorded(c))
      /\ Recorded(c) => Quiet(c)
  BY TypeStep DEF PatientState, PatientInv, OneMessageInv, Load
<1>1. /\ Load(c) \in Nat /\ Load(c)' \in Nat
      /\ Quiet(c) <=> Load(c) = 0
      /\ Quiet(c)' <=> Load(c)' = 0
  BY <1>0, Loads, LoadsNext
<1>2. CASE \E t \in Threads : WVote(t) /\ c = wi[t]
  <2>1. PICK t \in Threads : WVote(t) /\ c = wi[t]
    BY <1>2
  <2>2. Load(c)' = Load(c) - 1
    <3>1. /\ Len(toServer'[c]) = Len(toServer[c]) - 1
          /\ Len(toServer'[c]) <= Len(toServer[c])
          /\ toClient' = toClient
      BY <1>0, <2>1, WorkerLoad DEF Worker
    <3>. QED
      BY <1>0, <3>1, LoadChange
  <2>3. Quiet(c)'
    BY <1>0, <1>1, <2>2
  <2>4. cpc'[c] # "connect"
    BY <1>0, <2>1, MessageSteps, RecordSlot
  <2>. QED
    BY <1>1, <2>3, <2>4
<1>3. CASE UNCHANGED votes_scoreboard /\ ~ Recorded(c) /\ Load(c)' <= 1 /\ cpc'[c] # "connect"
  BY <1>3 DEF Recorded
<1>4. CASE /\ Load(c)' <= Load(c) /\ (cpc'[c] = "connect" => cpc[c] = "connect")
           /\ Recorded(c)' => Recorded(c)
  BY <1>0, <1>1, <1>4
<1>. QED
  BY <1>2, <1>3, <1>4, MessageSteps, SlotSteps

\* A worker's index stays within its range.
LEMMA RangeKept ==
    ASSUME PatientState, [Next]_vars
    PROVE  RangeInv'
<1>0. /\ wi \in [Threads -> 0 .. client_count] /\ RangeInv /\ TypeInv
      /\ \A t \in Threads : Lo(t) \in Nat
  BY LoHi DEF PatientState, PatientInv, TypeInv, TypeOK, WorkerTypeOK
<1>1. CASE UNCHANGED wi
  BY <1>0, <1>1 DEF RangeInv
<1>2. ASSUME NEW t \in Threads, Worker(t)
      PROVE  RangeInv'
  <2>1. \/ UNCHANGED wi \/ wi' = [wi EXCEPT ![t] = @ + 1] \/ wi' = [wi EXCEPT ![t] = Lo(t)]
    <3>1. CASE WStop(t) \/ WPause(t) \/ WZero(t) \/ WLoad(t) \/ WStore(t) \/ WVote(t)
      BY <3>1 DEF WStop, WPause, WZero, WLoad, WStore, WVote
    <3>2. CASE WAgain(t) \/ WIgnore(t) \/ WEfin(t) \/ WStat(t)
      BY <3>2 DEF WAgain, WIgnore, WEfin, WStat, Advance, Break
    <3>3. CASE WReadDies(t) \/ WDelete(t)
      BY <3>3 DEF WReadDies, WDelete, Die
    <3>. QED
      BY <1>2, <3>1, <3>2, <3>3 DEF Worker
  <2>. QED
    BY <1>0, <2>1 DEF RangeInv
<1>. QED
  BY <1>1, <1>2, StepKinds, MainFrame DEF vars, serverVars, workerVars

\* A quiet connection stays quiet until the main thread writes to it, or the
\* client behind it connects.
LEMMA QuietStays ==
    ASSUME PatientState, [Next]_vars, NEW c \in Conns, Quiet(c)
    PROVE  Quiet(c)' \/ (MWrite /\ c = i) \/ MBroadcast \/ cpc[c] = "connect"
<1>1. Load(c) = 0 /\ Load(c)' \in Nat /\ (Load(c)' = 0 => Quiet(c)')
  BY TypeStep, Loads, LoadsNext DEF PatientState
<1>2. Load(c)' <= Load(c) => Quiet(c)'
  BY <1>1
<1>. QED
  BY <1>2, MessageSteps

\* A client that has connected does not connect again.
LEMMA ConnectedStays ==
    ASSUME PatientState, [Next]_vars, NEW c \in Conns, cpc[c] # "connect"
    PROVE  cpc'[c] # "connect"
  BY MessageSteps

\* Before the workers run, do_connectall is the only one to move the server.
LEMMA StartSteps ==
    ASSUME PatientState, [Next]_vars, Starting'
    PROVE  /\ Starting
           /\ MConnect \/ UNCHANGED <<serverVars, peers>>
           /\ UNCHANGED <<votes_scoreboard, votes_count>>
           /\ ~ MWrite /\ ~ MBroadcast
<1>1. CASE Main \/ MSignal
  <2>1. MConnect
    <3>. USE DEF Starting
    <3>1. CASE MSpawn \/ MLoop \/ MReset \/ MBroadcast \/ MSend \/ MWrite \/ MWriteEfin
      BY <3>1 DEF MSpawn, MLoop, MReset, AfterReset, MBroadcast, MSend, MWrite, MWriteEfin
    <3>2. CASE MWriteDies \/ MTimeout \/ MSum \/ MPause \/ MScanEnd \/ MScan \/ MClear
      BY <3>2 DEF MWriteDies, Die, MTimeout, MSum, MPause, MScanEnd, MScan, MClear
    <3>3. CASE MUnpause \/ MReport \/ MCleanup \/ MJoin \/ MSignal
      BY <3>3 DEF MUnpause, MReport, MCleanup, MJoin, MSignal, MInterrupted,
                  MInterruptedAgain, MHangs, Die
    <3>. QED
      BY <1>1, <3>1, <3>2, <3>3 DEF Main
  <2>. QED
    BY <2>1 DEF MConnect, Starting, MWrite, MBroadcast, sharedVars
<1>2. ASSUME NEW t \in Threads, Worker(t)
      PROVE  FALSE
  <2>1. mpc' = mpc \/ mpc' = "exited"
    BY <1>2, WorkerBoard DEF mainVars, WReadDies, Die
  <2>2. wpc[t] = "off"
    BY <2>1 DEF Starting, PatientState, TypeInv, LocalsOK
  <2>. QED
    BY <1>2, <2>2
    DEF Worker, WStop, WPause, WZero, WAgain, WEfin, WReadDies, WIgnore, WVote, WLoad,
        WStore, WStat, WDelete
<1>3. CASE \E c \in Conns : (Client(c) \/ ClientKill(c)) /\ UNCHANGED serverVars
  <2>1. UNCHANGED <<serverVars, peers>>
    BY <1>3 DEF Client, ClientConnect, ClientPhase1, ClientPhase2, ClientProtocolFailure,
                ClientTimeout, ClientEfin, ClientKill, Exit, Answer
  <2>. QED
    BY <2>1 DEF Starting, serverVars, sharedVars, mainVars, MWrite, MBroadcast
<1>4. CASE (NetFault /\ UNCHANGED serverVars) \/ UNCHANGED vars
  <2>1. UNCHANGED <<serverVars, peers>>
    BY <1>4 DEF NetFault, vars, netVars
  <2>. QED
    BY <2>1 DEF Starting, serverVars, sharedVars, mainVars, MWrite, MBroadcast
<1>. QED
  BY <1>1, <1>2, <1>3, <1>4, StepKinds

\* do_connectall counts the clients that have connected.
LEMMA StartKept ==
    ASSUME PatientState, [Next]_vars
    PROVE  StartInv'
<1>. SUFFICES ASSUME Starting'
              PROVE  StartInv'
  BY DEF StartInv
<1>0. TypeInv /\ TypeInv' /\ StartInv /\ OneMessageInv
  BY TypeStep DEF PatientState, PatientInv
<1>1. /\ Starting
      /\ UNCHANGED <<votes_scoreboard, votes_count>> /\ ~ MWrite /\ ~ MBroadcast
  BY StartSteps
<1>2. /\ \A c \in Conns : ~ Recorded(c)'
      /\ \A t \in Threads : votes_count'[t] = 0
  BY <1>0, <1>1 DEF StartInv, Recorded
<1>3. peers \subseteq Conns /\ IsFiniteSet(peers)
  BY <1>0, ConnsFinite, FS_Subset DEF TypeInv, TypeOK, NetTypeOK
<1>4. \A c \in peers : Quiet(c)' /\ cpc'[c] # "connect"
  BY <1>0, <1>1, <1>3, QuietStays, ConnectedStays DEF StartInv
<1>5. CASE MConnect /\ ~ UNCHANGED <<peers, connected>>
  <2>1. /\ i \in Conns /\ toServer[i] # <<>>
        /\ toServer' = [toServer EXCEPT ![i] = Tail(@)] /\ toClient' = toClient
        /\ peers' = peers \cup {i} /\ connected' = connected + 1
        /\ mpc' = "spawn" => connected + 1 >= client_count
    BY <1>0, <1>5, ClientCountAssumption
    DEF MConnect, TypeInv, TypeOK, MainTypeOK, LocalsOK, Conns
  <2>2. PICK c \in Conns : c = i
    BY <2>1
  <2>3. i \notin peers
    BY <1>0, <1>1, <2>1 DEF StartInv, Quiet
  <2>4. connected' = Cardinality(peers')
    BY <1>0, <1>1, <1>3, <2>1, <2>3, FS_AddElement DEF StartInv
  <2>5. Len(toServer'[c]) = Len(toServer[c]) - 1 /\ Len(toServer'[c]) <= Len(toServer[c])
    <3>1. toServer \in [Conns -> Seq(MsgType)] /\ Len(toServer[c]) \in Nat
      BY <1>0, Loads DEF TypeInv, TypeOK, NetTypeOK
    <3>. QED
      BY <2>1, <2>2, <3>1, TakenLoad
  <2>6. Load(c)' = Load(c) - 1
    BY <1>0, <2>1, <2>5, LoadChange
  <2>7. Load(c) <= 1 /\ Load(c) \in Nat /\ Load(c)' \in Nat /\ (Load(c)' = 0 => Quiet(c)')
    BY <1>0, Loads, LoadsNext DEF OneMessageInv, Load
  <2>8. Quiet(c)'
    BY <2>6, <2>7
  <2>9. cpc[c] # "connect"
    BY <1>0, <2>1, <2>2 DEF OneMessageInv, Quiet
  <2>10. cpc'[c] # "connect"
    BY <2>9, ConnectedStays
  <2>11. ASSUME mpc' = "spawn"
         PROVE  peers' = Conns
    <3>1. peers' \in SUBSET Conns /\ peers' \cap Conns = peers'
      BY <1>3, <2>1
    <3>2. client_count <= Cardinality(peers')
      BY <1>0, <2>1, <2>4, <2>11, ClientCountAssumption DEF TypeInv, TypeOK, MainTypeOK
    <3>. QED
      BY <3>1, <3>2, PartIsAll
  <2>. QED
    BY <1>2, <1>4, <2>1, <2>2, <2>4, <2>8, <2>10, <2>11 DEF StartInv
<1>6. CASE MConnect /\ UNCHANGED <<peers, connected>>
  <2>1. ASSUME mpc' = "spawn"
        PROVE  peers' = Conns
    <3>1. connected \in Nat /\ connected = Cardinality(peers)
      BY <1>0, <1>1 DEF StartInv, TypeInv, TypeOK, MainTypeOK
    <3>2. connected' # connected + 1
      BY <1>6, <3>1
    <3>3. connected >= client_count
      BY <1>6, <2>1, <3>2 DEF MConnect
    <3>4. peers \in SUBSET Conns /\ peers \cap Conns = peers
      BY <1>3
    <3>. QED
      BY <1>6, <3>1, <3>3, <3>4, PartIsAll, ClientCountAssumption
  <2>. QED
    BY <1>0, <1>1, <1>2, <1>4, <1>6, <2>1 DEF StartInv
<1>7. CASE UNCHANGED <<serverVars, peers>>
  <2>1. UNCHANGED <<connected, mpc>>
    BY <1>7 DEF serverVars, mainVars
  <2>. QED
    BY <1>0, <1>1, <1>2, <1>4, <1>7, <2>1 DEF StartInv
<1>. QED
  BY <1>5, <1>6, <1>7, StartSteps

\* When the sum is reached, every answer is on the scoreboard, and no worker has
\* one left to count: the sum has at most one for every answer that was counted.
LEMMA SumReached ==
    ASSUME PatientState, MSum
    PROVE  /\ mpc' = "wait" => total_votes' <= Cardinality(Counted \cap Before(i'))
           /\ mpc' = "pause" => Counted = Conns
<1>0. /\ mpc = "wait" /\ TypeInv /\ CountInv
      /\ i \in Threads /\ Counted \in SUBSET Conns
  BY ThreadsExist
  DEF MSum, PatientState, PatientInv, TypeInv, TypeOK, MainTypeOK, LocalsOK, Threads, Counted
<1>1. PICK a \in Nat : a = Cardinality(Counted \cap Before(i))
  BY <1>0, PartFinite
<1>2. PICK b \in Nat : b = Cardinality(Counted \cap Mine(i))
  BY <1>0, PartFinite
<1>3. total_votes \in Nat /\ total_votes <= a /\ votes_count[i] \in Nat /\ votes_count[i] <= b
  BY <1>0, <1>1, <1>2 DEF CountInv, TypeInv, TypeOK, MainTypeOK, SharedTypeOK
<1>4. total_votes + votes_count[i] <= a + b
  BY <1>3
<1>5. a + b = Cardinality(Counted \cap (Before(i) \cup Mine(i)))
  BY <1>0, <1>1, <1>2, BeforeNext, PartsAddUp
<1>6. CASE i + 1 < real_thread_count
  <2>1. i + 1 \in Threads
    BY <1>0, <1>6, ThreadsExist DEF Threads
  <2>2. i' = i + 1 /\ total_votes' = total_votes + votes_count[i] /\ mpc' = "wait"
    BY <1>0, <1>6 DEF MSum
  <2>. QED
    BY <1>0, <1>4, <1>5, <2>1, <2>2, BeforeNext
<1>7. CASE ~ (i + 1 < real_thread_count)
  <2>1. /\ i' = 0 /\ total_votes' = 0
        /\ mpc' = "pause" => total_votes + votes_count[i] >= client_count
    BY <1>0, <1>7 DEF MSum
  <2>2. Cardinality(Counted \cap Before(i')) \in Nat
    BY <1>0, PartFinite
  <2>3. mpc' = "pause" => client_count <= a + b
    BY <1>3, <1>4, <2>1, ClientCountAssumption
  <2>4. mpc' = "pause" => Counted = Conns
    BY <1>0, <1>5, <2>3, PartIsAll
  <2>. QED
    BY <2>1, <2>2, <2>4
<1>. QED
  BY <1>6, <1>7

\* A worker whose answer is counted has none left to count.
LEMMA AllCounted ==
    ASSUME PatientState, Counted = Conns, NEW t \in Threads
    PROVE  ~ Counting(t)
<1>. SUFFICES ASSUME Counting(t)
              PROVE  FALSE
  OBVIOUS
<1>1. wi[t] \in Conns
  BY WorkerConns DEF Counting, PatientState, TypeInv, LocalsOK
<1>. QED
  BY <1>1 DEF Counted

\* The steps of the main thread through its phases.
LEMMA PhaseMain ==
    ASSUME PatientState, [Next]_vars, Main \/ MSignal
    PROVE  PhaseInv'
<1>0. /\ TypeInv /\ PhaseInv /\ OneMessageInv /\ StartInv /\ CountInv /\ PatientServer
      /\ i \in 0 .. client_count
  BY DEF PatientState, PatientInv, TypeInv, TypeOK, MainTypeOK
<1>1. \A c \in Conns : cpc[c] # "connect" => cpc'[c] # "connect"
  BY ConnectedStays
<1>2. \A c \in Conns : Quiet(c) /\ cpc[c] # "connect" /\ ~ MBroadcast /\ ~ MWrite => Quiet(c)'
  BY QuietStays
<1>3. \A c \in Conns : HostId[c] - 1 \in Slots
  BY <1>0, ClientCountAssumption DEF PatientServer, Slots
<1>4. UNCHANGED votes_scoreboard => \A c \in Conns : Recorded(c)' <=> Recorded(c)
  BY DEF Recorded
<1>. USE DEF Beginning, Telling, Complete, sharedVars
<1>5. CASE MConnect \/ MWriteEfin \/ MCleanup \/ MJoin \/ MWriteDies \/ MSignal
  BY <1>5 DEF MConnect, MWriteEfin, MCleanup, MJoin, MWriteDies, MSignal, MInterrupted,
              MInterruptedAgain, MHangs, Die, PhaseInv
<1>6. CASE MSpawn
  <2>1. \A c \in Conns : Quiet(c) /\ cpc[c] # "connect"
    BY <1>0, <1>6 DEF MSpawn, StartInv, Starting
  <2>2. \A c \in Conns : Quiet(c)'
    BY <1>2, <1>6, <2>1 DEF MSpawn, MBroadcast, MWrite
  <2>. QED
    BY <1>1, <1>6, <2>1, <2>2 DEF MSpawn, PhaseInv
<1>7. CASE MLoop
  <2>1. \A c \in Conns : Quiet(c) /\ cpc[c] # "connect"
    BY <1>0, <1>7 DEF MLoop, PhaseInv
  <2>2. \A c \in Conns : Quiet(c)'
    BY <1>2, <1>7, <2>1 DEF MLoop, MBroadcast, MWrite
  <2>3. mpc' \in {"cleanup", "reset"} /\ i' = 0
    BY <1>7 DEF MLoop
  <2>. QED
    BY <1>1, <2>1, <2>2, <2>3, ClientCountAssumption DEF PhaseInv, Slots
<1>8. CASE MReset
  <2>1. \A c \in Conns : Quiet(c) /\ cpc[c] # "connect"
    BY <1>0, <1>8 DEF MReset, PhaseInv
  <2>2. \A c \in Conns : Quiet(c)' /\ cpc'[c] # "connect"
    BY <1>1, <1>2, <1>8, <2>1 DEF MReset, MBroadcast, MWrite
  <2>3. \A s \in Slots : s < i + 1 => votes_scoreboard'[s] = "lost"
    BY <1>0, <1>8, ResetSlot, ClientCountAssumption DEF MReset, PhaseInv, Slots
  <2>4. CASE i + 1 < client_count
    BY <1>8, <2>2, <2>3, <2>4 DEF MReset, PhaseInv
  <2>5. CASE ~ (i + 1 < client_count)
    <3>1. \A s \in Slots : votes_scoreboard'[s] = "lost"
      BY <1>0, <2>3, <2>5, ClientCountAssumption DEF Slots
    <3>2. \A c \in Conns : ~ Recorded(c)'
      BY <1>3, <3>1 DEF Recorded
    <3>3. i' = 0 /\ mpc' \in {"cleanup", "broadcast", "send"}
      BY <1>8, <2>5 DEF MReset, AfterReset
    <3>. QED
      BY <2>2, <3>2, <3>3 DEF PhaseInv
  <2>. QED
    BY <2>4, <2>5
<1>9. CASE MBroadcast
  BY <1>0, <1>1, <1>9 DEF MBroadcast, PhaseInv
<1>10. CASE MSend
  <2>1. UNCHANGED <<votes_scoreboard, toServer, toClient>>
    BY <1>10 DEF MSend, netVars
  <2>. QED
    BY <1>0, <1>1, <1>4, <1>10, <2>1 DEF MSend, PhaseInv, Quiet
<1>11. CASE MWrite
  <2>1. UNCHANGED votes_scoreboard /\ mpc' = "send" /\ i' = i + 1
    BY <1>11 DEF MWrite
  <2>2. ASSUME NEW c \in Conns, c >= i + 1
        PROVE  Quiet(c)' /\ ~ Recorded(c)'
    <3>1. c \in Int /\ i \in Int /\ c >= i /\ c # i
      BY <1>0, <2>2, ClientCountAssumption DEF Conns
    <3>2. Quiet(c) /\ ~ Recorded(c) /\ cpc[c] # "connect"
      BY <1>0, <1>11, <3>1 DEF MWrite, PhaseInv
    <3>3. ~ MBroadcast
      BY <1>11 DEF MWrite, MBroadcast
    <3>. QED
      BY <1>4, <2>1, <3>1, <3>2, <3>3, QuietStays
  <2>. QED
    BY <1>0, <1>1, <1>11, <2>1, <2>2 DEF MWrite, PhaseInv
<1>12. CASE MTimeout
  BY <1>0, <1>12 DEF MTimeout, PatientServer
<1>13. CASE MSum
  <2>1. UNCHANGED votes_scoreboard /\ mpc = "wait" /\ mpc' \in {"wait", "pause"}
    BY <1>13 DEF MSum
  <2>2. mpc' = "pause" => \A c \in Conns : Recorded(c)
    BY <1>13, SumReached DEF Counted
  <2>. QED
    BY <1>0, <1>1, <1>4, <2>1, <2>2 DEF PhaseInv
<1>14. CASE MPause \/ MScanEnd \/ MScan
  <2>1. /\ UNCHANGED votes_scoreboard /\ mpc \in {"pause", "scan"}
        /\ mpc' \in {"scan", "clear", "cleanup"}
    BY <1>14 DEF MPause, MScanEnd, MScan
  <2>. QED
    BY <1>0, <1>1, <1>4, <2>1 DEF PhaseInv
<1>15. CASE MClear
  <2>1. /\ UNCHANGED votes_scoreboard /\ mpc = "clear"
        /\ mpc' \in {"clear", "unpause"} /\ (mpc' = "unpause" => i' = 0)
    BY <1>15 DEF MClear
  <2>. QED
    BY <1>0, <1>1, <1>4, <2>1 DEF PhaseInv
<1>16. CASE MUnpause \/ MReport
  <2>1. /\ UNCHANGED <<votes_scoreboard, i>> /\ mpc \in {"unpause", "report"}
        /\ mpc' \in {"reset", "report", "cleanup", "loop"}
        /\ mpc' = "reset" => mpc = "unpause"
    BY <1>16 DEF MUnpause, MReport
  <2>2. \A c \in Conns : Recorded(c) /\ Quiet(c) /\ cpc[c] # "connect"
    BY <1>0, <2>1 DEF PhaseInv, OneMessageInv
  <2>3. \A c \in Conns : Quiet(c)'
    BY <1>2, <2>1, <2>2 DEF MBroadcast, MWrite
  <2>. QED
    BY <1>0, <1>1, <1>4, <2>1, <2>2, <2>3 DEF PhaseInv, Slots
<1>. QED
  BY <1>5, <1>6, <1>7, <1>8, <1>9, <1>10, <1>11, <1>12, <1>13, <1>14, <1>15, <1>16 DEF Main

\* The workers record what is asked for, and the clients say nothing unasked.
LEMMA PhaseKept ==
    ASSUME PatientState, [Next]_vars
    PROVE  PhaseInv'
<1>0. PhaseInv /\ OneMessageInv
  BY DEF PatientState, PatientInv
<1>. USE DEF Beginning, Telling, Complete
<1>1. ASSUME UNCHANGED <<mpc, i>>, ~ MWrite, ~ MBroadcast, ~ MReset
      PROVE  PhaseInv'
  <2>1. CASE Beginning \/ Telling \/ mpc = "wait" \/ Complete
    <3>1. \A c \in Conns : cpc[c] # "connect" /\ cpc'[c] # "connect"
      BY <1>0, <2>1, ConnectedStays DEF PhaseInv
    <3>2. \A c \in Conns : Quiet(c) => Quiet(c)'
      BY <1>1, <3>1, QuietStays
    <3>3. \A c \in Conns : Recorded(c) => Recorded(c)'
      BY <1>1, SlotSteps, RecordSlot
    <3>4. \A c \in Conns : Quiet(c) /\ ~ Recorded(c) => ~ Recorded(c)'
      BY <1>1, SlotSteps, RecordSlot
    <3>5. ASSUME mpc = "reset"
          PROVE  UNCHANGED votes_scoreboard
      <4>1. \A c \in Conns : Quiet(c)
        BY <1>0, <3>5 DEF PhaseInv
      <4>2. \A t \in Threads : ~ WVote(t)
        BY <4>1, RecordSlot
      <4>. QED
        BY <1>1, <4>2, StepKinds, MainBoard, WorkerBoard DEF vars, serverVars, sharedVars
    <3>. QED
      BY <1>0, <1>1, <3>1, <3>2, <3>3, <3>4, <3>5 DEF PhaseInv
  <2>2. CASE ~ (Beginning \/ Telling \/ mpc = "wait" \/ Complete)
    BY <1>1, <2>2 DEF PhaseInv
  <2>. QED
    BY <2>1, <2>2
<1>2. CASE Main \/ MSignal
  BY <1>2, PhaseMain
<1>3. ASSUME NEW t \in Threads, Worker(t), ~ Main
      PROVE  PhaseInv'
  <2>1. CASE WReadDies(t)
    BY <2>1 DEF WReadDies, Die, PhaseInv
  <2>2. CASE UNCHANGED mainVars
    BY <1>1, <1>3, <2>2 DEF mainVars, Main
  <2>. QED
    BY <1>3, <2>1, <2>2, WorkerBoard
<1>4. CASE UNCHANGED serverVars /\ ~ Main
  BY <1>1, <1>4 DEF serverVars, mainVars, Main
<1>. QED
  BY <1>2, <1>3, <1>4, StepKinds DEF vars

\* The main thread leaves the counters alone, except that it zeroes them when the
\* votes are in.
LEMMA CountMain ==
    ASSUME PatientState, [Next]_vars, Main \/ MSignal
    PROVE  CountInv'
<1>0. /\ TypeInv /\ PhaseInv /\ StartInv /\ CountInv
      /\ wpc \in [Threads -> WorkerPc] /\ votes_count \in [Threads -> Nat]
  BY DEF PatientState, PatientInv, TypeInv, TypeOK, WorkerTypeOK, SharedTypeOK
<1>1. Counted \in SUBSET Conns /\ Counted' \in SUBSET Conns
  BY DEF Counted
<1>2. UNCHANGED <<wi, wtmp>>
  BY MainFrame
<1>3. UNCHANGED <<votes_scoreboard, wpc>> => UNCHANGED Counted
  BY <1>2 DEF Counted, Recorded, Counting
<1>4. UNCHANGED <<votes_scoreboard, wpc>> =>
          \A t \in Threads : (Counting(t)' <=> Counting(t)) /\ (Counting(t)' => Recorded(wi[t])')
  BY <1>0, <1>2 DEF CountInv, Recorded, Counting
<1>. USE DEF Beginning, Telling, Complete, sharedVars, workerVars
<1>5. CASE MConnect \/ MWriteEfin \/ MCleanup
  BY <1>4, <1>5 DEF MConnect, MWriteEfin, MCleanup, CountInv
<1>6. CASE MJoin \/ MWriteDies \/ MSignal
  <2>1. mpc' \in {"cleanup", "exited", "hung"}
    BY <1>6 DEF MJoin, MWriteDies, MSignal, MInterrupted, MInterruptedAgain, MHangs, Die
  <2>2. CASE UNCHANGED <<votes_scoreboard, wpc>>
    BY <1>4, <2>1, <2>2 DEF CountInv
  <2>3. CASE Die
    BY <2>3 DEF Die, CountInv, Counting
  <2>4. CASE MHangs /\ mpc = "spawn"
    <3>1. \A t \in Threads : ~ Counting(t)' /\ wpc'[t] \notin {"load", "store"}
      BY <2>4 DEF MHangs, Counting
    <3>2. UNCHANGED votes_count
      BY <2>4 DEF MHangs
    <3>. QED
      BY <2>1, <3>1, <3>2, <1>0 DEF CountInv
  <2>. QED
    BY <1>6, <2>2, <2>3, <2>4
    DEF MJoin, MWriteDies, MSignal, MInterrupted, MInterruptedAgain, MHangs
<1>7. CASE MSpawn
  <2>1. \A t \in Threads : ~ Counting(t)' /\ votes_count'[t] = 0
    BY <1>0, <1>7 DEF MSpawn, StartInv, Starting, Counting
  <2>. QED
    BY <1>7, <2>1 DEF MSpawn, CountInv
<1>8. CASE MLoop \/ MReset
  <2>1. \A t \in Threads : ~ Counting(t) /\ votes_count[t] = 0
    BY <1>0, <1>8 DEF MLoop, MReset, CountInv
  <2>2. \A t \in Threads : ~ Counting(t)' /\ votes_count'[t] = 0
    BY <1>8, <2>1 DEF MLoop, MReset, Counting
  <2>3. mpc' \in {"cleanup", "reset", "broadcast", "send"}
    BY <1>8 DEF MLoop, MReset, AfterReset
  <2>4. \A t \in Threads : Cardinality(Counted \cap Mine(t))' \in Nat
    BY <1>1, PartFinite DEF Mine
  <2>5. \A t \in Threads : votes_count'[t] <= Cardinality(Counted \cap Mine(t))'
    BY <2>2, <2>4
  <2>. QED
    BY <2>2, <2>3, <2>5 DEF CountInv, Counting
<1>9. CASE MBroadcast \/ MSend \/ MWrite
  <2>1. /\ UNCHANGED <<votes_scoreboard, votes_count, wpc>> /\ Telling
        /\ mpc' \in {"wait", "send", "write"}
        /\ mpc' = "wait" => i' = 0 /\ total_votes' = 0
    BY <1>9 DEF MBroadcast, MSend, MWrite
  <2>2. Cardinality(Counted' \cap Before(i')) \in Nat
    BY <1>1, PartFinite
  <2>. QED
    BY <1>0, <1>2, <1>3, <1>4, <2>1, <2>2 DEF CountInv, Mine
<1>10. CASE MTimeout
  BY <1>10 DEF MTimeout, PatientState, PatientServer
<1>11. CASE MSum
  <2>1. /\ UNCHANGED <<votes_scoreboard, votes_count, wpc>> /\ mpc = "wait"
        /\ mpc' \in {"wait", "pause"}
    BY <1>11 DEF MSum
  <2>2. mpc' = "pause" => \A t \in Threads : ~ Counting(t)
    BY <1>11, SumReached, AllCounted
  <2>3. mpc' = "wait" => total_votes' <= Cardinality(Counted' \cap Before(i'))
    BY <1>3, <1>11, <2>1, SumReached
  <2>. QED
    BY <1>0, <1>2, <1>3, <1>4, <2>1, <2>2, <2>3 DEF CountInv, Mine
<1>12. CASE MPause \/ MScanEnd \/ MScan
  <2>1. /\ UNCHANGED <<votes_scoreboard, votes_count, wpc>> /\ mpc \in {"pause", "scan"}
        /\ mpc' \in {"scan", "clear", "cleanup"} /\ (mpc' = "clear" => i' = 0)
    BY <1>12 DEF MPause, MScanEnd, MScan
  <2>2. \A t \in Threads : ~ (t < 0)
    BY ThreadsExist DEF Threads
  <2>. QED
    BY <1>0, <1>4, <2>1, <2>2 DEF CountInv
<1>13. CASE MClear
  <2>1. /\ UNCHANGED <<votes_scoreboard, wpc>> /\ mpc = "clear" /\ i \in Threads
        /\ votes_count' = [votes_count EXCEPT ![i] = 0]
    BY <1>0, <1>13, ThreadsExist
    DEF MClear, TypeInv, TypeOK, MainTypeOK, LocalsOK, Threads
  <2>2. \A t \in Threads : t < i + 1 => votes_count'[t] = 0
    <3>1. \A t \in Threads : t \in Int /\ i \in Int /\ (t < i + 1 => t < i \/ t = i)
      BY <2>1, ThreadsExist DEF Threads
    <3>. QED
      BY <1>0, <2>1, <3>1 DEF CountInv
  <2>3. CASE i + 1 < real_thread_count
    BY <1>0, <1>4, <1>13, <2>1, <2>2, <2>3 DEF MClear, CountInv
  <2>4. CASE ~ (i + 1 < real_thread_count)
    <3>1. \A t \in Threads : votes_count'[t] = 0
      BY <2>1, <2>2, <2>4, ThreadsExist DEF Threads
    <3>2. mpc' = "unpause"
      BY <1>13, <2>4 DEF MClear
    <3>. QED
      BY <1>0, <1>4, <2>1, <3>1, <3>2 DEF CountInv
  <2>. QED
    BY <2>3, <2>4
<1>14. CASE MUnpause \/ MReport
  <2>1. /\ UNCHANGED <<votes_scoreboard, votes_count, wpc>> /\ mpc \in {"unpause", "report"}
        /\ mpc' \in {"reset", "report", "cleanup", "loop"}
    BY <1>14 DEF MUnpause, MReport
  <2>. QED
    BY <1>0, <1>4, <2>1 DEF CountInv
<1>. QED
  BY <1>5, <1>6, <1>7, <1>8, <1>9, <1>10, <1>11, <1>12, <1>13, <1>14 DEF Main

\* What one worker does to its counter, and the others to theirs: nothing.
LEMMA CounterSteps ==
    ASSUME PatientState, NEW t \in Threads, Worker(t), ~ WReadDies(t)
    PROVE  /\ \A u \in Threads \ {t} : /\ votes_count'[u] = votes_count[u]
                                       /\ wtmp'[u] = wtmp[u]
                                       /\ wpc'[u] = wpc[u] /\ wi'[u] = wi[u]
           /\ \/ WVote(t) /\ UNCHANGED votes_count /\ wpc'[t] = "load" /\ ~ Counting(t)
              \/ /\ wpc[t] = "load" /\ wpc'[t] = "store" /\ wi'[t] = wi[t]
                 /\ UNCHANGED <<votes_count, votes_scoreboard>> /\ wtmp'[t] = votes_count[t]
              \/ /\ wpc[t] = "store" /\ wpc'[t] = "stat" /\ wi'[t] = wi[t]
                 /\ UNCHANGED votes_scoreboard /\ votes_count'[t] = wtmp[t] + 1
              \/ /\ UNCHANGED votes_scoreboard /\ wpc'[t] \notin {"load", "store"}
                 /\ ~ Counting(t) /\ votes_count'[t] \in {votes_count[t], 0}
<1>0. /\ wpc \in [Threads -> WorkerPc] /\ wi \in [Threads -> 0 .. client_count]
      /\ wtmp \in [Threads -> Nat] /\ votes_count \in [Threads -> Nat]
  BY DEF PatientState, TypeInv, TypeOK, WorkerTypeOK, SharedTypeOK
<1>. USE DEF sharedVars, Counting
<1>1. CASE WVote(t) \/ WLoad(t)
  BY <1>0, <1>1 DEF WVote, WLoad
<1>2. CASE WStore(t)
  BY <1>0, <1>2 DEF WStore
<1>3. CASE WStop(t) \/ WPause(t) \/ WZero(t)
  BY <1>0, <1>3 DEF WStop, WPause, WZero
<1>4. CASE WAgain(t) \/ WIgnore(t) \/ WEfin(t)
  BY <1>0, <1>4 DEF WAgain, WIgnore, WEfin, Advance, Break
<1>5. CASE WStat(t) \/ WDelete(t)
  BY <1>0, <1>5 DEF WStat, WDelete, Advance, Break
<1>. QED
  BY <1>1, <1>2, <1>3, <1>4, <1>5 DEF Worker

\* An answer that has been counted stays counted while a worker makes a step, and
\* storing a counter counts one more.
LEMMA CountedGrows ==
    ASSUME PatientState, NEW t \in Threads, Worker(t), ~ WReadDies(t)
    PROVE  /\ \A c \in Conns : Recorded(c) => Recorded(c)'
           /\ Counted \subseteq Counted'
           /\ wpc[t] = "store" => /\ wi[t] \in Mine(t) /\ wi[t] \notin Counted
                                  /\ Counted \cup {wi[t]} \subseteq Counted'
<1>0. TypeInv /\ RangeInv /\ CountInv
  BY DEF PatientState, PatientInv
<1>1. \A c \in Conns : Recorded(c) => Recorded(c)'
  <2>1. CASE UNCHANGED votes_scoreboard
    BY <2>1 DEF Recorded
  <2>2. CASE WVote(t)
    BY <2>2, RecordSlot
  <2>. QED
    BY <2>1, <2>2, WorkerBoard
<1>2. \A u \in Threads : Counting(u)' => /\ wi'[u] = wi[u]
                                         /\ Counting(u) \/ (WVote(t) /\ u = t)
  <2>1. \A u \in Threads \ {t} : Counting(u)' => (wi'[u] = wi[u] /\ Counting(u))
    BY CounterSteps DEF Counting
  <2>2. Counting(t)' => (wi'[t] = wi[t] /\ (Counting(t) \/ WVote(t)))
    BY CounterSteps DEF Counting, WVote
  <2>. QED
    BY <2>1, <2>2
<1>3. ASSUME NEW c \in Counted
      PROVE  c \in Counted'
  <2>1. Recorded(c) /\ c \in Conns
    BY DEF Counted
  <2>2. \A u \in Threads : Counting(u)' => wi'[u] # c
    BY <1>2, <2>1, RecordSlot DEF Counted
  <2>. QED
    BY <1>1, <2>1, <2>2 DEF Counted
<1>4. ASSUME wpc[t] = "store"
      PROVE  wi[t] \in Mine(t) /\ wi[t] \notin Counted /\ wi[t] \in Counted'
  <2>1. wi[t] \in Mine(t) /\ wi[t] \in Conns
    BY <1>0, <1>4, CountingMine DEF TypeInv, LocalsOK
  <2>2. Recorded(wi[t])
    BY <1>0, <1>4 DEF CountInv, Counting
  <2>3. \A c : c = wi[t] => c \in Conns /\ Recorded(c)'
    BY <1>1, <2>1, <2>2
  <2>4. ~ Counting(t)'
    BY <1>4, CounterSteps DEF Counting
  <2>5. \A u \in Threads \ {t} : Counting(u)' => wi'[u] # wi[t]
    <3>1. \A u \in Threads : Counting(u) => wi[u] \in Mine(u)
      BY <1>0, CountingMine DEF TypeInv, LocalsOK, Counting
    <3>. QED
      BY <1>2, <2>1, <3>1, MineOnce
  <2>6. wi[t] \in Counted'
    BY <2>1, <2>3, <2>4, <2>5 DEF Counted
  <2>. QED
    BY <1>4, <2>1, <2>6 DEF Counted, Counting
<1>. QED
  BY <1>1, <1>3, <1>4

\* A worker counts what it has recorded, each answer once, and has nothing to
\* count while everything is quiet.
LEMMA CountWorker ==
    ASSUME PatientState, NEW t \in Threads, Worker(t)
    PROVE  CountInv'
<1>0. TypeInv /\ PhaseInv /\ CountInv /\ OneMessageInv
  BY DEF PatientState, PatientInv
<1>1. CASE WReadDies(t)
  BY <1>1 DEF WReadDies, Die, CountInv, Counting, Beginning, Complete, Telling
<1>2. CASE ~ WReadDies(t)
  <2>1. UNCHANGED mainVars
    BY <1>2, WorkerBoard
  <2>2. Counted \in SUBSET Conns /\ Counted' \in SUBSET Conns /\ Counted \subseteq Counted'
    BY <1>2, CountedGrows DEF Counted
  <2>3. ASSUME NEW u \in Threads, Counting(u)'
        PROVE  Recorded(wi[u])'
    <3>1. wi'[u] = wi[u] /\ (Counting(u) \/ (WVote(t) /\ u = t))
      <4>1. CASE u = t
        BY <1>2, <2>3, <4>1, CounterSteps DEF Counting, WVote
      <4>2. CASE u # t
        BY <1>2, <2>3, <4>2, CounterSteps DEF Counting
      <4>. QED
        BY <4>1, <4>2
    <3>2. CASE Counting(u)
      <4>1. wi[u] \in Conns /\ Recorded(wi[u])
        BY <1>0, <3>2, WorkerConns DEF CountInv, Counting, TypeInv, LocalsOK
      <4>2. PICK c \in Conns : c = wi[u]
        BY <4>1
      <4>3. Recorded(c)'
        BY <1>2, <4>1, <4>2, CountedGrows
      <4>. QED
        BY <3>1, <4>2, <4>3 DEF Recorded
    <3>3. CASE WVote(t) /\ u = t
      BY <3>3, RecordSlot
    <3>. QED
      BY <3>1, <3>2, <3>3
  <2>4. Beginning \/ Complete => \A u \in Threads : ~ Counting(u)' /\ ~ Counting(u)
    <3>1. Beginning \/ Complete => \A c \in Conns : Quiet(c)
      BY <1>0 DEF PhaseInv, OneMessageInv
    <3>2. Beginning \/ Complete => ~ WVote(t)
      BY <3>1, RecordSlot
    <3>. QED
      BY <1>0, <1>2, <3>2, CounterSteps DEF CountInv, Counting
  <2>5. ASSUME NEW u \in Threads, ~ Counting(u), votes_count[u] = 0
        PROVE  votes_count'[u] = 0
    BY <1>2, <2>5, CounterSteps DEF Counting
  <2>6. ASSUME Telling \/ mpc = "wait", NEW u \in Threads
        PROVE  /\ votes_count'[u] <= Cardinality(Counted' \cap Mine(u))
               /\ wpc'[u] = "store" => wtmp'[u] <= Cardinality(Counted' \cap Mine(u))
    <3>1. PICK a \in Nat : a = Cardinality(Counted \cap Mine(u))
      BY <2>2, PartFinite
    <3>2. PICK b \in Nat : b = Cardinality(Counted' \cap Mine(u))
      BY <2>2, PartFinite
    <3>3. a <= b
      BY <2>2, <3>1, <3>2, PartGrows
    <3>4. /\ votes_count[u] \in Nat /\ votes_count[u] <= a
          /\ wpc[u] = "store" => wtmp[u] \in Nat /\ wtmp[u] <= a
      BY <1>0, <2>6, <3>1 DEF CountInv, TypeInv, TypeOK, SharedTypeOK, WorkerTypeOK
    <3>5. CASE wpc[u] = "store" /\ u = t
      <4>1. wi[t] \in Mine(t) /\ wi[t] \notin Counted /\ Counted \cup {wi[t]} \subseteq Counted'
        BY <1>2, <3>5, CountedGrows
      <4>2. Cardinality(Counted \cap Mine(t)) + 1 <= Cardinality(Counted' \cap Mine(t))
        BY <2>2, <4>1, PartGrowsByOne
      <4>3. wtmp[t] + 1 <= b
        BY <3>1, <3>2, <3>4, <3>5, <4>2
      <4>4. votes_count'[t] = wtmp[t] + 1 /\ wpc'[t] # "store"
        BY <1>2, <3>5, CounterSteps DEF Counting
      <4>. QED
        BY <3>2, <3>5, <4>3, <4>4
    <3>6. CASE ~ (wpc[u] = "store" /\ u = t)
      <4>1. /\ votes_count'[u] \in {votes_count[u], 0}
            /\ wpc'[u] = "store" => \/ wtmp'[u] = votes_count[u]
                                    \/ wpc[u] = "store" /\ wtmp'[u] = wtmp[u]
        <5>1. CASE u = t
          <6>1. /\ votes_count'[t] \in {votes_count[t], 0}
                /\ wpc'[t] = "store" => wtmp'[t] = votes_count[t]
            <7>1. wpc[t] # "store"
              BY <3>6, <5>1
            <7>. QED
              BY <1>2, <7>1, CounterSteps
          <6>. QED
            BY <5>1, <6>1
        <5>2. CASE u # t
          BY <1>2, <5>2, CounterSteps
        <5>. QED
          BY <5>1, <5>2
      <4>2. votes_count[u] <= b /\ 0 <= b
        BY <3>3, <3>4
      <4>3. wpc[u] = "store" => wtmp[u] <= b
        BY <3>3, <3>4
      <4>. QED
        BY <3>2, <4>1, <4>2, <4>3
    <3>. QED
      BY <3>5, <3>6
  <2>7. ASSUME mpc = "wait"
        PROVE  total_votes <= Cardinality(Counted' \cap Before(i))
    <3>1. PICK a \in Nat : a = Cardinality(Counted \cap Before(i))
      BY <2>2, PartFinite
    <3>2. PICK b \in Nat : b = Cardinality(Counted' \cap Before(i))
      BY <2>2, PartFinite
    <3>3. a <= b
      BY <2>2, <3>1, <3>2, PartGrows
    <3>4. total_votes \in Nat /\ total_votes <= a
      BY <1>0, <2>7, <3>1 DEF CountInv, TypeInv, TypeOK, MainTypeOK
    <3>. QED
      BY <3>2, <3>3, <3>4
  <2>8. UNCHANGED <<mpc, i, total_votes>>
    BY <2>1 DEF mainVars
  <2>9. Complete => \A u \in Threads : votes_count[u] = 0 => votes_count'[u] = 0
    BY <2>4, <2>5
  <2>10. Beginning => \A u \in Threads : votes_count[u] = 0 => votes_count'[u] = 0
    BY <2>4, <2>5
  <2>11. /\ Beginning' <=> Beginning
         /\ Complete' <=> Complete
         /\ Telling' <=> Telling
    BY <2>8 DEF Beginning, Complete, Telling
  <2>12. mpc \in {"clear", "unpause", "report"} => Complete
    BY DEF Complete
  <2>. QED
    BY <1>0, <2>3, <2>4, <2>6, <2>7, <2>8, <2>9, <2>10, <2>11, <2>12 DEF CountInv, Mine, Before
<1>. QED
  BY <1>1, <1>2

\* The clients and the network leave the counters alone.
LEMMA CountKept ==
    ASSUME PatientState, [Next]_vars
    PROVE  CountInv'
<1>1. CASE UNCHANGED serverVars
  <2>1. UNCHANGED <<mpc, i, total_votes, wpc, wi, wtmp, votes_count, votes_scoreboard>>
    BY <1>1 DEF serverVars, sharedVars, mainVars, workerVars
  <2>2. CountInv
    BY DEF PatientState, PatientInv
  <2>. QED
    BY <2>1, <2>2
    DEF CountInv, Counting, Counted, Recorded, Beginning, Complete, Telling, Mine, Before
<1>. QED
  BY <1>1, CountMain, CountWorker, StepKinds DEF vars

-----------------------------------------------------------------------------
(* The theorems. *)

\* Nothing is under way, recorded or counted at first.
LEMMA PatientStart == ASSUME PatientServer, Init PROVE PatientInv
<1>1. /\ toServer = [c \in Conns |-> <<>>] /\ toClient = [c \in Conns |-> <<>>]
      /\ peers = {} /\ cpc = [c \in Conns |-> "connect"]
      /\ votes_scoreboard = [s \in Slots |-> "zeroed"]
      /\ votes_count = [t \in Threads |-> 0]
      /\ mpc = "connect" /\ connected = 0
      /\ wpc = [t \in Threads |-> "off"] /\ wi = [t \in Threads |-> Lo(t)]
  BY DEF Init, NetInit, ServerInit, ClientInit
<1>2. \A c \in Conns : HostId[c] - 1 \in Slots
  BY ClientCountAssumption DEF PatientServer, Slots
<1>3. \A c \in Conns : Quiet(c) /\ ~ Recorded(c)
  BY <1>1, <1>2 DEF Quiet, Recorded
<1>4. RangeInv
  BY <1>1, LoHi DEF RangeInv
<1>5. OneMessageInv
  <2>1. \A c \in Conns : Len(toServer[c]) + Len(toClient[c]) <= 1
    BY <1>1
  <2>. QED
    BY <1>3, <2>1 DEF OneMessageInv
<1>6. StartInv
  <2>1. Cardinality(peers) = 0
    BY <1>1, FS_EmptySet
  <2>. QED
    BY <1>1, <1>3, <2>1 DEF StartInv
<1>7. PhaseInv
  BY <1>1 DEF PhaseInv, Beginning, Telling, Complete
<1>8. CountInv
  BY <1>1 DEF CountInv, Counting, Beginning, Telling, Complete
<1>. QED
  BY <1>4, <1>5, <1>6, <1>7, <1>8 DEF PatientInv

\* And every step keeps the invariant.
LEMMA PatientStep ==
    ASSUME PatientServer, TypeInv, PatientInv, [Next]_vars
    PROVE  PatientInv'
<1>1. PatientState
  BY DEF PatientState
<1>. QED
  BY <1>1, RangeKept, OneMessageKept, StartKept, PhaseKept, CountKept DEF PatientInv

LEMMA PatientInvariant ==
    ASSUME PatientServer
    PROVE  Spec => [](TypeInv /\ PatientInv)
<1>1. Init => PatientInv
  BY PatientStart
<1>2. TypeInv /\ PatientInv /\ [Next]_vars => PatientInv'
  BY PatientStep
<1>. QED
  BY <1>1, <1>2, TypeInvariant, PTL DEF Spec

\* Numbers that no two clients share leave no slot of the scoreboard without one.
LEMMA SlotsTaken ==
    ASSUME PatientServer, NEW s \in Slots
    PROVE  \E c \in Conns : HostId[c] - 1 = s
<1>. DEFINE slot == [c \in Conns |-> HostId[c] - 1]
<1>1. slot \in [Conns -> Conns]
  BY ClientCountAssumption DEF PatientServer, Conns
<1>2. \A c, d \in Conns : slot[c] = slot[d] => c = d
  BY ClientCountAssumption DEF PatientServer
<1>3. slot \in Injection(Conns, Conns)
  BY <1>1, <1>2 DEF Injection, IsInjective
<1>4. slot \in Surjection(Conns, Conns)
  BY <1>3, ConnsFinite, FS_Injection
<1>5. s \in Conns
  BY DEF Slots, Conns
<1>. QED
  BY <1>4, <1>5 DEF Surjection

\* A wait that ends has every answer on the scoreboard, although nobody locks
\* the counters, which the workers raise with a load and a store and zero when
\* they see pause_signal, and the main thread adds up one by one and zeroes as
\* well (wait_for_votes, q2pc_server.c:380-418, and q2pc_server_worker.c:57-125).
THEOREM EveryAnswerRecorded ==
    ASSUME PatientServer
    PROVE  Spec => []AllRecorded
<1>1. PatientInv => AllRecorded
  <2>. SUFFICES ASSUME PatientInv, mpc = "scan", NEW s \in Slots
                PROVE  votes_scoreboard[s] # "lost"
    BY DEF AllRecorded
  <2>1. PICK c \in Conns : HostId[c] - 1 = s
    BY SlotsTaken
  <2>2. Recorded(c)
    BY DEF PatientInv, PhaseInv, Complete
  <2>. QED
    BY <2>1, <2>2 DEF Recorded
<1>. QED
  BY <1>1, PatientInvariant, PTL

\* An answer on the scoreboard stays until the main thread clears it for the
\* next phase (q2pc_server.c:426-430, 475-479): no second message of the client comes
\* before it has been told something new, nor one of another client on its slot
\* (q2pc_server_worker.c:98).
THEOREM NothingOverwritten ==
    ASSUME PatientServer
    PROVE  Spec => NoOverwrite
<1>1. ASSUME TypeInv, PatientInv, [Next]_vars, NEW s \in Slots
      PROVE  \/ votes_scoreboard[s] \in {"zeroed", "lost"}
             \/ votes_scoreboard'[s] = votes_scoreboard[s]
             \/ votes_scoreboard'[s] = "lost"
  <2>0. PatientState
    BY <1>1 DEF PatientState
  <2>1. CASE UNCHANGED votes_scoreboard
    BY <2>1
  <2>2. CASE MReset
    BY <2>0, <2>2, ResetSlot
  <2>3. ASSUME NEW t \in Threads, WVote(t)
        PROVE  \/ votes_scoreboard[s] \in {"zeroed", "lost"}
               \/ votes_scoreboard'[s] = votes_scoreboard[s]
    <3>1. ~ Recorded(wi[t])
      BY <2>0, <2>3, RecordSlot
    <3>2. votes_scoreboard' = [votes_scoreboard EXCEPT ![HostId[wi[t]] - 1] =
                                  Head(toServer[wi[t]])]
      BY <2>3 DEF WVote
    <3>. QED
      BY <1>1, <3>1, <3>2 DEF Recorded, TypeInv, TypeOK, SharedTypeOK
  <2>. QED
    BY <1>1, <2>1, <2>2, <2>3, StepKinds, MainBoard, WorkerBoard
    DEF vars, serverVars, sharedVars
<1>2. TypeInv /\ PatientInv /\ [Next]_vars =>
          [\A s \in Slots : \/ votes_scoreboard[s] \in {"zeroed", "lost"}
                            \/ votes_scoreboard'[s] = votes_scoreboard[s]
                            \/ votes_scoreboard'[s] = "lost"]_vars
  BY <1>1
<1>. QED
  BY <1>2, PatientInvariant, PTL DEF Spec, NoOverwrite
=============================================================================
