---------------------------- MODULE Q2pcAtomicity ----------------------------
(***************************************************************************)
(* Over connections that keep the order of their messages and repeat none, *)
(* with clients that are numbered as the server expects, a q2pc cluster of *)
(* any size keeps its clients together, whatever is lost and whatever      *)
(* stops or kills its processes in the middle.  Over tcp_ln and udp_ln it  *)
(* implements atomic commitment.  Over udp_qj a stopping server may commit *)
(* what was not voted for, and all the rest holds.                         *)
(*                                                                         *)
(* The protocol carries no request numbers.  What stands in for them is    *)
(* that the server begins a round only when every client has acknowledged  *)
(* the decision of the round before and nothing is under way.  The         *)
(* invariant says how far into its round a client may be, from where the   *)
(* main thread is, and what may be under way to it and from it.            *)
(***************************************************************************)
EXTENDS Q2pcProof

\* What the theorems assume of the cluster: a network that at most loses
\* datagrams (that of tcp_ln and udp_qj does nothing at all, see NetFault), and
\* clients numbered from 1 to client_count.
OrderedCluster ==
    /\ Transport = "udp_ln" => FaultKinds \subseteq {"lose"}
    /\ HostId \in [Conns -> 1 .. client_count]
    /\ \A c, d \in Conns : HostId[c] = HostId[d] => c = d

-----------------------------------------------------------------------------
(* The invariant. *)

\* Where the main thread is on its way through a request.
Connecting == mpc \in {"connect", "spawn"}
Preparing  == mpc \in {"reset", "broadcast"}
Sending    == mpc \in {"send", "write"}
Collecting == mpc \in {"wait", "pause", "scan", "clear", "unpause"}
Between    == Connecting \/ (mpc = "loop" /\ ~ stop_signal)
InPhase    == Preparing \/ Sending \/ Collecting \/ mpc = "report"

\* How many messages of this round client c may have been sent.
Stage(c) ==
    IF Between THEN 0
    ELSE IF Preparing \/ (Sending /\ c >= i) THEN phase - 1
    ELSE IF Sending \/ Collecting THEN phase
    ELSE 2

\* The decision of do_phase2.
Verdict == IF status = "request_success" THEN "commit" ELSE "cancel"

\* A decision that the votes before it allow.  Over Q-Jump this covers cancels only.
Reasoned(d, n) == /\ d = "cancel" => SomeNo(n)
                  /\ Transport # "udp_qj" => Justified(d, n)

\* Client c, which had done b things before this round, and what is under way
\* to it: a request it has not voted on, and then the decision.
Downward(c, b) ==
    \A k \in 1 .. Len(toClient[c]) :
        \/ toClient[c][k] = "request" /\ k = 1 /\ Len(log[c]) = b
        \/ /\ toClient[c][k] = Verdict /\ k = Len(toClient[c])
           /\ Stage(c) = 2 /\ Len(log[c]) <= b + 1
           /\ Reasoned(Verdict, b + 1)

\* What is under way from it: its vote of this round, and last the ack.
Upward(c, b) ==
    \A k \in 1 .. Len(toServer[c]) :
        /\ toServer[c][k] = "vote_yes" => Voted(c, b + 1, "yes")
        /\ toServer[c][k] = "vote_no" => Voted(c, b + 1, "no")
        /\ toServer[c][k] = "ack" => k = Len(toServer[c]) /\ Len(log[c]) = b + 2

RoundOf(c, b) ==
    /\ Len(log[c]) \in b .. b + Stage(c)
    /\ Len(log[c]) = b + 2 => log[c][b + 2] = Verdict
    /\ Stage(c) = 0 => toClient[c] = <<>>
    /\ Downward(c, b)
    /\ Upward(c, b)

\* Everybody is in the same round; while the server runs, in that of its request.
RoundInv ==
    \E r \in 0 .. requests :
        /\ Between \/ InPhase => r = requests
        /\ \A c \in Conns : RoundOf(c, 2 * r)

ControlInv == /\ mpc = "broadcast" => Transport = "udp_qj"
              /\ mpc = "report" => phase = 2
              /\ mpc = "unpause" => i = 0

\* Clients alternate between voting and acting.
Alternates(c) ==
    /\ cpc[c] = "connect" => log[c] = <<>>
    /\ cpc[c] = "phase1" => Len(log[c]) % 2 = 0
    /\ cpc[c] = "phase2" => Len(log[c]) % 2 = 1

ClientInv == \A c \in Conns : Alternates(c)

\* What the clients have done, they have done in turns and with reason.
HistoryInv ==
    \A c \in Conns : \A n \in 1 .. Len(log[c]) :
        /\ n % 2 = 1 => log[c][n] \in {"yes", "no"}
        /\ n % 2 = 0 => log[c][n] \in Decisions
        /\ Reasoned(log[c][n], n - 1)

\* And on the same decisions.
AgreedInv ==
    \A c, d \in Conns : \A n \in 1 .. Len(log[c]) :
        n % 2 = 0 /\ n <= Len(log[d]) => log[d][n] = log[c][n]

\* Client c has acted on the decision of this round, and the server has read all
\* it said.
Acked(c) == Len(log[c]) = Ballot + 1 /\ toServer[c] = <<>>

\* What stands on the slots the phase has cleared was said in the phase.
Fresh(s) ==
    /\ phase = 1 /\ votes_scoreboard[s] = "vote_yes" =>
          \A c \in Conns : HostId[c] = s + 1 => Voted(c, Ballot, "yes")
    /\ phase = 1 /\ votes_scoreboard[s] = "vote_no" =>
          /\ SomeNo(Ballot)
          /\ \A c \in Conns : HostId[c] = s + 1 => Voted(c, Ballot, "no")
    /\ phase = 2 /\ votes_scoreboard[s] = "ack" =>
          \A c \in Conns : HostId[c] = s + 1 => Acked(c)

FreshInv ==
    Preparing \/ Sending \/ mpc \in {"wait", "pause", "scan"} =>
        \A s \in Slots : (mpc = "reset" => s < i) => Fresh(s)

\* What the scan has concluded from the slots it has seen.  That nobody objected
\* says nothing of a server that is stopping, because the scan is skipped.
Seen(c) == mpc = "scan" => HostId[c] <= i

ScanInv ==
    mpc \in {"scan", "clear", "unpause", "report"} =>
        /\ phase = 1 /\ result = "request_fail" => SomeNo(Ballot)
        /\ ~ stop_signal /\ phase = 1 /\ result = "request_success" =>
              \A c \in Conns : Seen(c) => Voted(c, Ballot, "yes")
        /\ ~ stop_signal /\ phase = 2 /\ result # "cluster_fail" =>
              \A c \in Conns : Seen(c) => Acked(c)

\* What do_phase2 does with it.  MSend does not go on to write when it is stopping.
StatusInv ==
    phase = 2 /\ (Preparing \/ Sending) =>
        /\ status # "none"
        /\ status = "request_fail" => SomeNo(Ballot)
        /\ status = "request_success" /\ (~ stop_signal \/ mpc = "write") => AllYes(Ballot)
        /\ mpc # "reset" => status # "cluster_fail"

CommitInv == /\ RoundInv /\ ControlInv /\ ClientInv /\ HistoryInv /\ AgreedInv
             /\ FreshInv /\ ScanInv /\ StatusInv

\* What the proofs below know of a state.
OrderedState == OrderedCluster /\ TypeInv /\ CommitInv

-----------------------------------------------------------------------------
(* Sequences of messages that grow at the end, and lose some.               *)

\* t is s without some of its messages: none comes earlier than in s, and the
\* last of s, if it is left, is the last of t.
Fewer(s, t) ==
    \A k \in 1 .. Len(t) :
        \E j \in k .. Len(s) : t[k] = s[j] /\ (j = Len(s) => k = Len(t))

LEMMA FewerSame == ASSUME NEW s \in Seq(MsgType) PROVE Fewer(s, s)
<1>1. Len(s) \in Nat
  OBVIOUS
<1>2. ASSUME NEW k \in 1 .. Len(s)
      PROVE  k \in k .. Len(s) /\ s[k] = s[k] /\ (k = Len(s) => k = Len(s))
  BY <1>1
<1>. QED
  BY <1>2 DEF Fewer

LEMMA FewerTail == ASSUME NEW s \in Seq(MsgType), s # <<>> PROVE Fewer(s, Tail(s))
<1>1. PICK n \in Nat \ {0} : n = Len(s)
  OBVIOUS
<1>2. Len(Tail(s)) = n - 1
  BY <1>1
<1>3. ASSUME NEW k \in 1 .. n - 1
      PROVE  Tail(s)[k] = s[k + 1]
  BY <1>1, <1>3
<1>4. ASSUME NEW k \in 1 .. n - 1
      PROVE  k + 1 \in k .. n /\ (k + 1 = n => k = n - 1)
  BY <1>1, <1>4
<1>. QED
  BY <1>1, <1>2, <1>3, <1>4 DEF Fewer

LEMMA FewerNone == ASSUME NEW s PROVE Fewer(s, <<>>)
  BY DEF Fewer

\* A datagram that is lost.
LEMMA FewerLost ==
    ASSUME NEW s \in Seq(MsgType), NEW k \in DOMAIN s
    PROVE  Fewer(s, RemoveAt(s, k))
<1>1. PICK n \in Nat : n = Len(s)
  OBVIOUS
<1>2. k \in 1 .. n
  BY <1>1
<1>3. SubSeq(s, 1, k - 1) \in Seq(MsgType) /\ SubSeq(s, k + 1, Len(s)) \in Seq(MsgType)
  BY <1>1, <1>2
<1>4. PICK a \in Seq(MsgType) : a = SubSeq(s, 1, k - 1)
  BY <1>3
<1>5. PICK b \in Seq(MsgType) : b = SubSeq(s, k + 1, Len(s))
  BY <1>3
<1>6. Len(a) = k - 1 /\ \A m \in 1 .. k - 1 : a[m] = s[m]
  BY <1>1, <1>2, <1>4
<1>7. Len(b) = n - k /\ \A m \in 1 .. n - k : b[m] = s[k + m]
  BY <1>1, <1>2, <1>5
<1>8. RemoveAt(s, k) = a \o b
  BY <1>4, <1>5 DEF RemoveAt
<1>9. Len(a \o b) = Len(a) + Len(b)
  OBVIOUS
<1>10. Len(a \o b) = n - 1
  BY <1>2, <1>6, <1>7, <1>9
<1>11. ASSUME NEW m \in 1 .. n - 1
       PROVE  (a \o b)[m] = s[IF m < k THEN m ELSE m + 1]
  <2>1. CASE m < k
    <3>1. m \in 1 .. Len(a)
      BY <1>2, <1>6, <2>1
    <3>2. (a \o b)[m] = a[m]
      BY <3>1
    <3>. QED
      BY <1>6, <2>1, <3>1, <3>2
  <2>2. CASE ~ m < k
    <3>1. m - (k - 1) \in 1 .. n - k /\ k + (m - (k - 1)) = m + 1
      BY <1>2, <2>2
    <3>2. m - Len(a) \in 1 .. Len(b)
      BY <1>6, <1>7, <3>1
    <3>3. (a \o b)[m] = b[m - Len(a)]
      <4>1. \A j \in 1 .. Len(b) : (a \o b)[Len(a) + j] = b[j]
        OBVIOUS
      <4>2. Len(a) + (m - Len(a)) = m
        BY <1>2, <1>6, <2>2
      <4>. QED
        BY <3>2, <4>1, <4>2
    <3>4. b[m - (k - 1)] = s[m + 1]
      BY <1>7, <3>1
    <3>. QED
      BY <1>6, <2>2, <3>3, <3>4
  <2>. QED
    BY <2>1, <2>2
<1>12. ASSUME NEW m \in 1 .. n - 1
       PROVE  \E j \in m .. n : (a \o b)[m] = s[j] /\ (j = n => m = n - 1)
  <2>1. CASE m < k
    <3>1. m \in m .. n /\ m # n
      BY <1>2, <2>1
    <3>. QED
      BY <1>11, <2>1, <3>1
  <2>2. CASE ~ m < k
    <3>1. m + 1 \in m .. n /\ (m + 1 = n => m = n - 1)
      BY <1>2, <2>2
    <3>. QED
      BY <1>11, <2>2, <3>1
  <2>. QED
    BY <2>1, <2>2
<1>. QED
  BY <1>1, <1>8, <1>10, <1>12 DEF Fewer

LEMMA FewerOfNone == ASSUME NEW t \in Seq(MsgType), Fewer(<<>>, t) PROVE t = <<>>
<1>1. Len(t) \in Nat /\ Len(<<>>) = 0
  OBVIOUS
<1>2. ASSUME Len(t) # 0
      PROVE  FALSE
  <2>1. 1 \in 1 .. Len(t)
    BY <1>1, <1>2
  <2>2. PICK j \in 1 .. Len(<<>>) : TRUE
    BY <2>1 DEF Fewer
  <2>. QED
    BY <1>1, <2>2
<1>3. Len(t) = 0
  BY <1>2
<1>. QED
  BY <1>3

\* The channels and the logs are functions to sequences.
LEMMA StreamTypes ==
    ASSUME TypeInv
    PROVE  /\ toServer \in [Conns -> Seq(MsgType)]
           /\ toClient \in [Conns -> Seq(MsgType)]
           /\ log \in [Conns -> Seq(LogEntry)]
           /\ cpc \in [Conns -> {"connect", "phase1", "phase2"}]
  BY DEF TypeInv, TypeOK, NetTypeOK, ClientTypeOK, LogEntry

-----------------------------------------------------------------------------
(* Who changes the channels and the logs.                                   *)

\* Taking a message off a channel, dropping what is on it, losing one of it.
LEMMA TakenFewer ==
    ASSUME NEW ch \in [Conns -> Seq(MsgType)], NEW d \in Conns, ch[d] # <<>>,
           NEW c \in Conns
    PROVE  Fewer(ch[c], [ch EXCEPT ![d] = Tail(@)][c])
<1>1. ch[c] \in Seq(MsgType)
  OBVIOUS
<1>. QED
  BY <1>1, FewerSame, FewerTail

LEMMA DroppedFewer ==
    ASSUME NEW ch \in [Conns -> Seq(MsgType)], NEW S, NEW c \in Conns
    PROVE  Fewer(ch[c], Dropped(ch, S)[c])
<1>1. ch[c] \in Seq(MsgType)
  OBVIOUS
<1>. QED
  BY <1>1, FewerSame, FewerNone DEF Dropped

\* The main thread adds a message where it writes, and nowhere else.
LEMMA MainStreams ==
    ASSUME TypeInv, Main \/ MSignal, NEW c \in Conns
    PROVE  /\ Fewer(toServer[c], toServer'[c])
           /\ \/ Fewer(toClient[c], toClient'[c])
              \/ /\ (MWrite /\ c = i) \/ MBroadcast
                 /\ toClient'[c] = Append(toClient[c], Request)
<1>0. /\ toServer \in [Conns -> Seq(MsgType)] /\ toClient \in [Conns -> Seq(MsgType)]
      /\ Fewer(toServer[c], toServer[c]) /\ Fewer(toClient[c], toClient[c])
  BY StreamTypes, FewerSame
<1>1. Fewer(toServer[c], Dropped(toServer, Conns)[c])
  BY <1>0, DroppedFewer
<1>. USE DEF netVars
<1>2. CASE UNCHANGED <<toServer, toClient>>
  BY <1>0, <1>2
<1>3. CASE MConnect
  <2>1. i \in Conns
    BY <1>3, ClientCountAssumption
    DEF MConnect, TypeInv, TypeOK, MainTypeOK, LocalsOK, Conns
  <2>2. \/ UNCHANGED toServer
        \/ toServer[i] # <<>> /\ toServer' = [toServer EXCEPT ![i] = Tail(@)]
    BY <1>3 DEF MConnect
  <2>. QED
    BY <1>0, <1>3, <2>1, <2>2, TakenFewer DEF MConnect
<1>4. CASE MBroadcast
  BY <1>0, <1>4 DEF MBroadcast, Broadcast
<1>5. CASE MWrite
  <2>1. i \in Conns
    BY <1>5, ClientCountAssumption
    DEF MWrite, TypeInv, TypeOK, MainTypeOK, LocalsOK, Conns
  <2>. QED
    BY <1>0, <1>5, <2>1 DEF MWrite, Sent
<1>6. CASE MWriteDies \/ MJoin
  BY <1>0, <1>1, <1>6 DEF MWriteDies, MJoin, Die, Close
<1>7. CASE MSignal
  BY <1>0, <1>1, <1>7 DEF MSignal, MInterrupted, MInterruptedAgain, MHangs, Die, Close
<1>8. CASE MSpawn \/ MLoop \/ MReset \/ MSend \/ MWriteEfin \/ MTimeout \/ MSum
  BY <1>2, <1>8 DEF MSpawn, MLoop, MReset, MSend, MWriteEfin, MTimeout, MSum
<1>9. CASE MPause \/ MScanEnd \/ MScan \/ MClear \/ MUnpause \/ MReport \/ MCleanup
  BY <1>2, <1>9 DEF MPause, MScanEnd, MScan, MClear, MUnpause, MReport, MCleanup
<1>. QED
  BY <1>3, <1>4, <1>5, <1>6, <1>7, <1>8, <1>9 DEF Main

\* A worker takes an answer off a channel and puts it on the scoreboard, and
\* otherwise changes nothing that the invariant is about, except that it may
\* stop the server or kill its process.
LEMMA WorkerStreams ==
    ASSUME TypeInv, NEW t \in Threads, Worker(t), NEW c \in Conns
    PROVE  Fewer(toServer[c], toServer'[c]) /\ Fewer(toClient[c], toClient'[c])
<1>0. /\ toServer \in [Conns -> Seq(MsgType)] /\ toClient \in [Conns -> Seq(MsgType)]
      /\ Fewer(toServer[c], toServer[c]) /\ Fewer(toClient[c], toClient[c])
  BY StreamTypes, FewerSame
<1>1. \A S : Fewer(toServer[c], Dropped(toServer, S)[c])
  BY <1>0, DroppedFewer
<1>2. wpc[t] = "poll" => wi[t] \in Conns
  BY WorkerConns DEF TypeInv, LocalsOK
<1>. USE DEF netVars
<1>3. CASE WStop(t) \/ WPause(t) \/ WZero(t) \/ WLoad(t) \/ WStore(t)
  BY <1>0, <1>3 DEF WStop, WPause, WZero, WLoad, WStore
<1>4. CASE WAgain(t) \/ WEfin(t) \/ WStat(t)
  BY <1>0, <1>4 DEF WAgain, WEfin, WStat
<1>5. CASE WReadDies(t) \/ WDelete(t)
  BY <1>0, <1>1, <1>5 DEF WReadDies, WDelete, Die, Close
<1>6. CASE WIgnore(t)
  <2>1. \/ toServer' = toServer
        \/ toServer[wi[t]] # <<>> /\ toServer' = [toServer EXCEPT ![wi[t]] = Tail(@)]
    BY <1>6 DEF WIgnore
  <2>. QED
    BY <1>0, <1>2, <1>6, <2>1, TakenFewer DEF WIgnore
<1>7. CASE WVote(t)
  BY <1>0, <1>2, <1>7, TakenFewer DEF WVote
<1>. QED
  BY <1>3, <1>4, <1>5, <1>6, <1>7 DEF Worker

LEMMA WorkerMain ==
    ASSUME TypeInv, NEW t \in Threads, Worker(t)
    PROVE  /\ UNCHANGED <<i, connected, requests, status, phase, result>>
           /\ mpc' = mpc \/ mpc' = "exited"
           /\ stop_signal => stop_signal'
           /\ WVote(t) \/ UNCHANGED votes_scoreboard
<1>. USE DEF mainVars, sharedVars
<1>1. CASE WStop(t) \/ WPause(t) \/ WZero(t) \/ WLoad(t) \/ WStore(t) \/ WVote(t)
  BY <1>1 DEF WStop, WPause, WZero, WLoad, WStore, WVote
<1>2. CASE WAgain(t) \/ WIgnore(t) \/ WEfin(t) \/ WStat(t)
  BY <1>2 DEF WAgain, WIgnore, WEfin, WStat
<1>3. CASE WReadDies(t) \/ WDelete(t)
  BY <1>3 DEF WReadDies, WDelete, Die
<1>. QED
  BY <1>1, <1>2, <1>3 DEF Worker

\* A client connects, votes, acts on a decision, or leaves.
LEMMA ClientStreams ==
    ASSUME TypeInv, NEW d \in Conns, Client(d) \/ ClientKill(d), NEW c \in Conns
    PROVE  \/ c = d /\ (ClientConnect(c) \/ ClientPhase1(c) \/ ClientPhase2(c))
           \/ /\ log'[c] = log[c] /\ cpc'[c] = cpc[c]
              /\ Fewer(toServer[c], toServer'[c]) /\ Fewer(toClient[c], toClient'[c])
<1>0. /\ toServer \in [Conns -> Seq(MsgType)] /\ toClient \in [Conns -> Seq(MsgType)]
      /\ log \in [Conns -> Seq(LogEntry)]
      /\ cpc \in [Conns -> {"connect", "phase1", "phase2"}]
      /\ Fewer(toServer[c], toServer[c]) /\ Fewer(toClient[c], toClient[c])
  BY StreamTypes, FewerSame
<1>1. CASE (ClientConnect(d) \/ ClientPhase1(d) \/ ClientPhase2(d)) /\ c # d
  <2>1. /\ toServer'[c] = toServer[c] /\ toClient'[c] = toClient[c]
        /\ log'[c] = log[c] /\ cpc'[c] = cpc[c]
    <3>1. CASE ClientConnect(d)
      BY <1>0, <1>1, <3>1 DEF ClientConnect, Sent
    <3>2. CASE ClientPhase1(d)
      BY <1>0, <1>1, <3>2 DEF ClientPhase1, Answer, Sent
    <3>3. CASE ClientPhase2(d)
      BY <1>0, <1>1, <3>3 DEF ClientPhase2, Answer, Sent
    <3>. QED
      BY <1>1, <3>1, <3>2, <3>3
  <2>. QED
    BY <1>0, <2>1
<1>2. CASE (ClientConnect(d) \/ ClientPhase1(d) \/ ClientPhase2(d)) /\ c = d
  BY <1>2
<1>3. CASE ClientProtocolFailure(d) \/ ClientTimeout(d) \/ ClientEfin(d) \/ ClientKill(d)
  <2>1. Exit(d) /\ UNCHANGED <<toServer, clientVars>>
    BY <1>3 DEF ClientProtocolFailure, ClientTimeout, ClientEfin, ClientKill
  <2>2. Fewer(toClient[c], Dropped(toClient, {d})[c])
    BY <1>0, DroppedFewer
  <2>. QED
    BY <1>0, <2>1, <2>2 DEF Exit, clientVars
<1>. QED
  BY <1>1, <1>2, <1>3 DEF Client

\* The network loses a message at most.
LEMMA NetStreams ==
    ASSUME OrderedCluster, TypeInv, NetFault, NEW c \in Conns
    PROVE  Fewer(toServer[c], toServer'[c]) /\ Fewer(toClient[c], toClient'[c])
<1>0. /\ toServer \in [Conns -> Seq(MsgType)] /\ toClient \in [Conns -> Seq(MsgType)]
      /\ Fewer(toServer[c], toServer[c]) /\ Fewer(toClient[c], toClient[c])
  BY StreamTypes, FewerSame
<1>1. PICK d \in Conns :
          \/ /\ \E k \in DOMAIN toServer[d] :
                   toServer' = [toServer EXCEPT ![d] = Disturbed("lose", @, k)]
             /\ UNCHANGED toClient
          \/ /\ \E k \in DOMAIN toClient[d] :
                   toClient' = [toClient EXCEPT ![d] = Disturbed("lose", @, k)]
             /\ UNCHANGED toServer
  BY DEF NetFault, OrderedCluster
<1>2. ASSUME NEW ch \in [Conns -> Seq(MsgType)], NEW k \in DOMAIN ch[d]
      PROVE  Fewer(ch[c], [ch EXCEPT ![d] = Disturbed("lose", @, k)][c])
  <2>1. Fewer(ch[d], Disturbed("lose", ch[d], k))
    BY <1>2, FewerLost DEF Disturbed
  <2>2. Fewer(ch[c], ch[c])
    BY FewerSame
  <2>. QED
    BY <2>1, <2>2
<1>. QED
  BY <1>0, <1>1, <1>2

\* What may happen to client c and its connection in a step.
Idle(c) == /\ log'[c] = log[c] /\ cpc'[c] = cpc[c]
           /\ Fewer(toServer[c], toServer'[c])
           /\ Fewer(toClient[c], toClient'[c])

Told(c) == /\ log'[c] = log[c] /\ cpc'[c] = cpc[c]
           /\ Fewer(toServer[c], toServer'[c])
           /\ (MWrite /\ c = i) \/ MBroadcast
           /\ toClient'[c] = Append(toClient[c], Request)

LEMMA ConnSteps ==
    ASSUME OrderedCluster, TypeInv, [Next]_vars, NEW c \in Conns
    PROVE  \/ Idle(c) \/ Told(c)
           \/ /\ ClientConnect(c) \/ ClientPhase1(c) \/ ClientPhase2(c)
              /\ UNCHANGED serverVars
<1>1. CASE (Main \/ MSignal) /\ UNCHANGED clientVars
  BY <1>1, MainStreams DEF Idle, Told, clientVars
<1>2. CASE \E t \in Threads : Worker(t) /\ UNCHANGED clientVars
  BY <1>2, WorkerStreams DEF Idle, clientVars
<1>3. CASE \E d \in Conns : (Client(d) \/ ClientKill(d)) /\ UNCHANGED serverVars
  BY <1>3, ClientStreams DEF Idle
<1>4. CASE NetFault /\ UNCHANGED <<serverVars, clientVars>>
  BY <1>4, NetStreams DEF Idle, clientVars
<1>5. CASE UNCHANGED vars
  <2>1. Fewer(toServer[c], toServer[c]) /\ Fewer(toClient[c], toClient[c])
    BY StreamTypes, FewerSame
  <2>. QED
    BY <1>5, <2>1 DEF Idle, vars, netVars, clientVars
<1>. QED
  BY <1>1, <1>2, <1>3, <1>4, <1>5, StepKinds

-----------------------------------------------------------------------------
(* The round goes on.                                                       *)

\* The server goes on to its next request.
NextRound == MReport /\ ~ stop_signal /\ result # "cluster_fail"

\* In any other step a round only gets further, and nobody changes a decision
\* that may have been sent.
GoesOn(c) ==
    /\ Stage(c) \in 0 .. 2 /\ Stage(c)' \in 0 .. 2 /\ Stage(c) <= Stage(c)'
    /\ Stage(c) = 2 => Verdict' = Verdict
    /\ requests' \in Nat /\ requests <= requests'
    /\ Between' \/ InPhase' => (Between \/ InPhase) /\ requests' = requests

LEMMA MainGoesOn ==
    ASSUME TypeInv, Main \/ MSignal, ~ NextRound, NEW c \in Conns
    PROVE  GoesOn(c)
<1>0. /\ mpc \in MainPc /\ i \in Nat /\ c \in Nat /\ phase \in {1, 2} /\ requests \in Nat
      /\ stop_signal \in BOOLEAN /\ c < client_count /\ client_count \in Nat
  BY ClientCountAssumption DEF TypeInv, TypeOK, MainTypeOK, SharedTypeOK, Conns
<1>. USE DEF GoesOn, Stage, Verdict, Between, InPhase, Connecting, Preparing, Sending,
             Collecting, sharedVars
<1>1. CASE mpc' \in {"cleanup", "join", "hung", "exited"} /\ UNCHANGED <<requests, status>>
  BY <1>0, <1>1
<1>2. CASE MWriteEfin \/ MWriteDies \/ MCleanup \/ MJoin \/ MSignal
  BY <1>1, <1>2 DEF MWriteEfin, MWriteDies, MCleanup, MJoin, MSignal, MInterrupted,
                    MInterruptedAgain, MHangs, Die
<1>3. CASE MConnect
  <2>1. /\ mpc = "connect" /\ mpc' \in {"connect", "spawn", "cleanup"}
        /\ UNCHANGED <<stop_signal, requests, status, phase>>
    BY <1>3 DEF MConnect
  <2>. QED
    BY <1>0, <1>1, <2>1
<1>4. CASE MSpawn
  BY <1>0, <1>4 DEF MSpawn
<1>5. CASE MLoop
  BY <1>0, <1>5 DEF MLoop
<1>6. CASE MReset
  <2>1. /\ mpc = "reset" /\ UNCHANGED <<stop_signal, requests, status, phase>>
        /\ \/ mpc' \in {"reset", "broadcast", "cleanup"}
           \/ mpc' = "send" /\ i' = 0
    BY <1>6 DEF MReset, AfterReset
  <2>. QED
    BY <1>0, <1>1, <2>1
<1>7. CASE MBroadcast
  BY <1>0, <1>7 DEF MBroadcast
<1>8. CASE MSend \/ MWrite
  BY <1>0, <1>8 DEF MSend, MWrite
<1>9. CASE MTimeout \/ MSum \/ MPause \/ MScanEnd \/ MClear
  <2>1. Collecting /\ Collecting' /\ UNCHANGED <<stop_signal, requests, status, phase>>
    BY <1>9 DEF MTimeout, MSum, MPause, MScanEnd, MClear
  <2>. QED
    BY <1>0, <2>1
<1>10. CASE MScan
  <2>1. /\ mpc = "scan" /\ mpc' \in {"scan", "cleanup"}
        /\ UNCHANGED <<stop_signal, requests, status, phase>>
    BY <1>10 DEF MScan
  <2>. QED
    BY <1>0, <1>1, <2>1
<1>11. CASE MUnpause
  BY <1>0, <1>11 DEF MUnpause
<1>12. CASE MReport
  BY <1>0, <1>12 DEF MReport, NextRound
<1>. QED
  BY <1>2, <1>3, <1>4, <1>5, <1>6, <1>7, <1>8, <1>9, <1>10, <1>11, <1>12 DEF Main

LEMMA RoundGoesOn ==
    ASSUME TypeInv, [Next]_vars, ~ NextRound, NEW c \in Conns
    PROVE  GoesOn(c)
<1>0. /\ i \in Nat /\ c \in Nat /\ phase \in {1, 2} /\ requests \in Nat
      /\ stop_signal \in BOOLEAN
  BY DEF TypeInv, TypeOK, MainTypeOK, SharedTypeOK, Conns
<1>1. CASE /\ UNCHANGED <<i, requests, status, phase>>
           /\ mpc' = mpc \/ mpc' = "exited"
           /\ stop_signal => stop_signal'
  BY <1>0, <1>1 DEF GoesOn, Stage, Verdict, Between, InPhase, Connecting, Preparing,
                    Sending, Collecting
<1>2. CASE UNCHANGED serverVars
  BY <1>1, <1>2 DEF serverVars, sharedVars, mainVars
<1>. QED
  BY <1>1, <1>2, StepKinds, MainGoesOn, WorkerMain DEF vars

\* Nobody but a client that votes or acts adds to a log, and one at a time.
LEMMA LogSteps ==
    ASSUME TypeInv, [Next]_vars
    PROVE  /\ UNCHANGED log \/ \E c \in Conns : ClientPhase1(c) \/ ClientPhase2(c)
           /\ UNCHANGED log \/ \E c \in Conns : \E e \in LogEntry : Does(c, e)
<1>1. CASE \E c \in Conns : Client(c) \/ ClientKill(c)
  <2>1. PICK c \in Conns : Client(c) \/ ClientKill(c)
    BY <1>1
  <2>2. CASE ClientPhase1(c)
    <3>1. (IF VotesYes(c) THEN "yes" ELSE "no") \in LogEntry
      BY DEF LogEntry
    <3>. QED
      BY <2>2, <3>1 DEF ClientPhase1, Does
  <2>3. CASE ClientPhase2(c)
    BY <2>3 DEF ClientPhase2, Does, LogEntry
  <2>4. CASE ~ ClientPhase1(c) /\ ~ ClientPhase2(c)
    BY <2>1, <2>4 DEF Client, ClientConnect, ClientProtocolFailure, ClientTimeout,
                      ClientEfin, ClientKill, clientVars
  <2>. QED
    BY <2>2, <2>3, <2>4
<1>2. CASE UNCHANGED clientVars
  BY <1>2 DEF clientVars
<1>. QED
  BY <1>1, <1>2, StepKinds DEF vars

\* A vote that has been cast stays cast.
LEMMA VotesStay ==
    ASSUME TypeInv, [Next]_vars, NEW d \in Conns, NEW n, NEW v, Voted(d, n, v)
    PROVE  Voted(d, n, v)'
  BY LogSteps, VotesLast

\* So what has been decided with reason keeps its reason.
LEMMA ReasonsStay ==
    ASSUME TypeInv, [Next]_vars, NEW n
    PROVE  /\ AllYes(n) => AllYes(n)'
           /\ SomeNo(n) => SomeNo(n)'
           /\ \A d : Reasoned(d, n) => Reasoned(d, n)'
<1>1. /\ AllYes(n) => AllYes(n)'
      /\ SomeNo(n) => SomeNo(n)'
      /\ \A d : Justified(d, n) => Justified(d, n)'
  BY LogSteps, ReasonsLast
<1>. QED
  BY <1>1 DEF Reasoned

-----------------------------------------------------------------------------
(* Everybody stays in the same round.                                       *)

LEMMA LogLengths ==
    ASSUME TypeInv, NEW c \in Conns
    PROVE  /\ Len(log[c]) \in Nat /\ Len(toClient[c]) \in Nat /\ Len(toServer[c]) \in Nat
           /\ log[c] \in Seq(LogEntry)
           /\ toClient[c] \in Seq(MsgType) /\ toServer[c] \in Seq(MsgType)
  BY StreamTypes

\* The channels stay functions to sequences.
LEMMA StreamTypesKept ==
    ASSUME TypeInv, [Next]_vars
    PROVE  /\ toServer' \in [Conns -> Seq(MsgType)]
           /\ toClient' \in [Conns -> Seq(MsgType)]
           /\ log' \in [Conns -> Seq(LogEntry)]
  BY TypeStep DEF TypeInv, TypeOK, NetTypeOK, ClientTypeOK, LogEntry

\* The head of a sequence and what is behind it.
LEMMA HeadTail ==
    ASSUME NEW X, NEW s \in Seq(X), s # <<>>
    PROVE  /\ Len(s) \in Nat \ {0} /\ Head(s) = s[1]
           /\ Tail(s) \in Seq(X) /\ Len(Tail(s)) = Len(s) - 1
           /\ \A k \in 1 .. Len(s) - 1 : Tail(s)[k] = s[k + 1]
  OBVIOUS

\* A client that takes a message finds its own type there, even where the next
\* one may have been moved over it: behind a request that is to be answered comes
\* a decision, behind a decision nothing.
LEMMA ClientTakes ==
    ASSUME OrderedState, NEW c \in Conns, ClientPhase1(c) \/ ClientPhase2(c)
    PROVE  /\ toClient[c] # <<>>
           /\ ClientPhase1(c) => Head(toClient[c]) = "request"
           /\ ClientPhase2(c) =>
                 /\ Head(toClient[c]) \in Decisions
                 /\ log' = [log EXCEPT ![c] = Append(@, Head(toClient[c]))]
<1>0. /\ toClient[c] \in Seq(MsgType) /\ Len(log[c]) \in Nat
      /\ Verdict # "request" /\ "request" \notin Decisions
  BY LogLengths DEF OrderedState, Verdict, Decisions
<1>1. PICK r \in 0 .. requests : RoundOf(c, 2 * r)
  BY DEF OrderedState, CommitInv, RoundInv
<1>2. PICK b \in Nat : b = 2 * r /\ b % 2 = 0
  BY DEF OrderedState, TypeInv, TypeOK, MainTypeOK
<1>3. Downward(c, b)
  BY <1>1, <1>2 DEF RoundOf
<1>4. PICK l \in Nat : l = Len(toClient[c])
  BY <1>0
<1>5. \A m \in Shown(c) : \E n \in 1 .. l : n \in {1, 2} /\ m = toClient[c][n]
  BY <1>0, <1>4 DEF Shown
<1>6. 1 \in 1 .. l => toClient[c] # <<>> /\ Head(toClient[c]) = toClient[c][1]
  BY <1>0, <1>4
<1>7. CASE ClientPhase1(c)
  <2>1. PICK n \in 1 .. l : toClient[c][n] = "request"
    BY <1>5, <1>7 DEF ClientPhase1
  <2>2. n = 1
    BY <1>0, <1>3, <1>4, <2>1 DEF Downward
  <2>3. ~ ClientPhase2(c)
    BY <1>7 DEF ClientPhase1, ClientPhase2
  <2>. QED
    BY <1>6, <2>1, <2>2, <2>3
<1>8. CASE ClientPhase2(c)
  <2>1. PICK d \in Decisions : d \in Shown(c) /\ log' = [log EXCEPT ![c] = Append(@, d)]
    BY <1>8 DEF ClientPhase2
  <2>2. PICK n \in 1 .. l : n \in {1, 2} /\ d = toClient[c][n]
    BY <1>5, <2>1
  <2>3. n = l
    BY <1>0, <1>3, <1>4, <2>1, <2>2 DEF Downward
  <2>4. Len(log[c]) % 2 = 1
    BY <1>8 DEF ClientPhase2, OrderedState, CommitInv, ClientInv, Alternates
  <2>5. l = 1
    <3>1. ASSUME l = 2
          PROVE  FALSE
      <4>1. 1 \in 1 .. Len(toClient[c]) /\ 1 # Len(toClient[c])
        BY <1>4, <3>1
      <4>2. Len(log[c]) = b
        BY <1>3, <4>1 DEF Downward
      <4>. QED
        BY <1>2, <2>4, <4>2
    <3>. QED
      BY <2>2, <2>3, <3>1
  <2>6. d = Head(toClient[c]) /\ toClient[c] # <<>>
    BY <1>6, <2>2, <2>3, <2>5
  <2>7. ~ ClientPhase1(c)
    BY <1>8 DEF ClientPhase1, ClientPhase2
  <2>. QED
    BY <2>1, <2>6, <2>7
<1>. QED
  BY <1>7, <1>8

\* A client that votes does so once in a round, as its first act in it.
LEMMA VotesFirst ==
    ASSUME OrderedState, NEW c \in Conns, ClientPhase1(c),
           NEW b \in Nat, RoundOf(c, b)
    PROVE  Len(log[c]) = b /\ Stage(c) # 0
<1>1. toClient[c] # <<>> /\ Head(toClient[c]) = "request" /\ toClient[c] \in Seq(MsgType)
  BY ClientTakes, LogLengths DEF OrderedState
<1>2. 1 \in 1 .. Len(toClient[c]) /\ toClient[c][1] = "request"
  BY <1>1, HeadTail
<1>3. Verdict # "request"
  BY DEF Verdict
<1>. QED
  BY <1>1, <1>2, <1>3 DEF RoundOf, Downward

\* A client that acts does so second and last, on the decision of the round.
LEMMA ActsLast ==
    ASSUME OrderedState, NEW c \in Conns, ClientPhase2(c),
           NEW b \in Nat, b % 2 = 0, RoundOf(c, b)
    PROVE  /\ Len(log[c]) = b + 1 /\ Stage(c) = 2
           /\ Head(toClient[c]) = Verdict /\ Tail(toClient[c]) = <<>>
           /\ Reasoned(Verdict, b + 1)
<1>1. /\ toClient[c] # <<>> /\ Head(toClient[c]) \in Decisions
      /\ toClient[c] \in Seq(MsgType) /\ Len(log[c]) \in Nat
      /\ Len(log[c]) % 2 = 1
  BY ClientTakes, LogLengths
  DEF ClientPhase2, OrderedState, CommitInv, ClientInv, Alternates
<1>2. 1 \in 1 .. Len(toClient[c]) /\ toClient[c][1] = Head(toClient[c])
      /\ Len(Tail(toClient[c])) = Len(toClient[c]) - 1
      /\ Tail(toClient[c]) \in Seq(MsgType)
  BY <1>1, HeadTail
<1>3. Head(toClient[c]) # "request"
  BY <1>1 DEF Decisions
<1>4. /\ Head(toClient[c]) = Verdict /\ Len(toClient[c]) = 1
      /\ Stage(c) = 2 /\ Len(log[c]) <= b + 1
      /\ Reasoned(Verdict, b + 1)
  BY <1>2, <1>3 DEF RoundOf, Downward
<1>5. Len(log[c]) \in b .. b + 2 /\ Len(log[c]) # b
  BY <1>1, <1>4 DEF RoundOf
<1>6. Tail(toClient[c]) = <<>>
  <2>1. Len(Tail(toClient[c])) = 0
    BY <1>2, <1>4
  <2>2. \A s \in Seq(MsgType) : Len(s) = 0 => s = <<>>
    OBVIOUS
  <2>. QED
    BY <1>2, <2>1, <2>2
<1>. QED
  BY <1>1, <1>4, <1>5, <1>6

\* A client of which the step takes messages at most.
LEMMA RoundIdle ==
    ASSUME OrderedState, [Next]_vars, NEW c \in Conns, Idle(c), GoesOn(c),
           NEW b \in Nat, RoundOf(c, b)
    PROVE  RoundOf(c, b)'
<1>0. /\ Len(log[c]) \in Nat /\ log'[c] = log[c]
      /\ toClient'[c] \in Seq(MsgType)
  BY LogLengths, StreamTypesKept DEF OrderedState, Idle
<1>1. Len(log'[c]) \in b .. b + Stage(c)'
  BY <1>0 DEF RoundOf, GoesOn
<1>2. ASSUME Len(log'[c]) = b + 2
      PROVE  log'[c][b + 2] = Verdict'
  BY <1>0, <1>2 DEF RoundOf, GoesOn
<1>3. ASSUME Stage(c)' = 0
      PROVE  toClient'[c] = <<>>
  <2>1. Stage(c) = 0 /\ toClient[c] = <<>>
    BY <1>3 DEF RoundOf, GoesOn
  <2>. QED
    BY <1>0, <2>1, FewerOfNone DEF Idle
<1>4. ASSUME NEW k \in 1 .. Len(toClient'[c])
      PROVE  \/ toClient'[c][k] = "request" /\ k = 1 /\ Len(log'[c]) = b
             \/ /\ toClient'[c][k] = Verdict' /\ k = Len(toClient'[c])
                /\ Stage(c)' = 2 /\ Len(log'[c]) <= b + 1
                /\ Reasoned(Verdict, b + 1)'
  <2>1. PICK j \in k .. Len(toClient[c]) :
            /\ toClient'[c][k] = toClient[c][j]
            /\ j = Len(toClient[c]) => k = Len(toClient'[c])
    BY <1>4 DEF Idle, Fewer
  <2>2. Len(toClient[c]) \in Nat /\ Len(toClient'[c]) \in Nat
    BY <1>0, LogLengths DEF OrderedState
  <2>3. j \in 1 .. Len(toClient[c]) /\ (j = 1 => k = 1)
    BY <2>2
  <2>4. CASE toClient[c][j] = "request" /\ j = 1 /\ Len(log[c]) = b
    BY <1>0, <2>1, <2>3, <2>4
  <2>5. CASE /\ toClient[c][j] = Verdict /\ j = Len(toClient[c])
             /\ Stage(c) = 2 /\ Len(log[c]) <= b + 1
             /\ Reasoned(Verdict, b + 1)
    <3>1. Stage(c)' = 2 /\ Verdict' = Verdict
      BY <2>5 DEF GoesOn
    <3>2. Reasoned(Verdict, b + 1)'
      BY <2>5, <3>1, ReasonsStay DEF OrderedState
    <3>. QED
      BY <1>0, <2>1, <2>5, <3>1, <3>2
  <2>. QED
    BY <2>3, <2>4, <2>5 DEF RoundOf, Downward
<1>5. ASSUME NEW k \in 1 .. Len(toServer'[c])
      PROVE  /\ toServer'[c][k] = "vote_yes" => Voted(c, b + 1, "yes")'
             /\ toServer'[c][k] = "vote_no" => Voted(c, b + 1, "no")'
             /\ toServer'[c][k] = "ack" => k = Len(toServer'[c]) /\ Len(log'[c]) = b + 2
  <2>1. PICK j \in k .. Len(toServer[c]) :
            /\ toServer'[c][k] = toServer[c][j]
            /\ j = Len(toServer[c]) => k = Len(toServer'[c])
    BY <1>5 DEF Idle, Fewer
  <2>2. j \in 1 .. Len(toServer[c])
    BY LogLengths DEF OrderedState
  <2>3. /\ Voted(c, b + 1, "yes") => Voted(c, b + 1, "yes")'
        /\ Voted(c, b + 1, "no") => Voted(c, b + 1, "no")'
    BY VotesStay DEF OrderedState
  <2>. QED
    BY <1>0, <2>1, <2>2, <2>3 DEF RoundOf, Upward
<1>. QED
  BY <1>1, <1>2, <1>3, <1>4, <1>5 DEF RoundOf, Downward, Upward

\* Client c is sent the request, and later the decision.
LEMMA RoundTold ==
    ASSUME OrderedState, [Next]_vars, NEW c \in Conns, Told(c), GoesOn(c),
           NEW b \in Nat, b = 2 * requests, RoundOf(c, b)
    PROVE  RoundOf(c, b)'
<1>0. /\ i \in Nat /\ c \in Nat /\ phase \in {1, 2} /\ requests \in Nat
      /\ status \in Phase1Result \cup {"none"} /\ stop_signal \in BOOLEAN
  BY DEF OrderedState, TypeInv, TypeOK, MainTypeOK, SharedTypeOK, Conns
<1>1. /\ mpc \in {"write", "broadcast"}
      /\ UNCHANGED <<phase, status, requests, stop_signal>>
      /\ Stage(c) = phase - 1 /\ Stage(c)' = phase
      /\ mpc = "broadcast" => Transport = "udp_qj"
  BY <1>0 DEF Told, MWrite, MBroadcast, Stage, Between, Connecting, Preparing, Sending,
              Collecting, sharedVars, OrderedState, CommitInv, ControlInv
<1>2. b + 1 = Ballot /\ Verdict' = Verdict
  BY <1>1 DEF Ballot, Verdict
<1>3. PICK n \in Nat : n = Len(toClient[c])
  BY LogLengths DEF OrderedState
<1>4. /\ Len(log[c]) \in Nat /\ log'[c] = log[c]
      /\ toClient[c] \in Seq(MsgType) /\ Request \in MsgType
      /\ toClient'[c] = Append(toClient[c], Request)
  BY LogLengths DEF OrderedState, Told, Request, MsgType
<1>5. /\ Len(toClient'[c]) = n + 1
      /\ \A k \in 1 .. n + 1 :
            toClient'[c][k] = IF k = n + 1 THEN Request ELSE toClient[c][k]
  BY <1>3, <1>4, AppendNth
<1>6. Len(log'[c]) \in b .. b + Stage(c)'
  BY <1>4 DEF RoundOf, GoesOn
<1>7. Len(log'[c]) # b + 2 /\ Stage(c)' # 0
  BY <1>0, <1>1, <1>4 DEF RoundOf
<1>8. ASSUME NEW k \in 1 .. n + 1
       PROVE  \/ toClient'[c][k] = "request" /\ k = 1 /\ Len(log'[c]) = b
              \/ /\ toClient'[c][k] = Verdict' /\ k = n + 1
                 /\ Stage(c)' = 2 /\ Len(log'[c]) <= b + 1
                 /\ Reasoned(Verdict, b + 1)'
  <2>1. CASE k # n + 1
    <3>1. k \in 1 .. Len(toClient[c]) /\ toClient'[c][k] = toClient[c][k]
      BY <1>3, <1>5, <1>8, <2>1
    <3>2. Stage(c) # 2
      BY <1>0, <1>1
    <3>. QED
      BY <1>4, <3>1, <3>2 DEF RoundOf, Downward
  <2>2. CASE k = n + 1 /\ phase = 1
    <3>1. toClient[c] = <<>> /\ Len(log[c]) = b
      BY <1>1, <1>4, <2>2 DEF RoundOf
    <3>2. n = 0 /\ toClient'[c][k] = "request"
      BY <1>3, <1>5, <2>2, <3>1 DEF Request
    <3>. QED
      BY <1>4, <2>2, <3>1, <3>2
  <2>3. CASE k = n + 1 /\ phase = 2
    <3>1. /\ status # "none" /\ status # "request_success" => status = "request_fail"
          /\ status = "request_fail" => SomeNo(Ballot)
          /\ status = "request_success" /\ mpc = "write" => AllYes(Ballot)
      BY <1>0, <1>1, <2>3
      DEF OrderedState, CommitInv, StatusInv, Preparing, Sending, Phase1Result
    <3>2. status # "none"
      BY <1>1, <2>3 DEF OrderedState, CommitInv, StatusInv, Preparing, Sending
    <3>3. toClient'[c][k] = Verdict'
      BY <1>2, <1>5, <2>3 DEF Request, Verdict
    <3>4. Reasoned(Verdict, Ballot)
      <4>1. CASE status = "request_success"
        BY <1>1, <3>1, <4>1 DEF Reasoned, Justified, Verdict
      <4>2. CASE status = "request_fail"
        BY <3>1, <4>2 DEF Reasoned, Justified, Verdict
      <4>. QED
        BY <3>1, <3>2, <4>1, <4>2
    <3>5. Reasoned(Verdict, b + 1)'
      BY <1>2, <3>4, ReasonsStay DEF OrderedState
    <3>6. Stage(c)' = 2 /\ Len(log'[c]) <= b + 1
      BY <1>1, <1>4, <2>3 DEF RoundOf
    <3>. QED
      BY <2>3, <3>3, <3>5, <3>6
  <2>. QED
    BY <1>0, <2>1, <2>2, <2>3
<1>9. Downward(c, b)'
  BY <1>5, <1>8 DEF Downward
<1>10. ASSUME NEW k \in 1 .. Len(toServer'[c])
       PROVE  /\ toServer'[c][k] = "vote_yes" => Voted(c, b + 1, "yes")'
              /\ toServer'[c][k] = "vote_no" => Voted(c, b + 1, "no")'
              /\ toServer'[c][k] = "ack" => k = Len(toServer'[c]) /\ Len(log'[c]) = b + 2
  <2>1. PICK j \in k .. Len(toServer[c]) :
            /\ toServer'[c][k] = toServer[c][j]
            /\ j = Len(toServer[c]) => k = Len(toServer'[c])
    BY <1>10 DEF Told, Fewer
  <2>2. j \in 1 .. Len(toServer[c])
    BY LogLengths DEF OrderedState
  <2>3. /\ Voted(c, b + 1, "yes") => Voted(c, b + 1, "yes")'
        /\ Voted(c, b + 1, "no") => Voted(c, b + 1, "no")'
    BY VotesStay DEF OrderedState
  <2>. QED
    BY <1>4, <2>1, <2>2, <2>3 DEF RoundOf, Upward
<1>. QED
  BY <1>6, <1>7, <1>9, <1>10 DEF RoundOf, Upward

\* A client that connects has not done anything yet.
LEMMA RoundConnect ==
    ASSUME OrderedState, [Next]_vars, NEW c \in Conns, ClientConnect(c), GoesOn(c),
           NEW b \in Nat, RoundOf(c, b), UNCHANGED serverVars
    PROVE  RoundOf(c, b)'
<1>0. /\ log[c] = <<>> /\ log' = log /\ toClient' = toClient
      /\ Len(log[c]) \in Nat /\ Len(log[c]) # b + 2
      /\ toServer[c] \in Seq(MsgType) /\ toServer'[c] = Append(toServer[c], "con")
      /\ "con" \in MsgType
  BY LogLengths, StreamTypes
  DEF OrderedState, CommitInv, ClientInv, Alternates, ClientConnect, Sent, MsgType
<1>1. Stage(c)' = Stage(c) /\ Verdict' = Verdict
  BY DEF serverVars, sharedVars, mainVars, Stage, Verdict, Between, Connecting, Preparing,
         Sending, Collecting
<1>2. Reasoned(Verdict, b + 1) => Reasoned(Verdict, b + 1)'
  BY <1>1, ReasonsStay DEF OrderedState
<1>3. Downward(c, b)'
  BY <1>0, <1>1, <1>2 DEF RoundOf, Downward
<1>4. PICK n \in Nat : n = Len(toServer[c])
  BY <1>0
<1>5. /\ Len(toServer'[c]) = n + 1
      /\ \A k \in 1 .. n + 1 :
            toServer'[c][k] = IF k = n + 1 THEN "con" ELSE toServer[c][k]
  BY <1>0, <1>4, AppendNth
<1>6. ASSUME NEW k \in 1 .. n + 1
      PROVE  /\ toServer'[c][k] = "vote_yes" => Voted(c, b + 1, "yes")'
             /\ toServer'[c][k] = "vote_no" => Voted(c, b + 1, "no")'
             /\ toServer'[c][k] # "ack"
  <2>1. CASE k = n + 1
    BY <1>5, <2>1
  <2>2. CASE k # n + 1
    <3>1. k \in 1 .. Len(toServer[c]) /\ toServer'[c][k] = toServer[c][k]
      BY <1>4, <1>5, <2>2
    <3>2. /\ Voted(c, b + 1, "yes") => Voted(c, b + 1, "yes")'
          /\ Voted(c, b + 1, "no") => Voted(c, b + 1, "no")'
      BY VotesStay DEF OrderedState
    <3>. QED
      BY <1>0, <3>1, <3>2 DEF RoundOf, Upward
  <2>. QED
    BY <2>1, <2>2
<1>7. Upward(c, b)'
  BY <1>5, <1>6 DEF Upward
<1>. QED
  BY <1>0, <1>1, <1>3, <1>7 DEF RoundOf

\* A client that votes on the request of the round.
LEMMA RoundVotes ==
    ASSUME OrderedState, [Next]_vars, NEW c \in Conns, ClientPhase1(c), GoesOn(c),
           NEW b \in Nat, RoundOf(c, b), UNCHANGED serverVars
    PROVE  RoundOf(c, b)'
<1>1. PICK vote \in LogEntry : vote = IF VotesYes(c) THEN "yes" ELSE "no"
  BY DEF LogEntry
<1>2. PICK msg \in MsgType : msg = IF VotesYes(c) THEN "vote_yes" ELSE "vote_no"
  BY DEF MsgType
<1>3. /\ msg = "vote_yes" => vote = "yes"
      /\ msg = "vote_no" => vote = "no"
      /\ msg # "ack"
  BY <1>1, <1>2
<1>4. /\ log[c] \in Seq(LogEntry)
      /\ toServer[c] \in Seq(MsgType)
      /\ toClient[c] \in Seq(MsgType) /\ toClient[c] # <<>>
      /\ log'[c] = Append(log[c], vote)
      /\ toServer'[c] = Append(toServer[c], msg)
      /\ toClient'[c] = Tail(toClient[c])
  BY <1>1, <1>2, LogLengths, StreamTypes, ClientTakes
  DEF OrderedState, ClientPhase1, Answer, Sent
<1>5. Stage(c)' = Stage(c) /\ Verdict' = Verdict
  BY DEF serverVars, sharedVars, mainVars, Stage, Verdict, Between, Connecting, Preparing,
         Sending, Collecting
<1>6. Reasoned(Verdict, b + 1) => Reasoned(Verdict, b + 1)'
  BY <1>5, ReasonsStay DEF OrderedState
<1>7. Len(log[c]) = b /\ Stage(c) # 0 /\ Stage(c) \in 0 .. 2
  BY VotesFirst DEF GoesOn
<1>8. Len(log'[c]) = b + 1 /\ log'[c][b + 1] = vote
  BY <1>4, <1>7, AppendNth
<1>9. PICK n \in Nat : n = Len(toServer[c])
  BY LogLengths DEF OrderedState
<1>10. /\ Len(toServer'[c]) = n + 1
      /\ \A k \in 1 .. n + 1 :
            toServer'[c][k] = IF k = n + 1 THEN msg ELSE toServer[c][k]
  BY <1>4, <1>9, AppendNth
<1>11. PICK m \in Nat \ {0} : m = Len(toClient[c])
  BY <1>4, HeadTail
<1>12. /\ Len(toClient'[c]) = m - 1
      /\ \A k \in 1 .. m - 1 : toClient'[c][k] = toClient[c][k + 1]
  BY <1>4, <1>11, HeadTail
<1>13. ASSUME NEW k \in 1 .. m - 1
      PROVE  /\ toClient'[c][k] = Verdict' /\ k = m - 1
             /\ Stage(c)' = 2 /\ Len(log'[c]) <= b + 1
             /\ Reasoned(Verdict, b + 1)'
  <2>1. k + 1 \in 1 .. m /\ k + 1 # 1 /\ (k + 1 = m => k = m - 1)
    BY <1>11
  <2>2. /\ toClient[c][k + 1] = Verdict /\ k + 1 = m
        /\ Stage(c) = 2 /\ Reasoned(Verdict, b + 1)
    BY <1>11, <2>1 DEF RoundOf, Downward
  <2>. QED
    BY <1>5, <1>6, <1>8, <1>12, <2>1, <2>2
<1>14. Downward(c, b)'
  BY <1>12, <1>13 DEF Downward
<1>15. Voted(c, b + 1, vote)'
  BY <1>8 DEF Voted
<1>16. ASSUME NEW k \in 1 .. n + 1
       PROVE  /\ toServer'[c][k] = "vote_yes" => Voted(c, b + 1, "yes")'
              /\ toServer'[c][k] = "vote_no" => Voted(c, b + 1, "no")'
              /\ toServer'[c][k] # "ack"
  <2>1. CASE k = n + 1
    BY <1>3, <1>10, <1>15, <2>1
  <2>2. CASE k # n + 1
    <3>1. k \in 1 .. Len(toServer[c]) /\ toServer'[c][k] = toServer[c][k]
      BY <1>9, <1>10, <2>2
    <3>2. /\ Voted(c, b + 1, "yes") => Voted(c, b + 1, "yes")'
          /\ Voted(c, b + 1, "no") => Voted(c, b + 1, "no")'
      BY VotesStay DEF OrderedState
    <3>3. Len(log[c]) # b + 2
      BY <1>7
    <3>. QED
      BY <3>1, <3>2, <3>3 DEF RoundOf, Upward
  <2>. QED
    BY <2>1, <2>2
<1>17. Upward(c, b)'
  BY <1>10, <1>16 DEF Upward
<1>. QED
  BY <1>5, <1>7, <1>8, <1>14, <1>17 DEF RoundOf

\* A client that acts on its decision.
LEMMA RoundActs ==
    ASSUME OrderedState, [Next]_vars, NEW c \in Conns, ClientPhase2(c), GoesOn(c),
           NEW b \in Nat, b % 2 = 0, RoundOf(c, b), UNCHANGED serverVars
    PROVE  RoundOf(c, b)'
<1>0. /\ log[c] \in Seq(LogEntry) /\ Head(toClient[c]) \in LogEntry
      /\ toServer[c] \in Seq(MsgType) /\ "ack" \in MsgType
      /\ log'[c] = Append(log[c], Head(toClient[c]))
      /\ toServer'[c] = Append(toServer[c], "ack")
      /\ toClient'[c] = Tail(toClient[c])
  BY LogLengths, StreamTypes, ClientTakes
  DEF OrderedState, ClientPhase2, Answer, Sent, LogEntry, MsgType, Decisions
<1>1. Stage(c)' = Stage(c) /\ Verdict' = Verdict
  BY DEF serverVars, sharedVars, mainVars, Stage, Verdict, Between, Connecting, Preparing,
         Sending, Collecting
<1>2. /\ Len(log[c]) = b + 1 /\ Stage(c) = 2
      /\ Head(toClient[c]) = Verdict /\ toClient'[c] = <<>>
  BY <1>0, ActsLast
<1>3. Len(log'[c]) = b + 2 /\ log'[c][b + 2] = Verdict
  BY <1>0, <1>2, AppendNth
<1>4. Downward(c, b)'
  BY <1>2 DEF Downward
<1>5. PICK n \in Nat : n = Len(toServer[c])
  BY LogLengths DEF OrderedState
<1>6. /\ Len(toServer'[c]) = n + 1
      /\ \A k \in 1 .. n + 1 :
            toServer'[c][k] = IF k = n + 1 THEN "ack" ELSE toServer[c][k]
  BY <1>0, <1>5, AppendNth
<1>7. ASSUME NEW k \in 1 .. n + 1
      PROVE  /\ toServer'[c][k] = "vote_yes" => Voted(c, b + 1, "yes")'
             /\ toServer'[c][k] = "vote_no" => Voted(c, b + 1, "no")'
             /\ toServer'[c][k] = "ack" => k = n + 1
  <2>1. CASE k = n + 1
    BY <1>6, <2>1
  <2>2. CASE k # n + 1
    <3>1. k \in 1 .. Len(toServer[c]) /\ toServer'[c][k] = toServer[c][k]
      BY <1>5, <1>6, <2>2
    <3>2. /\ Voted(c, b + 1, "yes") => Voted(c, b + 1, "yes")'
          /\ Voted(c, b + 1, "no") => Voted(c, b + 1, "no")'
      BY VotesStay DEF OrderedState
    <3>3. Len(log[c]) # b + 2
      BY <1>2
    <3>. QED
      BY <3>1, <3>2, <3>3 DEF RoundOf, Upward
  <2>. QED
    BY <2>1, <2>2
<1>8. Upward(c, b)'
  BY <1>3, <1>6, <1>7 DEF Upward
<1>. QED
  BY <1>1, <1>2, <1>3, <1>4, <1>8 DEF RoundOf

\* When everybody has acted and the server has read all of it, they are ready for
\* the next round.
LEMMA RoundBegins ==
    ASSUME OrderedState, NextRound, UNCHANGED clientVars, NEW c \in Conns,
           NEW b \in Nat, b = 2 * requests, RoundOf(c, b)
    PROVE  RoundOf(c, b + 2)'
<1>0. /\ requests \in Nat /\ phase = 2 /\ mpc = "report" /\ mpc' = "loop"
      /\ requests' = requests + 1
      /\ UNCHANGED <<stop_signal, toServer, toClient, log>> /\ ~ stop_signal
  BY DEF NextRound, MReport, OrderedState, CommitInv, ControlInv, TypeInv, TypeOK,
         MainTypeOK, netVars, sharedVars, clientVars
<1>1. Acked(c)
  BY <1>0 DEF NextRound, OrderedState, CommitInv, ScanInv, Seen
<1>2. Ballot + 1 = b + 2
  BY <1>0 DEF Ballot
<1>3. Len(log[c]) = b + 2 /\ toServer[c] = <<>>
  BY <1>1, <1>2 DEF Acked
<1>4. toClient[c] = <<>>
  <2>1. Downward(c, b)
    BY DEF RoundOf
  <2>2. ASSUME NEW k \in 1 .. Len(toClient[c])
        PROVE  FALSE
    BY <1>3, <2>1 DEF Downward
  <2>3. toClient[c] \in Seq(MsgType) /\ Len(toClient[c]) \in Nat
    BY LogLengths DEF OrderedState
  <2>4. Len(toClient[c]) = 0
    BY <2>2, <2>3
  <2>5. \A s \in Seq(MsgType) : Len(s) = 0 => s = <<>>
    OBVIOUS
  <2>. QED
    BY <2>3, <2>4, <2>5
<1>5. Stage(c)' = 0
  BY <1>0 DEF Stage, Between
<1>6. /\ Len(log'[c]) = b + 2 /\ toClient'[c] = <<>> /\ toServer'[c] = <<>>
      /\ b + 2 \in b + 2 .. b + 2 + 0 /\ b + 2 # b + 2 + 2
      /\ Len(<<>>) = 0
  BY <1>0, <1>3, <1>4
<1>7. Downward(c, b + 2)' /\ Upward(c, b + 2)'
  BY <1>6 DEF Downward, Upward
<1>. QED
  BY <1>5, <1>6, <1>7 DEF RoundOf

\* So there is always a round that everybody is in.
LEMMA RoundKept ==
    ASSUME OrderedState, [Next]_vars
    PROVE  RoundInv'
<1>0. PICK r \in 0 .. requests :
          /\ Between \/ InPhase => r = requests
          /\ \A c \in Conns : RoundOf(c, 2 * r)
  BY DEF OrderedState, CommitInv, RoundInv
<1>1. requests \in Nat /\ r \in Nat
  BY DEF OrderedState, TypeInv, TypeOK, MainTypeOK
<1>2. CASE NextRound
  <2>1. UNCHANGED clientVars /\ r = requests /\ requests' = requests + 1
    <3>1. mpc = "report" /\ mpc' = "loop" /\ requests' = requests + 1
      BY <1>2 DEF NextRound, MReport
    <3>2. ~ (\E t \in Threads : Worker(t)) /\ ~ UNCHANGED serverVars
      BY <1>1, <3>1, WorkerMain DEF OrderedState, serverVars, mainVars
    <3>3. UNCHANGED clientVars
      BY <3>2, StepKinds DEF vars
    <3>. QED
      BY <1>0, <3>1, <3>3 DEF InPhase
  <2>2. PICK b \in Nat : b = 2 * requests
    BY <1>1
  <2>3. \A c \in Conns : RoundOf(c, b + 2)'
    BY <1>0, <1>2, <2>1, <2>2, RoundBegins
  <2>4. PICK q \in 0 .. requests' : q = requests'
    BY <1>1, <2>1
  <2>5. b + 2 = 2 * q
    BY <1>1, <2>1, <2>2, <2>4
  <2>6. \A c \in Conns : RoundOf(c, 2 * q)'
    BY <2>3, <2>5
  <2>. QED
    BY <2>4, <2>6 DEF RoundInv
<1>3. CASE ~ NextRound
  <2>1. PICK b \in Nat : b = 2 * r /\ b % 2 = 0
    BY <1>1
  <2>2. ASSUME NEW c \in Conns
        PROVE  RoundOf(c, b)'
    <3>1. GoesOn(c) /\ RoundOf(c, b) /\ OrderedCluster /\ TypeInv
      BY <1>0, <1>3, <2>1, RoundGoesOn DEF OrderedState
    <3>2. CASE Idle(c)
      BY <3>1, <3>2, RoundIdle
    <3>3. CASE Told(c)
      <4>1. InPhase
        BY <3>3 DEF Told, MWrite, MBroadcast, InPhase, Sending, Preparing
      <4>2. b = 2 * requests
        BY <1>0, <2>1, <4>1
      <4>. QED
        BY <3>1, <3>3, <4>2, RoundTold
    <3>4. CASE ClientConnect(c) /\ UNCHANGED serverVars
      BY <3>1, <3>4, RoundConnect
    <3>5. CASE ClientPhase1(c) /\ UNCHANGED serverVars
      BY <3>1, <3>5, RoundVotes
    <3>6. CASE ClientPhase2(c) /\ UNCHANGED serverVars
      BY <2>1, <3>1, <3>6, RoundActs
    <3>. QED
      BY <3>1, <3>2, <3>3, <3>4, <3>5, <3>6, ConnSteps
  <2>3. PICK e \in Conns : TRUE
    BY ClientCountAssumption DEF Conns
  <2>4. /\ requests' \in Nat /\ requests <= requests'
        /\ Between' \/ InPhase' => (Between \/ InPhase) /\ requests' = requests
    BY <1>3, <2>3, RoundGoesOn DEF OrderedState, GoesOn
  <2>5. r \in 0 .. requests' /\ (Between' \/ InPhase' => r = requests')
    BY <1>0, <1>1, <2>4
  <2>6. \A c \in Conns : RoundOf(c, 2 * r)'
    BY <2>1, <2>2
  <2>. QED
    BY <2>5, <2>6 DEF RoundInv
<1>. QED
  BY <1>2, <1>3

-----------------------------------------------------------------------------
(* What the clients have done.                                              *)

\* What a client may add to its log.
LEMMA Additions ==
    ASSUME OrderedState, NEW c \in Conns, ClientPhase1(c) \/ ClientPhase2(c)
    PROVE  \E e \in LogEntry :
              /\ Does(c, e) /\ Reasoned(e, Len(log[c]))
              /\ \/ e \in {"yes", "no"} /\ Len(log[c]) % 2 = 0
                 \/ e \in Decisions /\ Len(log[c]) % 2 = 1
<1>1. CASE ClientPhase1(c)
  <2>1. PICK e \in {"yes", "no"} : e = IF VotesYes(c) THEN "yes" ELSE "no"
    OBVIOUS
  <2>2. Does(c, e) /\ Len(log[c]) % 2 = 0
    BY <1>1, <2>1 DEF ClientPhase1, Does, OrderedState, CommitInv, ClientInv, Alternates
  <2>. QED
    BY <2>2 DEF LogEntry, Reasoned, Justified
<1>2. CASE ClientPhase2(c)
  <2>1. PICK r \in 0 .. requests : RoundOf(c, 2 * r)
    BY DEF OrderedState, CommitInv, RoundInv
  <2>2. r \in Nat
    BY DEF OrderedState, TypeInv, TypeOK, MainTypeOK
  <2>3. PICK b \in Nat : b = 2 * r /\ b % 2 = 0
    BY <2>2
  <2>4. Reasoned(Head(toClient[c]), Len(log[c]))
    BY <1>2, <2>1, <2>3, ActsLast
  <2>5. /\ Does(c, Head(toClient[c])) /\ Head(toClient[c]) \in Decisions
        /\ Len(log[c]) % 2 = 1
    BY <1>2, ClientTakes
    DEF ClientPhase2, Does, OrderedState, CommitInv, ClientInv, Alternates
  <2>. QED
    BY <2>4, <2>5 DEF LogEntry
<1>. QED
  BY <1>1, <1>2

\* What the clients have done they did in turns and with reason.
LEMMA HistoryKept ==
    ASSUME OrderedState, [Next]_vars
    PROVE  HistoryInv'
<1>0. TypeInv /\ HistoryInv
  BY DEF OrderedState, CommitInv
<1>1. \A d, n : Reasoned(d, n) => Reasoned(d, n)'
  BY <1>0, ReasonsStay
<1>2. CASE UNCHANGED log
  BY <1>0, <1>1, <1>2 DEF HistoryInv
<1>3. ASSUME NEW c \in Conns, NEW e \in LogEntry, Does(c, e), Reasoned(e, Len(log[c])),
             \/ e \in {"yes", "no"} /\ Len(log[c]) % 2 = 0
             \/ e \in Decisions /\ Len(log[c]) % 2 = 1
      PROVE  HistoryInv'
  <2>0. PICK l \in Nat : l = Len(log[c])
    BY <1>0, LogLengths
  <2>1. /\ Len(log'[c]) = l + 1
        /\ \A n \in 1 .. l + 1 : log'[c][n] = IF n = l + 1 THEN e ELSE log[c][n]
        /\ \A d \in Conns \ {c} : log'[d] = log[d]
    BY <1>0, <1>3, <2>0, LogType, AppendNth DEF Does
  <2>2. ASSUME NEW n \in 1 .. l + 1
        PROVE  /\ n % 2 = 1 => log'[c][n] \in {"yes", "no"}
               /\ n % 2 = 0 => log'[c][n] \in Decisions
               /\ Reasoned(log[c][n], n - 1)'
    <3>1. CASE n = l + 1
      <4>1. log'[c][n] = e /\ n - 1 = l
        BY <2>1, <3>1
      <4>2. Reasoned(log[c][n], n - 1)'
        BY <1>1, <1>3, <2>0, <4>1
      <4>3. /\ l % 2 = 0 => n % 2 # 0
            /\ l % 2 = 1 => n % 2 # 1
        BY <3>1
      <4>. QED
        BY <1>3, <2>0, <4>1, <4>2, <4>3
    <3>2. CASE n # l + 1
      <4>1. n \in 1 .. Len(log[c]) /\ log'[c][n] = log[c][n]
        BY <2>0, <2>1, <3>2
      <4>. QED
        BY <1>0, <1>1, <4>1 DEF HistoryInv
    <3>. QED
      BY <3>1, <3>2
  <2>3. ASSUME NEW d \in Conns \ {c}, NEW n \in 1 .. Len(log'[d])
        PROVE  /\ n % 2 = 1 => log'[d][n] \in {"yes", "no"}
               /\ n % 2 = 0 => log'[d][n] \in Decisions
               /\ Reasoned(log[d][n], n - 1)'
    BY <1>0, <1>1, <2>1, <2>3 DEF HistoryInv
  <2>. QED
    BY <2>1, <2>2, <2>3 DEF HistoryInv
<1>. QED
  BY <1>0, <1>2, <1>3, LogSteps, Additions

\* Somebody who acts does what those have done who acted before.
LEMMA AgreedKept ==
    ASSUME OrderedState, [Next]_vars
    PROVE  AgreedInv'
<1>0. TypeInv /\ AgreedInv
  BY DEF OrderedState, CommitInv
<1>1. CASE UNCHANGED log
  BY <1>0, <1>1 DEF AgreedInv
<1>2. ASSUME NEW c \in Conns, ClientPhase1(c) \/ ClientPhase2(c)
      PROVE  AgreedInv'
  <2>0. PICK l \in Nat : l = Len(log[c])
    BY <1>0, LogLengths
  <2>1. PICK e \in LogEntry :
            /\ Does(c, e)
            /\ \/ ClientPhase1(c) /\ l % 2 = 0
               \/ ClientPhase2(c) /\ e = Head(toClient[c]) /\ l % 2 = 1
    <3>1. CASE ClientPhase1(c)
      <4>1. (IF VotesYes(c) THEN "yes" ELSE "no") \in LogEntry
        BY DEF LogEntry
      <4>. QED
        BY <2>0, <3>1, <4>1
        DEF ClientPhase1, Does, OrderedState, CommitInv, ClientInv, Alternates
    <3>2. CASE ClientPhase2(c)
      BY <2>0, <3>2, ClientTakes
      DEF ClientPhase2, Does, LogEntry, Decisions, OrderedState, CommitInv, ClientInv,
          Alternates
    <3>. QED
      BY <1>2, <3>1, <3>2
  <2>2. /\ Len(log'[c]) = l + 1
        /\ \A n \in 1 .. l + 1 : log'[c][n] = IF n = l + 1 THEN e ELSE log[c][n]
        /\ \A d \in Conns \ {c} : log'[d] = log[d]
    BY <1>0, <2>0, <2>1, LogType, AppendNth DEF Does
  <2>3. ASSUME NEW d \in Conns \ {c}, (l + 1) % 2 = 0, l + 1 <= Len(log[d])
        PROVE  log[d][l + 1] = e
    <3>1. PICK r \in 0 .. requests : \A q \in Conns : RoundOf(q, 2 * r)
      BY DEF OrderedState, CommitInv, RoundInv
    <3>2. r \in Nat
      BY <1>0 DEF TypeInv, TypeOK, MainTypeOK
    <3>3. PICK b \in Nat : b = 2 * r /\ b % 2 = 0
      BY <3>2
    <3>4. ClientPhase2(c) /\ e = Head(toClient[c])
      BY <2>1, <2>3
    <3>5. l = b + 1 /\ e = Verdict
      BY <2>0, <3>1, <3>3, <3>4, ActsLast
    <3>6. Stage(d) \in 0 .. 2
      BY <1>0 DEF Stage, TypeInv, TypeOK, MainTypeOK
    <3>7. Len(log[d]) = b + 2
      BY <2>3, <3>1, <3>3, <3>5, <3>6 DEF RoundOf
    <3>. QED
      BY <3>1, <3>3, <3>5, <3>7 DEF RoundOf
  <2>4. ASSUME NEW d \in Conns, NEW n \in 1 .. Len(log'[d]), n % 2 = 0,
               n <= Len(log'[c])
        PROVE  log'[c][n] = log'[d][n]
    <3>1. CASE d = c
      BY <3>1
    <3>2. CASE d # c
      <4>1. log'[d] = log[d] /\ Len(log[d]) \in Nat
        BY <1>0, <2>2, <3>2, LogLengths
      <4>2. CASE n = l + 1
        BY <2>2, <2>3, <2>4, <3>2, <4>1, <4>2
      <4>3. CASE n # l + 1
        <5>1. n \in 1 .. Len(log[c]) /\ log'[c][n] = log[c][n]
          BY <2>0, <2>2, <2>4, <4>1, <4>3
        <5>. QED
          BY <1>0, <2>4, <4>1, <5>1 DEF AgreedInv
      <4>. QED
        BY <4>2, <4>3
    <3>. QED
      BY <3>1, <3>2
  <2>5. ASSUME NEW p \in Conns, NEW q \in Conns, NEW n \in 1 .. Len(log'[p]),
               n % 2 = 0, n <= Len(log'[q])
        PROVE  log'[q][n] = log'[p][n]
    <3>1. n \in 1 .. Len(log'[q])
      <4>1. log'[q] \in Seq(LogEntry) /\ log'[p] \in Seq(LogEntry)
        BY <1>0, StreamTypesKept
      <4>. QED
        BY <2>5, <4>1
    <3>2. CASE p = c
      BY <2>4, <2>5, <3>1, <3>2
    <3>3. CASE q = c
      BY <2>4, <2>5, <3>3
    <3>4. CASE p # c /\ q # c
      BY <1>0, <2>2, <2>5, <3>4 DEF AgreedInv
    <3>. QED
      BY <3>2, <3>3, <3>4
  <2>. QED
    BY <2>5 DEF AgreedInv
<1>. QED
  BY <1>0, <1>1, <1>2, LogSteps

\* Clients vote and act in turns.
LEMMA ClientKept ==
    ASSUME OrderedState, [Next]_vars
    PROVE  ClientInv'
<1>1. ASSUME NEW c \in Conns
      PROVE  Alternates(c)'
  <2>0. Alternates(c) /\ OrderedCluster /\ TypeInv
    BY DEF OrderedState, CommitInv, ClientInv
  <2>1. CASE UNCHANGED <<log[c], cpc[c]>>
    BY <2>0, <2>1 DEF Alternates
  <2>2. CASE ClientConnect(c)
    <3>1. log'[c] = <<>> /\ cpc'[c] = "phase1" /\ Len(<<>>) % 2 = 0
      BY <2>0, <2>2, StreamTypes DEF ClientConnect, Alternates
    <3>. QED
      BY <3>1 DEF Alternates
  <2>3. ASSUME ClientPhase1(c) \/ ClientPhase2(c)
        PROVE  Alternates(c)'
    <3>1. PICK e \in LogEntry : Does(c, e)
      BY <2>3, Additions
    <3>2. PICK l \in Nat : l = Len(log[c])
      BY <2>0, LogLengths
    <3>3. Len(log'[c]) = l + 1
      BY <2>0, <3>1, <3>2, LogType, AppendNth DEF Does
    <3>4. CASE ClientPhase1(c)
      <4>1. l % 2 = 0 /\ cpc'[c] = "phase2"
        BY <2>0, <3>2, <3>4, StreamTypes DEF ClientPhase1, Alternates
      <4>. QED
        BY <3>3, <4>1, Parity DEF Alternates
    <3>5. CASE ClientPhase2(c)
      <4>1. l % 2 = 1 /\ cpc'[c] = "phase1"
        BY <2>0, <3>2, <3>5, StreamTypes DEF ClientPhase2, Alternates
      <4>. QED
        BY <3>3, <4>1, Parity DEF Alternates
    <3>. QED
      BY <2>3, <3>4, <3>5
  <2>. QED
    BY <2>0, <2>1, <2>2, <2>3, ConnSteps DEF Idle, Told
<1>. QED
  BY <1>1 DEF ClientInv

\* The main thread comes to these places as the code has it.
LEMMA ControlKept ==
    ASSUME OrderedState, [Next]_vars
    PROVE  ControlInv'
<1>0. ControlInv /\ phase \in {1, 2}
  BY DEF OrderedState, CommitInv, TypeInv, TypeOK, MainTypeOK
<1>. USE DEF ControlInv
<1>1. CASE MReset
  BY <1>1 DEF MReset, AfterReset
<1>2. CASE MClear
  BY <1>2 DEF MClear
<1>3. CASE MUnpause
  BY <1>0, <1>3 DEF MUnpause
<1>4. CASE MConnect \/ MSpawn \/ MLoop \/ MBroadcast \/ MSend \/ MWrite \/ MWriteEfin
           \/ MWriteDies \/ MTimeout
  BY <1>4 DEF MConnect, MSpawn, MLoop, MBroadcast, MSend, MWrite, MWriteEfin, MWriteDies,
              Die, MTimeout
<1>5. CASE MSum \/ MPause \/ MScanEnd \/ MScan \/ MReport \/ MCleanup \/ MJoin \/ MSignal
  BY <1>5 DEF MSum, MPause, MScanEnd, MScan, MReport, MCleanup, MJoin, MSignal,
              MInterrupted, MInterruptedAgain, MHangs, Die
<1>6. CASE /\ UNCHANGED <<i, phase>>
           /\ mpc' = mpc \/ mpc' = "exited"
  BY <1>0, <1>6
<1>. QED
  BY <1>1, <1>2, <1>3, <1>4, <1>5, <1>6, StepKinds, WorkerMain
  DEF OrderedState, Main, vars, serverVars, mainVars

-----------------------------------------------------------------------------
(* What the server has been told, and concludes.                            *)

\* The acts of the round that the server is in.
LEMMA InThisRound ==
    ASSUME OrderedState, InPhase, NEW c \in Conns
    PROVE  /\ RoundOf(c, 2 * requests) /\ requests \in Nat /\ phase \in {1, 2}
           /\ Stage(c) \in 0 .. 2
  BY DEF OrderedState, CommitInv, RoundInv, TypeInv, TypeOK, MainTypeOK, Stage

\* An ack that has been read stays the client's last word in its round.
LEMMA AckedStays ==
    ASSUME OrderedState, [Next]_vars, InPhase, UNCHANGED requests,
           NEW c \in Conns, Acked(c)
    PROVE  Acked(c)'
<1>0. OrderedCluster /\ TypeInv
  BY DEF OrderedState
<1>1. PICK b \in Nat : b = 2 * requests
  BY InThisRound
<1>2. /\ Len(log[c]) = b + 2 /\ toServer[c] = <<>> /\ Ballot + 1 = b + 2
      /\ Ballot' + 1 = b + 2
  BY <1>1, InThisRound DEF Acked, Ballot
<1>3. RoundOf(c, b) /\ Stage(c) \in 0 .. 2 /\ phase \in {1, 2}
  BY <1>1, InThisRound
<1>4. ASSUME ClientConnect(c) \/ ClientPhase1(c) \/ ClientPhase2(c)
      PROVE  FALSE
  <2>1. CASE ClientConnect(c)
    <3>1. log[c] = <<>>
      BY <2>1 DEF ClientConnect, OrderedState, CommitInv, ClientInv, Alternates
    <3>2. Len(<<>>) = 0 /\ b + 2 # 0
      BY <1>1
    <3>. QED
      BY <1>2, <3>1, <3>2
  <2>2. toClient[c] # <<>> /\ toClient[c] \in Seq(MsgType) => 1 \in 1 .. Len(toClient[c])
    OBVIOUS
  <2>3. CASE ClientPhase1(c) \/ ClientPhase2(c)
    <3>1. 1 \in 1 .. Len(toClient[c])
      BY <1>0, <2>2, <2>3, LogLengths, ClientTakes
    <3>. QED
      BY <1>2, <1>3, <3>1 DEF RoundOf, Downward
  <2>. QED
    BY <1>4, <2>1, <2>3
<1>5. ASSUME Told(c)
      PROVE  FALSE
  <2>1. mpc \in {"write", "broadcast"} /\ i \in Nat /\ c \in Nat
    BY <1>0, <1>5 DEF Told, MWrite, MBroadcast, TypeInv, TypeOK, MainTypeOK, Conns
  <2>2. Stage(c) = phase - 1
    BY <1>5, <2>1 DEF Told, MWrite, MBroadcast, Stage, Between, Connecting, Preparing,
                        Sending
  <2>. QED
    BY <1>2, <1>3, <2>2 DEF RoundOf
<1>6. ASSUME Idle(c)
      PROVE  Acked(c)'
  <2>1. toServer'[c] = <<>>
    BY <1>0, <1>2, <1>6, FewerOfNone, StreamTypesKept DEF Idle
  <2>. QED
    BY <1>2, <1>6, <2>1 DEF Acked, Idle, Ballot
<1>. QED
  BY <1>0, <1>4, <1>5, <1>6, ConnSteps

\* A slot whose content stays, stays fresh.
LEMMA SlotKept ==
    ASSUME OrderedState, [Next]_vars, InPhase, NEW s \in Slots, Fresh(s),
           UNCHANGED <<phase, requests>>, votes_scoreboard'[s] = votes_scoreboard[s]
    PROVE  Fresh(s)'
<1>0. TypeInv
  BY DEF OrderedState
<1>1. Ballot' = Ballot
  BY DEF Ballot
<1>2. ASSUME phase = 1, votes_scoreboard[s] = "vote_yes", NEW c \in Conns, HostId[c] = s + 1
      PROVE  Voted(c, Ballot, "yes")'
  <2>1. Voted(c, Ballot, "yes")
    BY <1>2 DEF Fresh
  <2>. QED
    BY <1>0, <1>1, <2>1, VotesStay
<1>3. ASSUME phase = 1, votes_scoreboard[s] = "vote_no"
      PROVE  /\ SomeNo(Ballot)'
             /\ \A c \in Conns : HostId[c] = s + 1 => Voted(c, Ballot, "no")'
  <2>1. /\ SomeNo(Ballot)
        /\ \A c \in Conns : HostId[c] = s + 1 => Voted(c, Ballot, "no")
    BY <1>3 DEF Fresh
  <2>. QED
    BY <1>0, <1>1, <2>1, ReasonsStay, VotesStay
<1>4. ASSUME phase = 2, votes_scoreboard[s] = "ack", NEW c \in Conns, HostId[c] = s + 1
      PROVE  Acked(c)'
  <2>1. Acked(c)
    BY <1>4 DEF Fresh
  <2>. QED
    BY <2>1, AckedStays
<1>. QED
  BY <1>1, <1>2, <1>3, <1>4 DEF Fresh

\* The slot of an answer that is read now gets what was said in this phase.
LEMMA ReadIsFresh ==
    ASSUME OrderedState, InPhase, NEW c \in Conns, toServer[c] # <<>>,
           toServer' = [toServer EXCEPT ![c] = Tail(@)], UNCHANGED <<log, requests>>
    PROVE  /\ Head(toServer[c]) = "vote_yes" => Voted(c, Ballot, "yes")
           /\ Head(toServer[c]) = "vote_no" => Voted(c, Ballot, "no")
           /\ Head(toServer[c]) = "ack" => Acked(c)'
<1>0. toServer[c] \in Seq(MsgType) /\ toServer'[c] = Tail(toServer[c])
  BY StreamTypes DEF OrderedState
<1>1. PICK b \in Nat : b = 2 * requests
  BY InThisRound
<1>2. Upward(c, b) /\ Ballot = b + 1 /\ Ballot' = b + 1
  BY <1>1, InThisRound DEF RoundOf, Ballot
<1>3. /\ 1 \in 1 .. Len(toServer[c]) /\ toServer[c][1] = Head(toServer[c])
      /\ Len(Tail(toServer[c])) = Len(toServer[c]) - 1
      /\ Tail(toServer[c]) \in Seq(MsgType)
  BY <1>0, HeadTail
<1>4. ASSUME Head(toServer[c]) = "ack"
      PROVE  Acked(c)'
  <2>1. Len(toServer[c]) = 1 /\ Len(log[c]) = b + 2
    BY <1>2, <1>3, <1>4 DEF Upward
  <2>2. \A s \in Seq(MsgType) : Len(s) = 0 => s = <<>>
    OBVIOUS
  <2>3. Len(Tail(toServer[c])) = 0
    BY <1>3, <2>1
  <2>4. Tail(toServer[c]) = <<>>
    BY <1>3, <2>2, <2>3
  <2>5. Len(log'[c]) = Ballot' + 1
    BY <1>1, <1>2, <2>1
  <2>. QED
    BY <1>0, <2>4, <2>5 DEF Acked
<1>. QED
  BY <1>2, <1>3, <1>4 DEF Upward

\* Slots that the phase has cleared hold what was said in the phase.
LEMMA FreshKept ==
    ASSUME OrderedState, [Next]_vars
    PROVE  FreshInv'
<1>0. /\ FreshInv /\ ControlInv /\ TypeInv
      /\ i \in 0 .. client_count /\ phase \in {1, 2}
      /\ votes_scoreboard \in [Slots -> Slot]
      /\ \A s \in Slots : s \in Nat /\ s < client_count
  BY ClientCountAssumption
  DEF OrderedState, CommitInv, TypeInv, TypeOK, MainTypeOK, SharedTypeOK, Slots
<1>. USE DEF FreshInv, Preparing, Sending
<1>1. CASE MLoop \/ MUnpause
  <2>1. mpc' \in {"cleanup", "report"} \/ (mpc' = "reset" /\ i' = 0)
    BY <1>0, <1>1 DEF MLoop, MUnpause, ControlInv
  <2>. QED
    BY <1>0, <2>1
<1>2. CASE MReset
  <2>1. /\ mpc = "reset" /\ UNCHANGED <<phase, requests>>
        /\ i \in Slots
        /\ votes_scoreboard' = [votes_scoreboard EXCEPT ![i] = "lost"]
    BY <1>0, <1>2, ClientCountAssumption
    DEF MReset, OrderedState, TypeInv, LocalsOK, Slots
  <2>2. votes_scoreboard'[i] = "lost"
        /\ \A s \in Slots : s # i => votes_scoreboard'[s] = votes_scoreboard[s]
    BY <1>0, <2>1
  <2>3. ASSUME NEW s \in Slots, s < i
        PROVE  Fresh(s)'
    BY <1>0, <2>1, <2>2, <2>3, SlotKept DEF InPhase
  <2>4. ASSUME NEW s \in Slots, s = i
        PROVE  Fresh(s)'
    BY <2>2, <2>4 DEF Fresh
  <2>5. ASSUME NEW s \in Slots,
               mpc' \in {"reset", "broadcast", "send", "write", "wait", "pause", "scan"},
               mpc' = "reset" => s < i'
        PROVE  s < i \/ s = i
    BY <1>0, <1>2, <2>5, ClientCountAssumption DEF MReset
  <2>. QED
    BY <2>1, <2>3, <2>4, <2>5
<1>3. CASE MBroadcast \/ MSend \/ MWrite \/ MTimeout \/ MSum \/ MPause \/ MScan
  <2>1. /\ UNCHANGED <<phase, requests, votes_scoreboard>>
        /\ mpc \in {"broadcast", "wait", "pause", "scan"} \/ Sending
        /\ mpc' # "reset"
    BY <1>3 DEF MBroadcast, MSend, MWrite, MTimeout, MSum, MPause, MScan, sharedVars
  <2>2. ASSUME NEW s \in Slots
        PROVE  Fresh(s)'
    BY <1>0, <2>1, <2>2, SlotKept DEF InPhase, Collecting
  <2>. QED
    BY <2>1, <2>2
<1>4. CASE MConnect \/ MSpawn \/ MWriteEfin \/ MWriteDies \/ MScanEnd \/ MClear \/ MReport
           \/ MCleanup \/ MJoin \/ MSignal
  <2>1. mpc' \in {"connect", "spawn", "loop", "clear", "unpause", "report", "cleanup",
                  "join", "hung", "exited"}
    BY <1>4 DEF MConnect, MSpawn, MWriteEfin, MWriteDies, Die, MScanEnd, MClear, MReport,
                MCleanup, MJoin, MSignal, MInterrupted, MInterruptedAgain,
                MHangs
  <2>. QED
    BY <2>1
<1>5. ASSUME UNCHANGED clientVars, NEW t \in Threads, Worker(t)
      PROVE  FreshInv'
  <2>1. /\ UNCHANGED <<i, requests, phase, log>>
        /\ mpc' = mpc \/ mpc' = "exited"
    BY <1>0, <1>5, WorkerMain DEF clientVars
  <2>2. SUFFICES ASSUME Preparing \/ Sending \/ mpc \in {"wait", "pause", "scan"},
                        NEW s \in Slots, mpc = "reset" => s < i
                 PROVE  Fresh(s)'
    BY <2>1
  <2>3. Fresh(s) /\ InPhase
    BY <1>0, <2>2 DEF InPhase, Collecting
  <2>4. CASE votes_scoreboard'[s] = votes_scoreboard[s]
    BY <2>1, <2>3, <2>4, SlotKept
  <2>5. CASE WVote(t) /\ votes_scoreboard'[s] # votes_scoreboard[s]
    <3>1. PICK c \in Conns : c = wi[t]
      BY <1>0, <2>5, WorkerConns DEF WVote, TypeInv, LocalsOK
    <3>2. /\ toServer[c] # <<>> /\ toServer' = [toServer EXCEPT ![c] = Tail(@)]
          /\ votes_scoreboard' = [votes_scoreboard EXCEPT ![HostId[c] - 1] =
                                                             Head(toServer[c])]
      BY <2>5, <3>1 DEF WVote
    <3>3. s = HostId[c] - 1 /\ votes_scoreboard'[s] = Head(toServer[c])
      BY <1>0, <2>5, <3>2
    <3>4. HostId[c] = s + 1 /\ \A d \in Conns : HostId[d] = s + 1 => d = c
      BY <1>0, <3>3, HostIdType DEF OrderedState, OrderedCluster
    <3>5. /\ Head(toServer[c]) = "vote_yes" => Voted(c, Ballot, "yes")
          /\ Head(toServer[c]) = "vote_no" => Voted(c, Ballot, "no")
          /\ Head(toServer[c]) = "ack" => Acked(c)'
      BY <2>1, <2>3, <3>2, ReadIsFresh
    <3>6. Ballot' = Ballot
      BY <2>1 DEF Ballot
    <3>7. /\ Head(toServer[c]) = "vote_yes" => Voted(c, Ballot, "yes")'
          /\ Head(toServer[c]) = "vote_no" =>
                SomeNo(Ballot)' /\ Voted(c, Ballot, "no")'
      BY <1>0, <3>5, <3>6, VotesStay DEF SomeNo
    <3>. QED
      BY <2>1, <3>3, <3>4, <3>5, <3>6, <3>7 DEF Fresh
  <2>. QED
    BY <1>0, <1>5, <2>4, <2>5, WorkerMain
<1>6. CASE UNCHANGED <<i, requests, phase, mpc, votes_scoreboard>>
  BY <1>0, <1>6, SlotKept DEF InPhase, Collecting
<1>. QED
  BY <1>1, <1>2, <1>3, <1>4, <1>5, <1>6, StepKinds
  DEF Main, vars, serverVars, sharedVars, mainVars

\* The scan concludes only what the slots say, and its conclusions stay true.
LEMMA ScanKept ==
    ASSUME OrderedState, [Next]_vars
    PROVE  ScanInv'
<1>0. /\ ScanInv /\ ControlInv /\ TypeInv
      /\ i \in 0 .. client_count /\ phase \in {1, 2} /\ stop_signal \in BOOLEAN
      /\ requests \in Nat
      /\ \A c \in Conns : HostId[c] \in 1 .. client_count
  BY DEF OrderedState, OrderedCluster, CommitInv, TypeInv, TypeOK, MainTypeOK, SharedTypeOK
\* As long as the main thread stays behind the scan, nothing it relies on goes.
<1>1. ASSUME mpc \in {"scan", "clear", "unpause", "report"},
             UNCHANGED <<phase, requests, result>>, stop_signal => stop_signal',
             ~ stop_signal => \A c \in Conns : Seen(c)' => Seen(c)
      PROVE  ScanInv'
  <2>1. Ballot' = Ballot /\ InPhase
    BY <1>1 DEF Ballot, InPhase, Collecting
  <2>2. ASSUME ~ stop_signal, phase = 1, result = "request_success",
               NEW c \in Conns, Seen(c)'
        PROVE  Voted(c, Ballot, "yes")'
    <3>1. Voted(c, Ballot, "yes")
      BY <1>0, <1>1, <2>2 DEF ScanInv
    <3>. QED
      BY <1>0, <2>1, <3>1, VotesStay
  <2>3. ASSUME phase = 1, result = "request_fail"
        PROVE  SomeNo(Ballot)'
    <3>1. SomeNo(Ballot)
      BY <1>0, <1>1, <2>3 DEF ScanInv
    <3>. QED
      BY <1>0, <2>1, <3>1, ReasonsStay
  <2>4. ASSUME ~ stop_signal, phase = 2, result # "cluster_fail",
               NEW c \in Conns, Seen(c)'
        PROVE  Acked(c)'
    <3>1. Acked(c)
      BY <1>0, <1>1, <2>4 DEF ScanInv
    <3>. QED
      BY <1>1, <2>1, <3>1, AckedStays
  <2>. QED
    BY <1>1, <2>1, <2>2, <2>3, <2>4 DEF ScanInv
<1>2. CASE MPause
  <2>1. /\ mpc' = "scan" /\ i' = 0 /\ UNCHANGED phase
        /\ result' = IF phase = 1 THEN "request_success" ELSE "commit_success"
    BY <1>2 DEF MPause
  <2>2. \A c \in Conns : ~ Seen(c)'
    BY <1>0, <2>1 DEF Seen
  <2>. QED
    BY <1>0, <2>1, <2>2 DEF ScanInv
<1>3. CASE MScanEnd
  <2>1. /\ UNCHANGED <<stop_signal, phase, requests, result>>
        /\ mpc = "scan" /\ mpc' = "clear"
        /\ stop_signal \/ i = client_count
    BY <1>3 DEF MScanEnd, sharedVars
  <2>2. ~ stop_signal => \A c \in Conns : Seen(c)
    BY <1>0, <2>1 DEF Seen
  <2>. QED
    BY <1>1, <2>1, <2>2
<1>4. CASE MScan
  <2>1. /\ UNCHANGED <<stop_signal, phase, requests, votes_scoreboard>>
        /\ mpc = "scan" /\ mpc' \in {"scan", "cleanup"} /\ ~ stop_signal /\ i < client_count
        /\ mpc' = "scan" => i' = i + 1 /\ result' = Scanned(votes_scoreboard[i])
        /\ mpc' = "scan" /\ phase = 1 =>
              votes_scoreboard[i] \in {"vote_yes", "vote_no", "lost"}
    BY <1>4 DEF MScan, ProtocolViolation, sharedVars
  <2>2. i \in Slots /\ Fresh(i)
    BY <1>0, <2>1, ClientCountAssumption DEF Slots, OrderedState, CommitInv, FreshInv
  <2>3. Ballot' = Ballot /\ InPhase
    BY <2>1 DEF Ballot, InPhase, Collecting
  <2>4. ASSUME mpc' = "scan", NEW c \in Conns, Seen(c)'
        PROVE  Seen(c) \/ HostId[c] = i + 1
    BY <1>0, <2>1, <2>4 DEF Seen
  <2>5. ASSUME mpc' = "scan", phase = 1, result' = "request_success",
               NEW c \in Conns, Seen(c)'
        PROVE  Voted(c, Ballot, "yes")'
    <3>1. result = "request_success" /\ votes_scoreboard[i] = "vote_yes"
      BY <2>1, <2>5 DEF Scanned
    <3>2. Voted(c, Ballot, "yes")
      BY <1>0, <2>1, <2>2, <2>4, <2>5, <3>1 DEF ScanInv, Fresh
    <3>. QED
      BY <1>0, <2>3, <3>2, VotesStay
  <2>6. ASSUME mpc' = "scan", phase = 1, result' = "request_fail"
        PROVE  SomeNo(Ballot)'
    <3>1. result = "request_fail" \/ votes_scoreboard[i] = "vote_no"
      BY <2>1, <2>6 DEF Scanned
    <3>2. SomeNo(Ballot)
      BY <1>0, <2>1, <2>2, <2>6, <3>1 DEF ScanInv, Fresh
    <3>. QED
      BY <1>0, <2>3, <3>2, ReasonsStay
  <2>7. ASSUME mpc' = "scan", phase = 2, result' # "cluster_fail", NEW c \in Conns, Seen(c)'
        PROVE  Acked(c)'
    <3>1. result # "cluster_fail" /\ votes_scoreboard[i] = "ack"
      BY <2>1, <2>7 DEF Scanned
    <3>2. Acked(c)
      BY <1>0, <2>1, <2>2, <2>4, <2>7, <3>1 DEF ScanInv, Fresh
    <3>. QED
      BY <2>1, <2>3, <3>2, AckedStays
  <2>. QED
    BY <2>1, <2>3, <2>5, <2>6, <2>7 DEF ScanInv
<1>5. CASE MClear \/ MUnpause
  <2>1. /\ UNCHANGED <<stop_signal, requests, result>>
        /\ mpc \in {"clear", "unpause"} /\ mpc' \in {"clear", "unpause", "report", "reset"}
        /\ mpc' # "reset" => UNCHANGED phase
    BY <1>5 DEF MClear, MUnpause
  <2>2. \A c \in Conns : Seen(c)
    BY <2>1 DEF Seen
  <2>3. CASE mpc' = "reset"
    BY <2>3 DEF ScanInv
  <2>. QED
    BY <1>1, <2>1, <2>2, <2>3
<1>6. CASE MConnect \/ MSpawn \/ MLoop \/ MReset \/ MBroadcast \/ MSend \/ MWrite
           \/ MWriteEfin \/ MWriteDies
  <2>1. mpc' \notin {"scan", "clear", "unpause", "report"}
    BY <1>6 DEF MConnect, MSpawn, MLoop, MReset, AfterReset, MBroadcast, MSend, MWrite,
                MWriteEfin, MWriteDies, Die
  <2>. QED
    BY <2>1 DEF ScanInv
<1>7. CASE MTimeout \/ MSum \/ MReport \/ MCleanup \/ MJoin \/ MSignal
  <2>1. mpc' \notin {"scan", "clear", "unpause", "report"}
    BY <1>7 DEF MTimeout, MSum, MReport, MCleanup, MJoin, MSignal,
                MInterrupted, MInterruptedAgain, MHangs, Die
  <2>. QED
    BY <2>1 DEF ScanInv
<1>8. CASE /\ UNCHANGED <<i, requests, phase, result>>
           /\ mpc' = mpc \/ mpc' = "exited"
           /\ stop_signal => stop_signal'
  <2>1. CASE mpc' \in {"scan", "clear", "unpause", "report"}
    <3>1. mpc' = mpc /\ \A c \in Conns : Seen(c)' => Seen(c)
      BY <1>8, <2>1 DEF Seen
    <3>. QED
      BY <1>1, <1>8, <2>1, <3>1
  <2>2. CASE mpc' \notin {"scan", "clear", "unpause", "report"}
    BY <2>2 DEF ScanInv
  <2>. QED
    BY <2>1, <2>2
<1>. QED
  BY <1>0, <1>2, <1>3, <1>4, <1>5, <1>6, <1>7, <1>8, StepKinds, WorkerMain
  DEF Main, vars, serverVars, sharedVars, mainVars

\* do_phase2 carries out what do_phase1 has concluded.
LEMMA StatusKept ==
    ASSUME OrderedState, [Next]_vars
    PROVE  StatusInv'
<1>0. /\ StatusInv /\ ControlInv /\ TypeInv
      /\ phase \in {1, 2} /\ requests \in Nat /\ stop_signal \in BOOLEAN
  BY DEF OrderedState, CommitInv, TypeInv, TypeOK, MainTypeOK, SharedTypeOK
<1>. USE DEF StatusInv, Preparing, Sending
\* As long as the main thread stays in do_phase2, the reasons stay.
<1>1. ASSUME UNCHANGED <<phase, requests, status>>, stop_signal => stop_signal',
             phase = 2, Preparing \/ Sending,
             mpc' = "write" => ~ stop_signal \/ mpc = "write",
             mpc' # "reset" => status # "cluster_fail"
      PROVE  StatusInv'
  <2>1. Ballot' = Ballot
    BY <1>1 DEF Ballot
  <2>2. /\ status # "none"
        /\ status = "request_fail" => SomeNo(Ballot)'
    BY <1>0, <1>1, <2>1, ReasonsStay
  <2>3. ASSUME status = "request_success", ~ stop_signal' \/ mpc' = "write"
        PROVE  AllYes(Ballot)'
    <3>1. AllYes(Ballot)
      BY <1>0, <1>1, <2>3
    <3>. QED
      BY <1>0, <2>1, <3>1, ReasonsStay
  <2>. QED
    BY <1>1, <2>1, <2>2, <2>3
<1>2. CASE MReset
  <2>1. /\ mpc = "reset" /\ UNCHANGED <<stop_signal, phase, requests, status>>
        /\ mpc' = "reset" \/ mpc' = AfterReset
    BY <1>2 DEF MReset
  <2>2. \/ AfterReset = "cleanup"
        \/ AfterReset \in {"broadcast", "send"} /\ ~ (phase = 2 /\ status = "cluster_fail")
    BY DEF AfterReset
  <2>. QED
    BY <1>0, <1>1, <2>1, <2>2
<1>3. CASE MSend \/ MWrite
  <2>1. /\ Sending /\ UNCHANGED <<stop_signal, phase, requests, status>>
        /\ mpc' \in {"send", "write", "wait"}
        /\ mpc' = "write" => ~ stop_signal
    BY <1>3 DEF MSend, MWrite, sharedVars
  <2>. QED
    BY <1>0, <1>1, <2>1
<1>4. CASE MUnpause
  <2>1. /\ mpc = "unpause" /\ UNCHANGED <<stop_signal, requests>>
        /\ mpc' \in {"reset", "report"}
        /\ mpc' = "reset" => phase = 1 /\ status' = result /\ result \in Phase1Result
    BY <1>0, <1>4 DEF MUnpause, TypeInv, LocalsOK
  <2>2. ASSUME phase = 1
        PROVE  /\ ~ stop_signal /\ result = "request_success" => AllYes(Ballot)
               /\ result = "request_fail" => SomeNo(Ballot)
    BY <2>1, <2>2 DEF OrderedState, CommitInv, ScanInv, Seen, AllYes
  <2>3. Ballot' = Ballot
    BY <2>1 DEF Ballot
  <2>4. ASSUME mpc' = "reset"
        PROVE  /\ status' # "none"
               /\ ~ stop_signal /\ status' = "request_success" => AllYes(Ballot)'
               /\ status' = "request_fail" => SomeNo(Ballot)'
    BY <1>0, <2>1, <2>2, <2>3, <2>4, ReasonsStay DEF Phase1Result
  <2>. QED
    BY <2>1, <2>4
<1>5. CASE MConnect \/ MSpawn \/ MLoop \/ MBroadcast \/ MWriteEfin \/ MWriteDies
           \/ MTimeout \/ MSum \/ MPause
  <2>1. phase' = 1 \/ mpc' \notin {"reset", "broadcast", "send", "write"}
    BY <1>5 DEF MConnect, MSpawn, MLoop, MBroadcast, MWriteEfin, MWriteDies, Die,
                MTimeout, MSum, MPause
  <2>. QED
    BY <2>1
<1>6. CASE MScanEnd \/ MScan \/ MClear \/ MReport \/ MCleanup \/ MJoin \/ MSignal
  <2>1. mpc' \notin {"reset", "broadcast", "send", "write"}
    BY <1>6 DEF MScanEnd, MScan, MClear, MReport, MCleanup, MJoin, MSignal,
                MInterrupted, MInterruptedAgain, MHangs, Die
  <2>. QED
    BY <2>1
<1>7. CASE /\ UNCHANGED <<requests, phase, status>>
           /\ mpc' = mpc \/ mpc' = "exited"
           /\ stop_signal => stop_signal'
  BY <1>0, <1>1, <1>7
<1>. QED
  BY <1>0, <1>2, <1>3, <1>4, <1>5, <1>6, <1>7, StepKinds, WorkerMain
  DEF Main, vars, serverVars, sharedVars, mainVars

-----------------------------------------------------------------------------
(* The invariant holds, and with it everything that the clients may rely on. *)

\* It holds at the start.
LEMMA CommitInit ==
    ASSUME Init
    PROVE  CommitInv
<1>0. /\ mpc = "connect" /\ phase = 1 /\ requests = 0
      /\ log = [c \in Conns |-> <<>>] /\ cpc = [c \in Conns |-> "connect"]
      /\ toServer = [c \in Conns |-> <<>>] /\ toClient = [c \in Conns |-> <<>>]
  BY DEF Init, NetInit, ServerInit, ClientInit
<1>1. \A c \in Conns : /\ log[c] = <<>> /\ toServer[c] = <<>> /\ toClient[c] = <<>>
                       /\ Len(log[c]) = 0 /\ Len(toServer[c]) = 0 /\ Len(toClient[c]) = 0
  BY <1>0
<1>2. ControlInv /\ FreshInv /\ ScanInv /\ StatusInv
  BY <1>0 DEF ControlInv, FreshInv, ScanInv, StatusInv, Preparing, Sending
<1>3. ClientInv /\ HistoryInv /\ AgreedInv
  BY <1>0, <1>1 DEF ClientInv, Alternates, HistoryInv, AgreedInv
<1>4. RoundInv
  <2>1. \A c \in Conns : Stage(c) = 0
    BY <1>0 DEF Stage, Between, Connecting
  <2>2. \A c \in Conns : RoundOf(c, 0)
    BY <1>1, <2>1 DEF RoundOf, Downward, Upward
  <2>3. 0 \in 0 .. requests /\ 0 = 2 * 0 /\ 0 = requests
    BY <1>0
  <2>. QED
    BY <2>2, <2>3 DEF RoundInv
<1>. QED
  BY <1>2, <1>3, <1>4 DEF CommitInv

\* Every step keeps it.
LEMMA OrderedStep ==
    ASSUME OrderedState, [Next]_vars
    PROVE  OrderedState'
<1>1. TypeInv'
  BY TypeStep DEF OrderedState
<1>2. OrderedCluster'
  BY DEF OrderedState, OrderedCluster
<1>3. CommitInv'
  BY RoundKept, ControlKept, ClientKept, HistoryKept, AgreedKept, FreshKept, ScanKept,
     StatusKept DEF CommitInv
<1>. QED
  BY <1>1, <1>2, <1>3 DEF OrderedState

\* So it is an invariant.
LEMMA OrderedInvariant ==
    ASSUME OrderedCluster
    PROVE  Spec => []OrderedState
<1>1. Init => OrderedState
  BY TypeInit, CommitInit DEF OrderedState
<1>2. OrderedState /\ [Next]_vars => OrderedState'
  BY OrderedStep
<1>. QED
  BY <1>1, <1>2, PTL DEF Spec

\* Decisions stand at even positions, cancels with reason, and commits too
\* where HistoryInv says so.
LEMMA Decided ==
    ASSUME OrderedState, NEW c \in Conns, NEW n \in 1 .. Len(log[c])
    PROVE  /\ n % 2 = 0 <=> log[c][n] \in Decisions
           /\ Reasoned(log[c][n], n - 1)
<1>1. n % 2 \in {0, 1}
  BY LogLengths DEF OrderedState
<1>. QED
  BY <1>1 DEF OrderedState, CommitInv, HistoryInv, Decisions

\* Two clients that act on the same request do the same, even if the server
\* is stopped or killed while it tells them (send_request of q2pc_server.c),
\* and even if what it tells them is wrong.
THEOREM ClientsAgree ==
    ASSUME OrderedCluster
    PROVE  Spec => []Agreement
<1>1. ASSUME OrderedState, NEW c \in Conns, NEW d \in Conns,
             NEW n \in 1 .. Least(Len(log[c]), Len(log[d])), log[c][n] \in Decisions
      PROVE  log[d][n] = log[c][n]
  <2>1. Len(log[c]) \in Nat /\ Len(log[d]) \in Nat
    BY <1>1, LogLengths DEF OrderedState
  <2>2. n \in 1 .. Len(log[c]) /\ n <= Len(log[d])
    BY <2>1 DEF Least
  <2>3. n % 2 = 0
    BY <1>1, <2>2, Decided
  <2>. QED
    BY <1>1, <2>2, <2>3 DEF OrderedState, CommitInv, AgreedInv
<1>2. OrderedState => Agreement
  BY <1>1 DEF Agreement
<1>. QED
  BY <1>2, OrderedInvariant, PTL

\* Nobody acts on a cancel that nobody has voted no for (do_phase1 and do_phase2
\* of q2pc_server.c): lost votes, late votes and signals do not pass for one.
THEOREM CancelsValid ==
    ASSUME OrderedCluster
    PROVE  Spec => []CancelValidity
<1>1. OrderedState => CancelValidity
  BY Decided DEF CancelValidity, Reasoned, SomeNo, Voted, AC!Did
<1>. QED
  BY <1>1, OrderedInvariant, PTL

\* Nor on a commit that somebody has not voted yes for, except over Q-Jump, where
\* a server that is stopping broadcasts a commit it has no votes for.
THEOREM CommitsValid ==
    ASSUME OrderedCluster, Transport # "udp_qj"
    PROVE  Spec => []CommitValidity
<1>1. OrderedState => CommitValidity
  BY Decided DEF CommitValidity, Reasoned, Justified, AllYes, Voted, AC!Did
<1>. QED
  BY <1>1, OrderedInvariant, PTL

\* When the server takes up its next request, every client has acted on the
\* decision about the one before, and on nothing else (server_run of
\* q2pc_server.c).
THEOREM RoundsInStep ==
    ASSUME OrderedCluster
    PROVE  Spec => []EveryoneDecided
<1>1. ASSUME OrderedState, mpc = "loop", ~ stop_signal, NEW c \in Conns
      PROVE  Len(log[c]) = 2 * requests
  <2>1. RoundOf(c, 2 * requests) /\ requests \in Nat
    BY <1>1 DEF OrderedState, CommitInv, RoundInv, Between, TypeInv, TypeOK, MainTypeOK
  <2>2. Stage(c) = 0
    BY <1>1 DEF Stage, Between
  <2>. QED
    BY <2>1, <2>2 DEF RoundOf
<1>2. OrderedState => EveryoneDecided
  BY <1>1 DEF EveryoneDecided
<1>. QED
  BY <1>2, OrderedInvariant, PTL

\* What the scan finds on a slot, the client of the slot has said in this phase,
\* and nothing since (q2pc_server_worker.c:98, q2pc_server.c:441).
THEOREM SlotsFresh ==
    ASSUME OrderedCluster
    PROVE  Spec => []FreshSlots
<1>1. ASSUME OrderedState, mpc = "scan", NEW c \in Conns, InRange(HostId[c]),
             votes_scoreboard[HostId[c] - 1] \in
                IF phase = 1 THEN {"vote_yes", "vote_no"} ELSE {"ack"}
      PROVE  /\ Len(log[c]) = Progress
             /\ log[c][Progress] \in Answered[votes_scoreboard[HostId[c] - 1]]
  <2> DEFINE s == HostId[c] - 1
  <2>1. s \in Slots /\ HostId[c] = s + 1
    BY <1>1, HostIdType, ClientCountAssumption DEF InRange, Slots
  <2>2. Fresh(s) /\ InPhase
    BY <1>1, <2>1 DEF OrderedState, CommitInv, FreshInv, InPhase, Collecting
  <2>3. /\ RoundOf(c, 2 * requests) /\ requests \in Nat /\ phase \in {1, 2}
        /\ Stage(c) = phase /\ Len(log[c]) \in Nat
    BY <1>1, <2>2, InThisRound, LogLengths
    DEF OrderedState, Stage, Between, Connecting, Preparing, Sending, Collecting
  <2>4. Progress \in Nat /\ Len(log[c]) <= Progress
    BY <2>3 DEF RoundOf, Progress
  <2>5. CASE phase = 1
    <3>1. Ballot = Progress
      BY <2>5 DEF Ballot, Progress
    <3>2. \/ votes_scoreboard[s] = "vote_yes" /\ Voted(c, Progress, "yes")
          \/ votes_scoreboard[s] = "vote_no" /\ Voted(c, Progress, "no")
      BY <1>1, <2>1, <2>2, <2>5, <3>1 DEF Fresh
    <3>. QED
      BY <2>3, <2>4, <3>2 DEF Voted, Answered
  <2>6. CASE phase = 2
    <3>1. votes_scoreboard[s] = "ack" /\ Acked(c)
      BY <1>1, <2>1, <2>2, <2>6 DEF Fresh
    <3>2. Len(log[c]) = Progress /\ Progress \in 1 .. Len(log[c]) /\ Progress % 2 = 0
      BY <2>3, <2>6, <3>1 DEF Acked, Ballot, Progress
    <3>3. log[c][Progress] \in Decisions
      BY <1>1, <3>2, Decided
    <3>. QED
      BY <3>1, <3>2, <3>3 DEF Answered
  <2>. QED
    BY <2>3, <2>5, <2>6
<1>2. OrderedState => FreshSlots
  BY <1>1 DEF FreshSlots
<1>. QED
  BY <1>2, OrderedInvariant, PTL

-----------------------------------------------------------------------------
(* Refinement. *)

\* A client that votes or acts on a decision takes a step of AtomicCommit, and no
\* other step of the cluster is visible.
LEMMA RefinementStep ==
    ASSUME OrderedState, Transport # "udp_qj", [Next]_vars
    PROVE  [AC!Next]_log
<1>0. TypeInv /\ LogInv
  BY DEF OrderedState, CommitInv, HistoryInv, LogInv, Reasoned
<1>1. ASSUME NEW c \in Conns, NEW e \in LogEntry, Does(c, e), Reasoned(e, Len(log[c])),
             \/ e \in {"yes", "no"} /\ Len(log[c]) % 2 = 0
             \/ e \in Decisions /\ Len(log[c]) % 2 = 1
      PROVE  AC!Next
  <2>1. CASE e \in {"yes", "no"} /\ Len(log[c]) % 2 = 0
    BY <1>1, <2>1 DEF AC!Next, AC!Vote, AC!Votes, Does
  <2>2. CASE e \in Decisions /\ Len(log[c]) % 2 = 1
    <3>1. Justified(e, Len(log[c]))
      BY <1>1 DEF Reasoned
    <3>2. AC!Decide(c, e)
      BY <1>0, <1>1, <2>2, <3>1, Decides
    <3>. QED
      BY <2>2, <3>2 DEF AC!Next, AC!Decisions, Decisions
  <2>. QED
    BY <1>1, <2>1, <2>2
<1>. QED
  BY <1>0, <1>1, LogSteps, Additions

\* A q2pc cluster over TCP, or over UDP that loses datagrams, implements atomic
\* commitment: however many clients and workers it has, however its threads
\* interleave, whatever stops it.
THEOREM Refinement ==
    ASSUME OrderedCluster, Transport # "udp_qj"
    PROVE  Spec => Atomicity
<1>1. Init => AC!Init
  BY DEF Init, ClientInit, AC!Init
<1>2. OrderedState /\ [Next]_vars => [AC!Next]_log
  BY RefinementStep
<1>. QED
  BY <1>1, <1>2, OrderedInvariant, PTL DEF Spec, Atomicity, AC!Spec
=============================================================================
