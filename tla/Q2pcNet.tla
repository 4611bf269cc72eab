------------------------------- MODULE Q2pcNet -------------------------------
(***************************************************************************)
(* The sockets between the server and its clients, for the three           *)
(* transports whose connections keep no protocol state of their own:       *)
(* q2pc_trans_tcp.c, q2pc_trans_udp.c and q2pc_trans_qj.c.  A connection   *)
(* is one queue of messages in each direction.  Framing, addresses and     *)
(* buffer sizes are abstracted; what each transport reports when its peer  *)
(* is gone, and what its network may do to a message, are kept.            *)
(*                                                                         *)
(* A message is its q2pc_msg_type_t.  The src_hostid field is a function   *)
(* of the connection (HostId) and the statistics fields are left out.      *)
(***************************************************************************)
EXTENDS Integers, Sequences, FiniteSets

CONSTANTS client_count,   \* connections of the server, numbered from 0
          ClientId,       \* the id of the client at the end of each connection
          Transport,      \* "tcp_ln", "udp_ln" or "udp_qj"
          FaultKinds,     \* what a UDP network does: "lose", "dup", "reorder"
          MaxFaults       \* bound on how often it does it

Conns == 0 .. client_count - 1

ASSUME ClientCountAssumption == client_count \in Nat \ {0}
ASSUME ClientIdAssumption == ClientId \in [Conns -> Nat]
ASSUME TransportAssumption == Transport \in {"tcp_ln", "udp_ln", "udp_qj"}
ASSUME FaultsAssumption == /\ FaultKinds \subseteq {"lose", "dup", "reorder"}
                           /\ MaxFaults \in Nat

\* src_hostid has 16 bits, the id of the command line 64.
HostId == [c \in Conns |-> ((ClientId[c] + 32768) % 65536) - 32768]

VARIABLES toServer,       \* messages a client has written, server unread
          toClient,       \* messages the server has written, client unread
          gone,           \* connections whose client process has exited
          closed,         \* connections the server has deleted
          peers,          \* UDP: connections whose peer address is known
          faults          \* how often the network has misbehaved

netVars == <<toServer, toClient, gone, closed, peers, faults>>

MsgType == {"request", "vote_yes", "vote_no", "commit", "cancel", "ack", "con"}

NetInit == /\ toServer = [c \in Conns |-> <<>>]
           /\ toClient = [c \in Conns |-> <<>>]
           /\ gone     = {}
           /\ closed   = {}
           /\ peers    = {}
           /\ faults   = 0

-----------------------------------------------------------------------------
(* What the two sides do to the network. *)

\* The receive buffers of closed datagram sockets go with them.  Unread bytes
\* of a TCP stream stay: they are what makes the kernel reset the stream.
Dropped(ch, S) == [c \in Conns |->
                      IF c \in S /\ Transport # "tcp_ln" THEN <<>> ELSE ch[c]]

\* conn->delete on the server side, or the exit of its process.
Close(S) == /\ closed'   = closed \cup S
            /\ toServer' = Dropped(toServer, S)

\* The exit of a client's process.
Exit(c) == /\ gone'     = gone \cup {c}
           /\ toClient' = Dropped(toClient, {c})

\* A message put on one connection, and one broadcast to whoever still listens.
Sent(ch, c, m) == [ch EXCEPT ![c] = Append(@, m)]
Broadcast(m)   == [c \in Conns |-> IF c \in gone THEN toClient[c]
                                                 ELSE Append(toClient[c], m)]

-----------------------------------------------------------------------------
(* What a read or a write on the server side reports once the client is     *)
(* gone.                                                                     *)

\* beg_read returns Q2PC_EFIN: end of the TCP stream, or the ECONNREFUSED that
\* answers a datagram sent to a closed port.
ReadsEfin(c) == /\ c \in gone
                /\ \/ Transport = "tcp_ln" /\ toServer[c] = <<>>
                   \/ Transport = "udp_ln" /\ toClient[c] # <<>>

\* TCP: a client that exits with unread data resets the stream, and
\* conn_beg_read takes ECONNRESET for fatal.
ReadsReset(c) == /\ c \in gone /\ Transport = "tcp_ln"
                 /\ toServer[c] = <<>> /\ toClient[c] # <<>>

\* end_write returns Q2PC_EFIN: a reset stream, a datagram refused before, or
\* a UDP socket that was never connected to a peer.
WritesEfin(c) == \/ Transport = "tcp_ln" /\ c \in gone
                 \/ ReadsEfin(c)
                 \/ Transport = "udp_ln" /\ c \notin peers

\* The second write to a stream whose peer is gone raises SIGPIPE.
WritesSigpipe(c) == Transport = "tcp_ln" /\ c \in gone

(* The same for a client whose server has closed the connection. *)
ClientSeesEfin(c) ==
    /\ c \in closed
    /\ CASE Transport = "tcp_ln" -> toClient[c] = <<>> \/ toServer[c] # <<>>
         [] Transport = "udp_ln" -> toServer[c] # <<>>
         [] Transport = "udp_qj" -> toServer[c] # <<>> /\ toClient[c] # <<>>

-----------------------------------------------------------------------------
(* What an unreliable network does to the message at position k. *)

RemoveAt(s, k) == SubSeq(s, 1, k - 1) \o SubSeq(s, k + 1, Len(s))

Disturbed(kind, s, k) ==
    CASE kind = "lose"    -> RemoveAt(s, k)
      [] kind = "dup"     -> Append(s, s[k])
      [] kind = "reorder" -> Append(RemoveAt(s, k), s[k])

NetFault ==
    /\ Transport = "udp_ln"
    /\ faults < MaxFaults
    /\ \E kind \in FaultKinds, c \in Conns :
          \/ /\ \E k \in DOMAIN toServer[c] :
                   toServer' = [toServer EXCEPT ![c] = Disturbed(kind, @, k)]
             /\ UNCHANGED toClient
          \/ /\ \E k \in DOMAIN toClient[c] :
                   toClient' = [toClient EXCEPT ![c] = Disturbed(kind, @, k)]
             /\ UNCHANGED toServer
    /\ faults' = faults + 1
    /\ UNCHANGED <<gone, closed, peers>>
=============================================================================
