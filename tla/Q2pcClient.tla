----------------------------- MODULE Q2pcClient -----------------------------
(***************************************************************************)
(* The client processes of q2pc_client.c, one per connection: each         *)
(* announces itself, then alternates between voting on a request and       *)
(* acknowledging a decision, and exits at the first thing that goes wrong. *)
(* A client has one thread; it takes a message, decides and answers in one *)
(* step.                                                                   *)
(***************************************************************************)
EXTENDS Q2pcNet

CONSTANTS VotePeriod,     \* one vote in so many is a no (5 in the code)
          ClientTimeouts, \* --wait is not negative on the clients
          Killable        \* connections whose client may be killed

ASSUME VotePeriodAssumption == VotePeriod \in Nat \ {0}
ASSUME ClientSwitchesAssumption == /\ ClientTimeouts \in BOOLEAN
                                   /\ Killable \subseteq Conns

VARIABLES cpc,            \* where each client is
          vote_count,
          log             \* history: what each client has done so far

clientVars == <<cpc, vote_count, log>>

ClientInit == /\ cpc = [c \in Conns |-> "connect"]
              /\ vote_count = [c \in Conns |-> ClientId[c]]
              /\ log = [c \in Conns |-> <<>>]

Decisions == {"commit", "cancel"}

\* The tail of init.
ClientConnect(c) ==
    /\ c \notin gone /\ cpc[c] = "connect"
    /\ toServer' = Sent(toServer, c, "con")
    /\ cpc' = [cpc EXCEPT ![c] = "phase1"]
    /\ UNCHANGED <<toClient, gone, closed, peers, faults, vote_count, log>>

\* get_messge returns a pointer to a message that it has already released.  Over
\* TCP the end_read may have moved the beginning of the next message over it
\* (AfterRelease of TcpDelimit), so the type that is found there is that of
\* either; a datagram stays where it is.
Shown(c) == {toClient[c][n] : n \in DOMAIN toClient[c] \cap
                                     (IF Transport = "tcp_ln" THEN {1, 2} ELSE {1})}

\* A client takes a message and answers it (get_messge, send_response).
Answer(c, m) == /\ toClient' = [toClient EXCEPT ![c] = Tail(@)]
                /\ toServer' = Sent(toServer, c, m)

VotesYes(c) == vote_count[c] % VotePeriod # 0

ClientPhase1(c) ==
    /\ c \notin gone /\ cpc[c] = "phase1"
    /\ "request" \in Shown(c)
    /\ Answer(c, IF VotesYes(c) THEN "vote_yes" ELSE "vote_no")
    /\ log' = [log EXCEPT ![c] = Append(@, IF VotesYes(c) THEN "yes" ELSE "no")]
    /\ vote_count' = [vote_count EXCEPT ![c] = @ + 1]
    /\ cpc' = [cpc EXCEPT ![c] = "phase2"]
    /\ UNCHANGED <<gone, closed, peers, faults>>

ClientPhase2(c) ==
    /\ c \notin gone /\ cpc[c] = "phase2"
    /\ \E d \in Shown(c) \cap Decisions : log' = [log EXCEPT ![c] = Append(@, d)]
    /\ Answer(c, "ack")
    /\ cpc' = [cpc EXCEPT ![c] = "phase1"]
    /\ UNCHANGED <<gone, closed, peers, faults, vote_count>>

Expected(c) == IF cpc[c] = "phase1" THEN {"request"} ELSE Decisions

\* A message of the other phase is a protocol failure.
ClientProtocolFailure(c) ==
    /\ c \notin gone /\ cpc[c] # "connect"
    /\ ~ Shown(c) \subseteq Expected(c)
    /\ Exit(c)
    /\ UNCHANGED <<toServer, closed, peers, faults, clientVars>>

\* Mutant: a client that has waited too long presumes the request cancelled.
ClientTimeoutCancels(c) ==
    /\ ClientTimeouts
    /\ c \notin gone /\ cpc[c] = "phase2"
    /\ toClient[c] = <<>>
    /\ log' = [log EXCEPT ![c] = Append(@, "cancel")]
    /\ cpc' = [cpc EXCEPT ![c] = "phase1"]
    /\ UNCHANGED <<netVars, vote_count>>

\* Only the second phase has a timeout, tested when a read finds nothing.
ClientTimeout(c) ==
    /\ ClientTimeouts
    /\ c \notin gone /\ cpc[c] = "phase2"
    /\ toClient[c] = <<>>
    /\ Exit(c)
    /\ UNCHANGED <<toServer, closed, peers, faults, clientVars>>

\* Mutant: only a client that waits for a decision notices.
ClientEfinPhase2(c) ==
    /\ c \notin gone /\ cpc[c] = "phase2"
    /\ ClientSeesEfin(c)
    /\ Exit(c)
    /\ UNCHANGED <<toServer, closed, peers, faults, clientVars>>

\* A read or a write finds the server gone.
ClientEfin(c) ==
    /\ c \notin gone
    /\ ClientSeesEfin(c)
    /\ Exit(c)
    /\ UNCHANGED <<toServer, closed, peers, faults, clientVars>>

ClientKill(c) ==
    /\ c \in Killable /\ c \notin gone
    /\ Exit(c)
    /\ UNCHANGED <<toServer, closed, peers, faults, clientVars>>

Client(c) == \/ ClientConnect(c) \/ ClientPhase1(c) \/ ClientPhase2(c)
             \/ ClientProtocolFailure(c) \/ ClientTimeout(c) \/ ClientEfin(c)
=============================================================================
