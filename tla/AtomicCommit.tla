---------------------------- MODULE AtomicCommit ----------------------------
(***************************************************************************)
(* What a q2pc cluster promises as a whole ("a 2-phase commit system",     *)
(* README.md:4), told by its participants alone: each votes on a request,  *)
(* then acts on a decision, and so on.  Threads, sockets, the scoreboard   *)
(* and the server itself are invisible here.                               *)
(***************************************************************************)
EXTENDS Integers, Sequences

CONSTANT Participants

\* log[p] is what participant p has done: a vote at every odd position and
\* the decision it acted on at the even position after it.
VARIABLE log

Votes     == {"yes", "no"}
Decisions == {"commit", "cancel"}

Did(p, n, what) == n <= Len(log[p]) /\ log[p][n] = what

Init == log = [p \in Participants |-> <<>>]

\* A participant votes once it has acted on the decision before.
Vote(p, v) ==
    /\ Len(log[p]) % 2 = 0
    /\ log' = [log EXCEPT ![p] = Append(@, v)]

\* It acts on the decision about the request it voted on last.  Everybody
\* must have voted yes for a commit and somebody no for a cancel, and nobody
\* may have acted on the opposite decision.
Decide(p, d) ==
    LET n == Len(log[p]) IN
    /\ n % 2 = 1
    /\ d = "commit" => \A q \in Participants : Did(q, n, "yes")
    /\ d = "cancel" => \E q \in Participants : Did(q, n, "no")
    /\ \A q \in Participants : n + 1 <= Len(log[q]) => log[q][n + 1] = d
    /\ log' = [log EXCEPT ![p] = Append(@, d)]

Next == \E p \in Participants :
            \/ \E v \in Votes : Vote(p, v)
            \/ \E d \in Decisions : Decide(p, d)

Spec == Init /\ [][Next]_log
=============================================================================
