------------------------------- MODULE MCQ2pc -------------------------------
(***************************************************************************)
(* Small clusters for TLC.                                                 *)
(***************************************************************************)
EXTENDS Q2pc, TLC

\* Two clients that connected in the order opposite to their ids, as accept may
\* well have it; and the order that the datagram ports force.
IdsSwapped == 0 :> 2 @@ 1 :> 1
IdsInOrder == 0 :> 1 @@ 1 :> 2

\* Three clients and two threads: the first thread serves two of them.
IdsThree == 0 :> 3 @@ 1 :> 1 @@ 2 :> 2

\* The second client was started with an id beyond the server's bounds, and
\* 65539 is 3 by the time a worker reads it.
IdsOutOfRange == 0 :> 1 @@ 1 :> 65539
=============================================================================
