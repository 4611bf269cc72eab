--------------------------- MODULE MessageStream ----------------------------
(***************************************************************************)
(* What beg_read and end_read of a stream connection promise their caller  *)
(* (q2pc_trans_conn in q2pc_transport.h): the bytes the peer has written,  *)
(* cut into messages of msg_size, one at a time, in order, each once.  A   *)
(* byte is its position in the stream.                                     *)
(***************************************************************************)
EXTENDS Integers

CONSTANTS msg_size,       \* MAX(sizeof(q2pc_msg), --msize)
          MaxBytes        \* bound on what the peer writes

VARIABLES written,        \* bytes the peer has written
          consumed,       \* bytes of the messages that end_read has released
          out             \* the message beg_read has handed out, if any

vars == <<written, consumed, out>>

Nothing == [k \in {} |-> 0]

Init == written = 0 /\ consumed = 0 /\ out = Nothing

Write == /\ \E n \in 1 .. MaxBytes - written : written' = written + n
         /\ UNCHANGED <<consumed, out>>

Hand == /\ DOMAIN out = {}
        /\ consumed + msg_size <= written
        /\ out' = [k \in 0 .. msg_size - 1 |-> consumed + k]
        /\ UNCHANGED <<written, consumed>>

Release == /\ DOMAIN out # {}
           /\ consumed' = consumed + msg_size
           /\ out' = Nothing
           /\ UNCHANGED written

Next == Write \/ Hand \/ Release

Spec == Init /\ [][Next]_vars
=============================================================================
