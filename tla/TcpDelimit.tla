----------------------------- MODULE TcpDelimit -----------------------------
(***************************************************************************)
(* One direction of a tcp_ln connection: the delimiter of                  *)
(* q2pc_trans_tcp.c, which cuts a byte stream into messages.  Q2pcNet      *)
(* takes its channels to be queues of whole messages; this is what makes   *)
(* them so.                                                                *)
(*                                                                         *)
(* A byte is its position in the stream, a pointer into delim_buffer its   *)
(* offset.  The read buffer holds the last bytes read until they are       *)
(* copied, so its contents need no variable.                               *)
(***************************************************************************)
EXTENDS Integers

CONSTANTS msg_size,       \* MAX(sizeof(q2pc_msg), --msize)
          BUFF_SIZE,      \* of the read buffer, and of delim_buffer at first
          MaxBytes        \* bound on what the peer writes

ASSUME SizeAssumption == msg_size \in Nat \ {0} /\ BUFF_SIZE \in Nat
\* The peer's conn_end_write ends the process otherwise.
ASSUME FitAssumption == msg_size <= BUFF_SIZE
ASSUME BytesAssumption == MaxBytes \in Nat

VARIABLES
    written,              \* bytes the peer has written
    nread,                \* bytes read from the socket
    \* q2pc_tcp_conn_priv; read_buffer_used is 0 outside of beg_delimit
    read_buffer_used, delim_buffer, delim_buffer_used, delim_buffer_size,
    delim_result, delim_result_len,
    \* the caller
    holding,              \* it has a message and has not called end_read
    last,                 \* where the message is that it has just released
    consumed              \* bytes of the messages released

inVars  == <<written, nread>>
bufVars == <<delim_buffer, delim_buffer_used, delim_buffer_size>>
resVars == <<delim_result, delim_result_len>>
vars    == <<inVars, read_buffer_used, bufVars, resVars, holding, last, consumed>>

NULL == -1                \* no pointer
Junk == -1                \* a byte of no message
Offsets(size) == 0 .. size - 1

\* Mutant: a message is found only when more follows.
delimitLate(len) == IF len > msg_size THEN msg_size ELSE 0

\* q2pc_server.c.  It does not look at the bytes.
delimit(len) == IF len >= msg_size THEN msg_size ELSE 0

\* The test after each of its calls.
Complete(used) == delimit(used) > 0 /\ delimit(used) <= used

Init ==
    /\ written = 0 /\ nread = 0
    /\ read_buffer_used = 0
    /\ delim_buffer = [k \in Offsets(BUFF_SIZE) |-> Junk]
    /\ delim_buffer_used = 0 /\ delim_buffer_size = BUFF_SIZE
    /\ delim_result = NULL /\ delim_result_len = 0
    /\ holding = FALSE /\ last = NULL /\ consumed = 0

\* The peer's conn_end_write: write() takes as much as it likes, and the loop
\* goes on with the rest, unless the peer dies half way.
Write ==
    /\ \E n \in 1 .. MaxBytes - written : written' = written + n
    /\ UNCHANGED <<nread, read_buffer_used, bufVars, resVars, holding, last,
                   consumed>>

Idle == read_buffer_used = 0
HasResult == delim_result # NULL /\ delim_result_len # 0

\* conn_beg_delimit with a result at hand: the one end_delimit has found, or
\* one that a worker has ignored and not released.
BegResult ==
    /\ Idle /\ HasResult
    /\ holding' = TRUE /\ last' = NULL
    /\ UNCHANGED <<inVars, read_buffer_used, bufVars, resVars, consumed>>

\* conn_beg_read takes up to a buffer full from the socket.
Reads == \E n \in 1 .. BUFF_SIZE :
            /\ n <= written - nread
            /\ nread' = nread + n
            /\ read_buffer_used' = n

\* Mutant: it reads before it looks at what it has.
BegReadEager ==
    /\ Idle
    /\ last' = NULL
    /\ Reads /\ UNCHANGED <<resVars, holding>>
    /\ UNCHANGED <<written, bufVars, consumed>>

\* conn_beg_delimit without one.
BegRead ==
    /\ Idle /\ ~ HasResult
    /\ last' = NULL
    /\ IF Complete(delim_buffer_used)
       THEN /\ delim_result' = 0 /\ delim_result_len' = delimit(delim_buffer_used)
            /\ holding' = TRUE
            /\ UNCHANGED <<nread, read_buffer_used>>
       ELSE Reads /\ UNCHANGED <<resVars, holding>>
    /\ UNCHANGED <<written, bufVars, consumed>>

\* Q2PC_EAGAIN, or Q2PC_EFIN at the end of the stream.
BegNothing ==
    /\ Idle /\ ~ HasResult
    /\ ~ Complete(delim_buffer_used) /\ nread = written
    /\ last' = NULL
    /\ UNCHANGED <<inVars, read_buffer_used, bufVars, resVars, holding, consumed>>

\* Mutant: the room is taken to be one byte more than it is.
TooBigLate == read_buffer_used > delim_buffer_size - delim_buffer_used + 1

TooBig == read_buffer_used > delim_buffer_size - delim_buffer_used

\* One round of its while loop, a realloc.
Grow ==
    /\ TooBig
    /\ delim_buffer_size' = 2 * delim_buffer_size
    /\ delim_buffer' = [k \in Offsets(2 * delim_buffer_size) |->
                            IF k < delim_buffer_size THEN delim_buffer[k] ELSE Junk]
    /\ UNCHANGED <<inVars, read_buffer_used, delim_buffer_used, resVars, holding,
                   last, consumed>>

\* The memcpy, conn_end_read and the last delimit.
Copy ==
    /\ ~ Idle /\ ~ TooBig
    /\ LET used == delim_buffer_used + read_buffer_used IN
       /\ delim_buffer' = [k \in Offsets(delim_buffer_size) |->
                               IF k >= delim_buffer_used /\ k < used
                               THEN nread - used + k ELSE delim_buffer[k]]
       /\ delim_buffer_used' = used
       /\ IF Complete(used)
          THEN delim_result' = 0 /\ delim_result_len' = delimit(used) /\ holding' = TRUE
          ELSE UNCHANGED <<resVars, holding>>
    /\ read_buffer_used' = 0
    /\ UNCHANGED <<inVars, delim_buffer_size, last, consumed>>

\* What conn_end_delimit leaves in the buffer: its case 1, and its case 2.
Left == IF delim_result_len <= delim_buffer_used
        THEN delim_buffer_used - delim_result_len ELSE delim_buffer_used
Next_head == delim_result + delim_result_len

\* memmove of the rest to the front.
MovedUp(used) == [k \in Offsets(delim_buffer_size) |->
                      IF k < used THEN delim_buffer[Next_head + k] ELSE delim_buffer[k]]

Released == /\ holding' = FALSE
            /\ last' = delim_result
            /\ consumed' = consumed + msg_size
            /\ UNCHANGED <<inVars, read_buffer_used, delim_buffer_size>>

\* Mutants: the rest is not moved to the front; it always is; the next message
\* is taken off the buffer as soon as it is found.
EndUnmoved ==
    /\ Idle /\ holding
    /\ delim_buffer_used' = Left
    /\ IF Complete(Left)
       THEN delim_result' = Next_head /\ delim_result_len' = delimit(Left)
       ELSE delim_result' = NULL /\ delim_result_len' = 0
    /\ UNCHANGED delim_buffer
    /\ Released

EndAlwaysMoves ==
    /\ Idle /\ holding
    /\ delim_buffer_used' = Left
    /\ IF Complete(Left)
       THEN delim_result' = 0 /\ delim_result_len' = delimit(Left)
       ELSE delim_result' = NULL /\ delim_result_len' = 0
    /\ delim_buffer' = MovedUp(Left)
    /\ Released

EndTakesNext ==
    /\ Idle /\ holding
    /\ IF Complete(Left)
       THEN /\ delim_result' = Next_head /\ delim_result_len' = delimit(Left)
            /\ delim_buffer_used' = Left - delimit(Left)
            /\ UNCHANGED delim_buffer
       ELSE /\ delim_result' = NULL /\ delim_result_len' = 0
            /\ delim_buffer_used' = Left
            /\ delim_buffer' = MovedUp(Left)
    /\ Released

\* conn_end_delimit: another message in the buffer is the next result where it
\* is; what is left of one makes room.
End ==
    /\ Idle /\ holding
    /\ delim_buffer_used' = Left
    /\ IF Complete(Left)
       THEN /\ delim_result' = Next_head /\ delim_result_len' = delimit(Left)
            /\ UNCHANGED delim_buffer
       ELSE /\ delim_result' = NULL /\ delim_result_len' = 0
            /\ delim_buffer' = MovedUp(Left)
    /\ Released

Next == Write \/ BegResult \/ BegRead \/ BegNothing \/ Grow \/ Copy \/ End

Spec == Init /\ [][Next]_vars

\* The caller polls, and releases what it is handed.  A worker that ignores a
\* message from outside its bounds does not, and never sees another.
Fairness == WF_vars(BegResult \/ BegRead \/ Grow \/ Copy) /\ WF_vars(End)

FairSpec == Spec /\ Fairness

-----------------------------------------------------------------------------

Typed ==
    /\ written \in 0 .. MaxBytes /\ nread \in 0 .. written
    /\ read_buffer_used \in 0 .. BUFF_SIZE
    /\ delim_buffer_size \in Nat
    /\ delim_buffer \in [Offsets(delim_buffer_size) -> Junk .. MaxBytes]
    /\ delim_buffer_used \in 0 .. delim_buffer_size
    /\ delim_result \in NULL .. delim_buffer_size
    /\ delim_result_len \in {0, msg_size}
    /\ holding \in BOOLEAN
    /\ last \in NULL .. delim_buffer_size
    /\ consumed \in Nat

\* Nobody looks beyond the end of the buffer: not at the message handed out, not
\* at what is behind it, not at the one that was released.
WithinBuffer ==
    /\ delim_result # NULL => /\ delim_result + delim_result_len <= delim_buffer_size
                              /\ delim_result + delim_buffer_used <= delim_buffer_size
    /\ last # NULL => last + msg_size <= delim_buffer_size

\* Every variable has its type, and what the buffer holds, the message handed
\* out and the one just released lie within it, from the first byte to the last.
DelimTypeOK == Typed /\ WithinBuffer

\* The caller sees a stream of messages: at data_o are, as long as it holds
\* them, the len_o bytes that are next in the stream, whatever reads and writes
\* cut the stream into and wherever in the buffer they are.
Stream == INSTANCE MessageStream WITH
            out <- [k \in (IF holding THEN 0 .. msg_size - 1 ELSE {}) |->
                        delim_buffer[delim_result + k]]

InOrder == Stream!Spec

\* "I can't see a reason why this case would ever trigger [...] something must
\* trigger it" (q2pc_trans_tcp.c:201): nothing does.  Every result, and not only
\* a newly read one (the comment at line 158), is counted in what the buffer
\* holds.
NoCaseTwo == delim_result # NULL => delim_result_len <= delim_buffer_used

\* Nothing is ever read while a whole message is waiting, so the buffer doubles
\* (q2pc_trans_tcp.c:121) once at most, however far the peer is ahead.
Bounded == delim_buffer_size <= 2 * BUFF_SIZE

\* How much of a released message the memmove of what came behind it has
\* overwritten: nothing if that is another whole message, or if it was not at
\* the front.
Torn == IF delim_result = NULL /\ last = 0 THEN delim_buffer_used ELSE 0

\* Both users look at a message after they have released it: get_messge returns
\* it after its end_read (q2pc_client.c:134), a worker takes its statistics from
\* it (q2pc_server_worker.c:120).  Until the next beg_read every byte of it is
\* its own, or that of the next message: when it was at the front of the buffer
\* and part of that one has come behind it (q2pc_trans_tcp.c:198).
AfterRelease ==
    last # NULL =>
        \A k \in 0 .. msg_size - 1 :
            delim_buffer[last + k] = IF k < Torn THEN consumed + k
                                     ELSE consumed - msg_size + k

\* Every message that has been written is released in the end, the last one too.
Delivered ==
    \A n \in 1 .. MaxBytes \div msg_size :
        written >= n * msg_size ~> consumed >= n * msg_size
=============================================================================
