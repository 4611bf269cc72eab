--------------------------- MODULE TcpDelimitProof ---------------------------
(***************************************************************************)
(* The delimiter of tcp_ln is right for every message size, every buffer   *)
(* that holds a message, and every way to cut the stream into reads.       *)
(***************************************************************************)
EXTENDS TcpDelimit, TLAPS

\* Where the next byte to release is in the buffer.
Front == IF delim_result = NULL THEN 0 ELSE delim_result

\* The buffer holds, from there on, what has been read and not released.
InBuffer ==
    /\ Front + delim_buffer_used <= delim_buffer_size
    /\ nread = consumed + delim_buffer_used + read_buffer_used
    /\ \A k \in Offsets(delim_buffer_used) : delim_buffer[Front + k] = consumed + k

\* There is a result exactly when the buffer holds a message.
Found ==
    /\ delim_result # NULL => delim_result_len = msg_size /\ msg_size <= delim_buffer_used
    /\ delim_result = NULL => delim_result_len = 0 /\ delim_buffer_used < msg_size

\* What the caller may do when.
Turns ==
    /\ holding => delim_result # NULL
    /\ read_buffer_used > 0 => delim_result = NULL /\ last = NULL
    /\ last # NULL => ~ holding /\ last + msg_size <= delim_buffer_size
    /\ delim_result \in {NULL, 0} \/ delim_result >= msg_size

Doubled == delim_buffer_size \in {BUFF_SIZE, 2 * BUFF_SIZE}

DelimInv == Typed /\ InBuffer /\ Found /\ Turns /\ Doubled /\ AfterRelease

LEMMA DelimitIs ==
    \A used \in Nat : Complete(used) <=> used >= msg_size
  BY SizeAssumption DEF Complete, delimit

LEMMA DelimInit == Init => DelimInv
<1>. SUFFICES ASSUME Init PROVE DelimInv
  OBVIOUS
<1>. USE SizeAssumption, FitAssumption, BytesAssumption DEF Init, NULL
<1>1. Typed
  <2>1. delim_buffer \in [Offsets(delim_buffer_size) -> Junk .. MaxBytes]
    BY DEF Junk
  <2>2. delim_result \in NULL .. delim_buffer_size /\ last \in NULL .. delim_buffer_size
    OBVIOUS
  <2>3. delim_result_len \in {0, msg_size} /\ holding \in BOOLEAN
    OBVIOUS
  <2>. QED
    BY <2>1, <2>2, <2>3 DEF Typed
<1>2. InBuffer
  BY DEF InBuffer, Front, Offsets
<1>3. Found /\ Turns /\ Doubled /\ AfterRelease
  BY DEF Found, Turns, Doubled, AfterRelease, Torn
<1>. QED
  BY <1>1, <1>2, <1>3 DEF DelimInv

LEMMA DelimWrite == DelimInv /\ Write => DelimInv'
  BY BytesAssumption
  DEF Write, DelimInv, Typed, InBuffer, Found, Turns, Doubled, AfterRelease, Torn, Front,
      Offsets, NULL, Junk, bufVars, resVars

LEMMA DelimBegResult == DelimInv /\ BegResult => DelimInv'
  BY DEF BegResult, Idle, HasResult, DelimInv, Typed, InBuffer, Found, Turns,
         Doubled, AfterRelease, Torn, Front, inVars, bufVars, resVars, NULL

\* The branch that finds a message in the buffer is never taken: end_delimit
\* and the tail of beg_delimit have already found it.
LEMMA DelimBegRead ==
    ASSUME DelimInv, BegRead
    PROVE  /\ DelimInv'
           /\ UNCHANGED <<resVars, holding>>
<1>1. delim_result = NULL /\ ~ Complete(delim_buffer_used)
  BY SizeAssumption, DelimitIs DEF DelimInv, Typed, Found, BegRead, HasResult
<1>2. Reads /\ UNCHANGED <<resVars, holding>>
  BY <1>1 DEF BegRead
<1>3. PICK n \in 1 .. BUFF_SIZE :
         n <= written - nread /\ nread' = nread + n /\ read_buffer_used' = n
  BY <1>2 DEF Reads
<1>4. Typed'
  BY <1>2, <1>3, SizeAssumption
  DEF BegRead, DelimInv, Typed, bufVars, resVars, NULL
<1>5. InBuffer'
  BY <1>2, <1>3, SizeAssumption
  DEF BegRead, Idle, DelimInv, Typed, InBuffer, Front, bufVars, resVars
<1>6. Found' /\ Turns' /\ Doubled' /\ AfterRelease'
  BY <1>1, <1>2, <1>3
  DEF BegRead, DelimInv, Found, Turns, Doubled, AfterRelease, Torn, bufVars, resVars
<1>. QED
  BY <1>2, <1>4, <1>5, <1>6 DEF DelimInv

LEMMA DelimBegNothing == DelimInv /\ BegNothing => DelimInv'
  BY DEF BegNothing, DelimInv, Typed, InBuffer, Found, Turns, Doubled, AfterRelease, Torn,
         Front, inVars, bufVars, resVars, NULL

\* It grows only from its first size: what is left of a message and a buffer
\* full fit into twice of it.
LEMMA DelimGrow ==
    ASSUME DelimInv, Grow
    PROVE  DelimInv'
<1>1. delim_result = NULL /\ last = NULL /\ ~ holding
  BY DEF Grow, TooBig, DelimInv, Typed, Turns
<1>2. delim_buffer_used < msg_size
  BY <1>1 DEF DelimInv, Found
<1>3. delim_buffer_size = BUFF_SIZE
  BY <1>2, SizeAssumption, FitAssumption
  DEF Grow, TooBig, DelimInv, Typed, Doubled
<1>4. delim_buffer' \in [Offsets(delim_buffer_size') -> Junk .. MaxBytes]
  BY SizeAssumption, BytesAssumption DEF Grow, DelimInv, Typed, Offsets, Junk
<1>5. \A k \in Offsets(delim_buffer_size) : delim_buffer'[k] = delim_buffer[k]
  BY SizeAssumption DEF Grow, DelimInv, Typed, Offsets
<1>6. Typed'
  BY <1>1, <1>4 DEF Grow, DelimInv, Typed, inVars, resVars, NULL
<1>7. InBuffer'
  BY <1>1, <1>5
  DEF Grow, DelimInv, Typed, InBuffer, Front, Offsets, inVars, resVars
<1>8. Found' /\ Turns' /\ AfterRelease'
  BY <1>1 DEF Grow, DelimInv, Found, Turns, AfterRelease, inVars, resVars
<1>9. Doubled'
  BY <1>3 DEF Grow, Doubled
<1>. QED
  BY <1>6, <1>7, <1>8, <1>9 DEF DelimInv

LEMMA DelimCopy ==
    ASSUME DelimInv, Copy
    PROVE  /\ DelimInv'
           /\ ~ holding
           /\ holding' => delim_result' = 0
<1>. DEFINE used == delim_buffer_used + read_buffer_used
<1>1. delim_result = NULL /\ last = NULL /\ ~ holding
  BY DEF Copy, Idle, DelimInv, Typed, Turns
<1>2. used \in 0 .. delim_buffer_size /\ nread = consumed + used
  BY DEF Copy, TooBig, DelimInv, Typed, InBuffer
<1>3. \A k \in Offsets(delim_buffer_size) :
         delim_buffer'[k] = IF k >= delim_buffer_used /\ k < used
                            THEN nread - used + k ELSE delim_buffer[k]
  BY DEF Copy
<1>4. \A k \in Offsets(used) : delim_buffer'[k] = consumed + k
  <2>. SUFFICES ASSUME NEW k \in Offsets(used)
                PROVE  delim_buffer'[k] = consumed + k
    OBVIOUS
  <2>1. k \in Offsets(delim_buffer_size)
    BY <1>2 DEF Offsets, DelimInv, Typed
  <2>2. CASE k < delim_buffer_used
    BY <1>1, <1>3, <2>1, <2>2 DEF DelimInv, Typed, InBuffer, Front, Offsets
  <2>3. CASE k >= delim_buffer_used
    BY <1>2, <1>3, <2>1, <2>3 DEF DelimInv, Typed, Offsets
  <2>. QED
    BY <2>1, <2>2, <2>3 DEF DelimInv, Typed, Offsets
<1>5. delim_buffer' \in [Offsets(delim_buffer_size) -> Junk .. MaxBytes]
  <2>. SUFFICES ASSUME NEW k \in Offsets(delim_buffer_size)
                PROVE  delim_buffer'[k] \in Junk .. MaxBytes
    BY DEF Copy
  <2>1. CASE k < used
    BY <1>2, <1>4, <2>1, BytesAssumption DEF DelimInv, Typed, Offsets, Junk
  <2>2. CASE ~ (k < used)
    BY <1>3, <2>2 DEF DelimInv, Typed
  <2>. QED
    BY <2>1, <2>2
<1>6. /\ delim_buffer_used' = used
      /\ read_buffer_used' = 0
      /\ UNCHANGED <<inVars, delim_buffer_size, last, consumed>>
  BY DEF Copy
<1>7. \/ /\ used >= msg_size
         /\ delim_result' = 0 /\ delim_result_len' = msg_size /\ holding' = TRUE
      \/ used < msg_size /\ UNCHANGED <<resVars, holding>>
  BY <1>2, SizeAssumption, DelimitIs DEF Copy, delimit, DelimInv, Typed
<1>8. Typed'
  <2>1. delim_result' \in NULL .. delim_buffer_size
    BY <1>7 DEF DelimInv, Typed, resVars, NULL
  <2>2. delim_result_len' \in {0, msg_size}
    BY <1>7 DEF DelimInv, Typed, resVars
  <2>3. holding' \in BOOLEAN
    BY <1>7 DEF DelimInv, Typed
  <2>. QED
    BY <1>2, <1>5, <1>6, <2>1, <2>2, <2>3, SizeAssumption
    DEF DelimInv, Typed, inVars
<1>9. InBuffer'
  <2>1. Front = 0 /\ Front' = 0
    BY <1>1, <1>7 DEF Front, resVars
  <2>. QED
    BY <1>2, <1>4, <1>6, <2>1 DEF DelimInv, Typed, InBuffer, Offsets, inVars
<1>10. Found' /\ Turns' /\ AfterRelease'
  BY <1>1, <1>2, <1>6, <1>7 DEF DelimInv, Found, Turns, AfterRelease, resVars, NULL
<1>11. Doubled'
  BY <1>6 DEF DelimInv, Doubled
<1>. QED
  BY <1>1, <1>7, <1>8, <1>9, <1>10, <1>11 DEF DelimInv, resVars

\* conn_end_delimit, in both of its outcomes.
LEMMA DelimEnd ==
    ASSUME DelimInv, End
    PROVE  DelimInv'
<1>. DEFINE used == delim_buffer_used - msg_size
<1>1. /\ delim_result # NULL /\ delim_result_len = msg_size
      /\ delim_buffer_used >= msg_size
      /\ delim_result \in Nat /\ delim_result <= delim_buffer_size
  BY DEF End, DelimInv, Typed, Turns, Found, NULL
<1>2. Left = used /\ used \in Nat /\ Next_head = delim_result + msg_size
  BY <1>1, SizeAssumption DEF Left, Next_head, DelimInv, Typed
<1>3. /\ delim_buffer_used' = used
      /\ holding' = FALSE /\ last' = delim_result /\ consumed' = consumed + msg_size
      /\ read_buffer_used = 0
      /\ UNCHANGED <<inVars, read_buffer_used, delim_buffer_size>>
  BY <1>2 DEF End, Released, Idle
<1>4. \A k \in Offsets(msg_size) : delim_buffer[delim_result + k] = consumed + k
  BY <1>1, SizeAssumption DEF DelimInv, Typed, InBuffer, Front, Offsets
<1>5. \A k \in Offsets(used) :
         /\ Next_head + k \in Offsets(delim_buffer_size)
         /\ delim_buffer[Next_head + k] = consumed' + k
  <2>. SUFFICES ASSUME NEW k \in Offsets(used)
                PROVE  /\ Next_head + k \in Offsets(delim_buffer_size)
                       /\ delim_buffer[Next_head + k] = consumed' + k
    OBVIOUS
  <2>1. /\ msg_size + k \in Offsets(delim_buffer_used)
        /\ Next_head + k = delim_result + (msg_size + k)
        /\ consumed' + k = consumed + (msg_size + k)
    BY <1>1, <1>2, <1>3, SizeAssumption DEF Offsets, DelimInv, Typed
  <2>2. delim_buffer[delim_result + (msg_size + k)] = consumed + (msg_size + k)
    BY <1>1, <2>1 DEF DelimInv, InBuffer, Front
  <2>3. Next_head + k \in Offsets(delim_buffer_size)
    BY <1>1, <1>2, <2>1, SizeAssumption
    DEF DelimInv, Typed, InBuffer, Front, Offsets
  <2>. QED
    BY <2>1, <2>2, <2>3
<1>6. CASE used >= msg_size
  <2>1. /\ delim_result' = Next_head /\ delim_result_len' = msg_size
        /\ delim_buffer' = delim_buffer
    BY <1>2, <1>6, DelimitIs, SizeAssumption DEF End, delimit
  <2>2. Typed'
    <3>1. delim_result' \in NULL .. delim_buffer_size
      BY <1>1, <1>2, <2>1, SizeAssumption
      DEF DelimInv, Typed, InBuffer, Front, NULL
    <3>2. used \in 0 .. delim_buffer_size /\ consumed + msg_size \in Nat
      BY <1>1, <1>2, SizeAssumption DEF DelimInv, Typed
    <3>. QED
      BY <1>3, <2>1, <3>1, <3>2 DEF DelimInv, Typed, inVars
  <2>3. InBuffer'
    <3>1. Front' = Next_head /\ Front = delim_result
      BY <1>1, <1>2, <2>1, SizeAssumption DEF Front, NULL
    <3>2. /\ Next_head + used <= delim_buffer_size
          /\ nread = (consumed + msg_size) + used + read_buffer_used
      BY <1>1, <1>2, <3>1, SizeAssumption DEF DelimInv, Typed, InBuffer
    <3>. QED
      BY <1>3, <1>5, <2>1, <3>1, <3>2 DEF InBuffer, inVars
  <2>4. Found' /\ Turns' /\ Doubled'
    <3>1. /\ delim_result' \in Nat \ {0} /\ delim_result' >= msg_size
          /\ delim_result + msg_size <= delim_buffer_size
      BY <1>1, <1>2, <2>1, SizeAssumption DEF DelimInv, Typed, InBuffer, Front
    <3>2. Turns'
      BY <1>3, <3>1 DEF Turns
    <3>. QED
      BY <1>1, <1>2, <1>3, <1>6, <2>1, <3>1, <3>2, SizeAssumption
      DEF DelimInv, Found, Doubled, NULL
  <2>5. AfterRelease'
    <3>1. Torn' = 0
      BY <1>1, <1>2, <2>1, SizeAssumption DEF Torn, NULL
    <3>. SUFFICES ASSUME NEW k \in 0 .. msg_size - 1
                  PROVE  delim_buffer'[delim_result + k] = consumed' - msg_size + k
      BY <1>3, <3>1 DEF AfterRelease
    <3>2. delim_buffer[delim_result + k] = consumed + k
      BY <1>4 DEF Offsets
    <3>. QED
      BY <1>3, <2>1, <3>2, SizeAssumption DEF DelimInv, Typed
  <2>. QED
    BY <2>2, <2>3, <2>4, <2>5 DEF DelimInv
<1>7. CASE used < msg_size
  <2>1. /\ delim_result' = NULL /\ delim_result_len' = 0
        /\ delim_buffer' = MovedUp(used)
    BY <1>2, <1>7, DelimitIs, SizeAssumption DEF End
  <2>2. \A k \in Offsets(delim_buffer_size) :
           delim_buffer'[k] = IF k < used THEN delim_buffer[Next_head + k]
                                          ELSE delim_buffer[k]
    BY <2>1 DEF MovedUp
  <2>3. delim_buffer' \in [Offsets(delim_buffer_size) -> Junk .. MaxBytes]
    <3>. SUFFICES ASSUME NEW k \in Offsets(delim_buffer_size)
                  PROVE  delim_buffer'[k] \in Junk .. MaxBytes
      BY <2>1 DEF MovedUp
    <3>1. CASE k < used
      <4>1. k \in Offsets(used)
        BY <1>2, <3>1 DEF Offsets
      <4>. QED
        BY <1>5, <2>2, <3>1, <4>1 DEF DelimInv, Typed
    <3>2. CASE ~ (k < used)
      BY <2>2, <3>2 DEF DelimInv, Typed
    <3>. QED
      BY <3>1, <3>2
  <2>4. Typed'
    <3>1. used \in 0 .. delim_buffer_size /\ consumed + msg_size \in Nat
      BY <1>1, <1>2, SizeAssumption DEF DelimInv, Typed
    <3>2. delim_result' \in NULL .. delim_buffer_size /\ last' \in NULL .. delim_buffer_size
      BY <1>1, <1>3, <2>1 DEF DelimInv, Typed, NULL
    <3>. QED
      BY <1>3, <2>1, <2>3, <3>1, <3>2 DEF DelimInv, Typed, inVars
  <2>5. InBuffer'
    <3>1. \A k \in Offsets(used) : delim_buffer'[k] = consumed' + k
      <4>. SUFFICES ASSUME NEW k \in Offsets(used)
                    PROVE  delim_buffer'[k] = consumed' + k
        OBVIOUS
      <4>1. k \in Offsets(delim_buffer_size) /\ k < used
        BY <1>1, <1>2, SizeAssumption DEF Offsets, DelimInv, Typed
      <4>. QED
        BY <1>5, <2>2, <4>1
    <3>. QED
      BY <1>1, <1>2, <1>3, <2>1, <3>1, SizeAssumption
      DEF DelimInv, Typed, InBuffer, Front, Offsets, inVars, NULL
  <2>6. Found' /\ Turns' /\ Doubled'
    <3>1. delim_result + msg_size <= delim_buffer_size
      BY <1>1, SizeAssumption DEF DelimInv, Typed, InBuffer, Front
    <3>. QED
      BY <1>3, <1>7, <2>1, <3>1 DEF DelimInv, Found, Turns, Doubled, NULL
  <2>7. AfterRelease'
    <3>1. Torn' = IF delim_result = 0 THEN used ELSE 0
      BY <1>3, <2>1 DEF Torn
    <3>. SUFFICES ASSUME NEW k \in 0 .. msg_size - 1
                  PROVE  delim_buffer'[delim_result + k] =
                             IF k < Torn' THEN consumed' + k
                                          ELSE consumed' - msg_size + k
      BY <1>3 DEF AfterRelease
    <3>2. delim_result + k \in Offsets(delim_buffer_size)
      BY <1>1, SizeAssumption DEF DelimInv, Typed, InBuffer, Front, Offsets
    <3>3. delim_result = 0 \/ delim_result >= msg_size
      BY <1>1 DEF DelimInv, Turns
    <3>4. CASE k < Torn'
      <4>1. delim_result + k = k /\ k < used /\ k \in Offsets(used)
        BY <1>2, <3>1, <3>4 DEF Offsets
      <4>. QED
        BY <1>5, <2>2, <3>2, <3>4, <4>1
    <3>5. CASE ~ (k < Torn')
      <4>1. ~ (delim_result + k < used)
        BY <1>1, <1>2, <1>7, <3>1, <3>3, <3>5, SizeAssumption
      <4>2. delim_buffer'[delim_result + k] = consumed + k
        BY <1>4, <2>2, <3>2, <4>1 DEF Offsets
      <4>. QED
        BY <1>3, <3>5, <4>2, SizeAssumption DEF DelimInv, Typed
    <3>. QED
      BY <3>4, <3>5
  <2>. QED
    BY <2>4, <2>5, <2>6, <2>7 DEF DelimInv
<1>. QED
  BY <1>2, <1>6, <1>7, SizeAssumption

LEMMA DelimStutter == DelimInv /\ UNCHANGED vars => DelimInv'
  BY DEF vars, inVars, bufVars, resVars, DelimInv, Typed, InBuffer, Found, Turns,
         Doubled, AfterRelease, Torn, Front

LEMMA DelimStep == DelimInv /\ [Next]_vars => DelimInv'
  BY DelimWrite, DelimBegResult, DelimBegRead, DelimBegNothing, DelimGrow, DelimCopy,
     DelimEnd, DelimStutter
  DEF Next

LEMMA DelimInvariant == Spec => []DelimInv
  BY DelimInit, DelimStep, PTL DEF Spec

\* Every variable keeps its type, and whatever is read, copied, moved, handed out
\* or released stays within the buffers (q2pc_trans_tcp.c:121-134, 198).
THEOREM DelimTypes == Spec => []DelimTypeOK
<1>1. DelimInv => DelimTypeOK
  <2>. SUFFICES ASSUME DelimInv PROVE Typed /\ WithinBuffer
    BY DEF DelimTypeOK
  <2>1. Typed
    BY DEF DelimInv
  <2>2. delim_result # NULL =>
            /\ Front = delim_result
            /\ delim_result_len = msg_size /\ msg_size <= delim_buffer_used
    BY DEF DelimInv, Found, Front
  <2>3. Front + delim_buffer_used <= delim_buffer_size
    BY DEF DelimInv, InBuffer
  <2>4. last # NULL => last + msg_size <= delim_buffer_size
    BY DEF DelimInv, Turns
  <2>5. WithinBuffer
    BY <2>1, <2>2, <2>3, <2>4, SizeAssumption DEF WithinBuffer, Typed
  <2>. QED
    BY <2>1, <2>5
<1>. QED
  BY <1>1, DelimInvariant, PTL

\* Case 2 of conn_end_delimit (q2pc_trans_tcp.c:201) is dead code, for every size
\* of messages and reads.
THEOREM DelimNoCaseTwo == Spec => []NoCaseTwo
<1>1. DelimInv => NoCaseTwo
  BY DEF DelimInv, Found, NoCaseTwo
<1>. QED
  BY <1>1, DelimInvariant, PTL

\* The buffer never grows beyond twice its first size (q2pc_trans_tcp.c:121).
THEOREM DelimBounded == Spec => []Bounded
<1>1. DelimInv => Bounded
  BY SizeAssumption DEF DelimInv, Doubled, Bounded
<1>. QED
  BY <1>1, DelimInvariant, PTL

\* What a caller sees of a message it has released, byte by byte, for every size
\* of messages and reads: the message, or the beginning of the next one over it,
\* as far as that has come (q2pc_client.c:134, q2pc_trans_tcp.c:198).
THEOREM DelimAfterRelease == Spec => []AfterRelease
<1>1. DelimInv => AfterRelease
  BY DEF DelimInv
<1>. QED
  BY <1>1, DelimInvariant, PTL

-----------------------------------------------------------------------------
(* The delimiter implements the stream of messages. *)

\* The bytes the caller holds.
Held == [k \in (IF holding THEN 0 .. msg_size - 1 ELSE {}) |->
             delim_buffer[delim_result + k]]

\* Its next message, in stream positions.
NextMessage == [k \in 0 .. msg_size - 1 |-> consumed + k]

LEMMA HeldNothing == ~ holding => Held = Stream!Nothing
  BY DEF Held, Stream!Nothing

LEMMA HeldIs == DelimInv /\ holding => Held = NextMessage
<1>. SUFFICES ASSUME DelimInv, holding PROVE Held = NextMessage
  OBVIOUS
<1>1. delim_result # NULL /\ msg_size <= delim_buffer_used
  BY DEF DelimInv, Turns, Found
<1>2. \A k \in 0 .. msg_size - 1 : delim_buffer[delim_result + k] = consumed + k
  BY <1>1, SizeAssumption DEF DelimInv, Typed, InBuffer, Front, Offsets
<1>. QED
  BY <1>2 DEF Held, NextMessage

LEMMA HeldIsNext == (DelimInv /\ holding => Held = NextMessage)'
  BY HeldIs, PTL

LEMMA HeldDomain == DOMAIN Held = IF holding THEN 0 .. msg_size - 1 ELSE {}
  BY DEF Held

\* What the buffer holds has been written.
LEMMA WithinWritten ==
    ASSUME NEW w \in Nat, NEW c \in Nat, NEW u \in Nat, NEW r \in Nat, NEW n \in Nat,
           n = c + u + r, n <= w, msg_size <= u
    PROVE  c + msg_size <= w
  BY SizeAssumption

\* Handing out a message is a Hand.
LEMMA HandStep ==
    ASSUME DelimInv, DelimInv', ~ holding, holding', UNCHANGED <<written, consumed>>
    PROVE  Stream!Next
<1>1. DOMAIN Held = {}
  BY HeldDomain
<1>2. consumed + msg_size <= written
  <2>1. msg_size <= delim_buffer_used'
    BY DEF DelimInv, Turns, Found
  <2>2. nread' = consumed + delim_buffer_used' + read_buffer_used'
    BY DEF DelimInv, InBuffer
  <2>3. written \in Nat /\ consumed \in Nat
    BY BytesAssumption DEF DelimInv, Typed
  <2>4. delim_buffer_used' \in Nat /\ read_buffer_used' \in Nat
    BY SizeAssumption DEF DelimInv, Typed
  <2>5. nread' \in Nat /\ nread' <= written
    BY <2>3 DEF DelimInv, Typed
  <2>. QED
    BY <2>1, <2>2, <2>3, <2>4, <2>5, WithinWritten
<1>3. Held' = NextMessage'
  BY HeldIsNext
<1>4. NextMessage' = NextMessage
  BY DEF NextMessage
<1>. QED
  BY <1>1, <1>2, <1>3, <1>4 DEF Stream!Next, Stream!Hand, Held, NextMessage

\* A step that hands out nothing and takes nothing back stutters.
LEMMA NoHandStep ==
    ASSUME DelimInv, DelimInv', holding' = holding, UNCHANGED <<written, consumed>>
    PROVE  UNCHANGED Stream!vars
<1>1. CASE holding
  <2>1. Held = NextMessage /\ Held' = NextMessage'
    BY <1>1, HeldIs, HeldIsNext
  <2>. QED
    BY <2>1 DEF Stream!vars, NextMessage, Held
<1>2. CASE ~ holding
  <2>1. Held = Stream!Nothing /\ Held' = Stream!Nothing
    BY <1>2, HeldNothing DEF Held, Stream!Nothing
  <2>. QED
    BY <2>1 DEF Stream!vars, Held
<1>. QED
  BY <1>1, <1>2

LEMMA StreamStep ==
    ASSUME DelimInv, DelimInv', [Next]_vars
    PROVE  [Stream!Next]_Stream!vars
<1>1. CASE Write
  <2>1. Held' = Held
    BY <1>1 DEF Write, Held, bufVars, resVars
  <2>2. Stream!Write
    BY <1>1, <2>1 DEF Write, Stream!Write, Held
  <2>. QED
    BY <2>2 DEF Stream!Next
<1>2. CASE BegResult
  <2>1. holding' = TRUE /\ UNCHANGED <<written, consumed>>
    BY <1>2 DEF BegResult, inVars
  <2>2. CASE holding
    <3>1. holding' = holding
      BY <2>1, <2>2 DEF DelimInv, Typed
    <3>. QED
      BY <2>1, <3>1, NoHandStep
  <2>. QED
    BY <2>1, <2>2, HandStep
<1>3. CASE BegRead
  <2>1. holding' = holding /\ UNCHANGED <<written, consumed>>
    BY <1>3, DelimBegRead DEF BegRead
  <2>. QED
    BY <2>1, NoHandStep
<1>4. CASE BegNothing \/ Grow \/ UNCHANGED vars
  <2>1. holding' = holding /\ UNCHANGED <<written, consumed>>
    BY <1>4 DEF BegNothing, Grow, vars, inVars
  <2>. QED
    BY <2>1, NoHandStep
<1>5. CASE Copy
  <2>1. ~ holding /\ UNCHANGED <<written, consumed>>
    BY <1>5, DelimCopy DEF Copy, inVars
  <2>2. CASE holding'
    BY <2>1, <2>2, HandStep
  <2>3. CASE ~ holding'
    <3>1. holding' = holding
      BY <2>1, <2>3 DEF DelimInv, Typed
    <3>. QED
      BY <2>1, <3>1, NoHandStep
  <2>. QED
    BY <2>2, <2>3
<1>6. CASE End
  <2>1. holding /\ holding' = FALSE /\ consumed' = consumed + msg_size /\ written' = written
    BY <1>6 DEF End, Released, inVars
  <2>2. DOMAIN Held # {}
    <3>1. 0 \in 0 .. msg_size - 1
      BY SizeAssumption
    <3>. QED
      BY <2>1, <3>1, HeldDomain
  <2>3. Held' = Stream!Nothing
    BY <2>1, HeldNothing DEF Held, Stream!Nothing
  <2>4. Stream!Release
    BY <2>1, <2>2, <2>3 DEF Stream!Release, Held
  <2>. QED
    BY <2>4 DEF Stream!Next
<1>. QED
  BY <1>1, <1>2, <1>3, <1>4, <1>5, <1>6 DEF Next

\* Whatever pieces the stream arrives in, the caller is handed the messages that
\* were written, whole, in order, each until it releases it.
THEOREM DelimInOrder == Spec => InOrder
<1>1. Init => Stream!Init
  <2>1. Init => Held = Stream!Nothing
    BY HeldNothing DEF Init
  <2>. QED
    BY <2>1 DEF Init, Stream!Init, Held
<1>2. DelimInv /\ DelimInv' /\ [Next]_vars => [Stream!Next]_Stream!vars
  BY StreamStep
<1>. QED
  BY <1>1, <1>2, DelimInvariant, PTL DEF Spec, InOrder, Stream!Spec
=============================================================================
