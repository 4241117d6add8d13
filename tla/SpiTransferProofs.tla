-------------------------- MODULE SpiTransferProofs --------------------------
(***************************************************************************)
(* The byte exchange of m_aci_spi_transfer delivers both messages, for     *)
(* every buffer length and every pair of lengths that cross.               *)
(***************************************************************************)
EXTENDS SpiTransfer, TLAPS

-----------------------------------------------------------------------------
(* The inductive invariant.  The properties speak of the end of a transfer;
   this says at every byte how far the exchange has come. *)

\* The counters agree with the phase, and the loop knows how far to go.
Progress ==
    /\ phase = "header" => byte_sent_cnt = 0 /\ byte_cnt = 0
    /\ phase = "length" => byte_sent_cnt = 1 /\ byte_cnt = 0
    /\ phase \in {"body", "done"} =>
          /\ byte_sent_cnt = byte_cnt + 2
          /\ max_bytes = clamp(remaining(event))
          /\ byte_cnt <= max_bytes
          /\ rlength = event
    /\ phase = "done" => byte_cnt = max_bytes

\* Every byte clocked so far is the command's, up to the end of the buffer.
HeardSoFar ==
    \A k \in Clock : k < byte_sent_cnt /\ k <= HAL_ACI_MAX_LENGTH => heard[k] = k

\* Every pass of the loop stored the byte of the event that belongs there.
ReceivedSoFar ==
    \A k \in Index : k <= byte_cnt /\ k <= event => received[k] = k

IInv == TypeOK /\ Progress /\ HeardSoFar /\ ReceivedSoFar

-----------------------------------------------------------------------------

(* The number of passes: enough for both messages, never too many for the
   buffers, and the clamp never bites (hal_aci_tl.cpp:160-175). *)
LEMMA Remaining ==
    ASSUME length \in 0 .. HAL_ACI_MAX_LENGTH, event \in 0 .. MaxEventLength
    PROVE  LET n == clamp(remaining(event))
           IN  /\ n \in 0 .. HAL_ACI_MAX_LENGTH
               /\ n >= event /\ n >= length - 1
               /\ n + 2 = Bigger(length + 1, event + 2)
  BY LengthAssumption, SMT DEF clamp, remaining, Bigger

(* Clocking a byte out records it, and the bytes clocked before it stay. *)
LEMMA ReadwriteRecords ==
    ASSUME TypeOK, HeardSoFar, spi_readwrite, byte_sent_cnt \in Clock
    PROVE  /\ heard' \in [Clock -> 0 .. HAL_ACI_MAX_LENGTH \cup {Junk}]
           /\ byte_sent_cnt' = byte_sent_cnt + 1
           /\ HeardSoFar'
<1>1. heard \in [Clock -> 0 .. HAL_ACI_MAX_LENGTH \cup {Junk}] /\ byte_sent_cnt \in Nat
  BY LengthAssumption DEF TypeOK, Clock
<1>2. heard' = [heard EXCEPT ![byte_sent_cnt] =
                   IF byte_sent_cnt <= HAL_ACI_MAX_LENGTH THEN byte_sent_cnt ELSE Junk]
  BY DEF spi_readwrite
<1>3. byte_sent_cnt' = byte_sent_cnt + 1
  BY DEF spi_readwrite
<1>4. heard' \in [Clock -> 0 .. HAL_ACI_MAX_LENGTH \cup {Junk}]
  BY <1>1, <1>2, LengthAssumption
<1>5. ASSUME NEW k \in Clock, k < byte_sent_cnt', k <= HAL_ACI_MAX_LENGTH
      PROVE  heard'[k] = k
  <2>1. CASE k = byte_sent_cnt
    BY <1>1, <1>2, <1>5, <2>1
  <2>2. CASE k # byte_sent_cnt
    <3>1. k < byte_sent_cnt
      BY <1>1, <1>3, <1>5, <2>2, LengthAssumption DEF Clock
    <3>2. QED
      BY <1>1, <1>2, <1>5, <2>2, <3>1 DEF HeardSoFar
  <2>3. QED
    BY <2>1, <2>2
<1>6. HeardSoFar'
  BY <1>5 DEF HeardSoFar
<1>7. QED
  BY <1>3, <1>4, <1>6

(* The invariant holds at the start of a transfer and after every byte. *)
THEOREM Inductive == Spec => []IInv
<1>1. Init => IInv
  <2> SUFFICES ASSUME Init PROVE IInv
    OBVIOUS
  <2>1. TypeOK
    BY LengthAssumption DEF Init, TypeOK
  <2>2. Progress /\ HeardSoFar /\ ReceivedSoFar
    BY LengthAssumption, SMT DEF Init, Progress, HeardSoFar, ReceivedSoFar, Clock, Index
  <2>3. QED
    BY <2>1, <2>2 DEF IInv
<1>2. IInv /\ [Next]_vars => IInv'
  <2> SUFFICES ASSUME IInv, [Next]_vars PROVE IInv'
    OBVIOUS
  <2> USE DEF IInv
  <2>1. CASE SendLength
    <3>1. byte_sent_cnt = 0 /\ byte_cnt = 0 /\ byte_sent_cnt \in Clock
      BY <2>1, LengthAssumption DEF SendLength, Progress, Clock
    <3>2. /\ heard' \in [Clock -> 0 .. HAL_ACI_MAX_LENGTH \cup {Junk}]
          /\ byte_sent_cnt' = 1 /\ HeardSoFar'
      BY <2>1, <3>1, ReadwriteRecords DEF SendLength
    <3>3. TypeOK'
      BY <2>1, <3>2, LengthAssumption DEF SendLength, TypeOK
    <3>4. Progress' /\ ReceivedSoFar'
      BY <2>1, <3>1, <3>2 DEF SendLength, Progress, ReceivedSoFar
    <3>5. QED
      BY <3>2, <3>3, <3>4
  <2>2. CASE ReceiveLength
    <3>1. byte_sent_cnt = 1 /\ byte_cnt = 0 /\ byte_sent_cnt \in Clock
      BY <2>2, LengthAssumption DEF ReceiveLength, Progress, Clock
    <3>2. /\ heard' \in [Clock -> 0 .. HAL_ACI_MAX_LENGTH \cup {Junk}]
          /\ byte_sent_cnt' = 2 /\ HeardSoFar'
      BY <2>2, <3>1, ReadwriteRecords DEF ReceiveLength
    <3>3. max_bytes' = clamp(remaining(event)) /\ max_bytes' \in 0 .. HAL_ACI_MAX_LENGTH
      BY <2>2, Remaining DEF ReceiveLength, TypeOK
    <3>4. TypeOK'
      BY <2>2, <3>2, <3>3, LengthAssumption DEF ReceiveLength, TypeOK
    <3>5. Progress'
      <4>1. clamp(remaining(event))' = clamp(remaining(event))
        BY <2>2 DEF ReceiveLength, clamp, remaining
      <4>2. QED
        BY <2>2, <3>1, <3>2, <3>3, <4>1, LengthAssumption DEF ReceiveLength, Progress
    <3>6. ReceivedSoFar'
      BY <2>2 DEF ReceiveLength, ReceivedSoFar
    <3>7. QED
      BY <3>2, <3>4, <3>5, <3>6
  <2>3. CASE Exchange
    <3>1. /\ byte_sent_cnt = byte_cnt + 2 /\ byte_cnt < max_bytes
          /\ byte_cnt \in 0 .. HAL_ACI_MAX_LENGTH /\ max_bytes \in 0 .. HAL_ACI_MAX_LENGTH
          /\ event \in 0 .. MaxEventLength
      BY <2>3 DEF Exchange, Progress, TypeOK
    <3>2. /\ byte_sent_cnt \in Clock /\ byte_cnt + 1 \in Index
          /\ byte_sent_cnt + 1 \in 0 .. HAL_ACI_MAX_LENGTH + 2
          /\ byte_cnt + 1 \in 0 .. HAL_ACI_MAX_LENGTH
      BY <3>1, LengthAssumption DEF Clock, Index
    <3>3. /\ heard' \in [Clock -> 0 .. HAL_ACI_MAX_LENGTH \cup {Junk}]
          /\ byte_sent_cnt' = byte_sent_cnt + 1 /\ HeardSoFar'
      BY <2>3, <3>2, ReadwriteRecords DEF Exchange
    <3>4. received' = [received EXCEPT ![byte_cnt + 1] =
                          IF byte_cnt + 1 <= event THEN byte_cnt + 1 ELSE Pad]
      <4>1. byte_sent_cnt - 1 = byte_cnt + 1
        BY <3>1
      <4>2. QED
        BY <2>3, <4>1 DEF Exchange, store_at, miso
    <3>5. TypeOK'
      <4>1. received' \in [Index -> Index \cup {Pad, Junk}]
        BY <3>2, <3>4 DEF TypeOK
      <4>2. QED
        BY <2>3, <3>2, <3>3, <4>1 DEF Exchange, TypeOK
    <3>6. Progress'
      <4>1. clamp(remaining(event))' = clamp(remaining(event))
        BY <2>3 DEF Exchange, clamp, remaining
      <4>2. QED
        BY <2>3, <3>1, <3>3, <4>1 DEF Exchange, Progress
    <3>7. ReceivedSoFar'
      <4> SUFFICES ASSUME NEW k \in Index, k <= byte_cnt + 1, k <= event
                   PROVE  received'[k] = k
        BY <2>3 DEF Exchange, ReceivedSoFar
      <4>1. received \in [Index -> Index \cup {Pad, Junk}]
        BY DEF TypeOK
      <4>2. CASE k = byte_cnt + 1
        BY <3>2, <3>4, <4>1, <4>2
      <4>3. CASE k # byte_cnt + 1
        <5>1. k <= byte_cnt
          BY <3>1, <4>3 DEF Index
        <5>2. QED
          BY <3>2, <3>4, <4>1, <4>3, <5>1 DEF ReceivedSoFar
      <4>4. QED
        BY <4>2, <4>3
    <3>8. QED
      BY <3>3, <3>5, <3>6, <3>7
  <2>4. CASE Finish
    <3>1. clamp(remaining(event))' = clamp(remaining(event))
      BY <2>4 DEF Finish, clamp, remaining
    <3>2. QED
      BY <2>4, <3>1 DEF Finish, TypeOK, Progress, HeardSoFar, ReceivedSoFar
  <2>5. CASE UNCHANGED vars
    <3>1. clamp(remaining(event))' = clamp(remaining(event))
      BY <2>5 DEF vars, clamp, remaining
    <3>2. QED
      BY <2>5, <3>1 DEF vars, TypeOK, Progress, HeardSoFar, ReceivedSoFar
  <2>6. QED
    BY <2>1, <2>2, <2>3, <2>4, <2>5 DEF Next
<1>3. QED
  BY <1>1, <1>2, PTL DEF Spec

(* The counters stay within their ranges, and the loop stores only inside
   received_data->buffer (hal_aci_tl.cpp:160-175).  The bound of byte_sent_cnt
   is one more than the positions of data_to_send->buffer: where the code reads
   there is what ReadsBeyondBuffer says. *)
THEOREM TypeCorrect == Spec => []TypeOK
<1>1. IInv => TypeOK
  BY DEF IInv
<1>2. QED
  BY <1>1, Inductive, PTL

(* When a transfer ends the device has the whole command. *)
THEOREM CommandAlwaysDelivered == Spec => []CommandDelivered
<1>1. IInv => CommandDelivered
  <2> SUFFICES ASSUME IInv, phase = "done", NEW k \in 0 .. length PROVE heard[k] = k
    BY DEF CommandDelivered
  <2>1. /\ byte_sent_cnt = max_bytes + 2 /\ max_bytes = clamp(remaining(event))
        /\ length \in 0 .. HAL_ACI_MAX_LENGTH /\ event \in 0 .. MaxEventLength
    BY DEF IInv, Progress, TypeOK
  <2>2. max_bytes \in 0 .. HAL_ACI_MAX_LENGTH /\ max_bytes >= length - 1
    BY <2>1, Remaining
  <2>3. k \in Clock /\ k < byte_sent_cnt /\ k <= HAL_ACI_MAX_LENGTH
    BY <2>1, <2>2, LengthAssumption DEF Clock
  <2>4. QED
    BY <2>3 DEF IInv, HeardSoFar
<1>2. QED
  BY <1>1, Inductive, PTL

(* When a transfer ends the host has the whole event, and its length. *)
THEOREM EventAlwaysReceived == Spec => []EventReceived
<1>1. IInv => EventReceived
  <2> SUFFICES ASSUME IInv, phase = "done" PROVE EventReceived
    BY DEF EventReceived
  <2>1. /\ byte_cnt = max_bytes /\ max_bytes = clamp(remaining(event)) /\ rlength = event
        /\ length \in 0 .. HAL_ACI_MAX_LENGTH /\ event \in 0 .. MaxEventLength
    BY DEF IInv, Progress, TypeOK
  <2>2. max_bytes \in 0 .. HAL_ACI_MAX_LENGTH /\ max_bytes >= event
    BY <2>1, Remaining
  <2>3. ASSUME NEW k \in 1 .. event PROVE received[k] = k
    <3>1. k \in Index /\ k <= byte_cnt /\ k <= event
      BY <2>1, <2>2, LengthAssumption DEF Index
    <3>2. QED
      BY <3>1 DEF IInv, ReceivedSoFar
  <2>4. QED
    BY <2>1, <2>3 DEF EventReceived
<1>2. QED
  BY <1>1, Inductive, PTL

(* The loop reads past the end of data_to_send->buffer only at the last clock
   of a longest event, one byte, and the command is out by then. *)
THEOREM ReadsAtMostOneBeyond == Spec => []ReadsBeyondBuffer
<1>1. IInv => ReadsBeyondBuffer
  <2> SUFFICES ASSUME IInv, byte_sent_cnt > HAL_ACI_MAX_LENGTH + 1
               PROVE  /\ event = HAL_ACI_MAX_LENGTH
                      /\ byte_sent_cnt = HAL_ACI_MAX_LENGTH + 2
                      /\ byte_cnt = max_bytes
                      /\ \A k \in 0 .. length : heard[k] = k
    BY DEF ReadsBeyondBuffer
  <2>1. /\ byte_sent_cnt = byte_cnt + 2 /\ max_bytes = clamp(remaining(event))
        /\ byte_cnt <= max_bytes /\ byte_cnt \in 0 .. HAL_ACI_MAX_LENGTH
        /\ length \in 0 .. HAL_ACI_MAX_LENGTH /\ event \in 0 .. MaxEventLength
    BY LengthAssumption DEF IInv, Progress, TypeOK
  <2>2. max_bytes \in 0 .. HAL_ACI_MAX_LENGTH /\ max_bytes + 2 = Bigger(length + 1, event + 2)
    BY <2>1, Remaining
  <2>3. byte_cnt = HAL_ACI_MAX_LENGTH /\ max_bytes = HAL_ACI_MAX_LENGTH
    BY <2>1, <2>2, LengthAssumption
  <2>4. event = HAL_ACI_MAX_LENGTH
    BY <2>1, <2>2, <2>3, LengthAssumption DEF Bigger
  <2>5. ASSUME NEW k \in 0 .. length PROVE heard[k] = k
    <3>1. k \in Clock /\ k < byte_sent_cnt /\ k <= HAL_ACI_MAX_LENGTH
      BY <2>1, <2>3, LengthAssumption DEF Clock
    <3>2. QED
      BY <3>1 DEF IInv, HeardSoFar
  <2>6. QED
    BY <2>1, <2>3, <2>4, <2>5
<1>2. QED
  BY <1>1, Inductive, PTL

(* A transfer clocks exactly the bytes that the longer message needs. *)
THEOREM NeverASpareClock == Spec => []NoSpareClock
<1>1. IInv => NoSpareClock
  <2> SUFFICES ASSUME IInv, phase = "done" PROVE NoSpareClock
    BY DEF NoSpareClock
  <2>1. /\ byte_sent_cnt = max_bytes + 2 /\ max_bytes = clamp(remaining(event))
        /\ length \in 0 .. HAL_ACI_MAX_LENGTH /\ event \in 0 .. MaxEventLength
    BY DEF IInv, Progress, TypeOK
  <2>2. QED
    BY <2>1, Remaining DEF NoSpareClock
<1>2. QED
  BY <1>1, Inductive, PTL
=============================================================================
