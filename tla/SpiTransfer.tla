----------------------------- MODULE SpiTransfer -----------------------------
(***************************************************************************)
(* m_aci_spi_transfer of hal_aci_tl.cpp, byte by byte: the full-duplex     *)
(* exchange that AciTransport takes as one step.  The host clocks out      *)
(* data_to_send (its length byte, then that many bytes) and learns only    *)
(* with the second byte how long the device's event is, so it has to work  *)
(* out during the exchange how many bytes remain.                          *)
(*                                                                         *)
(* A byte is represented by where it comes from: the byte k of the command *)
(* is k, and so is the byte k of the event.  The device (external) answers *)
(* the first byte with a status, the second with the length of its event,  *)
(* and then with the event, followed by padding.                           *)
(***************************************************************************)
EXTENDS Integers

CONSTANTS
    HAL_ACI_MAX_LENGTH,     \* largest length byte of a command (31)
    MaxEventLength          \* largest length byte of an event

\* An ACI packet, length byte included, is ACI_PACKET_MAX_LEN = 32 bytes.
ASSUME LengthAssumption ==
    /\ HAL_ACI_MAX_LENGTH \in 1..254
    /\ MaxEventLength \in 0..HAL_ACI_MAX_LENGTH

VARIABLES
    length,         \* data_to_send->buffer[0]; 0 when there is no command
    event,          \* length of the device's event; 0 when there is none
    phase,          \* "header", "length", "body" or "done"
    byte_sent_cnt,  \* bytes clocked so far
    byte_cnt,       \* passes of the loop so far
    max_bytes,      \* passes of the loop to make
    heard,          \* what the device received: heard[k] is the byte at clock k
    rlength,        \* received_data->buffer[0]
    received        \* the rest of received_data->buffer

vars == <<length, event, phase, byte_sent_cnt, byte_cnt, max_bytes, heard, rlength, received>>

Pad  == 0       \* the filler a device sends after its event
Junk == -1      \* a byte of a buffer that was never written

\* Positions of received_data->buffer after its length byte.
Index == 1 .. HAL_ACI_MAX_LENGTH
\* Every clock of a transfer.  A longest event takes one clock more than
\* data_to_send->buffer has bytes (see ReadsBeyondBuffer).
Clock == 0 .. HAL_ACI_MAX_LENGTH + 1

TypeOK ==
    /\ length \in 0 .. HAL_ACI_MAX_LENGTH
    /\ event \in 0 .. MaxEventLength
    /\ phase \in {"header", "length", "body", "done"}
    /\ byte_sent_cnt \in 0 .. HAL_ACI_MAX_LENGTH + 2
    /\ byte_cnt \in 0 .. HAL_ACI_MAX_LENGTH
    /\ max_bytes \in 0 .. HAL_ACI_MAX_LENGTH
    /\ heard \in [Clock -> 0 .. HAL_ACI_MAX_LENGTH \cup {Junk}]
    /\ rlength \in 0 .. MaxEventLength
    /\ received \in [Index -> Index \cup {Pad, Junk}]

Init ==
    /\ length \in 0 .. HAL_ACI_MAX_LENGTH
    /\ event \in 0 .. MaxEventLength
    /\ phase = "header"
    /\ byte_sent_cnt = 0 /\ byte_cnt = 0 /\ max_bytes = 0
    /\ heard = [k \in Clock |-> Junk]
    /\ rlength = 0
    /\ received = [k \in Index |-> Junk]

\* What the device answers at clock k >= 2.
miso(k) == IF k - 1 <= event THEN k - 1 ELSE Pad

spi_readwrite_twice ==      \* the index advanced twice per byte
    /\ heard' = [heard EXCEPT ![byte_sent_cnt] = byte_sent_cnt]
    /\ byte_sent_cnt' = byte_sent_cnt + 2

\* spi_readwrite(data_to_send->buffer[byte_sent_cnt++]): past the end of the
\* buffer whatever lies there is sent, which the device takes for filler.
spi_readwrite ==
    /\ heard' = [heard EXCEPT ![byte_sent_cnt] =
                    IF byte_sent_cnt <= HAL_ACI_MAX_LENGTH THEN byte_sent_cnt ELSE Junk]
    /\ byte_sent_cnt' = byte_sent_cnt + 1

Bigger(a, b) == IF a > b THEN a ELSE b

clamp(n) == IF n > HAL_ACI_MAX_LENGTH THEN HAL_ACI_MAX_LENGTH ELSE n

remaining_short(rlen) == Bigger(rlen, length - 2)   \* one command byte too few
remaining_sum(rlen) == clamp(rlen + length)         \* as if the exchange were half-duplex
\* Two bytes of the command are out when the loop starts, its length and its
\* first byte; none of the event is in.
remaining(rlen) ==
    IF length = 0 THEN rlen ELSE Bigger(rlen, length - 1)

SendLength ==
    /\ phase = "header"
    /\ spi_readwrite
    /\ phase' = "length"
    /\ UNCHANGED <<length, event, byte_cnt, max_bytes, rlength, received>>

ReceiveLength ==
    /\ phase = "length"
    /\ spi_readwrite
    /\ rlength' = event
    /\ max_bytes' = clamp(remaining(event))
    /\ phase' = "body"
    /\ UNCHANGED <<length, event, byte_cnt, received>>

store_at_clock == byte_sent_cnt     \* received bytes stored one place late
\* Where the loop stores the byte it receives.
store_at == byte_cnt + 1

Exchange ==
    /\ phase = "body" /\ byte_cnt < max_bytes
    /\ received' = [received EXCEPT ![store_at] = miso(byte_sent_cnt)]
    /\ spi_readwrite
    /\ byte_cnt' = byte_cnt + 1
    /\ UNCHANGED <<length, event, phase, max_bytes, rlength>>

Finish ==
    /\ phase = "body" /\ byte_cnt = max_bytes
    /\ phase' = "done"
    /\ UNCHANGED <<length, event, byte_sent_cnt, byte_cnt, max_bytes, heard, rlength, received>>

Next == SendLength \/ ReceiveLength \/ Exchange \/ Finish

Spec == Init /\ [][Next]_vars

-----------------------------------------------------------------------------
(* Properties. *)

(* When the transfer ends the device has the whole command, length byte
   included, whatever the lengths of the two messages that cross. *)
CommandDelivered ==
    phase = "done" => \A k \in 0 .. length : heard[k] = k

(* When the transfer ends the host has the whole event, in place, and knows
   its length. *)
EventReceived ==
    phase = "done" => rlength = event /\ \A k \in 1 .. event : received[k] = k

(* Reading data_to_send->buffer (positions 0 .. HAL_ACI_MAX_LENGTH) leaves it
   only for an event of the largest length, and then at the last clock and by
   one byte (hal_aci_tl.cpp:172): whatever lies there goes out to the device
   after the whole command. *)
ReadsBeyondBuffer ==
    byte_sent_cnt > HAL_ACI_MAX_LENGTH + 1 =>
        /\ event = HAL_ACI_MAX_LENGTH
        /\ byte_sent_cnt = HAL_ACI_MAX_LENGTH + 2
        /\ byte_cnt = max_bytes
        /\ \A k \in 0 .. length : heard[k] = k

(* The transfer clocks exactly the bytes that the longer of the two messages
   needs (the event costs one byte more, its status) and no further ones, so
   the clamp to HAL_ACI_MAX_LENGTH never cuts a message short. *)
NoSpareClock ==
    phase = "done" => byte_sent_cnt = Bigger(length + 1, event + 2)
=============================================================================
