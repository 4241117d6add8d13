----------------------------- MODULE SerialUart -----------------------------
(***************************************************************************)
(* The serial example nrf8001-ble-uart.ino: lines typed on the serial port *)
(* become packets to the peer, or the name of the device, through          *)
(* nRF8001BleUartTx and nRF8001BleUartNameSet and the library below them.  *)
(*                                                                         *)
(* Characters are gathered in a buffer of 32 until a newline comes or the  *)
(* buffer is full; only then does anything happen, and the buffer is       *)
(* cleared.  So a whole line is one step.  What follows the 32nd character *)
(* of a line counts as a new line.                                         *)
(***************************************************************************)
EXTENDS AciLibrary

CONSTANTS TxPipe, NamePipe      \* PIPE_..._UART_TX_TX and PIPE_GAP_DEVICE_NAME_SET

ASSUME SerialAssumption == {TxPipe, NamePipe} \subseteq DOMAIN PipeMap

serial_buffer_length_late == 33     \* a full buffer noticed one character late
SERIAL_BUFFER_LENGTH == 32
NAME_MAX == 16          \* of nRF8001BleUartNameSet

VARIABLE line   \* the last line handled: its length with the last character,
                \* whether "name=" is in front, and how much of it is passed on

serialVars == <<vars, line>>

NoLine == [length |-> 0, named |-> FALSE, size |-> 0]

\* The size passed on is a uint8_t: below zero it would be a large one.
SerialTypeOK ==
    /\ TypeOK
    /\ line \in [length : 0..32, named : BOOLEAN, size : 0..31]

SerialInit == Init /\ line = NoLine

-----------------------------------------------------------------------------
nRF8001BleUartNameSet(size) ==
    lib_aci_set_local_data(NamePipe, IF size < NAME_MAX THEN size ELSE NAME_MAX)

\* The data goes out if the pipe is open and there is a credit.
nRF8001BleUartTx(size, credits) ==
    \/ TxPipe \in pipes_open /\ credits >= 1 /\ lib_aci_send_data(TxPipe, size)
    \/ ~(TxPipe \in pipes_open /\ credits >= 1) /\ Refuse("send_data", size)

name_size(msg_length) == msg_length - 6
data_size(msg_length) == msg_length - 1

\* The end of a line: its last character is a newline, or the 32nd.  A line is
\* named only if it begins with the five characters "name=", none of them a
\* newline.
handle_serial_input(msg_length, named, credits) ==
    /\ named => msg_length > 5
    /\ \/ /\ named
          /\ nRF8001BleUartNameSet(name_size(msg_length))
          /\ line' = [length |-> msg_length, named |-> TRUE, size |-> name_size(msg_length)]
       \/ /\ ~named
          /\ nRF8001BleUartTx(data_size(msg_length), credits)
          /\ line' = [length |-> msg_length, named |-> FALSE, size |-> data_size(msg_length)]
    /\ UNCHANGED <<stateVars, advVars>>

SerialNext ==
    \/ \E msg_length \in 1 .. SERIAL_BUFFER_LENGTH, named \in BOOLEAN, credits \in 0..1 :
          handle_serial_input(msg_length, named, credits)
    \/ Next /\ line' = NoLine

SerialSpec == SerialInit /\ [][SerialNext]_serialVars

-----------------------------------------------------------------------------
(* The instance that is checked: the pipes of services.h, and the remote     *)
(* pipes a service with a client side would add.                             *)

services_pipe_type_mapping ==
    <<<<"local", "set">>, <<"local", "tx_ack">>, <<"local", "set">>,
      <<"local", "set">>, <<"local", "set">>, <<"local", "set">>,
      <<"local", "set">>, <<"local", "rx">>, <<"local", "tx">>,
      <<"local", "tx">>, <<"local", "rx">>, <<"local", "set">>>>

ModelPipeMap ==
    services_pipe_type_mapping \o
    <<<<"remote", "rx">>, <<"remote", "rx_ack">>, <<"remote", "rx_ack_auto">>,
      <<"remote", "rx_req">>, <<"remote", "tx">>>>
=============================================================================
