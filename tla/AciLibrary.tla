----------------------------- MODULE AciLibrary -----------------------------
(***************************************************************************)
(* The calls of lib_aci.cpp an application can make, and those of the mesh *)
(* interface: what each refuses, the message it builds, and the state the  *)
(* library keeps (pipes, advertising pipes, connection interval).  BleUart *)
(* models when the UART application makes them and what the device does;   *)
(* here the application calls anything in any order and the transport, see *)
(* AciTransport, may refuse any message because its queue is full.         *)
(***************************************************************************)
EXTENDS AciCodec, MeshCodec

CONSTANTS
    PipeMap,    \* services_pipe_type_map: <<location, type>> of pipe 1, 2, ...
    LinkPipes,  \* pipes that open and close with the link
    AdvPipes,   \* pipes that may be placed in the advertising data
    Sizes,      \* data sizes an application passes
    Intervals   \* connection intervals, in units of 1.25 ms

ASSUME LibraryAssumption ==
    /\ (LinkPipes \cup AdvPipes) \subseteq DOMAIN PipeMap
    /\ Sizes \subseteq 0..255
    /\ Intervals \subseteq 6..3200      \* 0x0006 to 0x0C80, aci_evts.h

VARIABLES
    asked,      \* the last call: kind, opcode and number of data bytes
    msg,        \* the message it handed to, or took from, the transport, if any
    ok,         \* what it returned
    pipes_open, pipes_closed,   \* the bitmaps of aci_state
    connection_interval,        \* of aci_state
    adv,        \* aci_cmd_params_open_adv_pipe, static of lib_aci.cpp
    wanted,     \* pipes of the accepted lib_aci_open_adv_pipe calls
    carried     \* pipes in the last open_adv_pipe message accepted

advVars   == <<adv, wanted, carried>>
stateVars == <<pipes_open, pipes_closed, connection_interval>>
vars      == <<asked, msg, ok, stateVars, advVars>>

Pipes == DOMAIN PipeMap
location(p)  == PipeMap[p][1]
pipe_type(p) == PipeMap[p][2]

NoMessage == Message("none", 0, Nothing)

EventSizes == {n \in Sizes : n <= ECHO_MAX}

TypeOK ==
    /\ asked.kind \in {"none", "command", "refused", "event"}
    /\ msg.length \in 0..255
    /\ ok \in BOOLEAN
    /\ pipes_open \subseteq LinkPipes /\ pipes_closed \subseteq LinkPipes
    /\ connection_interval \in {0} \cup Intervals
    /\ adv \subseteq AdvPipes /\ wanted \subseteq AdvPipes /\ carried \subseteq AdvPipes

Init ==
    /\ asked = [kind |-> "none", op |-> "none", n |-> 0]
    /\ msg = NoMessage
    /\ ok = FALSE
    /\ pipes_open = {} /\ pipes_closed = {}
    /\ connection_interval = 0
    /\ adv = {} /\ wanted = {} /\ carried = {}

-----------------------------------------------------------------------------
\* hal_aci_tl_send refuses a message that is too long, or finds the queue full.
hal_aci_tl_send(m) == ok' \in IF m.length > MAX_LENGTH THEN {FALSE} ELSE BOOLEAN

\* The message m of command op, with n data bytes, is built and offered.
Offer(m, op, n) ==
    /\ asked' = [kind |-> "command", op |-> op, n |-> n]
    /\ msg' = m
    /\ hal_aci_tl_send(m)

\* The call is refused before anything is written.
Refuse(op, n) ==
    /\ asked' = [kind |-> "refused", op |-> op, n |-> n]
    /\ msg' = NoMessage
    /\ ok' = FALSE

OfferIf(allowed, m, op, n) ==
    \/ allowed /\ Offer(m, op, n)
    \/ ~allowed /\ Refuse(op, n)

\* Calls without data and without conditions.
lib_aci_set_app_latency  == Offer(acil_encode_cmd_set_app_latency, "set_app_latency", 0)
lib_aci_test             == Offer(acil_encode_cmd_set_test_mode, "test", 0)
lib_aci_sleep            == Offer(acil_encode_cmd_sleep, "sleep", 0)
lib_aci_radio_reset      == Offer(acil_encode_baseband_reset, "radio_reset", 0)
lib_aci_direct_connect   == Offer(acil_encode_direct_connect, "connect_direct", 0)
lib_aci_device_version   == Offer(acil_encode_cmd_get_device_version, "get_device_version", 0)
lib_aci_connect          == Offer(acil_encode_cmd_connect, "connect", 0)
lib_aci_bond             == Offer(acil_encode_cmd_bond, "bond", 0)
lib_aci_wakeup           == Offer(acil_encode_cmd_wakeup, "wakeup", 0)
lib_aci_set_tx_power     == Offer(acil_encode_cmd_set_radio_tx_power, "set_tx_power", 0)
lib_aci_get_address      == Offer(acil_encode_cmd_get_address, "get_device_address", 0)
lib_aci_get_temperature  == Offer(acil_encode_cmd_temparature, "get_temperature", 0)
lib_aci_get_battery_level == Offer(acil_encode_cmd_battery_level, "get_battery_level", 0)
lib_aci_change_timing    == Offer(acil_encode_cmd_change_timing_req, "change_timing", 4)
lib_aci_change_timing_GAP_PPCP ==
    Offer(acil_encode_cmd_change_timing_req_GAP_PPCP, "change_timing", 0)
lib_aci_bond_request     == Offer(acil_encode_cmd_bond_security_request, "bond_security_request", 0)
lib_aci_send_ack         == Offer(acil_encode_cmd_send_data_ack, "send_data_ack", 0)
lib_aci_send_nack        == Offer(acil_encode_cmd_send_data_nack, "send_data_nack", 0)
lib_aci_read_dynamic_data == Offer(acil_encode_cmd_read_dynamic_data, "read_dynamic_data", 0)
lib_aci_dtm_command      == Offer(acil_encode_cmd_dtm_cmd, "dtm_cmd", 0)

SimpleCall ==
    \/ lib_aci_set_app_latency \/ lib_aci_test \/ lib_aci_sleep
    \/ lib_aci_radio_reset \/ lib_aci_direct_connect \/ lib_aci_device_version
    \/ lib_aci_connect \/ lib_aci_bond \/ lib_aci_wakeup \/ lib_aci_set_tx_power
    \/ lib_aci_get_address \/ lib_aci_get_temperature \/ lib_aci_get_battery_level
    \/ lib_aci_change_timing \/ lib_aci_change_timing_GAP_PPCP
    \/ lib_aci_bond_request \/ lib_aci_send_ack \/ lib_aci_send_nack
    \/ lib_aci_read_dynamic_data \/ lib_aci_dtm_command

\* Calls that look at the pipe or at the size of the data first.
may_set_local_data(p, n) == location(p) = "local" /\ n <= TX_DATA_MAX
lib_aci_set_local_data(p, n) ==
    OfferIf(may_set_local_data(p, n), acil_encode_cmd_set_local_data(n), "set_local_data", n)

may_send_data(p, n) == pipe_type(p) \in {"tx", "tx_ack"} /\ n <= TX_DATA_MAX
lib_aci_send_data(p, n) ==
    OfferIf(may_send_data(p, n), acil_encode_cmd_send_data(n), "send_data", n)

lib_aci_request_data(p) ==
    OfferIf(PipeMap[p] = <<"remote", "rx_req">>,
            acil_encode_cmd_request_data, "request_data", 0)

remote_rx(p) == location(p) = "remote" /\ pipe_type(p) \in {"rx", "rx_ack_auto", "rx_ack"}
lib_aci_open_remote_pipe(p) ==
    OfferIf(remote_rx(p), acil_encode_cmd_open_remote_pipe, "open_remote_pipe", 0)
lib_aci_close_remote_pipe(p) ==
    OfferIf(remote_rx(p), acil_encode_cmd_close_remote_pipe, "close_remote_pipe", 0)

\* n bytes of key are copied, unchecked, to a union of KEY_MAX.
lib_aci_set_key(passkey, n) ==
    Offer(acil_encode_cmd_set_key(passkey, n), IF passkey THEN "set_key" ELSE "reject_key", n)

lib_aci_echo_msg(n) ==
    OfferIf(n <= ECHO_MAX, acil_encode_cmd_echo_msg(n), "echo", n)

\* Nothing checks the size.
lib_aci_write_dynamic_data(n) ==
    Offer(acil_encode_cmd_write_dynamic_data(n), "write_dynamic_data", n)

lib_aci_broadcast(timeout, adv_interval) ==
    OfferIf(timeout <= 16383 /\ adv_interval \in 160..16384,
            acil_encode_cmd_broadcast, "broadcast", 0)

PipeCall ==
    \/ \E p \in Pipes, n \in Sizes :
          lib_aci_set_local_data(p, n) \/ lib_aci_send_data(p, n)
    \/ \E p \in Pipes : \/ lib_aci_request_data(p)
                        \/ lib_aci_open_remote_pipe(p)
                        \/ lib_aci_close_remote_pipe(p)
    \/ \E passkey \in BOOLEAN, n \in Sizes : lib_aci_set_key(passkey, n)
    \/ \E n \in Sizes : lib_aci_echo_msg(n) \/ lib_aci_write_dynamic_data(n)
    \/ \E timeout \in {16383, 16384}, adv_interval \in {159, 160, 16384, 16385} :
          lib_aci_broadcast(timeout, adv_interval)

\* The codec called directly, as acilib_if.h offers; it always returns false.
\* Of a change of timing it always encodes the four parameters.
Encodable == {"setup", "send_data", "set_local_data", "echo", "write_dynamic_data",
              "connect", "change_timing", "send_data_ack"}
EncodeCommand(op, n) ==
    /\ n <= (CASE op \in {"send_data", "set_local_data"} -> TX_DATA_MAX
               [] op = "setup" -> MAX_LENGTH - 1
               [] OTHER -> ECHO_MAX)
    /\ op = "change_timing" => n > 0
    /\ asked' = [kind |-> "command", op |-> op, n |-> n]
    /\ msg' = acil_encode_cmd(op, 1 + Len(StructBytes(CmdStruct(op, n))))
    /\ ok' = FALSE

\* The mesh interface checks sizes against its own HAL_ACI_MAX_LENGTH.
MeshCall ==
    \/ \E n \in Sizes :
          \/ OfferIf(n <= MESH_DATA_MAX, rbc_mesh_echo(n), "mesh_echo", n)
          \/ OfferIf(n \in 1..MESH_DATA_MAX, rbc_mesh_value_set(n), "value_set", n)
    \/ \E channel \in {36, 37, 38, 39, 40} :
          OfferIf(channel \in 37..39, rbc_mesh_init, "mesh_init", 0)
    \/ Offer(rbc_mesh_value_enable, "value_enable", 0)
    \/ Offer(rbc_mesh_value_disable, "value_disable", 0)
    \/ Offer(rbc_mesh_value_get, "value_get", 0)
    \/ \E op \in MeshQueries : Offer(rbc_mesh_query(op), op, 0)

-----------------------------------------------------------------------------
(* Calls that change the state of the library. *)

\* Once queued, the pipes are closed at once for the application.
lib_aci_disconnect ==
    /\ Offer(acil_encode_cmd_disconnect, "disconnect", 0)
    /\ pipes_open' = IF ok' THEN {} ELSE pipes_open
    /\ pipes_closed' = IF ok' THEN {} ELSE pipes_closed
    /\ UNCHANGED <<connection_interval, advVars>>

\* The static bitmap goes out, whether this call or an earlier one set a bit.
SendAdvPipes(pipes) ==
    /\ Offer(acil_encode_cmd_open_adv_pipes, "open_adv_pipe", 0)
    /\ adv' = pipes
    /\ carried' = IF ok' THEN pipes ELSE carried

lib_aci_open_adv_pipes(pipes) ==
    /\ SendAdvPipes(pipes)
    /\ wanted' = IF ok' THEN pipes ELSE {}
    /\ UNCHANGED stateVars

adv_with_only(p) == {p}         \* the bit assigned instead of set
adv_with(p) == adv \cup {p}

lib_aci_open_adv_pipe(p) ==
    /\ SendAdvPipes(adv_with(p))
    /\ wanted' = IF ok' THEN wanted \cup {p} ELSE wanted
    /\ UNCHANGED stateVars

lib_aci_init ==
    /\ pipes_open' = {} /\ pipes_closed' = {}
    /\ adv' = {} /\ wanted' = {} /\ carried' = {}
    /\ UNCHANGED <<asked, msg, ok, connection_interval>>

\* Data bytes an event can carry: what the device's structs and its packets hold.
carries(e, n) ==
    CASE e = "data_received" -> n <= RX_DATA_MAX
      [] e = "hw_error" -> n <= FILE_NAME
      [] e = "echo" -> n <= ECHO_MAX
      [] e = "read_dynamic_data" -> n <= MAX_LENGTH - 4
      [] OTHER -> n = 0

\* An event e with n data bytes is taken from the transport.
Take(e, n) ==
    /\ carries(e, n)
    /\ asked' = [kind |-> "event", op |-> e, n |-> n]
    /\ msg' = Overlay(e, EvtStruct(e, n))
    /\ ok' = TRUE
    /\ UNCHANGED advVars

StateEvents == {"pipe_status", "disconnected", "timing"}

\* The pipes, and the interval, follow the events that tell of them.
lib_aci_event_get ==
    \/ /\ Take("pipe_status", 0)
       /\ pipes_open' \in SUBSET LinkPipes
       /\ pipes_closed' = LinkPipes \ pipes_open'
       /\ UNCHANGED connection_interval
    \/ /\ Take("disconnected", 0)
       /\ pipes_open' = {} /\ pipes_closed' = {}
       /\ UNCHANGED connection_interval
    \/ /\ Take("timing", 0)
       /\ connection_interval' \in Intervals
       /\ UNCHANGED <<pipes_open, pipes_closed>>
    \/ /\ \E e \in (Events \cup Responses) \ StateEvents, n \in EventSizes : Take(e, n)
       /\ UNCHANGED stateVars

Next ==
    \/ /\ SimpleCall \/ PipeCall \/ MeshCall \/ \E op \in Encodable, n \in Sizes : EncodeCommand(op, n)
       /\ UNCHANGED <<stateVars, advVars>>
    \/ lib_aci_disconnect
    \/ \E pipes \in SUBSET AdvPipes : lib_aci_open_adv_pipes(pipes)
    \/ \E p \in AdvPipes : lib_aci_open_adv_pipe(p)
    \/ lib_aci_init
    \/ lib_aci_event_get

Spec == Init /\ [][Next]_vars
-----------------------------------------------------------------------------
(* Properties. *)

Struct(op, n) == IF op \in MeshCommands THEN MeshStruct(op, n) ELSE CmdStruct(op, n)

\* Four calls leave it to the application to keep to the size of an array that
\* data is copied to: the chunk of aci_cmds.h:223, the key of aci_cmds.h:362-366
\* (and the encoder sends six bytes of a passkey), the data of
\* serial_command.h:50 and the value of serial_command.h:64.  What a call that
\* does not overwrites is not modelled.
Heeds(op, n) ==
    CASE op = "write_dynamic_data" -> n <= DYNAMIC_MAX
      [] op = "set_key" -> n \in PASSKEY .. KEY_MAX
      [] op = "reject_key" -> n <= KEY_MAX
      [] op = "mesh_echo" -> n <= MESH_ECHO_MAX
      [] op = "value_set" -> n <= MESH_VALUE_MAX
      [] OTHER -> TRUE

(* msg_to_send is one buffer, reused by every command: what is not written
   holds bytes of an earlier message.  Whatever the call, and for every size of
   data that the call itself checks or, where it checks none or too little, the
   array declares, every byte the device reads, by the length of the message
   and the packed struct of its opcode, is the byte that was meant for that
   place; and the message is one the transport has room for. *)
EncodesCommand ==
    asked.kind = "command" /\ Heeds(asked.op, asked.n) =>
        LET expected == Overlay(asked.op, Struct(asked.op, asked.n)) IN
        /\ msg.op = expected.op
        /\ msg.length = expected.length
        /\ msg.length <= MAX_LENGTH
        /\ \A i \in DOMAIN expected.at :
              i \in DOMAIN msg.at /\ msg.at[i] = expected.at[i]

\* What the decoders make of the event in msg.
decoded ==
    LET at == IF asked.op = "echo" THEN acil_decode_evt_echo(msg.length)
              ELSE acil_decode_evt(asked.op, msg.length)
    IN Message(asked.op, msg.length, at).at

(* An event is read in two ways: lib_aci_event_get and aci_loop overlay a
   packed struct on the buffer, acil_decode_evt picks its bytes by offset.
   Both give every field the same bytes, for data of every length. *)
DecodesAsStruct ==
    asked.kind = "event" =>
        \A i \in DOMAIN msg.at : i \in DOMAIN decoded /\ decoded[i] = msg.at[i]

(* A decoder that copies as many bytes as the length says stays within the
   array it copies to and within the 33 bytes of the event, also for the
   longest event there is. *)
CopyFits ==
    asked.kind = "event" =>
        \A i \in DOMAIN decoded :
            /\ i <= 32
            /\ decoded[i][1] \in DOMAIN Capacity => decoded[i][2] < Capacity[decoded[i][1]]

(* Pipes are opened for advertising one call at a time, but the device gets
   the whole bitmap each time: the last bitmap it accepted has every pipe of
   an accepted call since the bitmap was last set as a whole. *)
AdvPipesKept == wanted \subseteq carried

interval_ms_16 ==       \* the product kept in sixteen bits
    ((connection_interval * 125) % 2^16) \div 100
\* The product is kept in 32 bits, which no 16 bit interval times 125 leaves;
\* the result is cut to 16 bits.
lib_aci_get_cx_interval_ms == ((connection_interval * 125) \div 100) % 2^16

(* The interval in milliseconds is 1.25 times the one the link uses, rounded
   down, over the whole range of intervals: the product does not overflow.
   The unit of 1.25 ms is that of lib_aci.h:94 and :150 and of aci_evts.h:233;
   the comment of lib_aci.cpp:151, "multiples of 0.125 milliseconds", is wrong. *)
IntervalInMs ==
    /\ 4 * lib_aci_get_cx_interval_ms <= 5 * connection_interval
    /\ 5 * connection_interval < 4 * lib_aci_get_cx_interval_ms + 4
=============================================================================
