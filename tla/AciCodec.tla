------------------------------ MODULE AciCodec ------------------------------
(***************************************************************************)
(* The encoders and decoders of acilib.cpp, written with the offsets of    *)
(* aci_protocol_defines.h and the lengths of acilib.h, and the packed      *)
(* structs of aci_cmds.h and aci_evts.h they must agree with: the device   *)
(* reads a command as a struct, and lib_aci_event_get and aci_loop read an *)
(* event by overlaying one.                                                *)
(*                                                                         *)
(* n is the number of data bytes of a message with an array of variable    *)
(* length; encoders of fixed size ignore it where they share a table.      *)
(***************************************************************************)
EXTENDS WireFormat

\* ACI_PIPE_TX_DATA_MAX_LEN, ACI_ECHO_DATA_MAX_LEN, BTLE_DEVICE_ADDRESS_SIZE,
\* PIPES_ARRAY_SIZE, and the capacities of two arrays of aci_evts.h.
TX_DATA_MAX == 20
RX_DATA_MAX == 22
ECHO_MAX    == 29
DYNAMIC_MAX == 29       \* ACI_PACKET_MAX_LEN - 3, a chunk of dynamic data
PASSKEY     == 6
KEY_MAX     == 16       \* the union of aci_cmd_params_set_key_t
ADDRESS     == 6
BITMAP      == 8
FILE_NAME   == 20
RSP_PADDING == 29

\* Offsets within aci_ll_conn_params_t and aci_tx_data_t / aci_rx_data_t.
LL == [min_conn_interval |-> <<0, 1>>, max_conn_interval |-> <<2, 3>>,
       slave_latency |-> <<4, 5>>, timeout_mult |-> <<6, 7>>]
DATA == [pipe_number |-> 0, aci_data |-> 1]

\* Offsets of the command parameters.
CMD == [test_mode_change |-> 0, echo_data |-> 0, cmd_msb |-> 0, cmd_lsb |-> 1,
        setup_data |-> 0, seq_no |-> 0, dynamic_data |-> 1, timeout |-> <<0, 1>>,
        adv_interval |-> <<2, 3>>, reason |-> 0, device_power |-> 0,
        pipe_number |-> 0, error_code |-> 1, mode |-> 0, latency |-> <<1, 2>>,
        key_type |-> 0, key |-> 1, pipes |-> 0]

\* Offsets of the event parameters, and of the parameters of a response.
EVT == [device_mode |-> 0, hw_error |-> 1, credit_available |-> 2,
        line_num |-> <<0, 1>>, file_name |-> 2,
        cmd_opcode |-> 0, cmd_status |-> 1, response |-> 2,
        dev_addr_type |-> 0, dev_addr |-> 1,
        conn_rf_interval |-> <<7, 8>>, conn_slave_rf_latency |-> <<9, 10>>,
        conn_rf_timeout |-> <<11, 12>>, master_clock_accuracy |-> 13,
        aci_status |-> 0, btle_status |-> 1,
        status_code |-> 0, status_source |-> 1, secmode1_bitmap |-> 2,
        secmode2_bitmap |-> 3, keys_exchanged_slave |-> 4,
        keys_exchanged_master |-> 5,
        pipes_open_bitmap |-> 0, pipes_closed_bitmap |-> 8,
        timing_interval |-> <<0, 1>>, timing_latency |-> <<2, 3>>,
        timing_timeout |-> <<4, 5>>,
        credit |-> 0, ack_pipe |-> 0, pipe_number |-> 0, error_code |-> 1,
        error_data |-> 2, passkey |-> 0, key_type |-> 0]
RSP == [evt_msb |-> 0, evt_lsb |-> 1, seq_no |-> 0, dynamic_data |-> 1,
        configuration_id |-> <<0, 1>>, aci_version |-> 2, setup_format |-> 3,
        setup_id |-> <<4, 5, 6, 7>>, setup_status |-> 8,
        bd_addr_own |-> 0, bd_addr_type |-> 6,
        battery_level |-> <<0, 1>>, temperature_value |-> <<0, 1>>]

\* Message lengths of acilib.h; of the variable ones, the base length.
MSG == [set_local_data |-> 2, connect |-> 5, bond |-> 5, disconnect |-> 2,
        radio_reset |-> 1, wakeup |-> 1, set_tx_power |-> 2,
        get_device_address |-> 1, send_data |-> 2, request_data |-> 2,
        open_remote_pipe |-> 2, close_remote_pipe |-> 2, dtm_cmd |-> 3,
        write_dynamic_data |-> 2, setup |-> 1, echo |-> 1, change_timing |-> 9,
        set_app_latency |-> 4, change_timing_gap_ppcp |-> 1,
        connect_direct |-> 1, set_key_reject |-> 2, set_key_passkey |-> 8,
        send_data_ack |-> 2, send_data_nack |-> 3, broadcast |-> 5,
        open_adv_pipe |-> 9]

-----------------------------------------------------------------------------
(* The packed structs. *)

data_struct(n)   == << <<"pipe_number", 1>>, <<"aci_data", n>> >>
advertise_struct == << <<"timeout", 2>>, <<"adv_interval", 2>> >>
pipe_struct      == << <<"pipe_number", 1>> >>

\* The union of aci_cmd_t by opcode, its first parameters...
aci_cmd_params_1(n) ==
    [test |-> << <<"test_mode_change", 1>> >>,
     echo |-> << <<"echo_data", n>> >>,
     dtm_cmd |-> << <<"cmd_msb", 1>>, <<"cmd_lsb", 1>> >>,
     setup |-> << <<"setup_data", n>> >>,
     write_dynamic_data |-> << <<"seq_no", 1>>, <<"dynamic_data", n>> >>,
     set_local_data |-> data_struct(n),
     connect |-> advertise_struct,
     bond |-> advertise_struct,
     disconnect |-> << <<"reason", 1>> >>,
     set_tx_power |-> << <<"device_power", 1>> >>]

\* ... and the others.  A key is rejected with its type alone ("reject_key" is
\* ACI_CMD_SET_KEY of type ACI_KEY_TYPE_INVALID), and
\* ACI_CMD_CHANGE_TIMING without parameters asks for the GAP PPCP values.
aci_cmd_params_2(n) ==
    [change_timing |-> IF n = 0 THEN <<>> ELSE
        << <<"min_conn_interval", 2>>, <<"max_conn_interval", 2>>,
           <<"slave_latency", 2>>, <<"timeout_mult", 2>> >>,
     open_remote_pipe |-> pipe_struct,
     send_data |-> data_struct(n),
     send_data_ack |-> pipe_struct,
     request_data |-> pipe_struct,
     send_data_nack |-> << <<"pipe_number", 1>>, <<"error_code", 1>> >>,
     set_app_latency |-> << <<"mode", 1>>, <<"latency", 2>> >>,
     set_key |-> << <<"key_type", 1>>, <<"key", PASSKEY>> >>,
     reject_key |-> << <<"key_type", 1>> >>,
     open_adv_pipe |-> << <<"pipes", BITMAP>> >>,
     broadcast |-> advertise_struct,
     close_remote_pipe |-> pipe_struct]

\* Commands that are an opcode and nothing else.
BareCommands == {"sleep", "wakeup", "get_device_version", "get_device_address",
    "get_battery_level", "get_temperature", "read_dynamic_data", "radio_reset",
    "connect_direct", "bond_security_request"}

CmdStruct(op, n) ==
    IF op \in BareCommands THEN <<>>
    ELSE (aci_cmd_params_1(n) ++ aci_cmd_params_2(n))[op]

address_struct == << <<"bd_addr_own", ADDRESS>>, <<"bd_addr_type", 1>> >>

\* aci_evt_params_cmd_rsp_t: the parameters of a response, by command.
rsp_struct(n) ==
    [dtm_cmd |-> << <<"evt_msb", 1>>, <<"evt_lsb", 1>> >>,
     read_dynamic_data |-> << <<"seq_no", 1>>, <<"dynamic_data", n>> >>,
     get_device_version |->
        << <<"configuration_id", 2>>, <<"aci_version", 1>>, <<"setup_format", 1>>,
           <<"setup_id", 4>>, <<"setup_status", 1>> >>,
     get_device_address |-> address_struct,
     get_battery_level |-> << <<"battery_level", 2>> >>,
     get_temperature |-> << <<"temperature_value", 2>> >>,
     connect |-> <<>>]

timing_struct == << <<"conn_rf_interval", 2>>, <<"conn_slave_rf_latency", 2>>,
                    <<"conn_rf_timeout", 2>> >>

\* The union of aci_evt_t by opcode.
evt_struct(n) ==
    [device_started |-> << <<"device_mode", 1>>, <<"hw_error", 1>>,
                           <<"credit_available", 1>> >>,
     echo |-> << <<"echo_data", n>> >>,
     hw_error |-> << <<"line_num", 2>>, <<"file_name", n>> >>,
     connected |-> << <<"dev_addr_type", 1>>, <<"dev_addr", ADDRESS>> >>
                   \o timing_struct \o << <<"master_clock_accuracy", 1>> >>,
     disconnected |-> << <<"aci_status", 1>>, <<"btle_status", 1>> >>,
     bond_status |-> << <<"status_code", 1>>, <<"status_source", 1>>,
        <<"secmode1_bitmap", 1>>, <<"secmode2_bitmap", 1>>,
        <<"keys_exchanged_slave", 1>>, <<"keys_exchanged_master", 1>> >>,
     pipe_status |-> << <<"pipes_open_bitmap", BITMAP>>,
                        <<"pipes_closed_bitmap", BITMAP>> >>,
     timing |-> timing_struct,
     data_credit |-> << <<"credit", 1>> >>,
     data_ack |-> pipe_struct,
     data_received |-> data_struct(n),
     pipe_error |-> << <<"pipe_number", 1>>, <<"error_code", 1>>, <<"content", 1>> >>,
     display_passkey |-> << <<"passkey", 6>> >>,
     key_request |-> << <<"key_type", 1>> >>]

Responses == DOMAIN rsp_struct(0)
Events    == DOMAIN evt_struct(0)

\* An event is its opcode, or the command it responds to.
EvtStruct(e, n) ==
    IF e \in Events THEN evt_struct(n)[e]
    ELSE << <<"cmd_opcode", 1>>, <<"cmd_status", 1>> >> \o rsp_struct(n)[e]

-----------------------------------------------------------------------------
(* Encoders. *)

Bare(op) == Message(op, 1, Nothing)
\* The pipe number and n data bytes of set_local_data and send_data.
PipeData(n) == Byte(DATA.pipe_number, "pipe_number") ++ Copy(DATA.aci_data, "aci_data", n)
Advertise   == Word(CMD.timeout, "timeout") ++ Word(CMD.adv_interval, "adv_interval")
Pipe        == Byte(CMD.pipe_number, "pipe_number")

acil_encode_cmd_set_test_mode ==
    Message("test", 2, Byte(CMD.test_mode_change, "test_mode_change"))
acil_encode_cmd_sleep == Bare("sleep")
acil_encode_cmd_get_device_version == Bare("get_device_version")
acil_encode_cmd_set_local_data(n) ==
    Message("set_local_data", MSG.set_local_data + n, PipeData(n))
acil_encode_cmd_connect == Message("connect", MSG.connect, Advertise)
acil_encode_cmd_bond == Message("bond", MSG.bond, Advertise)
acil_encode_cmd_disconnect ==
    Message("disconnect", MSG.disconnect, Byte(CMD.reason, "reason"))
acil_encode_baseband_reset == Message("radio_reset", MSG.radio_reset, Nothing)
acil_encode_direct_connect == Message("connect_direct", MSG.connect_direct, Nothing)
acil_encode_cmd_wakeup == Message("wakeup", MSG.wakeup, Nothing)
acil_encode_cmd_set_radio_tx_power ==
    Message("set_tx_power", MSG.set_tx_power, Byte(CMD.device_power, "device_power"))
acil_encode_cmd_get_address ==
    Message("get_device_address", MSG.get_device_address, Nothing)
acil_encode_cmd_send_data(n) ==
    Message("send_data", MSG.send_data + n, PipeData(n))
acil_encode_cmd_request_data == Message("request_data", MSG.request_data, Pipe)
acil_encode_cmd_open_remote_pipe ==
    Message("open_remote_pipe", MSG.open_remote_pipe, Pipe)
acil_encode_cmd_close_remote_pipe ==
    Message("close_remote_pipe", MSG.close_remote_pipe, Pipe)
acil_encode_cmd_echo_msg(n) ==
    Message("echo", MSG.echo + n, Copy(CMD.echo_data, "echo_data", n))
acil_encode_cmd_battery_level == Bare("get_battery_level")
acil_encode_cmd_temparature == Bare("get_temperature")
acil_encode_cmd_read_dynamic_data == Bare("read_dynamic_data")
write_dynamic_data_short(n) ==      \* the sequence number is not counted
    Message("write_dynamic_data", MSG.write_dynamic_data - 1 + n,
            Byte(CMD.seq_no, "seq_no") ++ Copy(CMD.dynamic_data, "dynamic_data", n))
\* n may be any uint8_t: the length byte wraps, the copy does not.
acil_encode_cmd_write_dynamic_data(n) ==
    Message("write_dynamic_data", (MSG.write_dynamic_data + n) % 2^8,
            Byte(CMD.seq_no, "seq_no") ++ Copy(CMD.dynamic_data, "dynamic_data", n))
acil_encode_cmd_change_timing_req ==
    Message("change_timing", MSG.change_timing,
            Word(LL.min_conn_interval, "min_conn_interval")
            ++ Word(LL.max_conn_interval, "max_conn_interval")
            ++ Word(LL.slave_latency, "slave_latency")
            ++ Word(LL.timeout_mult, "timeout_mult"))
acil_encode_cmd_set_app_latency ==
    Message("set_app_latency", MSG.set_app_latency,
            Byte(CMD.mode, "mode") ++ Word(CMD.latency, "latency"))
acil_encode_cmd_change_timing_req_GAP_PPCP ==
    Message("change_timing", MSG.change_timing_gap_ppcp, Nothing)
acil_encode_cmd_setup(n) ==
    Message("setup", n + MSG.setup, Copy(CMD.setup_data, "setup_data", n))
acil_encode_cmd_dtm_cmd ==
    Message("dtm_cmd", MSG.dtm_cmd,
            Byte(CMD.cmd_msb, "cmd_msb") ++ Byte(CMD.cmd_lsb, "cmd_lsb"))
acil_encode_cmd_send_data_ack == Message("send_data_ack", MSG.send_data_ack, Pipe)
acil_encode_cmd_send_data_nack ==
    Message("send_data_nack", MSG.send_data_nack,
            Pipe ++ Byte(CMD.error_code, "error_code"))
acil_encode_cmd_bond_security_request == Bare("bond_security_request")
acil_encode_cmd_broadcast == Message("broadcast", MSG.broadcast, Advertise)
acil_encode_cmd_open_adv_pipes ==
    Message("open_adv_pipe", MSG.open_adv_pipe, Copy(CMD.pipes, "pipes", BITMAP))

\* The length follows from the type of the key, ACI_KEY_TYPE_PASSKEY or
\* ACI_KEY_TYPE_INVALID, the two that aci_key_type_t has; the default of the
\* switch is for none of them.  Of the key the first n bytes are the caller's;
\* the rest of what is sent was never written.
acil_encode_cmd_set_key(passkey, n) ==
    LET length == IF passkey THEN MSG.set_key_passkey ELSE MSG.set_key_reject
        copied == length - 2
    IN  Message(IF passkey THEN "set_key" ELSE "reject_key", length,
                Byte(CMD.key_type, "key_type")
                ++ Copy(CMD.key, "key", IF n < copied THEN n ELSE copied))

\* The opcodes acil_encode_cmd knows, each with the bytes that precede its
\* data in the length; of a command of unknown opcode it writes nothing.
acil_encode_cmd(op, length) ==
    [test |-> acil_encode_cmd_set_test_mode,
     sleep |-> acil_encode_cmd_sleep,
     get_device_version |-> acil_encode_cmd_get_device_version,
     wakeup |-> acil_encode_cmd_wakeup,
     echo |-> acil_encode_cmd_echo_msg(length - MSG.echo),
     get_battery_level |-> acil_encode_cmd_battery_level,
     get_temperature |-> acil_encode_cmd_temparature,
     get_device_address |-> acil_encode_cmd_get_address,
     set_tx_power |-> acil_encode_cmd_set_radio_tx_power,
     connect |-> acil_encode_cmd_connect,
     bond |-> acil_encode_cmd_bond,
     disconnect |-> acil_encode_cmd_disconnect,
     radio_reset |-> acil_encode_baseband_reset,
     change_timing |-> acil_encode_cmd_change_timing_req,
     setup |-> acil_encode_cmd_setup(length - MSG.setup),
     dtm_cmd |-> acil_encode_cmd_dtm_cmd,
     read_dynamic_data |-> acil_encode_cmd_read_dynamic_data,
     write_dynamic_data |->
        acil_encode_cmd_write_dynamic_data(length - MSG.write_dynamic_data),
     open_remote_pipe |-> acil_encode_cmd_open_remote_pipe,
     send_data |-> acil_encode_cmd_send_data(length - MSG.send_data),
     send_data_ack |-> acil_encode_cmd_send_data_ack,
     request_data |-> acil_encode_cmd_request_data,
     set_local_data |-> acil_encode_cmd_set_local_data(length - MSG.set_local_data),
     bond_security_request |-> acil_encode_cmd_bond_security_request][op]

-----------------------------------------------------------------------------
(* Decoders of an event of the given length: the positions of the buffer they *)
(* read, with the byte of the struct each is stored in.                       *)

acil_decode_evt_device_started ==
    Byte(EVT.device_mode, "device_mode") ++ Byte(EVT.hw_error, "hw_error")
    ++ Byte(EVT.credit_available, "credit_available")

dynamic_data_size_with_status(length) == length - 2
\* Subtracts the event code, the command and the status, not the sequence
\* number: one byte more than the device sent is copied.
dynamic_data_size(length) == length - 3

\* The parameters of a response, at the positions of an event.
response_of(e, length) ==
    [get_device_version |->
        Word(RSP.configuration_id, "configuration_id")
        ++ Byte(RSP.aci_version, "aci_version") ++ Byte(RSP.setup_format, "setup_format")
        ++ [j \in Range(RSP.setup_id) |-> <<"setup_id", j - RSP.setup_id[1]>>]
        ++ Byte(RSP.setup_status, "setup_status"),
     get_device_address |->
        Copy(RSP.bd_addr_own, "bd_addr_own", ADDRESS)
        ++ Byte(RSP.bd_addr_type, "bd_addr_type"),
     get_temperature |-> Word(RSP.temperature_value, "temperature_value"),
     get_battery_level |-> Word(RSP.battery_level, "battery_level"),
     read_dynamic_data |->
        Byte(RSP.seq_no, "seq_no")
        ++ Copy(RSP.dynamic_data, "dynamic_data", dynamic_data_size(length)),
     dtm_cmd |-> Byte(RSP.evt_msb, "evt_msb") ++ Byte(RSP.evt_lsb, "evt_lsb"),
     connect |-> Nothing][e]

acil_decode_evt_command_response(e, length) ==
    LET response == response_of(e, length) IN
    Byte(EVT.cmd_opcode, "cmd_opcode") ++ Byte(EVT.cmd_status, "cmd_status")
    ++ [i \in {EVT.response + j : j \in DOMAIN response} |-> response[i - EVT.response]]

acil_decode_evt_pipe_status ==
    Copy(EVT.pipes_open_bitmap, "pipes_open_bitmap", 8)
    ++ Copy(EVT.pipes_closed_bitmap, "pipes_closed_bitmap", 8)

acil_decode_evt_disconnected ==
    Byte(EVT.aci_status, "aci_status") ++ Byte(EVT.btle_status, "btle_status")

acil_decode_evt_bond_status ==
    Byte(EVT.status_code, "status_code") ++ Byte(EVT.status_source, "status_source")
    ++ Byte(EVT.secmode1_bitmap, "secmode1_bitmap")
    ++ Byte(EVT.secmode2_bitmap, "secmode2_bitmap")
    ++ Byte(EVT.keys_exchanged_slave, "keys_exchanged_slave")
    ++ Byte(EVT.keys_exchanged_master, "keys_exchanged_master")

acil_decode_evt_data_received(length) ==
    Byte(DATA.pipe_number, "pipe_number")
    ++ Copy(DATA.aci_data, "aci_data", length - (PARAMS + DATA.aci_data) + 1)

acil_decode_evt_data_ack == Byte(EVT.ack_pipe, "pipe_number")

decode_hw_error_short(length) ==        \* the last character is lost
    Word(EVT.line_num, "line_num")
    ++ Copy(EVT.file_name, "file_name", length - (PARAMS + EVT.file_name))
acil_decode_evt_hw_error(length) ==
    Word(EVT.line_num, "line_num")
    ++ Copy(EVT.file_name, "file_name", length - (PARAMS + EVT.file_name) + 1)

acil_decode_evt_credit == Byte(EVT.credit, "credit")

acil_decode_evt_connected ==
    Byte(EVT.dev_addr_type, "dev_addr_type") ++ Copy(EVT.dev_addr, "dev_addr", ADDRESS)
    ++ Word(EVT.conn_rf_interval, "conn_rf_interval")
    ++ Word(EVT.conn_slave_rf_latency, "conn_slave_rf_latency")
    ++ Word(EVT.conn_rf_timeout, "conn_rf_timeout")
    ++ Byte(EVT.master_clock_accuracy, "master_clock_accuracy")

acil_decode_evt_timing ==
    Word(EVT.timing_interval, "conn_rf_interval")
    ++ Word(EVT.timing_latency, "conn_slave_rf_latency")
    ++ Word(EVT.timing_timeout, "conn_rf_timeout")

acil_decode_evt_pipe_error ==
    Byte(EVT.pipe_number, "pipe_number") ++ Byte(EVT.error_code, "error_code")
    ++ Byte(EVT.error_data, "content")

acil_decode_evt_key_request == Byte(EVT.key_type, "key_type")

acil_decode_evt_display_passkey == Copy(EVT.passkey, "passkey", 6)

\* An echo is decoded by itself: acil_decode_evt does not know its opcode.
acil_decode_evt_echo(length) == Copy(0, "echo_data", length - 1)

\* The opcodes acil_decode_evt knows; for another it reports failure.
acil_decode_evt(e, length) ==
    IF e \in Responses THEN acil_decode_evt_command_response(e, length)
    ELSE [device_started |-> acil_decode_evt_device_started,
          hw_error |-> acil_decode_evt_hw_error(length),
          data_credit |-> acil_decode_evt_credit,
          connected |-> acil_decode_evt_connected,
          pipe_status |-> acil_decode_evt_pipe_status,
          disconnected |-> acil_decode_evt_disconnected,
          bond_status |-> acil_decode_evt_bond_status,
          timing |-> acil_decode_evt_timing,
          data_ack |-> acil_decode_evt_data_ack,
          data_received |-> acil_decode_evt_data_received(length),
          pipe_error |-> acil_decode_evt_pipe_error,
          key_request |-> acil_decode_evt_key_request,
          display_passkey |-> acil_decode_evt_display_passkey][e]

\* Bytes the array of a field can take, where its struct declares a fixed one.
Capacity ==
    [aci_data |-> RX_DATA_MAX, file_name |-> FILE_NAME, echo_data |-> ECHO_MAX,
     dynamic_data |-> RSP_PADDING - 1, dev_addr |-> ADDRESS,
     bd_addr_own |-> ADDRESS, passkey |-> 6,
     pipes_open_bitmap |-> BITMAP, pipes_closed_bitmap |-> BITMAP]
=============================================================================
