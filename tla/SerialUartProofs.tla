-------------------------- MODULE SerialUartProofs --------------------------
(***************************************************************************)
(* What holds of the calls of lib_aci.cpp, and of the lines of the serial  *)
(* example, for every pipe map, every size of data and every interval.     *)
(* First the state of the library, where the bytes of the messages play no *)
(* part; then the messages themselves, with the lemmas on the encoders and *)
(* decoders in AciCodecProofs; and last the types, of the lines too.       *)
(***************************************************************************)
EXTENDS SerialUart, AciCodecProofs

-----------------------------------------------------------------------------
(* The state the library keeps. *)

\* The types of what the application can read of aci_state and of the static
\* bitmap of lib_aci.cpp.
StateTypes ==
    /\ pipes_open \subseteq LinkPipes /\ pipes_closed \subseteq LinkPipes
    /\ connection_interval \in {0} \cup Intervals
    /\ adv \subseteq AdvPipes /\ wanted \subseteq AdvPipes /\ carried \subseteq AdvPipes

\* A pipe asked for stays in the static bitmap, so that the next message has
\* it again: wanted \subseteq carried alone is not inductive.
StaysAsked == wanted \subseteq adv

LibraryInv == StateTypes /\ StaysAsked /\ AdvPipesKept

(* Nothing but the six calls that say so touches the library's state. *)
LEMMA QuietCalls ==
    ASSUME LibraryInv, UNCHANGED <<stateVars, advVars>>
    PROVE  LibraryInv'
BY DEF LibraryInv, StateTypes, StaysAsked, AdvPipesKept, stateVars, advVars

(* A refused lib_aci_open_adv_pipe leaves its bit in the bitmap: the message
   that goes out later has more than was wanted, never less. *)
LEMMA OneMoreAdvPipe ==
    ASSUME LibraryInv, NEW p \in AdvPipes, lib_aci_open_adv_pipe(p)
    PROVE  LibraryInv'
<1>1. StateTypes'
  BY DEF LibraryInv, StateTypes, lib_aci_open_adv_pipe, SendAdvPipes, adv_with, stateVars
<1>2. StaysAsked'
  BY DEF LibraryInv, StaysAsked, lib_aci_open_adv_pipe, SendAdvPipes, adv_with
<1>3. AdvPipesKept'
  BY DEF LibraryInv, StaysAsked, AdvPipesKept, lib_aci_open_adv_pipe, SendAdvPipes, adv_with
<1>4. QED BY <1>1, <1>2, <1>3 DEF LibraryInv

(* The bitmap set as a whole. *)
LEMMA AllAdvPipes ==
    ASSUME LibraryInv, NEW pipes \in SUBSET AdvPipes, lib_aci_open_adv_pipes(pipes)
    PROVE  LibraryInv'
BY DEF LibraryInv, StateTypes, StaysAsked, AdvPipesKept, lib_aci_open_adv_pipes,
       SendAdvPipes, stateVars

(* The events that tell of pipes and of the interval. *)
LEMMA EventsKeepTypes ==
    ASSUME LibraryInv, lib_aci_event_get
    PROVE  LibraryInv'
<1>1. UNCHANGED advVars
  BY DEF lib_aci_event_get, Take
<1>2. pipes_open' \subseteq LinkPipes /\ pipes_closed' \subseteq LinkPipes
  BY DEF lib_aci_event_get, LibraryInv, StateTypes, stateVars
<1>3. connection_interval' \in {0} \cup Intervals
  BY DEF lib_aci_event_get, LibraryInv, StateTypes, stateVars
<1>4. QED
  BY <1>1, <1>2, <1>3 DEF LibraryInv, StateTypes, StaysAsked, AdvPipesKept, advVars

(* Every call of the library keeps it. *)
LEMMA LibraryStep ==
    ASSUME LibraryInv, Next
    PROVE  LibraryInv'
<1>1. CASE UNCHANGED <<stateVars, advVars>>
  BY <1>1, QuietCalls
<1>2. CASE lib_aci_disconnect
  BY <1>2 DEF LibraryInv, StateTypes, StaysAsked, AdvPipesKept, lib_aci_disconnect, advVars
<1>3. CASE \E pipes \in SUBSET AdvPipes : lib_aci_open_adv_pipes(pipes)
  BY <1>3, AllAdvPipes
<1>4. CASE \E p \in AdvPipes : lib_aci_open_adv_pipe(p)
  BY <1>4, OneMoreAdvPipe
<1>5. CASE lib_aci_init
  BY <1>5 DEF LibraryInv, StateTypes, StaysAsked, AdvPipesKept, lib_aci_init
<1>6. CASE lib_aci_event_get
  BY <1>6, EventsKeepTypes
<1>7. QED BY <1>1, <1>2, <1>3, <1>4, <1>5, <1>6 DEF Next

(* And so does the serial example. *)
LEMMA LibraryAlways == SerialSpec => []LibraryInv
<1>1. SerialInit => LibraryInv
  BY DEF SerialInit, Init, LibraryInv, StateTypes, StaysAsked, AdvPipesKept
<1>2. LibraryInv /\ [SerialNext]_serialVars => LibraryInv'
  <2> SUFFICES ASSUME LibraryInv, [SerialNext]_serialVars PROVE LibraryInv'
    OBVIOUS
  <2>1. CASE Next
    BY <2>1, LibraryStep
  <2>2. CASE \E msg_length \in 1 .. SERIAL_BUFFER_LENGTH, named \in BOOLEAN, credits \in 0..1 :
                handle_serial_input(msg_length, named, credits)
    BY <2>2, QuietCalls DEF handle_serial_input
  <2>3. CASE UNCHANGED serialVars
    BY <2>3, QuietCalls DEF serialVars, vars
  <2>4. QED BY <2>1, <2>2, <2>3 DEF SerialNext
<1>3. QED BY <1>1, <1>2, PTL DEF SerialSpec

(* The bitmap the device last accepted has every pipe of an accepted
   lib_aci_open_adv_pipe, and of the last accepted lib_aci_open_adv_pipes,
   whatever was refused in between. *)
THEOREM AdvPipesAreKept == SerialSpec => []AdvPipesKept
<1>1. LibraryInv => AdvPipesKept
  BY DEF LibraryInv
<1>2. QED BY LibraryAlways, <1>1, PTL

(* lib_aci_get_cx_interval_ms is right for every interval a link may have:
   neither its product nor its result leaves its integer. *)
THEOREM IntervalIsExact == SerialSpec => []IntervalInMs
<1>1. LibraryInv => connection_interval \in 0..3200
  BY LibraryAssumption DEF LibraryInv, StateTypes
<1>2. connection_interval \in 0..3200 => IntervalInMs
  <2> SUFFICES ASSUME connection_interval \in 0..3200 PROVE IntervalInMs
    OBVIOUS
  <2>1. 2^16 = 65536
    OBVIOUS
  <2> DEFINE ms == (connection_interval * 125) \div 100
  <2>2. /\ ms \in 0..4000
        /\ 4 * ms <= 5 * connection_interval
        /\ 5 * connection_interval < 4 * ms + 4
    OBVIOUS
  <2>3. \A m \in 0..4000 : m % 65536 = m
    OBVIOUS
  <2>4. lib_aci_get_cx_interval_ms = ms
    BY <2>1, <2>2, <2>3 DEF lib_aci_get_cx_interval_ms
  <2>5. QED BY <2>2, <2>4 DEF IntervalInMs
<1>3. QED BY LibraryAlways, <1>1, <1>2, PTL

-----------------------------------------------------------------------------
(* The commands.                                                            *)

(* The opcodes of the commands and of the mesh commands are told apart by
   name, except the two that both have. *)
LEMMA NotMesh ==
    /\ \A op \in BareCommands : op \notin MeshCommands
    /\ \A op \in {"test", "disconnect", "set_tx_power", "set_app_latency", "dtm_cmd",
                  "send_data_nack", "open_adv_pipe", "request_data", "open_remote_pipe",
                  "close_remote_pipe", "send_data_ack", "connect", "bond", "broadcast",
                  "send_data", "set_local_data", "echo", "setup", "write_dynamic_data",
                  "change_timing", "set_key", "reject_key"} : op \notin MeshCommands
    /\ {"mesh_echo", "value_set", "mesh_init", "value_enable", "value_disable",
        "value_get"} \cup MeshQueries \subseteq MeshCommands
BY DEF BareCommands, MeshCommands, MeshQueries, serial_cmd_params

\* What EncodesCommand asks of the message m of op with n bytes of data.
Sound(m, op, n) ==
    Heeds(op, n) => Agrees(m, Overlay(op, Struct(op, n))) /\ Short(m)

(* A message offered with these is encoded, whatever the transport answers. *)
LEMMA OfferEncodes ==
    ASSUME NEW op, NEW n, NEW m, Sound(m, op, n),
           asked' = [kind |-> "command", op |-> op, n |-> n], msg' = m
    PROVE  EncodesCommand'
<1>1. asked'.op = op /\ asked'.n = n
  OBVIOUS
<1>2. Heeds(asked'.op, asked'.n)
        => Agrees(msg', Overlay(asked'.op, Struct(asked'.op, asked'.n))) /\ Short(msg')
  BY <1>1 DEF Sound
<1>3. Short(msg') => msg'.length <= MAX_LENGTH
  BY DEF Short, MAX_LENGTH
<1>4. QED BY <1>2, <1>3, Zenon DEF EncodesCommand, Agrees

(* A command that acilib.cpp encodes, and one of the mesh. *)
LEMMA Sounds ==
    /\ \A op, n, m : op \notin MeshCommands /\ (Heeds(op, n) => EncodedAs(m, op, n) /\ Short(m)) => Sound(m, op, n)
    /\ \A op, n, m : op \in MeshCommands /\ (Heeds(op, n) => MeshAs(m, op, n) /\ Short(m)) => Sound(m, op, n)
BY DEF Sound, Struct, EncodedAs, MeshAs

(* A refused call builds nothing. *)
LEMMA RefusedEncodes ==
    ASSUME NEW op, NEW n, Refuse(op, n)
    PROVE  EncodesCommand'
BY DEF EncodesCommand, Refuse

\* The commands that the mesh does not share, data aside.
Plain == BareCommands \cup
    {"test", "disconnect", "set_tx_power", "set_app_latency", "dtm_cmd",
     "send_data_nack", "open_adv_pipe", "request_data", "open_remote_pipe",
     "close_remote_pipe", "send_data_ack", "connect", "bond", "broadcast",
     "echo", "setup", "change_timing"}

(* Those whose data needs no limit of the caller. *)
LEMMA PlainEncodes ==
    ASSUME NEW op \in Plain, NEW n, NEW m, EncodedAs(m, op, n), Short(m), Offer(m, op, n)
    PROVE  EncodesCommand'
<1>1. op \notin MeshCommands
  BY NotMesh DEF Plain, BareCommands
<1>2. QED BY <1>1, Sounds, OfferEncodes, Zenon DEF Offer

(* The calls without arguments that matter here. *)
LEMMA SimpleEncodes ==
    ASSUME SimpleCall
    PROVE  EncodesCommand'
<1>1. BareCommands \subseteq Plain /\ "test" \in Plain /\ "set_tx_power" \in Plain
      /\ "set_app_latency" \in Plain /\ "dtm_cmd" \in Plain /\ "send_data_nack" \in Plain
      /\ "send_data_ack" \in Plain /\ "connect" \in Plain /\ "bond" \in Plain
      /\ "change_timing" \in Plain
      /\ "sleep" \in Plain /\ "get_device_version" \in Plain /\ "radio_reset" \in Plain
      /\ "connect_direct" \in Plain /\ "wakeup" \in Plain /\ "get_device_address" \in Plain
      /\ "get_battery_level" \in Plain /\ "get_temperature" \in Plain
      /\ "read_dynamic_data" \in Plain /\ "bond_security_request" \in Plain
  BY DEF Plain, BareCommands
<1>2. CASE lib_aci_sleep \/ lib_aci_radio_reset \/ lib_aci_direct_connect
           \/ lib_aci_device_version \/ lib_aci_wakeup \/ lib_aci_get_address
           \/ lib_aci_get_temperature \/ lib_aci_get_battery_level
           \/ lib_aci_bond_request \/ lib_aci_read_dynamic_data
  BY <1>1, <1>2, EncodesSimple, FixedShort, PlainEncodes, Zenon
     DEF lib_aci_sleep, lib_aci_radio_reset, lib_aci_direct_connect, lib_aci_device_version,
         lib_aci_wakeup, lib_aci_get_address, lib_aci_get_temperature,
         lib_aci_get_battery_level, lib_aci_bond_request, lib_aci_read_dynamic_data
<1>3. CASE lib_aci_connect \/ lib_aci_bond \/ lib_aci_send_ack
  BY <1>1, <1>3, EncodesAdvertise, EncodesPipe, FixedShort, PlainEncodes, Zenon
     DEF lib_aci_connect, lib_aci_bond, lib_aci_send_ack
<1>4. CASE lib_aci_test \/ lib_aci_set_tx_power \/ lib_aci_set_app_latency
           \/ lib_aci_dtm_command \/ lib_aci_send_nack
  BY <1>1, <1>4, EncodesParameters, FixedShort, PlainEncodes, Zenon
     DEF lib_aci_test, lib_aci_set_tx_power, lib_aci_set_app_latency, lib_aci_dtm_command,
         lib_aci_send_nack
<1>5. CASE lib_aci_change_timing \/ lib_aci_change_timing_GAP_PPCP
  <2>1. 4 \in Nat /\ 4 # 0
    OBVIOUS
  <2>2. QED
    BY <1>1, <1>5, <2>1, EncodesSizes, FixedShort, PlainEncodes, Zenon
       DEF lib_aci_change_timing, lib_aci_change_timing_GAP_PPCP
<1>6. QED BY <1>2, <1>3, <1>4, <1>5, Zenon DEF SimpleCall

(* Data that the call itself limits. *)
LEMMA DataEncodes ==
    ASSUME NEW p, NEW n \in Nat, lib_aci_set_local_data(p, n) \/ lib_aci_send_data(p, n)
    PROVE  EncodesCommand'
<1>1. n <= TX_DATA_MAX => n \in 0 .. 29
  BY DEF TX_DATA_MAX
<1>2. n <= TX_DATA_MAX => /\ Sound(acil_encode_cmd_set_local_data(n), "set_local_data", n)
                          /\ Sound(acil_encode_cmd_send_data(n), "send_data", n)
  <2>1. "send_data" \notin MeshCommands /\ "set_local_data" \notin MeshCommands
    BY NotMesh
  <2>2. QED BY <1>1, <2>1, EncodesSizes, SizedShort, Sounds, Zenon
<1>3. CASE Refuse("set_local_data", n) \/ Refuse("send_data", n)
  BY <1>3, RefusedEncodes
<1>4. CASE n <= TX_DATA_MAX /\ Offer(acil_encode_cmd_set_local_data(n), "set_local_data", n)
  BY <1>2, <1>4, OfferEncodes, Zenon DEF Offer
<1>5. CASE n <= TX_DATA_MAX /\ Offer(acil_encode_cmd_send_data(n), "send_data", n)
  BY <1>2, <1>5, OfferEncodes, Zenon DEF Offer
<1>6. QED
  BY <1>3, <1>4, <1>5, Zenon
     DEF lib_aci_set_local_data, lib_aci_send_data, OfferIf, may_set_local_data, may_send_data

(* Data and keys that it does not limit: the encoding holds of what the caller
   may pass. *)
LEMMA UncheckedEncodes ==
    ASSUME NEW n \in Nat
    PROVE  /\ Sound(acil_encode_cmd_write_dynamic_data(n), "write_dynamic_data", n)
           /\ Sound(acil_encode_cmd_set_key(TRUE, n), "set_key", n)
           /\ Sound(acil_encode_cmd_set_key(FALSE, n), "reject_key", n)
           /\ Sound(rbc_mesh_echo(n), "mesh_echo", n)
           /\ Sound(rbc_mesh_value_set(n), "value_set", n)
<1>1. /\ Heeds("write_dynamic_data", n) => n \in 0 .. 29 /\ n <= DYNAMIC_MAX
      /\ Heeds("set_key", n) => n >= PASSKEY
      /\ Heeds("mesh_echo", n) => n \in 0 .. 29
      /\ Heeds("value_set", n) => n \in 0 .. 29
  BY DEF Heeds, DYNAMIC_MAX, PASSKEY, KEY_MAX, MESH_ECHO_MAX, MESH_VALUE_MAX
<1>2. /\ "write_dynamic_data" \notin MeshCommands /\ "set_key" \notin MeshCommands
      /\ "reject_key" \notin MeshCommands /\ "mesh_echo" \in MeshCommands
      /\ "value_set" \in MeshCommands
  BY NotMesh
<1>3. Sound(acil_encode_cmd_write_dynamic_data(n), "write_dynamic_data", n)
  BY <1>1, <1>2, EncodesSizes, SizedShort, Sounds, Zenon
<1>4. /\ Sound(acil_encode_cmd_set_key(TRUE, n), "set_key", n)
      /\ Sound(acil_encode_cmd_set_key(FALSE, n), "reject_key", n)
  <2>1. TRUE \in BOOLEAN /\ FALSE \in BOOLEAN
    OBVIOUS
  <2>2. QED BY <1>1, <1>2, <2>1, EncodesKey, OtherShort, Sounds, Zenon
<1>5. /\ Sound(rbc_mesh_echo(n), "mesh_echo", n)
      /\ Sound(rbc_mesh_value_set(n), "value_set", n)
  BY <1>1, <1>2, EncodesMesh, SizedShort, Sounds, Zenon
<1>6. QED BY <1>3, <1>4, <1>5

(* The calls with a pipe or with data. *)
LEMMA PipeEncodes ==
    ASSUME PipeCall
    PROVE  EncodesCommand'
<1>1. Sizes \subseteq Nat
  BY LibraryAssumption
<1>2. "request_data" \in Plain /\ "open_remote_pipe" \in Plain /\ "close_remote_pipe" \in Plain
      /\ "echo" \in Plain /\ "broadcast" \in Plain
  BY DEF Plain
<1>3. ASSUME NEW p \in Pipes, NEW n \in Sizes, lib_aci_set_local_data(p, n) \/ lib_aci_send_data(p, n)
      PROVE  EncodesCommand'
  BY <1>1, <1>3, DataEncodes
<1>4. ASSUME NEW p \in Pipes, lib_aci_request_data(p) \/ lib_aci_open_remote_pipe(p) \/ lib_aci_close_remote_pipe(p)
      PROVE  EncodesCommand'
  BY <1>2, <1>4, EncodesPipe, FixedShort, PlainEncodes, RefusedEncodes, Zenon
     DEF lib_aci_request_data, lib_aci_open_remote_pipe, lib_aci_close_remote_pipe, OfferIf
<1>5. ASSUME NEW passkey \in BOOLEAN, NEW n \in Sizes, lib_aci_set_key(passkey, n) PROVE EncodesCommand'
  <2>1. \/ Offer(acil_encode_cmd_set_key(TRUE, n), "set_key", n)
        \/ Offer(acil_encode_cmd_set_key(FALSE, n), "reject_key", n)
    BY <1>5 DEF lib_aci_set_key
  <2>2. QED BY <1>1, <2>1, UncheckedEncodes, OfferEncodes, Zenon DEF Offer
<1>6. ASSUME NEW n \in Sizes, lib_aci_echo_msg(n) PROVE EncodesCommand'
  <2>1. n <= ECHO_MAX => n \in 0 .. 29
    BY <1>1 DEF ECHO_MAX
  <2>2. QED
    BY <1>1, <1>2, <1>6, <2>1, EncodesSizes, SizedShort, PlainEncodes, RefusedEncodes, Zenon
       DEF lib_aci_echo_msg, OfferIf
<1>7. ASSUME NEW n \in Sizes, lib_aci_write_dynamic_data(n) PROVE EncodesCommand'
  BY <1>1, <1>7, UncheckedEncodes, OfferEncodes, Zenon DEF lib_aci_write_dynamic_data, Offer
<1>8. ASSUME NEW timeout, NEW adv_interval, lib_aci_broadcast(timeout, adv_interval) PROVE EncodesCommand'
  <2>1. Offer(acil_encode_cmd_broadcast, "broadcast", 0) \/ Refuse("broadcast", 0)
    BY <1>8 DEF lib_aci_broadcast, OfferIf
  <2>2. EncodedAs(acil_encode_cmd_broadcast, "broadcast", 0) /\ Short(acil_encode_cmd_broadcast)
    BY EncodesAdvertise, FixedShort
  <2>3. QED BY <1>2, <2>1, <2>2, PlainEncodes, RefusedEncodes
<1>9. QED BY <1>3, <1>4, <1>5, <1>6, <1>7, <1>8, SMT DEF PipeCall

(* The calls of the mesh interface. *)
LEMMA MeshEncodes ==
    ASSUME MeshCall
    PROVE  EncodesCommand'
<1>1. Sizes \subseteq Nat /\ 0 \in Nat
  BY LibraryAssumption
<1>2. /\ "mesh_init" \in MeshCommands /\ "value_enable" \in MeshCommands
      /\ "value_disable" \in MeshCommands /\ "value_get" \in MeshCommands
      /\ \A op \in MeshQueries : op \in MeshCommands
  BY NotMesh
<1>3. ASSUME NEW op \in MeshCommands, NEW m, MeshAs(m, op, 0), Short(m), Offer(m, op, 0)
      PROVE  EncodesCommand'
  BY <1>3, Sounds, OfferEncodes, Zenon DEF Offer
<1>4. ASSUME NEW n \in Sizes, \/ OfferIf(n <= MESH_DATA_MAX, rbc_mesh_echo(n), "mesh_echo", n)
                              \/ OfferIf(n \in 1..MESH_DATA_MAX, rbc_mesh_value_set(n), "value_set", n)
      PROVE EncodesCommand'
  BY <1>1, <1>4, UncheckedEncodes, OfferEncodes, RefusedEncodes, Zenon DEF OfferIf, Offer
<1>5. ASSUME NEW channel, OfferIf(channel \in 37..39, rbc_mesh_init, "mesh_init", 0)
      PROVE EncodesCommand'
  BY <1>1, <1>2, <1>3, <1>5, EncodesMesh, OtherShort, RefusedEncodes, Zenon DEF OfferIf
<1>6. CASE \/ Offer(rbc_mesh_value_enable, "value_enable", 0)
           \/ Offer(rbc_mesh_value_disable, "value_disable", 0)
           \/ Offer(rbc_mesh_value_get, "value_get", 0)
           \/ \E op \in MeshQueries : Offer(rbc_mesh_query(op), op, 0)
  BY <1>1, <1>2, <1>3, <1>6, EncodesMesh, OtherShort, Zenon
<1>7. QED BY <1>4, <1>5, <1>6, Zenon DEF MeshCall

(* acil_encode_cmd, called with the length of the struct, encodes the
   command with the n data bytes that were meant. *)
LEMMA EncoderChosen ==
    ASSUME NEW op \in Encodable, NEW n \in Nat
    PROVE  LET m == acil_encode_cmd(op, 1 + Len(StructBytes(CmdStruct(op, n)))) IN
           \/ op = "connect" /\ m = acil_encode_cmd_connect
           \/ op = "send_data_ack" /\ m = acil_encode_cmd_send_data_ack
           \/ op = "change_timing" /\ m = acil_encode_cmd_change_timing_req
           \/ op = "setup" /\ m = acil_encode_cmd_setup(n)
           \/ op = "echo" /\ m = acil_encode_cmd_echo_msg(n)
           \/ op = "send_data" /\ m = acil_encode_cmd_send_data(n)
           \/ op = "set_local_data" /\ m = acil_encode_cmd_set_local_data(n)
           \/ op = "write_dynamic_data" /\ m = acil_encode_cmd_write_dynamic_data(n)
<1> DEFINE L == Len(StructBytes(CmdStruct(op, n)))
<1>1. CASE op \in {"connect", "send_data_ack", "change_timing"}
  <2>1. /\ acil_encode_cmd("connect", 1 + L) = acil_encode_cmd_connect
        /\ acil_encode_cmd("send_data_ack", 1 + L) = acil_encode_cmd_send_data_ack
        /\ acil_encode_cmd("change_timing", 1 + L) = acil_encode_cmd_change_timing_req
    BY Dispatches, Zenon
  <2>2. QED BY <1>1, <2>1, Zenon
<1>2. CASE op \in {"setup", "echo"}
  <2>1. L = n
    <3>1. /\ CmdStruct("setup", n) = << <<"setup_data", n>> >>
          /\ CmdStruct("echo", n) = << <<"echo_data", n>> >>
      BY StructsOf, Zenon
    <3>2. Len(StructBytes(<< <<"setup_data", n>> >>)) = n
      BY WritesSetup, WidthOf, Zenon
    <3>3. Len(StructBytes(<< <<"echo_data", n>> >>)) = n
      BY WritesEcho, WidthOf, Zenon
    <3>4. QED BY <1>2, <3>1, <3>2, <3>3, Zenon
  <2>2. (1 + n) - MSG.setup = n /\ (1 + n) - MSG.echo = n
    BY DEF MSG
  <2>3. /\ acil_encode_cmd("setup", 1 + n) = acil_encode_cmd_setup(n)
        /\ acil_encode_cmd("echo", 1 + n) = acil_encode_cmd_echo_msg(n)
    BY <2>2, Dispatches
  <2>4. QED BY <1>2, <2>1, <2>3, Zenon
<1>3. CASE op \in {"send_data", "set_local_data", "write_dynamic_data"}
  <2>1. L = 1 + n
    <3>1. /\ CmdStruct("send_data", n) = data_struct(n)
          /\ CmdStruct("set_local_data", n) = data_struct(n)
          /\ CmdStruct("write_dynamic_data", n) = << <<"seq_no", 1>>, <<"dynamic_data", n>> >>
      BY StructsOf
    <3>2. Len(StructBytes(data_struct(n))) = 1 + n
      BY WritesData, WidthOf, Zenon
    <3>3. Len(StructBytes(<< <<"seq_no", 1>>, <<"dynamic_data", n>> >>)) = 1 + n
      BY WritesDynamic, WidthOf, Zenon
    <3>4. QED BY <1>3, <3>1, <3>2, <3>3, Zenon
  <2>2. /\ (1 + (1 + n)) - MSG.send_data = n /\ (1 + (1 + n)) - MSG.set_local_data = n
        /\ (1 + (1 + n)) - MSG.write_dynamic_data = n
    BY DEF MSG
  <2>3. /\ acil_encode_cmd("send_data", 1 + (1 + n)) = acil_encode_cmd_send_data(n)
        /\ acil_encode_cmd("set_local_data", 1 + (1 + n)) = acil_encode_cmd_set_local_data(n)
        /\ acil_encode_cmd("write_dynamic_data", 1 + (1 + n)) = acil_encode_cmd_write_dynamic_data(n)
    BY <2>2, Dispatches
  <2>4. QED BY <1>3, <2>1, <2>3, Zenon
<1>4. QED BY <1>1, <1>2, <1>3 DEF Encodable

(* The sizes that EncodeCommand allows fit every encoder it may choose. *)
LEMMA DirectSizes ==
    ASSUME NEW op \in Encodable, NEW n \in Sizes, EncodeCommand(op, n)
    PROVE  n \in Nat /\ n \in 0 .. 30 /\ (op # "setup" => n \in 0 .. 29 /\ n <= DYNAMIC_MAX)
<1>1. n \in Nat
  BY LibraryAssumption
<1>2. n <= (CASE op \in {"send_data", "set_local_data"} -> TX_DATA_MAX
              [] op = "setup" -> MAX_LENGTH - 1
              [] OTHER -> ECHO_MAX)
  BY Zenon DEF EncodeCommand
<1>3. CASE op \in {"send_data", "set_local_data"}
  BY <1>1, <1>2, <1>3 DEF TX_DATA_MAX, DYNAMIC_MAX
<1>4. CASE op = "setup"
  BY <1>1, <1>2, <1>4 DEF MAX_LENGTH
<1>5. CASE op \notin {"send_data", "set_local_data", "setup"}
  BY <1>1, <1>2, <1>5 DEF ECHO_MAX, DYNAMIC_MAX
<1>6. QED BY <1>3, <1>4, <1>5

(* So its message agrees with the struct, and is short. *)
LEMMA EncodesDirectly ==
    ASSUME NEW op \in Encodable, NEW n \in Sizes, EncodeCommand(op, n)
    PROVE  EncodedAs(msg', op, n) /\ Short(msg')
<1>1. n \in Nat /\ n \in 0 .. 30 /\ (op # "setup" => n \in 0 .. 29 /\ n <= DYNAMIC_MAX)
  BY DirectSizes
<1>2. op = "change_timing" => n # 0
  BY <1>1 DEF EncodeCommand
<1>3. msg' = acil_encode_cmd(op, 1 + Len(StructBytes(CmdStruct(op, n))))
  BY DEF EncodeCommand
<1>4. CASE op \in {"connect", "send_data_ack", "change_timing"}
  <2>1. \/ op = "connect" /\ msg' = acil_encode_cmd_connect
        \/ op = "send_data_ack" /\ msg' = acil_encode_cmd_send_data_ack
        \/ op = "change_timing" /\ msg' = acil_encode_cmd_change_timing_req
    BY <1>1, <1>3, <1>4, EncoderChosen, Zenon
  <2>2. QED BY <1>1, <1>2, <2>1, EncodesAdvertise, EncodesPipe, EncodesSizes, FixedShort, Zenon
<1>5. CASE op = "setup"
  <2>1. msg' = acil_encode_cmd_setup(n)
    BY <1>1, <1>3, <1>5, EncoderChosen, Zenon
  <2>2. QED BY <1>1, <1>5, <2>1, EncodesSizes, SetupShort, Zenon
<1>6. CASE op \in {"echo", "send_data", "set_local_data", "write_dynamic_data"}
  <2>1. \/ op = "echo" /\ msg' = acil_encode_cmd_echo_msg(n)
        \/ op = "send_data" /\ msg' = acil_encode_cmd_send_data(n)
        \/ op = "set_local_data" /\ msg' = acil_encode_cmd_set_local_data(n)
        \/ op = "write_dynamic_data" /\ msg' = acil_encode_cmd_write_dynamic_data(n)
    BY <1>1, <1>3, <1>6, EncoderChosen, Zenon
  <2>2. n \in 0 .. 29 /\ n <= DYNAMIC_MAX
    BY <1>1, <1>6, Zenon
  <2>3. QED BY <1>1, <2>1, <2>2, EncodesSizes, SizedShort, Zenon
<1>7. QED BY <1>4, <1>5, <1>6 DEF Encodable

(* A direct call of acil_encode_cmd. *)
LEMMA CodecEncodes ==
    ASSUME NEW op \in Encodable, NEW n \in Sizes, EncodeCommand(op, n)
    PROVE  EncodesCommand'
<1>1. op \notin MeshCommands
  BY NotMesh DEF Encodable
<1>2. asked' = [kind |-> "command", op |-> op, n |-> n]
  BY DEF EncodeCommand
<1>3. QED BY <1>1, <1>2, EncodesDirectly, Sounds, OfferEncodes, Zenon

(* The calls that change the state of the library. *)
LEMMA StateCallEncodes ==
    ASSUME \/ lib_aci_disconnect
           \/ \E pipes \in SUBSET AdvPipes : lib_aci_open_adv_pipes(pipes)
           \/ \E p \in AdvPipes : lib_aci_open_adv_pipe(p)
    PROVE  EncodesCommand'
<1>1. "disconnect" \in Plain /\ "open_adv_pipe" \in Plain
  BY DEF Plain
<1>2. \/ Offer(acil_encode_cmd_disconnect, "disconnect", 0)
      \/ Offer(acil_encode_cmd_open_adv_pipes, "open_adv_pipe", 0)
  BY Zenon DEF lib_aci_disconnect, lib_aci_open_adv_pipes, lib_aci_open_adv_pipe, SendAdvPipes
<1>3. QED BY <1>1, <1>2, EncodesParameters, FixedShort, PlainEncodes, Zenon

(* Every call of the library. *)
LEMMA NextEncodes ==
    ASSUME EncodesCommand, Next
    PROVE  EncodesCommand'
<1>1. CASE lib_aci_init
  BY <1>1 DEF lib_aci_init, EncodesCommand
<1>2. CASE lib_aci_event_get
  <2>1. PICK e, n : Take(e, n)
    BY <1>2, Zenon DEF lib_aci_event_get
  <2>2. QED BY <2>1 DEF Take, EncodesCommand
<1>3. QED
  BY <1>1, <1>2, SimpleEncodes, PipeEncodes, MeshEncodes, CodecEncodes, StateCallEncodes, Zenon DEF Next

(* Every line of the serial example: a name is cut to 16 bytes, data is not. *)
LEMMA LineEncodes ==
    ASSUME NEW msg_length \in 1 .. SERIAL_BUFFER_LENGTH, NEW named \in BOOLEAN, NEW credits \in 0 .. 1,
           handle_serial_input(msg_length, named, credits)
    PROVE  EncodesCommand'
<1>1. CASE named
  <2> DEFINE size == name_size(msg_length)
             n == IF size < NAME_MAX THEN size ELSE NAME_MAX
  <2>1. n \in Nat
    BY <1>1 DEF handle_serial_input, name_size, NAME_MAX, SERIAL_BUFFER_LENGTH
  <2>2. lib_aci_set_local_data(NamePipe, n)
    BY <1>1, Zenon DEF handle_serial_input, nRF8001BleUartNameSet
  <2>3. QED BY <2>1, <2>2, DataEncodes, Zenon
<1>2. CASE ~named
  <2>1. data_size(msg_length) \in Nat
    BY DEF data_size, SERIAL_BUFFER_LENGTH
  <2>2. lib_aci_send_data(TxPipe, data_size(msg_length)) \/ Refuse("send_data", data_size(msg_length))
    BY <1>2, Zenon DEF handle_serial_input, nRF8001BleUartTx
  <2>3. QED BY <2>1, <2>2, DataEncodes, RefusedEncodes, Zenon
<1>3. QED BY <1>1, <1>2

(* Every command that any call hands to the transport has, byte for byte,
   the layout of the packed struct that the device reads, and no more bytes
   than the transport takes: for every size of data the call accepts, and for
   the four calls that accept more than the array they copy through, for every
   size that Heeds allows.  So acilib.cpp and aci_cmds.h agree on offsets and
   lengths, and the lengths of rbc_mesh_interface.cpp are those of the structs
   of serial_command.h it writes through. *)
THEOREM CommandsAreEncoded == SerialSpec => []EncodesCommand
<1>1. SerialInit => EncodesCommand
  BY DEF SerialInit, Init, EncodesCommand
<1>2. EncodesCommand /\ [SerialNext]_serialVars => EncodesCommand'
  <2> SUFFICES ASSUME EncodesCommand, [SerialNext]_serialVars PROVE EncodesCommand'
    OBVIOUS
  <2>1. CASE UNCHANGED serialVars
    BY <2>1 DEF serialVars, vars, EncodesCommand
  <2>2. CASE Next
    BY <2>2, NextEncodes
  <2>3. ASSUME NEW msg_length \in 1 .. SERIAL_BUFFER_LENGTH, NEW named \in BOOLEAN, NEW credits \in 0 .. 1,
               handle_serial_input(msg_length, named, credits)
        PROVE  EncodesCommand'
    BY <2>3, LineEncodes
  <2>4. QED BY <2>1, <2>2, <2>3, Zenon DEF SerialNext
<1>3. QED BY <1>1, <1>2, PTL DEF SerialSpec

-----------------------------------------------------------------------------
(* The events.                                                              *)

(* The events that carry data, up to the most that the device puts in them. *)
LEMMA SizedEvents ==
    ASSUME NEW e \in {"echo", "hw_error", "data_received"}, NEW n \in Nat, carries(e, n)
    PROVE  \E L \in 0 .. 31 : Decodes(reader(e, 1 + L), EvtStruct(e, n), L)
<1>1. CASE e = "echo"
  <2>1. n <= 29 /\ n \in 0 .. 31 /\ (1 + n) - 1 = n
    BY <1>1 DEF carries, ECHO_MAX
  <2>2. reader(e, 1 + n) = Copy(0, "echo_data", n)
    BY <1>1, <2>1, Zenon DEF reader, acil_decode_evt_echo
  <2>3. EvtStruct(e, n) = << <<"echo_data", n>> >>
    BY <1>1, EventStructs, Zenon
  <2>4. ReadsAs(reader(e, 1 + n), EvtStruct(e, n), n)
    BY <2>1, <2>2, <2>3, ReadsEcho, Zenon
  <2>5. QED BY <2>1, <2>4, ReadsDecodes, Zenon
<1>2. CASE e = "hw_error"
  <2> DEFINE L == 2 + n
  <2>1. n <= 20 /\ L \in 0 .. 31 /\ (1 + L) - (PARAMS + EVT.file_name) + 1 = n
    BY <1>2 DEF carries, FILE_NAME, PARAMS, EVT
  <2>2. reader(e, 1 + L) = acil_decode_evt_hw_error(1 + L)
    BY <1>2, Decoders DEF reader
  <2>3. EvtStruct(e, n) = << <<"line_num", 2>>, <<"file_name", n>> >>
    BY <1>2, EventStructs, Zenon
  <2>4. ReadsAs(Word(EVT.line_num, "line_num") ++ Copy(EVT.file_name, "file_name", n),
                << <<"line_num", 2>>, <<"file_name", n>> >>, L)
    BY <2>1, ReadsHwError, Zenon
  <2> HIDE DEF L
  <2>5. ReadsAs(reader(e, 1 + L), EvtStruct(e, n), L)
    BY <2>1, <2>2, <2>3, <2>4, Zenon DEF acil_decode_evt_hw_error
  <2>6. QED BY <2>1, <2>5, ReadsDecodes, Zenon
<1>3. CASE e = "data_received"
  <2> DEFINE L == 1 + n
  <2>1. n <= 22 /\ L \in 0 .. 31 /\ (1 + L) - (PARAMS + DATA.aci_data) + 1 = n
    BY <1>3 DEF carries, RX_DATA_MAX, PARAMS, DATA
  <2>2. reader(e, 1 + L) = acil_decode_evt_data_received(1 + L)
    BY <1>3, Decoders DEF reader
  <2>3. EvtStruct(e, n) = data_struct(n)
    BY <1>3, EventStructs, Zenon
  <2>4. ReadsAs(Byte(DATA.pipe_number, "pipe_number") ++ Copy(DATA.aci_data, "aci_data", n),
                data_struct(n), L)
    BY <2>1, ReadsReceived, Zenon
  <2> HIDE DEF L
  <2>5. ReadsAs(reader(e, 1 + L), EvtStruct(e, n), L)
    BY <2>1, <2>2, <2>3, <2>4, Zenon DEF acil_decode_evt_data_received
  <2>6. QED BY <2>1, <2>5, ReadsDecodes, Zenon
<1>4. QED BY <1>1, <1>2, <1>3

(* Dynamic data: the decoder copies one byte more than the device sent,
   because the sequence number is not subtracted (acilib.cpp:432). The byte
   is inside the packet, and the array has room for it. *)
LEMMA DynamicResponse ==
    ASSUME NEW n \in Nat, carries("read_dynamic_data", n)
    PROVE  \E L \in 0 .. 31 : Decodes(reader("read_dynamic_data", 1 + L), EvtStruct("read_dynamic_data", n), L)
<1> DEFINE e == "read_dynamic_data"
           M == 1 + n
           length == 1 + (2 + M)
           r == Byte(RSP.seq_no, "seq_no") ++ Copy(RSP.dynamic_data, "dynamic_data", n + 1)
           gs == << <<"seq_no", 1>>, <<"dynamic_data", n>> >>
<1>1. /\ n <= 27 /\ M \in 0 .. 28 /\ 2 + M \in 0 .. 31 /\ length - 3 = n + 1
      /\ RSP.seq_no = 0 /\ RSP.dynamic_data = 1 /\ n + 1 \in Nat /\ n + 1 <= 28
  BY DEF carries, MAX_LENGTH, RSP
<1>2. e \in Responses /\ "seq_no" \in Names /\ "dynamic_data" \in Names
  BY EventNames DEF Names
<1>3. rsp_struct(n)[e] = gs
  BY ResponseStructs, Zenon
<1>4. response_of(e, length) = r
  BY <1>1, ResponsesOf, Zenon DEF dynamic_data_size
<1>5. reader(e, length) = acil_decode_evt(e, length)
  BY DEF reader
<1>6. /\ Piece(Byte(0, "seq_no"), 0, "seq_no", 1)
      /\ Piece(Copy(1, "dynamic_data", n + 1), 1, "dynamic_data", n + 1)
  BY <1>1, PieceOfByte, PieceOfCopy
<1>7. Lays(r, gs, M)
  <2> DEFINE x1 == <<"seq_no", 1>>
             x2 == <<"dynamic_data", n>>
  <2>1. /\ x1 \in Field /\ x1[1] = "seq_no" /\ x1[2] = 1
        /\ x2 \in Field /\ x2[1] = "dynamic_data" /\ x2[2] = n
    BY <1>2 DEF Field
  <2>2. Fits(r, 0, "seq_no", 1)
    BY <1>1, <1>6, FitsLeft DEF Piece
  <2>3. Fits(r, 1, "dynamic_data", n)
    <3>1. Fits(Copy(1, "dynamic_data", n + 1), 1, "dynamic_data", n + 1) /\ Ends(Byte(0, "seq_no"), 0 + 1)
      BY <1>6 DEF Piece
    <3>2. Fits(Copy(1, "dynamic_data", n + 1), 1, "dynamic_data", n)
      BY <3>1 DEF Fits
    <3>3. 0 + 1 = 1 /\ 1 \in Nat
      OBVIOUS
    <3>4. QED BY <1>1, <3>1, <3>2, <3>3, FitsRight, Zenon
  <2> HIDE DEF x1, x2, r
  <2>4. Lays(r, <<x1, x2>>, x1[2] + x2[2])
    BY <2>1, <2>2, <2>3, Lays2
  <2>5. QED BY <2>1, <2>4, Zenon DEF x1, x2
<1>8. Held(r)
  BY <1>1, HeldByte, HeldCopy, HeldBoth, Capacities
<1>9. Ends(r, 29)
  <2>1. Ends(Byte(0, "seq_no"), 1) /\ Ends(Copy(1, "dynamic_data", n + 1), 1 + (n + 1))
    BY <1>6 DEF Piece
  <2>2. \A i \in DOMAIN r : i \in DOMAIN Byte(0, "seq_no") \/ i \in DOMAIN Copy(1, "dynamic_data", n + 1)
    BY <1>1 DEF ++
  <2> HIDE DEF r
  <2>3. QED BY <1>1, <2>1, <2>2 DEF Ends
<1> HIDE DEF r, gs, M
<1>10. Decodes(acil_decode_evt(e, length), EvtStruct(e, n), 2 + M)
  BY <1>1, <1>2, <1>3, <1>4, <1>7, <1>8, <1>9, ResponseDecodes, Zenon
<1>11. QED BY <1>1, <1>5, <1>10, Zenon

(* Every event and every response is decoded, whatever data it carries. *)
LEMMA EventDecodes ==
    ASSUME NEW e \in Events \cup Responses, NEW n \in Nat, carries(e, n)
    PROVE  \E L \in 0 .. 31 : Decodes(reader(e, 1 + L), EvtStruct(e, n), L)
BY FixedEvents, SizedEvents, FixedResponses, DynamicResponse, Zenon

\* Both properties of an event.
EventsAreRead == DecodesAsStruct /\ CopyFits

(* An event taken from the transport satisfies them, and fits in the packet. *)
LEMMA TakenIsRead ==
    ASSUME NEW e \in Events \cup Responses, NEW n \in Nat, Take(e, n)
    PROVE  EventsAreRead' /\ msg'.length \in 1 .. 32
<1>1. PICK L \in 0 .. 31 : Decodes(reader(e, 1 + L), EvtStruct(e, n), L)
  BY EventDecodes, Zenon DEF Take
<1> DEFINE a == reader(e, 1 + L)
           fs == EvtStruct(e, n)
           d == decoded'
           m == msg'
<1>2. asked'.op = e /\ m = Overlay(e, fs)
  BY DEF Take
<1>3. /\ Wide(fs, L) /\ Ends(a, 31) /\ Held(a) /\ L \in Nat
      /\ \A j \in 1 .. L : j - 1 \in DOMAIN a /\ a[j - 1] = StructBytes(fs)[j]
  <2>1. L \in Nat
    OBVIOUS
  <2>2. QED BY <1>1, <2>1, Zenon DEF Decodes, Lays
<1>4. /\ m.length = 1 + L
      /\ DOMAIN m.at = {2 + j : j \in 0 .. L - 1}
      /\ \A j \in 0 .. L - 1 : m.at[2 + j] = StructBytes(fs)[j + 1]
  BY <1>2, <1>3, OverlayParts
<1>5. d = Message(e, 1 + L, a).at
  BY <1>2, <1>4, Zenon DEF decoded, reader
<1> HIDE DEF a, fs, d, m
<1>6. DOMAIN d = {2 + j : j \in DOMAIN a} /\ \A j \in DOMAIN a : d[2 + j] = a[j]
  BY <1>3, <1>5, MessageParts DEF Ends
<1>7. \A i \in DOMAIN m.at : i \in DOMAIN d /\ d[i] = m.at[i]
  <2> SUFFICES ASSUME NEW i \in DOMAIN m.at PROVE i \in DOMAIN d /\ d[i] = m.at[i]
    OBVIOUS
  <2>1. PICK j \in 0 .. L - 1 : i = 2 + j
    BY <1>4
  <2>2. j + 1 \in 1 .. L /\ (j + 1) - 1 = j
    BY <2>1
  <2>3. j \in DOMAIN a /\ a[j] = StructBytes(fs)[j + 1]
    BY <1>3, <2>2
  <2>4. QED BY <1>4, <1>6, <2>1, <2>3
<1>8. \A i \in DOMAIN d :
         /\ i <= 32
         /\ d[i][1] \in DOMAIN Capacity => d[i][2] < Capacity[d[i][1]]
  <2> SUFFICES ASSUME NEW i \in DOMAIN d
               PROVE  i <= 32 /\ (d[i][1] \in DOMAIN Capacity => d[i][2] < Capacity[d[i][1]])
    OBVIOUS
  <2>1. PICK j \in DOMAIN a : i = 2 + j
    BY <1>6
  <2>2. i <= 32
    BY <1>3, <2>1 DEF Ends
  <2>3. QED BY <1>3, <1>6, <2>1, <2>2 DEF Held
<1>9. DecodesAsStruct'
  BY <1>7, Zenon DEF DecodesAsStruct, d, m
<1>10. CopyFits'
  BY <1>8, Zenon DEF CopyFits, d
<1>11. m.length \in 1 .. 32
  BY <1>4
<1>12. QED BY <1>9, <1>10, <1>11 DEF EventsAreRead, m

(* They say nothing of a command. *)
LEMMA NoEvent ==
    ASSUME asked'.kind # "event"
    PROVE  EventsAreRead'
BY DEF EventsAreRead, DecodesAsStruct, CopyFits

(* A call that builds a command, or refuses to, is none. *)
LEMMA CommandIsNoEvent ==
    ASSUME \/ \E m, op, n : Offer(m, op, n)
           \/ \E op, n : Refuse(op, n)
           \/ \E op, n : EncodeCommand(op, n)
    PROVE  EventsAreRead'
<1>1. asked'.kind # "event"
  BY DEF Offer, Refuse, EncodeCommand
<1>2. QED BY <1>1, NoEvent

\* A call that hands a message to the transport, or refuses to.
Called == (\E m, op, n : Brief(m) /\ Offer(m, op, n)) \/ (\E op, n : Refuse(op, n))

(* The forms of such a call. *)
LEMMA CallIsCalled ==
    /\ \A m, op, n : Brief(m) /\ Offer(m, op, n) => Called
    /\ \A op, n : Refuse(op, n) => Called
    /\ \A allowed, m, op, n : (allowed => Brief(m)) /\ OfferIf(allowed, m, op, n) => Called
BY DEF Called, OfferIf

(* The calls without arguments that matter here. *)
LEMMA SimpleIsCalled == SimpleCall => Called
BY FixedShort, ShortIsBrief, CallIsCalled, Zenon DEF SimpleCall, lib_aci_set_app_latency, lib_aci_test, lib_aci_sleep,
    lib_aci_radio_reset, lib_aci_direct_connect, lib_aci_device_version, lib_aci_connect,
    lib_aci_bond, lib_aci_wakeup, lib_aci_set_tx_power, lib_aci_get_address,
    lib_aci_get_temperature, lib_aci_get_battery_level, lib_aci_change_timing,
    lib_aci_change_timing_GAP_PPCP, lib_aci_bond_request, lib_aci_send_ack, lib_aci_send_nack,
    lib_aci_read_dynamic_data, lib_aci_dtm_command

(* The calls with data, within the limit that they test. *)
LEMMA DataIsCalled ==
    ASSUME NEW p, NEW n \in Nat, lib_aci_set_local_data(p, n) \/ lib_aci_send_data(p, n)
    PROVE  Called
<1>1. n <= TX_DATA_MAX => n \in 0 .. 29
  BY DEF TX_DATA_MAX
<1>2. n <= TX_DATA_MAX => Brief(acil_encode_cmd_send_data(n)) /\ Brief(acil_encode_cmd_set_local_data(n))
  BY <1>1, SizedShort, ShortIsBrief, Zenon
<1>3. QED
  BY <1>2, CallIsCalled, Zenon
     DEF lib_aci_set_local_data, lib_aci_send_data, may_set_local_data, may_send_data

(* The calls with a pipe or with data. *)
LEMMA PipeIsCalled == PipeCall => Called
<1>1. Sizes \subseteq Nat
  BY LibraryAssumption
<1>2. ASSUME NEW p, lib_aci_request_data(p) \/ lib_aci_open_remote_pipe(p) \/ lib_aci_close_remote_pipe(p)
      PROVE  Called
  BY <1>2, FixedShort, ShortIsBrief, CallIsCalled, Zenon
     DEF lib_aci_request_data, lib_aci_open_remote_pipe, lib_aci_close_remote_pipe
<1>3. ASSUME NEW passkey \in BOOLEAN, NEW n, lib_aci_set_key(passkey, n) PROVE Called
  <2>1. Brief(acil_encode_cmd_set_key(passkey, n))
    BY OtherShort, ShortIsBrief, Zenon
  <2>2. QED BY <1>3, <2>1, CallIsCalled, Zenon DEF lib_aci_set_key
<1>4. ASSUME NEW n \in Sizes, lib_aci_echo_msg(n) PROVE Called
  <2>1. n <= ECHO_MAX => n \in 0 .. 29
    BY <1>1 DEF ECHO_MAX
  <2>2. QED BY <1>4, <2>1, SizedShort, ShortIsBrief, CallIsCalled, Zenon DEF lib_aci_echo_msg
<1>5. ASSUME NEW n \in Sizes, lib_aci_write_dynamic_data(n) PROVE Called
  BY <1>1, <1>5, SizedBrief, CallIsCalled, Zenon DEF lib_aci_write_dynamic_data
<1>6. ASSUME NEW timeout, NEW adv_interval, lib_aci_broadcast(timeout, adv_interval) PROVE Called
  <2>1. Offer(acil_encode_cmd_broadcast, "broadcast", 0) \/ Refuse("broadcast", 0)
    BY <1>6 DEF lib_aci_broadcast, OfferIf
  <2>2. Brief(acil_encode_cmd_broadcast)
    BY FixedShort, ShortIsBrief
  <2>3. QED BY <2>1, <2>2, CallIsCalled
<1>7. QED BY <1>1, <1>2, <1>3, <1>4, <1>5, <1>6, DataIsCalled, SMT DEF PipeCall

(* The calls of the mesh interface. *)
LEMMA MeshIsCalled == MeshCall => Called
<1>1. ASSUME NEW n \in Sizes, \/ OfferIf(n <= MESH_DATA_MAX, rbc_mesh_echo(n), "mesh_echo", n)
                              \/ OfferIf(n \in 1..MESH_DATA_MAX, rbc_mesh_value_set(n), "value_set", n)
      PROVE  Called
  <2>1. n \in Nat
    BY LibraryAssumption
  <2>2. n \in 1..MESH_DATA_MAX => n <= MESH_DATA_MAX
    OBVIOUS
  <2>3. n <= MESH_DATA_MAX => Brief(rbc_mesh_echo(n))
    BY <2>1, SizedBrief, Zenon
  <2>4. n \in 1..MESH_DATA_MAX => Brief(rbc_mesh_value_set(n))
    BY <2>1, <2>2, SizedBrief, Zenon
  <2>5. CASE OfferIf(n <= MESH_DATA_MAX, rbc_mesh_echo(n), "mesh_echo", n)
    BY <2>5, <2>3, CallIsCalled, Zenon
  <2>6. CASE OfferIf(n \in 1..MESH_DATA_MAX, rbc_mesh_value_set(n), "value_set", n)
    BY <2>6, <2>4, CallIsCalled, Zenon
  <2>7. QED BY <1>1, <2>5, <2>6, Zenon
<1>2. QED BY <1>1, OtherShort, ShortIsBrief, CallIsCalled, Zenon DEF MeshCall

(* The calls that change the state of the library. *)
LEMMA StateCallIsCalled ==
    ASSUME \/ lib_aci_disconnect
           \/ \E pipes \in SUBSET AdvPipes : lib_aci_open_adv_pipes(pipes)
           \/ \E p \in AdvPipes : lib_aci_open_adv_pipe(p)
    PROVE  Called
BY FixedShort, ShortIsBrief, CallIsCalled, Zenon
   DEF lib_aci_disconnect, lib_aci_open_adv_pipes, lib_aci_open_adv_pipe, SendAdvPipes

(* A direct call of acil_encode_cmd writes a length that fits. *)
LEMMA CodecIsBrief ==
    ASSUME NEW op \in Encodable, NEW n \in Sizes, EncodeCommand(op, n)
    PROVE  Brief(msg')
BY EncodesDirectly, ShortIsBrief

(* A line of the serial example. *)
LEMMA LineIsCalled ==
    ASSUME NEW msg_length \in 1 .. SERIAL_BUFFER_LENGTH, NEW named, NEW credits,
           handle_serial_input(msg_length, named, credits)
    PROVE  Called
<1>1. CASE named
  <2> DEFINE n == IF name_size(msg_length) < NAME_MAX THEN name_size(msg_length) ELSE NAME_MAX
  <2>1. n \in Nat
    BY <1>1 DEF handle_serial_input, name_size, NAME_MAX, SERIAL_BUFFER_LENGTH
  <2>2. lib_aci_set_local_data(NamePipe, n)
    BY <1>1, Zenon DEF handle_serial_input, nRF8001BleUartNameSet
  <2>3. QED BY <2>1, <2>2, DataIsCalled, Zenon
<1>2. CASE ~named
  <2>1. data_size(msg_length) \in Nat
    BY DEF data_size, SERIAL_BUFFER_LENGTH
  <2>2. lib_aci_send_data(TxPipe, data_size(msg_length)) \/ Refuse("send_data", data_size(msg_length))
    BY <1>2, Zenon DEF handle_serial_input, nRF8001BleUartTx
  <2>3. QED BY <2>1, <2>2, DataIsCalled, CallIsCalled, Zenon
<1>3. QED BY <1>1, <1>2

(* lib_aci_event_get takes an event, whichever it is. *)
LEMMA EventGetReads ==
    ASSUME lib_aci_event_get
    PROVE  EventsAreRead' /\ msg'.length \in 1 .. 32
<1>1. EventSizes \subseteq Nat /\ 0 \in Nat
  <2>1. Sizes \subseteq Nat
    BY LibraryAssumption
  <2>2. QED BY <2>1 DEF EventSizes
<1>2. "pipe_status" \in Events /\ "disconnected" \in Events /\ "timing" \in Events
  BY EventNames
<1>3. \E e \in Events \cup Responses, n \in Nat : Take(e, n)
  BY <1>1, <1>2, Zenon DEF lib_aci_event_get
<1>4. QED BY <1>3, TakenIsRead, Zenon

(* No step leaves an event that is read wrongly. *)
LEMMA EventsStep ==
    ASSUME EventsAreRead, [SerialNext]_serialVars
    PROVE  EventsAreRead'
<1>1. CASE UNCHANGED serialVars
  BY <1>1 DEF serialVars, vars, EventsAreRead, DecodesAsStruct, CopyFits, decoded
<1>2. CASE lib_aci_init
  BY <1>2 DEF lib_aci_init, EventsAreRead, DecodesAsStruct, CopyFits, decoded
<1>3. CASE Called
  BY <1>3, CommandIsNoEvent, Zenon DEF Called
<1>4. CASE Next
  BY <1>2, <1>3, <1>4, SimpleIsCalled, PipeIsCalled, MeshIsCalled, StateCallIsCalled,
     EventGetReads, CommandIsNoEvent, Zenon DEF Next
<1>5. QED BY <1>1, <1>3, <1>4, LineIsCalled, Zenon DEF SerialNext

(* So it is in every state. *)
LEMMA EventsAlways == SerialSpec => []EventsAreRead
<1>1. SerialInit => EventsAreRead
  BY DEF SerialInit, Init, EventsAreRead, DecodesAsStruct, CopyFits
<1>2. EventsAreRead /\ [SerialNext]_serialVars => EventsAreRead'
  BY EventsStep
<1>3. QED BY <1>1, <1>2, PTL DEF SerialSpec

(* The decoder of every event and of every Command Response finds each byte
   of the packed struct where the device put it: the two ways to read an
   event, acilib.cpp and the structs of aci_evts.h, agree for every size of
   data. *)
THEOREM EventsAreDecoded == SerialSpec => []DecodesAsStruct
<1>1. EventsAreRead => DecodesAsStruct
  BY DEF EventsAreRead
<1>2. QED BY <1>1, EventsAlways, PTL

(* No decoder reads behind the 33 bytes of an event, and none copies more into an array
   than it holds, whatever the device is able to send. *)
THEOREM CopiesFit == SerialSpec => []CopyFits
<1>1. EventsAreRead => CopyFits
  BY DEF EventsAreRead
<1>2. QED BY <1>1, EventsAlways, PTL

-----------------------------------------------------------------------------
(* The types.                                                               *)

(* When there is no message its length is 0. *)
LEMMA NoMessageIsBrief == Brief(NoMessage)
<1>1. 0 \in 0 .. 255
  OBVIOUS
<1>2. QED BY <1>1, MessageBrief, Zenon DEF NoMessage

(* What is kept of a line has its type; above all, what is passed on of it is
   never below zero: a line is named only if "name=" is in front, and even an
   empty one has its last character. *)
LEMMA LineTyped ==
    ASSUME NEW msg_length \in 1 .. SERIAL_BUFFER_LENGTH, NEW named \in BOOLEAN, NEW credits,
           handle_serial_input(msg_length, named, credits)
    PROVE  line' \in [length : 0..32, named : BOOLEAN, size : 0..31]
<1>1. msg_length \in 1 .. 32 /\ (named => msg_length \in 6 .. 32)
  BY DEF SERIAL_BUFFER_LENGTH, handle_serial_input
<1>2. \/ named /\ line' = [length |-> msg_length, named |-> TRUE, size |-> name_size(msg_length)]
      \/ line' = [length |-> msg_length, named |-> FALSE, size |-> data_size(msg_length)]
  BY Zenon DEF handle_serial_input
<1>3. (named => name_size(msg_length) \in 0 .. 31) /\ data_size(msg_length) \in 0 .. 31
  BY <1>1 DEF name_size, data_size
<1>4. msg_length \in 0..32
  BY <1>1
<1>5. ASSUME NEW b \in BOOLEAN, NEW size \in 0 .. 31,
             line' = [length |-> msg_length, named |-> b, size |-> size]
      PROVE  line' \in [length : 0..32, named : BOOLEAN, size : 0..31]
  BY <1>4, <1>5, Zenon
<1>6. CASE named /\ line' = [length |-> msg_length, named |-> TRUE, size |-> name_size(msg_length)]
  BY <1>3, <1>5, <1>6, Zenon
<1>7. CASE line' = [length |-> msg_length, named |-> FALSE, size |-> data_size(msg_length)]
  BY <1>3, <1>5, <1>7, Zenon
<1>8. QED BY <1>2, <1>6, <1>7, Zenon

(* Every step keeps the types. Only the length of the message needs the
   encoders. *)
LEMMA TypeStep ==
    ASSUME SerialTypeOK, LibraryInv', [SerialNext]_serialVars
    PROVE  SerialTypeOK'
<1> DEFINE Lines == [length : 0..32, named : BOOLEAN, size : 0..31]
           Told == asked.kind \in {"none", "command", "refused", "event"} /\ msg.length \in 0..255
                   /\ ok \in BOOLEAN
<1>1. Told /\ line \in Lines
  BY DEF SerialTypeOK, TypeOK
<1>2. Told' /\ line' \in Lines => SerialTypeOK'
  BY DEF SerialTypeOK, TypeOK, LibraryInv, StateTypes
<1>3. ASSUME Called PROVE Told'
  <2>1. ASSUME NEW m, NEW op, NEW n, Brief(m), Offer(m, op, n) PROVE Told'
    BY <2>1 DEF Brief, Offer, hal_aci_tl_send
  <2>2. ASSUME NEW op, NEW n, Refuse(op, n) PROVE Told'
    BY <2>2, NoMessageIsBrief DEF Refuse, Brief
  <2>3. QED BY <1>3, <2>1, <2>2, Zenon DEF Called
<1>4. ASSUME NEW op \in Encodable, NEW n \in Sizes, EncodeCommand(op, n) PROVE Told'
  BY <1>4, CodecIsBrief DEF EncodeCommand, Brief
<1>5. ASSUME lib_aci_event_get PROVE Told'
  <2>1. asked'.kind = "event" /\ ok' = TRUE
    BY <1>5 DEF lib_aci_event_get, Take
  <2>2. msg'.length \in 1 .. 32
    BY <1>5, EventGetReads
  <2>3. QED BY <2>1, <2>2
<1>6. ASSUME lib_aci_init PROVE Told'
  BY <1>1, <1>6 DEF lib_aci_init
<1>7. CASE UNCHANGED serialVars
  BY <1>1, <1>2, <1>7 DEF serialVars, vars
<1>8. CASE Next /\ line' = NoLine
  <2>1. line' \in Lines
    BY <1>8 DEF NoLine
  <2>2. Told'
    <3> HIDE DEF Told
    <3>1. QED
      BY <1>3, <1>4, <1>5, <1>6, <1>8, SimpleIsCalled, PipeIsCalled, MeshIsCalled,
         StateCallIsCalled, Zenon DEF Next
  <2>3. QED BY <1>2, <2>1, <2>2
<1>9. ASSUME NEW msg_length \in 1 .. SERIAL_BUFFER_LENGTH, NEW named \in BOOLEAN, NEW credits \in 0..1,
             handle_serial_input(msg_length, named, credits)
      PROVE  SerialTypeOK'
  <2>1. Told'
    BY <1>3, <1>9, LineIsCalled
  <2>2. line' \in Lines
    BY <1>9, LineTyped
  <2>3. QED BY <1>2, <2>1, <2>2
<1>10. QED BY <1>7, <1>8, <1>9, Zenon DEF SerialNext

(* Types: the length of every message is a byte, also where the library adds
   to a size it does not check and the byte wraps (lib_aci.cpp:628,
   acilib.cpp:183); and what is passed on of a line is from 0 to 31 bytes long. *)
THEOREM SerialTypes == SerialSpec => []SerialTypeOK
<1>1. SerialInit => SerialTypeOK
  <2> SUFFICES ASSUME SerialInit PROVE SerialTypeOK
    OBVIOUS
  <2>1. msg.length \in 0..255
    BY NoMessageIsBrief DEF SerialInit, Init, Brief
  <2>2. NoLine \in [length : 0..32, named : BOOLEAN, size : 0..31]
    BY DEF NoLine
  <2>3. QED BY <2>1, <2>2 DEF SerialInit, Init, SerialTypeOK, TypeOK
<1>2. SerialTypeOK /\ LibraryInv' /\ [SerialNext]_serialVars => SerialTypeOK'
  BY TypeStep
<1>3. QED BY <1>1, <1>2, LibraryAlways, PTL DEF SerialSpec
=============================================================================
