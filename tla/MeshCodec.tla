------------------------------ MODULE MeshCodec ------------------------------
(***************************************************************************)
(* The messages of rbc_mesh_interface.cpp to a mesh slave, which come down *)
(* the same transport as ACI commands, and the structs of serial_command.h *)
(* the slave reads them with.  Each is written into a buffer on the stack. *)
(***************************************************************************)
EXTENDS WireFormat

\* What the length checks of rbc_mesh_echo and rbc_mesh_value_set allow: the
\* HAL_ACI_MAX_LENGTH of this file, less the opcode.
MESH_DATA_MAX == 36

\* What the arrays have room for: data of serial_cmd_params_echo_t, and
\* RBC_MESH_VALUE_MAX_LEN.
MESH_ECHO_MAX  == 29
MESH_VALUE_MAX == 28

\* The union of serial_cmd_t by opcode.
serial_cmd_params(n) ==
    [mesh_echo |-> << <<"data", n>> >>,
     mesh_init |-> << <<"access_addr", 4>>, <<"channel", 1>>,
                      <<"handle_count", 1>>, <<"adv_int_min", 4>> >>,
     value_set |-> << <<"handle", 1>>, <<"value", n>> >>,
     value_enable |-> << <<"handle", 1>> >>,
     value_disable |-> << <<"handle", 1>> >>,
     value_get |-> << <<"handle", 1>> >>]

MeshQueries == {"build_version_get", "access_addr_get", "channel_get",
                "handle_count_get", "adv_int_get"}
MeshCommands == DOMAIN serial_cmd_params(0) \cup MeshQueries

MeshStruct(op, n) == IF op \in MeshQueries THEN <<>> ELSE serial_cmd_params(n)[op]

-----------------------------------------------------------------------------
(* The host writes through the members of serial_cmd_params_t, at the offsets *)
(* their packed structs give them; the handle always through value_enable.    *)

rbc_mesh_echo(n) == Message("mesh_echo", n + 1, Copy(0, "data", n))
rbc_mesh_init ==
    Message("mesh_init", 11,
            Copy(0, "access_addr", 4) ++ Byte(4, "channel")
            ++ Byte(5, "handle_count") ++ Copy(6, "adv_int_min", 4))
rbc_mesh_value_set(n) ==
    Message("value_set", n + 2, Byte(0, "handle") ++ Copy(1, "value", n))
rbc_mesh_value_enable  == Message("value_enable", 2, Byte(0, "handle"))
rbc_mesh_value_disable == Message("value_disable", 2, Byte(0, "handle"))
rbc_mesh_value_get     == Message("value_get", 2, Byte(0, "handle"))
rbc_mesh_query(op)     == Message(op, 1, Nothing)
=============================================================================
