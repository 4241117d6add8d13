----------------------------- MODULE MeshGateway -----------------------------
(***************************************************************************)
(* The gateway ble-mesh-cloud.ino: requests that come from the cloud set   *)
(* or read a value of a mesh, through the calls of rbc_mesh_interface.cpp  *)
(* and the ACI transport, on a slave that speaks the protocol of           *)
(* serial_command.h and serial_evt.h.                                      *)
(*                                                                         *)
(* The host is one thread.  loop() may send an initialisation command and  *)
(* then polls for one event; the requests of the cloud run between two     *)
(* rounds of loop().  The slave is external: it announces that it started, *)
(* executes its commands in order, answers each, and reports values that   *)
(* other nodes of the mesh change.                                         *)
(***************************************************************************)
EXTENDS Integers, Sequences, FiniteSets

CONSTANTS
    ACI_QUEUE_SIZE,     \* slots of each ACI queue
    MaxInbox,           \* bound: commands the slave holds unprocessed
    MaxPending,         \* bound: events the slave holds unsent
    QuietInit           \* no value changes before the slave is set up?

ASSUME GatewayAssumption ==
    /\ ACI_QUEUE_SIZE \in 2..255
    /\ MaxInbox \in Nat \ {0} /\ MaxPending \in Nat \ {0}
    /\ QuietInit \in BOOLEAN

VARIABLES
    aci_tx_q, aci_rx_q, reqn, rdyn, hung, ok, out, inbox, pending,  \* AciTransport
    pc,             \* "loop" between two rounds, "poll" before rbc_mesh_evt_get
    state,          \* init, ready or waitingForEvent
    initState,      \* number of initialisation commands sent
    newMessage,     \* the last poll brought an event
    lastResponse,   \* the command whose response was last saved
    request,        \* the request being served, or last served
    done            \* slave: the initialisation commands it has executed

hostVars    == <<aci_tx_q, aci_rx_q, reqn, hung, ok, out>>
lineVars    == <<aci_tx_q, aci_rx_q, reqn, rdyn, hung, ok, out, inbox, pending>>
gatewayVars == <<pc, state, initState, newMessage, lastResponse, request>>
vars        == <<lineVars, gatewayVars, done>>

InitCommands == <<"init", "enable1", "enable2">>
Setup        == {InitCommands[i] : i \in 1 .. 3}
Requests     == {"set", "get"}
Cmd          == Setup \cup Requests

Event(op, c) == [op |-> op, cmd |-> c]
Response(c)  == Event("cmd_rsp", c)
Started      == Event("device_started", "none")
ValueChanged == Event("event_update", "none")
Evt          == {Started, ValueChanged} \cup {Response(c) : c \in Cmd}
NoEvt        == Event("none", "none")

T == INSTANCE AciTransport WITH Oversize <- {}

TypeOK ==
    /\ T!TypeOK
    /\ pc \in {"loop", "poll"}
    /\ state \in {"init", "ready", "waitingForEvent"}
    /\ initState \in 0..3
    /\ newMessage \in BOOLEAN
    /\ lastResponse \in Cmd \cup {"none"} /\ request \in Requests \cup {"none"}
    /\ done \subseteq Setup

\* setup() has run; the slave comes out of its reset.
Init ==
    /\ aci_tx_q = <<>> /\ aci_rx_q = <<>>
    /\ reqn = T!HIGH /\ rdyn = T!HIGH
    /\ hung = FALSE /\ ok = FALSE /\ out = NoEvt
    /\ inbox = <<>> /\ pending = <<Started>>
    /\ pc = "loop" /\ state = "init" /\ initState = 0 /\ newMessage = FALSE
    /\ lastResponse = "none" /\ request = "none"
    /\ done = {}

-----------------------------------------------------------------------------
(* The mesh interface.  A call checks its arguments and queues a command;    *)
(* the gateway keeps no eye on whether it could.                             *)

rbc_mesh_init(channel) ==
    IF channel \in {37, 38, 39} THEN T!hal_aci_tl_send("init") ELSE UNCHANGED lineVars
rbc_mesh_value_enable(handle) ==
    T!hal_aci_tl_send(IF handle = 1 THEN "enable1" ELSE "enable2")
rbc_mesh_value_get == T!hal_aci_tl_send("get")

settable_strictly(length) == length > 1     \* one byte is not enough
settable(length) == length \in 1..36
rbc_mesh_value_set(length) ==
    IF settable(length) THEN T!hal_aci_tl_send("set") ELSE UNCHANGED lineVars

\* A plain get.  The code then copies sizeof(serial_evt_t), 40 bytes, out of a
\* buffer of 38 that the transport fills as one of 32: the gateway looks at the
\* first bytes only, which are the message's, and what lies behind is left out.
rbc_mesh_evt_get == T!hal_aci_tl_event_get

-----------------------------------------------------------------------------
(* The gateway. *)

requests_when_idle == state # "waitingForEvent"     \* also before it is set up
may_request == state = "ready"

Request(c) ==
    /\ pc = "loop" /\ may_request
    /\ state' = "waitingForEvent"
    /\ request' = c
    /\ UNCHANGED <<pc, initState, newMessage, lastResponse, done>>

set_val     == Request("set") /\ rbc_mesh_value_set(1)
get_val_req == Request("get") /\ rbc_mesh_value_get

\* The next initialisation command, or the end of the initialisation.
initConnectionSlowly ==
    /\ CASE initState = 0 -> rbc_mesh_init(38)
         [] initState = 1 -> rbc_mesh_value_enable(1)
         [] initState = 2 -> rbc_mesh_value_enable(2)
         [] initState = 3 -> UNCHANGED lineVars
    /\ initState' = IF initState < 3 THEN initState + 1 ELSE initState
    /\ state' = IF initState = 3 THEN "ready" ELSE state

\* The first half of loop(): a step of the initialisation for each message.
loop ==
    /\ pc = "loop" /\ pc' = "poll"
    /\ \/ state = "init" /\ newMessage /\ initConnectionSlowly
       \/ ~(state = "init" /\ newMessage) /\ UNCHANGED <<lineVars, initState, state>>
    /\ UNCHANGED <<newMessage, lastResponse, request, done>>

any_event_answers(e) == e.op # "device_started"     \* the opcode is not compared
is_response(e) == e.op = "cmd_rsp"

opcode_of(e) == e.op            \* the wrong field of the event
answered(e)  == e.cmd

only_responses == ok' /\ is_response(out')
got_message == ok'

\* The second half: poll, and let a response end the wait for one.
poll ==
    /\ pc = "poll" /\ pc' = "loop"
    /\ rbc_mesh_evt_get
    /\ newMessage' = got_message
    /\ LET answers == ok' /\ is_response(out') /\ state = "waitingForEvent" IN
       /\ state' = IF answers THEN "ready" ELSE state
       /\ lastResponse' = IF answers THEN answered(out') ELSE lastResponse
    /\ UNCHANGED <<initState, request, done>>

-----------------------------------------------------------------------------
(* The slave (external). *)

RdynLow == T!RdynLow /\ UNCHANGED <<gatewayVars, done>>

\* A command is executed and answered.
SlaveExecutes ==
    /\ inbox # <<>> /\ Len(pending) < MaxPending
    /\ inbox' = Tail(inbox)
    /\ pending' = Append(pending, Response(Head(inbox)))
    /\ done' = done \cup ({Head(inbox)} \cap Setup)
    /\ UNCHANGED <<hostVars, rdyn, gatewayVars>>

\* A node of the mesh changes a value; the slave takes part once initialised.
\* It keeps room for a response.
MeshChangesValue ==
    /\ Len(pending) < MaxPending - 1
    /\ IF QuietInit THEN done = Setup ELSE "init" \in done
    /\ T!DeviceRaises(ValueChanged)
    /\ UNCHANGED <<gatewayVars, done>>

Next ==
    \/ set_val \/ get_val_req
    \/ loop \/ poll
    \/ RdynLow \/ SlaveExecutes \/ MeshChangesValue

Spec == Init /\ [][Next]_vars

\* loop() is called for ever, and the slave executes what it is sent.
FairSpec ==
    Spec /\ WF_vars(loop) /\ WF_vars(poll) /\ WF_vars(RdynLow) /\ WF_vars(SlaveExecutes)

-----------------------------------------------------------------------------
(* Properties. *)

Commands  == inbox \o aci_tx_q          \* sent and not executed, in order
Events    == aci_rx_q \o pending        \* raised and not seen, in order
Responses == {i \in DOMAIN Events : is_response(Events[i])}   \* where the responses are

(* The slave is asked for a value only once it has been initialised and told
   which values to broadcast, although the gateway waits for messages, not
   for the responses to its initialisation. *)
RequestsAfterInit ==
    inbox # <<>> /\ Head(inbox) \in Requests => done = Setup

(* While the gateway waits there is something to wait for: a command the
   slave will answer or an answer on its way.  The wait has no timeout and
   the result of the send is not looked at, so nothing else would end it. *)
WaitingHasCause ==
    state = "waitingForEvent" => Commands # <<>> \/ Responses # {}

(* The response that ends a wait is the response to the request it was for,
   when values change only after the initialisation. *)
ResponseMatches ==
    [][state = "waitingForEvent" /\ state' = "ready" => lastResponse' = request]_vars

(* The gateway always comes to serve another request: the initialisation,
   driven by events alone, ends, and every request is answered. *)
GatewayServes == []<>(state = "ready")

(* initConnectionSlowly is described as "alternating sending of commands and
   waiting for response": one command of the initialisation at a time is
   without its response. *)
InitAlternates == state = "init" => Len(Commands) + Cardinality(Responses) <= 1
=============================================================================
