------------------------------- MODULE BleUart -------------------------------
(***************************************************************************)
(* The BLE UART application on top of the ACI transport: aci_loop and its  *)
(* event handlers (uart_aci.cpp), the ACI library they call (lib_aci.cpp), *)
(* the setup routine (aci_setup.cpp) and the public calls                  *)
(* (nrf8001-ble-uart-spark-io.cpp), driving the nRF8001 of module Nrf8001  *)
(* through the calls of AciTransport.                                      *)
(*                                                                         *)
(* The host is one thread.  pc says where it is; a step ends where the     *)
(* code samples RDYN (a get or a peek) or sends a command, because there   *)
(* the device may have moved in between.                                   *)
(***************************************************************************)
EXTENDS Nrf8001, FiniteSets

CONSTANTS
    ACI_QUEUE_SIZE,     \* slots of each ACI queue
    AppCalls,           \* calls the application makes: subset of {"tx", "name"}
    HelloLength,        \* length of the hello string (22)
    SetupTimeout        \* may the guard counter of do_aci_setup run out?

\* ACI_PIPE_TX_DATA_MAX_LEN, the most data one packet carries.
MaxData == 20

ASSUME AppAssumption ==
    /\ ACI_QUEUE_SIZE \in 2..255
    /\ AppCalls \subseteq {"tx", "name"}
    /\ HelloLength \in 0..255
    /\ SetupTimeout \in BOOLEAN

VARIABLES
    aci_tx_q, aci_rx_q, reqn, rdyn, hung, ok, out,  \* see AciTransport
    pc,                     \* where the host is
    data_credit_total,      \* aci_state.data_credit_total
    data_credit_available,  \* aci_state.data_credit_available
    pipes_open,             \* aci_state.pipes_open_bitmap, the two transmit pipes
    timing_change_done,     \* static of uart_aci.cpp
    setup_required,         \* static of aci_loop
    setup_offset,           \* local of do_aci_setup: next message to queue
    cmd_status              \* local of do_aci_setup: last status seen

lineVars  == <<aci_tx_q, aci_rx_q, reqn, rdyn, hung, ok, out>>
stateVars == <<data_credit_total, data_credit_available, pipes_open, timing_change_done>>
setupVars == <<setup_required, setup_offset, cmd_status>>
vars == <<deviceVars, lineVars, pc, stateVars, setupVars>>

\* What of the device a call of the host leaves alone.
radioVars == <<mode, loaded, open, air, faults>>

T == INSTANCE AciTransport WITH Oversize <- {}

Places == {"loop", "callback", "handle", "hello", "setup", "fill", "wait", "remove"}

TypeOK ==
    /\ DeviceTypeOK /\ T!TypeOK
    /\ pc \in Places
    /\ data_credit_total \in 0 .. Credits
    /\ data_credit_available \in Nat
    /\ pipes_open \subseteq TxPipes
    /\ timing_change_done \in BOOLEAN
    /\ setup_required \in BOOLEAN
    /\ setup_offset \in 0 .. NUM_SETUP
    /\ cmd_status \in Status

Init ==
    /\ DeviceInit /\ T!Init
    /\ pc = "loop"
    /\ data_credit_total = 0 /\ data_credit_available = 0
    /\ pipes_open = {}
    /\ timing_change_done = FALSE
    /\ setup_required = FALSE /\ setup_offset = 0 /\ cmd_status = "error"

-----------------------------------------------------------------------------
(* The ACI library. *)

\* Every lib_aci_ command builds its message and offers it to the transport,
\* which answers in ok; the callers below never look at the answer, except
\* lib_aci_disconnect and nRF8001BleUartTx.
Send(op) == T!hal_aci_tl_send(Command(op)) /\ UNCHANGED radioVars

lib_aci_device_version          == Send("device_version")
lib_aci_set_local_data          == Send("set_local_data")
lib_aci_connect                 == Send("connect")
lib_aci_change_timing           == Send("change_timing")
lib_aci_change_timing_GAP_PPCP  == Send("change_timing")
lib_aci_send_data               == Send("send_data")

lib_aci_is_pipe_available(p) == p \in pipes_open

pipes_after_disconnect_kept == pipes_open   \* the bitmaps are not cleared
pipes_after_disconnect == {}

\* Get an event, and follow the pipes and the credits in it.
lib_aci_event_get ==
    /\ T!hal_aci_tl_event_get
    /\ pipes_open' =
          IF ok' /\ out'.op = "pipe_status" THEN out'.open
          ELSE IF ok' /\ out'.op = "disconnected" THEN pipes_after_disconnect
          ELSE pipes_open
    /\ data_credit_available' =
          IF ok' /\ out'.op = "disconnected" THEN data_credit_total
          ELSE data_credit_available
    /\ UNCHANGED radioVars

lib_aci_event_peek == T!hal_aci_tl_event_peek /\ UNCHANGED radioVars

\* The pipes are closed at once when the disconnect could be queued.
lib_aci_disconnect ==
    /\ Send("disconnect")
    /\ pipes_open' = IF ok' THEN {} ELSE pipes_open

tx_unmetered(length) == lib_aci_is_pipe_available("uart_tx") /\ length <= MaxData
\* nRF8001BleUartTx gets as far as queuing the data.
may_tx(length) ==
    /\ lib_aci_is_pipe_available("uart_tx")
    /\ data_credit_available >= 1
    /\ length <= MaxData

nRF8001BleUartTx(length) ==
    \/ /\ may_tx(length)
       /\ lib_aci_send_data
       /\ data_credit_available' = data_credit_available - (IF ok' THEN 1 ELSE 0)
    \/ /\ ~may_tx(length)
       /\ UNCHANGED <<lineVars, deviceVars, data_credit_available>>

-----------------------------------------------------------------------------
(* The application. *)

\* Between two calls of nRF8001BleUartLoop, or inside the receive callback.
AppRuns == pc \in {"loop", "callback"}

AppTx ==
    /\ AppRuns /\ "tx" \in AppCalls
    /\ nRF8001BleUartTx(MaxData)
    /\ UNCHANGED <<pc, data_credit_total, pipes_open, timing_change_done, setupVars>>

nRF8001BleUartNameSet ==
    /\ AppRuns /\ "name" \in AppCalls
    /\ lib_aci_set_local_data
    /\ UNCHANGED <<pc, stateVars, setupVars>>

-----------------------------------------------------------------------------
(* aci_loop. *)

\* aci_loop ends by running the setup if the device asked for it.
Finish(required) == pc' = IF required THEN "setup" ELSE "loop"

LoopBegins ==
    /\ pc = "loop"
    /\ lib_aci_event_get
    /\ IF ok' THEN pc' = "handle" ELSE Finish(setup_required)
    /\ UNCHANGED <<data_credit_total, timing_change_done, setupVars>>

Handles(op) == pc = "handle" /\ out.op = op

\* A handler that does no more than queue a command.
Only(sends) ==
    /\ sends
    /\ Finish(setup_required)
    /\ UNCHANGED <<stateVars, setupVars>>

HandleStarted ==
    /\ Handles("device_started")
    /\ data_credit_total' = Credits
    /\ setup_required' = (setup_required \/ out.mode = "setup")
    /\ IF out.mode = "standby" /\ ~out.hw_error
       THEN lib_aci_connect ELSE UNCHANGED <<lineVars, deviceVars>>
    /\ Finish(setup_required')
    /\ UNCHANGED <<data_credit_available, pipes_open, timing_change_done, setup_offset, cmd_status>>

HandleCmdRsp ==
    /\ Handles("cmd_rsp")
    /\ IF out.cmd = "device_version"
       THEN lib_aci_set_local_data ELSE UNCHANGED <<lineVars, deviceVars>>
    /\ Finish(setup_required)
    /\ UNCHANGED <<stateVars, setupVars>>

connected_credit_kept == data_credit_available      \* not reset on a new link
connected_credit == data_credit_total

HandleConnected ==
    /\ Handles("connected")
    /\ timing_change_done' = FALSE
    /\ data_credit_available' = connected_credit
    /\ lib_aci_device_version
    /\ Finish(setup_required)
    /\ UNCHANGED <<data_credit_total, pipes_open, setupVars>>

\* The first time the peer opens the transmit pipe: ask for the timing of the
\* GAP service, then say hello.
HandlePipeStatus ==
    /\ Handles("pipe_status")
    /\ \/ /\ lib_aci_is_pipe_available("uart_tx") /\ ~timing_change_done
          /\ lib_aci_change_timing_GAP_PPCP
          /\ timing_change_done' = TRUE
          /\ pc' = "hello"
       \/ /\ ~(lib_aci_is_pipe_available("uart_tx") /\ ~timing_change_done)
          /\ Finish(setup_required)
          /\ UNCHANGED <<lineVars, deviceVars, timing_change_done>>
    /\ UNCHANGED <<data_credit_total, data_credit_available, pipes_open, setupVars>>

SayHello ==
    /\ pc = "hello"
    /\ nRF8001BleUartTx(HelloLength)
    /\ Finish(setup_required)
    /\ UNCHANGED <<data_credit_total, pipes_open, timing_change_done, setupVars>>

handle_disconnected_silently ==     \* no new advertising after a lost link
    /\ Handles("disconnected")
    /\ Finish(setup_required)
    /\ UNCHANGED <<lineVars, deviceVars, stateVars, setupVars>>

HandleTiming       == Handles("timing") /\ Only(lib_aci_set_local_data)
HandleDisconnected == Handles("disconnected") /\ Only(lib_aci_connect)
HandleHwError      == Handles("hw_error") /\ Only(lib_aci_connect)

\* Received data goes to the application, which may call back.
HandleData ==
    /\ Handles("data_received") /\ out.what = "uart"
    /\ pc' = "callback"
    /\ UNCHANGED <<lineVars, deviceVars, stateVars, setupVars>>

CallbackReturns ==
    /\ pc = "callback"
    /\ Finish(setup_required)
    /\ UNCHANGED <<lineVars, deviceVars, stateVars, setupVars>>

\* uart_process_control_point_rx; the two flow control requests set a flag
\* that nothing reads.
HandleControlPoint ==
    /\ Handles("data_received") /\ out.what # "uart"
    /\ \/ /\ lib_aci_is_pipe_available("cp_tx") /\ out.what = "cp_disconnect"
          /\ lib_aci_disconnect
       \/ /\ lib_aci_is_pipe_available("cp_tx") /\ out.what = "cp_timing"
          /\ lib_aci_change_timing /\ UNCHANGED pipes_open
       \/ /\ ~lib_aci_is_pipe_available("cp_tx")
          /\ UNCHANGED <<lineVars, deviceVars, pipes_open>>
    /\ Finish(setup_required)
    /\ UNCHANGED <<data_credit_total, data_credit_available, timing_change_done, setupVars>>

HandleCredit ==
    /\ Handles("data_credit")
    /\ data_credit_available' = data_credit_available + out.credit
    /\ Finish(setup_required)
    /\ UNCHANGED <<lineVars, deviceVars, data_credit_total, pipes_open, timing_change_done, setupVars>>

returned_credit_always(peer) == 1   \* also for an error response of the peer
returned_credit(peer) == IF peer THEN 0 ELSE 1

HandlePipeError ==
    /\ Handles("pipe_error")
    /\ data_credit_available' = data_credit_available + returned_credit(out.peer)
    /\ Finish(setup_required)
    /\ UNCHANGED <<lineVars, deviceVars, data_credit_total, pipes_open, timing_change_done, setupVars>>

aci_loop ==
    \/ LoopBegins
    \/ HandleStarted \/ HandleCmdRsp \/ HandleConnected
    \/ HandlePipeStatus \/ SayHello
    \/ HandleTiming \/ HandleDisconnected \/ HandleHwError
    \/ HandleData \/ CallbackReturns \/ HandleControlPoint
    \/ HandleCredit \/ HandlePipeError

-----------------------------------------------------------------------------
(* do_aci_setup. *)

\* Nothing may be queued or waiting when the setup starts, else it fails.
SetupBegins ==
    /\ pc = "setup"
    /\ \/ /\ aci_tx_q # <<>>
          /\ pc' = "loop"
          /\ UNCHANGED <<lineVars, deviceVars, setup_offset, cmd_status>>
       \/ /\ aci_tx_q = <<>>
          /\ lib_aci_event_peek
          /\ pc' = IF ok' THEN "loop" ELSE "fill"
          /\ setup_offset' = 0 /\ cmd_status' = "error"
    /\ UNCHANGED <<stateVars, setup_required>>

fill_skipping == setup_offset + 1   \* the offset advances past a full queue
\* aci_setup_fill leaves the offset at the message that found no room.
fill_stops_at == setup_offset

\* aci_setup_fill queues messages until the queue is full or none is left.
Fills ==
    /\ pc = "fill" /\ setup_offset < NUM_SETUP
    /\ T!hal_aci_tl_send(SetupMessage(setup_offset))
    /\ setup_offset' = IF ok' THEN setup_offset + 1 ELSE fill_stops_at
    /\ pc' = IF ok' THEN "fill" ELSE IF cmd_status = "continue" THEN "remove" ELSE "wait"
    /\ UNCHANGED <<radioVars, stateVars, setup_required, cmd_status>>

FillEnds ==
    /\ pc = "fill" /\ setup_offset = NUM_SETUP
    /\ pc' = IF cmd_status = "continue" THEN "remove" ELSE "wait"
    /\ UNCHANGED <<lineVars, deviceVars, stateVars, setupVars>>

\* The wait loop looks at the next event without removing it; anything but
\* the answer to a setup message makes the setup fail.
Waits ==
    /\ pc = "wait"
    /\ lib_aci_event_peek
    /\ \/ ~ok' /\ UNCHANGED <<pc, cmd_status>>
       \/ /\ ok' /\ out'.op # "cmd_rsp"
          /\ pc' = "loop" /\ UNCHANGED cmd_status
       \/ /\ ok' /\ out'.op = "cmd_rsp"
          /\ cmd_status' = out'.status
          /\ pc' = IF cmd_status' = "continue" THEN "fill"
                   ELSE IF cmd_status' = "complete" THEN "remove" ELSE "loop"
    /\ UNCHANGED <<stateVars, setup_required, setup_offset>>

\* The guard counter runs out: SETUP_FAIL_TIMEOUT.
TimesOut ==
    /\ SetupTimeout /\ pc = "wait"
    /\ pc' = "loop"
    /\ UNCHANGED <<lineVars, deviceVars, stateVars, setupVars>>

setup_done_on_any == FALSE      \* the flag cleared whatever do_aci_setup returns
setup_never_done == TRUE        \* the flag cleared nowhere
\* setup_required after the event is removed: cleared once the device is done.
still_required == cmd_status # "complete"

Removes ==
    /\ pc = "remove"
    /\ lib_aci_event_get
    /\ setup_required' = still_required
    /\ pc' = IF cmd_status = "complete" THEN "loop" ELSE "wait"
    /\ UNCHANGED <<data_credit_total, timing_change_done, setup_offset, cmd_status>>

do_aci_setup == SetupBegins \/ Fills \/ FillEnds \/ Waits \/ TimesOut \/ Removes

-----------------------------------------------------------------------------

Host == aci_loop \/ do_aci_setup

\* A device that boots takes no command, but what it answered before it went
\* through reset is still fetched.
RdynLow ==
    /\ mode # "reset" \/ pending # <<>>
    /\ T!RdynLow
    /\ UNCHANGED <<radioVars, pc, stateVars, setupVars>>

Device == (DeviceNext \/ HwFault) /\ UNCHANGED <<lineVars, pc, stateVars, setupVars>>

Next == Host \/ AppTx \/ nRF8001BleUartNameSet \/ RdynLow \/ Device

Spec == Init /\ [][Next]_vars

\* The main loop runs for ever, a call of the application returns, and the
\* device executes commands, boots and answers; peers owe nothing.
FairSpec ==
    /\ Spec
    /\ WF_vars(Host)
    /\ WF_vars(RdynLow)
    /\ WF_vars((Boots \/ Executed) /\ UNCHANGED <<lineVars, pc, stateVars, setupVars>>)
-----------------------------------------------------------------------------
(* Where commands and events are. *)

Commands == inbox \o aci_tx_q          \* queued, not yet executed, in order
Events   == aci_rx_q \o pending        \* raised, not yet handed to the host, in order

\* The event the host took out of the queue and has not dealt with yet.
InHand == IF pc = "handle" THEN <<out>> ELSE <<>>

\* The sum of an amount over a sequence, each at most Credits: one pair for
\* every unit of it.
Total(seq, Amount(_)) ==
    Cardinality({p \in (DOMAIN seq) \X (1 .. Credits) : p[2] <= Amount(seq[p[1]])})

PacketsOf(c)       == IF c.op = "send_data" THEN 1 ELSE 0
ReturnsCredit(e)   == e.op = "pipe_error" /\ ~e.peer
CreditsOf(e)       == IF e.op = "data_credit" THEN e.credit ELSE IF ReturnsCredit(e) THEN 1 ELSE 0
PacketsQueued      == Total(Commands, PacketsOf)
CreditsReturning   == Total(InHand \o Events, CreditsOf)
Coming(op)         == \E i \in DOMAIN (InHand \o Events) : (InHand \o Events)[i].op = op

\* Both ends agree that there is a link: the device is connected and the host
\* has dealt with the Connected event.
Linked == mode = "connected" /\ ~Coming("connected")

-----------------------------------------------------------------------------
(* Properties. *)

(* Flow control (aci.h:35-43): on a link, every credit is in exactly one
   place: available to the host, spent on a packet that waits in a queue or is
   in the air, or on its way back in a credit or pipe error event.  Packets
   and events of an earlier link, and packets refused because the peer closed
   the pipe meanwhile, never upset the count.  The counter of the host, a
   uint8_t, never wraps, link or no link. *)
CreditConservation ==
    /\ data_credit_available <= 255
    /\ Linked =>
        data_credit_available + PacketsQueued + air + CreditsReturning
            = data_credit_total

(* Credits are used only after the Connected event (aci.h:37): whatever was
   left in the queues when a link broke, no data reaches the device on a new
   link before the host knows of that link, and none is refused for want of a
   credit. *)
NoStrayData ==
    mode = "connected" =>
        /\ Coming("connected") => PacketsQueued = 0
        /\ air + PacketsQueued <= Credits

(* The host believes a pipe open only while there is a link, or while the
   news that it broke is on its way. *)
PipesNeedLink ==
    pipes_open # {} => mode \in {"connected", "closing"} \/ Coming("disconnected")

\* Nothing comes between the messages of a setup from RAM: no name is set (the
\* application may send, but has no pipe open yet), the guard counter does not
\* run out, and the device has not failed so far.
QuietSetup == "name" \notin AppCalls /\ ~SetupTimeout /\ faults = 0

\* The setup is in OTP memory, or is loaded from RAM undisturbed.
SetUpInPeace == OtpSetup \/ QuietSetup

\* Handlers that restart advertising and look at no result; the command queue
\* has room for what they send.
MustConnect ==
    /\ pc = "handle"
    /\ \/ out.op \in {"disconnected", "hw_error"}
       \/ out.op = "device_started" /\ out.mode = "standby" /\ ~out.hw_error
ConnectFits == MustConnect => Len(aci_tx_q) < ACI_QUEUE_SIZE - 1

(* An event handler that has to restart advertising finds room in the command
   queue, however full the application keeps it: the transfer that brought
   the event took a command away.  With a setup from RAM this needs an
   undisturbed one: Device Started may already wait on the host when names set
   behind the last setup message fill the command queue. *)
ConnectIsQueued == SetUpInPeace => ConnectFits

(* The device advertises again after every reset and every link loss, and
   with its setup in OTP memory after every fault. *)
AdvertisesAgain ==
    mode = "standby" /\ SetUpInPeace ~> mode = "advertising" \/ ~SetUpInPeace

(* The messages of a setup from RAM cross the link one by one, in order, none
   twice and none left out: those on their way follow the last one accepted
   and end with the last one queued. *)
SetupInOrder ==
    QuietSetup /\ pc \in {"fill", "wait", "remove"} =>
        /\ Len(Commands) = setup_offset - loaded
        /\ \A i \in DOMAIN Commands : Commands[i] = SetupMessage(loaded + i - 1)

(* Whatever timeouts and retries came before, the host considers the setup
   done only when the device has all of it. *)
SetupDoneMeansLoaded ==
    data_credit_total > 0 /\ ~setup_required => loaded = NUM_SETUP

(* A device in setup mode is eventually set up and made to advertise. *)
SetupCompletes == mode = "setup" /\ QuietSetup ~> mode = "advertising" \/ ~QuietSetup

-----------------------------------------------------------------------------
(* What comments of the code say. *)

(* lib_aci.cpp:257: pipes are updated at once "so that while the disconnect is
   happening, the application can't attempt sending another message". *)
NoDataBehindDisconnect ==
    \A i, j \in DOMAIN Commands :
        i < j /\ Commands[i].op = "disconnect" => Commands[j].op # "send_data"
=============================================================================
