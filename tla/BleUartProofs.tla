--------------------------- MODULE BleUartProofs ---------------------------
(***************************************************************************)
(* The BLE UART application, for every queue size, number of setup         *)
(* messages, number of credits and every application.                      *)
(***************************************************************************)
EXTENDS BleUart, SequenceTheorems, TLAPS

\* The lemmas about the transport, for the transport of this application.
TP == INSTANCE AciTransportProofs WITH Oversize <- {}

-----------------------------------------------------------------------------
(* The transport under the application. *)

\* What a step of the host may do with the transport.
LineStep ==
    \/ \E c \in Cmd : T!hal_aci_tl_send(c)
    \/ T!hal_aci_tl_event_peek
    \/ T!hal_aci_tl_event_get
    \/ T!RdynLow
    \/ UNCHANGED <<lineVars, inbox, pending>>

(* A call of the transport is a call of the transport of the lemmas. *)
LEMMA SameCalls ==
    /\ \A c \in Cmd : T!hal_aci_tl_send(c) => TP!hal_aci_tl_send(c)
    /\ T!hal_aci_tl_event_peek => TP!hal_aci_tl_event_peek
    /\ T!hal_aci_tl_event_get => TP!hal_aci_tl_event_get
<1> USE DEF T!LOW, T!HIGH, T!Cap, TP!LOW, TP!HIGH, TP!Cap, T!rx_full, TP!rx_full
<1>1. ASSUME NEW c \in Cmd, T!hal_aci_tl_send(c) PROVE TP!hal_aci_tl_send(c)
  BY <1>1 DEF T!hal_aci_tl_send, TP!hal_aci_tl_send, T!tx_full, TP!tx_full
<1> USE DEF T!transfers, TP!transfers, T!tx_after, TP!tx_after, T!rx_after, TP!rx_after,
            T!inbox_after, TP!inbox_after, T!pending_after, TP!pending_after,
            T!reqn_after, TP!reqn_after, T!rdyn_after, TP!rdyn_after, T!spins, TP!spins,
            T!FirstOf, TP!FirstOf, T!RestOf, TP!RestOf,
            T!m_aci_event_check, TP!m_aci_event_check
<1>2. T!hal_aci_tl_event_peek => TP!hal_aci_tl_event_peek
  BY Zenon DEF T!hal_aci_tl_event_peek, TP!hal_aci_tl_event_peek
<1>3. T!hal_aci_tl_event_get => TP!hal_aci_tl_event_get
  BY Zenon DEF T!hal_aci_tl_event_get, TP!hal_aci_tl_event_get, T!get_reqn, TP!get_reqn
<1>4. QED
  BY <1>1, <1>2, <1>3

(* The lemmas about the transport apply to the transport of the application. *)
LEMMA SameTransport ==
    /\ TP!TransportAssumption
    /\ T!TypeOK <=> TP!TypeOK
    /\ LineStep => [TP!Next]_(TP!vars)
<1>1. TP!TransportAssumption
  BY AppAssumption, DeviceAssumption DEF TP!TransportAssumption
<1> USE DEF T!LOW, T!HIGH, T!Cap, TP!LOW, TP!HIGH, TP!Cap, T!rx_full, TP!rx_full
<1>2. T!TypeOK <=> TP!TypeOK
  BY DEF T!TypeOK, TP!TypeOK
<1>3. T!RdynLow => TP!RdynLow
  BY DEF T!RdynLow, TP!RdynLow, T!hostVars, TP!hostVars
<1>4. LineStep => [TP!Next]_(TP!vars)
  BY <1>3, SameCalls DEF LineStep, lineVars, TP!Next, TP!vars, TP!hostVars
<1>5. QED
  BY <1>1, <1>2, <1>4

(* Whatever the host does with the transport, its queues stay within their
   capacity. *)
LEMMA LineStepIsSafe ==
    ASSUME T!TypeOK, LineStep
    PROVE  T!TypeOK'
<1>1. TP!TransportAssumption /\ TP!TypeOK /\ [TP!Next]_(TP!vars)
  BY SameTransport
<1>2. TP!TypeOK'
  BY <1>1, TP!StepKeepsTypes, Zenon
<1>3. (T!TypeOK <=> TP!TypeOK)'
  BY SameTransport, PTL
<1>4. QED
  BY <1>2, <1>3

(* A get or a peek that says it found an event returns one. *)
LEMMA EventFound ==
    ASSUME T!TypeOK, T!hal_aci_tl_event_get \/ T!hal_aci_tl_event_peek, ok'
    PROVE  out' \in Evt
<1>1. TP!TransportAssumption /\ TP!TypeOK
  BY SameTransport
<1>2. TP!rx_after \in Seq(Evt)
  BY <1>1, TP!CheckKeepsTypes, Zenon
<1>3. T!rx_after = TP!rx_after
  BY DEF T!rx_after, TP!rx_after, T!rx_full, TP!rx_full, T!Cap, TP!Cap, T!transfers,
         TP!transfers, T!LOW, TP!LOW, T!FirstOf, TP!FirstOf
<1>4. ok' = (T!rx_after # <<>>) /\ out' = IF T!rx_after = <<>> THEN out ELSE Head(T!rx_after)
  BY DEF T!hal_aci_tl_event_get, T!hal_aci_tl_event_peek
<1>5. T!rx_after # <<>> /\ out' = Head(T!rx_after)
  BY <1>4
<1>6. QED
  BY <1>2, <1>3, <1>5, HeadTailProperties

(* The commands the application sends are commands. *)
LEMMA CommandsSent ==
    /\ \A op \in Plain : Command(op) \in Cmd
    /\ \A n \in 0 .. NUM_SETUP - 1 : SetupMessage(n) \in Cmd
  BY DEF Command, SetupMessage, Cmd

(* What the fields of an event hold. *)
LEMMA EventFields ==
    ASSUME NEW e \in Evt
    PROVE  /\ e.op = "data_credit" => e.credit \in 1 .. Credits
           /\ e.op = "pipe_status" => e.open \subseteq TxPipes
           /\ e.op = "cmd_rsp" => e.status \in Status
  BY DEF Evt, Simple, Started, CmdRsp, PipeStatus, Received, Credit, PipeError

-----------------------------------------------------------------------------
(* Type correctness. *)

\* The part of TypeOK about the variables of the application.
HostTypes ==
    /\ pc \in Places
    /\ data_credit_total \in 0 .. Credits
    /\ data_credit_available \in Nat
    /\ pipes_open \subseteq TxPipes
    /\ timing_change_done \in BOOLEAN
    /\ setup_required \in BOOLEAN
    /\ setup_offset \in 0 .. NUM_SETUP
    /\ cmd_status \in Status

\* TypeOK is inductive once the event being handled is known to be one.
WellTyped == TypeOK /\ (pc = "handle" => out \in Evt)

\* What a step of the host does, as far as types go.
HostStep ==
    /\ LineStep /\ UNCHANGED radioVars
    /\ HostTypes'
    /\ pc' = "handle" => out' \in Evt

(* A call that queues a command is a step of the transport. *)
LEMMA SendStep ==
    ASSUME NEW op \in Plain, Send(op)
    PROVE  LineStep /\ UNCHANGED radioVars
  BY CommandsSent DEF Send, LineStep

(* A step that touches neither line nor device is a step of the transport. *)
LEMMA IdleStep ==
    UNCHANGED <<lineVars, deviceVars>> => LineStep /\ UNCHANGED radioVars
  BY DEF LineStep, deviceVars, radioVars

(* Getting an event is a step of the transport that follows the pipes and the
   credits of the event. *)
LEMMA GetStep ==
    ASSUME TypeOK, lib_aci_event_get
    PROVE  /\ LineStep /\ UNCHANGED radioVars
           /\ ok' => out' \in Evt
           /\ pipes_open' \subseteq TxPipes
           /\ data_credit_available' \in Nat
<1>1. LineStep /\ UNCHANGED radioVars
  BY DEF lib_aci_event_get, LineStep
<1>2. ok' => out' \in Evt
  BY EventFound, Zenon DEF lib_aci_event_get, TypeOK
<1>3. pipes_open' \subseteq TxPipes
  BY <1>2, EventFields DEF lib_aci_event_get, TypeOK, pipes_after_disconnect
<1>4. data_credit_available' \in Nat
  BY DeviceAssumption DEF lib_aci_event_get, TypeOK
<1>5. QED
  BY <1>1, <1>2, <1>3, <1>4

(* Peeking at an event is a step of the transport. *)
LEMMA PeekStep ==
    ASSUME TypeOK, lib_aci_event_peek
    PROVE  /\ LineStep /\ UNCHANGED radioVars
           /\ ok' => out' \in Evt
<1>1. LineStep /\ UNCHANGED radioVars
  BY DEF lib_aci_event_peek, LineStep
<1>2. ok' => out' \in Evt
  BY EventFound, Zenon DEF lib_aci_event_peek, TypeOK
<1>3. QED
  BY <1>1, <1>2

(* Sending data is a step of the transport and keeps the credits a number. *)
LEMMA TxStep ==
    ASSUME TypeOK, NEW length, nRF8001BleUartTx(length)
    PROVE  /\ LineStep /\ UNCHANGED radioVars
           /\ data_credit_available' \in Nat
<1>1. CASE may_tx(length) /\ lib_aci_send_data
           /\ data_credit_available' = data_credit_available - (IF ok' THEN 1 ELSE 0)
  <2>1. LineStep /\ UNCHANGED radioVars
    BY <1>1, SendStep DEF lib_aci_send_data, Plain
  <2>2. QED
    BY <1>1, <2>1 DEF may_tx, TypeOK
<1>2. CASE UNCHANGED <<lineVars, deviceVars, data_credit_available>>
  BY <1>2, IdleStep DEF TypeOK
<1>3. QED
  BY <1>1, <1>2 DEF nRF8001BleUartTx

(* Between two gets, the application calls and the handlers of events. *)
LEMMA AciLoopStep ==
    ASSUME WellTyped, aci_loop \/ AppTx \/ nRF8001BleUartNameSet
    PROVE  HostStep
<1>1. TypeOK /\ HostTypes
  BY DEF WellTyped, TypeOK, HostTypes
<1> USE DEF Places, Finish
<1>2. CASE LoopBegins
  BY <1>1, <1>2, GetStep DEF LoopBegins, HostTypes, HostStep, setupVars
<1>3. CASE HandleStarted
  <2>1. LineStep /\ UNCHANGED radioVars
    BY <1>3, SendStep, IdleStep DEF HandleStarted, lib_aci_connect, Plain
  <2>2. QED
    BY <1>1, <1>3, <2>1, DeviceAssumption DEF HandleStarted, HostTypes, HostStep
<1>4. CASE HandleCmdRsp
  <2>1. LineStep /\ UNCHANGED radioVars
    BY <1>4, SendStep, IdleStep DEF HandleCmdRsp, lib_aci_set_local_data, Plain
  <2>2. QED
    BY <1>1, <1>4, <2>1 DEF HandleCmdRsp, HostTypes, HostStep, stateVars, setupVars
<1>5. CASE HandleConnected
  <2>1. LineStep /\ UNCHANGED radioVars
    BY <1>5, SendStep DEF HandleConnected, lib_aci_device_version, Plain
  <2>2. data_credit_available' \in Nat
    BY <1>1, <1>5, DeviceAssumption DEF HandleConnected, connected_credit, HostTypes
  <2>3. timing_change_done' \in BOOLEAN /\ pc' \in Places /\ pc' # "handle"
    BY <1>5 DEF HandleConnected
  <2>4. QED
    BY <1>1, <1>5, <2>1, <2>2, <2>3 DEF HandleConnected, HostTypes, HostStep, setupVars
<1>6. CASE HandlePipeStatus
  <2>1. LineStep /\ UNCHANGED radioVars
    BY <1>6, SendStep, IdleStep DEF HandlePipeStatus, lib_aci_change_timing_GAP_PPCP, Plain
  <2>2. QED
    BY <1>1, <1>6, <2>1 DEF HandlePipeStatus, HostTypes, HostStep, setupVars
<1>7. CASE SayHello
  BY <1>1, <1>7, TxStep DEF SayHello, HostTypes, HostStep, setupVars
<1>8. CASE HandleTiming \/ HandleDisconnected \/ HandleHwError
  <2>1. LineStep /\ UNCHANGED radioVars
    BY <1>8, SendStep DEF HandleTiming, HandleDisconnected, HandleHwError, Only,
                          lib_aci_set_local_data, lib_aci_connect, Plain
  <2>2. QED
    BY <1>1, <1>8, <2>1 DEF HandleTiming, HandleDisconnected, HandleHwError, Only,
                            HostTypes, HostStep, stateVars, setupVars
<1>9. CASE HandleData \/ CallbackReturns
  BY <1>1, <1>9, IdleStep DEF HandleData, CallbackReturns, HostTypes, HostStep, stateVars, setupVars
<1>10. CASE HandleControlPoint
  <2>1. LineStep /\ UNCHANGED radioVars /\ pipes_open' \subseteq TxPipes
    BY <1>1, <1>10, SendStep, IdleStep
    DEF HandleControlPoint, lib_aci_disconnect, lib_aci_change_timing, Plain, HostTypes
  <2>2. QED
    BY <1>1, <1>10, <2>1 DEF HandleControlPoint, HostTypes, HostStep, setupVars
<1>11. CASE HandleCredit
  <2>1. out.credit \in Nat
    BY <1>11, EventFields, DeviceAssumption DEF HandleCredit, Handles, WellTyped
  <2>2. QED
    BY <1>1, <1>11, <2>1, IdleStep DEF HandleCredit, HostTypes, HostStep, setupVars
<1>12. CASE HandlePipeError
  BY <1>1, <1>12, IdleStep DEF HandlePipeError, returned_credit, HostTypes, HostStep, setupVars
<1>13. CASE AppTx
  BY <1>1, <1>13, TxStep DEF AppTx, AppRuns, HostTypes, HostStep, setupVars
<1>14. CASE nRF8001BleUartNameSet
  <2>1. LineStep /\ UNCHANGED radioVars
    BY <1>14, SendStep DEF nRF8001BleUartNameSet, lib_aci_set_local_data, Plain
  <2>2. QED
    BY <1>1, <1>14, <2>1
    DEF nRF8001BleUartNameSet, AppRuns, HostTypes, HostStep, stateVars, setupVars
<1>15. QED
  BY <1>2, <1>3, <1>4, <1>5, <1>6, <1>7, <1>8, <1>9, <1>10, <1>11, <1>12, <1>13, <1>14
  DEF aci_loop

(* The setup routine. *)
LEMMA SetupStep ==
    ASSUME WellTyped, do_aci_setup
    PROVE  HostStep
<1>1. TypeOK /\ HostTypes
  BY DEF WellTyped, TypeOK, HostTypes
<1> USE DEF Places
<1>2. CASE SetupBegins
  <2>1. CASE UNCHANGED <<lineVars, deviceVars, setup_offset, cmd_status>> /\ pc' = "loop"
    BY <1>1, <1>2, <2>1, IdleStep DEF SetupBegins, HostTypes, HostStep, stateVars
  <2>2. CASE /\ lib_aci_event_peek
             /\ pc' = IF ok' THEN "loop" ELSE "fill"
             /\ setup_offset' = 0 /\ cmd_status' = "error"
    BY <1>1, <1>2, <2>2, PeekStep, DeviceAssumption
    DEF SetupBegins, HostTypes, HostStep, stateVars, Status
  <2>3. QED
    BY <1>2, <2>1, <2>2 DEF SetupBegins
<1>3. CASE Fills
  <2>1. setup_offset \in 0 .. NUM_SETUP - 1
    BY <1>1, <1>3, DeviceAssumption DEF Fills, HostTypes
  <2>2. UNCHANGED radioVars /\ LineStep
    BY <1>3, <2>1, CommandsSent DEF Fills, LineStep
  <2>3. setup_offset' \in 0 .. NUM_SETUP
    BY <1>3, <2>1, DeviceAssumption DEF Fills, fill_stops_at
  <2>4. QED
    BY <1>1, <1>3, <2>2, <2>3 DEF Fills, HostTypes, HostStep, stateVars
<1>4. CASE FillEnds \/ TimesOut
  BY <1>1, <1>4, IdleStep DEF FillEnds, TimesOut, HostTypes, HostStep, stateVars, setupVars
<1>5. CASE Waits
  <2>1. LineStep /\ UNCHANGED radioVars /\ (ok' => out' \in Evt)
    BY <1>1, <1>5, PeekStep DEF Waits
  <2>2. cmd_status' \in Status /\ pc' \in Places /\ pc' # "handle"
    BY <1>1, <1>5, <2>1, EventFields DEF Waits, HostTypes
  <2>3. QED
    BY <1>1, <1>5, <2>1, <2>2 DEF Waits, HostTypes, HostStep, stateVars
<1>6. CASE Removes
  <2>1. /\ LineStep /\ UNCHANGED radioVars
        /\ pipes_open' \subseteq TxPipes /\ data_credit_available' \in Nat
    BY <1>1, <1>6, GetStep DEF Removes
  <2>2. QED
    BY <1>1, <1>6, <2>1 DEF Removes, still_required, HostTypes, HostStep
<1>7. QED
  BY <1>2, <1>3, <1>4, <1>5, <1>6 DEF do_aci_setup

(* The events the device raises are events. *)
LEMMA EventsRaised ==
    /\ \A op \in {"connected", "disconnected", "timing", "hw_error"} : Simple(op) \in Evt
    /\ \A m \in {"setup", "standby"}, hw \in BOOLEAN : Started(m, hw) \in Evt
    /\ \A c \in Plain \cup {"setup"}, s \in Status : CmdRsp(c, s) \in Evt
    /\ \A p \in SUBSET TxPipes : PipeStatus(p) \in Evt
    /\ \A w \in Writes : Received(w) \in Evt
    /\ \A n \in 1 .. Credits : Credit(n) \in Evt
    /\ \A peer \in BOOLEAN : PipeError(peer) \in Evt
  BY DEF Evt

(* The device and its peer. *)
LEMMA DeviceStep ==
    ASSUME DeviceTypeOK, DeviceNext \/ HwFault
    PROVE  DeviceTypeOK'
<1>1. /\ inbox \in Seq(Cmd) /\ pending \in Seq(Evt)
      /\ mode \in {"reset", "setup", "standby", "advertising", "connected", "closing"}
      /\ loaded \in 0 .. NUM_SETUP /\ open \subseteq TxPipes
      /\ air \in 0 .. Credits /\ faults \in 0 .. MaxFaults
  BY DEF DeviceTypeOK
<1>2. \A e \in Evt : Raise(e) => pending' \in Seq(Evt)
  BY <1>1, AppendProperties DEF Raise
<1>3. ASSUME NEW op, Executes(op)
      PROVE  /\ inbox' \in Seq(Cmd)
             /\ Head(inbox) \in Cmd /\ Head(inbox).op \in Plain \cup {"setup"}
             /\ faults' = faults
  <2>1. Head(inbox) \in Cmd /\ Tail(inbox) \in Seq(Cmd)
    BY <1>1, <1>3, HeadTailProperties DEF Executes
  <2>2. QED
    BY <1>3, <2>1 DEF Executes, Cmd
<1>4. ASSUME NEW op, Executes(op), NEW s \in Status, Reply(s)
      PROVE  pending' \in Seq(Evt)
  <2>1. CmdRsp(Head(inbox).op, s) \in Evt
    BY <1>3, <1>4, EventsRaised
  <2>2. QED
    BY <1>2, <1>4, <2>1 DEF Reply
<1>5. CASE Boots
  <2>1. mode' \in {"setup", "standby"}
    BY <1>5 DEF Boots
  <2>2. Started(mode', FALSE) \in Evt
    BY <2>1, EventsRaised
  <2>3. QED
    BY <1>1, <1>2, <1>5, <2>1, <2>2 DEF Boots, DeviceTypeOK
<1>6. CASE ExecSetup
  <2>1. CASE mode = "setup" /\ Head(inbox).n = loaded
    <3>1. /\ loaded' = loaded + 1
          /\ Reply(IF loaded' = NUM_SETUP THEN "complete" ELSE "continue")
          /\ mode' = IF loaded' = NUM_SETUP THEN "reset" ELSE "setup"
      BY <1>6, <2>1 DEF ExecSetup
    <3>2. Head(inbox).n \in 0 .. NUM_SETUP - 1
      <4>1. Head(inbox) \in Cmd /\ Head(inbox).op = "setup"
        BY <1>3, <1>6 DEF ExecSetup, Executes
      <4>2. QED
        BY <4>1 DEF Cmd, Plain
    <3>3. loaded' \in 0 .. NUM_SETUP
      BY <1>1, <2>1, <3>1, <3>2, DeviceAssumption
    <3>4. pending' \in Seq(Evt)
      <4>1. (IF loaded' = NUM_SETUP THEN "complete" ELSE "continue") \in Status
        BY DEF Status
      <4>2. QED
        BY <1>4, <1>6, <3>1, <4>1 DEF ExecSetup
    <3>5. QED
      BY <1>1, <1>3, <1>6, <3>1, <3>3, <3>4 DEF ExecSetup, DeviceTypeOK
  <2>2. CASE ~(mode = "setup" /\ Head(inbox).n = loaded)
    <3>1. Executes("setup") /\ Reply("error") /\ UNCHANGED <<loaded, mode, open, air>>
      BY <1>6, <2>2 DEF ExecSetup
    <3>2. "error" \in Status
      BY DEF Status
    <3>3. pending' \in Seq(Evt)
      BY <1>4, <3>1, <3>2
    <3>4. QED
      BY <1>1, <1>3, <3>1, <3>3 DEF DeviceTypeOK
  <2>3. QED
    BY <2>1, <2>2
<1>7. CASE ExecConnect \/ ExecDisconnect \/ ExecQuery
  <2>1. PICK op : Executes(op)
    BY <1>7 DEF ExecConnect, ExecDisconnect, ExecQuery
  <2>2. PICK s \in Status : Reply(s)
    BY <1>7 DEF ExecConnect, ExecDisconnect, ExecQuery, Status
  <2>3. inbox' \in Seq(Cmd) /\ pending' \in Seq(Evt) /\ faults' = faults
    BY <1>3, <1>4, <2>1, <2>2
  <2>4. /\ mode' \in {mode, "advertising", "closing"} /\ loaded' = loaded
        /\ open' \in {open, {}} /\ air' \in {air, 0}
    BY <1>7 DEF ExecConnect, ExecDisconnect, ExecQuery
  <2>5. QED
    BY <1>1, <2>3, <2>4, DeviceAssumption DEF DeviceTypeOK
<1>8. CASE ExecSendData
  <2>1. inbox' \in Seq(Cmd) /\ faults' = faults
    BY <1>3, <1>8 DEF ExecSendData
  <2>2. PipeError(FALSE) \in Evt
    BY EventsRaised, Zenon
  <2>3. pending' \in Seq(Evt)
    BY <1>1, <1>2, <1>8, <2>2 DEF ExecSendData
  <2>4. air' \in 0 .. Credits
    <3>1. air' = air \/ (air' = air + 1 /\ air < Credits)
      BY <1>8 DEF ExecSendData
    <3>2. QED
      BY <1>1, <3>1, DeviceAssumption
  <2>5. QED
    BY <1>1, <1>8, <2>1, <2>3, <2>4 DEF ExecSendData, DeviceTypeOK
<1>9. CASE PeerNext
  <2>1. PICK e \in Evt : Raise(e)
    <3>1. CASE PeerAcks
      <4>1. PICK n \in 1 .. air : Raise(Credit(n))
        BY <1>9, <3>1 DEF PeerAcks, Volunteer
      <4>2. n \in 1 .. Credits
        BY <1>1, DeviceAssumption
      <4>3. Credit(n) \in Evt
        BY <4>2, EventsRaised
      <4>4. QED
        BY <4>1, <4>3
    <3>2. CASE PeerSubscribes
      <4>1. open' \in SUBSET TxPipes /\ Raise(PipeStatus(open'))
        BY <1>1, <3>2 DEF PeerSubscribes, Volunteer
      <4>2. PipeStatus(open') \in Evt
        BY <4>1, EventsRaised
      <4>3. QED
        BY <4>1, <4>2
    <3>3. CASE PeerConnects \/ LinkDrops
      <4>1. Simple("connected") \in Evt /\ Simple("disconnected") \in Evt
        BY EventsRaised, Zenon
      <4>2. QED
        BY <3>3, <4>1 DEF PeerConnects, LinkDrops, Volunteer
    <3>4. CASE PeerWrites \/ PeerReports
      <4>1. /\ \A w \in Writes : Received(w) \in Evt
            /\ PipeError(TRUE) \in Evt /\ Simple("timing") \in Evt
        BY EventsRaised, Zenon
      <4>2. QED
        BY <3>4, <4>1 DEF PeerWrites, PeerReports, Volunteer
    <3>5. QED
      BY <1>9, <3>1, <3>2, <3>3, <3>4 DEF PeerNext
  <2>2. pending' \in Seq(Evt)
    BY <1>2, <2>1
  <2>3. /\ mode' \in {mode, "connected", "standby"}
        /\ UNCHANGED <<inbox, loaded, faults>>
        /\ open' \subseteq TxPipes
    BY <1>1, <1>9 DEF PeerNext, PeerConnects, PeerSubscribes, PeerWrites, PeerAcks,
                      PeerReports, LinkDrops
  <2>4. air' \in 0 .. Credits
    <3>1. CASE PeerAcks
      <4>1. PICK n \in 1 .. air : air' = air - n
        BY <3>1 DEF PeerAcks
      <4>2. QED
        BY <1>1, <4>1, DeviceAssumption
    <3>2. CASE air' \in {air, 0}
      BY <1>1, <3>2, DeviceAssumption
    <3>3. QED
      BY <1>9, <3>1, <3>2
      DEF PeerNext, PeerConnects, PeerSubscribes, PeerWrites, PeerReports, LinkDrops
  <2>5. QED
    BY <1>1, <2>2, <2>3, <2>4 DEF DeviceTypeOK
<1>10. CASE HwFault
  <2>1. Started("standby", TRUE) \in Evt /\ Simple("hw_error") \in Evt
    BY EventsRaised, Zenon
  <2>2. /\ <<Started("standby", TRUE), Simple("hw_error")>> \in Seq(Evt)
        /\ <<>> \in Seq(Cmd)
    <3>1. \A S, a, b : a \in S /\ b \in S => <<a, b>> \in Seq(S) /\ <<>> \in Seq(S)
      OBVIOUS
    <3>2. QED
      BY <2>1, <3>1, EmptySeq, Zenon
  <2>3. faults' \in 0 .. MaxFaults /\ air' \in 0 .. Credits
    BY <1>1, <1>10, DeviceAssumption DEF HwFault
  <2>4. QED
    BY <1>1, <1>10, <2>2, <2>3 DEF HwFault, DeviceTypeOK
<1>11. QED
  BY <1>5, <1>6, <1>7, <1>8, <1>9, <1>10 DEF DeviceNext, Executed

(* The types are an invariant. *)
LEMMA WellTypedAlways == Spec => []WellTyped
<1>1. Init => WellTyped
  <2>1. SUFFICES ASSUME Init PROVE WellTyped
    OBVIOUS
  <2>2. <<>> \in Seq(Cmd) /\ <<>> \in Seq(Evt) /\ Len(<<>>) <= T!Cap
    <3>1. <<>> \in Seq(Cmd) /\ <<>> \in Seq(Evt) /\ Len(<<>>) <= TP!Cap
      BY SameTransport, TP!EmptyFits, Zenon
    <3>2. QED
      BY <3>1 DEF T!Cap, TP!Cap
  <2>3. DeviceTypeOK
    <3>1. /\ inbox = <<>> /\ pending = <<>> /\ mode = "reset"
          /\ loaded = NUM_SETUP \/ loaded = 0
          /\ open = {} /\ air = 0 /\ faults = 0
      BY <2>1 DEF Init, DeviceInit
    <3>2. loaded \in 0 .. NUM_SETUP /\ 0 \in 0 .. Credits /\ 0 \in 0 .. MaxFaults
      BY <3>1, DeviceAssumption
    <3>3. QED
      BY <2>2, <3>1, <3>2 DEF DeviceTypeOK
  <2>4. T!TypeOK
    <3>1. /\ aci_tx_q = <<>> /\ aci_rx_q = <<>> /\ inbox = <<>> /\ pending = <<>>
          /\ reqn = T!HIGH /\ rdyn = T!HIGH
          /\ hung = FALSE /\ ok = FALSE /\ out = NoEvt
      BY <2>1 DEF Init, T!Init
    <3>2. QED
      BY <2>2, <3>1 DEF T!TypeOK
  <2>5. HostTypes /\ pc # "handle"
    <3>1. 0 \in 0 .. Credits /\ 0 \in 0 .. NUM_SETUP /\ 0 \in Nat
      BY DeviceAssumption
    <3>2. /\ pc = "loop" /\ data_credit_total = 0 /\ data_credit_available = 0
          /\ pipes_open = {} /\ timing_change_done = FALSE
          /\ setup_required = FALSE /\ setup_offset = 0 /\ cmd_status = "error"
      BY <2>1 DEF Init
    <3>3. QED
      BY <3>1, <3>2 DEF HostTypes, Places, Status
  <2>6. QED
    BY <2>3, <2>4, <2>5 DEF WellTyped, TypeOK, HostTypes
<1>2. WellTyped /\ [Next]_vars => WellTyped'
  <2>1. SUFFICES ASSUME WellTyped, [Next]_vars PROVE WellTyped'
    OBVIOUS
  <2>2. DeviceTypeOK /\ T!TypeOK /\ HostTypes
    BY <2>1 DEF WellTyped, TypeOK, HostTypes
  <2>3. ASSUME HostStep PROVE WellTyped'
    <3>1. T!TypeOK'
      BY <2>2, <2>3, LineStepIsSafe DEF HostStep
    <3>2. DeviceTypeOK'
      BY <2>2, <2>3, <3>1 DEF HostStep, radioVars, DeviceTypeOK, T!TypeOK
    <3>3. QED
      BY <2>3, <3>1, <3>2 DEF HostStep, HostTypes, WellTyped, TypeOK
  <2>4. CASE Host \/ AppTx \/ nRF8001BleUartNameSet
    BY <2>1, <2>3, <2>4, AciLoopStep, SetupStep DEF Host
  <2>5. CASE RdynLow
    <3>1. LineStep /\ UNCHANGED radioVars
      BY <2>5 DEF RdynLow, LineStep
    <3>2. HostTypes' /\ UNCHANGED <<pc, out>>
      BY <2>2, <2>5 DEF RdynLow, HostTypes, stateVars, setupVars, T!RdynLow, T!hostVars
    <3>3. QED
      BY <2>1, <2>3, <3>1, <3>2 DEF HostStep, WellTyped
  <2>6. CASE Device
    <3>1. DeviceTypeOK'
      BY <2>2, <2>6, DeviceStep DEF Device
    <3>2. T!TypeOK'
      BY <2>2, <2>6, <3>1 DEF Device, lineVars, T!TypeOK, DeviceTypeOK, T!Cap
    <3>3. HostTypes' /\ UNCHANGED <<pc, out>>
      BY <2>2, <2>6 DEF Device, HostTypes, lineVars, stateVars, setupVars
    <3>4. QED
      BY <2>1, <3>1, <3>2, <3>3 DEF WellTyped, TypeOK, HostTypes
  <2>7. CASE UNCHANGED vars
    BY <2>1, <2>7 DEF vars, lineVars, deviceVars, stateVars, setupVars, WellTyped, TypeOK,
                      DeviceTypeOK, T!TypeOK, T!Cap
  <2>8. QED
    BY <2>1, <2>4, <2>5, <2>6, <2>7 DEF Next
<1>3. QED
  BY <1>1, <1>2, PTL DEF Spec

(* Type correctness: queues within their capacity, every message whole, the
   credits never below zero, the setup offset never past the last message. *)
THEOREM TypeCorrect == Spec => []TypeOK
<1>1. WellTyped => TypeOK
  BY DEF WellTyped
<1>2. QED
  BY <1>1, WellTypedAlways, PTL

-----------------------------------------------------------------------------
(* The two streams: what a call of the transport does to the commands on their
   way to the device and to the events on their way to the host. *)

(* Both streams are sequences of messages. *)
LEMMA StreamTypes ==
    ASSUME TypeOK
    PROVE  Commands \in Seq(Cmd) /\ Events \in Seq(Evt)
  BY ConcatProperties DEF TypeOK, T!TypeOK, Commands, Events

(* A send puts the command behind the others, or changes nothing. *)
LEMMA SendStream ==
    ASSUME TypeOK, NEW c \in Cmd, T!hal_aci_tl_send(c)
    PROVE  /\ Events' = Events /\ UNCHANGED <<aci_rx_q, inbox, out>>
           /\ \/ ok' = TRUE /\ Commands' = Append(Commands, c)
              \/ ok' = FALSE /\ Commands' = Commands
<1>1. TP!TransportAssumption /\ TP!TypeOK /\ TP!hal_aci_tl_send(c)
  BY SameTransport, SameCalls DEF TypeOK
<1>2. /\ aci_rx_q' \o pending' = aci_rx_q \o pending
      /\ UNCHANGED <<aci_rx_q, inbox, out>>
      /\ \/ ok' = TRUE /\ inbox' \o aci_tx_q' = Append(inbox \o aci_tx_q, c)
         \/ ok' = FALSE /\ inbox' \o aci_tx_q' = inbox \o aci_tx_q
  BY <1>1, TP!SendStream, Zenon
<1>3. QED
  BY <1>2 DEF Commands, Events

(* A get takes the oldest event out of the stream, or finds none. *)
LEMMA GetStream ==
    ASSUME TypeOK, T!hal_aci_tl_event_get
    PROVE  /\ Commands' = Commands /\ ok' \in BOOLEAN
           /\ ok' => Events # <<>> /\ out' = Head(Events) /\ Events' = Tail(Events)
           /\ ~ok' => Events' = Events /\ out' = out
           /\ aci_rx_q # <<>> => ok' /\ out' = Head(aci_rx_q)
<1>1. TP!TransportAssumption /\ TP!TypeOK /\ TP!hal_aci_tl_event_get
  BY SameTransport, SameCalls DEF TypeOK
<1>2. QED
  BY <1>1, TP!GetStream, Zenon DEF Commands, Events

(* A peek shows the oldest event, which stays in front of the queue. *)
LEMMA PeekStream ==
    ASSUME TypeOK, T!hal_aci_tl_event_peek
    PROVE  /\ Commands' = Commands /\ Events' = Events /\ ok' \in BOOLEAN
           /\ ok' => /\ Events # <<>> /\ out' = Head(Events)
                     /\ aci_rx_q' # <<>> /\ out' = Head(aci_rx_q')
           /\ ~ok' => out' = out /\ aci_rx_q' = <<>>
<1>1. TP!TransportAssumption /\ TP!TypeOK /\ TP!hal_aci_tl_event_peek
  BY SameTransport, SameCalls DEF TypeOK
<1>2. QED
  BY <1>1, TP!PeekStream, Zenon DEF Commands, Events

(* The device takes the oldest command... *)
LEMMA ExecuteStream ==
    ASSUME TypeOK, NEW op, Executes(op), UNCHANGED aci_tx_q
    PROVE  /\ Commands # <<>> /\ Head(Commands) = Head(inbox) /\ Head(inbox).op = op
           /\ Commands' = Tail(Commands)
<1>1. inbox \in Seq(Cmd) /\ aci_tx_q \in Seq(Cmd) /\ inbox # <<>>
  BY DEF TypeOK, T!TypeOK, Executes
<1>2. /\ inbox \o aci_tx_q # <<>> /\ Head(inbox \o aci_tx_q) = Head(inbox)
      /\ Tail(inbox \o aci_tx_q) = Tail(inbox) \o aci_tx_q
  BY <1>1, TP!HeadTailConcat, SameTransport, Zenon
<1>3. QED
  BY <1>2 DEF Executes, Commands

(* ... and puts its events behind the others. *)
LEMMA RaiseStream ==
    ASSUME TypeOK, NEW e \in Evt, Raise(e), UNCHANGED aci_rx_q
    PROVE  Events' = Append(Events, e)
<1>1. aci_rx_q \o Append(pending, e) = Append(aci_rx_q \o pending, e)
  BY DEF TypeOK, T!TypeOK
<1>2. QED
  BY <1>1 DEF Raise, Events

-----------------------------------------------------------------------------
(* Advertising is never forgotten for want of room. *)

\* Every event but the start in setup mode.
Ordinary == {e \in Evt : ~(e.op = "device_started" /\ e.mode = "setup")}

\* The host is not in the setup routine, nor on its way there.
Settled ==
    /\ pc \in {"loop", "callback", "handle", "hello"} /\ ~setup_required
    /\ pc = "handle" => out \in Ordinary

\* Outside the setup the event queue is empty between two gets, since a get
\* takes at once the event that its transfer brings; so a handler runs after a
\* transfer, which took a command out of the queue.
Operating ==
    /\ Settled
    /\ mode # "setup" /\ loaded = NUM_SETUP
    /\ aci_rx_q = <<>>
    /\ pending \in Seq(Ordinary)
    /\ pc = "handle" => Len(aci_tx_q) < T!Cap

(* With no event waiting on the host, a get that returns one has made room in
   the command queue. *)
LEMMA GetMakesRoom ==
    ASSUME TypeOK, aci_rx_q = <<>>, pending \in Seq(Ordinary), T!hal_aci_tl_event_get
    PROVE  /\ aci_rx_q' = <<>> /\ pending' \in Seq(Ordinary)
           /\ ok' => out' \in Ordinary /\ Len(aci_tx_q') < T!Cap
<1>1. TP!TransportAssumption /\ TP!TypeOK /\ TP!hal_aci_tl_event_get
  BY SameTransport, SameCalls DEF TypeOK
<1>2. aci_rx_q' = <<>> /\ (ok' => Len(aci_tx_q') < TP!Cap)
  BY <1>1, TP!GetMakesRoom, Zenon
<1>3. \A s \in Seq(Evt) : <<>> \o s = s
  BY ConcatEmptySeq
<1>4. Events = pending /\ Events' = pending'
  <2>1. pending \in Seq(Evt) /\ pending' \in Seq(Evt)
    BY LineStepIsSafe DEF LineStep, TypeOK, T!TypeOK
  <2>2. QED
    BY <1>2, <1>3, <2>1 DEF Events
<1>5. pending' \in Seq(Ordinary) /\ (ok' => out' \in Ordinary)
  BY <1>4, GetStream, HeadTailProperties
<1>6. QED
  BY <1>2, <1>5 DEF T!Cap, TP!Cap

\* A step that leaves the events and the device alone and ends no get.
QuietStep ==
    /\ UNCHANGED <<aci_rx_q, pending, mode, loaded>>
    /\ ~setup_required'
    /\ pc' \in {"loop", "callback", "hello"}

(* Queuing a command leaves the events and the device alone. *)
LEMMA SendIsQuiet ==
    ASSUME NEW op, Send(op)
    PROVE  UNCHANGED <<aci_rx_q, pending, mode, loaded>>
  BY DEF Send, T!hal_aci_tl_send, radioVars

(* Sending data does so too. *)
LEMMA TxIsQuiet ==
    ASSUME NEW length, nRF8001BleUartTx(length)
    PROVE  UNCHANGED <<aci_rx_q, pending, mode, loaded>>
  BY SendIsQuiet DEF nRF8001BleUartTx, lib_aci_send_data, lineVars, deviceVars

(* In operation, every step of the application but a get is quiet. *)
LEMMA HandlersAreQuiet ==
    ASSUME Settled, aci_loop \/ AppTx \/ nRF8001BleUartNameSet, ~LoopBegins
    PROVE  QuietStep
<1> USE DEF Settled, Finish, QuietStep
<1>1. CASE HandleStarted
  <2>1. UNCHANGED <<aci_rx_q, pending, mode, loaded>>
    BY <1>1, SendIsQuiet DEF HandleStarted, lib_aci_connect, lineVars, deviceVars
  <2>2. ~setup_required'
    BY <1>1 DEF HandleStarted, Handles, Ordinary
  <2>3. QED
    BY <1>1, <2>1, <2>2 DEF HandleStarted
<1>2. CASE HandleCmdRsp \/ HandleTiming \/ HandleDisconnected \/ HandleHwError \/ HandleConnected
  <2>1. UNCHANGED <<aci_rx_q, pending, mode, loaded>>
    BY <1>2, SendIsQuiet
    DEF HandleCmdRsp, HandleTiming, HandleDisconnected, HandleHwError, HandleConnected, Only,
        lib_aci_set_local_data, lib_aci_connect, lib_aci_device_version, lineVars, deviceVars
  <2>2. QED
    BY <1>2, <2>1 DEF HandleCmdRsp, HandleTiming, HandleDisconnected, HandleHwError,
                      HandleConnected, Only, setupVars
<1>3. CASE HandlePipeStatus
  <2>1. UNCHANGED <<aci_rx_q, pending, mode, loaded>>
    BY <1>3, SendIsQuiet
    DEF HandlePipeStatus, lib_aci_change_timing_GAP_PPCP, lineVars, deviceVars
  <2>2. QED
    BY <1>3, <2>1 DEF HandlePipeStatus, setupVars
<1>4. CASE HandleControlPoint
  <2>1. UNCHANGED <<aci_rx_q, pending, mode, loaded>>
    BY <1>4, SendIsQuiet
    DEF HandleControlPoint, lib_aci_disconnect, lib_aci_change_timing, lineVars, deviceVars
  <2>2. QED
    BY <1>4, <2>1 DEF HandleControlPoint, setupVars
<1>5. CASE HandleData \/ CallbackReturns \/ HandleCredit \/ HandlePipeError
  BY <1>5 DEF HandleData, CallbackReturns, HandleCredit, HandlePipeError, lineVars,
              deviceVars, setupVars
<1>6. CASE SayHello
  BY <1>6, TxIsQuiet DEF SayHello, setupVars
<1>7. CASE AppTx
  BY <1>7, TxIsQuiet DEF AppTx, AppRuns, setupVars
<1>8. CASE nRF8001BleUartNameSet
  BY <1>8, SendIsQuiet DEF nRF8001BleUartNameSet, AppRuns, lib_aci_set_local_data, setupVars
<1>9. QED
  BY <1>1, <1>2, <1>3, <1>4, <1>5, <1>6, <1>7, <1>8 DEF aci_loop

(* All events but one are ordinary. *)
LEMMA OrdinaryRaised ==
    /\ \A op \in {"connected", "disconnected", "timing", "hw_error"} : Simple(op) \in Ordinary
    /\ \A hw \in BOOLEAN : Started("standby", hw) \in Ordinary
    /\ \A c \in Plain \cup {"setup"}, s \in Status : CmdRsp(c, s) \in Ordinary
    /\ \A p \in SUBSET TxPipes : PipeStatus(p) \in Ordinary
    /\ \A w \in Writes : Received(w) \in Ordinary
    /\ \A n \in 1 .. Credits : Credit(n) \in Ordinary
    /\ \A peer \in BOOLEAN : PipeError(peer) \in Ordinary
  BY EventsRaised
  DEF Ordinary, Simple, Started, CmdRsp, PipeStatus, Received, Credit, PipeError

(* A device whose setup is loaded never goes back to setup mode. *)
LEMMA DeviceStaysSetUp ==
    ASSUME DeviceTypeOK, DeviceNext \/ HwFault,
           mode # "setup", loaded = NUM_SETUP, pending \in Seq(Ordinary)
    PROVE  mode' # "setup" /\ loaded' = NUM_SETUP /\ pending' \in Seq(Ordinary)
<1>1. \A e \in Ordinary : Raise(e) => pending' \in Seq(Ordinary)
  BY AppendProperties DEF Raise
<1>2. ASSUME NEW op, Executes(op), NEW s \in Status, Reply(s)
      PROVE  pending' \in Seq(Ordinary)
  <2>1. Head(inbox) \in Cmd
    BY <1>2, HeadTailProperties DEF Executes, DeviceTypeOK
  <2>2. Head(inbox).op \in Plain \cup {"setup"}
    BY <2>1 DEF Cmd
  <2>3. CmdRsp(Head(inbox).op, s) \in Ordinary
    BY <2>2, OrdinaryRaised
  <2>4. QED
    BY <1>1, <1>2, <2>3 DEF Reply
<1>3. CASE Boots
  <2>1. mode' = "standby"
    BY <1>3 DEF Boots
  <2>2. Started(mode', FALSE) \in Ordinary
    BY <2>1, OrdinaryRaised, Zenon
  <2>3. QED
    BY <1>1, <1>3, <2>1, <2>2 DEF Boots
<1>4. CASE ExecSetup \/ ExecConnect \/ ExecDisconnect \/ ExecQuery
  <2>1. PICK op : Executes(op)
    BY <1>4 DEF ExecSetup, ExecConnect, ExecDisconnect, ExecQuery
  <2>2. PICK s \in Status : Reply(s)
    BY <1>4 DEF ExecSetup, ExecConnect, ExecDisconnect, ExecQuery, Status
  <2>3. mode' # "setup" /\ loaded' = NUM_SETUP
    BY <1>4 DEF ExecSetup, ExecConnect, ExecDisconnect, ExecQuery
  <2>4. QED
    BY <1>2, <2>1, <2>2, <2>3
<1>5. CASE ExecSendData
  <2>1. PipeError(FALSE) \in Ordinary
    BY OrdinaryRaised, Zenon
  <2>2. QED
    BY <1>1, <1>5, <2>1 DEF ExecSendData
<1>6. CASE PeerNext
  <2>1. pending' \in Seq(Ordinary)
    <3>1. CASE PeerAcks
      <4>1. PICK n \in 1 .. air : Raise(Credit(n))
        BY <3>1 DEF PeerAcks, Volunteer
      <4>2. n \in 1 .. Credits
        BY DeviceAssumption DEF DeviceTypeOK
      <4>3. QED
        BY <1>1, <4>1, <4>2, OrdinaryRaised
    <3>2. CASE PeerSubscribes
      <4>1. open' \in SUBSET TxPipes /\ Raise(PipeStatus(open'))
        BY <3>2 DEF PeerSubscribes, Volunteer, DeviceTypeOK
      <4>2. QED
        BY <1>1, <4>1, OrdinaryRaised
    <3>3. CASE PeerConnects \/ LinkDrops
      BY <1>1, <3>3, OrdinaryRaised DEF PeerConnects, LinkDrops, Volunteer
    <3>4. CASE PeerWrites \/ PeerReports
      <4>1. PipeError(TRUE) \in Ordinary /\ Simple("timing") \in Ordinary
        BY OrdinaryRaised, Zenon
      <4>2. QED
        BY <1>1, <3>4, <4>1, OrdinaryRaised DEF PeerWrites, PeerReports, Volunteer
    <3>5. QED
      BY <1>6, <3>1, <3>2, <3>3, <3>4 DEF PeerNext
  <2>2. mode' # "setup" /\ loaded' = NUM_SETUP
    BY <1>6 DEF PeerNext, PeerConnects, PeerSubscribes, PeerWrites, PeerAcks, PeerReports,
                LinkDrops
  <2>3. QED
    BY <2>1, <2>2
<1>7. CASE HwFault
  <2>1. Started("standby", TRUE) \in Ordinary /\ Simple("hw_error") \in Ordinary
    BY OrdinaryRaised, Zenon
  <2>2. \A S, a, b : a \in S /\ b \in S => <<a, b>> \in Seq(S)
    OBVIOUS
  <2>3. <<Started("standby", TRUE), Simple("hw_error")>> \in Seq(Ordinary)
    BY <2>1, <2>2, Zenon
  <2>4. QED
    BY <1>7, <2>3 DEF HwFault
<1>8. QED
  BY <1>3, <1>4, <1>5, <1>6, <1>7 DEF DeviceNext, Executed

(* No step ends the operation: not a step of any application, nor a fault. *)
LEMMA OperatingStep ==
    ASSUME WellTyped, Operating, [Next]_vars
    PROVE  Operating'
<1>1. TypeOK /\ DeviceTypeOK
  BY DEF WellTyped, TypeOK
<1>2. CASE LoopBegins
  <2>1. T!hal_aci_tl_event_get /\ UNCHANGED radioVars
    BY <1>2 DEF LoopBegins, lib_aci_event_get
  <2>2. /\ aci_rx_q' = <<>> /\ pending' \in Seq(Ordinary)
        /\ ok' => out' \in Ordinary /\ Len(aci_tx_q') < T!Cap
    BY <1>1, <2>1, GetMakesRoom DEF Operating
  <2>3. QED
    BY <1>2, <2>1, <2>2 DEF LoopBegins, Operating, Settled, Finish, radioVars, setupVars, T!Cap
<1>3. CASE (aci_loop \/ AppTx \/ nRF8001BleUartNameSet) /\ ~LoopBegins
  <2>1. QuietStep
    BY <1>3, HandlersAreQuiet DEF Operating
  <2>2. QED
    BY <2>1 DEF QuietStep, Operating, Settled
<1>4. ~do_aci_setup
  BY DEF Operating, Settled, do_aci_setup, SetupBegins, Fills, FillEnds, Waits, TimesOut, Removes
<1>5. CASE RdynLow
  BY <1>5 DEF RdynLow, T!RdynLow, T!hostVars, Operating, Settled, radioVars, setupVars, T!Cap
<1>6. CASE Device
  <2>1. mode' # "setup" /\ loaded' = NUM_SETUP /\ pending' \in Seq(Ordinary)
    BY <1>1, <1>6, DeviceStaysSetUp DEF Device, Operating
  <2>2. QED
    BY <1>6, <2>1 DEF Device, Operating, Settled, lineVars, setupVars, T!Cap
<1>7. CASE UNCHANGED vars
  BY <1>7 DEF vars, lineVars, deviceVars, setupVars, Operating, Settled, T!Cap
<1>8. QED
  BY <1>2, <1>3, <1>4, <1>5, <1>6, <1>7 DEF Next, Host

(* In operation a handler finds room for its lib_aci_connect. *)
LEMMA OperatingFits == Operating => ConnectFits
  BY DEF Operating, Settled, ConnectFits, MustConnect, T!Cap

-----------------------------------------------------------------------------
(* Events are taken only by a get, and the setup routine removes only what it
   has looked at. *)

(* A step of the host that neither gets nor peeks at an event leaves the events
   and the device alone. *)
LEMMA NoEventTaken ==
    ASSUME TypeOK, aci_loop \/ AppTx \/ nRF8001BleUartNameSet \/ Fills \/ FillEnds \/ TimesOut,
           ~LoopBegins
    PROVE  /\ Events' = Events /\ UNCHANGED <<aci_rx_q, out, mode, loaded>>
           /\ pc' # "handle"
<1>1. \A op : Send(op) /\ op \in Plain => Events' = Events /\ UNCHANGED <<aci_rx_q, out, mode, loaded>>
  BY CommandsSent, SendStream DEF Send, radioVars
<1>2. UNCHANGED <<lineVars, deviceVars>> =>
         Events' = Events /\ UNCHANGED <<aci_rx_q, out, mode, loaded>>
  BY DEF lineVars, deviceVars, Events
<1>3. \A length : nRF8001BleUartTx(length) =>
         Events' = Events /\ UNCHANGED <<aci_rx_q, out, mode, loaded>>
  BY <1>1, <1>2 DEF nRF8001BleUartTx, lib_aci_send_data, Plain, lineVars, deviceVars
<1> USE DEF Plain, Finish
<1>4. CASE HandleStarted \/ HandleCmdRsp \/ HandleConnected \/ HandlePipeStatus
  BY <1>1, <1>2, <1>4
  DEF HandleStarted, HandleCmdRsp, HandleConnected, HandlePipeStatus, lib_aci_connect,
      lib_aci_set_local_data, lib_aci_device_version, lib_aci_change_timing_GAP_PPCP
<1>5. CASE HandleTiming \/ HandleDisconnected \/ HandleHwError \/ HandleControlPoint
  BY <1>1, <1>2, <1>5
  DEF HandleTiming, HandleDisconnected, HandleHwError, HandleControlPoint, Only,
      lib_aci_connect, lib_aci_set_local_data, lib_aci_disconnect, lib_aci_change_timing
<1>6. CASE HandleData \/ CallbackReturns \/ HandleCredit \/ HandlePipeError
  BY <1>2, <1>6 DEF HandleData, CallbackReturns, HandleCredit, HandlePipeError
<1>7. CASE SayHello \/ AppTx \/ nRF8001BleUartNameSet
  BY <1>1, <1>3, <1>7
  DEF SayHello, AppTx, nRF8001BleUartNameSet, AppRuns, lib_aci_set_local_data
<1>8. CASE Fills
  <2>1. SetupMessage(setup_offset) \in Cmd
    <3>1. setup_offset \in 0 .. NUM_SETUP - 1
      BY <1>8, DeviceAssumption DEF Fills, TypeOK
    <3>2. QED
      BY <3>1, CommandsSent
  <2>2. QED
    BY <1>8, <2>1, SendStream DEF Fills, radioVars
<1>9. CASE FillEnds \/ TimesOut
  BY <1>2, <1>9 DEF FillEnds, TimesOut
<1>10. QED
  BY <1>4, <1>5, <1>6, <1>7, <1>8, <1>9 DEF aci_loop

\* When the setup routine removes an event, it is the response it looked at.
Fetching ==
    pc = "remove" \/ (pc = "fill" /\ cmd_status = "continue") =>
        /\ aci_rx_q # <<>>
        /\ Head(aci_rx_q).op = "cmd_rsp" /\ Head(aci_rx_q).status = cmd_status

(* The setup routine removes only the response it has looked at. *)
LEMMA FetchingStep ==
    ASSUME WellTyped, Fetching, [Next]_vars
    PROVE  Fetching'
<1>1. TypeOK
  BY DEF WellTyped
<1>2. CASE Fills \/ FillEnds
  <2>1. /\ UNCHANGED aci_rx_q /\ pc = "fill" /\ UNCHANGED cmd_status
        /\ pc' \in {"fill", "wait"} \/ cmd_status = "continue"
    BY <1>2 DEF Fills, FillEnds, T!hal_aci_tl_send, lineVars, setupVars
  <2>2. pc' \in {"fill", "remove", "wait"}
    BY <1>2 DEF Fills, FillEnds
  <2>3. QED
    BY <2>1, <2>2 DEF Fetching
<1>3. CASE SetupBegins \/ Removes
  BY <1>3 DEF SetupBegins, Removes, Fetching
<1>4. CASE Waits
  <2>1. ok' => aci_rx_q' # <<>> /\ out' = Head(aci_rx_q')
    BY <1>1, <1>4, PeekStream DEF Waits, lib_aci_event_peek
  <2>2. QED
    BY <1>4, <2>1 DEF Waits, Fetching
<1>5. CASE aci_loop \/ AppTx \/ nRF8001BleUartNameSet \/ TimesOut
  <2>1. pc' \notin {"remove", "fill"}
    BY <1>5
    DEF aci_loop, LoopBegins, HandleStarted, HandleCmdRsp, HandleConnected, HandlePipeStatus,
        SayHello, HandleTiming, HandleDisconnected, HandleHwError, HandleData, CallbackReturns,
        HandleControlPoint, HandleCredit, HandlePipeError, Only, Finish, AppTx,
        nRF8001BleUartNameSet, AppRuns, TimesOut
  <2>2. QED
    BY <2>1 DEF Fetching
<1>6. CASE RdynLow \/ Device \/ UNCHANGED vars
  BY <1>6 DEF RdynLow, T!RdynLow, T!hostVars, Device, lineVars, setupVars, vars, Fetching
<1>7. QED
  BY <1>2, <1>3, <1>4, <1>5, <1>6 DEF Next, Host, do_aci_setup

(* The response stays in front of the event queue until it is removed. *)
LEMMA FetchingAlways == Spec => []Fetching
<1>1. Init => Fetching
  BY DEF Init, Fetching
<1>2. WellTyped /\ Fetching /\ [Next]_vars => Fetching'
  BY FetchingStep
<1>3. QED
  BY <1>1, <1>2, WellTypedAlways, PTL DEF Spec

(* Faults are counted and never forgotten. *)
LEMMA FaultsOnlyGrow ==
    ASSUME WellTyped, [Next]_vars, faults' = 0
    PROVE  faults = 0
<1>1. faults \in Nat
  BY DeviceAssumption DEF WellTyped, TypeOK, DeviceTypeOK
<1>2. CASE Device
  <2>1. faults' = faults \/ faults' = faults + 1
    BY <1>2
    DEF Device, DeviceNext, HwFault, Boots, Executed, ExecSetup, ExecConnect, ExecDisconnect,
        ExecQuery, ExecSendData, Executes, PeerNext, PeerConnects, PeerSubscribes, PeerWrites,
        PeerAcks, PeerReports, LinkDrops
  <2>2. QED
    BY <1>1, <2>1
<1>3. CASE ~Device /\ Next
  <2>1. UNCHANGED radioVars
    BY <1>3, AciLoopStep, SetupStep DEF WellTyped, Next, Host, HostStep, RdynLow
  <2>2. QED
    BY <2>1 DEF radioVars
<1>4. QED
  BY <1>2, <1>3 DEF vars, deviceVars
-----------------------------------------------------------------------------
(***************************************************************************)
(* The setup of the device from RAM (do_aci_setup), for every queue size   *)
(* and number of setup messages.                                           *)
(***************************************************************************)

(* The setup is never taken for done too early.                              *)

\* An event that says that the setup is complete.
Claims(e) ==
    \/ e.op = "device_started" /\ e.mode = "standby"
    \/ e.op = "cmd_rsp" /\ e.status = "complete"

Modest == {e \in Evt : ~Claims(e)}

\* Until the last setup message is accepted nothing says that it was: no event
\* on its way, in the hands of the host or remembered by the setup routine.
Honest ==
    loaded # NUM_SETUP =>
        /\ mode \in {"reset", "setup"}
        /\ Events \in Seq(Modest)
        /\ pc = "handle" => out \in Modest
        /\ cmd_status # "complete"
        /\ data_credit_total > 0 => setup_required

(* The events the device may raise before the setup is complete. *)
LEMMA ModestRaised ==
    /\ Started("setup", FALSE) \in Modest
    /\ \A c \in Plain \cup {"setup"}, s \in Status \ {"complete"} : CmdRsp(c, s) \in Modest
    /\ PipeError(FALSE) \in Modest
<1>1. Started("setup", FALSE) \in Evt /\ PipeError(FALSE) \in Evt
  BY EventsRaised, Zenon
<1>2. QED
  BY <1>1, EventsRaised DEF Modest, Claims, Started, CmdRsp, PipeError, Status

(* A step of the device says so only when it is true. *)
LEMMA DeviceIsHonest ==
    ASSUME TypeOK, Honest, DeviceNext \/ HwFault, UNCHANGED <<aci_rx_q, aci_tx_q>>,
           loaded' # NUM_SETUP
    PROVE  /\ loaded # NUM_SETUP
           /\ mode' \in {"reset", "setup"}
           /\ Events' \in Seq(Modest)
<1>1. DeviceTypeOK /\ Events \in Seq(Evt)
  BY StreamTypes DEF TypeOK
<1>2. loaded # NUM_SETUP
  <2>1. CASE ExecSetup
    <3>1. Head(inbox) \in Cmd /\ Head(inbox).op = "setup"
      BY <1>1, <2>1, HeadTailProperties DEF ExecSetup, Executes, DeviceTypeOK
    <3>2. Head(inbox).n \in 0 .. NUM_SETUP - 1
      BY <3>1 DEF Cmd, Plain
    <3>3. QED
      BY <2>1, <3>2, DeviceAssumption DEF ExecSetup
  <2>2. CASE ~ExecSetup
    BY <2>2 DEF DeviceNext, Executed, PeerNext, Boots, ExecConnect, ExecDisconnect, ExecQuery,
                ExecSendData, PeerConnects, PeerSubscribes, PeerWrites, PeerAcks, PeerReports,
                LinkDrops, HwFault
  <2>3. QED
    BY <2>1, <2>2
<1>3. mode \in {"reset", "setup"} /\ Events \in Seq(Modest)
  BY <1>2 DEF Honest
<1>4. \A e \in Modest : Raise(e) => Events' \in Seq(Modest)
  BY <1>3, RaiseStream, AppendProperties DEF Modest
<1>5. CASE Boots
  BY <1>2, <1>4, <1>5, ModestRaised DEF Boots
<1>6. CASE ExecSetup \/ ExecConnect \/ ExecDisconnect \/ ExecQuery
  <2>1. PICK op : Executes(op)
    BY <1>6 DEF ExecSetup, ExecConnect, ExecDisconnect, ExecQuery
  <2>2. Head(inbox).op \in Plain \cup {"setup"}
    BY <1>1, <2>1, HeadTailProperties DEF Executes, DeviceTypeOK, Cmd
  <2>3. PICK s \in Status \ {"complete"} : Reply(s)
    BY <1>6 DEF ExecSetup, ExecConnect, ExecDisconnect, ExecQuery, Status
  <2>4. Events' \in Seq(Modest)
    BY <1>4, <2>2, <2>3, ModestRaised DEF Reply
  <2>5. mode' \in {"reset", "setup"}
    BY <1>3, <1>6 DEF ExecSetup, ExecConnect, ExecDisconnect, ExecQuery
  <2>6. QED
    BY <1>2, <2>4, <2>5
<1>7. CASE ExecSendData
  BY <1>2, <1>3, <1>4, <1>7, ModestRaised DEF ExecSendData
<1>8. ~PeerNext /\ ~HwFault
  BY <1>3 DEF PeerNext, PeerConnects, PeerSubscribes, PeerWrites, PeerAcks, PeerReports,
              LinkDrops, HwFault
<1>9. QED
  BY <1>5, <1>6, <1>7, <1>8 DEF DeviceNext, Executed

(* The invariant is inductive. *)
LEMMA HonestStep ==
    ASSUME WellTyped, Honest, [Next]_vars
    PROVE  Honest'
<1>1. TypeOK
  BY DEF WellTyped
<1>2. SUFFICES ASSUME loaded' # NUM_SETUP
               PROVE  /\ mode' \in {"reset", "setup"}
                      /\ Events' \in Seq(Modest)
                      /\ pc' = "handle" => out' \in Modest
                      /\ cmd_status' # "complete"
                      /\ data_credit_total' > 0 => setup_required'
  BY DEF Honest
<1>3. ASSUME loaded' = loaded
      PROVE  /\ mode \in {"reset", "setup"} /\ Events \in Seq(Modest)
             /\ pc = "handle" => out \in Modest
             /\ cmd_status # "complete"
             /\ data_credit_total > 0 => setup_required
  BY <1>2, <1>3 DEF Honest
<1>4. CASE LoopBegins
  <2>1. T!hal_aci_tl_event_get /\ UNCHANGED radioVars
    BY <1>4 DEF LoopBegins, lib_aci_event_get
  <2>2. Events' \in Seq(Modest) /\ (ok' => out' \in Modest)
    BY <1>1, <1>3, <2>1, GetStream, HeadTailProperties DEF radioVars
  <2>3. QED
    BY <1>3, <1>4, <2>1, <2>2 DEF LoopBegins, Finish, radioVars, setupVars
<1>5. CASE HandleStarted
  <2>1. Events' = Events /\ mode' = mode /\ loaded' = loaded /\ pc' # "handle"
    BY <1>1, <1>5, NoEventTaken DEF aci_loop, HandleStarted, Handles, LoopBegins
  <2>2. out.mode = "setup"
    <3>1. out \in Modest /\ out.op = "device_started"
      BY <1>3, <1>5, <2>1 DEF HandleStarted, Handles
    <3>2. QED
      BY <3>1 DEF Modest, Claims, Evt, Simple, Started, CmdRsp, PipeStatus, Received, Credit,
                  PipeError
  <2>3. QED
    BY <1>3, <1>5, <2>1, <2>2 DEF HandleStarted
<1>6. CASE (aci_loop \/ AppTx \/ nRF8001BleUartNameSet \/ Fills \/ FillEnds \/ TimesOut)
           /\ ~LoopBegins /\ ~HandleStarted
  <2>1. Events' = Events /\ UNCHANGED <<mode, loaded>> /\ pc' # "handle"
    BY <1>1, <1>6, NoEventTaken
  <2>2. UNCHANGED <<data_credit_total, setup_required, cmd_status>>
    BY <1>6
    DEF aci_loop, AppTx, nRF8001BleUartNameSet, Fills, FillEnds, TimesOut, HandleCmdRsp,
        HandleConnected, HandlePipeStatus, SayHello, HandleTiming, HandleDisconnected,
        HandleHwError, HandleData, CallbackReturns, HandleControlPoint, HandleCredit,
        HandlePipeError, Only, stateVars, setupVars
  <2>3. QED
    BY <1>3, <2>1, <2>2
<1>7. CASE SetupBegins
  <2>1. Events' = Events /\ UNCHANGED <<mode, loaded>>
    BY <1>1, <1>7, PeekStream DEF SetupBegins, lib_aci_event_peek, lineVars, deviceVars,
                                  radioVars, Events
  <2>2. QED
    BY <1>3, <1>7, <2>1 DEF SetupBegins, stateVars
<1>8. CASE Waits
  <2>1. /\ Events' = Events /\ UNCHANGED <<mode, loaded>>
        /\ ok' => out' \in Modest
    BY <1>1, <1>3, <1>8, PeekStream, HeadTailProperties
    DEF Waits, lib_aci_event_peek, radioVars
  <2>2. cmd_status' # "complete"
    BY <1>3, <1>8, <2>1 DEF Waits, Modest, Claims
  <2>3. QED
    BY <1>3, <1>8, <2>1, <2>2 DEF Waits, stateVars
<1>9. CASE Removes
  <2>1. T!hal_aci_tl_event_get /\ UNCHANGED radioVars
    BY <1>9 DEF Removes, lib_aci_event_get
  <2>2. Events' \in Seq(Modest)
    BY <1>1, <1>3, <2>1, GetStream, HeadTailProperties DEF radioVars
  <2>3. QED
    BY <1>3, <1>9, <2>1, <2>2 DEF Removes, still_required, radioVars
<1>10. CASE RdynLow \/ UNCHANGED vars
  <2>1. Events' = Events /\ UNCHANGED <<mode, loaded, pc, out, cmd_status, data_credit_total, setup_required>>
    BY <1>10 DEF RdynLow, T!RdynLow, T!hostVars, radioVars, stateVars, setupVars, vars,
                 lineVars, deviceVars, Events
  <2>2. QED
    BY <1>3, <2>1
<1>11. CASE Device
  <2>1. loaded # NUM_SETUP /\ mode' \in {"reset", "setup"} /\ Events' \in Seq(Modest)
    BY <1>1, <1>2, <1>11, DeviceIsHonest DEF Device, lineVars
  <2>2. UNCHANGED <<pc, out, cmd_status, data_credit_total, setup_required>>
    BY <1>11 DEF Device, lineVars, stateVars, setupVars
  <2>3. QED
    BY <2>1, <2>2 DEF Honest
<1>12. QED
  BY <1>4, <1>5, <1>6, <1>7, <1>8, <1>9, <1>10, <1>11 DEF Next, Host, do_aci_setup

(* Whatever timeouts, retries, names set in between and restarts of the device
   came before, the host considers the setup done only when the device has
   accepted the last message of it. *)
THEOREM SetupDoneIsTrue == Spec => []SetupDoneMeansLoaded
<1>1. Init => Honest
  <2>1. SUFFICES ASSUME Init PROVE Honest
    OBVIOUS
  <2>2. /\ aci_rx_q = <<>> /\ pending = <<>> /\ mode = "reset" /\ pc = "loop"
        /\ cmd_status = "error" /\ data_credit_total = 0
    BY <2>1 DEF Init, T!Init, DeviceInit
  <2>3. Events = <<>>
    BY <2>2 DEF Events
  <2>4. QED
    BY <2>2, <2>3, EmptySeq DEF Honest
<1>2. WellTyped /\ Honest /\ [Next]_vars => Honest'
  BY HonestStep
<1>3. Honest => SetupDoneMeansLoaded
  BY DEF Honest, SetupDoneMeansLoaded
<1>4. QED
  BY <1>1, <1>2, <1>3, WellTypedAlways, PTL DEF Spec

-----------------------------------------------------------------------------
(* The setup messages arrive in order. *)

SetupStarted == Started("setup", FALSE)
Accepted     == CmdRsp("setup", "continue")
Completed    == CmdRsp("setup", "complete")
Restarted    == Started("standby", FALSE)

\* The device boots in setup mode and says so; the host has not heard of it.
Waiting ==
    /\ pc = "loop" /\ ~setup_required
    /\ loaded = 0 /\ Commands = <<>> /\ pipes_open = {}
    /\ \/ mode = "reset" /\ Events = <<>>
       \/ mode = "setup" /\ Events = <<SetupStarted>>

\* The host has the event, and has not begun.
Told ==
    /\ \/ pc = "handle" /\ out = SetupStarted /\ ~setup_required
       \/ pc = "setup" /\ setup_required
    /\ mode = "setup" /\ Events = <<>>
    /\ loaded = 0 /\ Commands = <<>> /\ pipes_open = {}

\* The messages not yet executed are the next ones, up to the offset.
InOrder ==
    /\ Len(Commands) = setup_offset - loaded
    /\ \A i \in DOMAIN Commands : Commands[i] = SetupMessage(loaded + i - 1)

\* Every event on its way says that one more message was accepted, until the
\* one that says that it was the last; the device starts again, once, after
\* that.
Answers ==
    \/ /\ loaded # NUM_SETUP /\ mode = "setup"
       /\ \A i \in DOMAIN Events : Events[i] = Accepted
    \/ /\ loaded = NUM_SETUP
       /\ \E k \in DOMAIN Events :
             /\ \A i \in 1 .. k - 1 : Events[i] = Accepted
             /\ Events[k] = Completed
             /\ \/ mode = "reset" /\ k = Len(Events)
                \/ mode = "standby" /\ k + 1 = Len(Events) /\ Events[k + 1] = Restarted

\* The setup routine runs.
Running ==
    /\ pc \in {"fill", "wait", "remove"} /\ setup_required
    /\ pipes_open = {}
    /\ InOrder /\ Answers

\* The host has removed the last answer and waits for the device to start; no
\* command is on its way.
Restarting ==
    /\ pc = "loop" /\ ~setup_required
    /\ loaded = NUM_SETUP /\ Commands = <<>> /\ pipes_open = {}
    /\ \/ mode = "reset" /\ Events = <<>>
       \/ mode = "standby" /\ Events = <<Restarted>>

\* From its handler of that start on the host is in operation.
Phases == faults = 0 => Waiting \/ Told \/ Running \/ Restarting \/ Operating

\* What the phases speak of, beside the two streams.
phaseVars == <<mode, loaded, pc, out, pipes_open, setup_required, setup_offset>>

(* A step that changes none of it stays in its phase. *)
LEMMA SamePhase ==
    UNCHANGED <<Commands, Events, phaseVars>> =>
        /\ Waiting => Waiting'
        /\ Told => Told'
        /\ Running => Running'
        /\ Restarting => Restarting'
<1>1. SUFFICES ASSUME UNCHANGED <<Commands, Events, phaseVars>>
               PROVE  /\ Waiting => Waiting'
                      /\ Told => Told'
                      /\ Running => Running'
                      /\ Restarting => Restarting'
  OBVIOUS
<1>2. Waiting => Waiting'
  BY <1>1 DEF phaseVars, Waiting
<1>3. Told => Told'
  BY <1>1 DEF phaseVars, Told
<1>4. Running => Running'
  BY <1>1 DEF phaseVars, Running, InOrder, Answers
<1>5. Restarting => Restarting'
  BY <1>1 DEF phaseVars, Restarting
<1>6. QED
  BY <1>2, <1>3, <1>4, <1>5

(* The device lowering RDYN is such a step. *)
LEMMA IdlePhase ==
    ASSUME RdynLow \/ UNCHANGED vars
    PROVE  UNCHANGED <<Commands, Events, phaseVars>>
  BY DEF RdynLow, T!RdynLow, T!hostVars, radioVars, stateVars, setupVars, vars, lineVars,
         deviceVars, phaseVars, Commands, Events

(* With its pipe closed the application sends nothing. *)
LEMMA TxIsIdle ==
    ASSUME AppTx, pipes_open = {}
    PROVE  UNCHANGED <<Commands, Events, phaseVars>>
  BY DEF AppTx, nRF8001BleUartTx, may_tx, lib_aci_is_pipe_available, lineVars, deviceVars,
         setupVars, phaseVars, Commands, Events

\* The hypotheses of the steps: nothing sends while the setup runs, the guard
\* counter does not run out, and the device does not fail.
Undisturbed ==
    /\ "name" \notin AppCalls /\ SetupTimeout = FALSE
    /\ WellTyped /\ Fetching
    /\ [Next]_vars /\ faults = 0 /\ faults' = 0

(* Before the setup nothing but the device moves. *)
LEMMA WaitingStep ==
    ASSUME Undisturbed, Waiting
    PROVE  Waiting' \/ Told'
<1>1. TypeOK
  BY DEF Undisturbed, WellTyped
<1>2. CASE LoopBegins
  <2>1. T!hal_aci_tl_event_get /\ UNCHANGED radioVars
    BY <1>2 DEF LoopBegins, lib_aci_event_get
  <2>2. /\ Commands' = <<>>
        /\ ok' => out' = SetupStarted /\ Events' = <<>> /\ mode = "setup"
        /\ ~ok' => Events' = Events
    BY <1>1, <2>1, GetStream DEF Waiting
  <2>3. pipes_open' = {}
    BY <1>2, <2>2 DEF LoopBegins, lib_aci_event_get, Waiting, SetupStarted, Started
  <2>4. CASE ok'
    BY <1>2, <2>1, <2>2, <2>3, <2>4 DEF LoopBegins, Waiting, Told, radioVars, setupVars
  <2>5. CASE ~ok'
    BY <1>2, <2>1, <2>2, <2>3, <2>5 DEF LoopBegins, Finish, Waiting, radioVars, setupVars
  <2>6. QED
    BY <2>4, <2>5
<1>3. CASE AppTx
  BY <1>3, TxIsIdle, SamePhase DEF Waiting
<1>4. CASE RdynLow \/ UNCHANGED vars
  BY <1>4, IdlePhase, SamePhase
<1>5. CASE Device
  <2>1. \A op : ~Executes(op)
    BY <1>1, <1>5, ExecuteStream DEF Waiting, Device, lineVars
  <2>2. Boots
    BY <1>5, <2>1
    DEF Device, Undisturbed, Waiting, DeviceNext, Executed, ExecSetup, ExecConnect,
        ExecDisconnect, ExecQuery, ExecSendData, PeerNext, PeerConnects, PeerSubscribes,
        PeerWrites, PeerAcks, PeerReports, LinkDrops, HwFault
  <2>3. mode' = "setup" /\ Raise(SetupStarted) /\ UNCHANGED <<inbox, loaded>> /\ Events = <<>>
    <3>1. mode' = "setup"
      BY <2>2, DeviceAssumption DEF Boots, Waiting
    <3>2. QED
      BY <2>2, <3>1 DEF Boots, Waiting, SetupStarted
  <2>4. Events' = <<SetupStarted>>
    <3>1. SetupStarted \in Evt
      BY EventsRaised, Zenon DEF SetupStarted
    <3>2. Events' = Append(Events, SetupStarted)
      BY <1>1, <1>5, <2>3, <3>1, RaiseStream DEF Device, lineVars
    <3>3. QED
      BY <2>3, <3>2
  <2>5. QED
    BY <1>5, <2>3, <2>4 DEF Waiting, Device, lineVars, stateVars, setupVars, Commands
<1>6. QED
  BY <1>2, <1>3, <1>4, <1>5
  DEF Undisturbed, Waiting, Next, Host, aci_loop, HandleStarted, HandleCmdRsp, HandleConnected,
      HandlePipeStatus, SayHello, HandleTiming, HandleDisconnected, HandleHwError, HandleData,
      CallbackReturns, HandleControlPoint, HandleCredit, HandlePipeError, Handles,
      do_aci_setup, SetupBegins, Fills, FillEnds, Waits, TimesOut, Removes,
      nRF8001BleUartNameSet

(* Then the host begins, and finds both streams empty. *)
LEMMA ToldStep ==
    ASSUME Undisturbed, Told
    PROVE  Told' \/ Running'
<1>1. TypeOK
  BY DEF Undisturbed, WellTyped
<1>2. CASE pc = "handle" /\ aci_loop
  <2>1. out.op = "device_started" /\ out.mode = "setup"
    BY <1>2 DEF Told, SetupStarted, Started
  <2>2. HandleStarted
    BY <1>2, <2>1
    DEF aci_loop, LoopBegins, HandleCmdRsp, HandleConnected, HandlePipeStatus, SayHello,
        HandleTiming, HandleDisconnected, HandleHwError, HandleData, CallbackReturns,
        HandleControlPoint, HandleCredit, HandlePipeError, Handles
  <2>3. QED
    BY <2>1, <2>2 DEF HandleStarted, Finish, Told, lineVars, deviceVars, Commands, Events
<1>3. CASE SetupBegins
  <2>1. aci_tx_q = <<>>
    <3>1. aci_tx_q \in Seq(Cmd) /\ inbox \in Seq(Cmd) /\ inbox \o aci_tx_q = <<>>
      BY <1>1 DEF TypeOK, T!TypeOK, Told, Commands
    <3>2. QED
      BY <3>1
  <2>2. T!hal_aci_tl_event_peek /\ UNCHANGED radioVars
    BY <1>3, <2>1 DEF SetupBegins, lib_aci_event_peek
  <2>3. ~ok' /\ Commands' = <<>> /\ Events' = <<>>
    BY <1>1, <2>2, PeekStream DEF Told
  <2>4. pc' = "fill" /\ setup_offset' = 0 /\ setup_required' /\ pipes_open' = {}
    BY <1>3, <2>1, <2>3 DEF SetupBegins, Told, stateVars
  <2>5. loaded' = 0 /\ mode' = "setup" /\ NUM_SETUP # 0
    BY <2>2, DeviceAssumption DEF Told, radioVars
  <2>6. QED
    BY <2>3, <2>4, <2>5 DEF Running, InOrder, Answers
<1>4. CASE RdynLow \/ UNCHANGED vars
  BY <1>4, IdlePhase, SamePhase
<1>5. ~Device
  <2>1. ASSUME Device PROVE \A op : ~Executes(op)
    BY <1>1, <2>1, ExecuteStream DEF Told, Device, lineVars
  <2>2. QED
    BY <2>1
    DEF Device, Undisturbed, Told, DeviceNext, Executed, ExecSetup, ExecConnect,
        ExecDisconnect, ExecQuery, ExecSendData, Boots, PeerNext, PeerConnects,
        PeerSubscribes, PeerWrites, PeerAcks, PeerReports, LinkDrops, HwFault
<1>6. QED
  BY <1>2, <1>3, <1>4, <1>5
  DEF Undisturbed, Told, Next, Host, aci_loop, LoopBegins, HandleStarted, HandleCmdRsp,
      HandleConnected, HandlePipeStatus, SayHello, HandleTiming, HandleDisconnected,
      HandleHwError, HandleData, CallbackReturns, HandleControlPoint, HandleCredit,
      HandlePipeError, Handles, do_aci_setup, Fills, FillEnds, Waits, TimesOut, Removes,
      AppTx, nRF8001BleUartNameSet, AppRuns

(* The device answers a setup message with the next one's turn. *)
LEMMA RunningDevice ==
    ASSUME Undisturbed, Running, Device
    PROVE  Running'
<1>1. TypeOK
  BY DEF Undisturbed, WellTyped
<1>2. /\ loaded \in 0 .. NUM_SETUP /\ setup_offset \in 0 .. NUM_SETUP /\ NUM_SETUP \in Nat
      /\ Commands \in Seq(Cmd) /\ Events \in Seq(Evt)
  BY <1>1, StreamTypes, DeviceAssumption DEF TypeOK, DeviceTypeOK
<1>3. UNCHANGED <<aci_tx_q, aci_rx_q, pc, out, pipes_open, setup_required, setup_offset>>
  BY DEF Device, lineVars, stateVars, setupVars
<1>4. CASE Boots
  <2>1. mode = "reset" /\ UNCHANGED <<inbox, loaded>>
    BY <1>4 DEF Boots
  <2>2. loaded = NUM_SETUP
    BY <2>1 DEF Running, Answers
  <2>3. mode' = "standby" /\ Raise(Restarted)
    <3>1. mode' = "standby"
      BY <1>4, <2>2 DEF Boots
    <3>2. QED
      BY <1>4, <3>1 DEF Boots, Restarted
  <2>4. Restarted \in Evt
    BY EventsRaised, Zenon DEF Restarted
  <2>5. Events' = Append(Events, Restarted)
    BY <1>1, <1>3, <2>3, <2>4, RaiseStream
  <2>6. Answers'
    <3>1. PICK k \in DOMAIN Events :
             /\ \A i \in 1 .. k - 1 : Events[i] = Accepted
             /\ Events[k] = Completed
             /\ k = Len(Events)
      BY <2>1, <2>2 DEF Running, Answers
    <3>2. k \in 1 .. Len(Events) /\ Len(Events) \in Nat
      BY <1>2
    <3>3. /\ Len(Events') = k + 1 /\ k \in DOMAIN Events'
          /\ \A i \in 1 .. Len(Events) : Events'[i] = Events[i]
          /\ Events'[k + 1] = Restarted
      BY <1>2, <2>4, <2>5, <3>1, <3>2, AppendProperties
    <3>4. \A i \in 1 .. k - 1 : Events'[i] = Accepted
      BY <3>1, <3>2, <3>3
    <3>5. Events'[k] = Completed
      BY <3>1, <3>2, <3>3
    <3>6. QED
      BY <2>1, <2>2, <2>3, <3>3, <3>4, <3>5 DEF Answers
  <2>7. QED
    BY <1>3, <2>1, <2>6 DEF Running, InOrder, Commands
<1>5. CASE \E op : Executes(op)
  <2>1. PICK op : Executes(op)
    BY <1>5
  <2>2. /\ Commands # <<>> /\ Head(Commands) = Head(inbox) /\ Head(inbox).op = op
        /\ Commands' = Tail(Commands)
    BY <1>1, <1>3, <2>1, ExecuteStream
  <2>3. Len(Commands) \in Nat \ {0} /\ Head(Commands) = Commands[1] /\ 1 \in DOMAIN Commands
    BY <1>2, <2>2
  <2>4. Head(Commands) = SetupMessage(loaded) /\ loaded < setup_offset
    BY <1>2, <2>3 DEF Running, InOrder
  <2>5. Head(inbox).op = "setup" /\ Head(inbox).n = loaded
    BY <2>2, <2>4 DEF SetupMessage
  <2>6. mode = "setup" /\ loaded # NUM_SETUP /\ \A i \in DOMAIN Events : Events[i] = Accepted
    <3>1. loaded # NUM_SETUP
      BY <1>2, <2>4
    <3>2. QED
      BY <3>1 DEF Running, Answers
  <2>7. ExecSetup
    BY <2>2, <2>5, <2>6
    DEF Device, Undisturbed, DeviceNext, Executed, ExecConnect, ExecDisconnect, ExecQuery,
        ExecSendData, Boots, PeerNext, PeerConnects, PeerSubscribes, PeerWrites, PeerAcks,
        PeerReports, LinkDrops, HwFault, Executes
  <2>8. /\ loaded' = loaded + 1
        /\ mode' = IF loaded' = NUM_SETUP THEN "reset" ELSE "setup"
        /\ Reply(IF loaded' = NUM_SETUP THEN "complete" ELSE "continue")
    BY <2>5, <2>6, <2>7 DEF ExecSetup
  <2>9. InOrder'
    <3>1. /\ Len(Tail(Commands)) = Len(Commands) - 1
          /\ \A i \in 1 .. Len(Commands) - 1 : Tail(Commands)[i] = Commands[i + 1]
          /\ DOMAIN Tail(Commands) = 1 .. Len(Commands) - 1
          /\ DOMAIN Commands = 1 .. Len(Commands)
      BY <1>2, <2>2
    <3>2. Len(Commands') = setup_offset' - loaded'
      BY <1>2, <1>3, <2>2, <2>8, <3>1 DEF Running, InOrder
    <3>3. ASSUME NEW i \in DOMAIN Commands'
          PROVE  Commands'[i] = SetupMessage(loaded' + i - 1)
      <4>1. i + 1 \in DOMAIN Commands /\ Commands'[i] = Commands[i + 1] /\ i \in Int
        BY <2>2, <2>3, <3>1, <3>3
      <4>2. Commands[i + 1] = SetupMessage(loaded + (i + 1) - 1)
        BY <4>1 DEF Running, InOrder
      <4>3. loaded + (i + 1) - 1 = loaded' + i - 1
        BY <1>2, <2>8, <4>1
      <4>4. QED
        BY <4>1, <4>2, <4>3
    <3>4. QED
      BY <3>2, <3>3 DEF InOrder
  <2>10. Answers'
    <3>1. /\ Accepted \in Evt /\ Completed \in Evt
      <4>1. "continue" \in Status /\ "complete" \in Status /\ "setup" \in Plain \cup {"setup"}
        BY DEF Status
      <4>2. QED
        BY <4>1, EventsRaised DEF Accepted, Completed
    <3>2. CASE loaded' = NUM_SETUP
      <4>1. mode' = "reset" /\ Raise(Completed)
        BY <2>5, <2>8, <3>2 DEF Reply, Completed
      <4>2. Events' = Append(Events, Completed)
        BY <1>1, <1>3, <3>1, <4>1, RaiseStream
      <4>3. /\ Len(Events') = Len(Events) + 1 /\ Len(Events) \in Nat
            /\ Len(Events) + 1 \in DOMAIN Events'
            /\ \A i \in 1 .. Len(Events) : Events'[i] = Events[i]
            /\ Events'[Len(Events) + 1] = Completed
        BY <1>2, <4>2
      <4>4. \A i \in 1 .. (Len(Events) + 1) - 1 : Events'[i] = Accepted
        BY <1>2, <2>6, <4>3
      <4>5. QED
        BY <3>2, <4>1, <4>3, <4>4 DEF Answers
    <3>3. CASE loaded' # NUM_SETUP
      <4>1. mode' = "setup" /\ Raise(Accepted)
        BY <2>5, <2>8, <3>3 DEF Reply, Accepted
      <4>2. Events' = Append(Events, Accepted)
        BY <1>1, <1>3, <3>1, <4>1, RaiseStream
      <4>3. \A i \in DOMAIN Events' : Events'[i] = Accepted
        BY <1>2, <2>6, <4>2
      <4>4. QED
        BY <3>3, <4>1, <4>3 DEF Answers
    <3>4. QED
      BY <3>2, <3>3
  <2>11. QED
    BY <1>3, <2>9, <2>10 DEF Running
<1>6. ~PeerNext
  <2>1. mode \in {"setup", "reset", "standby"}
    BY DEF Running, Answers
  <2>2. QED
    BY <2>1 DEF PeerNext, PeerConnects, PeerSubscribes, PeerWrites, PeerAcks, PeerReports,
                LinkDrops
<1>7. ~HwFault
  BY DEF Undisturbed, HwFault
<1>8. QED
  BY <1>4, <1>5, <1>6, <1>7
  DEF Device, DeviceNext, Executed, ExecSetup, ExecConnect, ExecDisconnect, ExecQuery,
      ExecSendData

(* Taking an accepted event away leaves the shape of the answers. *)
LEMMA AnswersShift ==
    ASSUME Events \in Seq(Evt), Answers, UNCHANGED <<mode, loaded>>,
           Events # <<>>, Events' = Tail(Events), Head(Events) # Completed
    PROVE  Answers'
<1>1. /\ Len(Events) \in Nat /\ Len(Events') = Len(Events) - 1
      /\ DOMAIN Events = 1 .. Len(Events) /\ DOMAIN Events' = 1 .. Len(Events) - 1
      /\ \A i \in 1 .. Len(Events) - 1 : Events'[i] = Events[i + 1]
      /\ Head(Events) = Events[1]
  OBVIOUS
<1>2. CASE loaded # NUM_SETUP
  <2>1. mode = "setup" /\ \A i \in DOMAIN Events : Events[i] = Accepted
    BY <1>2 DEF Answers
  <2>2. \A i \in DOMAIN Events' : Events'[i] = Accepted
    BY <1>1, <2>1
  <2>3. QED
    BY <1>2, <2>1, <2>2 DEF Answers
<1>3. CASE loaded = NUM_SETUP
  <2>1. PICK k \in DOMAIN Events :
           /\ \A i \in 1 .. k - 1 : Events[i] = Accepted
           /\ Events[k] = Completed
           /\ \/ mode = "reset" /\ k = Len(Events)
              \/ mode = "standby" /\ k + 1 = Len(Events) /\ Events[k + 1] = Restarted
    BY <1>3 DEF Answers
  <2>2. k # 1
    BY <1>1, <2>1
  <2>3. k - 1 \in DOMAIN Events' /\ k \in Int /\ k <= Len(Events) /\ 2 <= k
    BY <1>1, <2>2
  <2>4. Events'[k - 1] = Completed
    BY <1>1, <2>1, <2>3
  <2>5. \A i \in 1 .. (k - 1) - 1 : Events'[i] = Accepted
    <3>1. TAKE i \in 1 .. (k - 1) - 1
    <3>2. i + 1 \in 1 .. k - 1 /\ i \in 1 .. Len(Events) - 1
      BY <1>1, <2>3
    <3>3. QED
      BY <1>1, <2>1, <3>2
  <2>6. \/ mode' = "reset" /\ k - 1 = Len(Events')
        \/ mode' = "standby" /\ (k - 1) + 1 = Len(Events') /\ Events'[(k - 1) + 1] = Restarted
    BY <1>1, <2>1, <2>3
  <2>7. QED
    BY <1>3, <2>3, <2>4, <2>5, <2>6 DEF Answers
<1>4. QED
  BY <1>2, <1>3

(* The setup routine queues what comes next and removes what it has seen. *)
LEMMA RunningStep ==
    ASSUME Undisturbed, Running
    PROVE  Running' \/ Restarting'
<1>1. TypeOK
  BY DEF Undisturbed, WellTyped
<1>2. Commands \in Seq(Cmd) /\ Events \in Seq(Evt)
  BY <1>1, StreamTypes
<1>3. CASE Fills
  <2>1. /\ setup_offset \in 0 .. NUM_SETUP - 1 /\ loaded \in 0 .. NUM_SETUP
        /\ NUM_SETUP \in Nat
    BY <1>1, <1>3, DeviceAssumption DEF Fills, TypeOK, DeviceTypeOK
  <2>2. SetupMessage(setup_offset) \in Cmd
    BY <2>1, CommandsSent
  <2>3. /\ Events' = Events
        /\ \/ ok' = TRUE /\ Commands' = Append(Commands, SetupMessage(setup_offset))
           \/ ok' = FALSE /\ Commands' = Commands
    BY <1>1, <1>3, <2>2, SendStream DEF Fills
  <2>4. UNCHANGED <<mode, loaded, pipes_open, setup_required>> /\ pc' \in {"fill", "wait", "remove"}
    BY <1>3 DEF Fills, radioVars, stateVars
  <2>5. setup_offset' = IF ok' THEN setup_offset + 1 ELSE setup_offset
    BY <1>3 DEF Fills, fill_stops_at
  <2>6. InOrder'
    <3>1. CASE ok'
      <4>1. Commands' = Append(Commands, SetupMessage(setup_offset)) /\ setup_offset' = setup_offset + 1
        BY <2>3, <2>5, <3>1
      <4>2. /\ Len(Commands') = Len(Commands) + 1 /\ Len(Commands) \in Nat
            /\ DOMAIN Commands' = 1 .. Len(Commands) + 1 /\ DOMAIN Commands = 1 .. Len(Commands)
            /\ \A i \in 1 .. Len(Commands) : Commands'[i] = Commands[i]
            /\ Commands'[Len(Commands) + 1] = SetupMessage(setup_offset)
        BY <1>2, <2>2, <4>1, AppendProperties
      <4>3. Len(Commands) = setup_offset - loaded
        BY DEF Running, InOrder
      <4>4. loaded + (Len(Commands) + 1) - 1 = setup_offset
        BY <2>1, <4>3
      <4>5. ASSUME NEW i \in DOMAIN Commands'
            PROVE  Commands'[i] = SetupMessage(loaded' + i - 1)
        <5>1. i \in 1 .. Len(Commands) \/ i = Len(Commands) + 1
          BY <4>2
        <5>2. CASE i \in 1 .. Len(Commands)
          BY <2>4, <4>2, <5>2 DEF Running, InOrder
        <5>3. CASE i = Len(Commands) + 1
          BY <2>4, <4>2, <4>4, <5>3
        <5>4. QED
          BY <5>1, <5>2, <5>3
      <4>6. Len(Commands') = setup_offset' - loaded'
        BY <2>1, <2>4, <4>1, <4>2, <4>3
      <4>7. QED
        BY <4>5, <4>6 DEF InOrder
    <3>2. CASE ~ok'
      BY <2>3, <2>4, <2>5, <3>2 DEF Running, InOrder
    <3>3. QED
      BY <3>1, <3>2
  <2>7. Answers'
    BY <2>3, <2>4 DEF Running, Answers
  <2>8. QED
    BY <2>4, <2>6, <2>7 DEF Running
<1>4. CASE FillEnds
  BY <1>4 DEF FillEnds, Running, InOrder, Answers, lineVars, deviceVars, stateVars, setupVars,
              Commands, Events
<1>5. CASE Waits
  <2>1. T!hal_aci_tl_event_peek /\ UNCHANGED radioVars
    BY <1>5 DEF Waits, lib_aci_event_peek
  <2>2. /\ Commands' = Commands /\ Events' = Events
        /\ ok' => Events # <<>> /\ out' = Head(Events)
    BY <1>1, <2>1, PeekStream
  <2>3. ok' => out' \in {Accepted, Completed}
    <3>1. SUFFICES ASSUME ok' PROVE Events[1] \in {Accepted, Completed}
      BY <1>2, <2>2
    <3>2. 1 \in DOMAIN Events /\ DOMAIN Events = 1 .. Len(Events) /\ Len(Events) \in Nat
      BY <1>2, <2>2, <3>1
    <3>3. CASE loaded # NUM_SETUP
      BY <3>2, <3>3 DEF Running, Answers
    <3>4. CASE loaded = NUM_SETUP
      <4>1. PICK k \in DOMAIN Events :
               /\ \A i \in 1 .. k - 1 : Events[i] = Accepted
               /\ Events[k] = Completed
        BY <3>4 DEF Running, Answers
      <4>2. k = 1 \/ 1 \in 1 .. k - 1
        BY <3>2
      <4>3. QED
        BY <4>1, <4>2
    <3>5. QED
      BY <3>3, <3>4
  <2>4. ok' => out'.op = "cmd_rsp" /\ out'.status \in {"continue", "complete"}
    BY <2>3 DEF Accepted, Completed, CmdRsp
  <2>5. pc' \in {"fill", "wait", "remove"}
    BY <1>5, <2>4 DEF Waits
  <2>6. UNCHANGED <<mode, loaded, pipes_open, setup_required, setup_offset>>
    BY <1>5, <2>1 DEF Waits, radioVars, stateVars
  <2>7. QED
    BY <2>2, <2>5, <2>6 DEF Running, InOrder, Answers
<1>6. CASE Removes
  <2>1. T!hal_aci_tl_event_get /\ UNCHANGED radioVars
    BY <1>6 DEF Removes, lib_aci_event_get
  <2>2. aci_rx_q # <<>> /\ Head(aci_rx_q).op = "cmd_rsp" /\ Head(aci_rx_q).status = cmd_status
    BY <1>6 DEF Undisturbed, Fetching, Removes
  <2>3. /\ Commands' = Commands /\ Events # <<>> /\ Events' = Tail(Events)
        /\ out' = Head(Events) /\ out'.op = "cmd_rsp" /\ out'.status = cmd_status
    BY <1>1, <2>1, <2>2, GetStream
  <2>4. pipes_open' = {} /\ UNCHANGED <<mode, loaded, setup_offset>>
    BY <1>6, <2>1, <2>3 DEF Removes, lib_aci_event_get, Running, radioVars
  <2>5. CASE cmd_status = "complete"
    <3>1. Head(Events) = Events[1] /\ 1 \in DOMAIN Events /\ Len(Events) \in Nat
      BY <1>2, <2>3
    <3>2. Head(Events) # Accepted
      BY <2>3, <2>5 DEF Accepted, CmdRsp
    <3>3. loaded = NUM_SETUP
      BY <3>1, <3>2 DEF Running, Answers
    <3>4. \/ mode = "reset" /\ Len(Events) = 1
          \/ mode = "standby" /\ Len(Events) = 2 /\ Events[2] = Restarted
      <4>1. PICK k \in DOMAIN Events :
               /\ \A i \in 1 .. k - 1 : Events[i] = Accepted
               /\ \/ mode = "reset" /\ k = Len(Events)
                  \/ mode = "standby" /\ k + 1 = Len(Events) /\ Events[k + 1] = Restarted
        BY <3>3 DEF Running, Answers
      <4>2. k \in 1 .. Len(Events) /\ 1 \notin 1 .. k - 1
        BY <1>2, <3>1, <3>2, <4>1
      <4>3. k = 1
        BY <4>2
      <4>4. QED
        BY <4>1, <4>3
    <3>5. \/ mode = "reset" /\ Events' = <<>>
          \/ mode = "standby" /\ Events' = <<Restarted>>
      <4>1. /\ Events' \in Seq(Evt) /\ Len(Events') = Len(Events) - 1
            /\ \A i \in 1 .. Len(Events) - 1 : Events'[i] = Events[i + 1]
        BY <1>2, <2>3, HeadTailProperties
      <4>2. CASE mode = "reset" /\ Len(Events) = 1
        BY <4>1, <4>2, EmptySeq
      <4>3. CASE mode = "standby" /\ Len(Events) = 2 /\ Events[2] = Restarted
        <5>1. Len(Events') = 1 /\ Events'[1] = Restarted
          BY <4>1, <4>3
        <5>2. QED
          BY <4>1, <4>3, <5>1
      <4>4. QED
        BY <3>4, <4>2, <4>3
    <3>6. Commands' = <<>>
      <4>1. setup_offset \in 0 .. NUM_SETUP /\ NUM_SETUP \in Nat /\ Len(Commands) \in Nat
        BY <1>1, <1>2, DeviceAssumption DEF TypeOK
      <4>2. Len(Commands) = 0
        BY <3>3, <4>1 DEF Running, InOrder
      <4>3. QED
        BY <1>2, <2>3, <4>2, EmptySeq
    <3>7. pc' = "loop" /\ ~setup_required'
      BY <1>6, <2>5 DEF Removes, still_required
    <3>8. QED
      BY <2>4, <3>3, <3>5, <3>6, <3>7 DEF Restarting
  <2>6. CASE cmd_status # "complete"
    <3>1. pc' = "wait" /\ setup_required'
      BY <1>6, <2>6 DEF Removes, still_required
    <3>2. Head(Events) # Completed
      BY <2>3, <2>6 DEF Completed, CmdRsp
    <3>3. Answers'
      BY <1>2, <2>3, <2>4, <3>2, AnswersShift DEF Running
    <3>4. QED
      BY <2>3, <2>4, <3>1, <3>3 DEF Running, InOrder
  <2>7. QED
    BY <2>5, <2>6
<1>7. CASE RdynLow \/ UNCHANGED vars
  BY <1>7, IdlePhase, SamePhase
<1>8. CASE Device
  BY <1>8, RunningDevice
<1>9. QED
  BY <1>3, <1>4, <1>5, <1>6, <1>7, <1>8
  DEF Undisturbed, Running, Next, Host, aci_loop, LoopBegins, HandleStarted, HandleCmdRsp,
      HandleConnected, HandlePipeStatus, SayHello, HandleTiming, HandleDisconnected,
      HandleHwError, HandleData, CallbackReturns, HandleControlPoint, HandleCredit,
      HandlePipeError, Handles, do_aci_setup, SetupBegins, TimesOut, AppTx,
      nRF8001BleUartNameSet, AppRuns

(* The host waits for the start of the device, and handles it with empty
   queues. *)
LEMMA RestartingStep ==
    ASSUME Undisturbed, Restarting
    PROVE  Restarting' \/ Operating'
<1>1. TypeOK
  BY DEF Undisturbed, WellTyped
<1>2. CASE LoopBegins
  <2>1. T!hal_aci_tl_event_get /\ UNCHANGED radioVars
    BY <1>2 DEF LoopBegins, lib_aci_event_get
  <2>2. /\ Commands' = <<>>
        /\ ok' => out' = Restarted /\ Events' = <<>> /\ mode = "standby"
        /\ ~ok' => Events' = Events
    BY <1>1, <2>1, GetStream DEF Restarting
  <2>3. CASE ok'
    <3>1. /\ aci_tx_q' \in Seq(Cmd) /\ inbox' \in Seq(Cmd)
          /\ aci_rx_q' \in Seq(Evt) /\ pending' \in Seq(Evt)
      BY <1>1, <2>1, LineStepIsSafe DEF LineStep, TypeOK, T!TypeOK
    <3>2. aci_tx_q' = <<>> /\ aci_rx_q' = <<>> /\ pending' = <<>>
      BY <2>2, <2>3, <3>1 DEF Commands, Events
    <3>3. Len(aci_tx_q') < T!Cap
      BY <3>2, AppAssumption, EmptySeq DEF T!Cap
    <3>4. Restarted \in Ordinary
      BY OrdinaryRaised, Zenon DEF Restarted
    <3>5. pc' = "handle" /\ ~setup_required' /\ mode' # "setup" /\ loaded' = NUM_SETUP
      BY <1>2, <2>1, <2>2, <2>3 DEF LoopBegins, Restarting, radioVars, setupVars
    <3>6. pending' \in Seq(Ordinary)
      BY <3>2, EmptySeq
    <3>7. QED
      BY <2>2, <2>3, <3>2, <3>3, <3>4, <3>5, <3>6 DEF Operating, Settled, T!Cap
  <2>4. CASE ~ok'
    <3>1. pipes_open' = {}
      BY <1>2, <2>4 DEF LoopBegins, lib_aci_event_get, Restarting
    <3>2. QED
      BY <1>2, <2>1, <2>2, <2>4, <3>1 DEF LoopBegins, Finish, Restarting, radioVars, setupVars
  <2>5. QED
    BY <2>3, <2>4
<1>3. CASE AppTx
  BY <1>3, TxIsIdle, SamePhase DEF Restarting
<1>4. CASE RdynLow \/ UNCHANGED vars
  BY <1>4, IdlePhase, SamePhase
<1>5. CASE Device
  <2>1. \A op : ~Executes(op)
    BY <1>1, <1>5, ExecuteStream DEF Restarting, Device, lineVars
  <2>2. Boots
    <3>1. mode \in {"reset", "standby"}
      BY DEF Restarting
    <3>2. ~PeerNext
      BY <3>1 DEF PeerNext, PeerConnects, PeerSubscribes, PeerWrites, PeerAcks, PeerReports,
                  LinkDrops
    <3>3. ~HwFault
      BY DEF HwFault, Undisturbed
    <3>4. ~Executed
      BY <2>1 DEF Executed, ExecSetup, ExecConnect, ExecDisconnect, ExecQuery, ExecSendData
    <3>5. QED
      BY <1>5, <3>2, <3>3, <3>4 DEF Device, DeviceNext
  <2>3. mode' = "standby" /\ Raise(Restarted) /\ UNCHANGED <<inbox, loaded>> /\ Events = <<>>
    <3>1. mode' = "standby"
      BY <2>2 DEF Boots, Restarting
    <3>2. QED
      BY <2>2, <3>1 DEF Boots, Restarting, Restarted
  <2>4. Events' = <<Restarted>>
    <3>1. Restarted \in Evt
      BY EventsRaised, Zenon DEF Restarted
    <3>2. Events' = Append(Events, Restarted)
      BY <1>1, <1>5, <2>3, <3>1, RaiseStream DEF Device, lineVars
    <3>3. QED
      BY <2>3, <3>2
  <2>5. QED
    BY <1>5, <2>3, <2>4 DEF Restarting, Device, lineVars, stateVars, setupVars, Commands
<1>6. QED
  BY <1>2, <1>3, <1>4, <1>5
  DEF Undisturbed, Restarting, Next, Host, aci_loop, HandleStarted, HandleCmdRsp, HandleConnected,
      HandlePipeStatus, SayHello, HandleTiming, HandleDisconnected, HandleHwError, HandleData,
      CallbackReturns, HandleControlPoint, HandleCredit, HandlePipeError, Handles,
      do_aci_setup, SetupBegins, Fills, FillEnds, Waits, TimesOut, Removes,
      nRF8001BleUartNameSet

\* The phases, when nothing disturbs the setup.
QuietPhases == QuietSetup => Phases

(* They follow each other. *)
LEMMA QuietPhasesAlways == Spec => []QuietPhases
<1>1. Init => QuietPhases
  <2>1. SUFFICES ASSUME Init PROVE Waiting \/ Operating
    BY DEF QuietPhases, Phases
  <2>2. /\ aci_rx_q = <<>> /\ pending = <<>> /\ aci_tx_q = <<>> /\ inbox = <<>>
        /\ mode = "reset" /\ pc = "loop" /\ ~setup_required /\ pipes_open = {}
    BY <2>1 DEF Init, T!Init, DeviceInit
  <2>3. Events = <<>> /\ Commands = <<>> /\ pending \in Seq(Ordinary)
    BY <2>2, EmptySeq DEF Events, Commands
  <2>4. loaded = NUM_SETUP \/ loaded = 0
    BY <2>1, Zenon DEF Init, DeviceInit
  <2>5. QED
    BY <2>2, <2>3, <2>4 DEF Waiting, Operating, Settled
<1>2. WellTyped /\ Fetching /\ QuietPhases /\ [Next]_vars => QuietPhases'
  <2>1. SUFFICES ASSUME WellTyped, Fetching, QuietPhases, [Next]_vars,
                        "name" \notin AppCalls, ~SetupTimeout, faults' = 0
                 PROVE  (Waiting \/ Told \/ Running \/ Restarting \/ Operating)'
    BY DEF QuietPhases, Phases, QuietSetup
  <2>2. faults = 0
    BY <2>1, FaultsOnlyGrow
  <2>3. Undisturbed
    BY <2>1, <2>2 DEF Undisturbed
  <2>4. QED
    BY <2>1, <2>2, <2>3, WaitingStep, ToldStep, RunningStep, RestartingStep, OperatingStep
    DEF QuietPhases, QuietSetup, Phases
<1>3. QED
  BY <1>1, <1>2, WellTypedAlways, FetchingAlways, PTL DEF Spec

(* On a device that does not fail, with an application that sets no names (it
   has no pipe to send on yet) and a guard counter that does not run out, the
   setup messages cross the link one by one, in order and without a gap, for
   every number of messages and every size of the queues. *)
THEOREM SetupKeepsOrder == Spec => []SetupInOrder
<1>1. QuietPhases => SetupInOrder
  BY DEF QuietPhases, QuietSetup, Phases, Waiting, Told, Running, Restarting, Operating,
         Settled, InOrder, SetupInOrder
<1>2. QED
  BY <1>1, QuietPhasesAlways, PTL

(* The answer of the device to a lost link, a restart or a fault is another
   lib_aci_connect, whose result no handler looks at.  It is always queued:
   with the setup in OTP memory however the application fills the queue and
   whatever faults there are, with a setup from RAM as long as nothing
   disturbs the setup. *)
THEOREM ConnectAlwaysQueued == Spec => []ConnectIsQueued
<1>1. Init => (OtpSetup => Operating)
  <2>1. SUFFICES ASSUME Init, OtpSetup PROVE Operating
    OBVIOUS
  <2>2. pending = <<>> /\ aci_rx_q = <<>> /\ pc = "loop" /\ ~setup_required /\ mode = "reset"
    BY <2>1 DEF Init, T!Init, DeviceInit
  <2>3. loaded = NUM_SETUP
    BY <2>1, Zenon DEF Init, DeviceInit
  <2>4. QED
    BY <2>2, <2>3, EmptySeq DEF Operating, Settled
<1>2. WellTyped /\ (OtpSetup => Operating) /\ [Next]_vars => (OtpSetup => Operating)'
  BY OperatingStep
<1>3. (OtpSetup => Operating) /\ QuietPhases => ConnectIsQueued
  <2>1. Waiting \/ Told \/ Running \/ Restarting => ConnectFits
    BY DEF Waiting, Told, Running, Restarting, ConnectFits, MustConnect, SetupStarted, Started
  <2>2. QED
    BY <2>1, OperatingFits
    DEF QuietPhases, QuietSetup, Phases, SetUpInPeace, ConnectIsQueued
<1>4. QED
  BY <1>1, <1>2, <1>3, WellTypedAlways, QuietPhasesAlways, PTL DEF Spec
=============================================================================
