-------------------------- MODULE MeshGatewayProofs --------------------------
(***************************************************************************)
(* The mesh gateway, for every size of the queues.                         *)
(***************************************************************************)
EXTENDS MeshGateway, SequenceTheorems, FiniteSetTheorems, TLAPS

\* The lemmas about the transport, for the transport of the gateway.
TP == INSTANCE AciTransportProofs WITH Oversize <- {}

-----------------------------------------------------------------------------
(* The transport under the gateway. *)

(* A call of the transport is a call of the transport of the lemmas. *)
LEMMA SameCalls ==
    /\ \A c \in Cmd : T!hal_aci_tl_send(c) => TP!hal_aci_tl_send(c)
    /\ T!hal_aci_tl_event_get => TP!hal_aci_tl_event_get
    /\ T!RdynLow => TP!RdynLow
<1> USE DEF T!LOW, T!HIGH, T!Cap, TP!LOW, TP!HIGH, TP!Cap, T!rx_full, TP!rx_full
<1>1. ASSUME NEW c \in Cmd, T!hal_aci_tl_send(c) PROVE TP!hal_aci_tl_send(c)
  BY <1>1 DEF T!hal_aci_tl_send, TP!hal_aci_tl_send, T!tx_full, TP!tx_full
<1>2. T!hal_aci_tl_event_get => TP!hal_aci_tl_event_get
  BY Zenon
  DEF T!transfers, TP!transfers, T!tx_after, TP!tx_after, T!rx_after, TP!rx_after,
      T!inbox_after, TP!inbox_after, T!pending_after, TP!pending_after,
      T!reqn_after, TP!reqn_after, T!rdyn_after, TP!rdyn_after, T!spins, TP!spins,
      T!FirstOf, TP!FirstOf, T!RestOf, TP!RestOf, T!get_reqn, TP!get_reqn,
      T!m_aci_event_check, TP!m_aci_event_check, T!hal_aci_tl_event_get, TP!hal_aci_tl_event_get
<1>3. T!RdynLow => TP!RdynLow
  BY DEF T!RdynLow, TP!RdynLow, T!hostVars, TP!hostVars
<1>4. QED
  BY <1>1, <1>2, <1>3

(* The assumption and the types of the transport are those of the lemmas. *)
LEMMA SameTypes == TP!TransportAssumption /\ (T!TypeOK <=> TP!TypeOK)
<1>1. TP!TransportAssumption
  BY GatewayAssumption DEF TP!TransportAssumption
<1>2. T!TypeOK <=> TP!TypeOK
  BY DEF T!TypeOK, TP!TypeOK, T!LOW, T!HIGH, T!Cap, TP!LOW, TP!HIGH, TP!Cap
<1>3. QED
  BY <1>1, <1>2

(* A call of the gateway, and RDYN going low, keep the types of the transport. *)
LEMMA CallKeepsTypes ==
    ASSUME T!TypeOK,
           \/ \E c \in Cmd : T!hal_aci_tl_send(c)
           \/ T!hal_aci_tl_event_get
           \/ T!RdynLow
    PROVE  T!TypeOK'
<1>1. TP!TransportAssumption /\ TP!TypeOK
  BY SameTypes
<1>2. [TP!Next]_(TP!vars)
  BY SameCalls DEF TP!Next
<1>3. TP!TypeOK'
  BY <1>1, <1>2, TP!StepKeepsTypes, Zenon
<1>4. (T!TypeOK <=> TP!TypeOK)'
  BY SameTypes, PTL
<1>5. QED
  BY <1>3, <1>4

(* Both streams are sequences of messages. *)
LEMMA StreamTypes ==
    ASSUME TypeOK
    PROVE  Commands \in Seq(Cmd) /\ Events \in Seq(Evt)
  BY ConcatProperties DEF TypeOK, T!TypeOK, Commands, Events

(* A send puts the command behind the others, unless the queue is full. *)
LEMMA SendStream ==
    ASSUME TypeOK, NEW c \in Cmd, T!hal_aci_tl_send(c)
    PROVE  /\ Events' = Events /\ UNCHANGED aci_rx_q
           /\ \/ Commands' = Append(Commands, c)
              \/ Commands' = Commands /\ Len(aci_tx_q) = T!Cap
<1>1. TP!TransportAssumption /\ TP!TypeOK /\ TP!hal_aci_tl_send(c)
  BY SameTypes, SameCalls DEF TypeOK
<1>2. /\ aci_rx_q' \o pending' = aci_rx_q \o pending
      /\ UNCHANGED aci_rx_q
      /\ \/ ok' = TRUE /\ inbox' \o aci_tx_q' = Append(inbox \o aci_tx_q, c)
         \/ ok' = FALSE /\ inbox' \o aci_tx_q' = inbox \o aci_tx_q
  BY <1>1, TP!SendStream, Zenon
<1>3. ok' = FALSE => Len(aci_tx_q) = T!Cap
  BY DEF T!hal_aci_tl_send, T!tx_full
<1>4. QED
  BY <1>2, <1>3 DEF Commands, Events

(* A get takes the oldest event out of the stream, or finds none. *)
LEMMA GetStream ==
    ASSUME TypeOK, T!hal_aci_tl_event_get
    PROVE  /\ Commands' = Commands /\ ok' \in BOOLEAN
           /\ ok' => Events # <<>> /\ out' = Head(Events) /\ Events' = Tail(Events)
           /\ ~ok' => Events' = Events
           /\ aci_rx_q = <<>> => aci_rx_q' = <<>> /\ (ok' => Len(aci_tx_q') < T!Cap)
<1>1. TP!TransportAssumption /\ TP!TypeOK /\ TP!hal_aci_tl_event_get
  BY SameTypes, SameCalls DEF TypeOK
<1>2. /\ Commands' = Commands /\ ok' \in BOOLEAN
      /\ ok' => Events # <<>> /\ out' = Head(Events) /\ Events' = Tail(Events)
      /\ ~ok' => Events' = Events
  BY <1>1, TP!GetStream, Zenon DEF Commands, Events
<1>3. aci_rx_q = <<>> => aci_rx_q' = <<>> /\ (ok' => Len(aci_tx_q') < TP!Cap)
  BY <1>1, TP!GetMakesRoom, Zenon
<1>4. QED
  BY <1>2, <1>3 DEF T!Cap, TP!Cap

(* The slave takes the oldest command and puts its response behind the other
   events. *)
LEMMA SlaveStream ==
    ASSUME TypeOK, SlaveExecutes
    PROVE  /\ Commands # <<>> /\ Head(Commands) = Head(inbox)
           /\ Commands' = Tail(Commands)
           /\ Events' = Append(Events, Response(Head(Commands)))
<1>1. inbox \in Seq(Cmd) /\ aci_tx_q \in Seq(Cmd) /\ inbox # <<>>
  BY DEF TypeOK, T!TypeOK, SlaveExecutes
<1>2. /\ inbox \o aci_tx_q # <<>> /\ Head(inbox \o aci_tx_q) = Head(inbox)
      /\ Tail(inbox \o aci_tx_q) = Tail(inbox) \o aci_tx_q
  BY <1>1, TP!HeadTailConcat, SameTypes, Zenon
<1>3. \A e : e \in Evt => aci_rx_q \o Append(pending, e) = Append(aci_rx_q \o pending, e)
  BY DEF TypeOK, T!TypeOK
<1>4. Head(inbox) \in Cmd
  BY <1>1, HeadTailProperties
<1>5. Response(Head(inbox)) \in Evt
  BY <1>4 DEF Evt
<1>6. QED
  BY <1>2, <1>3, <1>5 DEF SlaveExecutes, hostVars, Commands, Events

(* A change of a value goes behind the other events. *)
LEMMA ChangeStream ==
    ASSUME TypeOK, MeshChangesValue
    PROVE  Commands' = Commands /\ Events' = Append(Events, ValueChanged)
<1>1. aci_rx_q \o Append(pending, ValueChanged) = Append(aci_rx_q \o pending, ValueChanged)
  BY DEF TypeOK, T!TypeOK, Evt
<1>2. QED
  BY <1>1 DEF MeshChangesValue, T!DeviceRaises, T!hostVars, Commands, Events

-----------------------------------------------------------------------------
(* Steps of the gateway. *)

(* The initialisation commands. *)
LEMMA InitCommand ==
    /\ \A i \in 1 .. 3 : InitCommands[i] \in Setup /\ InitCommands[i] \in Cmd
    /\ Setup \cap Requests = {} /\ Requests \subseteq Cmd
  BY DEF InitCommands, Setup, Requests, Cmd

(* A request marks the gateway as waiting and queues its command. *)
LEMMA RequestStep ==
    ASSUME set_val \/ get_val_req
    PROVE  /\ pc = "loop" /\ state = "ready" /\ state' = "waitingForEvent"
           /\ request' \in Requests /\ T!hal_aci_tl_send(request')
           /\ UNCHANGED <<pc, initState, newMessage, lastResponse, done>>
  BY DEF set_val, get_val_req, Request, may_request, rbc_mesh_value_set, settable,
         rbc_mesh_value_get, Requests

\* The turn of the gateway during the initialisation.
MyTurn == state = "init" /\ newMessage

(* The first half of loop() sends the next initialisation command, ends the
   initialisation or does nothing. *)
LEMMA LoopStep ==
    ASSUME TypeOK, loop
    PROVE  /\ pc = "loop" /\ pc' = "poll" /\ UNCHANGED <<newMessage, lastResponse, request, done>>
           /\ \/ /\ MyTurn /\ initState \in 0 .. 2 /\ T!hal_aci_tl_send(InitCommands[initState + 1])
                 /\ initState' = initState + 1 /\ state' = "init"
              \/ /\ MyTurn /\ initState = 3 /\ UNCHANGED lineVars
                 /\ initState' = 3 /\ state' = "ready"
              \/ ~MyTurn /\ UNCHANGED <<lineVars, initState, state>>
<1>1. CASE MyTurn
  <2>1. initConnectionSlowly
    BY <1>1 DEF loop, MyTurn
  <2>2. initState \in 0 .. 3
    BY DEF TypeOK
  <2>3. CASE initState = 0
    BY <1>1, <2>1, <2>3 DEF loop, MyTurn, initConnectionSlowly, rbc_mesh_init, InitCommands
  <2>4. CASE initState = 1
    BY <1>1, <2>1, <2>4 DEF loop, MyTurn, initConnectionSlowly, rbc_mesh_value_enable, InitCommands
  <2>5. CASE initState = 2
    BY <1>1, <2>1, <2>5 DEF loop, MyTurn, initConnectionSlowly, rbc_mesh_value_enable, InitCommands
  <2>6. CASE initState = 3
    BY <1>1, <2>1, <2>6 DEF loop, MyTurn, initConnectionSlowly
  <2>7. QED
    BY <2>2, <2>3, <2>4, <2>5, <2>6
<1>2. CASE ~MyTurn
  BY <1>2 DEF loop, MyTurn
<1>3. QED
  BY <1>1, <1>2

-----------------------------------------------------------------------------
(* Type correctness. *)

(* Every step keeps the types. *)
LEMMA StepKeepsTypes ==
    ASSUME TypeOK, [Next]_vars
    PROVE  TypeOK'
<1>1. CASE set_val \/ get_val_req
  <2>1. T!TypeOK'
    BY <1>1, RequestStep, InitCommand, CallKeepsTypes DEF TypeOK
  <2>2. QED
    BY <1>1, <2>1, RequestStep DEF TypeOK
<1>2. CASE loop
  <2>1. T!TypeOK'
    <3>1. CASE \E c \in Cmd : T!hal_aci_tl_send(c)
      BY <3>1, CallKeepsTypes DEF TypeOK
    <3>2. CASE UNCHANGED lineVars
      BY <3>2 DEF TypeOK, T!TypeOK, lineVars
    <3>3. initState \in 0 .. 2 => InitCommands[initState + 1] \in Cmd
      BY InitCommand
    <3>4. QED
      BY <1>2, <3>1, <3>2, <3>3, LoopStep
  <2>2. /\ pc' = "poll" /\ state' \in {"init", "ready", "waitingForEvent"}
        /\ initState' \in 0 .. 3
    BY <1>2, LoopStep DEF TypeOK
  <2>3. QED
    BY <1>2, <2>1, <2>2, LoopStep DEF TypeOK
<1>3. CASE poll
  <2>1. T!hal_aci_tl_event_get
    BY <1>3 DEF poll, rbc_mesh_evt_get
  <2>2. T!TypeOK'
    BY <2>1, CallKeepsTypes DEF TypeOK
  <2>3. ok' \in BOOLEAN /\ (ok' => out' \in Evt)
    BY <2>1, GetStream, StreamTypes, HeadTailProperties
  <2>4. ok' => out'.cmd \in Cmd \cup {"none"}
    BY <2>3 DEF Evt, Started, ValueChanged, Response, Event
  <2>5. QED
    BY <1>3, <2>2, <2>3, <2>4 DEF poll, got_message, answered, TypeOK
<1>4. CASE RdynLow
  BY <1>4, CallKeepsTypes DEF RdynLow, TypeOK, gatewayVars
<1>5. CASE SlaveExecutes
  <2>1. inbox \in Seq(Cmd) /\ pending \in Seq(Evt) /\ inbox # <<>>
    BY <1>5 DEF TypeOK, T!TypeOK, SlaveExecutes
  <2>2. Head(inbox) \in Cmd /\ Tail(inbox) \in Seq(Cmd)
    BY <2>1, HeadTailProperties
  <2>3. Response(Head(inbox)) \in Evt
    BY <2>2 DEF Evt
  <2>4. inbox' \in Seq(Cmd) /\ pending' \in Seq(Evt)
    BY <1>5, <2>1, <2>2, <2>3, AppendProperties DEF SlaveExecutes
  <2>5. QED
    BY <1>5, <2>4 DEF SlaveExecutes, TypeOK, T!TypeOK, hostVars, gatewayVars
<1>6. CASE MeshChangesValue
  <2>1. pending' \in Seq(Evt)
    BY <1>6, AppendProperties DEF MeshChangesValue, T!DeviceRaises, TypeOK, T!TypeOK, Evt
  <2>2. QED
    BY <1>6, <2>1 DEF MeshChangesValue, T!DeviceRaises, T!hostVars, TypeOK, T!TypeOK, gatewayVars
<1>7. CASE UNCHANGED vars
  BY <1>7 DEF vars, lineVars, gatewayVars, TypeOK, T!TypeOK
<1>8. QED
  BY <1>1, <1>2, <1>3, <1>4, <1>5, <1>6, <1>7 DEF Next

(* The queues, the state of the gateway and the value it saves stay within
   their types; in particular what it saves is taken from a response. *)
THEOREM TypeCorrect == Spec => []TypeOK
<1>1. Init => TypeOK
  <2>1. SUFFICES ASSUME Init PROVE TypeOK
    OBVIOUS
  <2>2. 0 <= T!Cap
    BY GatewayAssumption DEF T!Cap
  <2>3. \A S : <<>> \in Seq(S) /\ Len(<<>>) = 0
    BY EmptySeq
  <2>4. <<Started>> \in Seq(Evt)
    BY DEF Evt
  <2>5. T!TypeOK
    BY <2>1, <2>2, <2>3, <2>4 DEF Init, T!TypeOK
  <2>6. /\ pc = "loop" /\ state = "init" /\ initState \in 0 .. 3 /\ newMessage \in BOOLEAN
        /\ lastResponse = "none" /\ request = "none" /\ done \subseteq Setup
    <3>1. newMessage \in BOOLEAN
      BY <2>1, Zenon DEF Init
    <3>2. QED
      BY <2>1, <3>1 DEF Init
  <2>7. QED
    BY <2>5, <2>6, Zenon DEF TypeOK
<1>2. TypeOK /\ [Next]_vars => TypeOK'
  BY StepKeepsTypes
<1>3. QED
  BY <1>1, <1>2, PTL DEF Spec

-----------------------------------------------------------------------------
(* The inductive invariants. *)

\* The commands leave in the order they were given: of the initialisation the
\* slave has executed the first d, the others are on their way in front of any
\* request.  None is refused: a command is sent only after a poll that brought
\* an event, and the transfer that brought it took a command away.
InitFirst ==
    /\ state # "init" => initState = 3
    /\ aci_rx_q = <<>>
    /\ state = "init" /\ pc = "loop" /\ newMessage => Len(aci_tx_q) < T!Cap
    /\ \E d \in 0 .. initState :
          /\ done = {InitCommands[i] : i \in 1 .. d}
          /\ d + Len(Commands) >= initState
          /\ state = "init" => d + Len(Commands) = initState
          /\ \A i \in DOMAIN Commands :
                IF d + i <= initState THEN Commands[i] = InitCommands[d + i]
                ELSE Commands[i] \in Requests

Executed(n) == done = {InitCommands[i] : i \in 1 .. n}

\* Every event on its way is a change of a value.
OnlyChanges == \A i \in DOMAIN Events : Events[i] = ValueChanged

\* During the initialisation one thing is under way at a time: the gateway has
\* the turn,
Turn ==
    /\ state = "init" /\ pc = "loop" /\ newMessage
    /\ Commands = <<>> /\ OnlyChanges
    /\ initState < 3 => Events = <<>>
    /\ Executed(initState)

\* or a command is on its way,
Sent ==
    /\ state = "init" /\ (pc = "loop" => ~newMessage)
    /\ initState > 0 /\ Commands = <<InitCommands[initState]>> /\ Events = <<>>
    /\ Executed(initState - 1)

\* or the event that gives the gateway the turn.
Answered ==
    /\ state = "init" /\ (pc = "loop" => ~newMessage)
    /\ Commands = <<>> /\ Executed(initState)
    /\ Events # <<>>
    /\ \A i \in 2 .. Len(Events) : Events[i] = ValueChanged
    /\ initState < 3 => Len(Events) = 1

\* After it nothing is under way, ...
Idle == state = "ready" /\ Commands = <<>> /\ OnlyChanges /\ Executed(3)

\* ... or a request,
Asked ==
    /\ state = "waitingForEvent" /\ Commands = <<request>> /\ OnlyChanges /\ Executed(3)

\* or the response to it.
Replied ==
    /\ state = "waitingForEvent" /\ Commands = <<>> /\ Executed(3)
    /\ \E k \in DOMAIN Events :
          /\ Events[k] = Response(request)
          /\ \A i \in DOMAIN Events \ {k} : Events[i] = ValueChanged

OneAtATime == Turn \/ Sent \/ Answered \/ Idle \/ Asked \/ Replied

-----------------------------------------------------------------------------
(* The initialisation comes first. *)

(* The invariant survives every step. *)
LEMMA InitFirstStep ==
    ASSUME TypeOK, InitFirst, [Next]_vars
    PROVE  InitFirst'
<1>1. PICK d \in 0 .. initState :
         /\ done = {InitCommands[i] : i \in 1 .. d}
         /\ d + Len(Commands) >= initState
         /\ state = "init" => d + Len(Commands) = initState
         /\ \A i \in DOMAIN Commands :
               IF d + i <= initState THEN Commands[i] = InitCommands[d + i]
               ELSE Commands[i] \in Requests
  BY DEF InitFirst
<1>2. /\ initState \in 0 .. 3 /\ d \in Nat /\ d <= initState
      /\ Commands \in Seq(Cmd) /\ Len(Commands) \in Nat /\ DOMAIN Commands = 1 .. Len(Commands)
      /\ aci_rx_q = <<>>
  BY StreamTypes DEF TypeOK, InitFirst
<1>3. CASE set_val \/ get_val_req
  <2>1. /\ request' \in Requests /\ request' \in Cmd
        /\ state' = "waitingForEvent" /\ initState = 3 /\ initState' = 3 /\ done' = done
    BY <1>3, RequestStep, InitCommand DEF InitFirst
  <2>2. aci_rx_q' = <<>> /\ (Commands' = Append(Commands, request') \/ Commands' = Commands)
    BY <1>2, <1>3, <2>1, RequestStep, SendStream
  <2>3. CASE Commands' = Commands
    BY <1>1, <2>1, <2>2, <2>3 DEF InitFirst
  <2>4. CASE Commands' = Append(Commands, request')
    <3>1. /\ Len(Commands') = Len(Commands) + 1
          /\ DOMAIN Commands' = 1 .. Len(Commands) + 1
          /\ \A i \in 1 .. Len(Commands) : Commands'[i] = Commands[i]
          /\ Commands'[Len(Commands) + 1] = request'
      BY <1>2, <2>1, <2>4, AppendProperties
    <3>2. ASSUME NEW i \in DOMAIN Commands'
          PROVE  IF d + i <= initState' THEN Commands'[i] = InitCommands[d + i]
                 ELSE Commands'[i] \in Requests
      <4>1. CASE i \in 1 .. Len(Commands)
        BY <1>1, <1>2, <2>1, <3>1, <4>1
      <4>2. CASE i = Len(Commands) + 1
        BY <1>1, <1>2, <2>1, <3>1, <4>2
      <4>3. QED
        BY <1>2, <3>1, <4>1, <4>2
    <3>3. d \in 0 .. initState' /\ d + Len(Commands') >= initState'
      BY <1>1, <1>2, <2>1, <3>1
    <3>4. done' = {InitCommands[i] : i \in 1 .. d}
      BY <1>1, <2>1
    <3>5. QED
      BY <2>1, <2>2, <3>2, <3>3, <3>4 DEF InitFirst
  <2>5. QED
    BY <2>2, <2>3, <2>4
<1>4. CASE loop
  <2>1. CASE /\ MyTurn /\ initState \in 0 .. 2 /\ T!hal_aci_tl_send(InitCommands[initState + 1])
             /\ initState' = initState + 1 /\ state' = "init"
    <3>1. InitCommands[initState + 1] \in Cmd /\ state = "init"
      BY <2>1, InitCommand DEF MyTurn
    <3>2. Len(aci_tx_q) # T!Cap
      <4>1. pc = "loop"
        BY <1>4 DEF loop
      <4>2. Len(aci_tx_q) < T!Cap
        BY <2>1, <4>1 DEF InitFirst, MyTurn
      <4>3. Len(aci_tx_q) \in Nat /\ T!Cap \in Int
        BY LenProperties, GatewayAssumption DEF TypeOK, T!TypeOK, T!Cap
      <4>4. QED
        BY <4>2, <4>3
    <3>3. aci_rx_q' = <<>> /\ Commands' = Append(Commands, InitCommands[initState + 1])
      BY <1>2, <2>1, <3>1, <3>2, SendStream
    <3>4. /\ Len(Commands') = Len(Commands) + 1
          /\ DOMAIN Commands' = 1 .. Len(Commands) + 1
          /\ \A i \in 1 .. Len(Commands) : Commands'[i] = Commands[i]
          /\ Commands'[Len(Commands) + 1] = InitCommands[initState + 1]
      BY <1>2, <3>1, <3>3, AppendProperties
    <3>5. d + Len(Commands) = initState
      BY <1>1, <3>1
    <3>6. ASSUME NEW i \in DOMAIN Commands'
          PROVE  d + i <= initState' /\ Commands'[i] = InitCommands[d + i]
      <4>1. CASE i \in 1 .. Len(Commands)
        BY <1>1, <1>2, <2>1, <3>4, <3>5, <4>1
      <4>2. CASE i = Len(Commands) + 1
        <5>1. d + i = initState + 1
          BY <1>2, <3>5, <4>2
        <5>2. QED
          BY <2>1, <3>4, <4>2, <5>1
      <4>3. QED
        BY <1>2, <3>4, <4>1, <4>2
    <3>7. d \in 0 .. initState' /\ d + Len(Commands') = initState'
      BY <1>2, <2>1, <3>4, <3>5
    <3>8. done' = {InitCommands[i] : i \in 1 .. d} /\ pc' = "poll"
      BY <1>1, <1>4, LoopStep
    <3>9. d + Len(Commands') >= initState'
      BY <1>2, <2>1, <3>7
    <3>10. QED
      BY <2>1, <3>3, <3>6, <3>7, <3>8, <3>9 DEF InitFirst
  <2>2. CASE MyTurn /\ initState = 3 /\ UNCHANGED lineVars /\ initState' = 3 /\ state' = "ready"
    <3>1. Commands' = Commands /\ aci_rx_q' = <<>> /\ done' = done
      BY <1>2, <1>4, <2>2, LoopStep DEF lineVars, Commands
    <3>2. QED
      BY <1>1, <2>2, <3>1 DEF InitFirst
  <2>3. CASE ~MyTurn /\ UNCHANGED <<lineVars, initState, state>>
    <3>1. Commands' = Commands /\ aci_rx_q' = <<>> /\ done' = done /\ pc' = "poll"
      BY <1>2, <1>4, <2>3, LoopStep DEF lineVars, Commands
    <3>2. QED
      BY <1>1, <2>3, <3>1 DEF InitFirst
  <2>4. QED
    BY <1>4, <2>1, <2>2, <2>3, LoopStep
<1>5. CASE poll
  <2>1. T!hal_aci_tl_event_get
    BY <1>5 DEF poll, rbc_mesh_evt_get
  <2>2. /\ Commands' = Commands /\ aci_rx_q' = <<>>
        /\ ok' => Len(aci_tx_q') < T!Cap
    BY <1>2, <2>1, GetStream
  <2>3. /\ UNCHANGED <<initState, done>> /\ newMessage' = ok'
        /\ state' = state \/ (state' = "ready" /\ state = "waitingForEvent")
    BY <1>5 DEF poll, got_message
  <2>4. QED
    BY <1>1, <2>2, <2>3 DEF InitFirst
<1>6. CASE RdynLow \/ MeshChangesValue \/ UNCHANGED vars
  <2>1. UNCHANGED <<Commands, aci_rx_q, aci_tx_q, pc, state, initState, newMessage, done>>
    BY <1>6 DEF RdynLow, T!RdynLow, T!hostVars, MeshChangesValue, T!DeviceRaises, vars, lineVars,
                gatewayVars, Commands
  <2>2. QED
    BY <2>1 DEF InitFirst
<1>7. CASE SlaveExecutes
  <2>1. /\ UNCHANGED <<aci_rx_q, aci_tx_q, pc, state, initState, newMessage>>
        /\ done' = done \cup ({Head(inbox)} \cap Setup)
    BY <1>7 DEF SlaveExecutes, hostVars, gatewayVars
  <2>2. Commands # <<>> /\ Head(Commands) = Head(inbox) /\ Commands' = Tail(Commands)
    BY <1>7, SlaveStream
  <2>3. /\ Head(inbox) = Commands[1] /\ 1 \in DOMAIN Commands
        /\ Len(Commands') = Len(Commands) - 1 /\ DOMAIN Commands' = 1 .. Len(Commands) - 1
        /\ \A i \in 1 .. Len(Commands) - 1 : Commands'[i] = Commands[i + 1]
    BY <1>2, <2>2
  <2>4. CASE d + 1 <= initState
    <3>1. Head(inbox) = InitCommands[d + 1] /\ d + 1 \in 1 .. 3
      BY <1>1, <1>2, <2>3, <2>4
    <3>2. done' = {InitCommands[i] : i \in 1 .. d + 1}
      <4>1. done' = done \cup {InitCommands[d + 1]}
        BY <2>1, <3>1, InitCommand
      <4>2. \A i : i \in 1 .. d + 1 <=> i \in 1 .. d \/ i = d + 1
        BY <1>2
      <4>3. QED
        BY <1>1, <4>1, <4>2
    <3>3. d + 1 \in 0 .. initState' /\ (d + 1) + Len(Commands') = d + Len(Commands)
      BY <1>2, <2>1, <2>3, <2>4
    <3>4. ASSUME NEW i \in DOMAIN Commands'
          PROVE  IF (d + 1) + i <= initState' THEN Commands'[i] = InitCommands[(d + 1) + i]
                 ELSE Commands'[i] \in Requests
      <4>1. i + 1 \in DOMAIN Commands /\ Commands'[i] = Commands[i + 1] /\ d + (i + 1) = (d + 1) + i
        BY <1>2, <2>3
      <4>2. QED
        BY <1>1, <2>1, <4>1
    <3>5. QED
      BY <1>1, <1>2, <2>1, <3>2, <3>3, <3>4 DEF InitFirst
  <2>5. CASE ~(d + 1 <= initState)
    <3>1. d = initState /\ Commands[1] \in Requests
      BY <1>1, <1>2, <2>3, <2>5
    <3>2. done' = done
      BY <2>1, <2>3, <3>1, InitCommand
    <3>3. state # "init" /\ d + Len(Commands') >= initState'
      BY <1>1, <1>2, <2>1, <2>3, <3>1
    <3>4. ASSUME NEW i \in DOMAIN Commands'
          PROVE  ~(d + i <= initState') /\ Commands'[i] \in Requests
      <4>1. i + 1 \in DOMAIN Commands /\ Commands'[i] = Commands[i + 1] /\ ~(d + i <= initState)
            /\ ~(d + (i + 1) <= initState)
        BY <1>2, <2>3, <3>1
      <4>2. QED
        BY <1>1, <2>1, <4>1
    <3>5. QED
      BY <1>1, <1>2, <2>1, <3>2, <3>3, <3>4 DEF InitFirst
  <2>6. QED
    BY <2>4, <2>5
<1>8. QED
  BY <1>3, <1>4, <1>5, <1>6, <1>7 DEF Next

(* The commands are executed in the order of the initialisation. *)
LEMMA InitFirstAlways == Spec => []InitFirst
<1>1. Init => InitFirst
  <2>1. SUFFICES ASSUME Init PROVE InitFirst
    OBVIOUS
  <2>2. /\ inbox = <<>> /\ aci_tx_q = <<>> /\ aci_rx_q = <<>> /\ newMessage = FALSE
        /\ state = "init" /\ initState = 0 /\ done = {}
    BY <2>1 DEF Init
  <2>3. Commands = <<>>
    BY <2>2 DEF Commands
  <2>4. {InitCommands[i] : i \in 1 .. 0} = {}
    OBVIOUS
  <2>5. QED
    BY <2>2, <2>3, <2>4 DEF InitFirst
<1>2. TypeOK /\ InitFirst /\ [Next]_vars => InitFirst'
  BY InitFirstStep
<1>3. QED
  BY <1>1, <1>2, TypeCorrect, PTL DEF Spec

(* The slave executes no request of the cloud before the whole initialisation,
   although the gateway counts messages and not responses, and looks at the
   result of no send. *)
THEOREM InitialisedFirst == Spec => []RequestsAfterInit
<1>1. TypeOK /\ InitFirst => RequestsAfterInit
  <2>1. SUFFICES ASSUME TypeOK, InitFirst, inbox # <<>>, Head(inbox) \in Requests
                 PROVE  done = Setup
    BY DEF RequestsAfterInit
  <2>2. PICK d \in 0 .. initState :
           /\ done = {InitCommands[i] : i \in 1 .. d}
           /\ state = "init" => d + Len(Commands) = initState
           /\ \A i \in DOMAIN Commands :
                 IF d + i <= initState THEN Commands[i] = InitCommands[d + i]
                 ELSE Commands[i] \in Requests
    BY <2>1 DEF InitFirst
  <2>3. Commands \in Seq(Cmd) /\ Commands # <<>> /\ Head(Commands) = Head(inbox)
    <3>1. inbox \in Seq(Cmd) /\ aci_tx_q \in Seq(Cmd)
      BY <2>1 DEF TypeOK, T!TypeOK
    <3>2. QED
      BY <2>1, <3>1, StreamTypes, TP!HeadTailConcat, SameTypes, Zenon DEF Commands
  <2>4. 1 \in DOMAIN Commands /\ Commands[1] = Head(inbox) /\ Len(Commands) \in Nat \ {0}
    BY <2>3
  <2>5. initState \in 0 .. 3
    BY <2>1 DEF TypeOK
  <2>6. ~(d + 1 <= initState)
    <3>1. ASSUME d + 1 <= initState PROVE FALSE
      <4>1. d + 1 \in 1 .. 3 /\ Head(inbox) = InitCommands[d + 1]
        BY <2>2, <2>4, <2>5, <3>1
      <4>2. QED
        BY <2>1, <4>1, InitCommand
    <3>2. QED
      BY <3>1
  <2>7. d = initState /\ state # "init"
    BY <2>2, <2>4, <2>5, <2>6
  <2>8. d = 3
    BY <2>1, <2>7 DEF InitFirst
  <2>9. QED
    BY <2>2, <2>8 DEF Setup
<1>2. QED
  BY <1>1, TypeCorrect, InitFirstAlways, PTL

-----------------------------------------------------------------------------
(* A wait has a cause. *)

(* What is still to come ends the wait for it. *)
LEMMA CauseStep ==
    ASSUME TypeOK, WaitingHasCause, [Next]_vars
    PROVE  WaitingHasCause'
<1>1. Commands \in Seq(Cmd) /\ Events \in Seq(Evt)
  BY StreamTypes
<1>2. \A e : e \in Evt /\ Events' = Append(Events, e) /\ Responses # {} => Responses' # {}
  <2>1. TAKE e
  <2>2. HAVE e \in Evt /\ Events' = Append(Events, e) /\ Responses # {}
  <2>3. PICK i \in DOMAIN Events : is_response(Events[i])
    BY <2>2 DEF Responses
  <2>4. i \in DOMAIN Events' /\ Events'[i] = Events[i]
    <3>1. i \in 1 .. Len(Events) /\ Len(Events) \in Nat /\ DOMAIN Append(Events, e) = 1 .. Len(Events) + 1
      BY <1>1, <2>2
    <3>2. QED
      BY <1>1, <2>2, <3>1, AppendProperties
  <2>5. QED
    BY <2>3, <2>4 DEF Responses, is_response
<1>3. CASE set_val \/ get_val_req
  <2>1. Commands' = Append(Commands, request') \/ (Commands' = Commands /\ Len(aci_tx_q) = T!Cap)
    BY <1>3, RequestStep, InitCommand, SendStream
  <2>2. Append(Commands, request') # <<>>
    BY <1>1, <1>3, RequestStep, InitCommand, AppendProperties
  <2>3. Len(aci_tx_q) = T!Cap => Commands # <<>>
    <3>1. inbox \in Seq(Cmd) /\ aci_tx_q \in Seq(Cmd) /\ T!Cap > 0 /\ T!Cap \in Int
      BY GatewayAssumption DEF TypeOK, T!TypeOK, T!Cap
    <3>2. Len(Commands) = Len(inbox) + Len(aci_tx_q)
      BY <3>1, ConcatProperties DEF Commands
    <3>3. QED
      BY <3>1, <3>2, LenProperties, EmptySeq
  <2>4. QED
    BY <2>1, <2>2, <2>3 DEF WaitingHasCause
<1>4. CASE loop
  <2>1. state' = "waitingForEvent" => state = "waitingForEvent" /\ UNCHANGED lineVars
    BY <1>4, LoopStep
  <2>2. QED
    BY <2>1 DEF WaitingHasCause, Commands, Responses, Events, lineVars, is_response
<1>5. CASE poll
  <2>1. T!hal_aci_tl_event_get
    BY <1>5 DEF poll, rbc_mesh_evt_get
  <2>2. Commands' = Commands /\ ok' \in BOOLEAN
    BY <2>1, GetStream
  <2>3. SUFFICES ASSUME state' = "waitingForEvent", Commands = <<>> PROVE Responses' # {}
    BY <2>2 DEF WaitingHasCause
  <2>4. state = "waitingForEvent" /\ ~(ok' /\ is_response(out'))
    BY <1>5, <2>3 DEF poll
  <2>5. PICK i \in DOMAIN Events : is_response(Events[i])
    BY <2>3, <2>4 DEF WaitingHasCause, Responses
  <2>6. CASE ~ok'
    <3>1. Events' = Events
      BY <2>1, <2>6, GetStream
    <3>2. QED
      BY <2>5, <3>1 DEF Responses, is_response
  <2>7. CASE ok'
    <3>1. Events # <<>> /\ out' = Head(Events) /\ Events' = Tail(Events)
      BY <2>1, <2>7, GetStream
    <3>2. /\ Len(Events) \in Nat /\ DOMAIN Events = 1 .. Len(Events) /\ Head(Events) = Events[1]
          /\ DOMAIN Tail(Events) = 1 .. Len(Events) - 1
          /\ \A j \in 1 .. Len(Events) - 1 : Tail(Events)[j] = Events[j + 1]
      BY <1>1, <3>1
    <3>3. i # 1
      BY <2>4, <2>5, <2>7, <3>1, <3>2
    <3>4. i - 1 \in DOMAIN Events' /\ Events'[i - 1] = Events[i]
      <4>1. i - 1 \in 1 .. Len(Events) - 1 /\ (i - 1) + 1 = i
        BY <3>2, <3>3
      <4>2. QED
        BY <3>1, <3>2, <4>1
    <3>5. QED
      BY <2>5, <3>4 DEF Responses, is_response
  <2>8. QED
    BY <2>2, <2>6, <2>7
<1>6. CASE SlaveExecutes
  <2>1. Commands # <<>> /\ Events' = Append(Events, Response(Head(Commands))) /\ UNCHANGED state
    BY <1>6, SlaveStream DEF SlaveExecutes, gatewayVars
  <2>2. Head(Commands) \in Cmd
    BY <1>1, <2>1, HeadTailProperties
  <2>3. Response(Head(Commands)) \in Evt /\ is_response(Response(Head(Commands)))
    BY <2>2 DEF Evt, Response, Event, is_response
  <2>4. Len(Events) + 1 \in DOMAIN Events' /\ Events'[Len(Events) + 1] = Response(Head(Commands))
    BY <1>1, <2>1, <2>3, AppendProperties, LenProperties
  <2>5. Responses' # {}
    BY <2>3, <2>4 DEF Responses, is_response
  <2>6. QED
    BY <2>5 DEF WaitingHasCause
<1>7. CASE MeshChangesValue
  <2>1. Commands' = Commands /\ Events' = Append(Events, ValueChanged) /\ UNCHANGED state
    BY <1>7, ChangeStream DEF MeshChangesValue, gatewayVars
  <2>2. ValueChanged \in Evt
    BY DEF Evt
  <2>3. QED
    BY <1>2, <2>1, <2>2 DEF WaitingHasCause
<1>8. CASE RdynLow \/ UNCHANGED vars
  <2>1. UNCHANGED <<Commands, Events, state>>
    BY <1>8 DEF RdynLow, T!RdynLow, T!hostVars, vars, lineVars, gatewayVars, Commands, Events
  <2>2. QED
    BY <2>1 DEF WaitingHasCause, Responses, is_response
<1>9. QED
  BY <1>3, <1>4, <1>5, <1>6, <1>7, <1>8 DEF Next

(* The gateway waits without a timeout and does not look at the result of the
   send; yet whenever it waits, a command or a response is on its way. *)
THEOREM WaitsForSomething == Spec => []WaitingHasCause
<1>1. Init => WaitingHasCause
  BY DEF Init, WaitingHasCause
<1>2. TypeOK /\ WaitingHasCause /\ [Next]_vars => WaitingHasCause'
  BY CauseStep
<1>3. QED
  BY <1>1, <1>2, TypeCorrect, PTL DEF Spec

-----------------------------------------------------------------------------
(* One thing at a time. *)

\* What the phases speak of, beside the two streams.
phaseVars == <<pc, state, initState, newMessage, request, done>>

(* A step that changes none of it stays in its phase. *)
LEMMA SamePhase ==
    ASSUME OneAtATime, UNCHANGED <<Commands, Events, phaseVars>>
    PROVE  OneAtATime'
<1> USE DEF phaseVars, OnlyChanges, Executed
<1>1. Turn => Turn'
  BY DEF Turn
<1>2. Sent => Sent'
  BY DEF Sent
<1>3. Answered => Answered'
  BY DEF Answered
<1>4. Idle => Idle'
  BY DEF Idle
<1>5. Asked => Asked'
  BY DEF Asked
<1>6. Replied => Replied'
  BY DEF Replied
<1>7. QED
  BY <1>1, <1>2, <1>3, <1>4, <1>5, <1>6 DEF OneAtATime

(* What an append and a tail do to the places of a sequence. *)
LEMMA Places ==
    ASSUME NEW S, NEW s \in Seq(S)
    PROVE  /\ Len(s) \in Nat /\ DOMAIN s = 1 .. Len(s)
           /\ \A e \in S : /\ DOMAIN Append(s, e) = 1 .. Len(s) + 1
                           /\ \A i \in 1 .. Len(s) : Append(s, e)[i] = s[i]
                           /\ Append(s, e)[Len(s) + 1] = e
           /\ s # <<>> => /\ Len(s) > 0 /\ Head(s) = s[1]
                         /\ Len(Tail(s)) = Len(s) - 1 /\ DOMAIN Tail(s) = 1 .. Len(s) - 1
                         /\ \A i \in 1 .. Len(s) - 1 : Tail(s)[i] = s[i + 1]
  BY AppendProperties

(* A command queued where none is under way is the only one. *)
LEMMA OnlyCommand ==
    ASSUME TypeOK, NEW c \in Cmd, Commands = <<>>, T!hal_aci_tl_send(c)
    PROVE  Commands' = <<c>> /\ Events' = Events
<1>1. Len(aci_tx_q) # T!Cap
  <2>1. aci_tx_q = <<>>
    <3>1. inbox \in Seq(Cmd) /\ aci_tx_q \in Seq(Cmd) /\ inbox \o aci_tx_q = <<>>
      BY DEF TypeOK, T!TypeOK, Commands
    <3>2. QED
      BY <3>1
  <2>2. Len(<<>>) = 0 /\ T!Cap # 0
    BY EmptySeq, GatewayAssumption DEF T!Cap
  <2>3. QED
    BY <2>1, <2>2
<1>2. Append(<<>>, c) = <<c>>
  OBVIOUS
<1>3. QED
  BY <1>1, <1>2, SendStream

(* A change of a value waits until the slave is initialised, and stays behind
   what is under way. *)
LEMMA ChangeKeepsPhase ==
    ASSUME QuietInit, TypeOK, OneAtATime, MeshChangesValue
    PROVE  OneAtATime'
<1>1. /\ Commands' = Commands /\ Events' = Append(Events, ValueChanged)
      /\ UNCHANGED phaseVars /\ done = Setup
  BY ChangeStream DEF MeshChangesValue, gatewayVars, phaseVars
<1>2. ValueChanged \in Evt /\ Events \in Seq(Evt)
  BY StreamTypes DEF Evt
<1>3. /\ Len(Events) \in Nat /\ DOMAIN Events = 1 .. Len(Events)
      /\ DOMAIN Events' = 1 .. Len(Events) + 1
      /\ \A i \in 1 .. Len(Events) : Events'[i] = Events[i]
      /\ Events'[Len(Events) + 1] = ValueChanged
      /\ Len(Events') = Len(Events) + 1 /\ Events' # <<>>
  BY <1>1, <1>2, Places, AppendProperties
<1>4. initState \in 0 .. 3
  BY DEF TypeOK
<1>5. \A n \in 0 .. 3 : Executed(n) => n = 3
  <2>1. ASSUME NEW n \in 0 .. 2 PROVE InitCommands[3] \notin {InitCommands[i] : i \in 1 .. n}
    BY DEF InitCommands
  <2>2. InitCommands[3] \in done
    BY <1>1 DEF Setup
  <2>3. \A n \in 0 .. 2 : ~Executed(n)
    BY <2>1, <2>2 DEF Executed
  <2>4. QED
    BY <2>3
<1>6. OnlyChanges => OnlyChanges'
  BY <1>3 DEF OnlyChanges
<1>7. (\A n \in 0 .. 3 : Executed(n) => Executed(n)') /\ UNCHANGED <<pc, state, initState, newMessage, request>>
  BY <1>1 DEF Executed, phaseVars
<1>8. CASE Turn
  BY <1>1, <1>4, <1>5, <1>6, <1>7, <1>8 DEF Turn, OneAtATime
<1>9. CASE Sent
  <2>1. initState - 1 \in 0 .. 2 /\ Executed(initState - 1)
    BY <1>4, <1>9 DEF Sent
  <2>2. QED
    BY <1>5, <2>1
<1>10. CASE Answered
  <2>1. \A i \in 2 .. Len(Events') : Events'[i] = ValueChanged
    BY <1>3, <1>10 DEF Answered
  <2>2. initState = 3
    BY <1>4, <1>5, <1>10 DEF Answered
  <2>3. QED
    BY <1>1, <1>3, <1>7, <1>10, <2>1, <2>2 DEF Answered, OneAtATime
<1>11. CASE Idle
  BY <1>1, <1>6, <1>7, <1>11 DEF Idle, OneAtATime
<1>12. CASE Asked
  BY <1>1, <1>6, <1>7, <1>12 DEF Asked, OneAtATime
<1>13. CASE Replied
  <2>1. PICK k \in DOMAIN Events :
           /\ Events[k] = Response(request)
           /\ \A i \in DOMAIN Events \ {k} : Events[i] = ValueChanged
    BY <1>13 DEF Replied
  <2>2. k \in DOMAIN Events' /\ Events'[k] = Response(request')
    BY <1>3, <1>7, <2>1
  <2>3. \A i \in DOMAIN Events' \ {k} : Events'[i] = ValueChanged
    BY <1>3, <2>1
  <2>4. QED
    BY <1>1, <1>7, <1>13, <2>2, <2>3 DEF Replied, OneAtATime
<1>14. QED
  BY <1>8, <1>9, <1>10, <1>11, <1>12, <1>13 DEF OneAtATime

(* The slave turns the command that is under way into a response. *)
LEMMA SlaveKeepsPhase ==
    ASSUME TypeOK, OneAtATime, SlaveExecutes
    PROVE  OneAtATime'
<1>1. /\ Commands # <<>> /\ Commands' = Tail(Commands) /\ Head(Commands) = Head(inbox)
      /\ Events' = Append(Events, Response(Head(Commands)))
      /\ UNCHANGED <<pc, state, initState, newMessage, request>>
      /\ done' = done \cup ({Head(Commands)} \cap Setup)
  BY SlaveStream DEF SlaveExecutes, gatewayVars
<1>2. Events \in Seq(Evt) /\ initState \in 0 .. 3 /\ Commands \in Seq(Cmd)
  BY StreamTypes DEF TypeOK
<1>3. \A c : Tail(<<c>>) = <<>> /\ Head(<<c>>) = c
  OBVIOUS
<1>4. CASE Sent
  <2>1. initState \in 1 .. 3 /\ Head(Commands) = InitCommands[initState] /\ Commands' = <<>>
    BY <1>1, <1>2, <1>3, <1>4 DEF Sent
  <2>2. Len(Events') = 1 /\ Events' # <<>>
    BY <1>1, <1>4 DEF Sent
  <2>3. done' = {InitCommands[i] : i \in 1 .. initState}
    <3>1. done' = done \cup {InitCommands[initState]}
      BY <1>1, <2>1, InitCommand
    <3>2. \A i : i \in 1 .. initState <=> i \in 1 .. initState - 1 \/ i = initState
      BY <2>1
    <3>3. QED
      BY <1>4, <3>1, <3>2 DEF Sent, Executed
  <2>4. QED
    BY <1>1, <1>4, <2>1, <2>2, <2>3 DEF Sent, Answered, Executed, OneAtATime
<1>5. CASE Asked
  <2>1. Head(Commands) = request /\ Commands' = <<>>
    BY <1>1, <1>3, <1>5 DEF Asked
  <2>2. request \in Requests
    <3>1. request \in Cmd /\ request \in Requests \cup {"none"}
      BY <1>1, <1>2, <2>1, HeadTailProperties DEF TypeOK
    <3>2. QED
      BY <3>1 DEF Cmd, Setup, InitCommands, Requests
  <2>3. done' = done
    BY <1>1, <2>1, <2>2, InitCommand
  <2>4. Response(request) \in Evt
    BY <2>2, InitCommand DEF Evt
  <2>5. /\ DOMAIN Events' = 1 .. Len(Events) + 1 /\ DOMAIN Events = 1 .. Len(Events)
        /\ \A i \in 1 .. Len(Events) : Events'[i] = Events[i]
        /\ Events'[Len(Events) + 1] = Response(request) /\ Len(Events) \in Nat
    BY <1>1, <1>2, <2>1, <2>4, Places
  <2>6. /\ Len(Events) + 1 \in DOMAIN Events'
        /\ \A i \in DOMAIN Events' \ {Len(Events) + 1} : Events'[i] = ValueChanged
    BY <1>5, <2>5 DEF Asked, OnlyChanges
  <2>7. QED
    BY <1>1, <1>5, <2>1, <2>3, <2>5, <2>6 DEF Asked, Replied, Executed, OneAtATime
<1>6. QED
  BY <1>1, <1>4, <1>5 DEF OneAtATime, Turn, Answered, Idle, Replied

(* Taking the first of the events leaves changes only when only changes were
   behind it. *)
LEMMA TailOfChanges ==
    ASSUME Events \in Seq(Evt), Events # <<>>, Events' = Tail(Events),
           \A i \in 2 .. Len(Events) : Events[i] = ValueChanged
    PROVE  OnlyChanges'
<1>1. /\ Len(Events) \in Nat /\ DOMAIN Events' = 1 .. Len(Events) - 1
      /\ \A i \in 1 .. Len(Events) - 1 : Events'[i] = Events[i + 1]
  BY Places
<1>2. QED
  BY <1>1 DEF OnlyChanges

(* A poll passes the turn on when it brings what was under way. *)
LEMMA PollKeepsPhase ==
    ASSUME TypeOK, OneAtATime, poll
    PROVE  /\ OneAtATime'
           /\ state = "waitingForEvent" /\ state' = "ready" => lastResponse' = request'
<1>1. T!hal_aci_tl_event_get /\ pc = "poll" /\ pc' = "loop"
  BY DEF poll, rbc_mesh_evt_get
<1>2. /\ Commands' = Commands /\ ok' \in BOOLEAN
      /\ ok' => Events # <<>> /\ out' = Head(Events) /\ Events' = Tail(Events)
      /\ ~ok' => Events' = Events
  BY <1>1, GetStream
<1>3. /\ newMessage' = ok' /\ UNCHANGED <<initState, request, done>>
      /\ ~(ok' /\ is_response(out') /\ state = "waitingForEvent") => state' = state
      /\ ok' /\ is_response(out') /\ state = "waitingForEvent" =>
            state' = "ready" /\ lastResponse' = out'.cmd
  BY DEF poll, got_message, answered
<1>4. Events \in Seq(Evt) /\ initState \in 0 .. 3
  BY StreamTypes DEF TypeOK
<1>5. \A n \in 0 .. 3 : Executed(n) => Executed(n)'
  BY <1>3 DEF Executed
<1>6. /\ Len(Events) \in Nat /\ DOMAIN Events = 1 .. Len(Events)
      /\ ok' => /\ Len(Events) > 0 /\ out' = Events[1]
                /\ DOMAIN Events' = 1 .. Len(Events) - 1
                /\ \A i \in 1 .. Len(Events) - 1 : Events'[i] = Events[i + 1]
  BY <1>2, <1>4, Places
<1>7. ~is_response(ValueChanged)
  BY DEF is_response, ValueChanged, Event
<1>8. OnlyChanges => OnlyChanges'
  BY <1>2, <1>6 DEF OnlyChanges
<1>9. CASE Sent
  <2>1. ~ok' /\ state' = state
    BY <1>2, <1>3, <1>9 DEF Sent
  <2>2. Executed(initState - 1)'
    BY <1>3, <1>9 DEF Sent, Executed
  <2>3. QED
    BY <1>2, <1>3, <1>9, <2>1, <2>2 DEF Sent, OneAtATime
<1>10. CASE Answered
  <2>1. state' = state /\ state = "init"
    BY <1>3, <1>10 DEF Answered
  <2>2. CASE ok'
    <3>1. OnlyChanges'
      BY <1>2, <1>4, <1>10, <2>2, TailOfChanges DEF Answered
    <3>2. initState < 3 => Events' = <<>>
      <4>1. initState < 3 => Len(Events) = 1
        BY <1>10 DEF Answered
      <4>2. Tail(Events) \in Seq(Evt) /\ Len(Tail(Events)) = Len(Events) - 1
        BY <1>2, <1>4, <2>2, Places, HeadTailProperties
      <4>3. Len(Tail(Events)) = 0 => Tail(Events) = <<>>
        BY <4>2, EmptySeq
      <4>4. QED
        BY <1>2, <1>6, <2>2, <4>1, <4>2, <4>3
    <3>3. QED
      BY <1>1, <1>2, <1>3, <1>4, <1>5, <1>10, <2>1, <2>2, <3>1, <3>2 DEF Answered, Turn, OneAtATime
  <2>3. CASE ~ok'
    BY <1>2, <1>3, <1>4, <1>5, <1>10, <2>1, <2>3 DEF Answered, OneAtATime
  <2>4. QED
    BY <1>2, <2>1, <2>2, <2>3
<1>11. CASE Idle
  <2>1. state' = state /\ state = "ready"
    BY <1>3, <1>11 DEF Idle
  <2>2. QED
    BY <1>2, <1>5, <1>8, <1>11, <2>1 DEF Idle, OneAtATime
<1>12. CASE Asked
  <2>1. ok' => out' = ValueChanged
    BY <1>6, <1>12 DEF Asked, OnlyChanges
  <2>2. state' = state /\ state = "waitingForEvent"
    BY <1>3, <1>7, <1>12, <2>1 DEF Asked
  <2>3. QED
    BY <1>2, <1>3, <1>5, <1>8, <1>12, <2>2 DEF Asked, OneAtATime
<1>13. CASE Replied
  <2>1. PICK k \in DOMAIN Events :
           /\ Events[k] = Response(request)
           /\ \A i \in DOMAIN Events \ {k} : Events[i] = ValueChanged
    BY <1>13 DEF Replied
  <2>2. is_response(Response(request)) /\ Response(request).cmd = request
    BY DEF is_response, Response, Event
  <2>3. state = "waitingForEvent" /\ Commands = <<>> /\ Executed(3)
    BY <1>13 DEF Replied
  <2>4. CASE ok' /\ k = 1
    <3>1. state' = "ready" /\ lastResponse' = request
      BY <1>3, <1>6, <2>1, <2>2, <2>3, <2>4
    <3>2. OnlyChanges'
      <4>1. \A i \in 2 .. Len(Events) : Events[i] = ValueChanged
        BY <1>6, <2>1, <2>4
      <4>2. QED
        BY <1>2, <1>4, <2>4, <4>1, TailOfChanges
    <3>3. QED
      BY <1>2, <1>3, <1>5, <2>3, <3>1, <3>2 DEF Idle, OneAtATime
  <2>5. CASE ok' /\ k # 1
    <3>1. out' = ValueChanged
      BY <1>6, <2>1, <2>5
    <3>2. state' = state
      BY <1>3, <1>7, <3>1
    <3>3. k - 1 \in DOMAIN Events' /\ Events'[k - 1] = Response(request')
      <4>1. k - 1 \in 1 .. Len(Events) - 1 /\ (k - 1) + 1 = k
        BY <1>6, <2>5
      <4>2. QED
        BY <1>3, <1>6, <2>1, <2>5, <4>1
    <3>4. \A i \in DOMAIN Events' \ {k - 1} : Events'[i] = ValueChanged
      <4>1. TAKE i \in DOMAIN Events' \ {k - 1}
      <4>2. i \in 1 .. Len(Events) - 1 /\ i + 1 \in DOMAIN Events \ {k}
        BY <1>6, <2>5
      <4>3. QED
        BY <1>6, <2>1, <2>5, <4>2
    <3>5. QED
      BY <1>2, <1>5, <2>3, <3>2, <3>3, <3>4 DEF Replied, OneAtATime
  <2>6. CASE ~ok'
    <3>1. state' = state /\ Events' = Events
      BY <1>2, <1>3, <2>6
    <3>2. QED
      BY <1>2, <1>3, <1>5, <2>1, <2>3, <3>1 DEF Replied, OneAtATime
  <2>7. QED
    BY <1>2, <2>4, <2>5, <2>6
<1>14. QED
  BY <1>1, <1>9, <1>10, <1>11, <1>12, <1>13 DEF OneAtATime, Turn

(* The first half of loop() uses the turn. *)
LEMMA LoopKeepsPhase ==
    ASSUME TypeOK, OneAtATime, loop
    PROVE  OneAtATime'
<1>1. /\ pc = "loop" /\ pc' = "poll" /\ UNCHANGED <<newMessage, request, done>>
  BY LoopStep
<1>2. UNCHANGED lineVars => UNCHANGED <<Commands, Events>>
  BY DEF lineVars, Commands, Events
<1>3. CASE Turn
  <2>1. MyTurn /\ Commands = <<>> /\ Executed(initState) /\ OnlyChanges /\ initState \in 0 .. 3
    BY <1>3 DEF Turn, MyTurn, TypeOK
  <2>2. CASE /\ initState \in 0 .. 2 /\ T!hal_aci_tl_send(InitCommands[initState + 1])
             /\ initState' = initState + 1 /\ state' = "init"
    <3>1. InitCommands[initState + 1] \in Cmd
      BY <2>2, InitCommand
    <3>2. Commands' = <<InitCommands[initState']>> /\ Events' = <<>>
      BY <1>3, <2>1, <2>2, <3>1, OnlyCommand DEF Turn
    <3>3. initState' - 1 = initState /\ initState' > 0
      BY <2>2
    <3>4. done' = {InitCommands[i] : i \in 1 .. initState' - 1}
      BY <1>1, <2>1, <3>3 DEF Executed
    <3>5. Sent'
      BY <1>1, <2>2, <3>2, <3>3, <3>4 DEF Sent, Executed
    <3>6. QED
      BY <3>5 DEF OneAtATime
  <2>3. CASE initState = 3 /\ UNCHANGED lineVars /\ initState' = 3 /\ state' = "ready"
    BY <1>1, <1>2, <2>1, <2>3 DEF Idle, OnlyChanges, Executed, OneAtATime
  <2>4. QED
    BY <2>1, <2>2, <2>3, LoopStep
<1>4. CASE ~Turn
  <2>1. ~MyTurn
    BY <1>1, <1>4 DEF OneAtATime, Sent, Answered, Idle, Asked, Replied, MyTurn
  <2>2. UNCHANGED <<Commands, Events, initState, state>>
    BY <1>2, <2>1, LoopStep
  <2>3. QED
    BY <1>1, <1>4, <2>2
    DEF OneAtATime, Sent, Answered, Idle, Asked, Replied, OnlyChanges, Executed
<1>5. QED
  BY <1>3, <1>4

(* A request is made when nothing else is under way. *)
LEMMA RequestKeepsPhase ==
    ASSUME TypeOK, OneAtATime, set_val \/ get_val_req
    PROVE  OneAtATime'
<1>1. /\ state = "ready" /\ state' = "waitingForEvent" /\ request' \in Cmd
      /\ T!hal_aci_tl_send(request') /\ UNCHANGED done
  BY RequestStep, InitCommand
<1>2. Idle
  BY <1>1 DEF OneAtATime, Turn, Sent, Answered, Asked, Replied
<1>3. Commands' = <<request'>> /\ Events' = Events
  BY <1>1, <1>2, OnlyCommand DEF Idle
<1>4. QED
  BY <1>1, <1>2, <1>3 DEF Idle, Asked, OnlyChanges, Executed, OneAtATime

(* One thing is under way at a time. *)
LEMMA OneAtATimeAlways ==
    ASSUME QuietInit
    PROVE  Spec => []OneAtATime
<1>1. Init => OneAtATime
  <2>1. SUFFICES ASSUME Init PROVE Answered
    BY DEF OneAtATime
  <2>2. /\ inbox = <<>> /\ aci_tx_q = <<>> /\ aci_rx_q = <<>> /\ pending = <<Started>>
        /\ ~newMessage /\ state = "init" /\ initState = 0 /\ done = {}
    BY <2>1 DEF Init
  <2>3. Commands = <<>> /\ Events = <<Started>> /\ Len(<<Started>>) = 1 /\ <<Started>> # <<>>
    BY <2>2 DEF Commands, Events
  <2>4. {InitCommands[i] : i \in 1 .. 0} = {}
    OBVIOUS
  <2>5. QED
    BY <2>2, <2>3, <2>4 DEF Answered, Executed
<1>2. TypeOK /\ OneAtATime /\ [Next]_vars => OneAtATime'
  <2>1. SUFFICES ASSUME TypeOK, OneAtATime, [Next]_vars PROVE OneAtATime'
    OBVIOUS
  <2>2. CASE RdynLow \/ UNCHANGED vars
    <3>1. UNCHANGED <<Commands, Events, phaseVars>>
      BY <2>2 DEF RdynLow, T!RdynLow, T!hostVars, vars, lineVars, gatewayVars, phaseVars,
                  Commands, Events
    <3>2. QED
      BY <2>1, <3>1, SamePhase
  <2>3. QED
    BY <2>1, <2>2, RequestKeepsPhase, LoopKeepsPhase, PollKeepsPhase, SlaveKeepsPhase,
       ChangeKeepsPhase DEF Next
<1>3. QED
  BY <1>1, <1>2, TypeCorrect, PTL DEF Spec

(* When no value changes before the slave is initialised, the response that
   ends a wait is the response to the request the gateway waits for, although
   it compares neither the command nor a sequence number. *)
THEOREM ResponsesMatch ==
    ASSUME QuietInit
    PROVE  Spec => ResponseMatches
<1>1. TypeOK /\ OneAtATime /\ [Next]_vars
         => [state = "waitingForEvent" /\ state' = "ready" => lastResponse' = request]_vars
  <2>1. SUFFICES ASSUME TypeOK, OneAtATime, Next, state = "waitingForEvent", state' = "ready"
                 PROVE  lastResponse' = request
    OBVIOUS
  <2>2. CASE poll
    BY <2>1, <2>2, PollKeepsPhase DEF poll
  <2>3. CASE loop
    BY <2>1, <2>3, LoopStep DEF MyTurn
  <2>4. CASE set_val \/ get_val_req \/ RdynLow \/ SlaveExecutes \/ MeshChangesValue
    BY <2>1, <2>4, RequestStep DEF RdynLow, SlaveExecutes, MeshChangesValue, gatewayVars
  <2>5. QED
    BY <2>1, <2>2, <2>3, <2>4 DEF Next
<1>2. QED
  BY <1>1, TypeCorrect, OneAtATimeAlways, PTL DEF Spec, ResponseMatches

(* In such a mesh the comment on initConnectionSlowly is right: commands and
   responses of the initialisation alternate. *)
THEOREM QuietInitAlternates ==
    ASSUME QuietInit
    PROVE  Spec => []InitAlternates
<1>1. TypeOK /\ OneAtATime => InitAlternates
  <2>1. SUFFICES ASSUME TypeOK, OneAtATime, state = "init"
                 PROVE  Len(Commands) + Cardinality(Responses) <= 1
    BY DEF InitAlternates
  <2>2. Len(<<>>) = 0 /\ Cardinality({}) = 0 /\ \A c : Len(<<c>>) = 1
    BY EmptySeq, FS_EmptySet
  <2>3. ~is_response(ValueChanged)
    BY DEF is_response, ValueChanged, Event
  <2>4. CASE Turn
    <3>1. Responses = {}
      BY <2>3, <2>4 DEF Turn, OnlyChanges, Responses, is_response
    <3>2. QED
      BY <2>2, <2>4, <3>1 DEF Turn
  <2>5. CASE Sent
    <3>1. Responses = {}
      BY <2>5 DEF Sent, Responses
    <3>2. QED
      BY <2>2, <2>5, <3>1 DEF Sent
  <2>6. CASE Answered
    <3>1. Events \in Seq(Evt) /\ DOMAIN Events = 1 .. Len(Events) /\ Len(Events) \in Nat
      BY <2>1, StreamTypes, Places
    <3>2. Responses \subseteq {1}
      BY <2>3, <2>6, <3>1 DEF Answered, Responses, is_response
    <3>3. Cardinality(Responses) \in {0, 1}
      <4>1. Responses = {} \/ Responses = {1}
        BY <3>2
      <4>2. Cardinality({1}) = 1
        BY FS_Singleton
      <4>3. QED
        BY <2>2, <4>1, <4>2
    <3>4. QED
      BY <2>2, <2>6, <3>3 DEF Answered
  <2>7. QED
    BY <2>1, <2>4, <2>5, <2>6 DEF OneAtATime, Idle, Asked, Replied
<1>2. QED
  BY <1>1, TypeCorrect, OneAtATimeAlways, PTL
=============================================================================
