---------------------------- MODULE AciTransport ----------------------------
(***************************************************************************)
(* The ACI transport of hal_aci_tl.cpp: a command queue and an event queue *)
(* on the host, the REQN line it drives, and the RDYN line it polls.  The  *)
(* host owns no thread and no interrupt: bytes move only inside            *)
(* hal_aci_tl_event_get and hal_aci_tl_event_peek, which sample RDYN once  *)
(* and run at most one full-duplex SPI transfer.  So each call is a step.  *)
(*                                                                         *)
(* The queues are the sequences that AciQueue is proved to implement; a    *)
(* command or an event is one value, SpiTransfer models its bytes.  The    *)
(* nRF8001 is external: it lowers RDYN when the host asks or when it has   *)
(* an event, takes the commands it was sent, and raises events.            *)
(***************************************************************************)
EXTENDS Integers, Sequences

CONSTANTS
    ACI_QUEUE_SIZE,     \* slots of each queue
    Cmd, Oversize,      \* commands, and those longer than HAL_ACI_MAX_LENGTH
    Evt, NoEvt,         \* events, and "nothing written yet"
    MaxInbox,           \* bound: commands the device holds unprocessed
    MaxPending          \* bound: events the device holds unsent

ASSUME TransportAssumption ==
    /\ ACI_QUEUE_SIZE \in 2..255
    /\ MaxInbox \in Nat \ {0}
    /\ MaxPending \in Nat \ {0}
    /\ Oversize \subseteq Cmd

VARIABLES
    aci_tx_q,   \* commands waiting on the host
    aci_rx_q,   \* events waiting on the host
    reqn,       \* level of the REQN line, driven by the host
    rdyn,       \* level of the RDYN line, driven by the device
    hung,       \* the host spins in the while(1) of m_aci_event_check
    ok, out,    \* result and out parameter of the last call
    inbox,      \* commands the device received and has not taken
    pending     \* events the device raised and has not sent

hostVars == <<aci_tx_q, aci_rx_q, reqn, hung, ok, out>>
vars == <<hostVars, rdyn, inbox, pending>>

LOW  == 0
HIGH == 1
Cap  == ACI_QUEUE_SIZE - 1

TypeOK ==
    /\ aci_tx_q \in Seq(Cmd) /\ Len(aci_tx_q) <= Cap
    /\ aci_rx_q \in Seq(Evt) /\ Len(aci_rx_q) <= Cap
    /\ reqn \in {LOW, HIGH} /\ rdyn \in {LOW, HIGH}
    /\ hung \in BOOLEAN /\ ok \in BOOLEAN
    /\ out \in Evt \cup {NoEvt}
    /\ inbox \in Seq(Cmd) /\ pending \in Seq(Evt)

Init ==
    /\ aci_tx_q = <<>> /\ aci_rx_q = <<>>
    /\ reqn = HIGH /\ rdyn = HIGH
    /\ hung = FALSE /\ ok = FALSE /\ out = NoEvt
    /\ inbox = <<>> /\ pending = <<>>

-----------------------------------------------------------------------------
(* m_aci_event_check, as the state it leaves behind. *)

FirstOf(s) == IF s = <<>> THEN <<>> ELSE <<Head(s)>>
RestOf(s)  == IF s = <<>> THEN <<>> ELSE Tail(s)

rx_full == Len(aci_rx_q) = Cap
tx_full_late == Len(aci_tx_q) = ACI_QUEUE_SIZE      \* tx_full off by one
tx_full == Len(aci_tx_q) = Cap

transfers_unguarded == rdyn = LOW       \* the early return on a full queue forgotten
\* The check runs an SPI transfer: there is room for an event and RDYN is low.
transfers == ~rx_full /\ rdyn = LOW

tx_after_kept == aci_tx_q   \* the command is copied and stays in the queue
\* The transfer takes the oldest command out of the queue, if there is one...
tx_after    == IF transfers THEN RestOf(aci_tx_q) ELSE aci_tx_q
inbox_after == IF transfers THEN inbox \o FirstOf(aci_tx_q) ELSE inbox

\* ... and brings in the event the device had ready, if any: stored when it fits.
rx_after ==
    IF transfers /\ ~rx_full THEN aci_rx_q \o FirstOf(pending) ELSE aci_rx_q
pending_after == IF transfers THEN RestOf(pending) ELSE pending

\* When it does not fit the host spins for ever, "Should never happen": with
\* the test for room ahead of the transfer no state satisfies this.
spins == transfers /\ rx_full /\ pending # <<>>

reqn_after_once ==      \* no new request at the end of a transfer
    IF transfers THEN HIGH ELSE reqn

\* A transfer ends with REQN high; then REQN is lowered again if commands
\* remain and the event queue, before the new event is stored, has room.
\* Without a transfer REQN is lowered when RDYN is high and commands wait.
reqn_after ==
    IF transfers THEN IF ~rx_full /\ tx_after # <<>> THEN LOW ELSE HIGH
    ELSE IF ~rx_full /\ aci_tx_q # <<>> THEN LOW ELSE reqn

\* RDYN follows REQN up at the end of a transfer.
rdyn_after == IF transfers THEN HIGH ELSE rdyn

m_aci_event_check ==
    /\ hung' = spins
    /\ aci_tx_q' = tx_after
    /\ inbox' = inbox_after
    /\ pending' = pending_after
    /\ rdyn' = rdyn_after

-----------------------------------------------------------------------------
(* Calls of the host. *)

hal_aci_tl_send(c) ==
    /\ ~hung
    /\ \/ /\ c \notin Oversize /\ ~tx_full
          /\ aci_tx_q' = Append(aci_tx_q, c)
          /\ reqn' = IF rx_full THEN reqn ELSE LOW
          /\ ok' = TRUE
       \/ /\ c \in Oversize \/ tx_full
          /\ ok' = FALSE
          /\ UNCHANGED <<aci_tx_q, reqn>>
    /\ UNCHANGED <<aci_rx_q, hung, out, rdyn, inbox, pending>>

hal_aci_tl_event_peek ==
    /\ ~hung
    /\ m_aci_event_check
    /\ aci_rx_q' = rx_after
    /\ reqn' = reqn_after
    /\ ok' = (rx_after # <<>>)
    /\ out' = IF rx_after = <<>> THEN out ELSE Head(rx_after)

get_reqn_left_alone == reqn_after   \* "made room" is not signalled
\* REQN after a get: lowered when the get made room and commands wait.
get_reqn ==
    IF rx_after # <<>> /\ tx_after # <<>> THEN LOW ELSE reqn_after

event_get_keeping ==    \* a get that leaves the event in the queue
    /\ hal_aci_tl_event_peek

\* The get checks for an event first, unless the queue is already full;
\* m_aci_event_check does nothing then anyway.
hal_aci_tl_event_get ==
    /\ ~hung
    /\ m_aci_event_check
    /\ aci_rx_q' = RestOf(rx_after)
    /\ reqn' = get_reqn
    /\ ok' = (rx_after # <<>>)
    /\ out' = IF rx_after = <<>> THEN out ELSE Head(rx_after)

\* The queues are emptied; the lines are left as they are.
hal_aci_tl_q_flush ==
    /\ ~hung
    /\ aci_tx_q' = <<>>
    /\ aci_rx_q' = <<>>
    /\ UNCHANGED <<reqn, hung, ok, out, rdyn, inbox, pending>>

\* Also resets the device, through its RESET pin.
hal_aci_tl_init ==
    /\ ~hung
    /\ aci_tx_q' = <<>> /\ aci_rx_q' = <<>>
    /\ reqn' = HIGH /\ rdyn' = HIGH
    /\ inbox' = <<>> /\ pending' = <<>>
    /\ UNCHANGED <<hung, ok, out>>

-----------------------------------------------------------------------------
(* The nRF8001 (external). *)

\* RDYN goes low when the host asks for a transfer or an event is waiting.
RdynLow ==
    /\ rdyn = HIGH
    /\ reqn = LOW \/ pending # <<>>
    /\ Len(inbox) < MaxInbox
    /\ rdyn' = LOW
    /\ UNCHANGED <<hostVars, inbox, pending>>

DeviceTakes ==
    /\ inbox # <<>>
    /\ inbox' = Tail(inbox)
    /\ UNCHANGED <<hostVars, rdyn, pending>>

DeviceRaises(e) ==
    /\ Len(pending) < MaxPending
    /\ pending' = Append(pending, e)
    /\ UNCHANGED <<hostVars, rdyn, inbox>>

Next ==
    \/ \E c \in Cmd : hal_aci_tl_send(c)
    \/ hal_aci_tl_event_peek
    \/ hal_aci_tl_event_get
    \/ hal_aci_tl_q_flush
    \/ hal_aci_tl_init
    \/ RdynLow
    \/ DeviceTakes
    \/ \E e \in Evt : DeviceRaises(e)

Spec == Init /\ [][Next]_vars

\* aci_loop polls for events for ever; the device keeps answering.
FairSpec == Spec /\ WF_vars(hal_aci_tl_event_get) /\ WF_vars(RdynLow) /\ WF_vars(DeviceTakes)
-----------------------------------------------------------------------------
(* Properties. *)

(* No command is forgotten in the queue: as long as a command waits and there
   is room for an event, REQN asks the device for a transfer.  REQN is not
   lowered when a command is queued behind a full event queue, so the get
   that makes room has to do it. *)
NoLostWakeup ==
    aci_tx_q # <<>> /\ ~rx_full => reqn = LOW

Link == INSTANCE AciLink WITH
    cmds <- inbox \o aci_tx_q, evts <- aci_rx_q \o pending, Capacity <- Cap

(* The two queues, the lines and the full-duplex transfers amount to the two
   reliable streams of AciLink: nothing is lost, repeated or reordered in
   either direction, and a send fails only when the queue is full. *)
RefinesLink == Link!Spec

(* Traffic never stalls.  Commands keep leaving the host for as long as any
   are queued... *)
CommandsMove ==
    []<>(aci_tx_q = <<>>) \/ []<><<Len(inbox') > Len(inbox)>>_vars

(* ... and events keep arriving for as long as the device has any, even when
   the application fills the command queue and peeks at will. *)
EventsMove ==
    []<>(pending = <<>>) \/ []<><<Len(pending') < Len(pending)>>_vars
=============================================================================
