------------------------------- MODULE Nrf8001 -------------------------------
(***************************************************************************)
(* The nRF8001 and the BLE peer behind it, as src/firmware uses them       *)
(* (external): what each ACI command does to the device and which events   *)
(* may come back.  The device keeps a link to at most one peer, a set of   *)
(* pipes the peer has subscribed to, and a number of transmit credits: it  *)
(* holds at most Credits data packets and returns a credit for each one    *)
(* that it has sent over the air.                                          *)
(***************************************************************************)
EXTENDS Integers, Sequences

CONSTANTS
    NUM_SETUP,      \* number of setup messages (NB_SETUP_MESSAGES)
    Credits,        \* transmit credits announced in Device Started
    OtpSetup,       \* the setup is in OTP memory: the device starts in standby
    MaxInbox,       \* bound: commands the device holds unexecuted
    MaxPending,     \* bound: unsent events beyond which it volunteers no more
    MaxFaults       \* bound: hardware faults of the device

ASSUME DeviceAssumption ==
    /\ NUM_SETUP \in 1..255
    /\ Credits \in 1..127
    /\ OtpSetup \in BOOLEAN
    /\ MaxInbox \in Nat \ {0}
    /\ MaxPending \in Nat \ {0}
    /\ MaxFaults \in Nat

VARIABLES
    inbox,      \* commands received and not yet executed
    pending,    \* events raised and not yet sent to the host
    mode,       \* "reset", "setup", "standby", "advertising", "connected", "closing"
    loaded,     \* setup messages accepted so far
    open,       \* pipes the peer has subscribed to
    air,        \* data packets accepted and not yet acknowledged
    faults      \* hardware faults so far

deviceVars == <<inbox, pending, mode, loaded, open, air, faults>>

-----------------------------------------------------------------------------
(* Messages. *)

TxPipes == {"uart_tx", "cp_tx"}

Plain == {"connect", "device_version", "set_local_data", "change_timing",
          "disconnect", "send_data"}
Cmd == [op : Plain, n : {0}] \cup [op : {"setup"}, n : 0 .. NUM_SETUP - 1]

Command(op)     == [op |-> op, n |-> 0]
SetupMessage(n) == [op |-> "setup", n |-> n]

Status == {"success", "continue", "complete", "error"}

Simple(op)      == [op |-> op]
Started(m, hw)  == [op |-> "device_started", mode |-> m, hw_error |-> hw]
CmdRsp(c, s)    == [op |-> "cmd_rsp", cmd |-> c, status |-> s]
PipeStatus(p)   == [op |-> "pipe_status", open |-> p]
Received(what)  == [op |-> "data_received", what |-> what]
Credit(n)       == [op |-> "data_credit", credit |-> n]
PipeError(peer) == [op |-> "pipe_error", peer |-> peer]

\* What a peer may write: data, or a request to the control point.
Writes == {"uart", "cp_disconnect", "cp_timing"}

Evt ==
    {Simple(op) : op \in {"connected", "disconnected", "timing", "hw_error"}}
    \cup {Started(m, hw) : m \in {"setup", "standby"}, hw \in BOOLEAN}
    \cup {CmdRsp(c, s) : c \in Plain \cup {"setup"}, s \in Status}
    \cup {PipeStatus(p) : p \in SUBSET TxPipes}
    \cup {Received(w) : w \in Writes}
    \cup {Credit(n) : n \in 1 .. Credits}
    \cup {PipeError(peer) : peer \in BOOLEAN}

NoEvt == Simple("none")

-----------------------------------------------------------------------------

DeviceTypeOK ==
    /\ inbox \in Seq(Cmd) /\ pending \in Seq(Evt)
    /\ mode \in {"reset", "setup", "standby", "advertising", "connected", "closing"}
    /\ loaded \in 0 .. NUM_SETUP
    /\ open \subseteq TxPipes
    /\ air \in 0 .. Credits
    /\ faults \in 0 .. MaxFaults

DeviceInit ==
    /\ inbox = <<>> /\ pending = <<>>
    /\ mode = "reset"
    /\ loaded = IF OtpSetup THEN NUM_SETUP ELSE 0
    /\ open = {} /\ air = 0 /\ faults = 0

\* The device always has room to answer a command; other events wait for it.
Raise(e)     == pending' = Append(pending, e)
Volunteer(e) == Len(pending) < MaxPending /\ Raise(e)

(* Out of reset the device announces the mode it is in; it passes through
   reset again when the last setup message has been accepted. *)
Boots ==
    /\ mode = "reset"
    /\ mode' = IF loaded = NUM_SETUP THEN "standby" ELSE "setup"
    /\ Raise(Started(mode', FALSE))
    /\ UNCHANGED <<inbox, loaded, open, air, faults>>

-----------------------------------------------------------------------------
(* Execution of the oldest command received. *)

Executes(op) ==
    /\ mode # "reset"
    /\ inbox # <<>> /\ Head(inbox).op = op
    /\ inbox' = Tail(inbox)
    /\ UNCHANGED faults

Reply(s) == Raise(CmdRsp(Head(inbox).op, s))

ExecSetup ==
    /\ Executes("setup")
    /\ \/ /\ mode = "setup" /\ Head(inbox).n = loaded
          /\ loaded' = loaded + 1
          /\ Reply(IF loaded' = NUM_SETUP THEN "complete" ELSE "continue")
          /\ mode' = IF loaded' = NUM_SETUP THEN "reset" ELSE "setup"
       \/ /\ ~(mode = "setup" /\ Head(inbox).n = loaded)
          /\ Reply("error")
          /\ UNCHANGED <<loaded, mode>>
    /\ UNCHANGED <<open, air>>

ExecConnect ==
    /\ Executes("connect")
    /\ \/ mode = "standby" /\ mode' = "advertising" /\ Reply("success")
       \/ mode # "standby" /\ Reply("error") /\ UNCHANGED mode
    /\ UNCHANGED <<loaded, open, air>>

ExecDisconnect ==
    /\ Executes("disconnect")
    /\ \/ /\ mode = "connected"
          /\ mode' = "closing" /\ open' = {} /\ air' = 0
          /\ Reply("success")
       \/ mode # "connected" /\ Reply("error") /\ UNCHANGED <<mode, open, air>>
    /\ UNCHANGED loaded

ExecQuery ==
    /\ \E op \in {"device_version", "set_local_data", "change_timing"} : Executes(op)
    /\ Reply(IF mode = "setup" THEN "error" ELSE "success")
    /\ UNCHANGED <<mode, loaded, open, air>>

\* Data has no command response: it comes back as a credit or a pipe error.
ExecSendData ==
    /\ Executes("send_data")
    /\ \/ /\ mode = "connected" /\ "uart_tx" \in open /\ air < Credits
          /\ air' = air + 1
          /\ UNCHANGED pending
       \/ /\ ~(mode = "connected" /\ "uart_tx" \in open /\ air < Credits)
          /\ Raise(PipeError(FALSE))
          /\ UNCHANGED air
    /\ UNCHANGED <<mode, loaded, open>>

Executed == ExecSetup \/ ExecConnect \/ ExecDisconnect \/ ExecQuery \/ ExecSendData

-----------------------------------------------------------------------------
(* The peer and the radio. *)

PeerConnects ==
    /\ mode = "advertising"
    /\ mode' = "connected"
    /\ Volunteer(Simple("connected"))
    /\ UNCHANGED <<inbox, loaded, open, air, faults>>

\* The peer subscribes to a pipe or drops its subscription.
PeerSubscribes ==
    /\ mode = "connected"
    /\ \E p \in TxPipes :
          open' = IF p \in open THEN open \ {p} ELSE open \cup {p}
    /\ Volunteer(PipeStatus(open'))
    /\ UNCHANGED <<inbox, mode, loaded, air, faults>>

PeerWrites ==
    /\ mode = "connected"
    /\ \E w \in Writes : Volunteer(Received(w))
    /\ UNCHANGED <<inbox, mode, loaded, open, air, faults>>

\* Packets reach the peer; their credits go back to the host together.
PeerAcks ==
    /\ mode = "connected"
    /\ \E n \in 1 .. air : air' = air - n /\ Volunteer(Credit(n))
    /\ UNCHANGED <<inbox, mode, loaded, open, faults>>

\* An attribute error of the peer, or new connection parameters.
PeerReports ==
    /\ mode = "connected"
    /\ \E e \in {PipeError(TRUE), Simple("timing")} : Volunteer(e)
    /\ UNCHANGED <<inbox, mode, loaded, open, air, faults>>

LinkDrops ==
    /\ mode \in {"connected", "closing"}
    /\ mode' = "standby" /\ open' = {} /\ air' = 0
    /\ Volunteer(Simple("disconnected"))
    /\ UNCHANGED <<inbox, loaded, faults>>

\* The firmware of the device fails and restarts it: what it held is gone.
HwFault ==
    /\ faults < MaxFaults /\ mode \notin {"reset", "setup"}
    /\ faults' = faults + 1
    /\ inbox' = <<>>
    /\ pending' = <<Started("standby", TRUE), Simple("hw_error")>>
    /\ mode' = "standby" /\ open' = {} /\ air' = 0
    /\ UNCHANGED loaded

PeerNext == PeerConnects \/ PeerSubscribes \/ PeerWrites \/ PeerAcks \/ PeerReports \/ LinkDrops

DeviceNext == Boots \/ Executed \/ PeerNext
=============================================================================
