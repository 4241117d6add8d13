------------------------------- MODULE AciLink -------------------------------
(***************************************************************************)
(* What the ACI transport promises to the code above it: two reliable      *)
(* first-in first-out streams between the host and the nRF8001.  A command *)
(* that was accepted reaches the device once, in order; an event that the  *)
(* device raised is handed to the host once, in order; a command is        *)
(* refused only when the device is behind by a whole queue.  An event may  *)
(* take any time to become visible, so a get or a peek may find nothing.   *)
(***************************************************************************)
EXTENDS Integers, Sequences

CONSTANTS
    Cmd,        \* commands the host may send
    Oversize,   \* those that do not fit in an ACI packet
    Evt,        \* events the device may raise
    NoEvt,      \* an out parameter nothing was written to
    Capacity    \* commands the host side can hold

VARIABLES
    cmds,   \* accepted and not yet taken by the device, oldest first
    evts,   \* raised and not yet handed to the caller, oldest first
    ok,     \* Boolean result of the last call
    out     \* contents of the caller's out parameter

vars == <<cmds, evts, ok, out>>

Init == cmds = <<>> /\ evts = <<>> /\ ok = FALSE /\ out = NoEvt

Send(c) ==
    \/ c \notin Oversize /\ cmds' = Append(cmds, c) /\ ok' = TRUE /\ UNCHANGED <<evts, out>>
    \/ /\ c \in Oversize \/ Len(cmds) >= Capacity
       /\ ok' = FALSE
       /\ UNCHANGED <<cmds, evts, out>>

Get ==
    \/ evts # <<>> /\ out' = Head(evts) /\ evts' = Tail(evts) /\ ok' = TRUE /\ UNCHANGED cmds
    \/ ok' = FALSE /\ UNCHANGED <<cmds, evts, out>>

Peek ==
    \/ evts # <<>> /\ out' = Head(evts) /\ ok' = TRUE /\ UNCHANGED <<cmds, evts>>
    \/ ok' = FALSE /\ UNCHANGED <<cmds, evts, out>>

Take     == cmds # <<>> /\ cmds' = Tail(cmds) /\ UNCHANGED <<evts, ok, out>>
Raise(e) == evts' = Append(evts, e) /\ UNCHANGED <<cmds, ok, out>>

\* A flush drops the newest commands and the oldest events.
Flush ==
    /\ \E k \in 0 .. Len(cmds) : cmds' = SubSeq(cmds, 1, k)
    /\ \E k \in 1 .. Len(evts) + 1 : evts' = SubSeq(evts, k, Len(evts))
    /\ UNCHANGED <<ok, out>>

Restart == cmds' = <<>> /\ evts' = <<>> /\ UNCHANGED <<ok, out>>

Next ==
    \/ \E c \in Cmd : Send(c)
    \/ \E e \in Evt : Raise(e)
    \/ Get \/ Peek \/ Take \/ Flush \/ Restart

Spec == Init /\ [][Next]_vars
=============================================================================
