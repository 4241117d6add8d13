---------------------------- MODULE BoundedFifo ----------------------------
(***************************************************************************)
(* What the ACI queue promises its callers: a first-in first-out queue of  *)
(* at most Capacity messages whose operations answer with a result and an  *)
(* out parameter and never block.                                          *)
(***************************************************************************)
EXTENDS Integers, Sequences

CONSTANTS
    Msg,        \* messages a caller may enqueue
    Blank,      \* what an out parameter holds before anything is read
    Capacity    \* how many messages the queue can hold, a natural number

VARIABLES
    q,      \* the messages, oldest first
    ok,     \* Boolean result of the last call
    out     \* contents of the caller's out parameter

vars == <<q, ok, out>>

Init == q = <<>> /\ ok = FALSE /\ out = Blank

Reset == q' = <<>> /\ UNCHANGED <<ok, out>>

Enqueue(m) ==
    \/ Len(q) < Capacity /\ q' = Append(q, m) /\ ok' = TRUE /\ UNCHANGED out
    \/ Len(q) = Capacity /\ ok' = FALSE /\ UNCHANGED <<q, out>>

Dequeue ==
    \/ q # <<>> /\ q' = Tail(q) /\ out' = Head(q) /\ ok' = TRUE
    \/ q = <<>> /\ ok' = FALSE /\ UNCHANGED <<q, out>>

Peek ==
    \/ q # <<>> /\ out' = Head(q) /\ ok' = TRUE /\ UNCHANGED q
    \/ q = <<>> /\ ok' = FALSE /\ UNCHANGED <<q, out>>

IsEmpty == ok' = (q = <<>>) /\ UNCHANGED <<q, out>>
IsFull  == ok' = (Len(q) = Capacity) /\ UNCHANGED <<q, out>>

Next ==
    \/ Reset \/ Dequeue \/ Peek \/ IsEmpty \/ IsFull
    \/ \E m \in Msg : Enqueue(m)

Spec == Init /\ [][Next]_vars
=============================================================================
