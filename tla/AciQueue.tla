------------------------------ MODULE AciQueue ------------------------------
(***************************************************************************)
(* The circular queue of aci_queue.cpp: ACI_QUEUE_SIZE slots, a head index *)
(* (next message to dequeue) and a tail index (next free slot), one slot   *)
(* always left unused so that head = tail means empty.  A message is an    *)
(* opaque value; Blank is a slot (or an out parameter) whose length byte   *)
(* is zero.  The port only polls, so every call runs to its end before the *)
(* next one starts; noInterrupts()/interrupts() protect nothing here.      *)
(***************************************************************************)
EXTENDS Integers, Sequences

CONSTANTS
    ACI_QUEUE_SIZE,     \* number of slots (4 in aci_queue.h)
    Msg,                \* ACI messages
    Blank               \* a slot of length zero

\* The indices are uint8_t, and so is the counter of aci_queue_init.
ASSUME SizeAssumption == ACI_QUEUE_SIZE \in 1..255

VARIABLES
    aci_data,   \* the slots
    head,
    tail,
    ok,         \* Boolean result of the last call
    out         \* *p_data of the last dequeue or peek

vars == <<aci_data, head, tail, ok, out>>

Slot == 0 .. ACI_QUEUE_SIZE - 1

next_unwrapped(i) == i + 1      \* next with its modulo forgotten
next(i) == (i + 1) % ACI_QUEUE_SIZE

TypeOK ==
    /\ aci_data \in [Slot -> Msg \cup {Blank}]
    /\ head \in Slot
    /\ tail \in Slot
    /\ ok \in BOOLEAN
    /\ out \in Msg \cup {Blank}

Init ==
    /\ aci_data = [i \in Slot |-> Blank]
    /\ head = 0
    /\ tail = 0
    /\ ok = FALSE
    /\ out = Blank

empty == head = tail

full_unwrapped == tail + 1 = head   \* full with its modulo forgotten
full == next(tail) = head

aci_queue_init ==
    /\ head' = 0
    /\ tail' = 0
    /\ aci_data' = [i \in Slot |-> Blank]
    /\ UNCHANGED <<ok, out>>

aci_queue_enqueue(m) ==
    \/ /\ ~full
       /\ aci_data' = [aci_data EXCEPT ![tail] = m]
       /\ tail' = next(tail)
       /\ ok' = TRUE
       /\ UNCHANGED <<head, out>>
    \/ /\ full
       /\ ok' = FALSE
       /\ UNCHANGED <<aci_data, head, tail, out>>

aci_queue_dequeue ==
    \/ /\ ~empty
       /\ out' = aci_data[head]
       /\ head' = next(head)
       /\ ok' = TRUE
       /\ UNCHANGED <<aci_data, tail>>
    \/ /\ empty
       /\ ok' = FALSE
       /\ UNCHANGED <<aci_data, head, tail, out>>

aci_queue_peek ==
    /\ ok' = ~empty
    /\ out' = IF empty THEN out ELSE aci_data[head]
    /\ UNCHANGED <<aci_data, head, tail>>

aci_queue_is_empty == ok' = empty /\ UNCHANGED <<aci_data, head, tail, out>>
aci_queue_is_full  == ok' = full /\ UNCHANGED <<aci_data, head, tail, out>>

Next ==
    \/ aci_queue_init
    \/ \E m \in Msg : aci_queue_enqueue(m)
    \/ aci_queue_dequeue
    \/ aci_queue_peek
    \/ aci_queue_is_empty
    \/ aci_queue_is_full

Spec == Init /\ [][Next]_vars

-----------------------------------------------------------------------------
(* The queue as its callers see it. *)

\* How many messages lie between the indices h and t, going round.
Distance(h, t) == (t - h + ACI_QUEUE_SIZE) % ACI_QUEUE_SIZE

\* The slot of the i-th message of a queue with head h.
Place(h, i) == (h + i - 1) % ACI_QUEUE_SIZE

Contents == [i \in 1 .. Distance(head, tail) |-> aci_data[Place(head, i)]]

Fifo == INSTANCE BoundedFifo WITH q <- Contents, Capacity <- ACI_QUEUE_SIZE - 1

(* The ring never loses, repeats, reorders or overwrites a message, through
   any number of wrap-arounds of head and tail, and accepts exactly
   ACI_QUEUE_SIZE - 1 of them: aci_queue.cpp implements BoundedFifo. *)
RefinesFifo == Fifo!Spec
=============================================================================
