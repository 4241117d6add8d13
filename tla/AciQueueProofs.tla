--------------------------- MODULE AciQueueProofs ---------------------------
(***************************************************************************)
(* The circular queue of aci_queue.cpp implements the bounded first-in     *)
(* first-out queue, for every number of slots and every set of messages.   *)
(***************************************************************************)
EXTENDS AciQueue, SequenceTheorems, TLAPS

(* Every index the queue computes is below twice its size, where the modulo
   is one conditional subtraction. *)
LEMMA ModuloOnce ==
    ASSUME NEW a \in 0 .. 2 * ACI_QUEUE_SIZE - 1
    PROVE  a % ACI_QUEUE_SIZE = IF a < ACI_QUEUE_SIZE THEN a ELSE a - ACI_QUEUE_SIZE
<1>1. CASE a < ACI_QUEUE_SIZE
  BY <1>1, SizeAssumption, SMT
<1>2. CASE a >= ACI_QUEUE_SIZE
  BY <1>2, SizeAssumption, SMT
<1>3. QED
  BY <1>1, <1>2, SizeAssumption, SMT

(* The index that follows a slot is a slot: head and tail never leave the
   array (aci_queue.cpp:55, 70-74). *)
LEMMA NextIsSlot ==
    ASSUME NEW i \in Slot
    PROVE  /\ next(i) = IF i + 1 = ACI_QUEUE_SIZE THEN 0 ELSE i + 1
           /\ next(i) \in Slot
<1>1. next(i) = IF i + 1 = ACI_QUEUE_SIZE THEN 0 ELSE i + 1
  BY ModuloOnce, SizeAssumption, SMT DEF next, Slot
<1>2. QED
  BY <1>1, SizeAssumption, SMT DEF Slot

(* The state of the queue is always well formed: head and tail index slots and
   no slot holds anything but a message or a blank. *)
THEOREM TypeCorrect == Spec => []TypeOK
<1>1. Init => TypeOK
  <2>1. 0 \in Slot
    BY SizeAssumption, SMT DEF Slot
  <2>2. QED
    BY <2>1 DEF Init, TypeOK
<1>2. TypeOK /\ [Next]_vars => TypeOK'
  <2> SUFFICES ASSUME TypeOK, [Next]_vars PROVE TypeOK'
    OBVIOUS
  <2>1. CASE aci_queue_init
    BY <2>1, SizeAssumption, SMT DEF aci_queue_init, TypeOK, Slot
  <2>2. ASSUME NEW m \in Msg, aci_queue_enqueue(m) PROVE TypeOK'
    BY <2>2, NextIsSlot DEF aci_queue_enqueue, TypeOK
  <2>3. CASE aci_queue_dequeue
    BY <2>3, NextIsSlot DEF aci_queue_dequeue, TypeOK
  <2>4. CASE aci_queue_peek
    BY <2>4 DEF aci_queue_peek, TypeOK, empty
  <2>5. CASE aci_queue_is_empty
    BY <2>5 DEF aci_queue_is_empty, TypeOK, empty
  <2>6. CASE aci_queue_is_full
    BY <2>6 DEF aci_queue_is_full, TypeOK, full
  <2>7. CASE UNCHANGED vars
    BY <2>7 DEF vars, TypeOK
  <2>8. QED
    BY <2>1, <2>2, <2>3, <2>4, <2>5, <2>6, <2>7 DEF Next
<1>3. QED
  BY <1>1, <1>2, PTL DEF Spec

-----------------------------------------------------------------------------
(* The refinement. *)

(* The number of messages, without its modulo. *)
LEMMA DistanceCases ==
    ASSUME NEW h \in Slot, NEW t \in Slot
    PROVE  /\ Distance(h, t) = IF h <= t THEN t - h ELSE t - h + ACI_QUEUE_SIZE
           /\ Distance(h, t) \in 0 .. ACI_QUEUE_SIZE - 1
<1> DEFINE a == t - h + ACI_QUEUE_SIZE
<1>1. a \in 0 .. 2 * ACI_QUEUE_SIZE - 1
  BY SizeAssumption, SMT DEF Slot
<1>2. a % ACI_QUEUE_SIZE = IF a < ACI_QUEUE_SIZE THEN a ELSE a - ACI_QUEUE_SIZE
  <2> HIDE DEF a
  <2>1. QED
    BY <1>1, ModuloOnce
<1>3. QED
  BY <1>2, SizeAssumption, SMT DEF Slot, Distance

(* The slot of the i-th message, without its modulo. *)
LEMMA PlaceCases ==
    ASSUME NEW h \in Slot, NEW i \in 1 .. ACI_QUEUE_SIZE
    PROVE  /\ Place(h, i) = IF h + i - 1 < ACI_QUEUE_SIZE THEN h + i - 1
                            ELSE h + i - 1 - ACI_QUEUE_SIZE
           /\ Place(h, i) \in Slot
<1> DEFINE a == h + i - 1
<1>1. a \in 0 .. 2 * ACI_QUEUE_SIZE - 1
  BY SizeAssumption, SMT DEF Slot
<1>2. a % ACI_QUEUE_SIZE = IF a < ACI_QUEUE_SIZE THEN a ELSE a - ACI_QUEUE_SIZE
  <2> HIDE DEF a
  <2>1. QED
    BY <1>1, ModuloOnce
<1>3. QED
  BY <1>2, SizeAssumption, SMT DEF Slot, Place

(* A message never lies in the slot that tail points to, and the slot that
   tail points to is the place of the next message. *)
LEMMA TailIsFree ==
    ASSUME NEW h \in Slot, NEW t \in Slot
    PROVE  /\ \A i \in 1 .. Distance(h, t) : Place(h, i) \in Slot /\ Place(h, i) # t
           /\ Place(h, Distance(h, t) + 1) = t
<1> DEFINE d == Distance(h, t)
<1>1. /\ d = IF h <= t THEN t - h ELSE t - h + ACI_QUEUE_SIZE
      /\ d \in 0 .. ACI_QUEUE_SIZE - 1
  BY DistanceCases
<1> HIDE DEF d
<1>2. ASSUME NEW i \in 1 .. d PROVE Place(h, i) \in Slot /\ Place(h, i) # t
  <2>1. i \in 1 .. ACI_QUEUE_SIZE
    BY <1>1, SizeAssumption, SMT
  <2>2. /\ Place(h, i) = IF h + i - 1 < ACI_QUEUE_SIZE THEN h + i - 1
                         ELSE h + i - 1 - ACI_QUEUE_SIZE
        /\ Place(h, i) \in Slot
    BY <2>1, PlaceCases
  <2>3. QED
    BY <1>1, <2>1, <2>2, SizeAssumption, SMT DEF Slot
<1>3. Place(h, d + 1) = t
  <2>1. d + 1 \in 1 .. ACI_QUEUE_SIZE
    BY <1>1, SizeAssumption, SMT
  <2>2. Place(h, d + 1) = IF h + (d + 1) - 1 < ACI_QUEUE_SIZE THEN h + (d + 1) - 1
                          ELSE h + (d + 1) - 1 - ACI_QUEUE_SIZE
    BY <2>1, PlaceCases
  <2>3. QED
    BY <1>1, <2>2, SizeAssumption, SMT DEF Slot
<1>4. QED
  BY <1>2, <1>3 DEF d

(* is_empty and is_full (aci_queue.cpp:80-121) say what they should of the
   number of messages. *)
LEMMA EmptyAndFull ==
    ASSUME TypeOK
    PROVE  /\ empty <=> Distance(head, tail) = 0
           /\ full <=> Distance(head, tail) = ACI_QUEUE_SIZE - 1
<1>1. next(tail) = IF tail + 1 = ACI_QUEUE_SIZE THEN 0 ELSE tail + 1
  BY NextIsSlot DEF TypeOK
<1>2. /\ head \in Slot /\ tail \in Slot
      /\ Distance(head, tail)
            = IF head <= tail THEN tail - head ELSE tail - head + ACI_QUEUE_SIZE
  BY DistanceCases DEF TypeOK
<1>3. QED
  BY <1>1, <1>2, SizeAssumption, SMT DEF Slot, empty, full

(* The contents are a sequence as long as the number of messages. *)
LEMMA ContentsIsSeq ==
    ASSUME TypeOK
    PROVE  /\ Contents \in Seq(Msg \cup {Blank})
           /\ Len(Contents) = Distance(head, tail)
           /\ Len(Contents) \in 0 .. ACI_QUEUE_SIZE - 1
<1>1. Distance(head, tail) \in 0 .. ACI_QUEUE_SIZE - 1
  BY DistanceCases DEF TypeOK
<1>2. \A i \in 1 .. Distance(head, tail) : aci_data[Place(head, i)] \in Msg \cup {Blank}
  BY TailIsFree DEF TypeOK
<1>3. QED
  BY <1>1, <1>2, SizeAssumption DEF Contents

(* Filling the slot at tail leaves every message where it was and puts the new
   one behind them (aci_queue_enqueue). *)
LEMMA EnqueueAppends ==
    ASSUME TypeOK, TypeOK', NEW m \in Msg, ~full,
           aci_data' = [aci_data EXCEPT ![tail] = m], tail' = next(tail), head' = head
    PROVE  Contents' = Append(Contents, m)
<1> DEFINE d == Distance(head, tail)
<1>1. tail' = IF tail + 1 = ACI_QUEUE_SIZE THEN 0 ELSE tail + 1
  BY NextIsSlot DEF TypeOK
<1>2. d \in 0 .. ACI_QUEUE_SIZE - 1 /\ d # ACI_QUEUE_SIZE - 1
  BY EmptyAndFull, DistanceCases DEF TypeOK
<1>3. Distance(head, tail') = d + 1
  <2>1. /\ head \in Slot /\ tail \in Slot
        /\ d = IF head <= tail THEN tail - head ELSE tail - head + ACI_QUEUE_SIZE
        /\ Distance(head, tail')
              = IF head <= tail' THEN tail' - head ELSE tail' - head + ACI_QUEUE_SIZE
    BY DistanceCases DEF TypeOK
  <2>2. QED
    BY <1>1, <1>2, <2>1, SizeAssumption, SMT DEF Slot
<1>4. Contents' = [i \in 1 .. d + 1 |-> aci_data'[Place(head, i)]]
  BY <1>3 DEF Contents
<1>5. \A i \in 1 .. d : aci_data'[Place(head, i)] = aci_data[Place(head, i)]
  BY TailIsFree DEF TypeOK
<1>6. aci_data'[Place(head, d + 1)] = m
  BY TailIsFree DEF TypeOK
<1>7. Contents = [i \in 1 .. d |-> aci_data[Place(head, i)]]
  BY DEF Contents
<1>8. QED
  <2> HIDE DEF d
  <2>1. Append(Contents, m) = [i \in 1 .. d + 1 |-> IF i = d + 1 THEN m ELSE Contents[i]]
    BY <1>2, <1>7, ContentsIsSeq, SizeAssumption DEF d
  <2>2. QED
    BY <1>2, <1>4, <1>5, <1>6, <1>7, <2>1, SizeAssumption

(* The slot at head holds the oldest message (aci_queue_dequeue and
   aci_queue_peek read it). *)
LEMMA HeadIsOldest ==
    ASSUME TypeOK, ~empty
    PROVE  Contents # <<>> /\ Head(Contents) = aci_data[head]
<1>1. Distance(head, tail) \in 1 .. ACI_QUEUE_SIZE - 1
  BY EmptyAndFull, DistanceCases, SizeAssumption DEF TypeOK
<1>2. Place(head, 1) = head
  <2>1. head \in Slot /\ 1 \in 1 .. ACI_QUEUE_SIZE
    BY SizeAssumption DEF TypeOK
  <2>2. Place(head, 1) = IF head + 1 - 1 < ACI_QUEUE_SIZE THEN head + 1 - 1
                         ELSE head + 1 - 1 - ACI_QUEUE_SIZE
    BY <2>1, PlaceCases
  <2>3. QED
    BY <2>1, <2>2, SizeAssumption, SMT DEF Slot
<1>3. QED
  BY <1>1, <1>2, SizeAssumption, ContentsIsSeq DEF Contents

(* Moving head on removes the oldest message and nothing else
   (aci_queue_dequeue). *)
LEMMA DequeueRemoves ==
    ASSUME TypeOK, TypeOK', ~empty,
           head' = next(head), UNCHANGED <<aci_data, tail>>
    PROVE  Contents' = Tail(Contents)
<1> DEFINE d == Distance(head, tail)
<1>1. head' = IF head + 1 = ACI_QUEUE_SIZE THEN 0 ELSE head + 1
  BY NextIsSlot DEF TypeOK
<1>2. d \in 1 .. ACI_QUEUE_SIZE - 1
  BY EmptyAndFull, DistanceCases, SizeAssumption DEF TypeOK
<1>3. head \in Slot /\ tail \in Slot /\ head' \in Slot
  BY DEF TypeOK
<1>4. Distance(head', tail) = d - 1
  <2>1. /\ d = IF head <= tail THEN tail - head ELSE tail - head + ACI_QUEUE_SIZE
        /\ Distance(head', tail)
              = IF head' <= tail THEN tail - head' ELSE tail - head' + ACI_QUEUE_SIZE
    BY <1>3, DistanceCases
  <2>2. QED
    BY <1>1, <1>2, <1>3, <2>1, SizeAssumption, SMT DEF Slot
<1>5. ASSUME NEW i \in 1 .. d - 1 PROVE Place(head', i) = Place(head, i + 1)
  <2>1. i \in 1 .. ACI_QUEUE_SIZE /\ i + 1 \in 1 .. ACI_QUEUE_SIZE
    BY <1>2, SizeAssumption, SMT
  <2>2. /\ Place(head', i) = IF head' + i - 1 < ACI_QUEUE_SIZE THEN head' + i - 1
                             ELSE head' + i - 1 - ACI_QUEUE_SIZE
        /\ Place(head, i + 1)
              = IF head + (i + 1) - 1 < ACI_QUEUE_SIZE THEN head + (i + 1) - 1
                ELSE head + (i + 1) - 1 - ACI_QUEUE_SIZE
    BY <1>3, <2>1, PlaceCases
  <2>3. QED
    BY <1>1, <1>3, <2>1, <2>2, SizeAssumption, SMT DEF Slot
<1> HIDE DEF d
<1>6. Contents' = [i \in 1 .. d - 1 |-> aci_data[Place(head', i)]]
  BY <1>4 DEF Contents
<1>7. Contents = [i \in 1 .. d |-> aci_data[Place(head, i)]]
  BY DEF Contents, d
<1>8. /\ Tail(Contents) \in Seq(Msg \cup {Blank})
      /\ Len(Tail(Contents)) = d - 1
      /\ \A i \in 1 .. d - 1 : Tail(Contents)[i] = Contents[i + 1]
  BY ContentsIsSeq, HeadIsOldest, HeadTailProperties DEF d
<1>9. /\ Contents' \in Seq(Msg \cup {Blank})
      /\ Len(Contents') = d - 1
  <2>1. \A i \in 1 .. d - 1 : aci_data[Place(head', i)] \in Msg \cup {Blank}
    <3>1. \A i \in 1 .. d - 1 : Place(head', i) \in Slot
      BY <1>3, <1>4, TailIsFree
    <3>2. QED
      BY <3>1 DEF TypeOK
  <2>2. QED
    BY <1>2, <1>6, <2>1, SizeAssumption
<1>10. \A i \in 1 .. d - 1 : Contents'[i] = Tail(Contents)[i]
  BY <1>2, <1>5, <1>6, <1>7, <1>8, SizeAssumption
<1>11. QED
  BY <1>8, <1>9, <1>10, SeqEqual

(* An empty ring is the empty sequence. *)
LEMMA EmptyContents ==
    ASSUME TypeOK
    PROVE  empty <=> Contents = <<>>
<1>1. empty <=> Len(Contents) = 0
  BY EmptyAndFull, ContentsIsSeq
<1>2. QED
  BY <1>1, ContentsIsSeq, EmptySeq

(* aci_queue.cpp implements BoundedFifo: no message is lost, repeated,
   reordered or overwritten through any number of wrap-arounds, and exactly
   ACI_QUEUE_SIZE - 1 messages are accepted. *)
THEOREM Refinement == Spec => RefinesFifo
<1>1. Init => Fifo!Init
  <2> SUFFICES ASSUME Init PROVE Fifo!Init
    OBVIOUS
  <2>1. Distance(0, 0) = 0 /\ 0 \in Slot
    <3>1. 0 \in Slot
      BY SizeAssumption, SMT DEF Slot
    <3>2. QED
      BY <3>1, DistanceCases
  <2>2. Contents = <<>>
    BY <2>1 DEF Init, Contents
  <2>3. QED
    BY <2>2 DEF Init, Fifo!Init
<1>2. TypeOK /\ TypeOK' /\ [Next]_vars => [Fifo!Next]_Fifo!vars
  <2> SUFFICES ASSUME TypeOK, TypeOK', [Next]_vars PROVE [Fifo!Next]_Fifo!vars
    OBVIOUS
  <2>1. CASE aci_queue_init
    <3>1. Contents' = <<>>
      <4>1. Distance(0, 0) = 0
        BY <2>1, DistanceCases DEF aci_queue_init, TypeOK
      <4>2. QED
        BY <2>1, <4>1 DEF aci_queue_init, Contents
    <3>2. QED
      BY <2>1, <3>1 DEF aci_queue_init, Fifo!Next, Fifo!Reset
  <2>2. ASSUME NEW m \in Msg, aci_queue_enqueue(m) PROVE [Fifo!Next]_Fifo!vars
    <3>1. CASE ~full
      <4>1. Len(Contents) < ACI_QUEUE_SIZE - 1
        BY <3>1, EmptyAndFull, ContentsIsSeq, SizeAssumption
      <4>2. Contents' = Append(Contents, m) /\ ok' = TRUE /\ out' = out
        BY <2>2, <3>1, EnqueueAppends DEF aci_queue_enqueue
      <4>3. QED
        BY <4>1, <4>2 DEF Fifo!Next, Fifo!Enqueue
    <3>2. CASE full
      <4>1. Len(Contents) = ACI_QUEUE_SIZE - 1
        BY <3>2, EmptyAndFull, ContentsIsSeq
      <4>2. Contents' = Contents /\ ok' = FALSE /\ out' = out
        BY <2>2, <3>2 DEF aci_queue_enqueue, Contents
      <4>3. QED
        BY <4>1, <4>2 DEF Fifo!Next, Fifo!Enqueue
    <3>3. QED
      BY <3>1, <3>2
  <2>3. CASE aci_queue_dequeue
    <3>1. CASE ~empty
      <4>1. Contents # <<>> /\ out' = Head(Contents) /\ ok' = TRUE
        BY <2>3, <3>1, HeadIsOldest DEF aci_queue_dequeue
      <4>2. Contents' = Tail(Contents)
        BY <2>3, <3>1, DequeueRemoves DEF aci_queue_dequeue
      <4>3. QED
        BY <4>1, <4>2 DEF Fifo!Next, Fifo!Dequeue
    <3>2. CASE empty
      <4>1. Contents = <<>> /\ Contents' = Contents /\ ok' = FALSE /\ out' = out
        BY <2>3, <3>2, EmptyContents DEF aci_queue_dequeue, Contents
      <4>2. QED
        BY <4>1 DEF Fifo!Next, Fifo!Dequeue
    <3>3. QED
      BY <3>1, <3>2
  <2>4. CASE aci_queue_peek
    <3>1. Contents' = Contents
      BY <2>4 DEF aci_queue_peek, Contents
    <3>2. CASE ~empty
      BY <2>4, <3>1, <3>2, HeadIsOldest DEF aci_queue_peek, Fifo!Next, Fifo!Peek
    <3>3. CASE empty
      BY <2>4, <3>1, <3>3, EmptyContents DEF aci_queue_peek, Fifo!Next, Fifo!Peek
    <3>4. QED
      BY <3>2, <3>3
  <2>5. CASE aci_queue_is_empty
    <3>1. Contents' = Contents /\ out' = out /\ ok' = (Contents = <<>>)
      BY <2>5, EmptyContents DEF aci_queue_is_empty, Contents, empty
    <3>2. QED
      BY <3>1 DEF Fifo!Next, Fifo!IsEmpty
  <2>6. CASE aci_queue_is_full
    <3>1. Contents' = Contents /\ out' = out
      BY <2>6 DEF aci_queue_is_full, Contents
    <3>2. ok' = (Len(Contents) = ACI_QUEUE_SIZE - 1)
      BY <2>6, EmptyAndFull, ContentsIsSeq DEF aci_queue_is_full, full
    <3>3. QED
      BY <3>1, <3>2 DEF Fifo!Next, Fifo!IsFull
  <2>7. CASE UNCHANGED vars
    BY <2>7 DEF vars, Fifo!vars, Contents
  <2>8. QED
    BY <2>1, <2>2, <2>3, <2>4, <2>5, <2>6, <2>7 DEF Next
<1>3. QED
  BY <1>1, <1>2, TypeCorrect, PTL DEF Spec, RefinesFifo, Fifo!Spec
=============================================================================
