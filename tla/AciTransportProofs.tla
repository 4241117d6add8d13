------------------------- MODULE AciTransportProofs -------------------------
(***************************************************************************)
(* The ACI transport of hal_aci_tl.cpp, for queues of any size and any     *)
(* commands and events: its invariants, and the proof that it implements   *)
(* the two reliable streams of AciLink.                                    *)
(***************************************************************************)
EXTENDS AciTransport, SequenceTheorems, TLAPS

(* The queues hold at least one message. *)
LEMMA CapIsPositive == Cap \in Nat /\ Cap > 0
  BY TransportAssumption DEF Cap

(* An empty queue is well formed. *)
LEMMA EmptyFits ==
    <<>> \in Seq(Cmd) /\ <<>> \in Seq(Evt) /\ Len(<<>>) <= Cap
<1>1. \A S : <<>> \in Seq(S) /\ Len(<<>>) = 0
  BY EmptySeq
<1>2. 0 <= Cap
  BY CapIsPositive
<1>3. QED
  BY <1>1, <1>2

(* What FirstOf and RestOf return. *)
LEMMA FirstAndRest ==
    ASSUME NEW S, NEW s \in Seq(S)
    PROVE  /\ FirstOf(s) \in Seq(S) /\ RestOf(s) \in Seq(S)
           /\ Len(FirstOf(s)) = IF s = <<>> THEN 0 ELSE 1
           /\ Len(RestOf(s)) = IF s = <<>> THEN 0 ELSE Len(s) - 1
           /\ FirstOf(s) \o RestOf(s) = s
<1>1. CASE s = <<>>
  BY <1>1 DEF FirstOf, RestOf
<1>2. CASE s # <<>>
  <2>1. /\ Head(s) \in S /\ Tail(s) \in Seq(S) /\ Len(Tail(s)) = Len(s) - 1
        /\ \A i \in 1 .. Len(Tail(s)) : Tail(s)[i] = s[i + 1]
    BY <1>2, HeadTailProperties
  <2>2. <<Head(s)>> \o Tail(s) = s
    BY <1>2, <2>1
  <2>3. QED
    BY <1>2, <2>1, <2>2 DEF FirstOf, RestOf
<1>3. QED
  BY <1>1, <1>2

(* Handing the first element of a sequence to the end of another keeps the two
   in a row the same: what a transfer does to each stream. *)
LEMMA HandOver ==
    ASSUME NEW S, NEW s \in Seq(S), NEW t \in Seq(S)
    PROVE  (s \o FirstOf(t)) \o RestOf(t) = s \o t
<1>1. (s \o FirstOf(t)) \o RestOf(t) = s \o (FirstOf(t) \o RestOf(t))
  BY FirstAndRest, ConcatAssociative
<1>2. QED
  BY <1>1, FirstAndRest

(* Head and tail of two sequences in a row, the first not empty. *)
LEMMA HeadTailConcat ==
    ASSUME NEW S, NEW s \in Seq(S), NEW t \in Seq(S), s # <<>>
    PROVE  /\ s \o t # <<>>
           /\ Head(s \o t) = Head(s)
           /\ Tail(s \o t) = Tail(s) \o t
<1>1. Len(s) \in Nat \ {0} /\ Len(t) \in Nat
  BY EmptySeq, LenProperties
<1>2. /\ s \o t \in Seq(S) /\ Len(s \o t) = Len(s) + Len(t)
      /\ \A i \in 1 .. Len(s) + Len(t) :
            (s \o t)[i] = IF i <= Len(s) THEN s[i] ELSE t[i - Len(s)]
  BY ConcatProperties
<1>3. s \o t # <<>>
  BY <1>1, <1>2, EmptySeq
<1>4. Head(s \o t) = Head(s)
  BY <1>1, <1>2, <1>3
<1>5. /\ Tail(s) \in Seq(S) /\ Len(Tail(s)) = Len(s) - 1
      /\ \A i \in 1 .. Len(Tail(s)) : Tail(s)[i] = s[i + 1]
      /\ Tail(s \o t) \in Seq(S) /\ Len(Tail(s \o t)) = Len(s \o t) - 1
      /\ \A i \in 1 .. Len(Tail(s \o t)) : Tail(s \o t)[i] = (s \o t)[i + 1]
  BY <1>2, <1>3, HeadTailProperties
<1>6. /\ Tail(s) \o t \in Seq(S) /\ Len(Tail(s) \o t) = Len(s) - 1 + Len(t)
      /\ \A i \in 1 .. Len(s) - 1 + Len(t) :
            (Tail(s) \o t)[i] = IF i <= Len(s) - 1 THEN Tail(s)[i] ELSE t[i - (Len(s) - 1)]
  BY <1>5, ConcatProperties
<1>7. \A i \in 1 .. Len(Tail(s \o t)) : Tail(s \o t)[i] = (Tail(s) \o t)[i]
  BY <1>1, <1>2, <1>5, <1>6, SMT
<1>8. Tail(s \o t) = Tail(s) \o t
  BY <1>1, <1>2, <1>5, <1>6, <1>7, SeqEqual
<1>9. QED
  BY <1>3, <1>4, <1>8

-----------------------------------------------------------------------------
(* Type correctness. *)

\* Everything a check for events leaves behind is well formed.
LEMMA CheckKeepsTypes ==
    ASSUME TypeOK
    PROVE  /\ tx_after \in Seq(Cmd) /\ Len(tx_after) <= Cap
           /\ rx_after \in Seq(Evt) /\ Len(rx_after) <= Cap
           /\ inbox_after \in Seq(Cmd) /\ pending_after \in Seq(Evt)
           /\ reqn_after \in {LOW, HIGH} /\ rdyn_after \in {LOW, HIGH}
<1>1. Len(aci_tx_q) \in Nat /\ Len(aci_rx_q) \in Nat
  BY LenProperties DEF TypeOK
<1>2. tx_after \in Seq(Cmd) /\ Len(tx_after) <= Cap
  <2>1. RestOf(aci_tx_q) \in Seq(Cmd) /\ Len(RestOf(aci_tx_q)) <= Cap
    <3>1. /\ RestOf(aci_tx_q) \in Seq(Cmd)
          /\ Len(RestOf(aci_tx_q)) = IF aci_tx_q = <<>> THEN 0 ELSE Len(aci_tx_q) - 1
      BY FirstAndRest DEF TypeOK
    <3>2. Len(aci_tx_q) <= Cap
      BY DEF TypeOK
    <3>3. QED
      BY <1>1, <3>1, <3>2, CapIsPositive
  <2>2. QED
    BY <2>1 DEF tx_after, TypeOK
<1>3. rx_after \in Seq(Evt) /\ Len(rx_after) <= Cap
  <2>1. FirstOf(pending) \in Seq(Evt) /\ Len(FirstOf(pending)) \in {0, 1}
    BY FirstAndRest DEF TypeOK
  <2>2. /\ aci_rx_q \o FirstOf(pending) \in Seq(Evt)
        /\ Len(aci_rx_q \o FirstOf(pending)) = Len(aci_rx_q) + Len(FirstOf(pending))
    BY <2>1, ConcatProperties DEF TypeOK
  <2>3. ~rx_full => Len(aci_rx_q) + Len(FirstOf(pending)) <= Cap
    <3>1. Len(aci_rx_q) <= Cap
      BY DEF TypeOK
    <3>2. QED
      <4> DEFINE n == Len(aci_rx_q)
                 k == Len(FirstOf(pending))
      <4>1. n \in Nat /\ n <= Cap /\ k \in {0, 1} /\ Cap \in Nat
        BY <1>1, <2>1, <3>1, CapIsPositive
      <4> HIDE DEF n, k
      <4>2. n # Cap => n + k <= Cap
        BY <4>1
      <4>3. QED
        BY <4>2 DEF rx_full, n, k
  <2>4. QED
    BY <2>2, <2>3 DEF rx_after, TypeOK
<1>4. inbox_after \in Seq(Cmd)
  BY FirstAndRest, ConcatProperties DEF inbox_after, TypeOK
<1>5. pending_after \in Seq(Evt)
  BY FirstAndRest DEF pending_after, TypeOK
<1>6. reqn_after \in {LOW, HIGH} /\ rdyn_after \in {LOW, HIGH}
  BY DEF reqn_after, rdyn_after, TypeOK
<1>7. QED
  BY <1>2, <1>3, <1>4, <1>5, <1>6

(* Every step of the transport keeps the types, and the queues within their
   capacity. *)
LEMMA StepKeepsTypes ==
    ASSUME TypeOK, [Next]_vars
    PROVE  TypeOK'
<1>1. ASSUME NEW c \in Cmd, hal_aci_tl_send(c) PROVE TypeOK'
  <2>1. CASE ok' = TRUE /\ ~tx_full
    <3>1. /\ aci_tx_q' = Append(aci_tx_q, c)
          /\ reqn' \in {reqn, LOW}
          /\ UNCHANGED <<aci_rx_q, hung, out, rdyn, inbox, pending>>
      BY <1>1, <2>1 DEF hal_aci_tl_send
    <3>2. Append(aci_tx_q, c) \in Seq(Cmd) /\ Len(Append(aci_tx_q, c)) <= Cap
      <4>1. /\ aci_tx_q \in Seq(Cmd) /\ Len(aci_tx_q) \in Nat
            /\ Len(aci_tx_q) <= Cap /\ Len(aci_tx_q) # Cap
        BY <2>1, LenProperties DEF TypeOK, tx_full
      <4>2. QED
        BY <4>1, CapIsPositive
    <3>3. QED
      BY <2>1, <3>1, <3>2 DEF TypeOK
  <2>2. CASE ~(ok' = TRUE /\ ~tx_full)
    BY <1>1, <2>2 DEF hal_aci_tl_send, TypeOK
  <2>3. QED
    BY <2>1, <2>2
<1>2. ASSUME m_aci_event_check, aci_rx_q' \in {rx_after, RestOf(rx_after)},
             reqn' \in {LOW, reqn_after}, ok' \in BOOLEAN,
             out' = IF rx_after = <<>> THEN out ELSE Head(rx_after)
      PROVE  TypeOK'
  <2>1. aci_rx_q' \in Seq(Evt) /\ Len(aci_rx_q') <= Cap
    <3>1. /\ rx_after \in Seq(Evt) /\ Len(rx_after) <= Cap /\ Len(rx_after) \in Nat
          /\ RestOf(rx_after) \in Seq(Evt)
          /\ Len(RestOf(rx_after)) = IF rx_after = <<>> THEN 0 ELSE Len(rx_after) - 1
      BY CheckKeepsTypes, FirstAndRest, LenProperties
    <3>2. QED
      BY <1>2, <3>1, CapIsPositive
  <2>2. out' \in Evt \cup {NoEvt}
    BY <1>2, CheckKeepsTypes, HeadTailProperties DEF TypeOK
  <2>3. hung' \in BOOLEAN
    BY <1>2 DEF m_aci_event_check, spins
  <2>4. QED
    BY <1>2, <2>1, <2>2, <2>3, CheckKeepsTypes DEF m_aci_event_check, TypeOK
<1>3. CASE hal_aci_tl_event_peek
  BY <1>2, <1>3 DEF hal_aci_tl_event_peek
<1>4. CASE hal_aci_tl_event_get
  BY <1>2, <1>4 DEF hal_aci_tl_event_get, get_reqn
<1>5. CASE hal_aci_tl_q_flush \/ hal_aci_tl_init
  BY <1>5, EmptyFits DEF hal_aci_tl_q_flush, hal_aci_tl_init, TypeOK
<1>6. CASE RdynLow
  BY <1>6 DEF RdynLow, hostVars, TypeOK
<1>7. CASE DeviceTakes
  BY <1>7, HeadTailProperties DEF DeviceTakes, hostVars, TypeOK
<1>8. ASSUME NEW e \in Evt, DeviceRaises(e) PROVE TypeOK'
  BY <1>8 DEF DeviceRaises, hostVars, TypeOK
<1>9. CASE UNCHANGED vars
  BY <1>9 DEF vars, hostVars, TypeOK
<1>10. QED
  BY <1>1, <1>3, <1>4, <1>5, <1>6, <1>7, <1>8, <1>9 DEF Next

(* The queues of the transport never hold more than ACI_QUEUE_SIZE - 1
   messages, and every variable keeps its type. *)
THEOREM TypeCorrect == Spec => []TypeOK
<1>1. Init => TypeOK
  BY EmptyFits DEF Init, TypeOK
<1>2. TypeOK /\ [Next]_vars => TypeOK'
  BY StepKeepsTypes
<1>3. QED
  BY <1>1, <1>2, PTL DEF Spec

-----------------------------------------------------------------------------
(* The safety invariants. *)

(* Whenever commands wait after a get, it leaves REQN low: either it found an
   event and made room for another one (hal_aci_tl.cpp:238-242), or the queue
   was empty and the check before it had no reason to leave REQN high. *)
LEMMA GetSignalsRoom ==
    ASSUME TypeOK, tx_after # <<>>
    PROVE  get_reqn = LOW
<1>1. CASE rx_after # <<>>
  BY <1>1 DEF get_reqn
<1>2. CASE rx_after = <<>>
  <2>1. Len(rx_after) # Cap
    BY <1>2, CapIsPositive, EmptySeq
  <2>2. ~rx_full
    BY <2>1 DEF rx_full, rx_after
  <2>3. QED
    BY <2>2 DEF get_reqn, reqn_after, tx_after
<1>3. QED
  BY <1>1, <1>2

(* Every step of the transport keeps the request for waiting commands up. *)
LEMMA StepKeepsWakeup ==
    ASSUME TypeOK, NoLostWakeup, [Next]_vars
    PROVE  NoLostWakeup'
<1>1. ASSUME NEW c \in Cmd, hal_aci_tl_send(c) PROVE NoLostWakeup'
  BY <1>1 DEF hal_aci_tl_send, NoLostWakeup, rx_full
<1>2. CASE hal_aci_tl_event_peek
  <2>1. CASE transfers
    BY <1>2, <2>1 DEF hal_aci_tl_event_peek, m_aci_event_check, NoLostWakeup,
                      reqn_after, transfers
  <2>2. CASE ~transfers
    <3>1. aci_tx_q' = aci_tx_q /\ aci_rx_q' = aci_rx_q
      BY <1>2, <2>2 DEF hal_aci_tl_event_peek, m_aci_event_check, tx_after, rx_after
    <3>2. QED
      BY <1>2, <2>2, <3>1 DEF hal_aci_tl_event_peek, NoLostWakeup, reqn_after, rx_full
  <2>3. QED
    BY <2>1, <2>2
<1>3. CASE hal_aci_tl_event_get
  BY <1>3, GetSignalsRoom DEF hal_aci_tl_event_get, m_aci_event_check, NoLostWakeup
<1>4. CASE hal_aci_tl_q_flush \/ hal_aci_tl_init
  BY <1>4 DEF hal_aci_tl_q_flush, hal_aci_tl_init, NoLostWakeup
<1>5. CASE RdynLow \/ DeviceTakes \/ (\E e \in Evt : DeviceRaises(e)) \/ UNCHANGED vars
  BY <1>5 DEF RdynLow, DeviceTakes, DeviceRaises, vars, hostVars, NoLostWakeup, rx_full
<1>6. QED
  BY <1>1, <1>2, <1>3, <1>4, <1>5 DEF Next

(* As long as a command waits on the host and an event would find room, REQN
   asks the device for a transfer: no command is forgotten in the queue. *)
THEOREM WakeupNeverLost == Spec => []NoLostWakeup
<1>1. Init => NoLostWakeup
  BY DEF Init, NoLostWakeup
<1>2. TypeOK /\ NoLostWakeup /\ [Next]_vars => NoLostWakeup'
  BY StepKeepsWakeup
<1>3. QED
  BY <1>1, <1>2, TypeCorrect, PTL DEF Spec

-----------------------------------------------------------------------------
(* The refinement. *)

(* A check for events changes neither stream: the command and the event that
   the transfer exchanges only move from one end of the link to the other. *)
LEMMA CheckKeepsStreams ==
    ASSUME TypeOK
    PROVE  /\ inbox_after \o tx_after = inbox \o aci_tx_q
           /\ rx_after \o pending_after = aci_rx_q \o pending
<1>1. CASE transfers
  <2>1. rx_after = aci_rx_q \o FirstOf(pending)
    BY <1>1 DEF rx_after, transfers
  <2>2. QED
    BY <1>1, <2>1, HandOver DEF inbox_after, tx_after, pending_after, TypeOK
<1>2. CASE ~transfers
  BY <1>2 DEF inbox_after, tx_after, rx_after, pending_after
<1>3. QED
  BY <1>1, <1>2

(* The event at the head of the host's queue after a check is the oldest one
   that was not handed to the caller. *)
LEMMA OldestEvent ==
    ASSUME TypeOK, rx_after # <<>>
    PROVE  /\ aci_rx_q \o pending # <<>>
           /\ Head(aci_rx_q \o pending) = Head(rx_after)
           /\ Tail(aci_rx_q \o pending) = Tail(rx_after) \o pending_after
<1>1. rx_after \in Seq(Evt) /\ pending_after \in Seq(Evt)
  BY CheckKeepsTypes
<1>2. /\ rx_after \o pending_after # <<>>
      /\ Head(rx_after \o pending_after) = Head(rx_after)
      /\ Tail(rx_after \o pending_after) = Tail(rx_after) \o pending_after
  BY <1>1, HeadTailConcat
<1>3. QED
  BY <1>2, CheckKeepsStreams

(* A send puts the command behind the others, or changes nothing. *)
LEMMA SendStream ==
    ASSUME TypeOK, NEW c \in Cmd, hal_aci_tl_send(c)
    PROVE  /\ aci_rx_q' \o pending' = aci_rx_q \o pending
           /\ UNCHANGED <<aci_rx_q, inbox, out>>
           /\ \/ ok' = TRUE /\ inbox' \o aci_tx_q' = Append(inbox \o aci_tx_q, c)
              \/ ok' = FALSE /\ inbox' \o aci_tx_q' = inbox \o aci_tx_q
<1>1. inbox \o Append(aci_tx_q, c) = Append(inbox \o aci_tx_q, c)
  BY DEF TypeOK
<1>2. QED
  BY <1>1 DEF hal_aci_tl_send

(* What the host has already is in front of what a check brings. *)
LEMMA HeadStays ==
    ASSUME TypeOK, aci_rx_q # <<>>
    PROVE  rx_after # <<>> /\ Head(rx_after) = Head(aci_rx_q)
<1>1. aci_rx_q \in Seq(Evt) /\ FirstOf(pending) \in Seq(Evt)
  BY FirstAndRest DEF TypeOK
<1>2. /\ aci_rx_q \o FirstOf(pending) # <<>>
      /\ Head(aci_rx_q \o FirstOf(pending)) = Head(aci_rx_q)
  BY <1>1, HeadTailConcat
<1>3. rx_after \in {aci_rx_q, aci_rx_q \o FirstOf(pending)}
  BY DEF rx_after
<1>4. QED
  BY <1>2, <1>3

(* A get takes the oldest event out of the stream, or finds none. *)
LEMMA GetStream ==
    ASSUME TypeOK, hal_aci_tl_event_get
    PROVE  /\ inbox' \o aci_tx_q' = inbox \o aci_tx_q /\ ok' \in BOOLEAN
           /\ ok' => /\ aci_rx_q \o pending # <<>>
                     /\ out' = Head(aci_rx_q \o pending)
                     /\ aci_rx_q' \o pending' = Tail(aci_rx_q \o pending)
           /\ ~ok' => aci_rx_q' \o pending' = aci_rx_q \o pending /\ out' = out
           /\ aci_rx_q # <<>> => ok' /\ out' = Head(aci_rx_q)
<1>1. /\ aci_tx_q' = tx_after /\ inbox' = inbox_after
      /\ aci_rx_q' = RestOf(rx_after) /\ pending' = pending_after
      /\ ok' = (rx_after # <<>>)
      /\ out' = IF rx_after = <<>> THEN out ELSE Head(rx_after)
  BY DEF hal_aci_tl_event_get, m_aci_event_check
<1>2. CASE rx_after # <<>>
  <2>1. aci_rx_q' \o pending' = Tail(aci_rx_q \o pending)
    BY <1>1, <1>2, OldestEvent DEF RestOf
  <2>2. QED
    BY <1>1, <1>2, <2>1, CheckKeepsStreams, OldestEvent, HeadStays
<1>3. CASE rx_after = <<>>
  <2>1. aci_rx_q' = rx_after
    BY <1>1, <1>3 DEF RestOf
  <2>2. QED
    BY <1>1, <1>3, <2>1, CheckKeepsStreams, HeadStays
<1>4. QED
  BY <1>2, <1>3

(* A peek shows the oldest event, which stays in front of the queue. *)
LEMMA PeekStream ==
    ASSUME TypeOK, hal_aci_tl_event_peek
    PROVE  /\ inbox' \o aci_tx_q' = inbox \o aci_tx_q
           /\ aci_rx_q' \o pending' = aci_rx_q \o pending /\ ok' \in BOOLEAN
           /\ ok' => /\ aci_rx_q \o pending # <<>> /\ out' = Head(aci_rx_q \o pending)
                     /\ aci_rx_q' # <<>> /\ out' = Head(aci_rx_q')
           /\ ~ok' => out' = out /\ aci_rx_q' = <<>>
<1>1. /\ aci_tx_q' = tx_after /\ inbox' = inbox_after
      /\ aci_rx_q' = rx_after /\ pending' = pending_after
      /\ ok' = (rx_after # <<>>)
      /\ out' = IF rx_after = <<>> THEN out ELSE Head(rx_after)
  BY DEF hal_aci_tl_event_peek, m_aci_event_check
<1>2. QED
  BY <1>1, CheckKeepsStreams, OldestEvent

(* With no event waiting on the host, a get that returns one has made room in
   the command queue: the transfer that brought it took a command away. *)
LEMMA GetMakesRoom ==
    ASSUME TypeOK, aci_rx_q = <<>>, hal_aci_tl_event_get
    PROVE  aci_rx_q' = <<>> /\ (ok' => Len(aci_tx_q') < Cap)
<1>1. /\ aci_tx_q' = tx_after /\ aci_rx_q' = RestOf(rx_after) /\ ok' = (rx_after # <<>>)
  BY DEF hal_aci_tl_event_get, m_aci_event_check
<1>2. CASE transfers
  <2>1. rx_after = FirstOf(pending)
    BY <1>2, FirstAndRest, ConcatEmptySeq DEF rx_after, transfers, TypeOK
  <2>2. aci_rx_q' = <<>>
    BY <1>1, <2>1 DEF FirstOf, RestOf
  <2>3. Len(tx_after) < Cap
    <3>1. tx_after = RestOf(aci_tx_q)
      BY <1>2 DEF tx_after
    <3>2. Len(RestOf(aci_tx_q)) = IF aci_tx_q = <<>> THEN 0 ELSE Len(aci_tx_q) - 1
      BY FirstAndRest DEF TypeOK
    <3>3. Len(aci_tx_q) \in Nat /\ Len(aci_tx_q) <= Cap
      BY LenProperties DEF TypeOK
    <3>4. QED
      BY <3>1, <3>2, <3>3, CapIsPositive
  <2>4. QED
    BY <1>1, <2>2, <2>3
<1>3. CASE ~transfers
  BY <1>1, <1>3 DEF rx_after, RestOf
<1>4. QED
  BY <1>2, <1>3

(* hal_aci_tl.cpp implements AciLink: its two queues, its lines and its
   full-duplex transfers amount to two reliable streams.  Nothing is lost,
   repeated or reordered in either direction, and a send is refused only for
   its length or when the host holds a whole queue of commands. *)
THEOREM Refinement == Spec => RefinesLink
<1>1. Init => Link!Init
  BY DEF Init, Link!Init
<1>2. TypeOK /\ [Next]_vars => [Link!Next]_Link!vars
  <2> SUFFICES ASSUME TypeOK, [Next]_vars PROVE [Link!Next]_Link!vars
    OBVIOUS
  <2> USE DEF Link!Next
  <2>1. ASSUME NEW c \in Cmd, hal_aci_tl_send(c) PROVE [Link!Next]_Link!vars
    <3>1. tx_full => Len(inbox \o aci_tx_q) >= Cap
      BY ConcatProperties, LenProperties, CapIsPositive DEF tx_full, TypeOK
    <3>2. /\ ok' = TRUE => c \notin Oversize
          /\ ok' = FALSE => c \in Oversize \/ tx_full
      BY <2>1 DEF hal_aci_tl_send
    <3>3. QED
      BY <2>1, <3>1, <3>2, SendStream DEF Link!Send
  <2>2. CASE hal_aci_tl_event_peek
    BY <2>2, PeekStream DEF Link!Peek
  <2>3. CASE hal_aci_tl_event_get
    BY <2>3, GetStream DEF Link!Get
  <2>4. CASE hal_aci_tl_q_flush
    <3>1. inbox' \o aci_tx_q' = inbox /\ aci_rx_q' \o pending' = pending
      BY <2>4, ConcatEmptySeq DEF hal_aci_tl_q_flush, TypeOK
    <3>2. \E k \in 0 .. Len(inbox \o aci_tx_q) : inbox = SubSeq(inbox \o aci_tx_q, 1, k)
      <4>1. Len(inbox) \in 0 .. Len(inbox \o aci_tx_q)
        BY ConcatProperties, LenProperties DEF TypeOK
      <4>2. inbox = SubSeq(inbox \o aci_tx_q, 1, Len(inbox))
        BY ConcatProperties DEF TypeOK
      <4>3. QED
        BY <4>1, <4>2
    <3>3. \E k \in 1 .. Len(aci_rx_q \o pending) + 1 :
             pending = SubSeq(aci_rx_q \o pending, k, Len(aci_rx_q \o pending))
      <4>1. Len(aci_rx_q) + 1 \in 1 .. Len(aci_rx_q \o pending) + 1
        BY ConcatProperties, LenProperties DEF TypeOK
      <4>2. pending = SubSeq(aci_rx_q \o pending, Len(aci_rx_q) + 1, Len(aci_rx_q \o pending))
        BY ConcatProperties DEF TypeOK
      <4>3. QED
        BY <4>1, <4>2
    <3>4. QED
      BY <2>4, <3>1, <3>2, <3>3 DEF hal_aci_tl_q_flush, Link!Flush
  <2>5. CASE hal_aci_tl_init
    BY <2>5, ConcatEmptySeq, EmptySeq DEF hal_aci_tl_init, Link!Restart
  <2>6. CASE RdynLow
    BY <2>6 DEF RdynLow, hostVars, Link!vars
  <2>7. CASE DeviceTakes
    BY <2>7, HeadTailConcat DEF DeviceTakes, hostVars, Link!Take, TypeOK
  <2>8. ASSUME NEW e \in Evt, DeviceRaises(e) PROVE [Link!Next]_Link!vars
    <3>1. aci_rx_q \o Append(pending, e) = Append(aci_rx_q \o pending, e)
      BY DEF TypeOK
    <3>2. QED
      BY <2>8, <3>1 DEF DeviceRaises, hostVars, Link!Raise
  <2>9. CASE UNCHANGED vars
    BY <2>9 DEF vars, hostVars, Link!vars
  <2>10. QED
    BY <2>1, <2>2, <2>3, <2>4, <2>5, <2>6, <2>7, <2>8, <2>9 DEF Next
<1>3. QED
  BY <1>1, <1>2, TypeCorrect, PTL DEF Spec, RefinesLink, Link!Spec
=============================================================================
