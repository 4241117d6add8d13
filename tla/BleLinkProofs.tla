---------------------------- MODULE BleLinkProofs ----------------------------
(***************************************************************************)
(* The link as the application sees it: the pipes it believes open and the *)
(* data credits, for every queue size, number of credits and application,  *)
(* up to the first hardware fault of the device.                           *)
(***************************************************************************)
EXTENDS BleUartProofs, FiniteSetTheorems

-----------------------------------------------------------------------------
(* One message more, one message less. *)

\* The sequence t is s with e behind it; t is s without its first message.
Adds(s, t, e) == \E n \in Nat :
    /\ DOMAIN s = 1 .. n /\ DOMAIN t = 1 .. (n + 1)
    /\ t[n + 1] = e
    /\ \A i \in 1 .. n : t[i] = s[i]
Drops(s, t) == \E n \in Nat :
    /\ DOMAIN s = 1 .. (n + 1) /\ DOMAIN t = 1 .. n
    /\ \A i \in 1 .. n : t[i] = s[i + 1]

(* The message behind the others has the last position. *)
LEMMA AddsPositions ==
    ASSUME NEW s, NEW t, NEW e, Adds(s, t, e)
    PROVE  \E n \in Int :
              /\ n \notin DOMAIN s /\ n \in DOMAIN t /\ t[n] = e
              /\ \A i \in DOMAIN s : i \in Int /\ i < n /\ i \in DOMAIN t /\ t[i] = s[i]
              /\ \A i \in DOMAIN t : i = n \/ i \in DOMAIN s
<1>1. PICK n \in Nat : /\ DOMAIN s = 1 .. n /\ DOMAIN t = 1 .. (n + 1)
                       /\ t[n + 1] = e
                       /\ \A i \in 1 .. n : t[i] = s[i]
  BY DEF Adds
<1>2. WITNESS n + 1 \in Int
<1>3. QED
  BY <1>1

(* The first message goes, the others move up. *)
LEMMA DropsPositions ==
    ASSUME NEW s, NEW t, Drops(s, t)
    PROVE  /\ 1 \in DOMAIN s
           /\ \A i \in DOMAIN t : i \in Int /\ i + 1 \in DOMAIN s /\ i + 1 # 1 /\ t[i] = s[i + 1]
           /\ \A i \in DOMAIN s : i \in Int /\ (i = 1 \/ (i > 1 /\ i - 1 \in DOMAIN t /\ t[i - 1] = s[i]))
<1>1. PICK n \in Nat : /\ DOMAIN s = 1 .. (n + 1) /\ DOMAIN t = 1 .. n
                       /\ \A i \in 1 .. n : t[i] = s[i + 1]
  BY DEF Drops
<1>2. QED
  BY <1>1

(* Append adds a message behind the others... *)
LEMMA AppendAdds ==
    ASSUME NEW S, NEW s \in Seq(S), NEW e \in S
    PROVE  Adds(s, Append(s, e), e)
<1>1. /\ Len(s) \in Nat /\ DOMAIN s = 1 .. Len(s)
      /\ DOMAIN Append(s, e) = 1 .. (Len(s) + 1)
      /\ Append(s, e)[Len(s) + 1] = e
      /\ \A i \in 1 .. Len(s) : Append(s, e)[i] = s[i]
  OBVIOUS
<1>2. QED
  BY <1>1 DEF Adds

(* ... and Tail drops the first one. *)
LEMMA TailDrops ==
    ASSUME NEW S, NEW s \in Seq(S), s # <<>>
    PROVE  Drops(s, Tail(s)) /\ s[1] = Head(s)
<1>1. /\ Len(s) - 1 \in Nat /\ DOMAIN s = 1 .. (Len(s) - 1 + 1)
      /\ DOMAIN Tail(s) = 1 .. (Len(s) - 1)
      /\ \A i \in 1 .. (Len(s) - 1) : Tail(s)[i] = s[i + 1]
      /\ s[1] = Head(s)
  OBVIOUS
<1>2. QED
  BY <1>1 DEF Drops

-----------------------------------------------------------------------------
(* Sums.  Total counts one pair for every unit of the amounts; here the      *)
(* amounts are a function w from the positions.                              *)

Units(w)  == {p \in (DOMAIN w) \X (1 .. Credits) : p[2] <= w[p[1]]}
Amounts(w) == \E n \in Nat : w \in [1 .. n -> 0 .. Credits]

(* There are finitely many units. *)
LEMMA UnitsFinite ==
    ASSUME NEW w, Amounts(w)
    PROVE  IsFiniteSet(Units(w)) /\ Cardinality(Units(w)) \in Nat
<1>1. PICK n \in Nat : w \in [1 .. n -> 0 .. Credits]
  BY DEF Amounts
<1>2. IsFiniteSet(1 .. n) /\ IsFiniteSet(1 .. Credits)
  BY FS_Interval, DeviceAssumption
<1>3. IsFiniteSet((1 .. n) \X (1 .. Credits))
  BY <1>2, FS_Product
<1>4. Units(w) \in SUBSET ((1 .. n) \X (1 .. Credits))
  BY <1>1 DEF Units
<1>5. QED
  BY <1>3, <1>4, FS_Subset, FS_CardinalityType

(* No amounts, no units. *)
LEMMA NoUnits ==
    ASSUME NEW w, Amounts(w), \A i \in DOMAIN w : w[i] = 0
    PROVE  Cardinality(Units(w)) = 0
<1>1. Units(w) = {}
  BY DeviceAssumption DEF Units
<1>2. QED
  BY <1>1, FS_EmptySet

(* The units of one position are as many as its amount. *)
LEMMA UnitsAt ==
    ASSUME NEW i \in Nat, NEW k \in 0 .. Credits
    PROVE  IsFiniteSet({i} \X (1 .. k)) /\ Cardinality({i} \X (1 .. k)) = k
<1>1. k \in Nat /\ k \in Int
  BY DeviceAssumption
<1>2. IsFiniteSet(1 .. k) /\ Cardinality(1 .. k) = k
  BY <1>1, FS_Interval
<1>3. IsFiniteSet({i}) /\ Cardinality({i}) = 1
  BY FS_Singleton
<1>4. Cardinality({i} \X (1 .. k)) = 1 * k /\ IsFiniteSet({i} \X (1 .. k))
  BY <1>2, <1>3, FS_Product
<1>5. QED
  BY <1>1, <1>4

(* An amount behind the others adds its units. *)
LEMMA UnitsAdded ==
    ASSUME NEW v, NEW w, Amounts(v), NEW k \in 0 .. Credits, Adds(v, w, k)
    PROVE  Cardinality(Units(w)) = Cardinality(Units(v)) + k
<1>1. PICK n \in Nat : /\ DOMAIN v = 1 .. n /\ DOMAIN w = 1 .. (n + 1)
                       /\ w[n + 1] = k
                       /\ \A i \in 1 .. n : w[i] = v[i]
  BY DEF Adds
<1>2. Units(w) = Units(v) \cup ({n + 1} \X (1 .. k))
  BY <1>1, DeviceAssumption DEF Units
<1>3. Units(v) \cap ({n + 1} \X (1 .. k)) = {}
  BY <1>1 DEF Units
<1>4. /\ IsFiniteSet(Units(v)) /\ Cardinality(Units(v)) \in Nat
      /\ IsFiniteSet({n + 1} \X (1 .. k)) /\ Cardinality({n + 1} \X (1 .. k)) = k
  BY UnitsFinite, UnitsAt
<1>5. Cardinality(Units(w)) =
        Cardinality(Units(v)) + Cardinality({n + 1} \X (1 .. k))
            - Cardinality(Units(v) \cap ({n + 1} \X (1 .. k)))
  BY <1>2, <1>4, FS_Union
<1>6. Cardinality(Units(v) \cap ({n + 1} \X (1 .. k))) = 0
  BY <1>3, FS_EmptySet
<1>7. QED
  BY <1>4, <1>5, <1>6, DeviceAssumption

(* The first amount takes its units with it. *)
LEMMA UnitsDropped ==
    ASSUME NEW v, NEW w, Amounts(v), Drops(v, w)
    PROVE  Cardinality(Units(v)) = v[1] + Cardinality(Units(w))
<1>1. PICK n \in Nat : /\ DOMAIN v = 1 .. (n + 1) /\ DOMAIN w = 1 .. n
                       /\ \A i \in 1 .. n : w[i] = v[i + 1]
  BY DEF Drops
<1>2. /\ v[1] \in 0 .. Credits
      /\ \A i \in DOMAIN v : v[i] \in 0 .. Credits
  BY <1>1 DEF Amounts
<1> DEFINE first == {1} \X (1 .. v[1])
           others == Units(v) \ first
           Forth == [p \in others |-> <<p[1] - 1, p[2]>>]
<1>3. Units(v) = first \cup others /\ first \cap others = {}
  BY <1>1, <1>2, DeviceAssumption DEF Units
<1>4. IsFiniteSet(Units(v)) /\ others \in SUBSET Units(v)
  BY UnitsFinite
<1>5. IsFiniteSet(others) /\ Cardinality(others) \in Nat
  BY <1>4, FS_Subset, FS_CardinalityType
<1>6. others = {p \in (2 .. (n + 1)) \X (1 .. Credits) : p[2] <= v[p[1]]}
  BY <1>1, <1>2, DeviceAssumption DEF Units
<1>7. Forth \in Bijection(others, Units(w))
  <2>1. Forth \in [others -> Units(w)]
    BY <1>1, <1>6 DEF Units
  <2>2. \A p, q \in others : Forth[p] = Forth[q] => p = q
    BY <1>6
  <2>3. \A q \in Units(w) : \E p \in others : Forth[p] = q
    <3>1. SUFFICES ASSUME NEW q \in Units(w) PROVE \E p \in others : Forth[p] = q
      OBVIOUS
    <3>2. q \in (1 .. n) \X (1 .. Credits) /\ q[2] <= w[q[1]]
      BY <1>1 DEF Units
    <3>3. <<q[1] + 1, q[2]>> \in others
      BY <1>1, <1>6, <3>2
    <3>4. Forth[<<q[1] + 1, q[2]>>] = q
      BY <3>2, <3>3
    <3>5. QED
      BY <3>3, <3>4
  <2>4. QED
    BY <2>1, <2>2, <2>3, Zenon DEF Bijection, Injection, Surjection, IsInjective
<1>8. Cardinality(Units(w)) = Cardinality(others)
  BY <1>5, <1>7, FS_Bijection DEF ExistsBijection
<1>9. IsFiniteSet(first) /\ Cardinality(first) = v[1]
  BY <1>2, UnitsAt
<1>10. Cardinality(Units(v)) = Cardinality(first) + Cardinality(others) - Cardinality({})
  BY <1>3, <1>5, <1>9, FS_Union
<1>11. Cardinality({}) = 0
  BY FS_EmptySet
<1>12. QED
  BY <1>2, <1>5, <1>8, <1>9, <1>10, <1>11, DeviceAssumption

-----------------------------------------------------------------------------
(* The two sums of the credits. *)

\* The events on their way to the host, with the one in its hands.
Stream == InHand \o Events

Packets(s) == [i \in DOMAIN s |-> PacketsOf(s[i])]
Returns(s) == [i \in DOMAIN s |-> CreditsOf(s[i])]

(* They count the units of the commands and of the events. *)
LEMMA SumsAreUnits ==
    /\ PacketsQueued = Cardinality(Units(Packets(Commands)))
    /\ CreditsReturning = Cardinality(Units(Returns(Stream)))
<1>1. \A s : /\ {p \in (DOMAIN s) \X (1 .. Credits) : p[2] <= PacketsOf(s[p[1]])} = Units(Packets(s))
            /\ {p \in (DOMAIN s) \X (1 .. Credits) : p[2] <= CreditsOf(s[p[1]])} = Units(Returns(s))
  BY DEF Units, Packets, Returns
<1>2. QED
  BY <1>1 DEF PacketsQueued, CreditsReturning, Total, Stream

(* The same sums after a step. *)
LEMMA SumsAreUnitsNext ==
    /\ PacketsQueued' = Cardinality(Units(Packets(Commands')))
    /\ CreditsReturning' = Cardinality(Units(Returns(Stream')))
<1>1. \A s : /\ {p \in (DOMAIN s) \X (1 .. Credits) : p[2] <= PacketsOf(s[p[1]])} = Units(Packets(s))
            /\ {p \in (DOMAIN s) \X (1 .. Credits) : p[2] <= CreditsOf(s[p[1]])} = Units(Returns(s))
  BY DEF Units, Packets, Returns
<1>2. QED
  BY <1>1 DEF PacketsQueued, CreditsReturning, Total, Stream

(* A command is at most one packet, an event returns at most all credits. *)
LEMMA AmountsBounded ==
    /\ \A c : PacketsOf(c) \in 0 .. Credits
    /\ \A e \in Evt : CreditsOf(e) \in 0 .. Credits
<1>1. \A e \in Evt : e.op = "data_credit" => e.credit \in 1 .. Credits
  BY EventFields
<1>2. QED
  BY <1>1, DeviceAssumption DEF PacketsOf, CreditsOf, ReturnsCredit

(* What the streams hold: messages in positions from 1 on. *)
LEMMA Streams ==
    WellTyped =>
        /\ Commands \in Seq(Cmd) /\ Events \in Seq(Evt) /\ Stream \in Seq(Evt)
        /\ Amounts(Packets(Commands)) /\ Amounts(Returns(Stream))
        /\ PacketsQueued \in Nat /\ CreditsReturning \in Nat
<1> SUFFICES ASSUME WellTyped
             PROVE  /\ Commands \in Seq(Cmd) /\ Events \in Seq(Evt) /\ Stream \in Seq(Evt)
                    /\ Amounts(Packets(Commands)) /\ Amounts(Returns(Stream))
                    /\ PacketsQueued \in Nat /\ CreditsReturning \in Nat
  OBVIOUS
<1>1. Commands \in Seq(Cmd) /\ Events \in Seq(Evt)
  BY StreamTypes DEF WellTyped
<1>2. InHand \in Seq(Evt)
  <2>1. \A e \in Evt : <<e>> \in Seq(Evt)
    OBVIOUS
  <2>2. QED
    BY <2>1, EmptySeq DEF InHand, WellTyped
<1>3. Stream \in Seq(Evt)
  BY <1>1, <1>2, ConcatProperties DEF Stream
<1>4. Amounts(Packets(Commands))
  <2>1. DOMAIN Commands = 1 .. Len(Commands) /\ Len(Commands) \in Nat
    BY <1>1
  <2>2. Packets(Commands) \in [1 .. Len(Commands) -> 0 .. Credits]
    BY <2>1, AmountsBounded DEF Packets
  <2>3. QED
    BY <2>1, <2>2 DEF Amounts
<1>5. Amounts(Returns(Stream))
  <2>1. /\ DOMAIN Stream = 1 .. Len(Stream) /\ Len(Stream) \in Nat
        /\ \A i \in DOMAIN Stream : Stream[i] \in Evt
    BY <1>3
  <2>2. Returns(Stream) \in [1 .. Len(Stream) -> 0 .. Credits]
    BY <2>1, AmountsBounded DEF Returns
  <2>3. QED
    BY <2>1, <2>2 DEF Amounts
<1>6. QED
  BY <1>1, <1>3, <1>4, <1>5, UnitsFinite, SumsAreUnits

(* A command more counts its packet. *)
LEMMA PacketsAdded ==
    ASSUME WellTyped, NEW c, Adds(Commands, Commands', c)
    PROVE  PacketsQueued' = PacketsQueued + PacketsOf(c)
<1>1. Adds(Packets(Commands), Packets(Commands'), PacketsOf(c))
  BY DEF Adds, Packets
<1>2. QED
  BY <1>1, Streams, AmountsBounded, UnitsAdded, SumsAreUnits, SumsAreUnitsNext

(* A command less does not count its packet any more. *)
LEMMA PacketsDropped ==
    ASSUME WellTyped, Drops(Commands, Commands')
    PROVE  PacketsQueued = PacketsOf(Commands[1]) + PacketsQueued'
<1>1. Drops(Packets(Commands), Packets(Commands'))
  BY DEF Drops, Packets
<1>2. Packets(Commands)[1] = PacketsOf(Commands[1])
  BY DEF Drops, Packets
<1>3. QED
  BY <1>1, <1>2, Streams, UnitsDropped, SumsAreUnits, SumsAreUnitsNext

(* An event more returns its credits. *)
LEMMA ReturnsAdded ==
    ASSUME WellTyped, NEW e \in Evt, Adds(Stream, Stream', e)
    PROVE  CreditsReturning' = CreditsReturning + CreditsOf(e)
<1>1. Adds(Returns(Stream), Returns(Stream'), CreditsOf(e))
  BY DEF Adds, Returns
<1>2. QED
  BY <1>1, Streams, AmountsBounded, UnitsAdded, SumsAreUnits, SumsAreUnitsNext

(* An event less does not return its credits any more. *)
LEMMA ReturnsDropped ==
    ASSUME WellTyped, Drops(Stream, Stream')
    PROVE  CreditsReturning = CreditsOf(Stream[1]) + CreditsReturning'
<1>1. Drops(Returns(Stream), Returns(Stream'))
  BY DEF Drops, Returns
<1>2. Returns(Stream)[1] = CreditsOf(Stream[1])
  BY DEF Drops, Returns
<1>3. QED
  BY <1>1, <1>2, Streams, UnitsDropped, SumsAreUnits, SumsAreUnitsNext

(* No packets and no returning credits, no sum. *)
LEMMA NoSums ==
    ASSUME WellTyped
    PROVE  /\ (\A i \in DOMAIN Commands : Commands[i].op # "send_data") => PacketsQueued = 0
           /\ (\A i \in DOMAIN Stream : CreditsOf(Stream[i]) = 0) => CreditsReturning = 0
<1>1. ASSUME \A i \in DOMAIN Commands : Commands[i].op # "send_data" PROVE PacketsQueued = 0
  <2>1. \A i \in DOMAIN Packets(Commands) : Packets(Commands)[i] = 0
    BY <1>1 DEF Packets, PacketsOf
  <2>2. QED
    BY <2>1, Streams, NoUnits, SumsAreUnits
<1>2. ASSUME \A i \in DOMAIN Stream : CreditsOf(Stream[i]) = 0 PROVE CreditsReturning = 0
  <2>1. \A i \in DOMAIN Returns(Stream) : Returns(Stream)[i] = 0
    BY <1>2 DEF Returns
  <2>2. QED
    BY <2>1, Streams, NoUnits, SumsAreUnits
<1>3. QED
  BY <1>1, <1>2

-----------------------------------------------------------------------------
(* What a step does to the link, while the device has no hardware fault.     *)

\* An event that makes the host ask for advertising.
Restart(e) ==
    \/ e.op = "disconnected"
    \/ e.op = "device_started" /\ e.mode = "standby"

Linking(m) == m \in {"connected", "closing"}

hostView == <<data_credit_available, data_credit_total, pipes_open>>
linkView == <<Commands, Stream, Events, mode, air, hostView>>

\* A command without data is queued: a name or a setup message.
Queues ==
    /\ \E c \in Cmd : c.op \notin {"connect", "send_data"} /\ Adds(Commands, Commands', c)
    /\ UNCHANGED <<Stream, Events, mode, air, hostView>>

\* Data is queued.
Spends ==
    /\ pipes_open # {} /\ data_credit_available >= 1
    /\ Adds(Commands, Commands', Command("send_data"))
    /\ data_credit_available' = data_credit_available - 1
    /\ UNCHANGED <<Stream, Events, mode, air, data_credit_total, pipes_open>>

\* The main loop gets an event.
Fetches ==
    /\ Stream = Events /\ Drops(Events, Events')
    /\ pipes_open' = IF Stream[1].op = "pipe_status" THEN Stream[1].open
                     ELSE IF Stream[1].op = "disconnected" THEN {} ELSE pipes_open
    /\ data_credit_available' = IF Stream[1].op = "disconnected" THEN data_credit_total
                                ELSE data_credit_available
    /\ UNCHANGED <<Commands, Stream, mode, air, data_credit_total>>

\* The setup routine removes the response it has looked at.
Removed ==
    /\ Stream = Events /\ Drops(Events, Events') /\ Drops(Stream, Stream')
    /\ Stream[1].op = "cmd_rsp"
    /\ UNCHANGED <<Commands, mode, air, hostView>>

\* The handler of an event runs.
Handled ==
    /\ Drops(Stream, Stream')
    /\ \/ UNCHANGED Commands
       \/ \E c \in Cmd :
             /\ Adds(Commands, Commands', c)
             /\ c.op # "send_data"
             /\ c.op = "connect" => Restart(Stream[1]) \/ Stream[1].op = "hw_error"
    /\ data_credit_available' =
          IF Stream[1].op = "connected" THEN data_credit_total
          ELSE data_credit_available + CreditsOf(Stream[1])
    /\ data_credit_total' =
          IF Stream[1].op = "device_started" THEN Credits ELSE data_credit_total
    /\ pipes_open' \in {pipes_open, {}}
    /\ UNCHANGED <<Events, mode, air>>

HostEffect == UNCHANGED linkView \/ Queues \/ Spends \/ Fetches \/ Removed \/ Handled

\* The device raises an event.
Raised(e) == Adds(Stream, Stream', e) /\ Adds(Events, Events', e) /\ UNCHANGED hostView

Booted ==
    /\ mode = "reset" /\ mode' \in {"setup", "standby"}
    /\ \E e \in Evt : CreditsOf(e) = 0 /\ e.op = "device_started" /\ e.mode = mode' /\ Raised(e)
    /\ UNCHANGED <<Commands, air>>

\* It answers a command other than data.
Answered ==
    /\ Drops(Commands, Commands') /\ Commands[1].op # "send_data"
    /\ \E e \in Evt : CreditsOf(e) = 0 /\ e.op = "cmd_rsp" /\ Raised(e)
    /\ \/ UNCHANGED <<mode, air>>
       \/ mode = "setup" /\ mode' = "reset" /\ UNCHANGED air
       \/ Commands[1].op = "connect" /\ mode = "standby" /\ mode' = "advertising" /\ UNCHANGED air
       \/ mode = "connected" /\ mode' = "closing" /\ air' = 0

\* It takes a packet, or sends it back.
Delivered ==
    /\ Drops(Commands, Commands') /\ Commands[1].op = "send_data"
    /\ mode = "connected" /\ air' = air + 1
    /\ UNCHANGED <<Stream, Events, mode, hostView>>
Returned ==
    /\ Drops(Commands, Commands') /\ Commands[1].op = "send_data"
    /\ \E e \in Evt : CreditsOf(e) = 1 /\ e.op = "pipe_error" /\ Raised(e)
    /\ UNCHANGED <<mode, air>>

\* A peer connects, does something, acknowledges packets, or is gone.
LinkUp ==
    /\ mode = "advertising" /\ mode' = "connected"
    /\ \E e \in Evt : CreditsOf(e) = 0 /\ e.op = "connected" /\ Raised(e)
    /\ UNCHANGED <<Commands, air>>
Reported ==
    /\ mode = "connected"
    /\ \E e \in Evt :
          /\ CreditsOf(e) = 0 /\ Raised(e)
          /\ e.op \in {"pipe_status", "data_received", "pipe_error", "timing"}
    /\ UNCHANGED <<Commands, mode, air>>
Acked ==
    /\ mode = "connected"
    /\ \E e \in Evt, n \in 1 .. air :
          /\ CreditsOf(e) = n /\ e.op = "data_credit" /\ Raised(e)
          /\ air' = air - n
    /\ UNCHANGED <<Commands, mode>>
LinkDown ==
    /\ Linking(mode) /\ mode' = "standby" /\ air' = 0
    /\ \E e \in Evt : CreditsOf(e) = 0 /\ e.op = "disconnected" /\ Raised(e)
    /\ UNCHANGED Commands

DeviceEffect ==
    \/ Booted \/ Answered \/ Delivered \/ Returned
    \/ LinkUp \/ Reported \/ Acked \/ LinkDown

Effect == HostEffect \/ DeviceEffect

(* The event in the hands of the host is the first of the stream. *)
LEMMA InHandFirst ==
    ASSUME WellTyped
    PROVE  /\ pc # "handle" => Stream = Events
           /\ pc = "handle" => Stream[1] = out /\ Drops(Stream, Events)
<1>1. Events \in Seq(Evt)
  BY Streams
<1>2. CASE pc # "handle"
  BY <1>1, <1>2 DEF Stream, InHand
<1>3. CASE pc = "handle"
  <2>1. out \in Evt /\ Stream = <<out>> \o Events
    BY <1>3 DEF WellTyped, Stream, InHand
  <2>2. \A e \in Evt, s \in Seq(Evt) : Head(<<e>> \o s) = e /\ Tail(<<e>> \o s) = s /\ <<e>> \o s # <<>>
    OBVIOUS
  <2>3. Head(Stream) = out /\ Tail(Stream) = Events /\ Stream # <<>>
    BY <1>1, <2>1, <2>2, Zenon
  <2>4. QED
    BY <1>3, <2>3, Streams, TailDrops
<1>4. QED
  BY <1>2, <1>3

(* Outside a handler the stream is that of the events. *)
LEMMA InHandNext ==
    pc' # "handle" /\ Events' \in Seq(Evt) => Stream' = Events'
<1>1. \A s \in Seq(Evt) : <<>> \o s = s
  OBVIOUS
<1>2. QED
  BY <1>1 DEF Stream, InHand

(* A send adds its command or does nothing. *)
LEMMA SendAdds ==
    ASSUME WellTyped, NEW c \in Cmd, T!hal_aci_tl_send(c)
    PROVE  /\ Events' = Events
           /\ \/ ok' = TRUE /\ Adds(Commands, Commands', c)
              \/ ok' = FALSE /\ Commands' = Commands
<1>1. TypeOK /\ Commands \in Seq(Cmd)
  BY Streams DEF WellTyped
<1>2. QED
  BY <1>1, SendStream, AppendAdds

\* What a handler does, but for the events.
HandledAs(e) ==
    /\ \/ UNCHANGED Commands
       \/ \E c \in Cmd :
             /\ Adds(Commands, Commands', c)
             /\ c.op # "send_data"
             /\ c.op = "connect" => Restart(e) \/ e.op = "hw_error"
    /\ data_credit_available' =
          IF e.op = "connected" THEN data_credit_total ELSE data_credit_available + CreditsOf(e)
    /\ data_credit_total' = IF e.op = "device_started" THEN Credits ELSE data_credit_total
    /\ pipes_open' \in {pipes_open, {}}
    /\ UNCHANGED <<mode, air>>

(* The handlers of the events. *)
LEMMA HandlerEffects ==
    ASSUME WellTyped, pc = "handle", aci_loop, ~SayHello, ~LoopBegins, ~CallbackReturns
    PROVE  HandledAs(out)
<1>1. \A op \in Plain : Send(op) =>
         /\ UNCHANGED <<mode, air>>
         /\ UNCHANGED Commands \/ Adds(Commands, Commands', Command(op))
  BY CommandsSent, SendAdds DEF Send, radioVars
<1>2. UNCHANGED <<lineVars, deviceVars>> => UNCHANGED <<mode, air, Commands>>
  BY DEF lineVars, deviceVars, Commands
<1>3. data_credit_available \in Nat
  BY DEF WellTyped, TypeOK
<1>4. \A op \in Plain : Command(op) \in Cmd /\ Command(op).op = op
  BY CommandsSent DEF Command
<1>5. data_credit_available + 0 = data_credit_available
  BY <1>3
<1> USE DEF HandledAs, Handles, Plain
<1>6. CASE HandleStarted
  BY <1>1, <1>2, <1>4, <1>5, <1>6
  DEF HandleStarted, lib_aci_connect, CreditsOf, ReturnsCredit, Restart
<1>7. CASE HandleCmdRsp
  BY <1>1, <1>2, <1>4, <1>5, <1>7
  DEF HandleCmdRsp, lib_aci_set_local_data, CreditsOf, ReturnsCredit, stateVars
<1>8. CASE HandleConnected
  BY <1>1, <1>4, <1>8 DEF HandleConnected, connected_credit, lib_aci_device_version
<1>9. CASE HandlePipeStatus
  BY <1>1, <1>2, <1>4, <1>5, <1>9
  DEF HandlePipeStatus, lib_aci_change_timing_GAP_PPCP, CreditsOf, ReturnsCredit
<1>10. CASE HandleTiming
  BY <1>1, <1>4, <1>5, <1>10
  DEF HandleTiming, Only, lib_aci_set_local_data, CreditsOf, ReturnsCredit, stateVars
<1>11. CASE HandleDisconnected \/ HandleHwError
  BY <1>1, <1>4, <1>5, <1>11
  DEF HandleDisconnected, HandleHwError, Only, lib_aci_connect, CreditsOf, ReturnsCredit,
      stateVars, Restart
<1>12. CASE HandleData
  BY <1>2, <1>5, <1>12 DEF HandleData, CreditsOf, ReturnsCredit, stateVars
<1>13. CASE HandleControlPoint
  BY <1>1, <1>2, <1>4, <1>5, <1>13
  DEF HandleControlPoint, lib_aci_disconnect, lib_aci_change_timing, CreditsOf, ReturnsCredit
<1>14. CASE HandleCredit
  BY <1>2, <1>14 DEF HandleCredit, CreditsOf
<1>15. CASE HandlePipeError
  BY <1>2, <1>15 DEF HandlePipeError, CreditsOf, ReturnsCredit, returned_credit
<1>16. QED
  BY <1>6, <1>7, <1>8, <1>9, <1>10, <1>11, <1>12, <1>13, <1>14, <1>15 DEF aci_loop

(* The host. *)
LEMMA HostEffects ==
    ASSUME WellTyped, WellTyped', Fetching, [Next]_vars, ~Device
    PROVE  HostEffect
<1>1. /\ TypeOK
      /\ Commands \in Seq(Cmd) /\ Events \in Seq(Evt) /\ Stream \in Seq(Evt)
  BY Streams DEF WellTyped
<1>2. Commands' \in Seq(Cmd) /\ Events' \in Seq(Evt) /\ Stream' \in Seq(Evt)
  <2>1. (WellTyped => Commands \in Seq(Cmd) /\ Events \in Seq(Evt) /\ Stream \in Seq(Evt))'
    BY Streams, PTL
  <2>2. QED
    BY <2>1
<1>3. Next /\ ~Device /\ ~UNCHANGED vars => Host \/ AppTx \/ nRF8001BleUartNameSet \/ RdynLow
  BY DEF Next
<1>4. /\ pc # "handle" => Stream = Events
      /\ pc' # "handle" => Stream' = Events'
  BY <1>2, InHandFirst, InHandNext
<1>5. CASE LoopBegins
  <2>1. /\ T!hal_aci_tl_event_get /\ UNCHANGED <<mode, air, data_credit_total>>
        /\ pc = "loop"
    BY <1>5 DEF LoopBegins, lib_aci_event_get, radioVars
  <2>2. CASE ok'
    <3>1. /\ Events # <<>> /\ out' = Head(Events) /\ Events' = Tail(Events)
          /\ Commands' = Commands
      BY <1>1, <2>1, <2>2, GetStream
    <3>2. Stream' = <<Head(Events)>> \o Tail(Events)
      BY <1>5, <2>2, <3>1 DEF LoopBegins, Stream, InHand
    <3>3. \A s \in Seq(Evt) : s # <<>> => <<Head(s)>> \o Tail(s) = s
      OBVIOUS
    <3>4. Stream' = Events /\ Stream = Events
      BY <1>1, <1>4, <2>1, <3>1, <3>2, <3>3, Zenon
    <3>5. Drops(Events, Events') /\ Stream[1] = out'
      BY <1>1, <3>1, <3>4, TailDrops
    <3>6. Fetches
      BY <1>5, <2>1, <2>2, <3>1, <3>4, <3>5
      DEF LoopBegins, lib_aci_event_get, pipes_after_disconnect, Fetches
    <3>7. QED
      BY <3>6 DEF HostEffect
  <2>3. CASE ~ok'
    <3>1. Events' = Events /\ Commands' = Commands /\ pc' # "handle"
      BY <1>1, <1>5, <2>1, <2>3, GetStream DEF LoopBegins, Finish
    <3>2. UNCHANGED linkView
      BY <1>4, <1>5, <2>1, <2>3, <3>1
      DEF LoopBegins, lib_aci_event_get, linkView, hostView
    <3>3. QED
      BY <3>2 DEF HostEffect
  <2>4. QED
    BY <2>2, <2>3
<1>6. CASE Removes
  <2>1. /\ T!hal_aci_tl_event_get /\ UNCHANGED <<mode, air, data_credit_total>>
        /\ pc = "remove" /\ pc' # "handle"
    BY <1>6 DEF Removes, lib_aci_event_get, radioVars
  <2>2. aci_rx_q # <<>> /\ Head(aci_rx_q).op = "cmd_rsp"
    BY <2>1 DEF Fetching
  <2>3. /\ ok' /\ out'.op = "cmd_rsp" /\ Commands' = Commands
        /\ Events # <<>> /\ out' = Head(Events) /\ Events' = Tail(Events)
    BY <1>1, <2>1, <2>2, GetStream
  <2>4. Drops(Events, Events') /\ Events[1].op = "cmd_rsp"
    BY <1>1, <2>3, TailDrops
  <2>5. UNCHANGED <<pipes_open, data_credit_available>>
    BY <1>6, <2>3 DEF Removes, lib_aci_event_get
  <2>6. Removed
    BY <1>4, <2>1, <2>3, <2>4, <2>5 DEF Removed, hostView
  <2>7. QED
    BY <2>6 DEF HostEffect
<1>7. CASE SetupBegins \/ Waits
  <2>1. Events' = Events /\ Commands' = Commands /\ UNCHANGED <<mode, air>>
    <3>1. CASE T!hal_aci_tl_event_peek /\ UNCHANGED radioVars
      BY <1>1, <3>1, PeekStream DEF radioVars
    <3>2. CASE UNCHANGED <<lineVars, deviceVars>>
      BY <3>2 DEF lineVars, deviceVars, Events, Commands
    <3>3. QED
      BY <1>7, <3>1, <3>2 DEF SetupBegins, Waits, lib_aci_event_peek
  <2>2. pc # "handle" /\ pc' # "handle" /\ UNCHANGED stateVars
    BY <1>7 DEF SetupBegins, Waits
  <2>3. UNCHANGED linkView
    BY <1>4, <2>1, <2>2 DEF linkView, hostView, stateVars
  <2>4. QED
    BY <2>3 DEF HostEffect
<1>8. CASE RdynLow \/ UNCHANGED vars
  <2>1. UNCHANGED <<inbox, pending, aci_tx_q, aci_rx_q, out, mode, air, pc, stateVars>>
    BY <1>8 DEF RdynLow, T!RdynLow, T!hostVars, radioVars, vars, lineVars, deviceVars
  <2>2. UNCHANGED linkView
    BY <2>1 DEF linkView, hostView, stateVars, Stream, InHand, Events, Commands
  <2>3. QED
    BY <2>2 DEF HostEffect
<1>9. CASE (aci_loop \/ AppTx \/ nRF8001BleUartNameSet \/ Fills \/ FillEnds \/ TimesOut)
           /\ ~LoopBegins
  <2>1. Events' = Events /\ pc' # "handle" /\ Stream' = Events
    BY <1>1, <1>4, <1>9, NoEventTaken
  <2>2. CASE nRF8001BleUartNameSet \/ Fills
    <3>1. /\ pc # "handle" /\ UNCHANGED <<mode, air, stateVars>>
      BY <2>2 DEF nRF8001BleUartNameSet, Fills, AppRuns, lib_aci_set_local_data, Send, radioVars
    <3>2. PICK c \in Cmd : c.op \notin {"connect", "send_data"} /\ T!hal_aci_tl_send(c)
      <4>1. CASE nRF8001BleUartNameSet
        <5>1. Command("set_local_data") \in Cmd
          BY CommandsSent DEF Plain
        <5>2. QED
          BY <4>1, <5>1 DEF nRF8001BleUartNameSet, lib_aci_set_local_data, Send, Command
      <4>2. CASE Fills
        <5>1. setup_offset \in 0 .. NUM_SETUP - 1
          BY <1>1, <4>2, DeviceAssumption DEF Fills, TypeOK
        <5>2. SetupMessage(setup_offset) \in Cmd
          BY <5>1, CommandsSent
        <5>3. QED
          BY <4>2, <5>2 DEF Fills, SetupMessage
      <4>3. QED
        BY <2>2, <4>1, <4>2
    <3>3. Adds(Commands, Commands', c) \/ Commands' = Commands
      BY <3>2, SendAdds
    <3>4. Queues \/ UNCHANGED linkView
      BY <1>4, <2>1, <3>1, <3>2, <3>3 DEF Queues, linkView, hostView, stateVars
    <3>5. QED
      BY <3>4 DEF HostEffect
  <2>3. CASE SayHello \/ AppTx
    <3>1. PICK length : nRF8001BleUartTx(length)
      BY <2>3 DEF SayHello, AppTx
    <3>2. /\ pc # "handle" /\ UNCHANGED <<data_credit_total, pipes_open>>
      BY <2>3 DEF SayHello, AppTx, AppRuns
    <3>3. Spends \/ UNCHANGED linkView
      <4>1. CASE UNCHANGED <<lineVars, deviceVars, data_credit_available>>
        BY <1>4, <2>1, <3>2, <4>1 DEF linkView, hostView, lineVars, deviceVars, Commands
      <4>2. CASE /\ may_tx(length) /\ lib_aci_send_data
                 /\ data_credit_available' = data_credit_available - (IF ok' THEN 1 ELSE 0)
        <5>1. Command("send_data") \in Cmd
          BY CommandsSent DEF Plain
        <5>2. T!hal_aci_tl_send(Command("send_data")) /\ UNCHANGED <<mode, air>>
          BY <4>2 DEF lib_aci_send_data, Send, radioVars
        <5>3. data_credit_available >= 1 /\ pipes_open # {}
          BY <4>2 DEF may_tx, lib_aci_is_pipe_available
        <5>4. data_credit_available \in Nat
          BY <1>1 DEF TypeOK
        <5>5. CASE ok' = TRUE /\ Adds(Commands, Commands', Command("send_data"))
          BY <1>4, <2>1, <3>2, <4>2, <5>2, <5>3, <5>5 DEF Spends
        <5>6. CASE ok' = FALSE /\ Commands' = Commands
          BY <1>4, <2>1, <3>2, <4>2, <5>2, <5>4, <5>6 DEF linkView, hostView
        <5>7. QED
          BY <5>1, <5>2, <5>5, <5>6, SendAdds
      <4>3. QED
        BY <3>1, <4>1, <4>2 DEF nRF8001BleUartTx
    <3>4. QED
      BY <3>3 DEF HostEffect
  <2>4. CASE CallbackReturns \/ FillEnds \/ TimesOut
    <3>1. UNCHANGED <<lineVars, deviceVars, stateVars>> /\ pc # "handle"
      BY <2>4 DEF CallbackReturns, FillEnds, TimesOut
    <3>2. UNCHANGED linkView
      BY <1>4, <2>1, <3>1
      DEF linkView, hostView, lineVars, deviceVars, stateVars, Commands
    <3>3. QED
      BY <3>2 DEF HostEffect
  <2>5. CASE aci_loop /\ ~LoopBegins /\ ~SayHello /\ ~CallbackReturns
    <3>1. pc = "handle" /\ out \in Evt /\ Stream[1] = out /\ Drops(Stream, Stream')
      <4>1. pc = "handle"
        BY <2>5 DEF aci_loop, Handles, HandleStarted, HandleCmdRsp, HandleConnected,
                    HandlePipeStatus, HandleTiming, HandleDisconnected, HandleHwError, HandleData,
                    HandleControlPoint, HandleCredit, HandlePipeError
      <4>2. QED
        BY <2>1, <4>1, InHandFirst DEF WellTyped
    <3>2. HandledAs(out)
      BY <1>1, <2>5, <3>1, HandlerEffects
    <3>3. Handled
      BY <2>1, <3>1, <3>2 DEF HandledAs, Handled
    <3>4. QED
      BY <3>3 DEF HostEffect
  <2>6. QED
    BY <1>9, <2>2, <2>3, <2>4, <2>5
<1>10. QED
  BY <1>3, <1>5, <1>6, <1>7, <1>8, <1>9 DEF Host, do_aci_setup

(* The device and its peer. *)
LEMMA DeviceEffects ==
    ASSUME WellTyped, WellTyped', Device, faults = 0, faults' = 0
    PROVE  DeviceEffect
<1>1. /\ TypeOK /\ DeviceTypeOK /\ air \in Nat /\ air \in 0 .. Credits
      /\ Commands \in Seq(Cmd) /\ Events \in Seq(Evt) /\ Stream \in Seq(Evt)
  BY Streams, DeviceAssumption DEF WellTyped, TypeOK, DeviceTypeOK
<1>2. UNCHANGED <<lineVars, pc, stateVars, setupVars>> /\ DeviceNext
  BY DEF Device, HwFault
<1>3. UNCHANGED <<aci_tx_q, aci_rx_q, out, pc, hostView, InHand>>
  BY <1>2 DEF lineVars, stateVars, hostView, InHand
<1>4. ASSUME NEW e \in Evt, Raise(e)
      PROVE  Raised(e)
  <2>1. Events' = Append(Events, e)
    BY <1>1, <1>3, <1>4, RaiseStream
  <2>2. Stream' = Append(Stream, e)
    <3>1. Stream' = InHand \o Append(Events, e)
      BY <1>3, <2>1 DEF Stream
    <3>2. InHand \in Seq(Evt)
      BY EmptySeq DEF InHand, WellTyped
    <3>3. \A s, t \in Seq(Evt), x \in Evt : s \o Append(t, x) = Append(s \o t, x)
      OBVIOUS
    <3>4. QED
      BY <1>1, <3>1, <3>2, <3>3 DEF Stream
  <2>3. QED
    BY <1>1, <1>3, <2>1, <2>2, AppendAdds DEF Raised
<1>5. UNCHANGED pending => UNCHANGED <<Events, Stream>>
  BY <1>3 DEF Events, Stream
<1>6. UNCHANGED inbox => UNCHANGED Commands
  BY <1>3 DEF Commands
<1>7. ASSUME NEW op, Executes(op)
      PROVE  /\ Drops(Commands, Commands') /\ Commands[1].op = op
             /\ Head(inbox).op = op /\ op \in Plain \cup {"setup"}
  <2>1. /\ Commands # <<>> /\ Head(Commands).op = op /\ Commands' = Tail(Commands)
        /\ Head(inbox) = Head(Commands)
    BY <1>1, <1>3, <1>7, ExecuteStream
  <2>2. Head(Commands) \in Cmd
    BY <1>1, <2>1, HeadTailProperties
  <2>3. QED
    BY <1>1, <2>1, <2>2, TailDrops DEF Cmd
<1>8. CASE Boots
  <2>1. PICK m \in {"setup", "standby"} : mode' = m /\ Raise(Started(m, FALSE))
    BY <1>8 DEF Boots
  <2>2. Started(m, FALSE) \in Evt
    BY EventsRaised
  <2>3. Raised(Started(m, FALSE))
    BY <1>4, <2>1, <2>2
  <2>4. CreditsOf(Started(m, FALSE)) = 0
    BY DEF Started, CreditsOf, ReturnsCredit
  <2>5. Booted
    BY <1>6, <1>8, <2>1, <2>2, <2>3, <2>4 DEF Boots, Booted, Started
  <2>6. QED
    BY <2>5 DEF DeviceEffect
<1>9. CASE ExecSetup \/ ExecConnect \/ ExecDisconnect \/ ExecQuery
  <2>1. PICK op \in Plain \cup {"setup"} : Executes(op) /\ op # "send_data"
    BY <1>7, <1>9 DEF ExecSetup, ExecConnect, ExecDisconnect, ExecQuery
  <2>2. PICK s \in Status : Reply(s)
    BY <1>9 DEF ExecSetup, ExecConnect, ExecDisconnect, ExecQuery, Status
  <2>3. Drops(Commands, Commands') /\ Commands[1].op = op /\ Head(inbox).op = op
    BY <1>7, <2>1
  <2>4. CmdRsp(op, s) \in Evt
    BY EventsRaised
  <2>5. Raised(CmdRsp(op, s))
    BY <1>4, <2>2, <2>3, <2>4 DEF Reply
  <2>6. CreditsOf(CmdRsp(op, s)) = 0 /\ CmdRsp(op, s).op = "cmd_rsp"
    BY DEF CmdRsp, CreditsOf, ReturnsCredit
  <2>7. \/ UNCHANGED <<mode, air>>
        \/ mode = "setup" /\ mode' = "reset" /\ UNCHANGED air
        \/ Commands[1].op = "connect" /\ mode = "standby" /\ mode' = "advertising" /\ UNCHANGED air
        \/ mode = "connected" /\ mode' = "closing" /\ air' = 0
    <3>1. CASE ExecConnect
      <4>1. Commands[1].op = "connect"
        BY <1>7, <3>1 DEF ExecConnect
      <4>2. QED
        BY <3>1, <4>1 DEF ExecConnect
    <3>2. QED
      BY <1>9, <3>1 DEF ExecSetup, ExecDisconnect, ExecQuery
  <2>8. Answered
    BY <2>1, <2>3, <2>4, <2>5, <2>6, <2>7 DEF Answered
  <2>9. QED
    BY <2>8 DEF DeviceEffect
<1>10. CASE ExecSendData
  <2>1. Drops(Commands, Commands') /\ Commands[1].op = "send_data" /\ UNCHANGED mode
    BY <1>7, <1>10 DEF ExecSendData
  <2>2. PipeError(FALSE) \in Evt
    BY EventsRaised, Zenon
  <2>3. CreditsOf(PipeError(FALSE)) = 1 /\ PipeError(FALSE).op = "pipe_error"
    BY DEF PipeError, CreditsOf, ReturnsCredit
  <2>4. Delivered \/ Returned
    BY <1>3, <1>4, <1>5, <1>10, <2>1, <2>2, <2>3 DEF ExecSendData, Delivered, Returned
  <2>5. QED
    BY <2>4 DEF DeviceEffect
<1>11. CASE PeerConnects \/ LinkDrops
  <2>1. Simple("connected") \in Evt /\ Simple("disconnected") \in Evt
    BY EventsRaised, Zenon
  <2>2. \A op \in {"connected", "disconnected"} :
           CreditsOf(Simple(op)) = 0 /\ Simple(op).op = op
    BY DEF Simple, CreditsOf, ReturnsCredit
  <2>3. LinkUp \/ LinkDown
    BY <1>4, <1>6, <1>11, <2>1, <2>2
    DEF PeerConnects, LinkDrops, Volunteer, LinkUp, LinkDown, Linking
  <2>4. QED
    BY <2>3 DEF DeviceEffect
<1>12. CASE PeerSubscribes \/ PeerWrites \/ PeerReports
  <2>1. PICK e \in Evt : /\ Raise(e) /\ CreditsOf(e) = 0
                         /\ e.op \in {"pipe_status", "data_received", "pipe_error", "timing"}
    <3>1. CASE PeerSubscribes
      <4>1. open' \in SUBSET TxPipes /\ Raise(PipeStatus(open'))
        BY <1>1, <3>1 DEF PeerSubscribes, Volunteer, DeviceTypeOK
      <4>2. PipeStatus(open') \in Evt
        BY <4>1, EventsRaised
      <4>3. QED
        BY <4>1, <4>2 DEF PipeStatus, CreditsOf, ReturnsCredit
    <3>2. CASE PeerWrites
      <4>1. PICK w \in Writes : Raise(Received(w))
        BY <3>2 DEF PeerWrites, Volunteer
      <4>2. Received(w) \in Evt
        BY EventsRaised
      <4>3. QED
        BY <4>1, <4>2 DEF Received, CreditsOf, ReturnsCredit
    <3>3. CASE PeerReports
      <4>1. PipeError(TRUE) \in Evt /\ Simple("timing") \in Evt
        BY EventsRaised, Zenon
      <4>2. QED
        BY <3>3, <4>1 DEF PeerReports, Volunteer, PipeError, Simple, CreditsOf, ReturnsCredit
    <3>4. QED
      BY <1>12, <3>1, <3>2, <3>3
  <2>2. mode = "connected" /\ UNCHANGED <<inbox, mode, air>>
    BY <1>12 DEF PeerSubscribes, PeerWrites, PeerReports
  <2>3. Reported
    BY <1>4, <1>6, <2>1, <2>2 DEF Reported
  <2>4. QED
    BY <2>3 DEF DeviceEffect
<1>13. CASE PeerAcks
  <2>1. PICK n \in 1 .. air : air' = air - n /\ Raise(Credit(n))
    BY <1>13 DEF PeerAcks, Volunteer
  <2>2. n \in 1 .. Credits
    BY <1>1, DeviceAssumption
  <2>3. Credit(n) \in Evt
    BY <2>2, EventsRaised
  <2>4. CreditsOf(Credit(n)) = n /\ Credit(n).op = "data_credit"
    BY DEF Credit, CreditsOf
  <2>5. Raised(Credit(n))
    BY <1>4, <2>1, <2>3
  <2>6. Acked
    BY <1>6, <1>13, <2>1, <2>3, <2>4, <2>5 DEF PeerAcks, Acked
  <2>7. QED
    BY <2>6 DEF DeviceEffect
<1>14. QED
  BY <1>2, <1>8, <1>9, <1>10, <1>11, <1>12, <1>13 DEF DeviceNext, Executed, PeerNext

-----------------------------------------------------------------------------
(* The inductive invariant.  It speaks of the two streams: the commands on   *)
(* their way to the device, and the events on their way to the host with the *)
(* one in its hands.                                                         *)

\* Of a device that could advertise, a command to do so, and an event that
\* will lead to that command, there is at most one.
OneToken ==
    /\ \A i \in DOMAIN Stream : Stream[i].op # "hw_error"
    /\ mode # "standby" =>
          /\ \A i \in DOMAIN Commands : Commands[i].op # "connect"
          /\ \A i \in DOMAIN Stream : ~Restart(Stream[i])
    /\ \A i \in DOMAIN Commands, j \in DOMAIN Stream :
          Commands[i].op = "connect" => ~Restart(Stream[j])
    /\ \A i, j \in DOMAIN Commands :
          Commands[i].op = "connect" /\ Commands[j].op = "connect" => i = j
    /\ \A i, j \in DOMAIN Stream :
          Restart(Stream[i]) /\ Restart(Stream[j]) => i = j

\* Open pipes, and news of a link and of its pipes, end with the news that the
\* link broke.
PipesFollow ==
    /\ pipes_open # {} =>
          Linking(mode) \/ \E j \in DOMAIN Events : Events[j].op = "disconnected"
    /\ \A i \in DOMAIN Stream : Stream[i].op \in {"connected", "pipe_status"} =>
          Linking(mode) \/ \E j \in DOMAIN Stream : j > i /\ Stream[j].op = "disconnected"

\* A connect command, a device that advertises, and a link the host does not
\* know of yet come without data.
DataBehind ==
    /\ \A i, j \in DOMAIN Commands :
          i < j /\ Commands[i].op = "connect" => Commands[j].op # "send_data"
    /\ mode = "advertising" => \A i \in DOMAIN Commands : Commands[i].op # "send_data"
    /\ mode # "connected" => air = 0

NewLink ==
    \A p \in DOMAIN Stream : Stream[p].op = "connected" =>
        /\ pipes_open = {} /\ air = 0
        /\ \A i \in DOMAIN Commands : Commands[i].op # "send_data"
        /\ \A q \in DOMAIN Stream :
              /\ q < p => Stream[q].op \notin {"pipe_status", "disconnected"}
              /\ q > p => CreditsOf(Stream[q]) = 0 /\ Stream[q].op # "connected"

\* The credits were announced before the device could be made to advertise.
Announced ==
    /\ data_credit_total \in {0, Credits}
    /\ \/ mode \in {"advertising", "connected", "closing"}
       \/ \E i \in DOMAIN Commands : Commands[i].op = "connect"
       \/ \E i \in DOMAIN Stream : Stream[i].op = "disconnected"
       => data_credit_total = Credits

Known == \A i \in DOMAIN Stream : Stream[i].op # "connected"

\* All credits there are.
AllCredits == data_credit_available + PacketsQueued + air + CreditsReturning

Counted ==
    /\ AllCredits <= 2 * Credits
    /\ Known /\ (Linking(mode) \/ \E j \in DOMAIN Events : Events[j].op = "disconnected")
          => AllCredits <= Credits
    /\ Known /\ mode = "connected" => AllCredits = data_credit_total

Flow == OneToken /\ PipesFollow /\ DataBehind /\ NewLink /\ Announced /\ Counted
-----------------------------------------------------------------------------
(* Each part is preserved. *)

(* What is on its way to the host is in the stream. *)
LEMMA EventsInStream ==
    ASSUME WellTyped
    PROVE  \A j \in DOMAIN Events : \E i \in DOMAIN Stream : Stream[i] = Events[j]
<1>1. CASE pc # "handle"
  BY <1>1, InHandFirst
<1>2. CASE pc = "handle"
  BY <1>2, InHandFirst DEF Drops
<1>3. QED
  BY <1>1, <1>2

(* Never two events and commands that make the device advertise. *)
LEMMA OneTokenStep ==
    ASSUME OneToken, Effect
    PROVE  OneToken'
<1>1. CASE UNCHANGED linkView \/ Fetches
  BY <1>1 DEF linkView, Fetches, OneToken
<1>2. CASE Queues \/ Spends
  <2>1. PICK c : /\ c.op # "connect" /\ Adds(Commands, Commands', c)
                 /\ UNCHANGED <<Stream, mode>>
    BY <1>2 DEF Queues, Spends, Command
  <2>2. \A i \in DOMAIN Commands' :
           Commands'[i].op = "connect" => i \in DOMAIN Commands /\ Commands[i].op = "connect"
    BY <2>1, AddsPositions
  <2>3. QED
    BY <2>1, <2>2 DEF OneToken
<1>3. CASE Removed \/ Handled
  <2>1. Drops(Stream, Stream') /\ UNCHANGED mode
    BY <1>3 DEF Removed, Handled
  <2>2. /\ 1 \in DOMAIN Stream
        /\ \A i \in DOMAIN Stream' :
              i \in Int /\ i + 1 \in DOMAIN Stream /\ i + 1 # 1 /\ Stream'[i] = Stream[i + 1]
    BY <2>1, DropsPositions
  <2>3. CASE UNCHANGED Commands
    BY <2>1, <2>2, <2>3 DEF OneToken
  <2>4. CASE \E c : c.op # "connect" /\ Adds(Commands, Commands', c)
    <3>1. \A i \in DOMAIN Commands' :
             Commands'[i].op = "connect" => i \in DOMAIN Commands /\ Commands[i].op = "connect"
      BY <2>4, AddsPositions
    <3>2. QED
      BY <2>1, <2>2, <3>1 DEF OneToken
  <2>5. CASE \E c : Adds(Commands, Commands', c) /\ Restart(Stream[1])
    <3> PICK c : Adds(Commands, Commands', c) /\ Restart(Stream[1])
      BY <2>5
    <3>1. PICK n \in Int :
             \A i \in DOMAIN Commands' : i = n \/ (i \in DOMAIN Commands /\ Commands'[i] = Commands[i])
      BY AddsPositions
    <3>2. \A i \in DOMAIN Stream' : ~Restart(Stream'[i])
      BY <2>2, <2>5 DEF OneToken
    <3>3. mode' = "standby" /\ \A i \in DOMAIN Commands : Commands[i].op # "connect"
      BY <2>1, <2>2, <2>5 DEF OneToken
    <3>4. QED
      BY <2>2, <3>1, <3>2, <3>3 DEF OneToken
  <2>6. QED
    BY <1>3, <2>2, <2>3, <2>4, <2>5 DEF Removed, Handled, OneToken
<1>4. ASSUME NEW e, Raised(e), ~Restart(e), e.op # "hw_error"
      PROVE  \A i \in DOMAIN Stream' :
                /\ Stream'[i].op # "hw_error"
                /\ Restart(Stream'[i]) => i \in DOMAIN Stream /\ Restart(Stream[i])
  BY <1>4, AddsPositions DEF Raised, OneToken
<1>5. Drops(Commands, Commands') =>
         /\ 1 \in DOMAIN Commands
         /\ \A i \in DOMAIN Commands' :
              i \in Int /\ i + 1 \in DOMAIN Commands /\ i + 1 # 1 /\ Commands'[i] = Commands[i + 1]
  BY DropsPositions
<1>6. CASE LinkDown \/ Booted
  <2>1. /\ mode # "standby" /\ mode' \in {"standby", "setup"} /\ UNCHANGED Commands
        /\ \E e : Raised(e) /\ e.op # "hw_error" /\ (Restart(e) => mode' = "standby")
    BY <1>6 DEF LinkDown, Booted, Linking, Restart
  <2> PICK e : Raised(e) /\ e.op # "hw_error" /\ (Restart(e) => mode' = "standby")
    BY <2>1
  <2>2. PICK n \in Int :
           \A i \in DOMAIN Stream' :
              \/ i = n /\ Stream'[i] = e
              \/ i \in DOMAIN Stream /\ Stream'[i] = Stream[i]
    BY AddsPositions DEF Raised
  <2>3. QED
    BY <2>1, <2>2 DEF OneToken
<1>7. CASE Answered
  <2>1. PICK e : Raised(e) /\ ~Restart(e) /\ e.op # "hw_error"
    BY <1>7 DEF Answered, Restart
  <2>2. mode # "standby" => mode' # "standby"
    BY <1>7 DEF Answered
  <2>3. mode = "standby" /\ mode' # "standby" => Commands[1].op = "connect"
    BY <1>7 DEF Answered
  <2>4. QED
    BY <1>4, <1>5, <1>7, <2>1, <2>2, <2>3 DEF OneToken, Answered
<1>8. CASE Delivered \/ Returned
  <2>1. /\ Drops(Commands, Commands') /\ UNCHANGED mode
        /\ UNCHANGED Stream \/ \E e : Raised(e) /\ ~Restart(e) /\ e.op # "hw_error"
    BY <1>8 DEF Delivered, Returned, Restart
  <2>2. QED
    BY <1>4, <1>5, <2>1 DEF OneToken
<1>9. CASE LinkUp \/ Reported \/ Acked
  <2>1. /\ UNCHANGED Commands /\ mode # "standby" /\ mode' # "standby"
        /\ \E e : Raised(e) /\ ~Restart(e) /\ e.op # "hw_error"
    BY <1>9 DEF LinkUp, Reported, Acked, Restart
  <2>2. QED
    BY <1>4, <2>1 DEF OneToken
<1>10. QED
  BY <1>1, <1>2, <1>3, <1>6, <1>7, <1>8, <1>9 DEF Effect, HostEffect, DeviceEffect

(* A raised event is the last one; the others stay where they are. *)
LEMMA RaisedPositions ==
    ASSUME NEW e, Raised(e)
    PROVE  /\ \E n \in Int :
                 /\ n \in DOMAIN Stream' /\ Stream'[n] = e
                 /\ \A i \in DOMAIN Stream :
                       i \in Int /\ i < n /\ i \in DOMAIN Stream' /\ Stream'[i] = Stream[i]
                 /\ \A i \in DOMAIN Stream' : i = n \/ i \in DOMAIN Stream
           /\ \E j \in DOMAIN Events' : Events'[j] = e
           /\ \A j \in DOMAIN Events : j \in DOMAIN Events' /\ Events'[j] = Events[j]
<1>1. Adds(Stream, Stream', e) /\ Adds(Events, Events', e)
  BY DEF Raised
<1>2. PICK m \in Int :
         /\ m \in DOMAIN Events' /\ Events'[m] = e
         /\ \A j \in DOMAIN Events : j \in DOMAIN Events' /\ Events'[j] = Events[j]
  BY <1>1, AddsPositions
<1>3. QED
  BY <1>1, <1>2, AddsPositions

(* The pipes follow the link. *)
LEMMA PipesFollowStep ==
    ASSUME PipesFollow, Effect
    PROVE  PipesFollow'
<1>1. CASE UNCHANGED linkView \/ Queues \/ Spends
  BY <1>1 DEF linkView, hostView, Queues, Spends, PipesFollow
<1>2. CASE Fetches
  <2>1. /\ Stream = Events /\ UNCHANGED <<mode, Stream>>
        /\ pipes_open' = IF Stream[1].op = "pipe_status" THEN Stream[1].open
                         ELSE IF Stream[1].op = "disconnected" THEN {} ELSE pipes_open
    BY <1>2 DEF Fetches
  <2>2. /\ 1 \in DOMAIN Events
        /\ \A i \in DOMAIN Events :
              i \in Int /\ (i = 1 \/ (i > 1 /\ i - 1 \in DOMAIN Events' /\ Events'[i - 1] = Events[i]))
    BY <1>2, DropsPositions DEF Fetches
  <2>3. ASSUME pipes_open' # {}, ~Linking(mode)
        PROVE  \E j \in DOMAIN Events : j > 1 /\ Events[j].op = "disconnected"
    <3>1. CASE Stream[1].op = "pipe_status"
      BY <2>1, <2>2, <2>3, <3>1 DEF PipesFollow
    <3>2. CASE Stream[1].op # "pipe_status"
      BY <2>1, <2>2, <2>3, <3>2 DEF PipesFollow
    <3>3. QED
      BY <3>1, <3>2
  <2>4. pipes_open' # {} =>
           Linking(mode) \/ \E j \in DOMAIN Events' : Events'[j].op = "disconnected"
    BY <2>2, <2>3
  <2>5. QED
    BY <2>1, <2>4 DEF PipesFollow
<1>3. CASE Removed \/ Handled
  <2>1. /\ Drops(Stream, Stream') /\ UNCHANGED mode
        /\ pipes_open' \in {pipes_open, {}}
    BY <1>3 DEF Removed, Handled, hostView
  <2>2. /\ \A i \in DOMAIN Stream' :
              i \in Int /\ i + 1 \in DOMAIN Stream /\ i + 1 # 1 /\ Stream'[i] = Stream[i + 1]
        /\ \A i \in DOMAIN Stream :
              i \in Int /\ (i = 1 \/ (i > 1 /\ i - 1 \in DOMAIN Stream' /\ Stream'[i - 1] = Stream[i]))
    BY <2>1, DropsPositions
  <2>3. ASSUME NEW i \in DOMAIN Stream', Stream'[i].op \in {"connected", "pipe_status"}, ~Linking(mode)
        PROVE  \E j \in DOMAIN Stream' : j > i /\ Stream'[j].op = "disconnected"
    <3>1. i \in Int /\ i + 1 \in DOMAIN Stream /\ Stream'[i] = Stream[i + 1]
      BY <2>2
    <3>2. PICK j \in DOMAIN Stream : j > i + 1 /\ Stream[j].op = "disconnected"
      BY <2>3, <3>1 DEF PipesFollow
    <3>3. j \in Int /\ 1 \in DOMAIN Stream
      BY <2>1, <2>2, DropsPositions
    <3>4. j # 1
      <4>1. Drops(Stream, Stream') => \A k \in DOMAIN Stream' : k > 0
        BY DEF Drops
      <4>2. QED
        BY <2>1, <2>3, <3>1, <3>2, <4>1
    <3>5. j - 1 \in DOMAIN Stream' /\ Stream'[j - 1] = Stream[j] /\ j - 1 > i
      BY <2>2, <3>1, <3>2, <3>3, <3>4
    <3>6. QED
      BY <3>2, <3>5
  <2>4. (\E j \in DOMAIN Events : Events[j].op = "disconnected") =>
           \E j \in DOMAIN Events' : Events'[j].op = "disconnected"
    <3>1. CASE Handled
      BY <3>1 DEF Handled
    <3>2. CASE Removed
      BY <3>2, DropsPositions DEF Removed
    <3>3. QED
      BY <1>3, <3>1, <3>2
  <2>5. QED
    BY <2>1, <2>3, <2>4 DEF PipesFollow
<1>4. ASSUME NEW e, Raised(e), UNCHANGED pipes_open,
             e.op = "pipe_status" \/ e.op = "connected" => Linking(mode'),
             Linking(mode) /\ ~Linking(mode') => e.op = "disconnected"
      PROVE  PipesFollow'
  <2>1. PICK n \in Int :
                 /\ n \in DOMAIN Stream' /\ Stream'[n] = e
                 /\ \A i \in DOMAIN Stream :
                       i \in Int /\ i < n /\ i \in DOMAIN Stream' /\ Stream'[i] = Stream[i]
                 /\ \A i \in DOMAIN Stream' : i = n \/ i \in DOMAIN Stream
    BY <1>4, RaisedPositions
  <2>2. /\ \E j \in DOMAIN Events' : Events'[j] = e
        /\ \A j \in DOMAIN Events : j \in DOMAIN Events' /\ Events'[j] = Events[j]
    BY <1>4, RaisedPositions
  <2>3. ASSUME NEW i \in DOMAIN Stream', Stream'[i].op \in {"connected", "pipe_status"}, ~Linking(mode')
        PROVE  \E j \in DOMAIN Stream' : j > i /\ Stream'[j].op = "disconnected"
    BY <1>4, <2>1, <2>3 DEF PipesFollow
  <2>4. pipes_open' # {} =>
           Linking(mode') \/ \E j \in DOMAIN Events' : Events'[j].op = "disconnected"
    BY <1>4, <2>2 DEF PipesFollow
  <2>5. QED
    BY <2>3, <2>4 DEF PipesFollow
<1>5. CASE Booted \/ Answered \/ Returned
  <2>1. \E e : /\ Raised(e) /\ UNCHANGED pipes_open
               /\ e.op \notin {"pipe_status", "connected"}
               /\ Linking(mode) => Linking(mode')
    BY <1>5 DEF Booted, Answered, Returned, Raised, hostView, Linking
  <2>2. QED
    BY <1>4, <2>1
<1>6. CASE LinkUp \/ Reported \/ Acked \/ LinkDown
  <2>1. \E e : /\ Raised(e) /\ UNCHANGED pipes_open
               /\ Linking(mode') \/ e.op = "disconnected"
    BY <1>6 DEF LinkUp, Reported, Acked, LinkDown, Raised, hostView, Linking
  <2>2. QED
    BY <1>4, <2>1
<1>7. CASE Delivered
  BY <1>7 DEF Delivered, hostView, PipesFollow
<1>8. QED
  BY <1>1, <1>2, <1>3, <1>5, <1>6, <1>7 DEF Effect, HostEffect, DeviceEffect

(* While the pipes are open nothing can make the device advertise. *)
LEMMA PipesOpenNoToken ==
    ASSUME WellTyped, OneToken, PipesFollow, pipes_open # {}
    PROVE  /\ \A i \in DOMAIN Commands : Commands[i].op # "connect"
           /\ mode # "advertising"
<1>1. CASE Linking(mode)
  BY <1>1 DEF OneToken, Linking
<1>2. CASE \E j \in DOMAIN Events : Events[j].op = "disconnected"
  <2>1. PICK i \in DOMAIN Stream : Stream[i].op = "disconnected"
    BY <1>2, EventsInStream
  <2>2. QED
    BY <2>1 DEF OneToken, Restart
<1>3. QED
  BY <1>1, <1>2 DEF PipesFollow

(* Data stays behind the link it was meant for. *)
LEMMA DataBehindStep ==
    ASSUME WellTyped, OneToken, PipesFollow, DataBehind, Effect
    PROVE  DataBehind'
<1>1. CASE UNCHANGED linkView \/ Fetches \/ Removed \/ (Handled /\ UNCHANGED Commands)
  BY <1>1 DEF linkView, Fetches, Removed, Handled, DataBehind
<1>2. ASSUME NEW c, Adds(Commands, Commands', c), c.op # "send_data", UNCHANGED <<mode, air>>
      PROVE  DataBehind'
  <2>1. PICK n \in Int :
           /\ \A i \in DOMAIN Commands : i \in Int /\ i < n
           /\ \A i \in DOMAIN Commands' :
                 \/ i = n /\ Commands'[i] = c
                 \/ i \in DOMAIN Commands /\ Commands'[i] = Commands[i]
    BY <1>2, AddsPositions
  <2>2. QED
    BY <1>2, <2>1 DEF DataBehind
<1>3. CASE Queues \/ (Handled /\ ~UNCHANGED Commands)
  <2>1. \E c : Adds(Commands, Commands', c) /\ c.op # "send_data" /\ UNCHANGED <<mode, air>>
    BY <1>3 DEF Queues, Handled
  <2>2. QED
    BY <1>2, <2>1
<1>4. CASE Spends
  <2>1. /\ \A i \in DOMAIN Commands : Commands[i].op # "connect"
        /\ mode # "advertising"
    BY <1>4, PipesOpenNoToken DEF Spends
  <2>2. PICK n \in Int :
           /\ Commands'[n] = Command("send_data")
           /\ \A i \in DOMAIN Commands' :
                 i = n \/ (i \in DOMAIN Commands /\ Commands'[i] = Commands[i])
    BY <1>4, AddsPositions DEF Spends
  <2>3. \A i \in DOMAIN Commands' : Commands'[i].op # "connect"
    BY <2>1, <2>2 DEF Command
  <2>4. QED
    BY <1>4, <2>1, <2>3 DEF Spends, DataBehind
<1>5. Drops(Commands, Commands') =>
         /\ 1 \in DOMAIN Commands
         /\ \A i \in DOMAIN Commands' :
              i \in Int /\ i + 1 \in DOMAIN Commands /\ i + 1 > 1 /\ Commands'[i] = Commands[i + 1]
  BY DEF Drops
<1>6. CASE Answered
  <2>1. Drops(Commands, Commands')
    BY <1>6 DEF Answered
  <2>2. \A i, j \in DOMAIN Commands' :
           i < j /\ Commands'[i].op = "connect" => Commands'[j].op # "send_data"
    BY <1>5, <2>1 DEF DataBehind
  <2>3. ASSUME mode' = "advertising"
        PROVE  \A i \in DOMAIN Commands' : Commands'[i].op # "send_data"
    <3>1. mode = "advertising" \/ Commands[1].op = "connect"
      BY <1>6, <2>3 DEF Answered
    <3>2. QED
      BY <1>5, <2>1, <3>1 DEF DataBehind
  <2>4. mode' # "connected" => air' = 0
    BY <1>6 DEF Answered, DataBehind
  <2>5. QED
    BY <2>2, <2>3, <2>4 DEF DataBehind
<1>7. CASE Delivered \/ Returned
  <2>1. Drops(Commands, Commands') /\ UNCHANGED mode /\ (mode # "connected" => UNCHANGED air)
    BY <1>7 DEF Delivered, Returned
  <2>2. QED
    BY <1>5, <2>1 DEF DataBehind
<1>8. CASE Booted \/ LinkUp \/ Reported \/ Acked \/ LinkDown
  <2>1. /\ UNCHANGED Commands /\ mode' # "advertising"
        /\ mode' # "connected" => air' = 0
    BY <1>8 DEF Booted, LinkUp, Reported, Acked, LinkDown, DataBehind
  <2>2. QED
    BY <2>1 DEF DataBehind
<1>9. QED
  BY <1>1, <1>3, <1>4, <1>6, <1>7, <1>8 DEF Effect, HostEffect, DeviceEffect

(* Neither open pipes nor news of an earlier link are left when a peer connects
   to a device that advertises. *)
LEMMA CleanStart ==
    ASSUME WellTyped, OneToken, PipesFollow, mode = "advertising"
    PROVE  /\ pipes_open = {}
           /\ \A i \in DOMAIN Stream :
                 Stream[i].op \notin {"connected", "pipe_status", "disconnected"}
<1>1. \A i \in DOMAIN Stream : Stream[i].op # "disconnected"
  BY DEF OneToken, Restart
<1>2. \A j \in DOMAIN Events : Events[j].op # "disconnected"
  BY <1>1, EventsInStream
<1>3. ~Linking(mode)
  BY DEF Linking
<1>4. QED
  BY <1>1, <1>2, <1>3 DEF PipesFollow

(* A link the host does not know of yet starts with no data and no credits
   in the queues. *)
LEMMA NewLinkStep ==
    ASSUME WellTyped, OneToken, PipesFollow, DataBehind, NewLink, Effect
    PROVE  NewLink'
<1>1. CASE UNCHANGED linkView
  BY <1>1 DEF linkView, hostView, NewLink
<1>2. CASE Known'
  BY <1>2 DEF Known, NewLink
<1>3. ASSUME NEW c, Adds(Commands, Commands', c), c.op # "send_data"
      PROVE  \A i \in DOMAIN Commands' : Commands'[i].op = "send_data" =>
                i \in DOMAIN Commands /\ Commands[i].op = "send_data"
  BY <1>3, AddsPositions
<1>4. CASE Queues
  <2>1. PICK c : Adds(Commands, Commands', c) /\ c.op # "send_data"
    BY <1>4 DEF Queues
  <2>2. QED
    BY <1>3, <1>4, <2>1 DEF Queues, hostView, NewLink
<1>5. CASE Spends /\ ~Known'
  BY <1>5 DEF Spends, Known, NewLink
<1>6. CASE Fetches
  <2>1. /\ 1 \in DOMAIN Stream
        /\ \A i \in DOMAIN Stream : i \in Int /\ (i = 1 \/ i > 1)
    BY <1>6, DropsPositions DEF Fetches
  <2>2. \A p \in DOMAIN Stream : Stream[p].op = "connected" => pipes_open' = {}
    BY <1>6, <2>1 DEF Fetches, NewLink
  <2>3. QED
    BY <1>6, <2>2 DEF Fetches, NewLink
<1>7. CASE Removed \/ Handled
  <2>1. /\ Drops(Stream, Stream') /\ UNCHANGED air
        /\ pipes_open = {} => pipes_open' = {}
        /\ \A i \in DOMAIN Commands' : Commands'[i].op = "send_data" =>
                i \in DOMAIN Commands /\ Commands[i].op = "send_data"
    BY <1>3, <1>7 DEF Removed, Handled, hostView
  <2>2. \A i \in DOMAIN Stream' :
           i \in Int /\ i + 1 \in DOMAIN Stream /\ Stream'[i] = Stream[i + 1]
    BY <2>1, DropsPositions
  <2>3. SUFFICES ASSUME NEW p \in DOMAIN Stream', Stream'[p].op = "connected"
                 PROVE  /\ pipes_open' = {} /\ air' = 0
                        /\ \A i \in DOMAIN Commands' : Commands'[i].op # "send_data"
                        /\ \A q \in DOMAIN Stream' :
                              /\ q < p => Stream'[q].op \notin {"pipe_status", "disconnected"}
                              /\ q > p => CreditsOf(Stream'[q]) = 0 /\ Stream'[q].op # "connected"
    BY DEF NewLink
  <2>4. p + 1 \in DOMAIN Stream /\ Stream[p + 1].op = "connected"
    BY <2>2, <2>3
  <2>5. /\ pipes_open = {} /\ air = 0
        /\ \A i \in DOMAIN Commands : Commands[i].op # "send_data"
        /\ \A q \in DOMAIN Stream :
              /\ q < p + 1 => Stream[q].op \notin {"pipe_status", "disconnected"}
              /\ q > p + 1 => CreditsOf(Stream[q]) = 0 /\ Stream[q].op # "connected"
    BY <2>4 DEF NewLink
  <2>6. QED
    BY <2>1, <2>2, <2>5
<1>8. CASE Delivered \/ Returned
  <2>1. 1 \in DOMAIN Commands /\ Commands[1].op = "send_data"
    BY <1>8, DropsPositions DEF Delivered, Returned
  <2>2. Known
    BY <2>1 DEF NewLink, Known
  <2>3. Known'
    <3>1. UNCHANGED Stream \/ \E e : Raised(e) /\ e.op # "connected"
      BY <1>8 DEF Delivered, Returned
    <3>2. QED
      BY <2>2, <3>1, RaisedPositions DEF Known
  <2>4. QED
    BY <1>2, <2>3
<1>9. ASSUME NEW e, Raised(e), e.op # "connected", CreditsOf(e) = 0, air' \in {air, 0},
             UNCHANGED Commands \/ Drops(Commands, Commands')
      PROVE  NewLink'
  <2>1. PICK n \in Int :
                 /\ n \in DOMAIN Stream' /\ Stream'[n] = e
                 /\ \A i \in DOMAIN Stream :
                       i \in Int /\ i < n /\ i \in DOMAIN Stream' /\ Stream'[i] = Stream[i]
                 /\ \A i \in DOMAIN Stream' : i = n \/ i \in DOMAIN Stream
    BY <1>9, RaisedPositions
  <2>2. SUFFICES ASSUME NEW p \in DOMAIN Stream', Stream'[p].op = "connected"
                 PROVE  /\ pipes_open' = {} /\ air' = 0
                        /\ \A i \in DOMAIN Commands' : Commands'[i].op # "send_data"
                        /\ \A q \in DOMAIN Stream' :
                              /\ q < p => Stream'[q].op \notin {"pipe_status", "disconnected"}
                              /\ q > p => CreditsOf(Stream'[q]) = 0 /\ Stream'[q].op # "connected"
    BY DEF NewLink
  <2>3. p \in DOMAIN Stream /\ Stream[p].op = "connected" /\ p < n
    BY <1>9, <2>1, <2>2
  <2>4. /\ pipes_open = {} /\ air = 0
        /\ \A i \in DOMAIN Commands : Commands[i].op # "send_data"
        /\ \A q \in DOMAIN Stream :
              /\ q < p => Stream[q].op \notin {"pipe_status", "disconnected"}
              /\ q > p => CreditsOf(Stream[q]) = 0 /\ Stream[q].op # "connected"
    BY <2>3 DEF NewLink
  <2>5. pipes_open' = {}
    BY <1>9, <2>4 DEF Raised, hostView
  <2>6. \A i \in DOMAIN Commands' : Commands'[i].op # "send_data"
    BY <1>9, <2>4, DropsPositions
  <2>7. QED
    BY <1>9, <2>1, <2>3, <2>4, <2>5, <2>6
<1>10. CASE Booted \/ Answered \/ Reported \/ LinkDown
  <2>1. \E e : /\ Raised(e) /\ e.op # "connected" /\ CreditsOf(e) = 0 /\ air' \in {air, 0}
               /\ UNCHANGED Commands \/ Drops(Commands, Commands')
    BY <1>10 DEF Booted, Answered, Reported, LinkDown
  <2>2. QED
    BY <1>9, <2>1
<1>11. CASE Acked
  <2>1. Known
    BY <1>11 DEF Acked, NewLink, Known
  <2>2. \E e : Raised(e) /\ e.op # "connected"
    BY <1>11 DEF Acked
  <2>3. Known'
    BY <2>1, <2>2, RaisedPositions DEF Known
  <2>4. QED
    BY <1>2, <2>3
<1>12. CASE LinkUp
  <2>1. /\ mode = "advertising" /\ mode # "connected" /\ UNCHANGED <<Commands, air>>
        /\ \E e : e.op = "connected" /\ Raised(e)
    BY <1>12 DEF LinkUp
  <2> PICK e : e.op = "connected" /\ Raised(e)
    BY <2>1
  <2>2. /\ pipes_open = {}
        /\ \A i \in DOMAIN Stream :
              Stream[i].op \notin {"connected", "pipe_status", "disconnected"}
    BY <2>1, CleanStart
  <2>3. air = 0 /\ \A i \in DOMAIN Commands : Commands[i].op # "send_data"
    BY <2>1 DEF DataBehind
  <2>4. PICK n \in Int :
                 /\ n \in DOMAIN Stream' /\ Stream'[n] = e
                 /\ \A i \in DOMAIN Stream :
                       i \in Int /\ i < n /\ i \in DOMAIN Stream' /\ Stream'[i] = Stream[i]
                 /\ \A i \in DOMAIN Stream' : i = n \/ i \in DOMAIN Stream
    BY RaisedPositions
  <2>5. pipes_open' = {}
    BY <2>2 DEF Raised, hostView
  <2>6. QED
    BY <2>1, <2>2, <2>3, <2>4, <2>5 DEF NewLink
<1>13. QED
  BY <1>1, <1>2, <1>4, <1>5, <1>6, <1>7, <1>8, <1>10, <1>11, <1>12
  DEF Effect, HostEffect, DeviceEffect

(* The credits are announced before the device is made to advertise. *)
LEMMA AnnouncedStep ==
    ASSUME WellTyped, OneToken, Announced, Effect
    PROVE  Announced'
<1> DEFINE Due == \/ mode \in {"advertising", "connected", "closing"}
                  \/ \E i \in DOMAIN Commands : Commands[i].op = "connect"
                  \/ \E i \in DOMAIN Stream : Stream[i].op = "disconnected"
<1>1. Announced <=> data_credit_total \in {0, Credits} /\ (Due => data_credit_total = Credits)
  BY DEF Announced
<1>2. Announced' <=> data_credit_total' \in {0, Credits} /\ (Due' => data_credit_total' = Credits)
  BY DEF Announced
<1>3. (Due' => Due) /\ UNCHANGED data_credit_total => Announced'
  BY <1>1, <1>2
<1> HIDE DEF Due
<1>4. \A c : Adds(Commands, Commands', c) /\ c.op # "connect" =>
         \A i \in DOMAIN Commands' : Commands'[i].op = "connect" =>
            i \in DOMAIN Commands /\ Commands[i].op = "connect"
  <2> SUFFICES ASSUME NEW c, Adds(Commands, Commands', c), c.op # "connect"
               PROVE  \A i \in DOMAIN Commands' : Commands'[i].op = "connect" =>
                         i \in DOMAIN Commands /\ Commands[i].op = "connect"
    OBVIOUS
  <2> QED
    BY AddsPositions
<1>5. Drops(Commands, Commands') =>
         \A i \in DOMAIN Commands' : i + 1 \in DOMAIN Commands /\ Commands'[i] = Commands[i + 1]
  BY DropsPositions
<1>6. Drops(Stream, Stream') =>
         /\ 1 \in DOMAIN Stream
         /\ \A i \in DOMAIN Stream' : i + 1 \in DOMAIN Stream /\ Stream'[i] = Stream[i + 1]
  BY DropsPositions
<1>7. \A e : Raised(e) /\ e.op # "disconnected" =>
         \A i \in DOMAIN Stream' : Stream'[i].op = "disconnected" =>
            i \in DOMAIN Stream /\ Stream[i].op = "disconnected"
  <2> SUFFICES ASSUME NEW e, Raised(e), e.op # "disconnected"
               PROVE  \A i \in DOMAIN Stream' : Stream'[i].op = "disconnected" =>
                         i \in DOMAIN Stream /\ Stream[i].op = "disconnected"
    OBVIOUS
  <2> QED
    BY RaisedPositions
<1>8. CASE UNCHANGED linkView \/ Fetches
  BY <1>3, <1>8 DEF linkView, hostView, Fetches, Due
<1>9. CASE Queues \/ Spends
  <2>1. /\ UNCHANGED <<Stream, mode, data_credit_total>>
        /\ \E c : Adds(Commands, Commands', c) /\ c.op # "connect"
    BY <1>9 DEF Queues, Spends, hostView, Command
  <2>2. QED
    BY <1>3, <1>4, <2>1 DEF Due
<1>10. CASE Removed
  BY <1>3, <1>6, <1>10 DEF Removed, hostView, Due
<1>11. CASE Handled
  <2>1. CASE data_credit_total' = Credits
    BY <1>2, <2>1
  <2>2. CASE UNCHANGED data_credit_total /\ Stream[1].op # "device_started"
    <3>1. \/ UNCHANGED Commands
          \/ \E c : Adds(Commands, Commands', c) /\ (c.op = "connect" => Stream[1].op = "disconnected")
      BY <1>6, <1>11, <2>2 DEF Handled, Restart, OneToken
    <3>2. QED
      BY <1>3, <1>4, <1>6, <1>11, <2>2, <3>1 DEF Handled, Due
  <2>3. QED
    BY <1>11, <2>1, <2>2 DEF Handled
<1>12. CASE Booted
  <2>1. /\ UNCHANGED <<Commands, data_credit_total>> /\ mode' \in {"setup", "standby"}
        /\ \E e : Raised(e) /\ e.op # "disconnected"
    BY <1>12 DEF Booted, Raised, hostView
  <2>2. QED
    BY <1>3, <1>7, <2>1 DEF Due
<1>13. CASE Answered
  <2>1. /\ Drops(Commands, Commands') /\ UNCHANGED data_credit_total
        /\ \E e : Raised(e) /\ e.op # "disconnected"
    BY <1>13 DEF Answered, Raised, hostView
  <2>2. mode' \in {"advertising", "connected", "closing"} =>
           \/ mode \in {"advertising", "connected", "closing"}
           \/ \E i \in DOMAIN Commands : Commands[i].op = "connect"
    <3>1. 1 \in DOMAIN Commands
      BY <2>1, DropsPositions
    <3>2. QED
      BY <1>13, <3>1 DEF Answered
  <2>3. QED
    BY <1>3, <1>5, <1>7, <2>1, <2>2 DEF Due
<1>14. CASE Delivered \/ Returned
  <2>1. /\ Drops(Commands, Commands') /\ UNCHANGED <<data_credit_total, mode>>
        /\ UNCHANGED Stream \/ \E e : Raised(e) /\ e.op # "disconnected"
    BY <1>14 DEF Delivered, Returned, Raised, hostView
  <2>2. QED
    BY <1>3, <1>5, <1>7, <2>1 DEF Due
<1>15. CASE LinkUp \/ Reported \/ Acked \/ LinkDown
  <2>1. Due /\ UNCHANGED data_credit_total
    BY <1>15 DEF LinkUp, Reported, Acked, LinkDown, Linking, Raised, hostView, Due
  <2>2. QED
    BY <1>1, <1>2, <2>1
<1>16. QED
  BY <1>8, <1>9, <1>10, <1>11, <1>12, <1>13, <1>14, <1>15 DEF Effect, HostEffect, DeviceEffect

\* A link the host knows of, or the news that it broke: the count is exact or
\* at most all credits.
Bounded == Linking(mode) \/ \E j \in DOMAIN Events : Events[j].op = "disconnected"

(* No credit is lost or made up. *)
LEMMA CountedStep ==
    ASSUME WellTyped, WellTyped', OneToken, DataBehind, NewLink, Announced, Counted, Effect
    PROVE  Counted'
<1>1. /\ data_credit_available \in Nat /\ data_credit_total \in 0 .. Credits
      /\ air \in 0 .. Credits /\ Credits \in Nat /\ air \in Nat
      /\ PacketsQueued \in Nat /\ CreditsReturning \in Nat
      /\ \A i \in DOMAIN Stream : Stream[i] \in Evt
  BY Streams, DeviceAssumption DEF WellTyped, TypeOK, DeviceTypeOK
<1>2. PacketsQueued' \in Nat /\ CreditsReturning' \in Nat
  <2>1. (WellTyped => PacketsQueued \in Nat /\ CreditsReturning \in Nat)'
    BY Streams, PTL
  <2>2. QED
    BY <2>1
<1>3. data_credit_available' \in Nat /\ air' \in Nat
  BY DeviceAssumption DEF WellTyped, TypeOK, DeviceTypeOK
<1>25. \A x, y : \A n \in Nat : x = y + n /\ y = 0 => x = n
  OBVIOUS
<1>24. AllCredits \in Nat /\ AllCredits' \in Nat
  <2>1. \A a, b, c, d \in Nat : a + b + c + d \in Nat
    OBVIOUS
  <2>2. AllCredits \in Nat
    BY <1>1, <2>1 DEF AllCredits
  <2>3. AllCredits' \in Nat
    BY <1>2, <1>3, <2>1 DEF AllCredits
  <2>4. QED
    BY <2>2, <2>3
<1>4. /\ AllCredits <= 2 * Credits
      /\ Known /\ Bounded => AllCredits <= Credits
      /\ Known /\ mode = "connected" => AllCredits = data_credit_total
  BY DEF Counted, Bounded
<1>5. SUFFICES /\ AllCredits' <= 2 * Credits
               /\ Known' /\ Bounded' => AllCredits' <= Credits
               /\ Known' /\ mode' = "connected" => AllCredits' = data_credit_total'
  BY DEF Counted, Bounded
<1>6. UNCHANGED Commands => UNCHANGED PacketsQueued
  BY DEF PacketsQueued
<1>7. UNCHANGED Stream => UNCHANGED <<CreditsReturning, Known>>
  BY DEF CreditsReturning, Stream, Known
<1>8. \A c : PacketsOf(c) = IF c.op = "send_data" THEN 1 ELSE 0
  BY DEF PacketsOf
<1>9. Drops(Stream, Stream') =>
         /\ 1 \in DOMAIN Stream
         /\ Known => Known'
         /\ Known' /\ Stream[1].op # "connected" => Known
  BY DropsPositions DEF Known
<1>10. ASSUME NEW e \in Evt, Raised(e)
       PROVE  /\ CreditsReturning' = CreditsReturning + CreditsOf(e)
              /\ UNCHANGED hostView
              /\ Known' => Known /\ e.op # "connected"
              /\ Bounded' => Linking(mode') \/ e.op = "disconnected" \/ Bounded
  <2>1. CreditsReturning' = CreditsReturning + CreditsOf(e) /\ UNCHANGED hostView
    BY <1>10, ReturnsAdded DEF Raised
  <2>2. Known' => Known /\ e.op # "connected"
    BY <1>10, RaisedPositions DEF Known
  <2>3. \A i \in DOMAIN Events' : Events'[i] = e \/ (i \in DOMAIN Events /\ Events'[i] = Events[i])
    BY <1>10, AddsPositions DEF Raised
  <2>4. Bounded' => Linking(mode') \/ e.op = "disconnected" \/ Bounded
    BY <2>3 DEF Bounded
  <2>5. QED
    BY <2>1, <2>2, <2>4
<1>11. CASE UNCHANGED linkView
  <2>1. UNCHANGED <<AllCredits, Known, Bounded, mode, data_credit_total>>
    BY <1>6, <1>7, <1>11 DEF linkView, hostView, AllCredits, Bounded
  <2>2. QED
    BY <1>4, <2>1
<1>12. CASE Queues \/ Spends
  <2>1. UNCHANGED AllCredits
    <3>1. CASE Queues
      <4>1. PICK c \in Cmd : c.op # "send_data" /\ Adds(Commands, Commands', c)
        BY <3>1 DEF Queues
      <4>2. PacketsQueued' = PacketsQueued + 0
        BY <1>8, <4>1, PacketsAdded
      <4>3. QED
        BY <1>1, <1>7, <3>1, <4>2 DEF Queues, hostView, AllCredits
    <3>2. CASE Spends
      <4>1. Command("send_data").op = "send_data"
        BY DEF Command
      <4>2. PacketsQueued' = PacketsQueued + 1
        BY <1>8, <3>2, <4>1, PacketsAdded DEF Spends
      <4>3. QED
        BY <1>1, <1>7, <3>2, <4>2 DEF Spends, AllCredits
    <3>3. QED
      BY <1>12, <3>1, <3>2
  <2>2. UNCHANGED <<Known, Bounded, mode, data_credit_total>>
    BY <1>7, <1>12 DEF Queues, Spends, hostView, Bounded
  <2>3. QED
    BY <1>4, <2>1, <2>2
<1>13. CASE Fetches
  <2>1. /\ UNCHANGED <<PacketsQueued, CreditsReturning, Known, mode, air, data_credit_total>>
        /\ Stream = Events /\ Drops(Events, Events')
    BY <1>6, <1>7, <1>13 DEF Fetches
  <2>2. Bounded' => Bounded
    BY <2>1, DropsPositions DEF Bounded
  <2>3. CASE Stream[1].op # "disconnected"
    <3>1. UNCHANGED AllCredits
      BY <1>13, <2>1, <2>3 DEF Fetches, AllCredits
    <3>2. QED
      BY <1>4, <2>1, <2>2, <3>1
  <2>4. CASE Stream[1].op = "disconnected"
    <3>1. 1 \in DOMAIN Stream /\ \A i \in DOMAIN Stream : i \in Int /\ (i = 1 \/ i > 1)
      BY <2>1, DropsPositions
    <3>2. Known
      BY <2>4, <3>1 DEF NewLink, Known
    <3>3. Bounded
      BY <2>1, <2>4, <3>1 DEF Bounded
    <3>4. data_credit_available' = data_credit_total
      BY <1>13, <2>4 DEF Fetches
    <3>5. AllCredits' <= 2 * Credits
      BY <1>1, <1>4, <2>1, <3>2, <3>3, <3>4 DEF AllCredits
    <3>6. ~Linking(mode)
      BY <2>4, <3>1 DEF OneToken, Restart, Linking
    <3>7. ~Bounded'
      <4>1. \A i \in DOMAIN Stream : i # 1 => Stream[i].op # "disconnected"
        BY <2>4, <3>1 DEF OneToken, Restart
      <4>2. \A j \in DOMAIN Events' : Events'[j].op # "disconnected"
        BY <2>1, <4>1, DropsPositions
      <4>3. QED
        BY <2>1, <3>6, <4>2 DEF Bounded
    <3>8. mode' # "connected"
      BY <2>1, <3>6 DEF Linking
    <3>9. QED
      BY <3>5, <3>7, <3>8
  <2>5. QED
    BY <2>3, <2>4
<1>14. CASE Removed
  <2>1. CreditsOf(Stream[1]) = 0 /\ Stream[1].op # "connected"
    BY <1>14 DEF Removed, CreditsOf, ReturnsCredit
  <2>2. CreditsReturning = CreditsReturning'
    <3>1. CreditsReturning = CreditsOf(Stream[1]) + CreditsReturning'
      BY <1>14, ReturnsDropped DEF Removed
    <3>2. QED
      BY <1>2, <1>25, <2>1, <3>1, Zenon
  <2>3. UNCHANGED <<AllCredits, mode, data_credit_total>>
    BY <1>6, <1>14, <2>2 DEF Removed, hostView, AllCredits
  <2>4. (Known' => Known) /\ (Bounded' => Bounded)
    BY <1>9, <1>14, <2>1, DropsPositions DEF Removed, Bounded
  <2>5. QED
    BY <1>4, <2>3, <2>4
<1>15. CASE Handled
  <2>1. /\ Drops(Stream, Stream') /\ UNCHANGED <<mode, air, Events>>
        /\ CreditsReturning = CreditsOf(Stream[1]) + CreditsReturning'
    BY <1>15, ReturnsDropped DEF Handled
  <2>2. UNCHANGED PacketsQueued
    <3>1. CASE UNCHANGED Commands
      BY <1>6, <3>1
    <3>2. CASE ~UNCHANGED Commands
      <4>1. PICK c \in Cmd : c.op # "send_data" /\ Adds(Commands, Commands', c)
        BY <1>15, <3>2 DEF Handled
      <4>2. PacketsQueued' = PacketsQueued + 0
        BY <1>8, <4>1, PacketsAdded
      <4>3. QED
        BY <1>1, <4>2
    <3>3. QED
      BY <3>1, <3>2
  <2>3. UNCHANGED Bounded
    BY <2>1 DEF Bounded
  <2>4. CASE Stream[1].op = "connected"
    <3>1. /\ 1 \in DOMAIN Stream /\ air = 0
          /\ \A i \in DOMAIN Commands : Commands[i].op # "send_data"
          /\ \A q \in DOMAIN Stream : q > 1 => CreditsOf(Stream[q]) = 0
      BY <1>9, <2>1, <2>4 DEF NewLink
    <3>2. PacketsQueued = 0
      BY <3>1, NoSums
    <3>8. CreditsOf(Stream[1]) = 0
      BY <2>4 DEF CreditsOf, ReturnsCredit
    <3>3. CreditsReturning = 0
      <4>2. \A q \in DOMAIN Stream : q = 1 \/ q > 1
        BY <2>1, DropsPositions
      <4>3. QED
        BY <3>1, <3>8, <4>2, NoSums
    <3>4. CreditsReturning' = 0
      <4>1. CreditsReturning = CreditsReturning'
        BY <1>2, <1>25, <2>1, <3>8, Zenon
      <4>2. QED
        BY <3>3, <4>1
    <3>5. data_credit_available' = data_credit_total /\ data_credit_total' = data_credit_total
      BY <1>15, <2>4 DEF Handled
    <3>6. AllCredits' = data_credit_total
      BY <1>1, <2>1, <2>2, <3>1, <3>2, <3>4, <3>5 DEF AllCredits
    <3>7. QED
      BY <1>1, <3>5, <3>6
  <2>5. CASE Stream[1].op # "connected"
    <3>1. Known' => Known
      BY <1>9, <2>1, <2>5
    <3>2. CreditsOf(Stream[1]) \in Nat
      <4>1. Stream[1] \in Evt
        BY <1>1, <1>9, <2>1
      <4>2. QED
        BY <1>1, <4>1, AmountsBounded
    <3>3. data_credit_available' = data_credit_available + CreditsOf(Stream[1])
      BY <1>15, <2>5 DEF Handled
    <3>4. AllCredits' = AllCredits
      BY <1>1, <1>2, <2>1, <2>2, <3>2, <3>3 DEF AllCredits
    <3>5. mode = "connected" => data_credit_total' = data_credit_total
      BY <1>15 DEF Handled, Announced
    <3>6. QED
      BY <1>4, <2>1, <2>3, <3>1, <3>4, <3>5
  <2>6. QED
    BY <2>4, <2>5
<1>16. CASE Booted \/ Answered
  <2>1. PICK e \in Evt : Raised(e) /\ CreditsOf(e) = 0 /\ e.op # "disconnected"
    BY <1>16 DEF Booted, Answered
  <2>2. UNCHANGED PacketsQueued
    <3>1. CASE Booted
      BY <1>6, <3>1 DEF Booted
    <3>2. CASE Answered
      BY <1>1, <1>2, <1>8, <3>2, PacketsDropped DEF Answered
    <3>3. QED
      BY <1>16, <3>1, <3>2
  <2>3. CreditsReturning' = CreditsReturning /\ UNCHANGED hostView
    BY <1>1, <1>10, <2>1
  <2>4. /\ air' \in {air, 0} /\ (Linking(mode') => Linking(mode))
        /\ mode' = "connected" => mode = "connected" /\ UNCHANGED air
    BY <1>16 DEF Booted, Answered, Linking
  <2>5. AllCredits' <= AllCredits /\ (UNCHANGED air => AllCredits' = AllCredits)
    <3>1. AllCredits' = data_credit_available + PacketsQueued + air' + CreditsReturning
      BY <2>2, <2>3 DEF AllCredits, hostView
    <3>2. air' = air \/ air' = 0
      BY <2>4
    <3>3. QED
      BY <1>1, <3>1, <3>2 DEF AllCredits
  <2>6. (Known' => Known) /\ (Bounded' => Bounded)
    BY <1>10, <2>1, <2>4 DEF Bounded
  <2>7. QED
    BY <1>1, <1>4, <1>24, <2>3, <2>4, <2>5, <2>6 DEF hostView
<1>17. CASE Delivered
  <2>1. PacketsQueued = 1 + PacketsQueued'
    BY <1>8, <1>17, PacketsDropped DEF Delivered
  <2>2. UNCHANGED <<CreditsReturning, Known, Bounded, mode, data_credit_total>>
    BY <1>7, <1>17 DEF Delivered, hostView, Bounded
  <2>3. UNCHANGED AllCredits
    BY <1>1, <1>2, <1>17, <2>1, <2>2 DEF Delivered, hostView, AllCredits
  <2>4. QED
    BY <1>4, <2>2, <2>3
<1>18. CASE Returned
  <2>1. PacketsQueued = 1 + PacketsQueued'
    BY <1>8, <1>18, PacketsDropped DEF Returned
  <2>2. PICK e \in Evt : Raised(e) /\ CreditsOf(e) = 1 /\ e.op = "pipe_error"
    BY <1>18 DEF Returned
  <2>3. /\ CreditsReturning' = CreditsReturning + 1 /\ UNCHANGED <<hostView, mode, air>>
        /\ Known' => Known
        /\ Bounded' => Bounded
    BY <1>10, <1>18, <2>2 DEF Returned, Bounded
  <2>4. UNCHANGED AllCredits
    BY <1>1, <1>2, <2>1, <2>3 DEF hostView, AllCredits
  <2>5. QED
    BY <1>4, <2>3, <2>4 DEF hostView
<1>19. CASE LinkUp
  <2>1. PICK e \in Evt : Raised(e) /\ CreditsOf(e) = 0 /\ e.op = "connected"
    BY <1>19 DEF LinkUp
  <2>2. ~Known' /\ CreditsReturning' = CreditsReturning + 0 /\ UNCHANGED hostView
    BY <1>10, <2>1
  <2>3. UNCHANGED AllCredits
    BY <1>1, <1>6, <1>19, <2>2 DEF LinkUp, hostView, AllCredits
  <2>4. QED
    BY <1>4, <2>2, <2>3
<1>20. CASE Reported
  <2>1. PICK e \in Evt : Raised(e) /\ CreditsOf(e) = 0
    BY <1>20 DEF Reported
  <2>2. /\ Known' => Known
        /\ CreditsReturning' = CreditsReturning + 0 /\ UNCHANGED <<hostView, mode>>
        /\ Bounded
    BY <1>10, <1>20, <2>1 DEF Reported, Bounded, Linking
  <2>3. UNCHANGED AllCredits
    BY <1>1, <1>6, <1>20, <2>2 DEF Reported, hostView, AllCredits
  <2>4. QED
    BY <1>4, <2>2, <2>3 DEF hostView
<1>21. CASE Acked
  <2>1. PICK e \in Evt, n \in 1 .. air : Raised(e) /\ CreditsOf(e) = n /\ air' = air - n
    BY <1>21 DEF Acked
  <2>2. /\ Known' => Known
        /\ CreditsReturning' = CreditsReturning + n /\ UNCHANGED <<hostView, mode>>
        /\ Bounded
    BY <1>10, <1>21, <2>1 DEF Acked, Bounded, Linking
  <2>3. n \in Nat
    BY <1>1
  <2>4. UNCHANGED AllCredits
    BY <1>1, <1>6, <1>21, <2>1, <2>2, <2>3 DEF Acked, hostView, AllCredits
  <2>5. QED
    BY <1>4, <2>2, <2>4 DEF hostView
<1>22. CASE LinkDown
  <2>1. PICK e \in Evt : Raised(e) /\ CreditsOf(e) = 0
    BY <1>22 DEF LinkDown
  <2>2. /\ Known' => Known
        /\ CreditsReturning' = CreditsReturning + 0 /\ UNCHANGED hostView
        /\ Bounded /\ air' = 0 /\ mode' = "standby"
    BY <1>10, <1>22, <2>1 DEF LinkDown, Bounded
  <2>3. AllCredits' <= AllCredits
    BY <1>1, <1>6, <1>22, <2>2 DEF LinkDown, hostView, AllCredits
  <2>4. QED
    BY <1>1, <1>4, <1>24, <2>2, <2>3
<1>23. QED
  BY <1>11, <1>12, <1>13, <1>14, <1>15, <1>16, <1>17, <1>18, <1>19, <1>20, <1>21, <1>22
  DEF Effect, HostEffect, DeviceEffect

(* Nothing has happened yet. *)
LEMMA FlowInit ==
    ASSUME Init
    PROVE  Flow
<1>1. /\ inbox = <<>> /\ aci_tx_q = <<>> /\ pending = <<>> /\ aci_rx_q = <<>>
      /\ mode = "reset" /\ air = 0 /\ pc = "loop" /\ pipes_open = {}
      /\ data_credit_total = 0 /\ data_credit_available = 0
  BY DEF Init, DeviceInit, T!Init
<1>2. Commands = <<>> /\ Stream = <<>> /\ Events = <<>>
  BY <1>1 DEF Commands, Stream, InHand, Events
<1>3. DOMAIN Commands = {} /\ DOMAIN Stream = {} /\ DOMAIN Events = {}
  BY <1>2
<1>4. PacketsQueued = 0 /\ CreditsReturning = 0
  <2>1. PacketsQueued = Cardinality({}) /\ CreditsReturning = Cardinality({})
    <3>1. Units(Packets(Commands)) = {} /\ Units(Returns(Stream)) = {}
      BY <1>3 DEF Units, Packets, Returns
    <3>2. QED
      BY <3>1, SumsAreUnits
  <2>2. QED
    BY <2>1, FS_EmptySet
<1>5. OneToken /\ PipesFollow /\ DataBehind /\ NewLink
  BY <1>1, <1>3 DEF OneToken, PipesFollow, DataBehind, NewLink
<1>6. Announced
  BY <1>1, <1>3 DEF Announced
<1>7. Counted
  BY <1>1, <1>4, DeviceAssumption DEF Counted, AllCredits, Linking
<1>8. QED
  BY <1>5, <1>6, <1>7 DEF Flow

(* The invariant, for as long as the device has had no hardware fault. *)
LEMMA FlowAlways == Spec => [](faults = 0 => Flow)
<1>1. Init => Flow
  BY FlowInit
<1>2. WellTyped /\ WellTyped' /\ Fetching /\ (faults = 0 => Flow) /\ [Next]_vars
         => (faults = 0 => Flow)'
  <2>1. SUFFICES ASSUME WellTyped, WellTyped', Fetching, faults = 0 => Flow, [Next]_vars,
                        faults' = 0
                 PROVE  Flow'
    OBVIOUS
  <2>2. faults = 0
    BY <2>1, FaultsOnlyGrow
  <2>3. Effect
    <3>1. CASE Device
      BY <2>1, <2>2, <3>1, DeviceEffects DEF Effect
    <3>2. CASE ~Device
      BY <2>1, <3>2, HostEffects DEF Effect
    <3>3. QED
      BY <3>1, <3>2
  <2>4. OneToken /\ PipesFollow /\ DataBehind /\ NewLink /\ Announced /\ Counted
    BY <2>1, <2>2 DEF Flow
  <2>5. OneToken' /\ PipesFollow'
    BY <2>3, <2>4, OneTokenStep, PipesFollowStep
  <2>6. DataBehind' /\ NewLink'
    BY <2>1, <2>3, <2>4, DataBehindStep, NewLinkStep
  <2>7. Announced' /\ Counted'
    BY <2>1, <2>3, <2>4, AnnouncedStep, CountedStep
  <2>8. QED
    BY <2>5, <2>6, <2>7 DEF Flow
<1>3. QED
  BY <1>1, <1>2, FetchingAlways, WellTypedAlways, PTL DEF Spec

-----------------------------------------------------------------------------
(* What follows from it. *)

(* The pipes the host believes open (the bitmap that lib_aci_event_get keeps and
   every send consults) are backed by a link, or by the news that it broke. *)
THEOREM PipesAreBacked == Spec => [](faults = 0 => PipesNeedLink)
<1>1. WellTyped /\ (faults = 0 => Flow) => (faults = 0 => PipesNeedLink)
  <2>1. SUFFICES ASSUME WellTyped, Flow, pipes_open # {}
                 PROVE  mode \in {"connected", "closing"} \/ Coming("disconnected")
    BY DEF PipesNeedLink
  <2>2. Linking(mode) \/ \E j \in DOMAIN Events : Events[j].op = "disconnected"
    BY <2>1 DEF Flow, PipesFollow
  <2>3. (\E j \in DOMAIN Events : Events[j].op = "disconnected") => Coming("disconnected")
    BY <2>1, EventsInStream DEF Coming, Stream
  <2>4. QED
    BY <2>2, <2>3 DEF Linking
<1>2. QED
  BY <1>1, FlowAlways, WellTypedAlways, PTL

(* Whatever the queues held when a link broke, no data of an earlier link
   reaches the next one before the host knows of it, and the device always has
   room for the packets that are on their way. *)
THEOREM NoDataAstray == Spec => [](faults = 0 => NoStrayData)
<1>1. WellTyped /\ (faults = 0 => Flow) => (faults = 0 => NoStrayData)
  <2>1. SUFFICES ASSUME WellTyped, Flow, mode = "connected"
                 PROVE  /\ Coming("connected") => PacketsQueued = 0
                        /\ air + PacketsQueued <= Credits
    BY DEF NoStrayData
  <2>2. /\ data_credit_available \in Nat /\ data_credit_total \in 0 .. Credits
        /\ air \in Nat /\ Credits \in Nat
        /\ PacketsQueued \in Nat /\ CreditsReturning \in Nat
    BY <2>1, Streams, DeviceAssumption DEF WellTyped, TypeOK, DeviceTypeOK
  <2>3. ASSUME Coming("connected") PROVE PacketsQueued = 0 /\ air = 0
    <3>1. PICK p \in DOMAIN Stream : Stream[p].op = "connected"
      BY <2>3 DEF Coming, Stream
    <3>2. air = 0 /\ \A i \in DOMAIN Commands : Commands[i].op # "send_data"
      BY <2>1, <3>1 DEF Flow, NewLink
    <3>3. QED
      BY <2>1, <3>2, NoSums
  <2>4. ASSUME ~Coming("connected") PROVE air + PacketsQueued <= Credits
    <3>1. Known
      BY <2>4 DEF Coming, Known, Stream
    <3>2. data_credit_available + PacketsQueued + air + CreditsReturning = data_credit_total
      BY <2>1, <3>1 DEF Flow, Counted, AllCredits
    <3>3. QED
      BY <2>2, <3>2
  <2>5. QED
    BY <2>2, <2>3, <2>4
<1>2. QED
  BY <1>1, FlowAlways, WellTypedAlways, PTL

(* On a link every credit is in exactly one place, and the counter of the host
   stays within its byte, link or no link. *)
THEOREM CreditsConserved == Spec => [](faults = 0 => CreditConservation)
<1>1. WellTyped /\ (faults = 0 => Flow) => (faults = 0 => CreditConservation)
  <2>1. SUFFICES ASSUME WellTyped, Flow
                 PROVE  /\ data_credit_available <= 255
                        /\ Linked =>
                              data_credit_available + PacketsQueued + air + CreditsReturning
                                = data_credit_total
    BY DEF CreditConservation
  <2>2. /\ data_credit_available \in Nat /\ air \in Nat /\ Credits \in Nat /\ Credits <= 127
        /\ PacketsQueued \in Nat /\ CreditsReturning \in Nat
    BY <2>1, Streams, DeviceAssumption DEF WellTyped, TypeOK, DeviceTypeOK
  <2>3. data_credit_available + PacketsQueued + air + CreditsReturning <= 2 * Credits
    BY <2>1 DEF Flow, Counted, AllCredits
  <2>4. Linked => mode = "connected" /\ Known
    BY DEF Linked, Coming, Known, Stream
  <2>5. Linked => data_credit_available + PacketsQueued + air + CreditsReturning = data_credit_total
    BY <2>1, <2>4 DEF Flow, Counted, AllCredits
  <2>6. QED
    BY <2>2, <2>3, <2>5
<1>2. QED
  BY <1>1, FlowAlways, WellTypedAlways, PTL
=============================================================================
