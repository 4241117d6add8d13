--------------------------- MODULE AciCodecProofs ---------------------------
(***************************************************************************)
(* The encoders and decoders of acilib.cpp against the packed structs of   *)
(* aci_cmds.h and aci_evts.h, and the mesh commands, for every size of     *)
(* data.                                                                   *)
(*                                                                         *)
(* The bytes of a struct are a concatenation, defined by recursion over    *)
(* its fields.  Here it is turned into two facts that need no recursion:   *)
(* a field more at the end of a struct adds its bytes at the end, and the  *)
(* bytes of a struct within a struct are one after the other.  From the    *)
(* first one, LaysNext, follows the layout of a message field by field,    *)
(* as an encoder writes it.                                                *)
(***************************************************************************)
EXTENDS AciCodec, MeshCodec, WellFoundedInduction, SequenceTheorems, TLAPS

-----------------------------------------------------------------------------
(* Concatenation.                                                           *)

(* A set of naturals that is not empty has a least element. It stands in for
   induction below: of the sizes for which a statement fails take the least. *)
LEMMA Smallest ==
    ASSUME NEW T, T \subseteq Nat, T # {}
    PROVE  \E x \in T : \A y \in T : x <= y
<1> DEFINE R == {ss \in Nat \X Nat : ss[1] < ss[2]}
<1>1. R = OpToRel(<, Nat)
  BY Zenon DEF OpToRel
<1>2. IsWellFoundedOn(R, Nat)
  BY <1>1, NatLessThanWellFounded, Zenon
<1>3. \A a, b \in Nat : a < b => <<a, b>> \in R
  OBVIOUS
<1> HIDE DEF R
<1>4. PICK x \in T : \A y \in T : <<y, x>> \notin R
  BY <1>2, WFMin, Zenon
<1>5. \A y \in T : x \in Nat /\ y \in Nat /\ ~(y < x)
  BY <1>3, <1>4
<1>6. \A y \in T : x <= y
  BY <1>5
<1>7. QED
  BY <1>6

\* f holds the partial concatenations of s: the function that FlattenSeq
\* chooses, written as an equation.
Joins(f, s, n) == f = [i \in 1 .. n |-> IF i = 1 THEN s[i] ELSE f[i - 1] \o s[i]]

(* Such a function exists for every length, although it is recursive. *)
LEMMA JoinExists ==
    ASSUME NEW s, NEW n \in Nat \ {0}
    PROVE  \E f : Joins(f, s, n)
<1> DEFINE T == {m \in Nat \ {0} : ~ \E f : Joins(f, s, m)}
<1>1. SUFFICES ASSUME T # {} PROVE FALSE
  OBVIOUS
<1>2. PICK m \in T : \A k \in T : m <= k
  BY <1>1, Smallest
<1>3. CASE m = 1
  <2>1. Joins([i \in 1 .. 1 |-> s[i]], s, 1)
    BY DEF Joins
  <2>2. QED
    BY <1>2, <1>3, <2>1
<1>4. CASE m # 1
  <2>1. m - 1 \in Nat \ {0} /\ m - 1 \notin T
    BY <1>2, <1>4
  <2>2. PICK g : Joins(g, s, m - 1)
    BY <2>1
  <2> DEFINE f == [i \in 1 .. m |-> IF i = m THEN g[m - 1] \o s[m] ELSE g[i]]
  <2>3. g = [i \in 1 .. m - 1 |-> IF i = 1 THEN s[i] ELSE g[i - 1] \o s[i]]
    BY <2>2 DEF Joins
  <2>4. ASSUME NEW i \in 1 .. m
        PROVE  f[i] = IF i = 1 THEN s[i] ELSE f[i - 1] \o s[i]
    <3>1. CASE i = m
      <4>1. m \in 1 .. m /\ m - 1 \in 1 .. m /\ m - 1 # m
        BY <2>1
      <4>2. f[m] = g[m - 1] \o s[m] /\ f[m - 1] = g[m - 1]
        BY <4>1
      <4> HIDE DEF f
      <4>3. QED BY <1>4, <3>1, <4>2
    <3>2. CASE i # m
      <4>1. i \in 1 .. m - 1 /\ (i # 1 => i - 1 \in 1 .. m /\ i - 1 # m)
        BY <3>2, <2>1
      <4>2. f[i] = g[i] /\ (i # 1 => f[i - 1] = g[i - 1])
        BY <3>2, <4>1
      <4>3. g[i] = IF i = 1 THEN s[i] ELSE g[i - 1] \o s[i]
        BY <2>3, <4>1
      <4>4. QED BY <4>2, <4>3
    <3>3. QED BY <3>1, <3>2
  <2>5. Joins(f, s, m)
    BY <2>4 DEF Joins
  <2>6. QED
    BY <1>2, <2>5
<1>5. QED BY <1>3, <1>4

(* It is determined by s; a longer one agrees with it on the shorter part. *)
LEMMA JoinUnique ==
    ASSUME NEW f, NEW g, NEW s, NEW t, NEW n \in Nat, NEW m \in Nat, n <= m,
           Joins(f, s, n), Joins(g, t, m), \A i \in 1 .. n : s[i] = t[i]
    PROVE  \A i \in 1 .. n : f[i] = g[i]
<1> DEFINE T == {i \in 1 .. n : f[i] # g[i]}
<1>1. SUFFICES ASSUME T # {} PROVE FALSE
  OBVIOUS
<1>2. PICK i \in T : \A k \in T : i <= k
  <2>1. T \subseteq Nat
    OBVIOUS
  <2> HIDE DEF T
  <2>2. QED BY <1>1, <2>1, Smallest
<1>3. i \in 1 .. n /\ i \in 1 .. m /\ f[i] # g[i]
  BY <1>2
<1>4. f[i] = (IF i = 1 THEN s[i] ELSE f[i - 1] \o s[i])
  BY <1>3 DEF Joins
<1>5. g[i] = (IF i = 1 THEN t[i] ELSE g[i - 1] \o t[i])
  BY <1>3 DEF Joins
<1>6. i # 1 => f[i - 1] = g[i - 1]
  BY <1>2
<1>7. QED BY <1>3, <1>4, <1>5, <1>6

(* So FlattenSeq is the last of the partial concatenations. *)
LEMMA Flattens ==
    ASSUME NEW s, NEW n \in Nat \ {0}, Len(s) = n
    PROVE  \E f : Joins(f, s, n) /\ FlattenSeq(s) = f[n]
<1> DEFINE g == CHOOSE f : Joins(f, s, n)
<1>1. Joins(g, s, n)
  BY JoinExists, Zenon
<1>2. FlattenSeq(s) = g[n]
  <2>1. Len(s) # 0
    OBVIOUS
  <2>2. FlattenSeq(s) =
          (CHOOSE f : f = [i \in 1 .. Len(s) |-> IF i = 1 THEN s[i] ELSE f[i - 1] \o s[i]])[Len(s)]
    BY <2>1, Zenon DEF FlattenSeq
  <2>3. QED
    BY <2>2, Zenon DEF Joins
<1>3. QED
  BY <1>1, <1>2, Zenon

(* A sequence more at the end adds its elements at the end. *)
LEMMA FlattenAppend ==
    ASSUME NEW S, NEW s \in Seq(Seq(S)), NEW x \in Seq(S)
    PROVE  FlattenSeq(Append(s, x)) = FlattenSeq(s) \o x
<1> DEFINE n == Len(s)
           t == Append(s, x)
<1>1. n \in Nat /\ Len(t) = n + 1 /\ t[n + 1] = x /\ \A i \in 1 .. n : s[i] = t[i]
  OBVIOUS
<1> HIDE DEF t, n
<1>2. PICK g : Joins(g, t, n + 1) /\ FlattenSeq(t) = g[n + 1]
  BY <1>1, Flattens
<1>3. CASE n = 0
  <2>1. FlattenSeq(s) = <<>>
    BY <1>3 DEF FlattenSeq, n
  <2>2. g[1] = t[1]
    BY <1>2, <1>3 DEF Joins
  <2>3. QED
    BY <1>1, <1>2, <1>3, <2>1, <2>2 DEF t, n
<1>4. CASE n # 0
  <2>1. PICK f : Joins(f, s, n) /\ FlattenSeq(s) = f[n]
    <3>1. n \in Nat \ {0} /\ Len(s) = n
      BY <1>1, <1>4 DEF n
    <3>2. QED BY <3>1, Flattens
  <2>2. f[n] = g[n]
    <3>1. n \in Nat /\ n + 1 \in Nat /\ n <= n + 1 /\ n \in 1 .. n
      BY <1>1, <1>4
    <3>2. \A i \in 1 .. n : f[i] = g[i]
      BY <1>1, <1>2, <2>1, <3>1, JoinUnique
    <3>3. QED BY <3>1, <3>2
  <2>3. g[n + 1] = g[n] \o t[n + 1]
    <3>1. n + 1 \in 1 .. n + 1 /\ n + 1 # 1 /\ (n + 1) - 1 = n
      BY <1>1, <1>4
    <3>2. \A i \in 1 .. n + 1 : g[i] = IF i = 1 THEN t[i] ELSE g[i - 1] \o t[i]
      BY <1>2 DEF Joins
    <3> HIDE DEF n
    <3>3. QED BY <3>1, <3>2
  <2>4. QED
    BY <1>1, <1>2, <2>1, <2>2, <2>3 DEF t
<1>5. QED BY <1>3, <1>4

(* A sequence that is not empty is another one with an element appended. *)
LEMMA LastField ==
    ASSUME NEW S, NEW hs \in Seq(S), NEW m \in Nat, Len(hs) = m, m # 0
    PROVE  \E ks \in Seq(S), x \in S : hs = Append(ks, x) /\ Len(ks) = m - 1
<1> DEFINE ks == [i \in 1 .. m - 1 |-> hs[i]]
<1>1. ks \in Seq(S) /\ Len(ks) = m - 1 /\ hs[m] \in S /\ \A i \in 1 .. m - 1 : ks[i] = hs[i]
  OBVIOUS
<1> HIDE DEF ks
<1>2. hs = Append(ks, hs[m])
  <2> DEFINE q == Append(ks, hs[m])
  <2>1. /\ q \in Seq(S) /\ Len(q) = m
        /\ \A i \in 1 .. m - 1 : q[i] = hs[i]
        /\ q[m] = hs[m]
    BY <1>1, AppendProperties
  <2> HIDE DEF q
  <2>2. \A i \in 1 .. m : q[i] = hs[i]
    BY <2>1
  <2>3. hs = q
    BY <2>1, <2>2, SeqEqual
  <2>4. QED BY <2>3 DEF q
<1>3. QED BY <1>1, <1>2

(* Appending to the second of two concatenated sequences. *)
LEMMA AppendConcat ==
    ASSUME NEW S, NEW s \in Seq(S), NEW t \in Seq(S), NEW x \in S
    PROVE  s \o Append(t, x) = Append(s \o t, x)
<1> DEFINE one == <<x>>
<1>1. \A r \in Seq(S) : Append(r, x) = r \o one
  OBVIOUS
<1>2. one \in Seq(S) /\ s \o t \in Seq(S)
  BY ConcatProperties
<1> HIDE DEF one
<1>3. (s \o t) \o one = s \o (t \o one)
  BY <1>2, ConcatAssociative
<1>4. QED BY <1>1, <1>2, <1>3

-----------------------------------------------------------------------------
(* The bytes of a packed struct.                                            *)

\* The names of the fields of the packed structs, and a field: <<name,
\* width>>. The widths of arrays that carry data are not bounded here.
Names ==
    {"pipe_number", "aci_data", "timeout", "adv_interval", "test_mode_change",
     "echo_data", "cmd_msb", "cmd_lsb", "setup_data", "seq_no", "dynamic_data",
     "reason", "device_power", "min_conn_interval", "max_conn_interval",
     "slave_latency", "timeout_mult", "error_code", "mode", "latency", "key_type",
     "key", "pipes", "bd_addr_own", "bd_addr_type", "evt_msb", "evt_lsb",
     "configuration_id", "aci_version", "setup_format", "setup_id", "setup_status",
     "battery_level", "temperature_value", "conn_rf_interval",
     "conn_slave_rf_latency", "conn_rf_timeout", "device_mode", "hw_error",
     "credit_available", "line_num", "file_name", "dev_addr_type", "dev_addr",
     "master_clock_accuracy", "aci_status", "btle_status", "status_code",
     "status_source", "secmode1_bitmap", "secmode2_bitmap", "keys_exchanged_slave",
     "keys_exchanged_master", "pipes_open_bitmap", "pipes_closed_bitmap", "credit",
     "content", "passkey", "cmd_opcode", "cmd_status", "data", "access_addr",
     "channel", "handle_count", "adv_int_min", "handle", "value"}
Field == Names \X Nat

(* A field of width w has w bytes, counted from 0. *)
LEMMA BytesOfField ==
    ASSUME NEW x \in Field
    PROVE  /\ FieldBytes(x) \in Seq(Field)
           /\ Len(FieldBytes(x)) = x[2]
           /\ \A k \in 1 .. x[2] : FieldBytes(x)[k] = <<x[1], k - 1>>
<1>1. x[1] \in Names /\ x[2] \in Nat
  BY DEF Field
<1>2. \A k \in 1 .. x[2] : <<x[1], k - 1>> \in Field
  <2>1. \A k \in 1 .. x[2] : k - 1 \in Nat
    BY <1>1
  <2>2. QED BY <1>1, <2>1 DEF Field
<1>3. FieldBytes(x) = [k \in 1 .. x[2] |-> <<x[1], k - 1>>]
  BY DEF FieldBytes
<1> HIDE DEF Field
<1>4. FieldBytes(x) \in [1 .. x[2] -> Field]
  BY <1>2, <1>3
<1>5. FieldBytes(x) \in Seq(Field) /\ Len(FieldBytes(x)) = x[2]
  BY <1>1, <1>4
<1>6. QED
  BY <1>3, <1>5

(* A field more at the end of a packed struct adds its bytes at the end. *)
LEMMA StructAppend ==
    ASSUME NEW fs \in Seq(Field), NEW x \in Field
    PROVE  StructBytes(Append(fs, x)) = StructBytes(fs) \o FieldBytes(x)
<1> DEFINE P(s) == [i \in DOMAIN s |-> FieldBytes(s[i])]
<1>1. \A s : StructBytes(s) = FlattenSeq(P(s))
  BY DEF StructBytes
<1>2. P(fs) \in Seq(Seq(Field)) /\ FieldBytes(x) \in Seq(Field)
  <2>1. \A i \in DOMAIN fs : FieldBytes(fs[i]) \in Seq(Field)
    BY BytesOfField
  <2>2. P(fs) \in [1 .. Len(fs) -> Seq(Field)]
    BY <2>1
  <2> HIDE DEF P
  <2>3. P(fs) \in Seq(Seq(Field))
    BY <2>2
  <2>4. QED BY <2>3, BytesOfField
<1>3. P(Append(fs, x)) = Append(P(fs), FieldBytes(x))
  <2>1. /\ DOMAIN Append(fs, x) = 1 .. Len(fs) + 1 /\ Len(fs) \in Nat
        /\ \A i \in 1 .. Len(fs) : Append(fs, x)[i] = fs[i]
        /\ Append(fs, x)[Len(fs) + 1] = x
    OBVIOUS
  <2>2. DOMAIN P(fs) = 1 .. Len(fs) /\ \A i \in 1 .. Len(fs) : P(fs)[i] = FieldBytes(fs[i])
    OBVIOUS
  <2>3. /\ DOMAIN P(Append(fs, x)) = 1 .. Len(fs) + 1
        /\ \A i \in 1 .. Len(fs) + 1 : P(Append(fs, x))[i] = FieldBytes(Append(fs, x)[i])
        /\ P(Append(fs, x)) = [i \in 1 .. Len(fs) + 1 |-> P(Append(fs, x))[i]]
    BY <2>1
  <2> DEFINE q == Append(P(fs), FieldBytes(x))
  <2> HIDE DEF P
  <2>4. /\ DOMAIN q = 1 .. Len(fs) + 1
        /\ \A i \in 1 .. Len(fs) : q[i] = FieldBytes(fs[i])
        /\ q[Len(fs) + 1] = FieldBytes(x)
        /\ q = [i \in 1 .. Len(fs) + 1 |-> q[i]]
    <3>1. P(fs) \in Seq(Seq(Field)) /\ Len(P(fs)) = Len(fs)
      BY <1>2, <2>1, <2>2
    <3>2. /\ q \in Seq(Seq(Field)) /\ Len(q) = Len(fs) + 1
          /\ \A i \in 1 .. Len(fs) : q[i] = P(fs)[i]
          /\ q[Len(fs) + 1] = FieldBytes(x)
      BY <1>2, <3>1, AppendProperties
    <3> HIDE DEF q
    <3>3. DOMAIN q = 1 .. Len(fs) + 1 /\ q = [i \in 1 .. Len(fs) + 1 |-> q[i]]
      BY <3>2
    <3>4. QED BY <2>2, <3>2, <3>3
  <2>5. ASSUME NEW i \in 1 .. Len(fs) + 1
        PROVE  P(Append(fs, x))[i] = Append(P(fs), FieldBytes(x))[i]
    <3>1. CASE i \in 1 .. Len(fs)
      BY <2>1, <2>3, <2>4, <3>1
    <3>2. CASE i = Len(fs) + 1
      BY <2>1, <2>3, <2>4, <3>2
    <3>3. i \in 1 .. Len(fs) \/ i = Len(fs) + 1
      BY <2>1
    <3>4. QED BY <3>1, <3>2, <3>3
  <2>6. QED
    BY <2>3, <2>4, <2>5
<1> HIDE DEF P
<1>4. FlattenSeq(Append(P(fs), FieldBytes(x))) = FlattenSeq(P(fs)) \o FieldBytes(x)
  BY <1>2, FlattenAppend
<1>5. QED
  BY <1>1, <1>3, <1>4

(* A struct without fields has no bytes. *)
LEMMA NoBytes == StructBytes(<<>>) = <<>>
BY DEF StructBytes, FlattenSeq

(* The bytes of a struct are a sequence of named bytes, for any number of
   fields. *)
LEMMA StructIsBytes ==
    ASSUME NEW fs \in Seq(Field)
    PROVE  StructBytes(fs) \in Seq(Field)
<1> DEFINE Good(m) == \A hs \in Seq(Field) : Len(hs) = m => StructBytes(hs) \in Seq(Field)
           T == {m \in Nat : ~ Good(m)}
<1>1. SUFFICES ASSUME T # {} PROVE FALSE
  <2>1. Len(fs) \in Nat
    OBVIOUS
  <2>2. QED BY <2>1
<1>2. PICK m \in T : \A k \in T : m <= k
  BY <1>1, Smallest
<1>3. PICK hs \in Seq(Field) : Len(hs) = m /\ StructBytes(hs) \notin Seq(Field)
  BY <1>2
<1>4. m # 0
  <2>1. <<>> \in Seq(Field) /\ StructBytes(<<>>) = <<>>
    BY NoBytes
  <2>2. SUFFICES ASSUME m = 0 PROVE FALSE
    OBVIOUS
  <2>3. hs = <<>>
    BY <1>3, <2>2
  <2>4. QED BY <1>3, <2>1, <2>3
<1>5. PICK ks \in Seq(Field), x \in Field : hs = Append(ks, x) /\ Len(ks) = m - 1
  <2>1. m \in Nat
    BY <1>2
  <2>2. QED BY <1>3, <1>4, <2>1, LastField, Zenon
<1>6. m - 1 \in Nat /\ m - 1 \notin T
  BY <1>2, <1>4
<1>7. StructBytes(ks) \in Seq(Field)
  BY <1>5, <1>6
<1>8. StructBytes(hs) = StructBytes(ks) \o FieldBytes(x) /\ FieldBytes(x) \in Seq(Field)
  BY <1>5, StructAppend, BytesOfField
<1>9. StructBytes(hs) \in Seq(Field)
  BY <1>7, <1>8, ConcatProperties
<1>10. QED BY <1>3, <1>9

(* A struct within a struct: the bytes of both, one after the other. *)
LEMMA StructConcat ==
    ASSUME NEW fs \in Seq(Field), NEW gs \in Seq(Field)
    PROVE  StructBytes(fs \o gs) = StructBytes(fs) \o StructBytes(gs)
<1> DEFINE Good(m) == \A hs \in Seq(Field) : Len(hs) = m =>
                 StructBytes(fs \o hs) = StructBytes(fs) \o StructBytes(hs)
           T == {m \in Nat : ~ Good(m)}
<1>1. SUFFICES ASSUME T # {} PROVE FALSE
  <2>1. Len(gs) \in Nat
    OBVIOUS
  <2>2. QED BY <2>1
<1>2. PICK m \in T : \A k \in T : m <= k
  BY <1>1, Smallest
<1>3. PICK hs \in Seq(Field) : Len(hs) = m /\ StructBytes(fs \o hs) # StructBytes(fs) \o StructBytes(hs)
  BY <1>2
<1>4. m # 0
  <2>1. StructBytes(<<>>) = <<>>
    BY NoBytes
  <2>2. SUFFICES ASSUME m = 0 PROVE FALSE
    OBVIOUS
  <2>3. hs = <<>>
    BY <1>3, <2>2
  <2>4. fs \o <<>> = fs /\ StructBytes(fs) \o <<>> = StructBytes(fs)
    BY StructIsBytes, ConcatEmptySeq
  <2>5. QED BY <1>3, <2>1, <2>3, <2>4
<1>5. PICK ks \in Seq(Field), x \in Field : hs = Append(ks, x) /\ Len(ks) = m - 1
  <2>1. m \in Nat
    BY <1>2
  <2>2. QED BY <1>3, <1>4, <2>1, LastField, Zenon
<1>6. m - 1 \in Nat /\ m - 1 \notin T
  BY <1>2, <1>4
<1>7. StructBytes(fs \o ks) = StructBytes(fs) \o StructBytes(ks)
  BY <1>5, <1>6
<1> HIDE DEF Good, T
<1>8. fs \o hs = Append(fs \o ks, x) /\ fs \o ks \in Seq(Field)
  <2>1. fs \o ks \in Seq(Field)
    BY ConcatProperties
  <2>2. fs \o Append(ks, x) = Append(fs \o ks, x)
    BY <2>1, AppendConcat
  <2>3. QED BY <1>5, <2>1, <2>2
<1>9. StructBytes(fs \o hs) = (StructBytes(fs) \o StructBytes(ks)) \o FieldBytes(x)
  BY <1>7, <1>8, StructAppend
<1>10. StructBytes(hs) = StructBytes(ks) \o FieldBytes(x)
  BY <1>5, StructAppend
<1>11. StructBytes(fs) \in Seq(Field) /\ StructBytes(ks) \in Seq(Field) /\ FieldBytes(x) \in Seq(Field)
  BY StructIsBytes, BytesOfField
<1>12. StructBytes(fs \o hs) = StructBytes(fs) \o StructBytes(hs)
  <2> DEFINE b == StructBytes(fs)
             c == StructBytes(ks)
             d == FieldBytes(x)
             h == StructBytes(hs)
             g == StructBytes(fs \o hs)
             e == b \o c
             q == b \o h
  <2>1. b \in Seq(Field) /\ c \in Seq(Field) /\ d \in Seq(Field) /\ h = c \o d /\ g = e \o d
    BY <1>9, <1>10, <1>11
  <2>2. Len(b) \in Nat /\ Len(c) \in Nat /\ Len(d) \in Nat
    BY <2>1
  <2> HIDE DEF b, c, d, h, g
  <2>3. /\ h \in Seq(Field) /\ Len(h) = Len(c) + Len(d)
        /\ \A i \in 1 .. Len(c) + Len(d) : h[i] = IF i <= Len(c) THEN c[i] ELSE d[i - Len(c)]
    BY <2>1, ConcatProperties
  <2>4. /\ e \in Seq(Field) /\ Len(e) = Len(b) + Len(c)
        /\ \A i \in 1 .. Len(b) + Len(c) : e[i] = IF i <= Len(b) THEN b[i] ELSE c[i - Len(b)]
    BY <2>1, ConcatProperties
  <2>5. /\ q \in Seq(Field) /\ Len(q) = Len(b) + Len(h)
        /\ \A i \in 1 .. Len(b) + Len(h) : q[i] = IF i <= Len(b) THEN b[i] ELSE h[i - Len(b)]
    BY <2>1, <2>3, ConcatProperties
  <2> HIDE DEF e, q
  <2>6. /\ g \in Seq(Field) /\ Len(g) = Len(e) + Len(d)
        /\ \A i \in 1 .. Len(e) + Len(d) : g[i] = IF i <= Len(e) THEN e[i] ELSE d[i - Len(e)]
    BY <2>1, <2>4, ConcatProperties, SMTT(30)
  <2>7. Len(g) = Len(q) /\ \A i \in 1 .. Len(g) : g[i] = q[i]
    <3>1. Len(g) = Len(b) + Len(c) + Len(d) /\ Len(q) = Len(b) + Len(c) + Len(d)
      BY <2>2, <2>3, <2>4, <2>5, <2>6
    <3>2. ASSUME NEW i \in 1 .. Len(b) + Len(c) + Len(d) PROVE g[i] = q[i]
      <4>1. CASE i <= Len(b)
        <5>1. g[i] = b[i]
          BY <2>2, <2>4, <2>6, <4>1
        <5>2. q[i] = b[i]
          BY <2>2, <2>3, <2>5, <4>1
        <5>3. QED BY <5>1, <5>2
      <4>2. CASE ~(i <= Len(b)) /\ i <= Len(b) + Len(c)
        <5>1. g[i] = c[i - Len(b)]
          BY <2>2, <2>4, <2>6, <4>2
        <5>2. q[i] = h[i - Len(b)] /\ i - Len(b) \in 1 .. Len(c) + Len(d) /\ i - Len(b) <= Len(c)
          BY <2>2, <2>3, <2>5, <4>2
        <5>3. QED BY <2>3, <5>1, <5>2
      <4>3. CASE ~(i <= Len(b) + Len(c))
        <5>1. g[i] = d[i - (Len(b) + Len(c))]
          BY <2>2, <2>4, <2>6, <4>3
        <5>2. q[i] = h[i - Len(b)] /\ i - Len(b) \in 1 .. Len(c) + Len(d) /\ ~(i - Len(b) <= Len(c))
          BY <2>2, <2>3, <2>5, <4>3
        <5>3. (i - Len(b)) - Len(c) = i - (Len(b) + Len(c))
          BY <2>2
        <5>4. QED BY <2>3, <5>1, <5>2, <5>3
      <4>4. QED BY <4>1, <4>2, <4>3
    <3>3. QED BY <3>1, <3>2
  <2>8. g = q
    BY <2>5, <2>6, <2>7, SeqEqual
  <2>9. QED BY <2>8 DEF g, q, b, h
<1>13. QED BY <1>3, <1>12

-----------------------------------------------------------------------------
(* What lays out a struct.                                                  *)

\* fs has L bytes; at begins with these L bytes; and at holds the w bytes of
\* field f from position o on.
Wide(fs, L) ==
    fs \in Seq(Field) /\ StructBytes(fs) \in Seq(Field) /\ Len(StructBytes(fs)) = L
Lays(at, fs, L) ==
    /\ Wide(fs, L)
    /\ \A j \in 1 .. L : j - 1 \in DOMAIN at /\ at[j - 1] = StructBytes(fs)[j]
Fits(at, o, f, w) == \A k \in 0 .. w - 1 : o + k \in DOMAIN at /\ at[o + k] = <<f, k>>

(* A struct without fields is laid out by anything. *)
LEMMA LaysNone == \A at : Lays(at, <<>>, 0)
<1>1. StructBytes(<<>>) = <<>>
  BY DEF StructBytes, FlattenSeq
<1>2. <<>> \in Seq(Field) /\ Len(<<>>) = 0
  OBVIOUS
<1>3. Wide(<<>>, 0)
  BY <1>1, <1>2, Zenon DEF Wide
<1>4. 1 .. 0 = {}
  OBVIOUS
<1>5. QED
  BY <1>3, <1>4, Zenon DEF Lays

(* Where the bytes of the last field of a struct are. *)
LEMMA WideAppend ==
    ASSUME NEW fs \in Seq(Field), NEW x \in Field, NEW L \in Nat, Wide(fs, L)
    PROVE  /\ Wide(Append(fs, x), L + x[2])
           /\ \A j \in 1 .. L : StructBytes(Append(fs, x))[j] = StructBytes(fs)[j]
           /\ \A j \in L + 1 .. L + x[2] : StructBytes(Append(fs, x))[j] = <<x[1], j - L - 1>>
<1> DEFINE b == StructBytes(fs)
           c == FieldBytes(x)
           w == x[2]
<1>1. w \in Nat
  BY DEF Field
<1>2. c \in Seq(Field) /\ Len(c) = w /\ \A k \in 1 .. w : c[k] = <<x[1], k - 1>>
  BY BytesOfField
<1>3. b \in Seq(Field) /\ Len(b) = L
  BY DEF Wide
<1>4. StructBytes(Append(fs, x)) = b \o c
  BY StructAppend
<1> HIDE DEF b, c, w
<1>5. /\ b \o c \in Seq(Field) /\ Len(b \o c) = L + w
      /\ \A j \in 1 .. L : (b \o c)[j] = b[j]
      /\ \A j \in L + 1 .. L + w : (b \o c)[j] = c[j - L]
  <2>1. /\ b \o c \in Seq(Field) /\ Len(b \o c) = L + w
        /\ \A j \in 1 .. L + w : (b \o c)[j] = IF j <= L THEN b[j] ELSE c[j - L]
    BY <1>2, <1>3, ConcatProperties
  <2>2. QED BY <1>1, <2>1
<1>6. \A j \in L + 1 .. L + w : (b \o c)[j] = <<x[1], j - L - 1>>
  <2>1. \A j \in L + 1 .. L + w : j - L \in 1 .. w
    BY <1>1
  <2>2. QED BY <1>2, <1>5, <2>1
<1>7. Append(fs, x) \in Seq(Field)
  BY AppendProperties
<1>8. QED
  BY <1>4, <1>5, <1>6, <1>7 DEF Wide, b, w

(* What lays out a struct, and has the bytes of one more field behind it,
   lays out the struct with that field. This is what an encoder adds with
   each store, and a decoder with each load. *)
LEMMA LaysNext ==
    ASSUME NEW at, NEW fs \in Seq(Field), NEW x \in Field,
           NEW gs \in Seq(Field), Len(gs) = Len(fs) + 1,
           \A i \in 1 .. Len(fs) : gs[i] = fs[i], gs[Len(fs) + 1] = x,
           NEW L \in Nat, Lays(at, fs, L), Fits(at, L, x[1], x[2])
    PROVE  Lays(at, gs, L + x[2])
<1>1. gs = Append(fs, x)
  BY AppendProperties, SeqEqual
<1> DEFINE b == StructBytes(gs)
           f == x[1]
           w == x[2]
<1>2. w \in Nat
  BY DEF Field
<1>3. /\ Wide(gs, L + w)
      /\ \A j \in 1 .. L : b[j] = StructBytes(fs)[j]
      /\ \A j \in L + 1 .. L + w : b[j] = <<f, j - L - 1>>
  <2>1. Wide(fs, L)
    BY DEF Lays
  <2>2. /\ Wide(Append(fs, x), L + x[2])
        /\ \A j \in 1 .. L : StructBytes(Append(fs, x))[j] = StructBytes(fs)[j]
        /\ \A j \in L + 1 .. L + x[2] : StructBytes(Append(fs, x))[j] = <<x[1], j - L - 1>>
    BY <2>1, WideAppend
  <2>3. QED BY <1>1, <2>2
<1>4. \A k \in 0 .. w - 1 : L + k \in DOMAIN at /\ at[L + k] = <<f, k>>
  BY DEF Fits
<1> HIDE DEF b, f, w
<1>5. ASSUME NEW j \in 1 .. L + w PROVE j - 1 \in DOMAIN at /\ at[j - 1] = b[j]
  <2>1. CASE j \in 1 .. L
    BY <1>3, <2>1 DEF Lays
  <2>2. CASE j \in L + 1 .. L + w
    <3>1. j - L - 1 \in 0 .. w - 1 /\ L + (j - L - 1) = j - 1
      BY <2>2, <1>2
    <3>2. QED BY <1>3, <1>4, <2>2, <3>1
  <2>3. QED BY <2>1, <2>2, <1>2
<1>6. QED
  BY <1>3, <1>5 DEF Lays, b, w

(* The layouts of one field and of two. *)
LEMMA Lays1 ==
    ASSUME NEW at, NEW x1 \in Field, Fits(at, 0, x1[1], x1[2])
    PROVE  Lays(at, <<x1>>, x1[2])
<1> DEFINE gs == <<x1>>
           fs == <<>>
<1>1. x1[2] \in Nat /\ 0 \in Nat
  BY DEF Field
<1>2. fs \in Seq(Field) /\ Len(fs) = 0
  OBVIOUS
<1>3. gs \in Seq(Field) /\ Len(gs) = 1 /\ gs[1] = x1
  OBVIOUS
<1>4. Lays(at, fs, 0)
  BY LaysNone
<1> HIDE DEF fs, gs
<1>5. /\ Len(gs) = Len(fs) + 1 /\ gs[Len(fs) + 1] = x1
      /\ \A i \in 1 .. Len(fs) : gs[i] = fs[i]
  BY <1>2, <1>3
<1>6. Lays(at, gs, 0 + x1[2])
  BY <1>1, <1>2, <1>3, <1>4, <1>5, LaysNext, Zenon
<1>7. 0 + x1[2] = x1[2]
  BY <1>1
<1>8. QED
  BY <1>6, <1>7 DEF gs

(* Two fields, the second behind the first. *)
LEMMA Lays2 ==
    ASSUME NEW at, NEW x1 \in Field, NEW x2 \in Field,
           Fits(at, 0, x1[1], x1[2]), Fits(at, x1[2], x2[1], x2[2])
    PROVE  Lays(at, <<x1, x2>>, x1[2] + x2[2])
<1> DEFINE fs == <<x1>>
           gs == <<x1, x2>>
<1>1. x1[2] \in Nat
  BY DEF Field
<1>2. fs \in Seq(Field) /\ Len(fs) = 1 /\ fs[1] = x1
  OBVIOUS
<1>3. gs \in Seq(Field) /\ Len(gs) = 2 /\ gs[1] = x1 /\ gs[2] = x2
  OBVIOUS
<1>4. Lays(at, fs, x1[2])
  BY Lays1
<1> HIDE DEF fs, gs
<1>5. /\ Len(gs) = Len(fs) + 1 /\ gs[Len(fs) + 1] = x2
      /\ \A i \in 1 .. Len(fs) : gs[i] = fs[i]
  BY <1>2, <1>3
<1>6. Lays(at, gs, x1[2] + x2[2])
  BY <1>1, <1>2, <1>3, <1>4, <1>5, LaysNext, Zenon
<1>7. QED
  BY <1>6 DEF gs

\* Every position of at lies before L; at is a layout of fs and no longer;
\* and b is the field f at o, w bytes wide, and nothing behind it.
Ends(at, L) == \A i \in DOMAIN at : i \in Int /\ i < L
Exactly(at, fs, L) == Lays(at, fs, L) /\ Ends(at, L)
Piece(b, o, f, w) == Fits(b, o, f, w) /\ Ends(b, o + w)

(* A byte stored is a field of one byte. *)
LEMMA PieceOfByte ==
    ASSUME NEW i \in Nat, NEW f
    PROVE  Piece(Byte(i, f), i, f, 1)
BY DEF Piece, Fits, Ends, Byte

(* A word stored least significant byte first is a field of two bytes. *)
LEMMA PieceOfWord ==
    ASSUME NEW i \in Nat, NEW p, p[1] = i, p[2] = i + 1, NEW f
    PROVE  Piece(Word(p, f), i, f, 2)
<1>1. DOMAIN Word(p, f) = {i, i + 1}
  BY DEF Word
<1>2. Word(p, f)[i] = <<f, 0>> /\ Word(p, f)[i + 1] = <<f, 1>>
  BY DEF Word
<1>3. \A k \in 0 .. 2 - 1 : (k = 0 /\ i + k = i) \/ (k = 1 /\ i + k = i + 1)
  OBVIOUS
<1>4. Fits(Word(p, f), i, f, 2)
  BY <1>1, <1>2, <1>3 DEF Fits
<1>5. Ends(Word(p, f), i + 2)
  BY <1>1 DEF Ends
<1>6. QED BY <1>4, <1>5 DEF Piece

(* A memcpy of n bytes is a field of n bytes. *)
LEMMA PieceOfCopy ==
    ASSUME NEW i \in Nat, NEW f, NEW n \in Nat
    PROVE  Piece(Copy(i, f, n), i, f, n)
BY DEF Piece, Fits, Ends, Copy

(* Of two stores side by side the first keeps its bytes. *)
LEMMA FitsLeft ==
    ASSUME NEW a, NEW b, NEW o, NEW f, NEW w, Fits(a, o, f, w)
    PROVE  Fits(a ++ b, o, f, w)
BY DEF Fits, ++

(* And the second too, if it begins where the first ends. *)
LEMMA FitsRight ==
    ASSUME NEW a, NEW b, NEW o \in Nat, NEW f, NEW w \in Nat, Ends(a, o), Fits(b, o, f, w)
    PROVE  Fits(a ++ b, o, f, w)
<1>1. ASSUME NEW k \in 0 .. w - 1
      PROVE  o + k \in DOMAIN (a ++ b) /\ (a ++ b)[o + k] = <<f, k>>
  <2>1. o + k \in DOMAIN b /\ b[o + k] = <<f, k>>
    BY DEF Fits
  <2>2. o + k \notin DOMAIN a
    <3>1. ~ (o + k < o)
      OBVIOUS
    <3>2. QED BY <3>1 DEF Ends
  <2>3. QED BY <2>1, <2>2 DEF ++
<1>2. QED BY <1>1 DEF Fits

(* A later store leaves a layout alone. *)
LEMMA LaysLeft ==
    ASSUME NEW a, NEW b, NEW fs, NEW L, Lays(a, fs, L)
    PROVE  Lays(a ++ b, fs, L)
<1>1. ASSUME NEW j \in 1 .. L
      PROVE  j - 1 \in DOMAIN (a ++ b) /\ (a ++ b)[j - 1] = StructBytes(fs)[j]
  <2>1. j - 1 \in DOMAIN a /\ a[j - 1] = StructBytes(fs)[j]
    BY DEF Lays
  <2>2. QED BY <2>1 DEF ++
<1>2. QED BY <1>1 DEF Lays

(* Where two stores end. *)
LEMMA EndsBoth ==
    ASSUME NEW a, NEW b, NEW L \in Nat, NEW w \in Nat, Ends(a, L), Ends(b, L + w)
    PROVE  Ends(a ++ b, L + w)
BY DEF Ends, ++

(* One more store behind a layout lays out one more field. *)
LEMMA ExactlyNext ==
    ASSUME NEW at, NEW fs \in Seq(Field), NEW x \in Field,
           NEW gs \in Seq(Field), Len(gs) = Len(fs) + 1,
           \A i \in 1 .. Len(fs) : gs[i] = fs[i], gs[Len(fs) + 1] = x,
           NEW L \in Nat, Exactly(at, fs, L),
           NEW b, Piece(b, L, x[1], x[2])
    PROVE  Exactly(at ++ b, gs, L + x[2])
<1>1. x[2] \in Nat
  BY DEF Field
<1>2. Lays(at, fs, L) /\ Ends(at, L) /\ Fits(b, L, x[1], x[2]) /\ Ends(b, L + x[2])
  BY DEF Exactly, Piece
<1>3. Lays(at ++ b, fs, L)
  BY <1>2, LaysLeft, Zenon
<1>4. Fits(at ++ b, L, x[1], x[2])
  BY <1>1, <1>2, FitsRight, Zenon
<1>5. Lays(at ++ b, gs, L + x[2])
  BY <1>3, <1>4, LaysNext, Zenon
<1>6. Ends(at ++ b, L + x[2])
  BY <1>1, <1>2, EndsBoth, Zenon
<1>7. QED BY <1>5, <1>6, Zenon DEF Exactly

(* A message of one field. The lemmas for two to six fields follow, each
   from the one before it: the offsets are the sums of the widths in front. *)
LEMMA One ==
    ASSUME NEW f1 \in Names, NEW w1 \in Nat, NEW b1, Piece(b1, 0, f1, w1)
    PROVE  Exactly(b1, << <<f1, w1>> >>, w1)
<1> DEFINE x1 == <<f1, w1>>
<1>1. x1 \in Field /\ x1[1] = f1 /\ x1[2] = w1
  BY DEF Field
<1> HIDE DEF x1
<1>2. Fits(b1, 0, x1[1], x1[2]) /\ Ends(b1, w1)
  <2>1. 0 + w1 = w1
    OBVIOUS
  <2>2. QED BY <1>1, <2>1, Zenon DEF Piece
<1>3. Lays(b1, <<x1>>, x1[2])
  BY <1>1, <1>2, Lays1, Zenon
<1>4. Exactly(b1, <<x1>>, w1)
  BY <1>1, <1>2, <1>3, Zenon DEF Exactly
<1>5. QED BY <1>4 DEF x1

(* A message of two fields. *)
LEMMA Two ==
    ASSUME NEW f1 \in Names, NEW w1 \in Nat, NEW b1,
           NEW f2 \in Names, NEW w2 \in Nat, NEW b2,
           Piece(b1, 0, f1, w1),
           Piece(b2, w1, f2, w2)
    PROVE  Exactly(b1 ++ b2, << <<f1, w1>>, <<f2, w2>> >>, w1 + w2)
<1> DEFINE x1 == <<f1, w1>>
           x2 == <<f2, w2>>
           fs == <<x1>>
           gs == <<x1, x2>>
           at == b1
           L == w1
<1>1. L \in Nat
  OBVIOUS
<1>2. x1 \in Field /\ x2 \in Field /\ x2[1] = f2 /\ x2[2] = w2
  BY DEF Field
<1>3. Exactly(at, fs, L)
  BY One, Zenon
<1>4. Piece(b2, L, x2[1], x2[2])
  BY <1>2
<1> HIDE DEF x1, x2, at, L
<1>5. /\ fs \in Seq(Field) /\ Len(fs) = 1
      /\ gs \in Seq(Field) /\ Len(gs) = 2 /\ gs[2] = x2
      /\ \A i \in 1 .. 1 : gs[i] = fs[i]
  BY <1>2
<1> HIDE DEF fs, gs
<1>6. Len(gs) = Len(fs) + 1 /\ gs[Len(fs) + 1] = x2 /\ \A i \in 1 .. Len(fs) : gs[i] = fs[i]
  BY <1>5
<1>7. Exactly(at ++ b2, gs, L + x2[2])
  BY <1>1, <1>2, <1>3, <1>4, <1>5, <1>6, ExactlyNext, Zenon
<1>8. QED BY <1>2, <1>7 DEF at, gs, L, x1, x2

(* A message of three fields. *)
LEMMA Three ==
    ASSUME NEW f1 \in Names, NEW w1 \in Nat, NEW b1,
           NEW f2 \in Names, NEW w2 \in Nat, NEW b2,
           NEW f3 \in Names, NEW w3 \in Nat, NEW b3,
           Piece(b1, 0, f1, w1),
           Piece(b2, w1, f2, w2),
           Piece(b3, w1 + w2, f3, w3)
    PROVE  Exactly(b1 ++ b2 ++ b3, << <<f1, w1>>, <<f2, w2>>, <<f3, w3>> >>, w1 + w2 + w3)
<1> DEFINE x1 == <<f1, w1>>
           x2 == <<f2, w2>>
           x3 == <<f3, w3>>
           fs == <<x1, x2>>
           gs == <<x1, x2, x3>>
           at == b1 ++ b2
           L == w1 + w2
<1>1. L \in Nat
  OBVIOUS
<1>2. x1 \in Field /\ x2 \in Field /\ x3 \in Field /\ x3[1] = f3 /\ x3[2] = w3
  BY DEF Field
<1>3. Exactly(at, fs, L)
  BY Two, Zenon
<1>4. Piece(b3, L, x3[1], x3[2])
  BY <1>2
<1> HIDE DEF x1, x2, x3, at, L
<1>5. /\ fs \in Seq(Field) /\ Len(fs) = 2
      /\ gs \in Seq(Field) /\ Len(gs) = 3 /\ gs[3] = x3
      /\ \A i \in 1 .. 2 : gs[i] = fs[i]
  BY <1>2
<1> HIDE DEF fs, gs
<1>6. Len(gs) = Len(fs) + 1 /\ gs[Len(fs) + 1] = x3 /\ \A i \in 1 .. Len(fs) : gs[i] = fs[i]
  BY <1>5
<1>7. Exactly(at ++ b3, gs, L + x3[2])
  BY <1>1, <1>2, <1>3, <1>4, <1>5, <1>6, ExactlyNext, Zenon
<1>8. QED BY <1>2, <1>7 DEF at, gs, L, x1, x2, x3

(* A message of four fields. *)
LEMMA Four ==
    ASSUME NEW f1 \in Names, NEW w1 \in Nat, NEW b1,
           NEW f2 \in Names, NEW w2 \in Nat, NEW b2,
           NEW f3 \in Names, NEW w3 \in Nat, NEW b3,
           NEW f4 \in Names, NEW w4 \in Nat, NEW b4,
           Piece(b1, 0, f1, w1),
           Piece(b2, w1, f2, w2),
           Piece(b3, w1 + w2, f3, w3),
           Piece(b4, w1 + w2 + w3, f4, w4)
    PROVE  Exactly(b1 ++ b2 ++ b3 ++ b4,
                   << <<f1, w1>>, <<f2, w2>>, <<f3, w3>>, <<f4, w4>> >>,
                   w1 + w2 + w3 + w4)
<1> DEFINE x1 == <<f1, w1>>
           x2 == <<f2, w2>>
           x3 == <<f3, w3>>
           x4 == <<f4, w4>>
           fs == <<x1, x2, x3>>
           gs == <<x1, x2, x3, x4>>
           at == b1 ++ b2 ++ b3
           L == w1 + w2 + w3
<1>1. L \in Nat
  OBVIOUS
<1>2. x1 \in Field /\ x2 \in Field /\ x3 \in Field /\ x4 \in Field /\ x4[1] = f4 /\ x4[2] = w4
  BY DEF Field
<1>3. Exactly(at, fs, L)
  BY Three, Zenon
<1>4. Piece(b4, L, x4[1], x4[2])
  BY <1>2
<1> HIDE DEF x1, x2, x3, x4, at, L
<1>5. /\ fs \in Seq(Field) /\ Len(fs) = 3
      /\ gs \in Seq(Field) /\ Len(gs) = 4 /\ gs[4] = x4
      /\ \A i \in 1 .. 3 : gs[i] = fs[i]
  BY <1>2
<1> HIDE DEF fs, gs
<1>6. Len(gs) = Len(fs) + 1 /\ gs[Len(fs) + 1] = x4 /\ \A i \in 1 .. Len(fs) : gs[i] = fs[i]
  BY <1>5
<1>7. Exactly(at ++ b4, gs, L + x4[2])
  BY <1>1, <1>2, <1>3, <1>4, <1>5, <1>6, ExactlyNext, Zenon
<1>8. QED BY <1>2, <1>7 DEF at, gs, L, x1, x2, x3, x4

(* A message of five fields. *)
LEMMA Five ==
    ASSUME NEW f1 \in Names, NEW w1 \in Nat, NEW b1,
           NEW f2 \in Names, NEW w2 \in Nat, NEW b2,
           NEW f3 \in Names, NEW w3 \in Nat, NEW b3,
           NEW f4 \in Names, NEW w4 \in Nat, NEW b4,
           NEW f5 \in Names, NEW w5 \in Nat, NEW b5,
           Piece(b1, 0, f1, w1),
           Piece(b2, w1, f2, w2),
           Piece(b3, w1 + w2, f3, w3),
           Piece(b4, w1 + w2 + w3, f4, w4),
           Piece(b5, w1 + w2 + w3 + w4, f5, w5)
    PROVE  Exactly(b1 ++ b2 ++ b3 ++ b4 ++ b5,
                   << <<f1, w1>>, <<f2, w2>>, <<f3, w3>>, <<f4, w4>>, <<f5, w5>> >>,
                   w1 + w2 + w3 + w4 + w5)
<1> DEFINE x1 == <<f1, w1>>
           x2 == <<f2, w2>>
           x3 == <<f3, w3>>
           x4 == <<f4, w4>>
           x5 == <<f5, w5>>
           fs == <<x1, x2, x3, x4>>
           gs == <<x1, x2, x3, x4, x5>>
           at == b1 ++ b2 ++ b3 ++ b4
           L == w1 + w2 + w3 + w4
<1>1. L \in Nat
  OBVIOUS
<1>2. /\ x1 \in Field /\ x2 \in Field /\ x3 \in Field /\ x4 \in Field /\ x5 \in Field
      /\ x5[1] = f5 /\ x5[2] = w5
  BY DEF Field
<1>3. Exactly(at, fs, L)
  BY Four, Zenon
<1>4. Piece(b5, L, x5[1], x5[2])
  BY <1>2
<1> HIDE DEF x1, x2, x3, x4, x5, at, L
<1>5. /\ fs \in Seq(Field) /\ Len(fs) = 4
      /\ gs \in Seq(Field) /\ Len(gs) = 5 /\ gs[5] = x5
      /\ \A i \in 1 .. 4 : gs[i] = fs[i]
  BY <1>2
<1> HIDE DEF fs, gs
<1>6. Len(gs) = Len(fs) + 1 /\ gs[Len(fs) + 1] = x5 /\ \A i \in 1 .. Len(fs) : gs[i] = fs[i]
  BY <1>5
<1>7. Exactly(at ++ b5, gs, L + x5[2])
  BY <1>1, <1>2, <1>3, <1>4, <1>5, <1>6, ExactlyNext, Zenon
<1>8. QED BY <1>2, <1>7 DEF at, gs, L, x1, x2, x3, x4, x5

(* A message of six fields. *)
LEMMA Six ==
    ASSUME NEW f1 \in Names, NEW w1 \in Nat, NEW b1,
           NEW f2 \in Names, NEW w2 \in Nat, NEW b2,
           NEW f3 \in Names, NEW w3 \in Nat, NEW b3,
           NEW f4 \in Names, NEW w4 \in Nat, NEW b4,
           NEW f5 \in Names, NEW w5 \in Nat, NEW b5,
           NEW f6 \in Names, NEW w6 \in Nat, NEW b6,
           Piece(b1, 0, f1, w1),
           Piece(b2, w1, f2, w2),
           Piece(b3, w1 + w2, f3, w3),
           Piece(b4, w1 + w2 + w3, f4, w4),
           Piece(b5, w1 + w2 + w3 + w4, f5, w5),
           Piece(b6, w1 + w2 + w3 + w4 + w5, f6, w6)
    PROVE  Exactly(b1 ++ b2 ++ b3 ++ b4 ++ b5 ++ b6,
                   << <<f1, w1>>, <<f2, w2>>, <<f3, w3>>, <<f4, w4>>, <<f5, w5>>, <<f6, w6>> >>,
                   w1 + w2 + w3 + w4 + w5 + w6)
<1> DEFINE x1 == <<f1, w1>>
           x2 == <<f2, w2>>
           x3 == <<f3, w3>>
           x4 == <<f4, w4>>
           x5 == <<f5, w5>>
           x6 == <<f6, w6>>
           fs == <<x1, x2, x3, x4, x5>>
           gs == <<x1, x2, x3, x4, x5, x6>>
           at == b1 ++ b2 ++ b3 ++ b4 ++ b5
           L == w1 + w2 + w3 + w4 + w5
<1>1. L \in Nat
  OBVIOUS
<1>2. /\ x1 \in Field /\ x2 \in Field /\ x3 \in Field /\ x4 \in Field /\ x5 \in Field /\ x6 \in Field
      /\ x6[1] = f6 /\ x6[2] = w6
  BY DEF Field
<1>3. Exactly(at, fs, L)
  BY Five, Zenon
<1>4. Piece(b6, L, x6[1], x6[2])
  BY <1>2
<1> HIDE DEF x1, x2, x3, x4, x5, x6, at, L
<1>5. /\ fs \in Seq(Field) /\ Len(fs) = 5
      /\ gs \in Seq(Field) /\ Len(gs) = 6 /\ gs[6] = x6
      /\ \A i \in 1 .. 5 : gs[i] = fs[i]
  BY <1>2
<1> HIDE DEF fs, gs
<1>6. Len(gs) = Len(fs) + 1 /\ gs[Len(fs) + 1] = x6 /\ \A i \in 1 .. Len(fs) : gs[i] = fs[i]
  BY <1>5
<1>7. Exactly(at ++ b6, gs, L + x6[2])
  BY <1>1, <1>2, <1>3, <1>4, <1>5, <1>6, ExactlyNext, Zenon
<1>8. QED BY <1>2, <1>7 DEF at, gs, L, x1, x2, x3, x4, x5, x6

(* The size of a struct that has a layout. *)
LEMMA WidthOf ==
    ASSUME NEW at, NEW fs, NEW L, Exactly(at, fs, L)
    PROVE  Len(StructBytes(fs)) = L
BY DEF Exactly, Lays, Wide

\* r moved o positions on, as acil_decode_evt_command_response reads a
\* response.
Shifted(r, o) == [i \in {o + j : j \in DOMAIN r} |-> r[i - o]]

(* What decodes a struct, followed by what decodes another one moved behind
   it, decodes both: how a Command Response is read (acilib.cpp,
   acil_decode_evt_command_response). *)
LEMMA LaysConcat ==
    ASSUME NEW a, NEW r, NEW fs \in Seq(Field), NEW gs \in Seq(Field),
           NEW L \in Nat, NEW M \in Nat, Exactly(a, fs, L), Lays(r, gs, M)
    PROVE  Lays(a ++ Shifted(r, L), fs \o gs, L + M)
<1> DEFINE b == StructBytes(fs)
           c == StructBytes(gs)
           at == a ++ Shifted(r, L)
<1>1. /\ b \in Seq(Field) /\ Len(b) = L
      /\ c \in Seq(Field) /\ Len(c) = M
      /\ \A j \in 1 .. L : j - 1 \in DOMAIN a /\ a[j - 1] = b[j]
      /\ \A j \in 1 .. M : j - 1 \in DOMAIN r /\ r[j - 1] = c[j]
      /\ Ends(a, L)
  BY DEF Exactly, Lays, Wide
<1>2. StructBytes(fs \o gs) = b \o c
  BY StructConcat
<1> HIDE DEF b, c
<1>3. /\ b \o c \in Seq(Field) /\ Len(b \o c) = L + M
      /\ \A j \in 1 .. L + M : (b \o c)[j] = IF j <= L THEN b[j] ELSE c[j - L]
  BY <1>1, ConcatProperties
<1>4. ASSUME NEW j \in 1 .. L + M
      PROVE  j - 1 \in DOMAIN at /\ at[j - 1] = (b \o c)[j]
  <2>1. CASE j <= L
    <3>1. j - 1 \in DOMAIN a /\ a[j - 1] = b[j]
      BY <1>1, <2>1
    <3>2. j - 1 \in DOMAIN at /\ at[j - 1] = a[j - 1]
      BY <3>1 DEF ++
    <3>3. QED BY <1>3, <2>1, <3>1, <3>2
  <2>2. CASE ~(j <= L)
    <3>1. j - L \in 1 .. M /\ (j - L) - 1 = (j - 1) - L /\ L + ((j - L) - 1) = j - 1
      BY <2>2
    <3>2. (j - 1) - L \in DOMAIN r /\ r[(j - 1) - L] = c[j - L]
      BY <1>1, <3>1
    <3>3. j - 1 \in DOMAIN Shifted(r, L) /\ Shifted(r, L)[j - 1] = r[(j - 1) - L]
      BY <3>1, <3>2 DEF Shifted
    <3>4. j - 1 \notin DOMAIN a
      <4>1. ~(j - 1 < L)
        BY <2>2
      <4>2. QED BY <1>1, <4>1 DEF Ends
    <3>5. j - 1 \in DOMAIN at /\ at[j - 1] = r[(j - 1) - L]
      BY <3>3, <3>4 DEF ++
    <3>6. QED BY <1>3, <2>2, <3>2, <3>5
  <2>3. QED BY <2>1, <2>2
<1>5. fs \o gs \in Seq(Field)
  BY ConcatProperties
<1>6. QED
  BY <1>2, <1>3, <1>4, <1>5 DEF Lays, Wide

-----------------------------------------------------------------------------
(* A message and the struct it is.                                          *)

\* What EncodesCommand says of one message: the opcode and the length of the
\* struct, and its bytes in their places.
Agrees(m, expected) ==
    /\ m.op = expected.op
    /\ m.length = expected.length
    /\ \A i \in DOMAIN expected.at : i \in DOMAIN m.at /\ m.at[i] = expected.at[i]

(* A message keeps its opcode, its length, and its parameters two bytes on. *)
LEMMA MessageParts ==
    ASSUME NEW op, NEW len, NEW at, DOMAIN at \subseteq Int
    PROVE  LET m == Message(op, len, at) IN
           /\ m.op = op /\ m.length = len
           /\ DOMAIN m.at = {2 + j : j \in DOMAIN at}
           /\ \A j \in DOMAIN at : m.at[2 + j] = at[j]
<1>1. Message(op, len, at) =
        [op |-> op, length |-> len, at |-> [i \in {2 + j : j \in DOMAIN at} |-> at[i - 2]]]
  BY DEF Message, PARAMS
<1> DEFINE r == [i \in {2 + j : j \in DOMAIN at} |-> at[i - 2]]
<1>2. \A j \in DOMAIN at : r[2 + j] = at[j]
  <2> SUFFICES ASSUME NEW j \in DOMAIN at PROVE r[2 + j] = at[j]
    OBVIOUS
  <2>1. (2 + j) - 2 = j
    OBVIOUS
  <2>2. r[2 + j] = at[(2 + j) - 2]
    OBVIOUS
  <2>3. QED BY <2>1, <2>2
<1>3. DOMAIN r = {2 + j : j \in DOMAIN at}
  OBVIOUS
<1> HIDE DEF r
<1>4. QED BY <1>1, <1>2, <1>3 DEF r

(* The same of the message that a struct overlays. *)
LEMMA OverlayParts ==
    ASSUME NEW op, NEW fs, NEW L \in Nat, Wide(fs, L)
    PROVE  LET e == Overlay(op, fs) IN
           /\ e.op = op /\ e.length = 1 + L
           /\ DOMAIN e.at = {2 + j : j \in 0 .. L - 1}
           /\ \A j \in 0 .. L - 1 : e.at[2 + j] = StructBytes(fs)[j + 1]
<1> DEFINE b == StructBytes(fs)
           a == [j \in 0 .. L - 1 |-> b[j + 1]]
<1>1. Len(b) = L
  BY DEF Wide
<1>2. Overlay(op, fs) = Message(op, 1 + L, a)
  BY <1>1 DEF Overlay
<1>3. DOMAIN a = 0 .. L - 1 /\ DOMAIN a \subseteq Int /\ \A j \in 0 .. L - 1 : a[j] = b[j + 1]
  OBVIOUS
<1> DEFINE e == Overlay(op, fs)
<1> HIDE DEF a
<1>4. /\ e.op = op /\ e.length = 1 + L
      /\ DOMAIN e.at = {2 + j : j \in DOMAIN a}
      /\ \A j \in DOMAIN a : e.at[2 + j] = a[j]
  BY <1>2, <1>3, MessageParts
<1> HIDE DEF e
<1>5. QED BY <1>3, <1>4 DEF b, e

(* A message whose parameters lay out the struct, and whose length counts
   them and the opcode, agrees with it. *)
LEMMA MessageAgrees ==
    ASSUME NEW op, NEW len, NEW at, NEW fs, NEW L \in Nat, len = 1 + L, Exactly(at, fs, L)
    PROVE  Agrees(Message(op, len, at), Overlay(op, fs))
<1> DEFINE b == StructBytes(fs)
           m == Message(op, len, at)
           e == Overlay(op, fs)
<1>1. /\ Wide(fs, L) /\ DOMAIN at \subseteq Int
      /\ \A j \in 1 .. L : j - 1 \in DOMAIN at /\ at[j - 1] = b[j]
  BY DEF Exactly, Lays, Ends
<1>2. /\ m.op = op /\ m.length = len
      /\ DOMAIN m.at = {2 + j : j \in DOMAIN at}
      /\ \A j \in DOMAIN at : m.at[2 + j] = at[j]
  BY <1>1, MessageParts
<1>3. /\ e.op = op /\ e.length = 1 + L
      /\ DOMAIN e.at = {2 + j : j \in 0 .. L - 1}
      /\ \A j \in 0 .. L - 1 : e.at[2 + j] = b[j + 1]
  BY <1>1, OverlayParts
<1> HIDE DEF b, m, e
<1>4. ASSUME NEW i \in DOMAIN e.at PROVE i \in DOMAIN m.at /\ m.at[i] = e.at[i]
  <2>1. PICK j \in 0 .. L - 1 : i = 2 + j
    BY <1>3
  <2>2. j + 1 \in 1 .. L /\ (j + 1) - 1 = j
    BY <2>1
  <2>3. j \in DOMAIN at /\ at[j] = b[j + 1]
    BY <1>1, <2>2
  <2>4. QED BY <1>2, <1>3, <2>1, <2>3
<1>5. QED BY <1>2, <1>3, <1>4 DEF Agrees, m, e

-----------------------------------------------------------------------------
(* The encoders of acilib.cpp.                                              *)

\* m is command op with n bytes of data, as its packed struct in aci_cmds.h
\* has it.
EncodedAs(m, op, n) == Agrees(m, Overlay(op, CmdStruct(op, n)))

(* What an encoder stores, for each struct: nothing. *)
LEMMA WritesNothing == Exactly(Nothing, <<>>, 0)
BY LaysNone DEF Exactly, Ends, Nothing

(* A pipe number. *)
LEMMA WritesPipe == Exactly(Pipe, pipe_struct, 1)
<1>1. Piece(Byte(CMD.pipe_number, "pipe_number"), 0, "pipe_number", 1)
  BY PieceOfByte DEF CMD
<1>2. "pipe_number" \in Names /\ 1 \in Nat
  BY DEF Names
<1>3. QED BY <1>1, <1>2, One, Zenon DEF Pipe, pipe_struct

(* A pipe number and n bytes of data. *)
LEMMA WritesData ==
    ASSUME NEW n \in Nat
    PROVE  Exactly(PipeData(n), data_struct(n), 1 + n)
<1>1. Piece(Byte(DATA.pipe_number, "pipe_number"), 0, "pipe_number", 1)
  BY PieceOfByte DEF DATA
<1>2. Piece(Copy(DATA.aci_data, "aci_data", n), 1, "aci_data", n)
  BY PieceOfCopy DEF DATA
<1>3. "pipe_number" \in Names /\ "aci_data" \in Names /\ 1 \in Nat
  BY DEF Names
<1>4. QED BY <1>1, <1>2, <1>3, Two, Zenon DEF PipeData, data_struct

(* Timeout and advertising interval. *)
LEMMA WritesAdvertise == Exactly(Advertise, advertise_struct, 2 + 2)
<1>1. Piece(Word(CMD.timeout, "timeout"), 0, "timeout", 2)
  BY PieceOfWord DEF CMD
<1>2. Piece(Word(CMD.adv_interval, "adv_interval"), 2, "adv_interval", 2)
  BY PieceOfWord DEF CMD
<1>3. "timeout" \in Names /\ "adv_interval" \in Names /\ 2 \in Nat
  BY DEF Names
<1>4. QED BY <1>1, <1>2, <1>3, Two, Zenon DEF Advertise, advertise_struct

(* The four parameters of a change of timing. *)
LEMMA WritesTiming ==
    Exactly(Word(LL.min_conn_interval, "min_conn_interval")
            ++ Word(LL.max_conn_interval, "max_conn_interval")
            ++ Word(LL.slave_latency, "slave_latency")
            ++ Word(LL.timeout_mult, "timeout_mult"),
            << <<"min_conn_interval", 2>>, <<"max_conn_interval", 2>>,
               <<"slave_latency", 2>>, <<"timeout_mult", 2>> >>, 2 + 2 + 2 + 2)
<1>1. Piece(Word(LL.min_conn_interval, "min_conn_interval"), 0, "min_conn_interval", 2)
  BY PieceOfWord DEF LL
<1>2. Piece(Word(LL.max_conn_interval, "max_conn_interval"), 2, "max_conn_interval", 2)
  BY PieceOfWord DEF LL
<1>3. Piece(Word(LL.slave_latency, "slave_latency"), 2 + 2, "slave_latency", 2)
  BY PieceOfWord DEF LL
<1>4. Piece(Word(LL.timeout_mult, "timeout_mult"), 2 + 2 + 2, "timeout_mult", 2)
  BY PieceOfWord DEF LL
<1>5. /\ "min_conn_interval" \in Names /\ "max_conn_interval" \in Names
      /\ "slave_latency" \in Names /\ "timeout_mult" \in Names /\ 2 \in Nat
  BY DEF Names
<1>6. QED BY <1>1, <1>2, <1>3, <1>4, <1>5, Four, Zenon

(* The test mode. *)
LEMMA WritesTest ==
    Exactly(Byte(CMD.test_mode_change, "test_mode_change"), << <<"test_mode_change", 1>> >>, 1)
<1>1. Piece(Byte(CMD.test_mode_change, "test_mode_change"), 0, "test_mode_change", 1)
  BY PieceOfByte DEF CMD
<1>2. "test_mode_change" \in Names /\ 1 \in Nat
  BY DEF Names
<1>3. QED BY <1>1, <1>2, One, Zenon

(* The reason to disconnect. *)
LEMMA WritesReason ==
    Exactly(Byte(CMD.reason, "reason"), << <<"reason", 1>> >>, 1)
<1>1. Piece(Byte(CMD.reason, "reason"), 0, "reason", 1)
  BY PieceOfByte DEF CMD
<1>2. "reason" \in Names /\ 1 \in Nat
  BY DEF Names
<1>3. QED BY <1>1, <1>2, One, Zenon

(* The transmit power. *)
LEMMA WritesPower ==
    Exactly(Byte(CMD.device_power, "device_power"), << <<"device_power", 1>> >>, 1)
<1>1. Piece(Byte(CMD.device_power, "device_power"), 0, "device_power", 1)
  BY PieceOfByte DEF CMD
<1>2. "device_power" \in Names /\ 1 \in Nat
  BY DEF Names
<1>3. QED BY <1>1, <1>2, One, Zenon

(* The data of an echo. *)
LEMMA WritesEcho ==
    ASSUME NEW n \in Nat
    PROVE  Exactly(Copy(CMD.echo_data, "echo_data", n), << <<"echo_data", n>> >>, n)
<1>1. Piece(Copy(CMD.echo_data, "echo_data", n), 0, "echo_data", n)
  BY PieceOfCopy DEF CMD
<1>2. "echo_data" \in Names
  BY DEF Names
<1>3. QED BY <1>1, <1>2, One, Zenon

(* The data of a setup message. *)
LEMMA WritesSetup ==
    ASSUME NEW n \in Nat
    PROVE  Exactly(Copy(CMD.setup_data, "setup_data", n), << <<"setup_data", n>> >>, n)
<1>1. Piece(Copy(CMD.setup_data, "setup_data", n), 0, "setup_data", n)
  BY PieceOfCopy DEF CMD
<1>2. "setup_data" \in Names
  BY DEF Names
<1>3. QED BY <1>1, <1>2, One, Zenon

(* A sequence number and a part of the dynamic data. *)
LEMMA WritesDynamic ==
    ASSUME NEW n \in Nat
    PROVE  Exactly(Byte(CMD.seq_no, "seq_no") ++ Copy(CMD.dynamic_data, "dynamic_data", n),
                   << <<"seq_no", 1>>, <<"dynamic_data", n>> >>,
                   1 + n)
<1>1. Piece(Byte(CMD.seq_no, "seq_no"), 0, "seq_no", 1)
  BY PieceOfByte DEF CMD
<1>2. Piece(Copy(CMD.dynamic_data, "dynamic_data", n), 1, "dynamic_data", n)
  BY PieceOfCopy DEF CMD
<1>3. "seq_no" \in Names /\ "dynamic_data" \in Names /\ 1 \in Nat
  BY DEF Names
<1>4. QED BY <1>1, <1>2, <1>3, Two, Zenon

(* The latency mode and the latency. *)
LEMMA WritesLatency ==
    Exactly(Byte(CMD.mode, "mode") ++ Word(CMD.latency, "latency"),
            << <<"mode", 1>>, <<"latency", 2>> >>,
            1 + 2)
<1>1. Piece(Byte(CMD.mode, "mode"), 0, "mode", 1)
  BY PieceOfByte DEF CMD
<1>2. Piece(Word(CMD.latency, "latency"), 1, "latency", 2)
  BY PieceOfWord DEF CMD
<1>3. "mode" \in Names /\ "latency" \in Names /\ 1 \in Nat /\ 2 \in Nat
  BY DEF Names
<1>4. QED BY <1>1, <1>2, <1>3, Two, Zenon

(* The two bytes of a direct test mode command, most significant first. *)
LEMMA WritesDtm ==
    Exactly(Byte(CMD.cmd_msb, "cmd_msb") ++ Byte(CMD.cmd_lsb, "cmd_lsb"),
            << <<"cmd_msb", 1>>, <<"cmd_lsb", 1>> >>,
            1 + 1)
<1>1. Piece(Byte(CMD.cmd_msb, "cmd_msb"), 0, "cmd_msb", 1)
  BY PieceOfByte DEF CMD
<1>2. Piece(Byte(CMD.cmd_lsb, "cmd_lsb"), 1, "cmd_lsb", 1)
  BY PieceOfByte DEF CMD
<1>3. "cmd_msb" \in Names /\ "cmd_lsb" \in Names /\ 1 \in Nat
  BY DEF Names
<1>4. QED BY <1>1, <1>2, <1>3, Two, Zenon

(* A pipe number and an error code. *)
LEMMA WritesNack ==
    Exactly(Byte(CMD.pipe_number, "pipe_number") ++ Byte(CMD.error_code, "error_code"),
            << <<"pipe_number", 1>>, <<"error_code", 1>> >>,
            1 + 1)
<1>1. Piece(Byte(CMD.pipe_number, "pipe_number"), 0, "pipe_number", 1)
  BY PieceOfByte DEF CMD
<1>2. Piece(Byte(CMD.error_code, "error_code"), 1, "error_code", 1)
  BY PieceOfByte DEF CMD
<1>3. "pipe_number" \in Names /\ "error_code" \in Names /\ 1 \in Nat
  BY DEF Names
<1>4. QED BY <1>1, <1>2, <1>3, Two, Zenon

(* A type of key and the key. *)
LEMMA WritesKey ==
    ASSUME NEW n \in Nat
    PROVE  Exactly(Byte(CMD.key_type, "key_type") ++ Copy(CMD.key, "key", n),
                   << <<"key_type", 1>>, <<"key", n>> >>,
                   1 + n)
<1>1. Piece(Byte(CMD.key_type, "key_type"), 0, "key_type", 1)
  BY PieceOfByte DEF CMD
<1>2. Piece(Copy(CMD.key, "key", n), 1, "key", n)
  BY PieceOfCopy DEF CMD
<1>3. "key_type" \in Names /\ "key" \in Names /\ 1 \in Nat
  BY DEF Names
<1>4. QED BY <1>1, <1>2, <1>3, Two, Zenon

(* A type of key and nothing of the key. *)
LEMMA WritesReject ==
    Exactly(Byte(CMD.key_type, "key_type") ++ Copy(CMD.key, "key", 0), << <<"key_type", 1>> >>, 1)
<1>1. Piece(Byte(0, "key_type") ++ Copy(1, "key", 0), 0, "key_type", 1)
  BY DEF Piece, Fits, Ends, Byte, Copy, ++
<1>2. "key_type" \in Names /\ 1 \in Nat /\ CMD.key_type = 0 /\ CMD.key = 1
  BY DEF Names, CMD
<1>3. QED BY <1>1, <1>2, One, Zenon

(* The bitmap of advertising pipes. *)
LEMMA WritesAdvPipes == Exactly(Copy(CMD.pipes, "pipes", BITMAP), << <<"pipes", BITMAP>> >>, BITMAP)
<1>1. BITMAP \in Nat /\ "pipes" \in Names
  BY DEF BITMAP, Names
<1>2. Piece(Copy(CMD.pipes, "pipes", BITMAP), 0, "pipes", BITMAP)
  BY <1>1, PieceOfCopy DEF CMD
<1>3. QED BY <1>1, <1>2, One, Zenon

(* The struct of each command. *)
LEMMA StructsOf ==
    ASSUME NEW n
    PROVE  /\ \A op \in BareCommands : CmdStruct(op, n) = <<>>
           /\ CmdStruct("change_timing", 0) = <<>>
           /\ \A op \in {"open_remote_pipe", "close_remote_pipe", "request_data", "send_data_ack"} :
                 CmdStruct(op, n) = pipe_struct
           /\ \A op \in {"connect", "bond", "broadcast"} : CmdStruct(op, n) = advertise_struct
           /\ \A op \in {"send_data", "set_local_data"} : CmdStruct(op, n) = data_struct(n)
           /\ n # 0 => CmdStruct("change_timing", n)
                = << <<"min_conn_interval", 2>>, <<"max_conn_interval", 2>>,
                     <<"slave_latency", 2>>, <<"timeout_mult", 2>> >>
           /\ CmdStruct("test", n) = << <<"test_mode_change", 1>> >>
           /\ CmdStruct("disconnect", n) = << <<"reason", 1>> >>
           /\ CmdStruct("set_tx_power", n) = << <<"device_power", 1>> >>
           /\ CmdStruct("echo", n) = << <<"echo_data", n>> >>
           /\ CmdStruct("setup", n) = << <<"setup_data", n>> >>
           /\ CmdStruct("write_dynamic_data", n) = << <<"seq_no", 1>>, <<"dynamic_data", n>> >>
           /\ CmdStruct("set_app_latency", n) = << <<"mode", 1>>, <<"latency", 2>> >>
           /\ CmdStruct("dtm_cmd", n) = << <<"cmd_msb", 1>>, <<"cmd_lsb", 1>> >>
           /\ CmdStruct("send_data_nack", n) = << <<"pipe_number", 1>>, <<"error_code", 1>> >>
           /\ CmdStruct("set_key", n) = << <<"key_type", 1>>, <<"key", PASSKEY>> >>
           /\ CmdStruct("reject_key", n) = << <<"key_type", 1>> >>
           /\ CmdStruct("open_adv_pipe", n) = << <<"pipes", BITMAP>> >>
BY DEF CmdStruct, BareCommands, aci_cmd_params_1, aci_cmd_params_2, ++

(* A message that is only an opcode. *)
LEMMA EncodesBare ==
    ASSUME NEW op \in BareCommands, NEW n
    PROVE  EncodedAs(Bare(op), op, n)
<1>1. CmdStruct(op, n) = <<>>
  BY StructsOf, Zenon
<1>2. 0 \in Nat /\ 1 = 1 + 0
  OBVIOUS
<1>3. QED BY <1>1, <1>2, WritesNothing, MessageAgrees, Zenon DEF EncodedAs, Bare

(* The encoders of commands without parameters. *)
LEMMA EncodesSimple ==
    ASSUME NEW n
    PROVE  /\ EncodedAs(acil_encode_cmd_sleep, "sleep", n)
           /\ EncodedAs(acil_encode_cmd_get_device_version, "get_device_version", n)
           /\ EncodedAs(acil_encode_baseband_reset, "radio_reset", n)
           /\ EncodedAs(acil_encode_direct_connect, "connect_direct", n)
           /\ EncodedAs(acil_encode_cmd_wakeup, "wakeup", n)
           /\ EncodedAs(acil_encode_cmd_get_address, "get_device_address", n)
           /\ EncodedAs(acil_encode_cmd_battery_level, "get_battery_level", n)
           /\ EncodedAs(acil_encode_cmd_temparature, "get_temperature", n)
           /\ EncodedAs(acil_encode_cmd_read_dynamic_data, "read_dynamic_data", n)
           /\ EncodedAs(acil_encode_cmd_bond_security_request, "bond_security_request", n)
<1>1. /\ "sleep" \in BareCommands /\ "get_device_version" \in BareCommands
      /\ "radio_reset" \in BareCommands /\ "connect_direct" \in BareCommands
      /\ "wakeup" \in BareCommands /\ "get_device_address" \in BareCommands
      /\ "get_battery_level" \in BareCommands /\ "get_temperature" \in BareCommands
      /\ "read_dynamic_data" \in BareCommands /\ "bond_security_request" \in BareCommands
  BY DEF BareCommands
<1>2. MSG.radio_reset = 1 /\ MSG.connect_direct = 1 /\ MSG.wakeup = 1 /\ MSG.get_device_address = 1
  BY DEF MSG
<1>3. QED
  BY <1>1, <1>2, EncodesBare, Zenon
     DEF Bare, acil_encode_cmd_sleep, acil_encode_cmd_get_device_version,
         acil_encode_baseband_reset, acil_encode_direct_connect, acil_encode_cmd_wakeup,
         acil_encode_cmd_get_address, acil_encode_cmd_battery_level,
         acil_encode_cmd_temparature, acil_encode_cmd_read_dynamic_data,
         acil_encode_cmd_bond_security_request

(* The encoders of commands on one pipe. *)
LEMMA EncodesPipe ==
    ASSUME NEW n
    PROVE  /\ EncodedAs(acil_encode_cmd_request_data, "request_data", n)
           /\ EncodedAs(acil_encode_cmd_open_remote_pipe, "open_remote_pipe", n)
           /\ EncodedAs(acil_encode_cmd_close_remote_pipe, "close_remote_pipe", n)
           /\ EncodedAs(acil_encode_cmd_send_data_ack, "send_data_ack", n)
<1>1. /\ MSG.request_data = 1 + 1 /\ MSG.open_remote_pipe = 1 + 1
      /\ MSG.close_remote_pipe = 1 + 1 /\ MSG.send_data_ack = 1 + 1 /\ 1 \in Nat
  BY DEF MSG
<1>2. /\ CmdStruct("request_data", n) = pipe_struct
      /\ CmdStruct("open_remote_pipe", n) = pipe_struct
      /\ CmdStruct("close_remote_pipe", n) = pipe_struct
      /\ CmdStruct("send_data_ack", n) = pipe_struct
  BY StructsOf
<1>3. QED
  BY <1>1, <1>2, WritesPipe, MessageAgrees, Zenon
     DEF EncodedAs, acil_encode_cmd_request_data, acil_encode_cmd_open_remote_pipe,
         acil_encode_cmd_close_remote_pipe, acil_encode_cmd_send_data_ack

(* The encoders of commands that advertise. *)
LEMMA EncodesAdvertise ==
    ASSUME NEW n
    PROVE  /\ EncodedAs(acil_encode_cmd_connect, "connect", n)
           /\ EncodedAs(acil_encode_cmd_bond, "bond", n)
           /\ EncodedAs(acil_encode_cmd_broadcast, "broadcast", n)
<1>1. /\ MSG.connect = 1 + (2 + 2) /\ MSG.bond = 1 + (2 + 2) /\ MSG.broadcast = 1 + (2 + 2)
      /\ 2 + 2 \in Nat
  BY DEF MSG
<1>2. /\ CmdStruct("connect", n) = advertise_struct
      /\ CmdStruct("bond", n) = advertise_struct
      /\ CmdStruct("broadcast", n) = advertise_struct
  BY StructsOf
<1>3. QED
  BY <1>1, <1>2, WritesAdvertise, MessageAgrees, Zenon
     DEF EncodedAs, acil_encode_cmd_connect, acil_encode_cmd_bond, acil_encode_cmd_broadcast

(* The encoders of commands with parameters of fixed size. *)
LEMMA EncodesParameters ==
    ASSUME NEW n
    PROVE  /\ EncodedAs(acil_encode_cmd_set_test_mode, "test", n)
           /\ EncodedAs(acil_encode_cmd_disconnect, "disconnect", n)
           /\ EncodedAs(acil_encode_cmd_set_radio_tx_power, "set_tx_power", n)
           /\ EncodedAs(acil_encode_cmd_set_app_latency, "set_app_latency", n)
           /\ EncodedAs(acil_encode_cmd_dtm_cmd, "dtm_cmd", n)
           /\ EncodedAs(acil_encode_cmd_send_data_nack, "send_data_nack", n)
           /\ EncodedAs(acil_encode_cmd_open_adv_pipes, "open_adv_pipe", n)
<1>1. /\ 2 = 1 + 1 /\ MSG.disconnect = 1 + 1 /\ MSG.set_tx_power = 1 + 1
      /\ MSG.set_app_latency = 1 + (1 + 2) /\ MSG.dtm_cmd = 1 + (1 + 1)
      /\ MSG.send_data_nack = 1 + (1 + 1) /\ MSG.open_adv_pipe = 1 + BITMAP
      /\ 1 \in Nat /\ 1 + 1 \in Nat /\ 1 + 2 \in Nat /\ BITMAP \in Nat
  BY DEF MSG, BITMAP
<1>2. /\ CmdStruct("test", n) = << <<"test_mode_change", 1>> >>
      /\ CmdStruct("disconnect", n) = << <<"reason", 1>> >>
      /\ CmdStruct("set_tx_power", n) = << <<"device_power", 1>> >>
      /\ CmdStruct("set_app_latency", n) = << <<"mode", 1>>, <<"latency", 2>> >>
      /\ CmdStruct("dtm_cmd", n) = << <<"cmd_msb", 1>>, <<"cmd_lsb", 1>> >>
      /\ CmdStruct("send_data_nack", n) = << <<"pipe_number", 1>>, <<"error_code", 1>> >>
      /\ CmdStruct("open_adv_pipe", n) = << <<"pipes", BITMAP>> >>
  BY StructsOf, Zenon
<1>3. EncodedAs(acil_encode_cmd_set_test_mode, "test", n)
  BY <1>1, <1>2, WritesTest, MessageAgrees, Zenon DEF EncodedAs, acil_encode_cmd_set_test_mode
<1>4. EncodedAs(acil_encode_cmd_disconnect, "disconnect", n)
  BY <1>1, <1>2, WritesReason, MessageAgrees, Zenon DEF EncodedAs, acil_encode_cmd_disconnect
<1>5. EncodedAs(acil_encode_cmd_set_radio_tx_power, "set_tx_power", n)
  BY <1>1, <1>2, WritesPower, MessageAgrees, Zenon DEF EncodedAs, acil_encode_cmd_set_radio_tx_power
<1>6. EncodedAs(acil_encode_cmd_set_app_latency, "set_app_latency", n)
  BY <1>1, <1>2, WritesLatency, MessageAgrees, Zenon DEF EncodedAs, acil_encode_cmd_set_app_latency
<1>7. EncodedAs(acil_encode_cmd_dtm_cmd, "dtm_cmd", n)
  BY <1>1, <1>2, WritesDtm, MessageAgrees, Zenon DEF EncodedAs, acil_encode_cmd_dtm_cmd
<1>8. EncodedAs(acil_encode_cmd_send_data_nack, "send_data_nack", n)
  BY <1>1, <1>2, WritesNack, MessageAgrees, Zenon DEF EncodedAs, acil_encode_cmd_send_data_nack, Pipe
<1>9. EncodedAs(acil_encode_cmd_open_adv_pipes, "open_adv_pipe", n)
  BY <1>1, <1>2, WritesAdvPipes, MessageAgrees, Zenon DEF EncodedAs, acil_encode_cmd_open_adv_pipes
<1>10. QED BY <1>3, <1>4, <1>5, <1>6, <1>7, <1>8, <1>9

(* The encoders of commands with n bytes of data, for every n; of dynamic data
   as long as the length byte does not wrap. *)
LEMMA EncodesSizes ==
    ASSUME NEW n \in Nat
    PROVE  /\ EncodedAs(acil_encode_cmd_send_data(n), "send_data", n)
           /\ EncodedAs(acil_encode_cmd_set_local_data(n), "set_local_data", n)
           /\ EncodedAs(acil_encode_cmd_echo_msg(n), "echo", n)
           /\ EncodedAs(acil_encode_cmd_setup(n), "setup", n)
           /\ n <= DYNAMIC_MAX
                => EncodedAs(acil_encode_cmd_write_dynamic_data(n), "write_dynamic_data", n)
           /\ n # 0 => EncodedAs(acil_encode_cmd_change_timing_req, "change_timing", n)
           /\ EncodedAs(acil_encode_cmd_change_timing_req_GAP_PPCP, "change_timing", 0)
<1>1. /\ MSG.send_data + n = 1 + (1 + n) /\ MSG.set_local_data + n = 1 + (1 + n)
      /\ MSG.echo + n = 1 + n /\ n + MSG.setup = 1 + n
      /\ 1 + n \in Nat
      /\ MSG.change_timing = 1 + (2 + 2 + 2 + 2) /\ 2 + 2 + 2 + 2 \in Nat
      /\ MSG.change_timing_gap_ppcp = 1 + 0 /\ 0 \in Nat
  BY DEF MSG
<1>2. /\ CmdStruct("send_data", n) = data_struct(n)
      /\ CmdStruct("set_local_data", n) = data_struct(n)
      /\ CmdStruct("echo", n) = << <<"echo_data", n>> >>
      /\ CmdStruct("setup", n) = << <<"setup_data", n>> >>
      /\ CmdStruct("write_dynamic_data", n) = << <<"seq_no", 1>>, <<"dynamic_data", n>> >>
      /\ CmdStruct("change_timing", 0) = <<>>
  BY StructsOf
<1>3. n # 0 => CmdStruct("change_timing", n)
                = << <<"min_conn_interval", 2>>, <<"max_conn_interval", 2>>,
                     <<"slave_latency", 2>>, <<"timeout_mult", 2>> >>
  BY StructsOf, Zenon
<1>4. EncodedAs(acil_encode_cmd_send_data(n), "send_data", n)
  BY <1>1, <1>2, WritesData, MessageAgrees, Zenon DEF EncodedAs, acil_encode_cmd_send_data
<1>5. EncodedAs(acil_encode_cmd_set_local_data(n), "set_local_data", n)
  BY <1>1, <1>2, WritesData, MessageAgrees, Zenon DEF EncodedAs, acil_encode_cmd_set_local_data
<1>6. EncodedAs(acil_encode_cmd_echo_msg(n), "echo", n)
  BY <1>1, <1>2, WritesEcho, MessageAgrees, Zenon DEF EncodedAs, acil_encode_cmd_echo_msg
<1>7. EncodedAs(acil_encode_cmd_setup(n), "setup", n)
  BY <1>1, <1>2, WritesSetup, MessageAgrees, Zenon DEF EncodedAs, acil_encode_cmd_setup
<1>8. ASSUME n <= DYNAMIC_MAX
      PROVE  EncodedAs(acil_encode_cmd_write_dynamic_data(n), "write_dynamic_data", n)
  <2>1. 2^8 = 256
    OBVIOUS
  <2>2. (MSG.write_dynamic_data + n) % 2^8 = 1 + (1 + n)
    BY <1>8, <2>1 DEF MSG, DYNAMIC_MAX
  <2>3. QED
    BY <1>1, <1>2, <2>2, WritesDynamic, MessageAgrees, Zenon DEF EncodedAs, acil_encode_cmd_write_dynamic_data
<1>9. n # 0 => EncodedAs(acil_encode_cmd_change_timing_req, "change_timing", n)
  BY <1>1, <1>3, WritesTiming, MessageAgrees, Zenon DEF EncodedAs, acil_encode_cmd_change_timing_req
<1>10. EncodedAs(acil_encode_cmd_change_timing_req_GAP_PPCP, "change_timing", 0)
  BY <1>1, <1>2, WritesNothing, MessageAgrees, Zenon DEF EncodedAs, acil_encode_cmd_change_timing_req_GAP_PPCP
<1>11. QED BY <1>4, <1>5, <1>6, <1>7, <1>8, <1>9, <1>10

(* The encoder of a passkey, of at least six bytes, and of its rejection: six
   bytes of key, or none. *)
LEMMA EncodesKey ==
    ASSUME NEW n \in Nat
    PROVE  /\ EncodedAs(acil_encode_cmd_set_key(FALSE, n), "reject_key", n)
           /\ n >= PASSKEY => EncodedAs(acil_encode_cmd_set_key(TRUE, n), "set_key", n)
<1>1. CMD.key_type = 0 /\ CMD.key = 1 /\ MSG.set_key_passkey = 1 + (1 + PASSKEY)
      /\ MSG.set_key_reject = 1 + 1 /\ PASSKEY \in Nat /\ 1 + PASSKEY \in Nat /\ 1 \in Nat
  BY DEF CMD, MSG, PASSKEY
<1>2. EncodedAs(acil_encode_cmd_set_key(FALSE, n), "reject_key", n)
  <2>1. (IF n < MSG.set_key_reject - 2 THEN n ELSE MSG.set_key_reject - 2) = 0
    BY <1>1
  <2>2. acil_encode_cmd_set_key(FALSE, n)
        = Message("reject_key", MSG.set_key_reject, Byte(CMD.key_type, "key_type") ++ Copy(CMD.key, "key", 0))
    BY <2>1, Zenon DEF acil_encode_cmd_set_key
  <2>3. CmdStruct("reject_key", n) = << <<"key_type", 1>> >>
    BY StructsOf, Zenon
  <2>4. QED BY <1>1, <2>2, <2>3, WritesReject, MessageAgrees, Zenon DEF EncodedAs
<1>3. ASSUME n >= PASSKEY PROVE EncodedAs(acil_encode_cmd_set_key(TRUE, n), "set_key", n)
  <2>1. (IF n < MSG.set_key_passkey - 2 THEN n ELSE MSG.set_key_passkey - 2) = PASSKEY
    BY <1>1, <1>3
  <2>2. acil_encode_cmd_set_key(TRUE, n)
        = Message("set_key", MSG.set_key_passkey,
                  Byte(CMD.key_type, "key_type") ++ Copy(CMD.key, "key", PASSKEY))
    BY <2>1, Zenon DEF acil_encode_cmd_set_key
  <2>3. CmdStruct("set_key", n) = << <<"key_type", 1>>, <<"key", PASSKEY>> >>
    BY StructsOf, Zenon
  <2>4. QED BY <1>1, <2>2, <2>3, WritesKey, MessageAgrees, Zenon DEF EncodedAs
<1>4. QED BY <1>2, <1>3

(* acil_encode_cmd takes the number of data bytes from the length of the
   message. *)
LEMMA Dispatches ==
    ASSUME NEW length
    PROVE  /\ acil_encode_cmd("setup", length) = acil_encode_cmd_setup(length - MSG.setup)
           /\ acil_encode_cmd("send_data", length) = acil_encode_cmd_send_data(length - MSG.send_data)
           /\ acil_encode_cmd("set_local_data", length)
                = acil_encode_cmd_set_local_data(length - MSG.set_local_data)
           /\ acil_encode_cmd("echo", length) = acil_encode_cmd_echo_msg(length - MSG.echo)
           /\ acil_encode_cmd("write_dynamic_data", length)
                = acil_encode_cmd_write_dynamic_data(length - MSG.write_dynamic_data)
           /\ acil_encode_cmd("connect", length) = acil_encode_cmd_connect
           /\ acil_encode_cmd("change_timing", length) = acil_encode_cmd_change_timing_req
           /\ acil_encode_cmd("send_data_ack", length) = acil_encode_cmd_send_data_ack
BY DEF acil_encode_cmd

-----------------------------------------------------------------------------
(* The mesh commands.                                                       *)

(* The struct of each mesh command (serial_command.h). *)
LEMMA MeshStructs ==
    ASSUME NEW n
    PROVE  /\ \A op \in MeshQueries : MeshStruct(op, n) = <<>>
           /\ MeshStruct("mesh_echo", n) = << <<"data", n>> >>
           /\ MeshStruct("mesh_init", n) = << <<"access_addr", 4>>, <<"channel", 1>>,
                                              <<"handle_count", 1>>, <<"adv_int_min", 4>> >>
           /\ MeshStruct("value_set", n) = << <<"handle", 1>>, <<"value", n>> >>
           /\ MeshStruct("value_enable", n) = << <<"handle", 1>> >>
           /\ MeshStruct("value_disable", n) = << <<"handle", 1>> >>
           /\ MeshStruct("value_get", n) = << <<"handle", 1>> >>
BY DEF MeshStruct, MeshQueries, serial_cmd_params

(* What the mesh interface stores, for each struct. *)
LEMMA WritesMesh ==
    ASSUME NEW n \in Nat
    PROVE  /\ Exactly(Copy(0, "data", n), << <<"data", n>> >>, n)
           /\ Exactly(Byte(0, "handle"), << <<"handle", 1>> >>, 1)
           /\ Exactly(Byte(0, "handle") ++ Copy(1, "value", n), << <<"handle", 1>>, <<"value", n>> >>, 1 + n)
           /\ Exactly(Copy(0, "access_addr", 4) ++ Byte(4, "channel")
                      ++ Byte(5, "handle_count") ++ Copy(6, "adv_int_min", 4),
                      << <<"access_addr", 4>>, <<"channel", 1>>,
                         <<"handle_count", 1>>, <<"adv_int_min", 4>> >>, 4 + 1 + 1 + 4)
<1>1. /\ "data" \in Names /\ "handle" \in Names /\ "value" \in Names /\ "access_addr" \in Names
      /\ "channel" \in Names /\ "handle_count" \in Names /\ "adv_int_min" \in Names
      /\ 1 \in Nat /\ 4 \in Nat /\ 4 + 1 = 5 /\ 4 + 1 + 1 = 6
  BY DEF Names
<1>2. /\ Piece(Copy(0, "data", n), 0, "data", n)
      /\ Piece(Copy(1, "value", n), 1, "value", n)
      /\ Piece(Copy(0, "access_addr", 4), 0, "access_addr", 4)
      /\ Piece(Copy(6, "adv_int_min", 4), 6, "adv_int_min", 4)
  BY PieceOfCopy
<1>3. /\ Piece(Byte(0, "handle"), 0, "handle", 1)
      /\ Piece(Byte(4, "channel"), 4, "channel", 1)
      /\ Piece(Byte(5, "handle_count"), 5, "handle_count", 1)
  BY PieceOfByte
<1>4. Exactly(Copy(0, "data", n), << <<"data", n>> >>, n)
  BY <1>1, <1>2, One, Zenon
<1>5. Exactly(Byte(0, "handle"), << <<"handle", 1>> >>, 1)
  BY <1>1, <1>3, One, Zenon
<1>6. Exactly(Byte(0, "handle") ++ Copy(1, "value", n), << <<"handle", 1>>, <<"value", n>> >>, 1 + n)
  BY <1>1, <1>2, <1>3, Two, Zenon
<1>7. Exactly(Copy(0, "access_addr", 4) ++ Byte(4, "channel")
              ++ Byte(5, "handle_count") ++ Copy(6, "adv_int_min", 4),
              << <<"access_addr", 4>>, <<"channel", 1>>,
                 <<"handle_count", 1>>, <<"adv_int_min", 4>> >>, 4 + 1 + 1 + 4)
  <2>1. /\ Piece(Byte(5, "handle_count"), 4 + 1, "handle_count", 1)
        /\ Piece(Copy(6, "adv_int_min", 4), 4 + 1 + 1, "adv_int_min", 4)
    BY <1>1, <1>2, <1>3
  <2>2. QED BY <1>1, <1>2, <1>3, <2>1, Four, Zenon
<1>8. QED BY <1>4, <1>5, <1>6, <1>7, Zenon

\* m is mesh command op with n bytes of data, as serial_command.h has it.
MeshAs(m, op, n) == Agrees(m, Overlay(op, MeshStruct(op, n)))

(* Each mesh command is, for every n. *)
LEMMA EncodesMesh ==
    ASSUME NEW n \in Nat
    PROVE  /\ MeshAs(rbc_mesh_echo(n), "mesh_echo", n)
           /\ MeshAs(rbc_mesh_value_set(n), "value_set", n)
           /\ MeshAs(rbc_mesh_init, "mesh_init", 0)
           /\ MeshAs(rbc_mesh_value_enable, "value_enable", 0)
           /\ MeshAs(rbc_mesh_value_disable, "value_disable", 0)
           /\ MeshAs(rbc_mesh_value_get, "value_get", 0)
           /\ \A op \in MeshQueries : MeshAs(rbc_mesh_query(op), op, 0)
<1>1. /\ n + 1 = 1 + n /\ n + 2 = 1 + (1 + n) /\ 11 = 1 + (4 + 1 + 1 + 4)
      /\ 2 = 1 + 1 /\ 1 = 1 + 0
      /\ n \in Nat /\ 1 + n \in Nat /\ 4 + 1 + 1 + 4 \in Nat /\ 1 \in Nat /\ 0 \in Nat
  OBVIOUS
<1>2. MeshAs(rbc_mesh_echo(n), "mesh_echo", n) /\ MeshAs(rbc_mesh_value_set(n), "value_set", n)
  BY <1>1, MeshStructs, WritesMesh, MessageAgrees, Zenon DEF MeshAs, rbc_mesh_echo, rbc_mesh_value_set
<1>3. MeshAs(rbc_mesh_init, "mesh_init", 0)
  BY <1>1, MeshStructs, WritesMesh, MessageAgrees, Zenon DEF MeshAs, rbc_mesh_init
<1>4. /\ MeshAs(rbc_mesh_value_enable, "value_enable", 0)
      /\ MeshAs(rbc_mesh_value_disable, "value_disable", 0)
      /\ MeshAs(rbc_mesh_value_get, "value_get", 0)
  BY <1>1, MeshStructs, WritesMesh, MessageAgrees, Zenon
     DEF MeshAs, rbc_mesh_value_enable, rbc_mesh_value_disable, rbc_mesh_value_get
<1>5. \A op \in MeshQueries : MeshAs(rbc_mesh_query(op), op, 0)
  BY <1>1, MeshStructs, WritesNothing, MessageAgrees, Zenon DEF MeshAs, rbc_mesh_query
<1>6. QED BY <1>2, <1>3, <1>4, <1>5

-----------------------------------------------------------------------------
(* The lengths of messages.                                                 *)

\* A length that fits in the length byte, and one the transport has room for.
Brief(m) == m.length \in 0 .. 255
Short(m) == m.length \in 0 .. MAX_LENGTH

(* The second is the smaller. *)
LEMMA ShortIsBrief == \A m : Short(m) => Brief(m)
BY DEF Short, Brief, MAX_LENGTH

(* The length of a message is the one its encoder writes. *)
LEMMA MessageBrief ==
    ASSUME NEW op, NEW len, NEW at
    PROVE  /\ len \in 0 .. 255 => Brief(Message(op, len, at))
           /\ len \in 0 .. MAX_LENGTH => Short(Message(op, len, at))
BY DEF Brief, Short, Message

(* The messages of fixed size. *)
LEMMA FixedShort ==
    /\ Short(acil_encode_cmd_set_app_latency)
    /\ Short(acil_encode_cmd_set_test_mode)
    /\ Short(acil_encode_cmd_sleep)
    /\ Short(acil_encode_baseband_reset)
    /\ Short(acil_encode_direct_connect)
    /\ Short(acil_encode_cmd_get_device_version)
    /\ Short(acil_encode_cmd_connect)
    /\ Short(acil_encode_cmd_bond)
    /\ Short(acil_encode_cmd_wakeup)
    /\ Short(acil_encode_cmd_set_radio_tx_power)
    /\ Short(acil_encode_cmd_get_address)
    /\ Short(acil_encode_cmd_temparature)
    /\ Short(acil_encode_cmd_battery_level)
    /\ Short(acil_encode_cmd_change_timing_req)
    /\ Short(acil_encode_cmd_change_timing_req_GAP_PPCP)
    /\ Short(acil_encode_cmd_bond_security_request)
    /\ Short(acil_encode_cmd_send_data_ack)
    /\ Short(acil_encode_cmd_send_data_nack)
    /\ Short(acil_encode_cmd_read_dynamic_data)
    /\ Short(acil_encode_cmd_dtm_cmd)
    /\ Short(acil_encode_cmd_request_data)
    /\ Short(acil_encode_cmd_open_remote_pipe)
    /\ Short(acil_encode_cmd_close_remote_pipe)
    /\ Short(acil_encode_cmd_broadcast)
    /\ Short(acil_encode_cmd_disconnect)
    /\ Short(acil_encode_cmd_open_adv_pipes)
<1>1. /\ MSG.set_app_latency \in 0 .. MAX_LENGTH /\ MSG.radio_reset \in 0 .. MAX_LENGTH /\ MSG.connect_direct \in 0 .. MAX_LENGTH
      /\ MSG.connect \in 0 .. MAX_LENGTH /\ MSG.bond \in 0 .. MAX_LENGTH /\ MSG.wakeup \in 0 .. MAX_LENGTH
      /\ MSG.set_tx_power \in 0 .. MAX_LENGTH /\ MSG.get_device_address \in 0 .. MAX_LENGTH
      /\ MSG.change_timing \in 0 .. MAX_LENGTH /\ MSG.change_timing_gap_ppcp \in 0 .. MAX_LENGTH
      /\ MSG.send_data_ack \in 0 .. MAX_LENGTH /\ MSG.send_data_nack \in 0 .. MAX_LENGTH
      /\ MSG.dtm_cmd \in 0 .. MAX_LENGTH /\ MSG.request_data \in 0 .. MAX_LENGTH
      /\ MSG.open_remote_pipe \in 0 .. MAX_LENGTH /\ MSG.close_remote_pipe \in 0 .. MAX_LENGTH
      /\ MSG.broadcast \in 0 .. MAX_LENGTH /\ MSG.disconnect \in 0 .. MAX_LENGTH /\ MSG.open_adv_pipe \in 0 .. MAX_LENGTH
      /\ 1 \in 0 .. MAX_LENGTH /\ 2 \in 0 .. MAX_LENGTH
  BY DEF MSG, MAX_LENGTH
<1>2. /\ Short(acil_encode_cmd_set_app_latency)
      /\ Short(acil_encode_cmd_set_test_mode)
      /\ Short(acil_encode_cmd_sleep)
      /\ Short(acil_encode_baseband_reset)
      /\ Short(acil_encode_direct_connect)
      /\ Short(acil_encode_cmd_get_device_version)
      /\ Short(acil_encode_cmd_connect)
      /\ Short(acil_encode_cmd_bond)
      /\ Short(acil_encode_cmd_wakeup)
  BY <1>1, MessageBrief, Zenon
  DEF acil_encode_cmd_set_app_latency, acil_encode_cmd_set_test_mode, acil_encode_cmd_sleep,
      acil_encode_baseband_reset, acil_encode_direct_connect,
      acil_encode_cmd_get_device_version, acil_encode_cmd_connect, acil_encode_cmd_bond,
      acil_encode_cmd_wakeup, Bare
<1>3. /\ Short(acil_encode_cmd_set_radio_tx_power)
      /\ Short(acil_encode_cmd_get_address)
      /\ Short(acil_encode_cmd_temparature)
      /\ Short(acil_encode_cmd_battery_level)
      /\ Short(acil_encode_cmd_change_timing_req)
      /\ Short(acil_encode_cmd_change_timing_req_GAP_PPCP)
      /\ Short(acil_encode_cmd_bond_security_request)
      /\ Short(acil_encode_cmd_send_data_ack)
      /\ Short(acil_encode_cmd_send_data_nack)
  BY <1>1, MessageBrief, Zenon
  DEF acil_encode_cmd_set_radio_tx_power, acil_encode_cmd_get_address,
      acil_encode_cmd_temparature, acil_encode_cmd_battery_level,
      acil_encode_cmd_change_timing_req, acil_encode_cmd_change_timing_req_GAP_PPCP,
      acil_encode_cmd_bond_security_request, acil_encode_cmd_send_data_ack,
      acil_encode_cmd_send_data_nack, Bare
<1>4. /\ Short(acil_encode_cmd_read_dynamic_data)
      /\ Short(acil_encode_cmd_dtm_cmd)
      /\ Short(acil_encode_cmd_request_data)
      /\ Short(acil_encode_cmd_open_remote_pipe)
      /\ Short(acil_encode_cmd_close_remote_pipe)
      /\ Short(acil_encode_cmd_broadcast)
      /\ Short(acil_encode_cmd_disconnect)
      /\ Short(acil_encode_cmd_open_adv_pipes)
  BY <1>1, MessageBrief, Zenon
  DEF acil_encode_cmd_read_dynamic_data, acil_encode_cmd_dtm_cmd, acil_encode_cmd_request_data,
      acil_encode_cmd_open_remote_pipe, acil_encode_cmd_close_remote_pipe,
      acil_encode_cmd_broadcast, acil_encode_cmd_disconnect, acil_encode_cmd_open_adv_pipes, Bare
<1>5. QED BY <1>2, <1>3, <1>4

(* The messages with n bytes of data, within the sizes that are checked or
   declared. *)
LEMMA SizedShort ==
    ASSUME NEW n \in 0 .. 29
    PROVE  /\ Short(acil_encode_cmd_send_data(n)) /\ Short(acil_encode_cmd_set_local_data(n))
           /\ Short(acil_encode_cmd_echo_msg(n)) /\ Short(acil_encode_cmd_write_dynamic_data(n))
           /\ Short(rbc_mesh_echo(n)) /\ Short(rbc_mesh_value_set(n))
<1>1. 2^8 = 256 /\ \A k \in 0 .. 31 : k % 256 = k
  OBVIOUS
<1>2. /\ MSG.send_data + n \in 0 .. MAX_LENGTH /\ MSG.set_local_data + n \in 0 .. MAX_LENGTH
      /\ MSG.echo + n \in 0 .. MAX_LENGTH /\ (MSG.write_dynamic_data + n) % 2^8 \in 0 .. MAX_LENGTH
      /\ n + 1 \in 0 .. MAX_LENGTH /\ n + 2 \in 0 .. MAX_LENGTH
  BY <1>1 DEF MSG, MAX_LENGTH
<1>3. QED
  BY <1>2, MessageBrief, Zenon
     DEF acil_encode_cmd_send_data, acil_encode_cmd_set_local_data, acil_encode_cmd_echo_msg,
         acil_encode_cmd_write_dynamic_data, rbc_mesh_echo, rbc_mesh_value_set

(* A setup message may be one byte longer. *)
LEMMA SetupShort == ASSUME NEW n \in 0 .. 30 PROVE Short(acil_encode_cmd_setup(n))
<1>1. n + MSG.setup \in 0 .. MAX_LENGTH
  BY DEF MSG, MAX_LENGTH
<1>2. QED BY <1>1, MessageBrief, Zenon DEF acil_encode_cmd_setup

(* The sizes that are not checked, or not enough: the length of dynamic data
   wraps, those of the mesh interface do not reach 255. *)
LEMMA SizedBrief ==
    ASSUME NEW n \in Nat
    PROVE  /\ Brief(acil_encode_cmd_write_dynamic_data(n))
           /\ n <= MESH_DATA_MAX => Brief(rbc_mesh_echo(n)) /\ Brief(rbc_mesh_value_set(n))
<1>1. 2^8 = 256 /\ \A k \in Nat : k % 256 \in 0 .. 255
  OBVIOUS
<1>2. (MSG.write_dynamic_data + n) % 2^8 \in 0 .. 255
  BY <1>1 DEF MSG
<1>3. n <= MESH_DATA_MAX => n + 1 \in 0 .. 255 /\ n + 2 \in 0 .. 255
  BY DEF MESH_DATA_MAX
<1>4. QED
  BY <1>2, <1>3, MessageBrief, Zenon
     DEF acil_encode_cmd_write_dynamic_data, rbc_mesh_echo, rbc_mesh_value_set

(* The keys, and the mesh commands without data. *)
LEMMA OtherShort ==
    /\ \A passkey \in BOOLEAN : \A n : Short(acil_encode_cmd_set_key(passkey, n))
    /\ Short(rbc_mesh_init) /\ Short(rbc_mesh_value_enable) /\ Short(rbc_mesh_value_disable)
    /\ Short(rbc_mesh_value_get) /\ \A op : Short(rbc_mesh_query(op))
<1>1. ASSUME NEW passkey \in BOOLEAN, NEW n PROVE Short(acil_encode_cmd_set_key(passkey, n))
  <2> DEFINE length == IF passkey THEN MSG.set_key_passkey ELSE MSG.set_key_reject
  <2>1. length \in 0 .. MAX_LENGTH
    BY DEF MSG, MAX_LENGTH
  <2> HIDE DEF length
  <2>2. \A op, at : Short(Message(op, length, at))
    BY <2>1, MessageBrief, Zenon
  <2>3. QED BY <2>2, Zenon DEF acil_encode_cmd_set_key, length
<1>2. 11 \in 0 .. MAX_LENGTH /\ 2 \in 0 .. MAX_LENGTH /\ 1 \in 0 .. MAX_LENGTH
  BY DEF MAX_LENGTH
<1>3. QED
  BY <1>1, <1>2, MessageBrief, Zenon
     DEF rbc_mesh_init, rbc_mesh_value_enable, rbc_mesh_value_disable, rbc_mesh_value_get, rbc_mesh_query

-----------------------------------------------------------------------------
(* What a decoder reads.                                                    *)

\* What is read for the array of a field is within the array (aci_evts.h).
Held(at) == \A j \in DOMAIN at :
                at[j][1] \in DOMAIN Capacity => at[j][2] < Capacity[at[j][1]]

(* The sizes of those arrays. *)
LEMMA Capacities ==
    /\ DOMAIN Capacity = {"aci_data", "file_name", "echo_data", "dynamic_data", "dev_addr",
                          "bd_addr_own", "passkey", "pipes_open_bitmap", "pipes_closed_bitmap"}
    /\ \A f \in DOMAIN Capacity : Capacity[f] \in Nat /\ Capacity[f] > 0
    /\ Capacity["aci_data"] = 22 /\ Capacity["file_name"] = 20 /\ Capacity["echo_data"] = 29
    /\ Capacity["dynamic_data"] = 28 /\ Capacity["dev_addr"] = 6
    /\ Capacity["bd_addr_own"] = 6 /\ Capacity["passkey"] = 6
    /\ Capacity["pipes_open_bitmap"] = 8 /\ Capacity["pipes_closed_bitmap"] = 8
BY DEF Capacity, RX_DATA_MAX, FILE_NAME, ECHO_MAX, RSP_PADDING, ADDRESS, BITMAP

(* One byte fits in any of them. *)
LEMMA HeldByte == ASSUME NEW i, NEW f PROVE Held(Byte(i, f))
<1>1. \A j \in DOMAIN Byte(i, f) : Byte(i, f)[j] = <<f, 0>>
  BY DEF Byte
<1>2. QED BY <1>1, Capacities DEF Held

(* A word goes to no array. *)
LEMMA HeldWord == ASSUME NEW p, NEW f, f \notin DOMAIN Capacity PROVE Held(Word(p, f))
<1>1. \A j \in DOMAIN Word(p, f) : Word(p, f)[j][1] = f
  BY DEF Word
<1>2. QED BY <1>1 DEF Held

(* A memcpy no longer than the array. *)
LEMMA HeldCopy ==
    ASSUME NEW i \in Nat, NEW f, NEW n \in Nat, f \in DOMAIN Capacity => n <= Capacity[f]
    PROVE  Held(Copy(i, f, n))
<1>1. \A j \in DOMAIN Copy(i, f, n) : Copy(i, f, n)[j] = <<f, j - i>> /\ j \in i .. i + n - 1
  BY DEF Copy
<1>2. \A j \in i .. i + n - 1 : j - i < n /\ j - i \in Nat
  OBVIOUS
<1>3. QED BY <1>1, <1>2, Capacities DEF Held

(* Two loads side by side. *)
LEMMA HeldBoth == ASSUME NEW a, NEW b, Held(a), Held(b) PROVE Held(a ++ b)
<1>1. \A j \in DOMAIN (a ++ b) : \/ j \in DOMAIN a /\ (a ++ b)[j] = a[j]
                                 \/ j \in DOMAIN b /\ (a ++ b)[j] = b[j]
  BY DEF ++
<1>2. QED BY <1>1, Zenon DEF Held

(* A load from further on in the message. *)
LEMMA HeldShifted == ASSUME NEW r, NEW o \in Int, Held(r), DOMAIN r \subseteq Int PROVE Held(Shifted(r, o))
<1>1. ASSUME NEW i \in DOMAIN Shifted(r, o)
      PROVE  i - o \in DOMAIN r /\ Shifted(r, o)[i] = r[i - o]
  <2>1. PICK j \in DOMAIN r : i = o + j
    BY DEF Shifted
  <2>2. (o + j) - o = j
    OBVIOUS
  <2>3. QED BY <2>1, <2>2 DEF Shifted
<1>2. QED BY <1>1, Zenon DEF Held

\* at is what a decoder of the struct fs of L bytes should read, no more, and
\* inside the arrays.
ReadsAs(at, fs, L) == Exactly(at, fs, L) /\ Held(at)

(* The four bytes of the setup identifier, which acilib.cpp loads one by
   one. *)
LEMMA SetupId ==
    LET r == [j \in Range(RSP.setup_id) |-> <<"setup_id", j - RSP.setup_id[1]>>] IN
    DOMAIN r = 4 .. 7 /\ \A j \in 4 .. 7 : r[j] = <<"setup_id", j - 4>>
<1>1. RSP.setup_id = <<4, 5, 6, 7>>
  BY DEF RSP
<1>2. Range(<<4, 5, 6, 7>>) = 4 .. 7
  BY DEF Range
<1>3. RSP.setup_id[1] = 4
  BY <1>1
<1>4. QED BY <1>1, <1>2, <1>3

(* They are one field of four bytes. *)
LEMMA PieceOfSetupId ==
    Piece([j \in Range(RSP.setup_id) |-> <<"setup_id", j - RSP.setup_id[1]>>], 2 + 1 + 1, "setup_id", 4)
<1> DEFINE r == [j \in Range(RSP.setup_id) |-> <<"setup_id", j - RSP.setup_id[1]>>]
<1>1. DOMAIN r = 4 .. 7 /\ \A j \in 4 .. 7 : r[j] = <<"setup_id", j - 4>>
  BY SetupId
<1> HIDE DEF r
<1>2. \A k \in 0 .. 4 - 1 : 4 + k \in 4 .. 7 /\ (4 + k) - 4 = k
  OBVIOUS
<1>3. Fits(r, 4, "setup_id", 4)
  BY <1>1, <1>2 DEF Fits
<1>4. Ends(r, 4 + 4)
  BY <1>1 DEF Ends
<1>5. 2 + 1 + 1 = 4
  OBVIOUS
<1>6. QED BY <1>3, <1>4, <1>5 DEF Piece, r

(* It goes to no array. *)
LEMMA HeldSetupId == Held([j \in Range(RSP.setup_id) |-> <<"setup_id", j - RSP.setup_id[1]>>])
<1> DEFINE r == [j \in Range(RSP.setup_id) |-> <<"setup_id", j - RSP.setup_id[1]>>]
<1>1. DOMAIN r = 4 .. 7 /\ \A j \in 4 .. 7 : r[j] = <<"setup_id", j - 4>>
  BY SetupId
<1> HIDE DEF r
<1>2. \A j \in DOMAIN r : r[j][1] = "setup_id"
  BY <1>1
<1>3. "setup_id" \notin DOMAIN Capacity
  BY Capacities
<1>4. QED BY <1>2, <1>3 DEF Held, r

(* The decoders of acilib.cpp, one by one: the Device Started event. *)
LEMMA ReadsStarted ==
    ReadsAs(acil_decode_evt_device_started,
            << <<"device_mode", 1>>, <<"hw_error", 1>>, <<"credit_available", 1>> >>,
            1 + 1 + 1)
<1>1. "device_mode" \in Names /\ "hw_error" \in Names /\ "credit_available" \in Names /\ 1 \in Nat
  BY DEF Names
<1>2. /\ Piece(Byte(EVT.device_mode, "device_mode"), 0, "device_mode", 1)
      /\ Piece(Byte(EVT.hw_error, "hw_error"), 1, "hw_error", 1)
      /\ Piece(Byte(EVT.credit_available, "credit_available"), 1 + 1, "credit_available", 1)
  BY PieceOfByte DEF EVT
<1>3. /\ Held(Byte(EVT.device_mode, "device_mode"))
      /\ Held(Byte(EVT.hw_error, "hw_error"))
      /\ Held(Byte(EVT.credit_available, "credit_available"))
  BY HeldByte, Capacities DEF EVT
<1>4. QED BY <1>1, <1>2, <1>3, Three, HeldBoth, Zenon DEF ReadsAs, acil_decode_evt_device_started

(* The decoder of the two bitmaps of Pipe Status. *)
LEMMA ReadsPipes ==
    ReadsAs(acil_decode_evt_pipe_status,
            << <<"pipes_open_bitmap", BITMAP>>, <<"pipes_closed_bitmap", BITMAP>> >>,
            BITMAP + BITMAP)
<1>1. "pipes_open_bitmap" \in Names /\ "pipes_closed_bitmap" \in Names /\ BITMAP \in Nat
  BY DEF Names, BITMAP
<1>2. /\ Piece(Copy(EVT.pipes_open_bitmap, "pipes_open_bitmap", 8), 0, "pipes_open_bitmap", BITMAP)
      /\ Piece(Copy(EVT.pipes_closed_bitmap, "pipes_closed_bitmap", 8), BITMAP, "pipes_closed_bitmap", BITMAP)
  BY PieceOfCopy DEF EVT, BITMAP
<1>3. /\ Held(Copy(EVT.pipes_open_bitmap, "pipes_open_bitmap", 8))
      /\ Held(Copy(EVT.pipes_closed_bitmap, "pipes_closed_bitmap", 8))
  BY HeldCopy, Capacities DEF EVT, BITMAP
<1>4. QED BY <1>1, <1>2, <1>3, Two, HeldBoth, Zenon DEF ReadsAs, acil_decode_evt_pipe_status

(* The decoder of Disconnected. *)
LEMMA ReadsDisconnected ==
    ReadsAs(acil_decode_evt_disconnected, << <<"aci_status", 1>>, <<"btle_status", 1>> >>, 1 + 1)
<1>1. "aci_status" \in Names /\ "btle_status" \in Names /\ 1 \in Nat
  BY DEF Names
<1>2. /\ Piece(Byte(EVT.aci_status, "aci_status"), 0, "aci_status", 1)
      /\ Piece(Byte(EVT.btle_status, "btle_status"), 1, "btle_status", 1)
  BY PieceOfByte DEF EVT
<1>3. /\ Held(Byte(EVT.aci_status, "aci_status"))
      /\ Held(Byte(EVT.btle_status, "btle_status"))
  BY HeldByte, Capacities DEF EVT
<1>4. QED BY <1>1, <1>2, <1>3, Two, HeldBoth, Zenon DEF ReadsAs, acil_decode_evt_disconnected

(* The decoder of Bond Status. *)
LEMMA ReadsBond ==
    ReadsAs(acil_decode_evt_bond_status,
            << <<"status_code", 1>>, <<"status_source", 1>>, <<"secmode1_bitmap", 1>>,
               <<"secmode2_bitmap", 1>>, <<"keys_exchanged_slave", 1>>,
               <<"keys_exchanged_master", 1>> >>,
            1 + 1 + 1 + 1 + 1 + 1)
<1>1. /\ "status_code" \in Names /\ "status_source" \in Names
      /\ "secmode1_bitmap" \in Names /\ "secmode2_bitmap" \in Names
      /\ "keys_exchanged_slave" \in Names /\ "keys_exchanged_master" \in Names
      /\ 1 \in Nat
  BY DEF Names
<1>2. /\ Piece(Byte(EVT.status_code, "status_code"), 0, "status_code", 1)
      /\ Piece(Byte(EVT.status_source, "status_source"), 1, "status_source", 1)
      /\ Piece(Byte(EVT.secmode1_bitmap, "secmode1_bitmap"), 1 + 1, "secmode1_bitmap", 1)
      /\ Piece(Byte(EVT.secmode2_bitmap, "secmode2_bitmap"), 1 + 1 + 1, "secmode2_bitmap", 1)
      /\ Piece(Byte(EVT.keys_exchanged_slave, "keys_exchanged_slave"), 1 + 1 + 1 + 1, "keys_exchanged_slave", 1)
      /\ Piece(Byte(EVT.keys_exchanged_master, "keys_exchanged_master"), 1 + 1 + 1 + 1 + 1, "keys_exchanged_master", 1)
  BY PieceOfByte DEF EVT
<1>3. /\ Held(Byte(EVT.status_code, "status_code"))
      /\ Held(Byte(EVT.status_source, "status_source"))
      /\ Held(Byte(EVT.secmode1_bitmap, "secmode1_bitmap"))
      /\ Held(Byte(EVT.secmode2_bitmap, "secmode2_bitmap"))
      /\ Held(Byte(EVT.keys_exchanged_slave, "keys_exchanged_slave"))
      /\ Held(Byte(EVT.keys_exchanged_master, "keys_exchanged_master"))
  BY HeldByte, Capacities DEF EVT
<1>4. QED BY <1>1, <1>2, <1>3, Six, HeldBoth, ZenonT(60) DEF ReadsAs, acil_decode_evt_bond_status

(* The decoder of Data Ack. *)
LEMMA ReadsAck ==
    ReadsAs(acil_decode_evt_data_ack, pipe_struct, 1)
<1>1. "pipe_number" \in Names /\ 1 \in Nat
  BY DEF Names
<1>2. Piece(Byte(EVT.ack_pipe, "pipe_number"), 0, "pipe_number", 1)
  BY PieceOfByte DEF EVT
<1>3. Held(Byte(EVT.ack_pipe, "pipe_number"))
  BY HeldByte, Capacities DEF EVT
<1>4. QED BY <1>1, <1>2, <1>3, One, Zenon DEF ReadsAs, acil_decode_evt_data_ack, pipe_struct

(* The decoder of Data Credit. *)
LEMMA ReadsCredit ==
    ReadsAs(acil_decode_evt_credit, << <<"credit", 1>> >>, 1)
<1>1. "credit" \in Names /\ 1 \in Nat
  BY DEF Names
<1>2. Piece(Byte(EVT.credit, "credit"), 0, "credit", 1)
  BY PieceOfByte DEF EVT
<1>3. Held(Byte(EVT.credit, "credit"))
  BY HeldByte, Capacities DEF EVT
<1>4. QED BY <1>1, <1>2, <1>3, One, Zenon DEF ReadsAs, acil_decode_evt_credit

(* The decoder of Timing. *)
LEMMA ReadsTiming ==
    ReadsAs(acil_decode_evt_timing, timing_struct, 2 + 2 + 2)
<1>1. /\ "conn_rf_interval" \in Names /\ "conn_slave_rf_latency" \in Names
      /\ "conn_rf_timeout" \in Names /\ 2 \in Nat
  BY DEF Names
<1>2. /\ Piece(Word(EVT.timing_interval, "conn_rf_interval"), 0, "conn_rf_interval", 2)
      /\ Piece(Word(EVT.timing_latency, "conn_slave_rf_latency"), 2, "conn_slave_rf_latency", 2)
      /\ Piece(Word(EVT.timing_timeout, "conn_rf_timeout"), 2 + 2, "conn_rf_timeout", 2)
  BY PieceOfWord DEF EVT
<1>3. /\ Held(Word(EVT.timing_interval, "conn_rf_interval"))
      /\ Held(Word(EVT.timing_latency, "conn_slave_rf_latency"))
      /\ Held(Word(EVT.timing_timeout, "conn_rf_timeout"))
  BY HeldWord, Capacities DEF EVT
<1>4. QED BY <1>1, <1>2, <1>3, Three, HeldBoth, Zenon DEF ReadsAs, acil_decode_evt_timing, timing_struct

(* The decoder of Connected. *)
LEMMA ReadsConnected ==
    ReadsAs(acil_decode_evt_connected,
            << <<"dev_addr_type", 1>>, <<"dev_addr", ADDRESS>>, <<"conn_rf_interval", 2>>,
               <<"conn_slave_rf_latency", 2>>, <<"conn_rf_timeout", 2>>,
               <<"master_clock_accuracy", 1>> >>,
            1 + ADDRESS + 2 + 2 + 2 + 1)
<1>1. /\ "dev_addr_type" \in Names /\ "dev_addr" \in Names /\ "conn_rf_interval" \in Names
      /\ "conn_slave_rf_latency" \in Names /\ "conn_rf_timeout" \in Names
      /\ "master_clock_accuracy" \in Names /\ 1 \in Nat /\ 2 \in Nat /\ ADDRESS \in Nat
  BY DEF Names, ADDRESS
<1>2. /\ Piece(Byte(EVT.dev_addr_type, "dev_addr_type"), 0, "dev_addr_type", 1)
      /\ Piece(Copy(EVT.dev_addr, "dev_addr", ADDRESS), 1, "dev_addr", ADDRESS)
      /\ Piece(Word(EVT.conn_rf_interval, "conn_rf_interval"), 1 + ADDRESS, "conn_rf_interval", 2)
      /\ Piece(Word(EVT.conn_slave_rf_latency, "conn_slave_rf_latency"), 1 + ADDRESS + 2, "conn_slave_rf_latency", 2)
      /\ Piece(Word(EVT.conn_rf_timeout, "conn_rf_timeout"), 1 + ADDRESS + 2 + 2, "conn_rf_timeout", 2)
      /\ Piece(Byte(EVT.master_clock_accuracy, "master_clock_accuracy"), 1 + ADDRESS + 2 + 2 + 2, "master_clock_accuracy", 1)
  BY PieceOfByte, PieceOfCopy, PieceOfWord DEF EVT, ADDRESS
<1>3. /\ Held(Byte(EVT.dev_addr_type, "dev_addr_type"))
      /\ Held(Copy(EVT.dev_addr, "dev_addr", ADDRESS))
      /\ Held(Word(EVT.conn_rf_interval, "conn_rf_interval"))
      /\ Held(Word(EVT.conn_slave_rf_latency, "conn_slave_rf_latency"))
      /\ Held(Word(EVT.conn_rf_timeout, "conn_rf_timeout"))
      /\ Held(Byte(EVT.master_clock_accuracy, "master_clock_accuracy"))
  BY HeldByte, HeldCopy, HeldWord, Capacities DEF EVT, ADDRESS
<1>4. QED BY <1>1, <1>2, <1>3, Six, HeldBoth, ZenonT(60) DEF ReadsAs, acil_decode_evt_connected

(* The decoder of Pipe Error, with the one byte of its content that is
   loaded. *)
LEMMA ReadsPipeError ==
    ReadsAs(acil_decode_evt_pipe_error,
            << <<"pipe_number", 1>>, <<"error_code", 1>>, <<"content", 1>> >>,
            1 + 1 + 1)
<1>1. "pipe_number" \in Names /\ "error_code" \in Names /\ "content" \in Names /\ 1 \in Nat
  BY DEF Names
<1>2. /\ Piece(Byte(EVT.pipe_number, "pipe_number"), 0, "pipe_number", 1)
      /\ Piece(Byte(EVT.error_code, "error_code"), 1, "error_code", 1)
      /\ Piece(Byte(EVT.error_data, "content"), 1 + 1, "content", 1)
  BY PieceOfByte DEF EVT
<1>3. /\ Held(Byte(EVT.pipe_number, "pipe_number"))
      /\ Held(Byte(EVT.error_code, "error_code"))
      /\ Held(Byte(EVT.error_data, "content"))
  BY HeldByte, Capacities DEF EVT
<1>4. QED BY <1>1, <1>2, <1>3, Three, HeldBoth, Zenon DEF ReadsAs, acil_decode_evt_pipe_error

(* The decoder of Key Request. *)
LEMMA ReadsKeyRequest ==
    ReadsAs(acil_decode_evt_key_request, << <<"key_type", 1>> >>, 1)
<1>1. "key_type" \in Names /\ 1 \in Nat
  BY DEF Names
<1>2. Piece(Byte(EVT.key_type, "key_type"), 0, "key_type", 1)
  BY PieceOfByte DEF EVT
<1>3. Held(Byte(EVT.key_type, "key_type"))
  BY HeldByte, Capacities DEF EVT
<1>4. QED BY <1>1, <1>2, <1>3, One, Zenon DEF ReadsAs, acil_decode_evt_key_request

(* The decoder of Display Passkey. *)
LEMMA ReadsPasskey ==
    ReadsAs(acil_decode_evt_display_passkey, << <<"passkey", 6>> >>, 6)
<1>1. "passkey" \in Names /\ 6 \in Nat
  BY DEF Names
<1>2. Piece(Copy(EVT.passkey, "passkey", 6), 0, "passkey", 6)
  BY PieceOfCopy DEF EVT
<1>3. Held(Copy(EVT.passkey, "passkey", 6))
  BY HeldCopy, Capacities DEF EVT
<1>4. QED BY <1>1, <1>2, <1>3, One, Zenon DEF ReadsAs, acil_decode_evt_display_passkey

(* The decoder of Echo, up to the longest that the device sends. *)
LEMMA ReadsEcho ==
    ASSUME NEW n \in Nat, n <= 29
    PROVE  ReadsAs(Copy(0, "echo_data", n), << <<"echo_data", n>> >>, n)
<1>1. "echo_data" \in Names
  BY DEF Names
<1>2. Piece(Copy(0, "echo_data", n), 0, "echo_data", n)
  BY PieceOfCopy DEF EVT
<1>3. Held(Copy(0, "echo_data", n))
  BY HeldCopy, Capacities DEF EVT
<1>4. QED BY <1>1, <1>2, <1>3, One, Zenon DEF ReadsAs

(* The decoder of Hardware Error, up to the longest file name. *)
LEMMA ReadsHwError ==
    ASSUME NEW n \in Nat, n <= 20
    PROVE  ReadsAs(Word(EVT.line_num, "line_num") ++ Copy(EVT.file_name, "file_name", n),
                   << <<"line_num", 2>>, <<"file_name", n>> >>,
                   2 + n)
<1>1. "line_num" \in Names /\ "file_name" \in Names /\ 2 \in Nat
  BY DEF Names
<1>2. /\ Piece(Word(EVT.line_num, "line_num"), 0, "line_num", 2)
      /\ Piece(Copy(EVT.file_name, "file_name", n), 2, "file_name", n)
  BY PieceOfWord, PieceOfCopy DEF EVT
<1>3. /\ Held(Word(EVT.line_num, "line_num"))
      /\ Held(Copy(EVT.file_name, "file_name", n))
  BY HeldWord, HeldCopy, Capacities DEF EVT
<1>4. QED BY <1>1, <1>2, <1>3, Two, HeldBoth, Zenon DEF ReadsAs

(* The decoder of Data Received, up to the longest packet. *)
LEMMA ReadsReceived ==
    ASSUME NEW n \in Nat, n <= 22
    PROVE  ReadsAs(Byte(DATA.pipe_number, "pipe_number") ++ Copy(DATA.aci_data, "aci_data", n),
                   data_struct(n),
                   1 + n)
<1>1. "pipe_number" \in Names /\ "aci_data" \in Names /\ 1 \in Nat
  BY DEF Names
<1>2. /\ Piece(Byte(DATA.pipe_number, "pipe_number"), 0, "pipe_number", 1)
      /\ Piece(Copy(DATA.aci_data, "aci_data", n), 1, "aci_data", n)
  BY PieceOfByte, PieceOfCopy DEF DATA
<1>3. /\ Held(Byte(DATA.pipe_number, "pipe_number"))
      /\ Held(Copy(DATA.aci_data, "aci_data", n))
  BY HeldByte, HeldCopy, Capacities DEF DATA
<1>4. QED BY <1>1, <1>2, <1>3, Two, HeldBoth, Zenon DEF ReadsAs, data_struct

(* The decoder of the device version. *)
LEMMA ReadsVersion ==
    ReadsAs(Word(RSP.configuration_id, "configuration_id")
            ++ Byte(RSP.aci_version, "aci_version") ++ Byte(RSP.setup_format, "setup_format")
            ++ [j \in Range(RSP.setup_id) |-> <<"setup_id", j - RSP.setup_id[1]>>]
            ++ Byte(RSP.setup_status, "setup_status"),
            << <<"configuration_id", 2>>, <<"aci_version", 1>>, <<"setup_format", 1>>,
               <<"setup_id", 4>>, <<"setup_status", 1>> >>,
            2 + 1 + 1 + 4 + 1)
<1>1. /\ "configuration_id" \in Names /\ "aci_version" \in Names
      /\ "setup_format" \in Names /\ "setup_id" \in Names /\ "setup_status" \in Names
      /\ 1 \in Nat /\ 2 \in Nat /\ 4 \in Nat
  BY DEF Names
<1>2. /\ Piece(Word(RSP.configuration_id, "configuration_id"), 0, "configuration_id", 2)
      /\ Piece(Byte(RSP.aci_version, "aci_version"), 2, "aci_version", 1)
      /\ Piece(Byte(RSP.setup_format, "setup_format"), 2 + 1, "setup_format", 1)
      /\ Piece([j \in Range(RSP.setup_id) |-> <<"setup_id", j - RSP.setup_id[1]>>], 2 + 1 + 1, "setup_id", 4)
      /\ Piece(Byte(RSP.setup_status, "setup_status"), 2 + 1 + 1 + 4, "setup_status", 1)
  BY PieceOfWord, PieceOfByte, PieceOfSetupId DEF RSP
<1>3. /\ Held(Word(RSP.configuration_id, "configuration_id"))
      /\ Held(Byte(RSP.aci_version, "aci_version"))
      /\ Held(Byte(RSP.setup_format, "setup_format"))
      /\ Held([j \in Range(RSP.setup_id) |-> <<"setup_id", j - RSP.setup_id[1]>>])
      /\ Held(Byte(RSP.setup_status, "setup_status"))
  BY HeldWord, HeldByte, HeldSetupId, Capacities DEF RSP
<1>4. QED BY <1>1, <1>2, <1>3, Five, HeldBoth, Zenon DEF ReadsAs

(* The decoder of the device address. *)
LEMMA ReadsAddress ==
    ReadsAs(Copy(RSP.bd_addr_own, "bd_addr_own", ADDRESS)
            ++ Byte(RSP.bd_addr_type, "bd_addr_type"),
            address_struct,
            ADDRESS + 1)
<1>1. "bd_addr_own" \in Names /\ "bd_addr_type" \in Names /\ 1 \in Nat /\ ADDRESS \in Nat
  BY DEF Names, ADDRESS
<1>2. /\ Piece(Copy(RSP.bd_addr_own, "bd_addr_own", ADDRESS), 0, "bd_addr_own", ADDRESS)
      /\ Piece(Byte(RSP.bd_addr_type, "bd_addr_type"), ADDRESS, "bd_addr_type", 1)
  BY PieceOfCopy, PieceOfByte DEF RSP, ADDRESS
<1>3. /\ Held(Copy(RSP.bd_addr_own, "bd_addr_own", ADDRESS))
      /\ Held(Byte(RSP.bd_addr_type, "bd_addr_type"))
  BY HeldCopy, HeldByte, Capacities DEF RSP, ADDRESS
<1>4. QED BY <1>1, <1>2, <1>3, Two, HeldBoth, Zenon DEF ReadsAs, address_struct

(* The decoder of the temperature. *)
LEMMA ReadsTemperature ==
    ReadsAs(Word(RSP.temperature_value, "temperature_value"), << <<"temperature_value", 2>> >>, 2)
<1>1. "temperature_value" \in Names /\ 2 \in Nat
  BY DEF Names
<1>2. Piece(Word(RSP.temperature_value, "temperature_value"), 0, "temperature_value", 2)
  BY PieceOfWord DEF RSP
<1>3. Held(Word(RSP.temperature_value, "temperature_value"))
  BY HeldWord, Capacities DEF RSP
<1>4. QED BY <1>1, <1>2, <1>3, One, Zenon DEF ReadsAs

(* The decoder of the battery level. *)
LEMMA ReadsBattery ==
    ReadsAs(Word(RSP.battery_level, "battery_level"), << <<"battery_level", 2>> >>, 2)
<1>1. "battery_level" \in Names /\ 2 \in Nat
  BY DEF Names
<1>2. Piece(Word(RSP.battery_level, "battery_level"), 0, "battery_level", 2)
  BY PieceOfWord DEF RSP
<1>3. Held(Word(RSP.battery_level, "battery_level"))
  BY HeldWord, Capacities DEF RSP
<1>4. QED BY <1>1, <1>2, <1>3, One, Zenon DEF ReadsAs

(* The decoder of the direct test mode response. *)
LEMMA ReadsDtm ==
    ReadsAs(Byte(RSP.evt_msb, "evt_msb") ++ Byte(RSP.evt_lsb, "evt_lsb"),
            << <<"evt_msb", 1>>, <<"evt_lsb", 1>> >>,
            1 + 1)
<1>1. "evt_msb" \in Names /\ "evt_lsb" \in Names /\ 1 \in Nat
  BY DEF Names
<1>2. /\ Piece(Byte(RSP.evt_msb, "evt_msb"), 0, "evt_msb", 1)
      /\ Piece(Byte(RSP.evt_lsb, "evt_lsb"), 1, "evt_lsb", 1)
  BY PieceOfByte DEF RSP
<1>3. /\ Held(Byte(RSP.evt_msb, "evt_msb"))
      /\ Held(Byte(RSP.evt_lsb, "evt_lsb"))
  BY HeldByte, Capacities DEF RSP
<1>4. QED BY <1>1, <1>2, <1>3, Two, HeldBoth, Zenon DEF ReadsAs

(* The decoder of the opcode and the status in front of every response. *)
LEMMA ReadsStatus ==
    ReadsAs(Byte(EVT.cmd_opcode, "cmd_opcode") ++ Byte(EVT.cmd_status, "cmd_status"),
            << <<"cmd_opcode", 1>>, <<"cmd_status", 1>> >>,
            1 + 1)
<1>1. "cmd_opcode" \in Names /\ "cmd_status" \in Names /\ 1 \in Nat
  BY DEF Names
<1>2. /\ Piece(Byte(EVT.cmd_opcode, "cmd_opcode"), 0, "cmd_opcode", 1)
      /\ Piece(Byte(EVT.cmd_status, "cmd_status"), 1, "cmd_status", 1)
  BY PieceOfByte DEF EVT
<1>3. /\ Held(Byte(EVT.cmd_opcode, "cmd_opcode"))
      /\ Held(Byte(EVT.cmd_status, "cmd_status"))
  BY HeldByte, Capacities DEF EVT
<1>4. QED BY <1>1, <1>2, <1>3, Two, HeldBoth, Zenon DEF ReadsAs

-----------------------------------------------------------------------------
(* Which decoder reads what.                                                *)

(* The events and the responses, by name. *)
LEMMA EventNames ==
    /\ Responses = {"dtm_cmd", "read_dynamic_data", "get_device_version", "get_device_address",
                    "get_battery_level", "get_temperature", "connect"}
    /\ Events = {"device_started", "echo", "hw_error", "connected", "disconnected", "bond_status",
                 "pipe_status", "timing", "data_credit", "data_ack", "data_received", "pipe_error",
                 "display_passkey", "key_request"}
BY DEF Responses, Events, rsp_struct, evt_struct

(* The struct of each event (aci_evts.h). *)
LEMMA EventStructs ==
    ASSUME NEW n
    PROVE  /\ EvtStruct("device_started", n) =
                << <<"device_mode", 1>>, <<"hw_error", 1>>, <<"credit_available", 1>> >>
           /\ EvtStruct("echo", n) = << <<"echo_data", n>> >>
           /\ EvtStruct("hw_error", n) = << <<"line_num", 2>>, <<"file_name", n>> >>
           /\ EvtStruct("connected", n) = << <<"dev_addr_type", 1>>, <<"dev_addr", ADDRESS>> >>
                                          \o timing_struct \o << <<"master_clock_accuracy", 1>> >>
           /\ EvtStruct("disconnected", n) = << <<"aci_status", 1>>, <<"btle_status", 1>> >>
           /\ EvtStruct("bond_status", n) = << <<"status_code", 1>>, <<"status_source", 1>>,
                <<"secmode1_bitmap", 1>>, <<"secmode2_bitmap", 1>>,
                <<"keys_exchanged_slave", 1>>, <<"keys_exchanged_master", 1>> >>
           /\ EvtStruct("pipe_status", n) =
                << <<"pipes_open_bitmap", BITMAP>>, <<"pipes_closed_bitmap", BITMAP>> >>
           /\ EvtStruct("timing", n) = timing_struct
           /\ EvtStruct("data_credit", n) = << <<"credit", 1>> >>
           /\ EvtStruct("data_ack", n) = pipe_struct
           /\ EvtStruct("data_received", n) = data_struct(n)
           /\ EvtStruct("pipe_error", n) =
                << <<"pipe_number", 1>>, <<"error_code", 1>>, <<"content", 1>> >>
           /\ EvtStruct("display_passkey", n) = << <<"passkey", 6>> >>
           /\ EvtStruct("key_request", n) = << <<"key_type", 1>> >>
BY EventNames DEF EvtStruct, evt_struct

(* The struct of each Command Response: two bytes in front of its own. *)
LEMMA ResponseStructs ==
    ASSUME NEW n
    PROVE  /\ \A e \in Responses : EvtStruct(e, n) = << <<"cmd_opcode", 1>>, <<"cmd_status", 1>> >> \o rsp_struct(n)[e]
           /\ rsp_struct(n)["dtm_cmd"] = << <<"evt_msb", 1>>, <<"evt_lsb", 1>> >>
           /\ rsp_struct(n)["read_dynamic_data"] = << <<"seq_no", 1>>, <<"dynamic_data", n>> >>
           /\ rsp_struct(n)["get_device_version"] =
                << <<"configuration_id", 2>>, <<"aci_version", 1>>, <<"setup_format", 1>>,
                   <<"setup_id", 4>>, <<"setup_status", 1>> >>
           /\ rsp_struct(n)["get_device_address"] = address_struct
           /\ rsp_struct(n)["get_battery_level"] = << <<"battery_level", 2>> >>
           /\ rsp_struct(n)["get_temperature"] = << <<"temperature_value", 2>> >>
           /\ rsp_struct(n)["connect"] = <<>>
<1>1. \A e \in Responses : e \notin Events
  BY EventNames
<1>2. \A e \in Responses : EvtStruct(e, n) = << <<"cmd_opcode", 1>>, <<"cmd_status", 1>> >> \o rsp_struct(n)[e]
  BY <1>1, Zenon DEF EvtStruct
<1>3. QED BY <1>2 DEF rsp_struct

(* acil_decode_evt calls the decoder of the event. *)
LEMMA Decoders ==
    ASSUME NEW length
    PROVE  /\ acil_decode_evt("device_started", length) = acil_decode_evt_device_started
           /\ acil_decode_evt("hw_error", length) = acil_decode_evt_hw_error(length)
           /\ acil_decode_evt("data_credit", length) = acil_decode_evt_credit
           /\ acil_decode_evt("connected", length) = acil_decode_evt_connected
           /\ acil_decode_evt("pipe_status", length) = acil_decode_evt_pipe_status
           /\ acil_decode_evt("disconnected", length) = acil_decode_evt_disconnected
           /\ acil_decode_evt("bond_status", length) = acil_decode_evt_bond_status
           /\ acil_decode_evt("timing", length) = acil_decode_evt_timing
           /\ acil_decode_evt("data_ack", length) = acil_decode_evt_data_ack
           /\ acil_decode_evt("data_received", length) = acil_decode_evt_data_received(length)
           /\ acil_decode_evt("pipe_error", length) = acil_decode_evt_pipe_error
           /\ acil_decode_evt("key_request", length) = acil_decode_evt_key_request
           /\ acil_decode_evt("display_passkey", length) = acil_decode_evt_display_passkey
           /\ \A e \in Responses : acil_decode_evt(e, length) = acil_decode_evt_command_response(e, length)
BY EventNames DEF acil_decode_evt

(* acil_decode_evt_command_response takes the response by its opcode. *)
LEMMA ResponsesOf ==
    ASSUME NEW length
    PROVE  /\ response_of("get_device_version", length) =
                Word(RSP.configuration_id, "configuration_id")
                ++ Byte(RSP.aci_version, "aci_version") ++ Byte(RSP.setup_format, "setup_format")
                ++ [j \in Range(RSP.setup_id) |-> <<"setup_id", j - RSP.setup_id[1]>>]
                ++ Byte(RSP.setup_status, "setup_status")
           /\ response_of("get_device_address", length) =
                Copy(RSP.bd_addr_own, "bd_addr_own", ADDRESS) ++ Byte(RSP.bd_addr_type, "bd_addr_type")
           /\ response_of("get_temperature", length) = Word(RSP.temperature_value, "temperature_value")
           /\ response_of("get_battery_level", length) = Word(RSP.battery_level, "battery_level")
           /\ response_of("read_dynamic_data", length) =
                Byte(RSP.seq_no, "seq_no")
                ++ Copy(RSP.dynamic_data, "dynamic_data", dynamic_data_size(length))
           /\ response_of("dtm_cmd", length) = Byte(RSP.evt_msb, "evt_msb") ++ Byte(RSP.evt_lsb, "evt_lsb")
           /\ response_of("connect", length) = Nothing
BY Zenon DEF response_of

(* The concatenation of two, three and one fields. *)
LEMMA SixTuple ==
    ASSUME NEW a \in Field, NEW b \in Field, NEW c \in Field, NEW d \in Field, NEW e \in Field, NEW f \in Field
    PROVE  <<a, b>> \o <<c, d, e>> \o <<f>> = <<a, b, c, d, e, f>>
<1> DEFINE s == <<a, b>>
           t == <<c, d, e>>
           u == <<f>>
           p == s \o t
           q == p \o u
           r == <<a, b, c, d, e, f>>
<1>1. /\ s \in Seq(Field) /\ Len(s) = 2 /\ s[1] = a /\ s[2] = b
      /\ t \in Seq(Field) /\ Len(t) = 3 /\ t[1] = c /\ t[2] = d /\ t[3] = e
      /\ u \in Seq(Field) /\ Len(u) = 1 /\ u[1] = f
  OBVIOUS
<1>2. /\ r \in Seq(Field) /\ Len(r) = 6
      /\ r[1] = a /\ r[2] = b /\ r[3] = c /\ r[4] = d /\ r[5] = e /\ r[6] = f
  OBVIOUS
<1> HIDE DEF s, t, u, r
<1>3. /\ p \in Seq(Field) /\ Len(p) = 5
      /\ p[1] = a /\ p[2] = b /\ p[3] = c /\ p[4] = d /\ p[5] = e
  <2>1. /\ p \in Seq(Field) /\ Len(p) = Len(s) + Len(t)
        /\ \A i \in 1 .. Len(s) + Len(t) : p[i] = IF i <= Len(s) THEN s[i] ELSE t[i - Len(s)]
    <3>1. s \in Seq(Field) /\ t \in Seq(Field)
      BY <1>1
    <3>2. QED BY <3>1, ConcatProperties, Zenon
  <2>2. 1 \in 1 .. 2 + 3 /\ 2 \in 1 .. 2 + 3 /\ 3 \in 1 .. 2 + 3 /\ 4 \in 1 .. 2 + 3 /\ 5 \in 1 .. 2 + 3
    OBVIOUS
  <2> HIDE DEF p
  <2>3. QED BY <1>1, <2>1, <2>2
<1> HIDE DEF p
<1>4. /\ q \in Seq(Field) /\ Len(q) = 6
      /\ q[1] = a /\ q[2] = b /\ q[3] = c /\ q[4] = d /\ q[5] = e /\ q[6] = f
  <2>1. /\ q \in Seq(Field) /\ Len(q) = Len(p) + Len(u)
        /\ \A i \in 1 .. Len(p) + Len(u) : q[i] = IF i <= Len(p) THEN p[i] ELSE u[i - Len(p)]
    <3>1. p \in Seq(Field) /\ u \in Seq(Field)
      BY <1>1, <1>3
    <3>2. QED BY <3>1, ConcatProperties, Zenon
  <2> HIDE DEF q
  <2>2. QED BY <1>1, <1>3, <2>1
<1> HIDE DEF q
<1>5. \A i \in 1 .. 6 : q[i] = r[i]
  <2>1. \A i \in 1 .. 6 : i = 1 \/ i = 2 \/ i = 3 \/ i = 4 \/ i = 5 \/ i = 6
    OBVIOUS
  <2>2. QED BY <1>2, <1>4, <2>1
<1>6. q = r
  BY <1>2, <1>4, <1>5, SeqEqual
<1>7. QED BY <1>6 DEF q, p, s, t, u, r

(* The struct of Connected has the one of Timing in its middle; here are its
   six fields in a row. *)
LEMMA ConnectedStruct ==
    << <<"dev_addr_type", 1>>, <<"dev_addr", ADDRESS>> >> \o timing_struct \o << <<"master_clock_accuracy", 1>> >>
    = << <<"dev_addr_type", 1>>, <<"dev_addr", ADDRESS>>, <<"conn_rf_interval", 2>>,
         <<"conn_slave_rf_latency", 2>>, <<"conn_rf_timeout", 2>>, <<"master_clock_accuracy", 1>> >>
<1> DEFINE a == <<"dev_addr_type", 1>>
           b == <<"dev_addr", ADDRESS>>
           c == <<"conn_rf_interval", 2>>
           d == <<"conn_slave_rf_latency", 2>>
           e == <<"conn_rf_timeout", 2>>
           f == <<"master_clock_accuracy", 1>>
<1>1. /\ a \in Field /\ b \in Field /\ c \in Field /\ d \in Field /\ e \in Field /\ f \in Field
  BY DEF Field, Names, ADDRESS
<1> HIDE DEF a, b, c, d, e, f
<1>2. <<a, b>> \o <<c, d, e>> \o <<f>> = <<a, b, c, d, e, f>>
  BY <1>1, SixTuple
<1>3. QED BY <1>2, Zenon DEF timing_struct, a, b, c, d, e, f

\* at holds every byte of the struct fs of L bytes; it lies inside the packet
\* and inside the arrays. A decoder may read more than the struct has.
Decodes(at, fs, L) == Lays(at, fs, L) /\ Ends(at, 31) /\ Held(at)

(* To read the struct exactly is one way. *)
LEMMA ReadsDecodes ==
    ASSUME NEW at, NEW fs, NEW L \in 0 .. 31, ReadsAs(at, fs, L)
    PROVE  Decodes(at, fs, L)
BY DEF ReadsAs, Decodes, Exactly, Ends

(* A Command Response is decoded if what follows its status is. *)
LEMMA ResponseDecodes ==
    ASSUME NEW e \in Responses, NEW n, NEW gs, gs = rsp_struct(n)[e],
           NEW M \in 0 .. 28, NEW length, length = 1 + (2 + M),
           NEW r, r = response_of(e, length), Lays(r, gs, M), Ends(r, 29), Held(r)
    PROVE  Decodes(acil_decode_evt(e, length), EvtStruct(e, n), 2 + M)
<1> DEFINE fs == << <<"cmd_opcode", 1>>, <<"cmd_status", 1>> >>
           a == Byte(EVT.cmd_opcode, "cmd_opcode") ++ Byte(EVT.cmd_status, "cmd_status")
<1>1. Exactly(a, fs, 1 + 1) /\ Held(a)
  BY ReadsStatus, Zenon DEF ReadsAs
<1>2. acil_decode_evt(e, length) = a ++ Shifted(r, EVT.response)
  BY Decoders, Zenon DEF acil_decode_evt_command_response, Shifted
<1>3. EvtStruct(e, n) = fs \o gs
  BY ResponseStructs, Zenon
<1> HIDE DEF fs, a
<1>4. EVT.response = 2 /\ 1 + 1 = 2 /\ 2 \in Nat /\ M \in Nat
  BY DEF EVT
<1>5. Exactly(a, fs, 2)
  BY <1>1, <1>4, Zenon
<1>6. fs \in Seq(Field) /\ gs \in Seq(Field)
  BY <1>5, Zenon DEF Exactly, Lays, Wide
<1>7. Lays(a ++ Shifted(r, 2), fs \o gs, 2 + M)
  BY <1>4, <1>5, <1>6, LaysConcat, Zenon
<1>8. Ends(a ++ Shifted(r, 2), 31)
  <2>1. Ends(a, 2)
    BY <1>5 DEF Exactly
  <2>2. Ends(Shifted(r, 2), 31)
    BY DEF Ends, Shifted
  <2>3. QED BY <2>1, <2>2 DEF Ends, ++
<1>9. Held(a ++ Shifted(r, 2))
  <2>1. DOMAIN r \subseteq Int /\ 2 \in Int
    BY DEF Ends
  <2>2. QED BY <1>1, <2>1, HeldShifted, HeldBoth, Zenon
<1>10. QED BY <1>2, <1>3, <1>4, <1>7, <1>8, <1>9, Zenon DEF Decodes

\* The decoder of an event; echo has one that acil_decode_evt does not call.
reader(e, length) == IF e = "echo" THEN acil_decode_evt_echo(length) ELSE acil_decode_evt(e, length)

(* Every event of fixed size is decoded. *)
LEMMA FixedEvents ==
    ASSUME NEW e \in Events \ {"echo", "hw_error", "data_received"}, NEW n
    PROVE  \E L \in 0 .. 31 : Decodes(reader(e, 1 + L), EvtStruct(e, n), L)
<1>1. e # "echo" /\ e \in {"device_started", "connected", "disconnected", "bond_status",
                 "pipe_status", "timing", "data_credit", "data_ack", "pipe_error",
                 "display_passkey", "key_request"}
  BY EventNames
<1>2. \A length : reader(e, length) = acil_decode_evt(e, length)
  BY <1>1, Zenon DEF reader
<1>3. ASSUME NEW L \in 0 .. 31, NEW at, acil_decode_evt(e, 1 + L) = at, ReadsAs(at, EvtStruct(e, n), L)
      PROVE  \E M \in 0 .. 31 : Decodes(reader(e, 1 + M), EvtStruct(e, n), M)
  BY <1>2, <1>3, ReadsDecodes, Zenon
<1>4. /\ 1 \in 0 .. 31 /\ 1 + 1 \in 0 .. 31 /\ 1 + 1 + 1 \in 0 .. 31 /\ 2 + 2 + 2 \in 0 .. 31
      /\ 6 \in 0 .. 31 /\ 1 + 1 + 1 + 1 + 1 + 1 \in 0 .. 31
      /\ BITMAP + BITMAP \in 0 .. 31 /\ 1 + ADDRESS + 2 + 2 + 2 + 1 \in 0 .. 31
  BY DEF BITMAP, ADDRESS
<1>5. CASE e = "device_started"
  BY <1>3, <1>4, <1>5, Decoders, EventStructs, ReadsStarted, Zenon
<1>6. CASE e = "connected"
  BY <1>3, <1>4, <1>6, Decoders, EventStructs, ReadsConnected, ConnectedStruct, Zenon
<1>7. CASE e = "disconnected"
  BY <1>3, <1>4, <1>7, Decoders, EventStructs, ReadsDisconnected, Zenon
<1>8. CASE e = "bond_status"
  BY <1>3, <1>4, <1>8, Decoders, EventStructs, ReadsBond, Zenon
<1>9. CASE e = "pipe_status"
  BY <1>3, <1>4, <1>9, Decoders, EventStructs, ReadsPipes, Zenon
<1>10. CASE e = "timing"
  BY <1>3, <1>4, <1>10, Decoders, EventStructs, ReadsTiming, Zenon
<1>11. CASE e = "data_credit"
  BY <1>3, <1>4, <1>11, Decoders, EventStructs, ReadsCredit, Zenon
<1>12. CASE e = "data_ack"
  BY <1>3, <1>4, <1>12, Decoders, EventStructs, ReadsAck, Zenon
<1>13. CASE e = "pipe_error"
  BY <1>3, <1>4, <1>13, Decoders, EventStructs, ReadsPipeError, Zenon
<1>14. CASE e = "display_passkey"
  BY <1>3, <1>4, <1>14, Decoders, EventStructs, ReadsPasskey, Zenon
<1>15. CASE e = "key_request"
  BY <1>3, <1>4, <1>15, Decoders, EventStructs, ReadsKeyRequest, Zenon
<1>16. QED BY <1>1, <1>5, <1>6, <1>7, <1>8, <1>9, <1>10, <1>11, <1>12, <1>13, <1>14, <1>15, Zenon

(* Every response of fixed size is decoded. *)
LEMMA FixedResponses ==
    ASSUME NEW e \in Responses \ {"read_dynamic_data"}, NEW n
    PROVE  \E L \in 0 .. 31 : Decodes(reader(e, 1 + L), EvtStruct(e, n), L)
<1>1. /\ e # "echo" /\ e \in Responses
      /\ e \in {"dtm_cmd", "get_device_version", "get_device_address", "get_battery_level",
                "get_temperature", "connect"}
  BY EventNames
<1>2. \A length : reader(e, length) = acil_decode_evt(e, length)
  BY <1>1, Zenon DEF reader
<1>3. ASSUME NEW M \in 0 .. 28, NEW r, r = response_of(e, 1 + (2 + M)),
             NEW gs, gs = rsp_struct(n)[e], ReadsAs(r, gs, M)
      PROVE  \E L \in 0 .. 31 : Decodes(reader(e, 1 + L), EvtStruct(e, n), L)
  <2>1. 2 + M \in 0 .. 31 /\ M <= 29
    OBVIOUS
  <2>2. Lays(r, gs, M) /\ Held(r) /\ Ends(r, M)
    BY <1>3, Zenon DEF ReadsAs, Exactly
  <2>3. Ends(r, 29)
    BY <2>1, <2>2 DEF Ends
  <2>4. Decodes(acil_decode_evt(e, 1 + (2 + M)), EvtStruct(e, n), 2 + M)
    BY <1>1, <1>3, <2>2, <2>3, ResponseDecodes, Zenon
  <2>5. QED BY <1>2, <2>1, <2>4, Zenon
<1>4. /\ 0 \in 0 .. 28 /\ 1 + 1 \in 0 .. 28 /\ 2 \in 0 .. 28
      /\ 2 + 1 + 1 + 4 + 1 \in 0 .. 28 /\ ADDRESS + 1 \in 0 .. 28
  BY DEF ADDRESS
<1>5. ReadsAs(Nothing, <<>>, 0)
  BY WritesNothing DEF ReadsAs, Held, Nothing
<1>6. CASE e = "dtm_cmd"
  BY <1>3, <1>4, <1>6, ResponsesOf, ResponseStructs, ReadsDtm, Zenon
<1>7. CASE e = "get_device_version"
  BY <1>3, <1>4, <1>7, ResponsesOf, ResponseStructs, ReadsVersion, Zenon
<1>8. CASE e = "get_device_address"
  BY <1>3, <1>4, <1>8, ResponsesOf, ResponseStructs, ReadsAddress, Zenon
<1>9. CASE e = "get_battery_level"
  BY <1>3, <1>4, <1>9, ResponsesOf, ResponseStructs, ReadsBattery, Zenon
<1>10. CASE e = "get_temperature"
  BY <1>3, <1>4, <1>10, ResponsesOf, ResponseStructs, ReadsTemperature, Zenon
<1>11. CASE e = "connect"
  BY <1>3, <1>4, <1>5, <1>11, ResponsesOf, ResponseStructs, Zenon
<1>12. QED BY <1>1, <1>6, <1>7, <1>8, <1>9, <1>10, <1>11, Zenon
=============================================================================
