----------------------------- MODULE WireFormat -----------------------------
(***************************************************************************)
(* ACI messages as bytes.  A message is a length, an opcode and            *)
(* parameters; its buffer holds the length at 0, the opcode at 1 and the   *)
(* parameters from 2.  A byte of a parameter is named, not valued:         *)
(* <<f, k>> is byte k of field f, counted from the least significant byte  *)
(* of an integer and from the first element of an array.  So the code that *)
(* stores a parameter, the code that reads it back and the packed struct   *)
(* that declares it are all functions from buffer positions to named       *)
(* bytes, and can be compared.                                             *)
(***************************************************************************)
EXTENDS Integers, Sequences, SequencesExt

\* OFFSET_ACI_CMD_T_* and OFFSET_ACI_EVT_T_*: where the parameters begin.
PARAMS == 2

\* The longest message, length byte excluded: HAL_ACI_MAX_LENGTH of the
\* transport.
MAX_LENGTH == 31

\* Two functions side by side; the first counts where both are defined.
f ++ g == [i \in DOMAIN f \cup DOMAIN g |-> IF i \in DOMAIN f THEN f[i] ELSE g[i]]

\* One byte at position i; a 16 bit field with its least significant byte at
\* p[1] and its most significant at p[2]; n bytes copied from position i.
Byte(i, f)    == [j \in {i} |-> <<f, 0>>]
Word(p, f)    == [j \in {p[1], p[2]} |-> <<f, IF j = p[1] THEN 0 ELSE 1>>]
Copy(i, f, n) == [j \in i .. i + n - 1 |-> <<f, j - i>>]
Nothing       == <<>>

\* A message whose parameters hold the bytes "at", positions from PARAMS on.
Message(op, length, at) ==
    [op |-> op, length |-> length,
     at |-> [i \in {PARAMS + j : j \in DOMAIN at} |-> at[i - PARAMS]]]

\* A packed struct is a sequence of fields <<name, width in bytes>>: its bytes
\* follow each other in order, least significant first in an integer.
FieldBytes(field)   == [k \in 1 .. field[2] |-> <<field[1], k - 1>>]
StructBytes(fields) == FlattenSeq([i \in DOMAIN fields |-> FieldBytes(fields[i])])

\* The buffer that overlaying the struct describes.
Overlay(op, fields) ==
    LET bytes == StructBytes(fields) IN
    Message(op, 1 + Len(bytes), [j \in 0 .. Len(bytes) - 1 |-> bytes[j + 1]])
=============================================================================
