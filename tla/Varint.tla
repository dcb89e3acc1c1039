------------------------------- MODULE Varint -------------------------------
(***************************************************************************)
(* The length field of a TKFD header: an unsigned LEB128 number             *)
(* (tokfold-core, format.rs: write_uleb128, read_uleb128).  The program has *)
(* groups of 7 bits, a u64 and fields of at most 10 bytes, so that the last *)
(* byte may carry one bit; the three numbers are parameters here.           *)
(***************************************************************************)
EXTENDS Naturals, Sequences

CONSTANTS
  Group,     \* 2^7: values of a group; CONTINUATION_BIT is the same number
  Top,       \* u64::MAX
  MaxGroups  \* ULEB128_MAX_BYTES

\* What a payload is shifted by at the i-th byte: 2^(7i) in the program.
Shift[i \in 0..MaxGroups] == IF i = 0 THEN 1 ELSE Group * Shift[i - 1]

\* A number that fills all the groups below a byte, and as much of that byte as Top has,
\* is still one of the program's: what is below Top's last group is all ones.
ASSUME VarintAssumption ==
  /\ Group \in Nat /\ Group > 1
  /\ Top \in Nat
  /\ MaxGroups \in Nat \ {0}
  /\ Top < Shift[MaxGroups]
  /\ \A i \in 0..(MaxGroups - 1) : (Top + 1) % Shift[i] = 0

Byte == 0..(2 * Group - 1)

\* Outcomes of reading; offsets count from 0, as in the program.
Read(value, next) == [ok |-> TRUE,  value |-> value, at |-> next]
Corrupt(offset)   == [ok |-> FALSE, value |-> 0,     at |-> offset]

Has(bytes, offset) == offset < Len(bytes)
ByteAt(bytes, offset) == bytes[offset + 1]

\* write_uleb128: the low groups first, all but the last with the continuation bit.
GroupsOf(value) ==
  CHOOSE k \in 1..MaxGroups : value < Shift[k] /\ \A j \in 1..(k - 1) : value >= Shift[j]

WriteUleb(value) ==
  LET n == GroupsOf(value)
  IN [i \in 1..n |-> ((value \div Shift[i - 1]) % Group) + (IF i < n THEN Group ELSE 0)]

\* Mutant: a terminating zero is accepted.
NeverOverlong(byte, i) == FALSE

\* A terminating zero group after the first encodes a number of fewer bytes.
IsOverlong(byte, i) == i > 0 /\ byte = 0

\* payload > u64::MAX >> shift
IsTooLarge(group, i) == group > (Top \div Shift[i])

\* The i-th byte of the field at offset start is there and within bounds, and another
\* follows it.
GoesOn(bytes, start, i) ==
  LET byte == ByteAt(bytes, start + i)
  IN Has(bytes, start + i) /\ ~IsTooLarge(byte % Group, i) /\ byte >= Group

\* The number the first n bytes of the field make.
Payload(bytes, start, n) ==
  LET result[i \in 0..n] ==
        IF i = 0 THEN 0
        ELSE result[i - 1] + ((ByteAt(bytes, start + i - 1) % Group) * Shift[i - 1])
  IN result[n]

\* read_uleb128: up to the first byte the loop does not go on from, or past the last it may
\* look at.
ReadUleb(bytes, start) ==
  LET last == CHOOSE i \in 0..MaxGroups :
                /\ i < MaxGroups => ~GoesOn(bytes, start, i)
                /\ \A j \in 0..(i - 1) : GoesOn(bytes, start, j)
      offset == start + last
      byte   == ByteAt(bytes, offset)
  IN IF \/ last = MaxGroups \/ ~Has(bytes, offset)
        \/ IsTooLarge(byte % Group, last) \/ IsOverlong(byte, last)
     THEN Corrupt(offset)
     ELSE Read(Payload(bytes, start, last + 1), offset + 1)
=============================================================================
