---------------------------- MODULE NumberFormat ----------------------------
(***************************************************************************)
(* How the kernel's consoles format numbers: print_dec and print_hex of    *)
(* kernel/kernel_main64.cpp, print_number of kernel/kernel.cpp.  The       *)
(* output is the sequence of digits sent to putchar; print_hex always      *)
(* prints Nibbles digits (16 in the build).                                *)
(***************************************************************************)
EXTENDS Naturals, Sequences, SequencesExt

CONSTANTS MaxValue,   \* the values printed are 0 .. MaxValue
          Nibbles     \* hexadecimal digits of the word

\* What a hexadecimal digit counts: 16 to the power of its place.
Weight[n \in 0 .. Nibbles] == IF n = 0 THEN 1 ELSE 16 * Weight[n - 1]

FormatAssumption ==
    MaxValue \in Nat /\ Nibbles \in Nat /\ MaxValue < Weight[Nibbles]

VARIABLES value, printed, base

vars == <<value, printed, base>>

Init ==
    /\ value \in 0 .. MaxValue
    /\ printed = <<>>
    /\ base = 10

\* buffer[--pos] = value % 10 until value is 0: filled from its end.
print_dec(v) ==
    LET filled[n \in 0 .. v] ==
          IF n = 0 THEN <<>> ELSE Append(filled[n \div 10], n % 10)
    IN  IF v = 0 THEN <<0>> ELSE filled[v]

\* Mutant: printed from the first to the last.
print_number_reversed(v) ==
    LET filled[n \in 0 .. v] ==
          IF n = 0 THEN <<>> ELSE <<n % 10>> \o filled[n \div 10]
    IN  IF v = 0 THEN <<0>> ELSE filled[v]

\* buffer[i++] = num % 10, then printed from the last to the first.
print_number(v) ==
    LET filled[n \in 0 .. v] ==
          IF n = 0 THEN <<>> ELSE <<n % 10>> \o filled[n \div 10]
    IN  IF v = 0 THEN <<0>> ELSE Reverse(filled[v])

\* buffer[i + 2] = (value >> 4i) & 0xF
print_hex(v) == [i \in 1 .. Nibbles |-> (v \div Weight[i - 1]) % 16]

Emit(digits, b) ==
    /\ printed = <<>>
    /\ printed' = digits
    /\ base' = b
    /\ UNCHANGED value

PrintDec    == Emit(print_dec(value), 10)
PrintNumber == Emit(print_number(value), 10)
PrintHex    == Emit(print_hex(value), 16)

Next == PrintDec \/ PrintNumber \/ PrintHex

Spec == Init /\ [][Next]_vars

-----------------------------------------------------------------------------
\* The number a reader sees.
Reads(digits, b) == FoldLeft(LAMBDA acc, d : acc * b + d, 0, digits)

TypeOK ==
    /\ value \in 0 .. MaxValue
    /\ base \in {10, 16}
    /\ \A i \in 1 .. Len(printed) : printed[i] \in 0 .. base - 1

(***************************************************************************)
(* What print_dec and print_number put on the screen reads as the number   *)
(* they were given, without leading zeros, from 0 up.  print_hex puts all  *)
(* the digits, but stores the lowest one first: its text reads as the      *)
(* number only from right to left.                                         *)
(***************************************************************************)
ReadsBack ==
    printed # <<>> =>
        /\ base = 10 => /\ Reads(printed, 10) = value
                        /\ Len(printed) > 1 => printed[1] # 0
        /\ base = 16 => Reads(Reverse(printed), 16) = value
=============================================================================
