------------------------------ MODULE RomSearch -----------------------------
(***************************************************************************)
(* onewire_bus: the iterator that finds the devices of a 1-Wire bus.  Each *)
(* call walks the ROM number bit by bit.  The devices that agree with the  *)
(* bits so far answer together: a bit and its complement, each the AND of  *)
(* their answers.  Where both values occur the search takes 0 first, and   *)
(* remembers the last such place to take 1 there the next time.  A call    *)
(* may fail at any bit, and the application calls again.                   *)
(***************************************************************************)
EXTENDS Integers, Sequences, FiniteSets

CONSTANTS
  Bits,        \* bits of a ROM number (64)
  BadCrc,      \* ROM numbers whose CRC is wrong
  MaxErrors    \* bound on failures of the bus

ConstantsOK == Bits \in Nat \ {0} /\ MaxErrors \in Nat

Rom == [1..Bits -> {0, 1}]

VARIABLES
  present,          \* the ROM numbers on the bus
  lastDiscrepancy,  \* last_discrepancy: 0, or the place to take 1 next
  isLast,           \* is_last_device
  rom,              \* rom_number
  bit,              \* id_bit_number of the running call, 0: no call
  lastZero,         \* last_zero
  found,            \* the addresses reported, in order
  errors

iter == <<lastDiscrepancy, isLast, rom>>
vars == <<present, iter, bit, lastZero, found, errors>>

Init ==
  /\ present \in SUBSET Rom
  /\ lastDiscrepancy = 0 /\ isLast = FALSE /\ rom = [i \in 1..Bits |-> 0]
  /\ bit = 0 /\ lastZero = 0 /\ found = <<>> /\ errors = 0

\* The devices that still take part: those that agree with the bits written.
Taking == {d \in present : \A i \in 1..(bit - 1) : d[i] = rom[i]}

\* The two bits read: 1 unless a device pulls the line.
RomBit == IF \E d \in Taking : d[bit] = 0 THEN 0 ELSE 1
RomBitComplement == IF \E d \in Taking : d[bit] = 1 THEN 0 ELSE 1

\* search_direction.
Direction ==
  IF RomBit # RomBitComplement THEN RomBit
  ELSE IF bit < lastDiscrepancy THEN rom[bit]
  ELSE IF bit = lastDiscrepancy THEN 1 ELSE 0

\* onewire_device_iter_get_next(): a reset of the bus that no device answers
\* ends the call, and so does the end of the search.
GetNext ==
  /\ bit = 0 /\ ~isLast /\ present # {}
  /\ bit' = 1 /\ lastZero' = 0
  /\ UNCHANGED <<present, iter, found, errors>>

\* The bug: the place is remembered while the walk is still going on.
WalkRemembersAtOnce ==
  /\ bit \in 1..Bits
  /\ rom' = [rom EXCEPT ![bit] = Direction]
  /\ lastZero' = IF RomBit = RomBitComplement /\ Direction = 0 THEN bit ELSE lastZero
  /\ lastDiscrepancy' = lastZero'
  /\ bit' = bit + 1
  /\ UNCHANGED <<present, isLast, found, errors>>

Walk ==
  /\ bit \in 1..Bits
  /\ ~(RomBit = 1 /\ RomBitComplement = 1)
  /\ rom' = [rom EXCEPT ![bit] = Direction]
  /\ lastZero' = IF RomBit = RomBitComplement /\ Direction = 0 THEN bit ELSE lastZero
  /\ bit' = bit + 1
  /\ UNCHANGED <<present, lastDiscrepancy, isLast, found, errors>>

\* The bus fails at this bit: before or after the direction is known.
WalkFails ==
  /\ bit \in 0..Bits /\ errors < MaxErrors /\ ~isLast
  /\ rom' \in {rom} \cup (IF bit = 0 THEN {} ELSE {[rom EXCEPT ![bit] = Direction]})
  /\ bit' = 0 /\ errors' = errors + 1
  /\ UNCHANGED <<present, lastDiscrepancy, isLast, lastZero, found>>

\* The bug: a wrong CRC ends the call before the iterator moves on.
WalkedChecksCrcFirst ==
  /\ bit = Bits + 1
  /\ bit' = 0
  /\ IF rom \in BadCrc
       THEN UNCHANGED <<iter, found>>
       ELSE /\ lastDiscrepancy' = lastZero /\ isLast' = (lastZero = 0)
            /\ found' = Append(found, rom) /\ UNCHANGED rom
  /\ UNCHANGED <<present, lastZero, errors>>

\* All bits are known: the iterator moves on, then the CRC is looked at.
Walked ==
  /\ bit = Bits + 1
  /\ bit' = 0
  /\ lastDiscrepancy' = lastZero /\ isLast' = (lastZero = 0)
  /\ found' = IF rom \in BadCrc THEN found ELSE Append(found, rom)
  /\ UNCHANGED <<present, rom, lastZero, errors>>

Next == GetNext \/ Walk \/ WalkFails \/ Walked

Fairness == WF_vars(GetNext) /\ WF_vars(Walk) /\ WF_vars(Walked)

Spec == Init /\ [][Next]_vars
FairSpec == Spec /\ Fairness

-----------------------------------------------------------------------------
(* Properties.                                                             *)

TypeOK ==
  /\ lastDiscrepancy \in 0..Bits /\ lastZero \in 0..Bits
  /\ rom \in Rom /\ bit \in 0..(Bits + 1)
  /\ isLast \in BOOLEAN /\ errors \in 0..MaxErrors
  /\ Len(found) <= Cardinality(Rom)

\* What is found is on the bus and found once, also when calls fail half way
\* with part of the new ROM number in the iterator; and when the iterator says
\* there is no more device, every device with a good CRC has been found: one with
\* a bad CRC hides no other.
FindsEachOnce ==
  LET devices == {found[i] : i \in 1..Len(found)} IN
  /\ Cardinality(devices) = Len(found) /\ devices \subseteq present
  /\ isLast => devices = present \ BadCrc

\* Nobody answers, or the last device was found.
AtEnd == present = {} \/ isLast

\* An application that calls again after each failure reaches the end.
Ends == <>AtEnd

=============================================================================
