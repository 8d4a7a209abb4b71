------------------------- MODULE SearchImageProofs --------------------------
(***************************************************************************)
(* Proofs about the two components that walk what they read piece by piece *)
(* and call by call: the 1-Wire search, for ROM numbers of any length, any *)
(* devices and any number of failures; and the decryption of an image, for *)
(* every size of the header's fields, of the block, of the image and of    *)
(* the pieces.  The one finds every device once; the other loses, repeats  *)
(* and mistakes nothing at a seam.                                         *)
(*                                                                         *)
(* The search finds the devices in the order of their ROM numbers, read    *)
(* from the first bit on.  Between two calls last_discrepancy and the bits *)
(* before it are a bound: the devices below it have been found, the next   *)
(* call finds the least of the others.  A call that fails has overwritten  *)
(* no bit before last_discrepancy with another value.                      *)
(*                                                                         *)
(* Every buffer of the decryption is a run of consecutive bytes of the     *)
(* image; the invariant says where each begins and how long it is, from    *)
(* the state of the handle and the number of bytes read in it.             *)
(***************************************************************************)
EXTENDS RomSearch, SequenceTheorems, FiniteSetTheorems, FunctionTheorems,
        WellFoundedInduction, TLAPS

CONSTANTS
  MagicSize, KeySize, IvSize, BinSizeData, AuthSize, Reserved,
  Block,       \* CACHE_BUF_SIZE
  Lengths,     \* lengths of the binary
  Trailing,    \* numbers of bytes behind the binary
  Pieces       \* lengths of a piece

VARIABLES
  image,      \* length of the binary, bytes behind it, and whether it is genuine
  supplied,   \* bytes handed over so far
  at,         \* the running call has used the bytes up to here (curr_index)
  state,      \* handle->state, "none" once the handle is freed
  read,       \* binary_file_read
  length,     \* binary_file_len
  key, iv, auth,    \* the bytes used as key, IV and tag
  cache,      \* the first cache_buf_len bytes of cache_buf
  capacity,   \* its allocated size
  out,        \* the bytes decrypted
  phase       \* "idle", "running", "failed", "ok": between or in calls, the end

Img == INSTANCE EncryptedImg

-----------------------------------------------------------------------------
(* The search.                                                              *)

\* d has the first n bits of r.
Agree(d, r, n) == \A i \in 1..n : d[i] = r[i]

\* The devices that are below r, and already by its first n bits.
Below(r, n) ==
  {d \in present : \E p \in 1..n : Agree(d, r, p - 1) /\ d[p] = 0 /\ r[p] = 1}

\* The devices that have the first n - 1 bits of rom, and then v.
Has(n, v) == \E d \in present : Agree(d, rom, n - 1) /\ d[n] = v

\* The bound between two calls.
Target == [i \in 1..Bits |-> IF i = lastDiscrepancy THEN 1 ELSE rom[i]]

Devices == {found[i] : i \in 1..Len(found)}

Typed ==
  /\ present \in SUBSET Rom /\ rom \in Rom /\ found \in Seq(Rom)
  /\ lastDiscrepancy \in 0..Bits /\ lastZero \in 0..Bits /\ bit \in 0..(Bits + 1)
  /\ isLast \in BOOLEAN /\ errors \in 0..MaxErrors

Once == IsFiniteSet(Devices) /\ Cardinality(Devices) = Len(found)

Found ==
  Devices = (IF isLast THEN present ELSE Below(Target, lastDiscrepancy)) \ BadCrc

\* The next device exists.
Branch ==
  /\ lastDiscrepancy > 0 => Has(lastDiscrepancy, 1)
  /\ isLast => lastDiscrepancy = 0 /\ bit = 0

\* Some device has the bits so far.  Behind last_discrepancy the walk took 0
\* where it could; behind last_zero it left no device with a 1 aside.
Walking ==
  bit > 0 =>
    /\ \E d \in present : Agree(d, rom, bit - 1)
    /\ bit > lastDiscrepancy /\ lastDiscrepancy > 0 => rom[lastDiscrepancy] = 1
    /\ lastZero < bit
    /\ lastZero > 0 => rom[lastZero] = 0 /\ Has(lastZero, 1)
    /\ \A p \in (lastDiscrepancy + 1)..(bit - 1) : rom[p] = 1 => ~Has(p, 0)
    /\ \A p \in (lastZero + 1)..(bit - 1) : rom[p] = 0 => ~Has(p, 1)

IInv == Typed /\ Once /\ Found /\ Branch /\ Walking

-----------------------------------------------------------------------------
(* ROM numbers and their order.                                            *)

\* Every set of numbers that has a member has a least one.
LEMMA LeastNumber ==
  ASSUME NEW T, T \subseteq Nat, T # {}
  PROVE  \E x \in T : \A y \in T : x <= y
<1> DEFINE less == OpToRel(<, Nat)
<1>1. IsWellFoundedOn(less, Nat)
  BY NatLessThanWellFounded, Zenon
<1>2. \A m, n \in Nat : m < n => <<m, n>> \in less
  BY DEF OpToRel
<1> HIDE DEF less
<1>3. PICK x \in T : \A y \in T : ~ (<<y, x>> \in less)
  BY <1>1, WFMin, Zenon
<1>4. \A y \in T : ~(y < x)
  BY <1>2, <1>3
<1> QED BY <1>4

\* ROM numbers with the same bits are the same.
LEMMA SameRom ==
  ASSUME NEW d \in Rom, NEW r \in Rom, \A i \in 1..Bits : d[i] = r[i]
  PROVE  d = r
<1>1. /\ d = [i \in 1..Bits |-> d[i]]
      /\ r = [i \in 1..Bits |-> r[i]]
  BY DEF Rom
<1>2. [i \in 1..Bits |-> d[i]] = [i \in 1..Bits |-> r[i]] OBVIOUS
<1> QED BY <1>1, <1>2, Zenon

\* The ROM numbers are finitely many.
LEMMA FiniteRom ==
  ASSUME ConstantsOK
  PROVE  IsFiniteSet(Rom)
<1> DEFINE ones(d) == {i \in 1..Bits : d[i] = 1}
<1> DEFINE f == [d \in Rom |-> ones(d)]
<1>1. IsFiniteSet(SUBSET (1..Bits))
  <2>1. 1 \in Int /\ Bits \in Int BY DEF ConstantsOK
  <2>2. IsFiniteSet(1..Bits) BY <2>1, FS_Interval, Zenon
  <2> QED BY <2>2, FS_SUBSET, Zenon
<1>2. \A d \in Rom : ones(d) \in SUBSET (1..Bits) OBVIOUS
<1>3. f \in [Rom -> SUBSET (1..Bits)] BY <1>2
<1>4. ASSUME NEW d \in Rom, NEW r \in Rom, f[d] = f[r] PROVE d = r
  <2>1. ones(d) = ones(r) BY <1>4
  <2>2. \A i \in 1..Bits : d[i] \in {0, 1} /\ r[i] \in {0, 1} BY DEF Rom
  <2>3. \A i \in 1..Bits : d[i] = 1 <=> r[i] = 1 BY <2>1
  <2>4. \A i \in 1..Bits : d[i] = r[i] BY <2>2, <2>3
  <2> QED BY <2>4, SameRom
<1> HIDE DEF f
<1>5. f \in Injection(Rom, SUBSET (1..Bits))
  BY <1>3, <1>4 DEF Injection, IsInjective
<1> QED BY <1>1, <1>5, FS_Injection, Zenon

\* Two ROM numbers that differ have a first bit in which they do.
LEMMA FirstDifference ==
  ASSUME ConstantsOK, NEW d \in Rom, NEW r \in Rom, d # r
  PROVE  \E p \in 1..Bits : Agree(d, r, p - 1) /\ d[p] # r[p]
<1> DEFINE T == {i \in 1..Bits : d[i] # r[i]}
<1>1. T # {} /\ T \subseteq Nat
  <2>1. \E i \in 1..Bits : d[i] # r[i] BY SameRom
  <2>2. \E i \in 1..Bits : i \in T BY <2>1
  <2>3. T # {} BY <2>2
  <2>4. T \subseteq Nat OBVIOUS
  <2> QED BY <2>3, <2>4
<1> HIDE DEF T
<1>2. \E p \in T : \A i \in T : p <= i
  BY <1>1, LeastNumber
<1> USE DEF T
<1>3. PICK p \in T : \A i \in T : p <= i BY <1>2
<1>4. Bits \in Nat BY DEF ConstantsOK
<1>5. Agree(d, r, p - 1) BY <1>3, <1>4 DEF Agree
<1> QED BY <1>5

LEMMA AgreeLess ==
  ASSUME NEW d, NEW r, NEW n \in Int, NEW m \in Int, m <= n, Agree(d, r, n)
  PROVE  Agree(d, r, m)
BY DEF Agree

\* Only the first n bits of a bound matter.
LEMMA BelowSame ==
  ASSUME NEW t, NEW u, NEW n \in Nat, \A i \in 1..n : t[i] = u[i]
  PROVE  Below(t, n) = Below(u, n)
<1>1. ASSUME NEW p \in 1..n, NEW d PROVE Agree(d, t, p - 1) <=> Agree(d, u, p - 1)
  <2>1. \A i \in 1..(p - 1) : i \in 1..n OBVIOUS
  <2> QED BY <2>1 DEF Agree
<1> QED BY <1>1 DEF Below

\* No device is below itself.
LEMMA NotBelowItself ==
  ASSUME NEW r, NEW n
  PROVE  r \notin Below(r, n)
BY DEF Below

-----------------------------------------------------------------------------
(* One bit.                                                                *)

\* What the two bits read say.
LEMMA Read ==
  /\ RomBit \in {0, 1} /\ RomBitComplement \in {0, 1}
  /\ RomBit = 0 <=> Has(bit, 0)
  /\ RomBitComplement = 0 <=> Has(bit, 1)
<1>1. \A v : (\E d \in Taking : d[bit] = v) <=> Has(bit, v)
  BY DEF Taking, Has, Agree
<1> QED BY <1>1 DEF RomBit, RomBitComplement

\* Where the search goes: before last_discrepancy the way it went, there to
\* 1, and behind it to 0 unless no device has one.
LEMMA Directs ==
  ASSUME ConstantsOK, IInv, bit \in 1..Bits
  PROVE  /\ Direction \in {0, 1} /\ Has(bit, Direction)
         /\ bit < lastDiscrepancy => Direction = rom[bit]
         /\ bit = lastDiscrepancy => Direction = 1
         /\ bit > lastDiscrepancy /\ Direction = 1 => ~Has(bit, 0)
         /\ RomBit = RomBitComplement /\ Direction = 0 => Has(bit, 1)
         /\ Direction = 0 /\ RomBit # RomBitComplement => ~Has(bit, 1)
<1>1. /\ Bits \in Nat /\ lastDiscrepancy \in Nat /\ bit \in Nat
      /\ rom \in [1..Bits -> {0, 1}] /\ present \subseteq [1..Bits -> {0, 1}]
  BY DEF IInv, Typed, ConstantsOK, Rom
<1>2. Has(bit, 0) \/ Has(bit, 1)
  <2>1. PICK d \in present : Agree(d, rom, bit - 1) BY DEF IInv, Walking
  <2>2. d[bit] \in {0, 1} BY <1>1
  <2> QED BY <2>1, <2>2 DEF Has
<1>3. bit < lastDiscrepancy => Has(bit, rom[bit])
  <2>1. SUFFICES ASSUME bit < lastDiscrepancy PROVE Has(bit, rom[bit]) OBVIOUS
  <2>2. PICK d \in present : Agree(d, rom, lastDiscrepancy - 1)
    BY <1>1, <2>1 DEF IInv, Branch, Has
  <2>3. d[bit] = rom[bit] /\ Agree(d, rom, bit - 1)
    BY <1>1, <2>1, <2>2 DEF Agree
  <2> QED BY <2>3 DEF Has
<1>4. bit = lastDiscrepancy => Has(bit, 1)
  BY <1>1 DEF IInv, Branch
<1>5. rom[bit] \in {0, 1} BY <1>1
<1>6. Direction = IF RomBit # RomBitComplement THEN RomBit
                  ELSE IF bit < lastDiscrepancy THEN rom[bit]
                  ELSE IF bit = lastDiscrepancy THEN 1 ELSE 0
  BY DEF Direction
<1> QED BY <1>1, <1>2, <1>3, <1>4, <1>5, <1>6, Read

\* Writing that bit changes nothing that is known of those before it, nor the
\* bound.
LEMMA Writes ==
  ASSUME ConstantsOK, IInv, bit \in 1..Bits,
         rom' = [rom EXCEPT ![bit] = Direction],
         UNCHANGED <<present, lastDiscrepancy>>
  PROVE  /\ rom' \in Rom /\ rom'[bit] = Direction
         /\ \A p \in 1..Bits : p # bit => rom'[p] = rom[p]
         /\ \A d, n : n < bit /\ n \in Int => (Agree(d, rom', n) <=> Agree(d, rom, n))
         /\ \A p, v : p <= bit /\ p \in Int => (Has(p, v)' <=> Has(p, v))
         /\ Below(Target', lastDiscrepancy) = Below(Target, lastDiscrepancy)
         /\ lastDiscrepancy > 0 => Has(lastDiscrepancy, 1)'
<1>1. /\ Bits \in Nat /\ lastDiscrepancy \in 0..Bits /\ bit \in Nat
      /\ rom \in [1..Bits -> {0, 1}]
  BY DEF IInv, Typed, ConstantsOK, Rom
<1>2. Direction \in {0, 1} BY Directs
<1>3. rom' \in Rom /\ rom'[bit] = Direction /\ \A p \in 1..Bits : p # bit => rom'[p] = rom[p]
  BY <1>1, <1>2 DEF Rom
<1>4. ASSUME NEW d, NEW n \in Int, n < bit
      PROVE  Agree(d, rom', n) <=> Agree(d, rom, n)
  <2>1. \A i \in 1..n : rom'[i] = rom[i] BY <1>1, <1>3, <1>4
  <2> QED BY <2>1 DEF Agree
<1>5. ASSUME NEW p \in Int, NEW v, p <= bit PROVE Has(p, v)' <=> Has(p, v)
  <2>1. p - 1 \in Int /\ p - 1 < bit BY <1>1, <1>5
  <2>2. \A d : Agree(d, rom', p - 1) <=> Agree(d, rom, p - 1) BY <1>4, <2>1
  <2> QED BY <2>2 DEF Has
<1>6. \A i \in 1..Bits : i < lastDiscrepancy => rom'[i] = rom[i]
  BY <1>1, <1>3, Directs
<1>7. \A i \in 1..lastDiscrepancy : Target'[i] = Target[i]
  BY <1>1, <1>6 DEF Target
<1>8. Below(Target', lastDiscrepancy) = Below(Target, lastDiscrepancy)
  BY <1>1, <1>7, BelowSame
<1>9. ASSUME lastDiscrepancy > 0 PROVE Has(lastDiscrepancy, 1)'
  <2>1. PICK d \in present : Agree(d, rom, lastDiscrepancy - 1) /\ d[lastDiscrepancy] = 1
    BY <1>9 DEF IInv, Branch, Has
  <2>2. Agree(d, rom', lastDiscrepancy - 1)
    BY <1>1, <1>6, <2>1 DEF Agree
  <2> QED BY <2>1, <2>2 DEF Has
<1> QED BY <1>3, <1>4, <1>5, <1>8, <1>9

-----------------------------------------------------------------------------
(* The steps.                                                              *)

LEMMA NoneFound ==
  ASSUME found = <<>>
  PROVE  Devices = {} /\ IsFiniteSet(Devices) /\ Cardinality(Devices) = Len(found)
<1>1. Devices = {} BY DEF Devices
<1> QED BY <1>1, FS_EmptySet

LEMMA InitHolds ==
  ASSUME ConstantsOK, Init
  PROVE  IInv
<1>1. Bits \in Nat \ {0} /\ MaxErrors \in Nat BY DEF ConstantsOK
<1>2. rom \in Rom BY <1>1 DEF Init, Rom
<1>3. found = <<>> /\ <<>> \in Seq(Rom) BY DEF Init
<1>4. Typed
  <2>1. isLast \in BOOLEAN BY DEF Init
  <2>2. present \in SUBSET Rom BY DEF Init
  <2>3. found \in Seq(Rom) BY <1>3
  <2>4. /\ lastDiscrepancy \in 0..Bits /\ lastZero \in 0..Bits
        /\ bit \in 0..(Bits + 1) /\ errors \in 0..MaxErrors
    BY <1>1 DEF Init
  <2> QED BY <1>2, <2>1, <2>2, <2>3, <2>4 DEF Typed
<1>5. Once BY <1>3, NoneFound DEF Once
<1>6. Found
  <2>1. Below(Target, 0) = {} BY DEF Below
  <2>2. isLast = FALSE /\ lastDiscrepancy = 0 BY DEF Init
  <2> QED BY <1>3, <2>1, <2>2, NoneFound DEF Found
<1>7. Branch /\ Walking BY DEF Init, Branch, Walking
<1> QED BY <1>4, <1>5, <1>6, <1>7 DEF IInv

\* The devices found stay, and the bound is the same.
LEMMA FoundStays ==
  ASSUME IInv, UNCHANGED <<present, lastDiscrepancy, isLast, found>>,
         Below(Target', lastDiscrepancy) = Below(Target, lastDiscrepancy)
  PROVE  Once' /\ Found'
<1>1. Devices' = Devices BY DEF Devices
<1>3. (Below(Target, lastDiscrepancy))' = Below(Target', lastDiscrepancy)
  <2>1. present' = present /\ lastDiscrepancy' = lastDiscrepancy OBVIOUS
  <2> DEFINE t == Target'
  <2>2. (Below(Target, lastDiscrepancy))' =
          {d \in present' : \E p \in 1..lastDiscrepancy' :
             Agree(d, t, p - 1) /\ d[p] = 0 /\ t[p] = 1}
    BY DEF Below, Agree
  <2>3. Below(t, lastDiscrepancy) =
          {d \in present : \E p \in 1..lastDiscrepancy :
             Agree(d, t, p - 1) /\ d[p] = 0 /\ t[p] = 1}
    BY DEF Below
  <2> HIDE DEF t
  <2>4. (Below(Target, lastDiscrepancy))' = Below(t, lastDiscrepancy)
    BY <2>1, <2>2, <2>3
  <2> QED BY <2>4 DEF t
<1>4. Once' BY <1>1 DEF IInv, Once
<1>5. Found' BY <1>1, <1>3 DEF IInv, Found
<1> QED BY <1>4, <1>5

LEMMA StepGetNext ==
  ASSUME ConstantsOK, IInv, GetNext
  PROVE  IInv'
<1>1. /\ bit = 0 /\ ~isLast /\ present # {} /\ bit' = 1 /\ lastZero' = 0
      /\ UNCHANGED <<present, lastDiscrepancy, isLast, rom, found, errors>>
  BY DEF GetNext, iter
<1>2. Bits \in Nat \ {0} BY DEF ConstantsOK
<1>3. Typed' BY <1>1, <1>2 DEF IInv, Typed
<1>4. Target' = Target BY <1>1 DEF Target
<1>5. Once' /\ Found' BY <1>1, <1>4, FoundStays
<1>6. Branch' BY <1>1 DEF IInv, Branch, Has, Agree
<1>7. Walking'
  <2>1. lastDiscrepancy \in Nat BY <1>2 DEF IInv, Typed
  <2>2. PICK d \in present : TRUE BY <1>1
  <2>3. Agree(d, rom', bit' - 1) BY <1>1 DEF Agree
  <2>4. /\ (lastDiscrepancy' + 1)..(bit' - 1) = {} /\ (lastZero' + 1)..(bit' - 1) = {}
        /\ ~(bit' > lastDiscrepancy' /\ lastDiscrepancy' > 0)
        /\ lastZero' < bit' /\ ~(lastZero' > 0)
    BY <1>1, <2>1
  <2> QED BY <1>1, <2>3, <2>4 DEF Walking
<1> QED BY <1>3, <1>5, <1>6, <1>7 DEF IInv

LEMMA StepWalk ==
  ASSUME ConstantsOK, IInv, Walk
  PROVE  IInv'
<1>1. /\ bit \in 1..Bits /\ bit' = bit + 1
      /\ rom' = [rom EXCEPT ![bit] = Direction]
      /\ lastZero' = IF RomBit = RomBitComplement /\ Direction = 0 THEN bit ELSE lastZero
      /\ UNCHANGED <<present, lastDiscrepancy, isLast, found, errors>>
  BY DEF Walk
<1>2. /\ Bits \in Nat /\ bit \in Nat /\ lastZero \in 0..Bits /\ lastDiscrepancy \in 0..Bits
  BY DEF IInv, Typed, ConstantsOK
<1>w. /\ lastZero < bit
      /\ bit > lastDiscrepancy /\ lastDiscrepancy > 0 => rom[lastDiscrepancy] = 1
      /\ lastZero > 0 => rom[lastZero] = 0 /\ Has(lastZero, 1)
      /\ \A p \in (lastDiscrepancy + 1)..(bit - 1) : rom[p] = 1 => ~Has(p, 0)
      /\ \A p \in (lastZero + 1)..(bit - 1) : rom[p] = 0 => ~Has(p, 1)
  BY <1>1 DEF IInv, Walking
<1>3. /\ rom' \in Rom /\ rom'[bit] = Direction
      /\ \A p \in 1..Bits : p # bit => rom'[p] = rom[p]
      /\ \A d, n : n < bit /\ n \in Int => (Agree(d, rom', n) <=> Agree(d, rom, n))
      /\ \A p, v : p <= bit /\ p \in Int => (Has(p, v)' <=> Has(p, v))
      /\ Below(Target', lastDiscrepancy) = Below(Target, lastDiscrepancy)
      /\ lastDiscrepancy > 0 => Has(lastDiscrepancy, 1)'
  BY <1>1, Writes
<1>4. Typed' BY <1>1, <1>2, <1>3 DEF IInv, Typed
<1>5. Once' /\ Found' BY <1>1, <1>3, FoundStays
<1>6. Branch' BY <1>1, <1>2, <1>3 DEF IInv, Branch
<1>7. \E d \in present' : Agree(d, rom', bit' - 1)
  <2>1. PICK d \in present : Agree(d, rom, bit - 1) /\ d[bit] = Direction
    BY <1>1, Directs DEF Has
  <2>2. \A i \in 1..(bit - 1) : d[i] = rom'[i]
    BY <1>1, <1>2, <1>3, <2>1 DEF Agree
  <2>3. \A i \in 1..bit : d[i] = rom'[i] BY <1>2, <1>3, <2>1, <2>2
  <2>4. bit' - 1 = bit BY <1>1, <1>2
  <2> QED BY <1>1, <2>3, <2>4 DEF Agree
<1>8. bit' > lastDiscrepancy' /\ lastDiscrepancy' > 0 => rom'[lastDiscrepancy'] = 1
  <2>1. SUFFICES ASSUME bit' > lastDiscrepancy, lastDiscrepancy > 0
                 PROVE  rom'[lastDiscrepancy] = 1
    BY <1>1
  <2>2. CASE lastDiscrepancy = bit BY <1>1, <1>3, <2>2, Directs
  <2>3. CASE lastDiscrepancy < bit BY <1>1, <1>2, <1>3, <1>w, <2>1, <2>3
  <2> QED BY <1>1, <1>2, <2>1, <2>2, <2>3
<1>9. lastZero' < bit' BY <1>1, <1>2, <1>w
<1>10. lastZero' > 0 => rom'[lastZero'] = 0 /\ Has(lastZero, 1)'
  <2>1. CASE RomBit = RomBitComplement /\ Direction = 0
    <3>1. lastZero' = bit /\ rom'[bit] = 0 /\ Has(bit, 1)
      BY <1>1, <1>3, <2>1, Directs
    <3>2. PICK d \in present : Agree(d, rom, bit - 1) /\ d[bit] = 1
      BY <3>1 DEF Has
    <3>3. Agree(d, rom', bit - 1) BY <1>2, <1>3, <3>2
    <3> QED BY <1>1, <3>1, <3>2, <3>3 DEF Has
  <2>2. CASE ~(RomBit = RomBitComplement /\ Direction = 0)
    <3>1. lastZero' = lastZero BY <1>1, <2>2
    <3> SUFFICES ASSUME lastZero > 0
                 PROVE  rom'[lastZero'] = 0 /\ Has(lastZero, 1)'
      BY <3>1
    <3>2. PICK d \in present : Agree(d, rom, lastZero - 1) /\ d[lastZero] = 1
      BY <1>w DEF Has
    <3>3. Agree(d, rom', lastZero - 1) BY <1>2, <1>3, <1>w, <3>2
    <3>4. rom'[lastZero] = 0 BY <1>2, <1>3, <1>w
    <3> QED BY <1>1, <3>1, <3>2, <3>3, <3>4 DEF Has
  <2> QED BY <2>1, <2>2
<1>11. ASSUME NEW p \in (lastDiscrepancy' + 1)..(bit' - 1), rom'[p] = 1
       PROVE  ~Has(p, 0)'
  <2>1. p \in Int /\ p <= bit /\ (Has(p, 0)' <=> Has(p, 0)) /\ p > lastDiscrepancy
    BY <1>1, <1>2, <1>3
  <2>2. CASE p = bit BY <1>1, <1>3, <1>11, <2>1, <2>2, Directs
  <2>3. CASE p < bit BY <1>1, <1>2, <1>3, <1>w, <1>11, <2>1, <2>3
  <2> QED BY <1>2, <2>1, <2>2, <2>3
<1>12. ASSUME NEW p \in (lastZero' + 1)..(bit' - 1), rom'[p] = 0
       PROVE  ~Has(p, 1)'
  <2>1. /\ p \in Int /\ p <= bit /\ (Has(p, 1)' <=> Has(p, 1))
        /\ lastZero' \in Int /\ p > lastZero'
    BY <1>1, <1>2, <1>3
  <2>2. CASE p = bit BY <1>1, <1>2, <1>3, <1>12, <2>1, <2>2, Directs
  <2>3. CASE p < bit
    <3>1. lastZero' = lastZero BY <1>1, <1>2, <2>1, <2>3
    <3> QED BY <1>1, <1>2, <1>3, <1>w, <1>12, <2>1, <2>3, <3>1
  <2> QED BY <1>2, <2>1, <2>2, <2>3
<1>13. Walking' BY <1>7, <1>8, <1>9, <1>10, <1>11, <1>12 DEF Walking
<1> QED BY <1>4, <1>5, <1>6, <1>13 DEF IInv

LEMMA StepWalkFails ==
  ASSUME ConstantsOK, IInv, WalkFails
  PROVE  IInv'
<1>1. /\ bit \in 0..Bits /\ bit' = 0 /\ ~isLast
      /\ rom' = rom \/ (bit # 0 /\ rom' = [rom EXCEPT ![bit] = Direction])
      /\ errors < MaxErrors /\ errors' = errors + 1
      /\ UNCHANGED <<present, lastDiscrepancy, isLast, lastZero, found>>
  BY DEF WalkFails
<1>2. Bits \in Nat /\ MaxErrors \in Nat /\ errors \in Nat
  BY DEF IInv, Typed, ConstantsOK
<1>3. /\ rom' \in Rom
      /\ Below(Target', lastDiscrepancy) = Below(Target, lastDiscrepancy)
      /\ lastDiscrepancy > 0 => Has(lastDiscrepancy, 1)'
  <2>1. CASE rom' = rom
    <3>1. Target' = Target BY <1>1, <2>1 DEF Target
    <3>2. lastDiscrepancy > 0 => Has(lastDiscrepancy, 1)'
      BY <1>1, <2>1 DEF IInv, Branch, Has, Agree
    <3> QED BY <2>1, <3>1, <3>2 DEF IInv, Typed
  <2>2. CASE bit # 0 /\ rom' = [rom EXCEPT ![bit] = Direction]
    <3>1. bit \in 1..Bits BY <1>1, <1>2, <2>2
    <3> QED BY <1>1, <2>2, <3>1, Writes
  <2> QED BY <1>1, <2>1, <2>2
<1>4. Typed' BY <1>1, <1>2, <1>3 DEF IInv, Typed
<1>5. Once' /\ Found' BY <1>1, <1>3, FoundStays
<1>6. Branch' BY <1>1, <1>3 DEF IInv, Branch
<1>7. Walking' BY <1>1 DEF Walking
<1> QED BY <1>4, <1>5, <1>6, <1>7 DEF IInv

\* At the end of a walk the ROM number is a device, the devices found are those
\* below it, and the new bound has just that one more below it.
LEMMA EndOfWalk ==
  ASSUME ConstantsOK, IInv, bit = Bits + 1
  PROVE  /\ rom \in present /\ ~isLast
         /\ Below(Target, lastDiscrepancy) = Below(rom, Bits)
         /\ lastZero = 0 => present = Below(rom, Bits) \cup {rom}
         /\ lastZero > 0 =>
              Below([i \in 1..Bits |-> IF i = lastZero THEN 1 ELSE rom[i]], lastZero)
                = Below(rom, Bits) \cup {rom}
<1>2. /\ Bits \in Nat /\ bit \in Nat /\ bit # 0 /\ lastZero \in 0..Bits
      /\ lastDiscrepancy \in 0..Bits
  BY DEF IInv, Typed, ConstantsOK
<1>t. rom \in Rom /\ present \subseteq Rom BY DEF IInv, Typed
<1>b. \A d \in Rom : \A i \in 1..Bits : d[i] \in {0, 1} BY DEF Rom
<1>w. /\ \E d \in present : Agree(d, rom, bit - 1)
      /\ lastDiscrepancy > 0 => rom[lastDiscrepancy] = 1
      /\ lastZero > 0 => rom[lastZero] = 0 /\ Has(lastZero, 1)
      /\ \A p \in (lastDiscrepancy + 1)..Bits : rom[p] = 1 => ~Has(p, 0)
      /\ \A p \in (lastZero + 1)..Bits : rom[p] = 0 => ~Has(p, 1)
  <2>1. bit - 1 = Bits /\ bit > lastDiscrepancy /\ bit > 0 BY <1>2
  <2> QED BY <2>1 DEF IInv, Walking
<1>3. rom \in present
  <2>1. PICK d \in present : Agree(d, rom, bit - 1) BY <1>w
  <2>2. \A i \in 1..Bits : d[i] = rom[i] BY <1>2, <2>1 DEF Agree
  <2>3. d = rom BY <1>t, <2>2, SameRom
  <2> QED BY <2>3
<1>4. ~isLast
  <2>1. bit # 0 BY <1>2
  <2> QED BY <2>1, Zenon DEF IInv, Branch
<1>5. Below(Target, lastDiscrepancy) = Below(rom, Bits)
  <2>1. \A i \in 1..lastDiscrepancy : Target[i] = rom[i]
    BY <1>2, <1>w DEF Target
  <2>2. Below(Target, lastDiscrepancy) = Below(rom, lastDiscrepancy)
    BY <1>2, <2>1, BelowSame
  <2>3. ASSUME NEW d \in Below(rom, Bits) PROVE d \in Below(rom, lastDiscrepancy)
    <3>1. d \in present BY DEF Below
    <3>2. PICK p \in 1..Bits : Agree(d, rom, p - 1) /\ d[p] = 0 /\ rom[p] = 1
      BY DEF Below
    <3>3. Has(p, 0) BY <3>1, <3>2 DEF Has
    <3>4. p \in 1..lastDiscrepancy BY <1>2, <1>w, <3>2, <3>3
    <3> QED BY <3>1, <3>2, <3>4 DEF Below
  <2>4. Below(rom, lastDiscrepancy) \subseteq Below(rom, Bits)
    BY <1>2 DEF Below
  <2> QED BY <2>2, <2>3, <2>4
\* A device that has the bits of rom up to last_zero is rom or below it.
<1>6. ASSUME NEW d \in present, Agree(d, rom, lastZero), d # rom
      PROVE  d \in Below(rom, Bits)
  <2>1. PICK p \in 1..Bits : Agree(d, rom, p - 1) /\ d[p] # rom[p]
    BY <1>6, <1>t, FirstDifference
  <2>2. p > lastZero BY <1>2, <1>6, <2>1 DEF Agree
  <2>3. Has(p, d[p]) BY <2>1 DEF Has
  <2>4. d[p] \in {0, 1} /\ rom[p] \in {0, 1} BY <1>t, <1>b
  <2>5. d[p] = 0 /\ rom[p] = 1
    <3>1. p \in (lastZero + 1)..Bits BY <1>2, <2>2
    <3> QED BY <1>w, <2>1, <2>3, <2>4, <3>1
  <2> QED BY <2>1, <2>5 DEF Below
<1>7. ASSUME lastZero = 0 PROVE present = Below(rom, Bits) \cup {rom}
  <2>1. \A d : Agree(d, rom, lastZero) BY <1>7 DEF Agree
  <2>2. \A d \in present : d # rom => d \in Below(rom, Bits) BY <1>6, <2>1
  <2>3. Below(rom, Bits) \subseteq present BY DEF Below
  <2> QED BY <1>3, <2>2, <2>3
<1>8. ASSUME lastZero > 0
      PROVE  Below([i \in 1..Bits |-> IF i = lastZero THEN 1 ELSE rom[i]], lastZero)
               = Below(rom, Bits) \cup {rom}
  <2> DEFINE t == [i \in 1..Bits |-> IF i = lastZero THEN 1 ELSE rom[i]]
  <2>1. /\ t[lastZero] = 1
        /\ \A i \in 1..Bits : i # lastZero => t[i] = rom[i]
    BY <1>2, <1>8
  <2>2. \A d, p : p \in 1..lastZero => (Agree(d, t, p - 1) <=> Agree(d, rom, p - 1))
    <3>1. \A p : p \in 1..lastZero => \A i \in 1..(p - 1) : t[i] = rom[i]
      BY <1>2, <2>1
    <3> QED BY <3>1 DEF Agree
  <2> HIDE DEF t
  <2>3. rom[lastZero] = 0 BY <1>8, <1>w
  <2>4. ASSUME NEW d \in Below(t, lastZero) PROVE d \in Below(rom, Bits) \cup {rom}
    <3>1. d \in present BY DEF Below
    <3>2. PICK p \in 1..lastZero : Agree(d, t, p - 1) /\ d[p] = 0 /\ t[p] = 1
      BY DEF Below
    <3>3. Agree(d, rom, p - 1) BY <2>2, <3>2
    <3>4. CASE p < lastZero
      <4>1. p \in 1..Bits /\ rom[p] = 1 BY <1>2, <2>1, <3>2, <3>4
      <4> QED BY <3>1, <3>2, <3>3, <4>1 DEF Below
    <3>5. CASE p = lastZero
      <4>1. Agree(d, rom, lastZero)
        BY <1>2, <2>3, <3>2, <3>3, <3>5 DEF Agree
      <4> QED BY <1>6, <3>1, <4>1
    <3> QED BY <1>2, <3>4, <3>5
  <2>5. rom \in Below(t, lastZero)
    <3>1. lastZero \in 1..lastZero BY <1>2, <1>8
    <3>2. Agree(rom, t, lastZero - 1) BY <2>2, <3>1 DEF Agree
    <3> QED BY <1>3, <2>1, <2>3, <3>1, <3>2 DEF Below
  <2>6. ASSUME NEW d \in Below(rom, Bits) PROVE d \in Below(t, lastZero)
    <3>1. d \in present BY DEF Below
    <3>2. PICK p \in 1..Bits : Agree(d, rom, p - 1) /\ d[p] = 0 /\ rom[p] = 1
      BY DEF Below
    <3>3. p # lastZero BY <2>3, <3>2
    <3>4. CASE p < lastZero
      <4>1. p \in 1..lastZero /\ t[p] = 1 BY <1>2, <2>1, <3>2, <3>4
      <4> QED BY <2>2, <3>1, <3>2, <4>1 DEF Below
    <3>5. CASE p > lastZero
      <4>1. d[lastZero] = 0 /\ Agree(d, rom, lastZero - 1)
        BY <1>2, <1>8, <2>3, <3>2, <3>5 DEF Agree
      <4>2. lastZero \in 1..lastZero BY <1>2, <1>8
      <4>3. Agree(d, t, lastZero - 1) BY <2>2, <4>1, <4>2
      <4> QED BY <2>1, <3>1, <4>1, <4>2, <4>3 DEF Below
    <3> QED BY <1>2, <3>3, <3>4, <3>5
  <2>7. Below(t, lastZero) = Below(rom, Bits) \cup {rom}
    BY <2>4, <2>5, <2>6
  <2> QED BY <2>7 DEF t
<1> QED BY <1>3, <1>4, <1>5, <1>7, <1>8

\* One more address is reported.
LEMMA Reported ==
  ASSUME NEW s \in Seq(Rom), NEW r \in Rom
  PROVE  LET more == Append(s, r) IN
         /\ more \in Seq(Rom) /\ Len(more) = Len(s) + 1
         /\ {more[i] : i \in 1..Len(more)} = {s[i] : i \in 1..Len(s)} \cup {r}
<1> DEFINE more == Append(s, r)
<1>1. /\ more \in Seq(Rom) /\ Len(more) = Len(s) + 1 /\ Len(s) \in Nat
      /\ \A i \in 1..Len(s) : more[i] = s[i]
      /\ more[Len(s) + 1] = r
  OBVIOUS
<1> HIDE DEF more
<1>2. \A i \in 1..Len(more) : more[i] \in {s[j] : j \in 1..Len(s)} \cup {r}
  <2> SUFFICES ASSUME NEW i \in 1..Len(more)
               PROVE  more[i] \in {s[j] : j \in 1..Len(s)} \cup {r}
    OBVIOUS
  <2>1. CASE i \in 1..Len(s) BY <1>1, <2>1
  <2>2. CASE i = Len(s) + 1 BY <1>1, <2>2
  <2> QED BY <1>1, <2>1, <2>2
<1>3. \A i \in 1..Len(s) : s[i] \in {more[j] : j \in 1..Len(more)}
  <2> SUFFICES ASSUME NEW i \in 1..Len(s)
               PROVE  s[i] \in {more[j] : j \in 1..Len(more)}
    OBVIOUS
  <2>1. i \in 1..Len(more) /\ more[i] = s[i] BY <1>1
  <2> QED BY <2>1
<1>4. r \in {more[j] : j \in 1..Len(more)}
  <2>1. Len(s) + 1 \in 1..Len(more) BY <1>1
  <2> QED BY <1>1, <2>1
<1>5. {more[i] : i \in 1..Len(more)} = {s[i] : i \in 1..Len(s)} \cup {r}
  BY <1>2, <1>3, <1>4
<1> QED BY <1>1, <1>5 DEF more

LEMMA StepWalked ==
  ASSUME ConstantsOK, IInv, Walked
  PROVE  IInv'
<1>1. /\ bit = Bits + 1 /\ bit' = 0
      /\ lastDiscrepancy' = lastZero /\ isLast' = (lastZero = 0)
      /\ found' = IF rom \in BadCrc THEN found ELSE Append(found, rom)
      /\ UNCHANGED <<present, rom, lastZero, errors>>
  BY DEF Walked
<1>2. /\ Bits \in Nat /\ bit \in Nat /\ bit # 0 /\ lastZero \in 0..Bits
      /\ rom \in Rom /\ found \in Seq(Rom)
  BY <1>1 DEF IInv, Typed, ConstantsOK
<1>3. /\ rom \in present /\ ~isLast
      /\ Below(Target, lastDiscrepancy) = Below(rom, Bits)
      /\ lastZero = 0 => present = Below(rom, Bits) \cup {rom}
      /\ lastZero > 0 =>
           Below([i \in 1..Bits |-> IF i = lastZero THEN 1 ELSE rom[i]], lastZero)
             = Below(rom, Bits) \cup {rom}
  BY <1>1, EndOfWalk
<1>4. Devices = Below(rom, Bits) \ BadCrc
  BY <1>3 DEF IInv, Found
<1>5. /\ rom \in BadCrc => Devices' = Devices /\ Len(found') = Len(found)
      /\ rom \notin BadCrc =>
           Devices' = Devices \cup {rom} /\ Len(found') = Len(found) + 1
      /\ found' \in Seq(Rom)
  BY <1>1, <1>2, Reported DEF Devices
<1>6. Typed' BY <1>1, <1>2, <1>5 DEF IInv, Typed
<1>7. Once'
  <2>1. IsFiniteSet(Devices) /\ Cardinality(Devices) = Len(found)
    BY DEF IInv, Once
  <2>2. rom \notin Devices BY <1>4, NotBelowItself
  <2>3. IsFiniteSet(Devices') /\ Cardinality(Devices') = Len(found')
    BY <1>5, <2>1, <2>2, FS_AddElement
  <2> QED BY <2>3 DEF Once
<1>8. Devices' = (Below(rom, Bits) \cup {rom}) \ BadCrc
  BY <1>4, <1>5
<1>9. Found'
  <2>1. CASE lastZero = 0 BY <1>1, <1>3, <1>8, <2>1 DEF Found
  <2>2. CASE lastZero # 0
    <3>1. lastZero > 0 BY <1>2, <2>2
    <3>4. ~isLast' BY <1>1, <2>2, Zenon
    <3>2. Target' = [i \in 1..Bits |-> IF i = lastZero THEN 1 ELSE rom[i]]
      BY <1>1 DEF Target
    <3>3. (Below(Target, lastDiscrepancy))' = Below(Target', lastZero)
      BY <1>1 DEF Below, Agree
    <3> QED BY <1>3, <1>8, <3>1, <3>2, <3>3, <3>4 DEF Found
  <2> QED BY <2>1, <2>2
<1>10. Branch'
  <2>1. lastZero > 0 => Has(lastZero, 1) BY <1>1, <1>2 DEF IInv, Walking
  <2>2. Has(lastZero, 1) => (Has(lastDiscrepancy, 1))' BY <1>1 DEF Has, Agree
  <2> QED BY <1>1, <2>1, <2>2 DEF Branch
<1>11. Walking' BY <1>1 DEF Walking
<1> QED BY <1>6, <1>7, <1>9, <1>10, <1>11 DEF IInv

-----------------------------------------------------------------------------
(* The theorems.                                                           *)

\* Between two calls the devices below the bound have been found, and no
\* others (onewire_device_iter_get_next()).
THEOREM SearchInvariant ==
  ASSUME ConstantsOK
  PROVE  Spec => []IInv
<1>1. Init => IInv BY InitHolds
<1>2. IInv /\ [Next]_vars => IInv'
  <2> SUFFICES ASSUME IInv, [Next]_vars PROVE IInv' OBVIOUS
  <2>1. CASE GetNext BY <2>1, StepGetNext
  <2>2. CASE Walk BY <2>2, StepWalk
  <2>3. CASE WalkFails BY <2>3, StepWalkFails
  <2>4. CASE Walked BY <2>4, StepWalked
  <2>5. CASE UNCHANGED vars
    <3>1. UNCHANGED <<present, lastDiscrepancy, isLast, rom, bit, lastZero, found, errors>>
      BY <2>5 DEF vars, iter
    <3>2. Target' = Target BY <3>1 DEF Target
    <3>3. Once' /\ Found' BY <3>1, <3>2, FoundStays
    <3>4. Typed' BY <3>1 DEF IInv, Typed
    <3>5. Branch' /\ Walking' BY <3>1 DEF IInv, Branch, Walking, Has, Agree
    <3> QED BY <3>3, <3>4, <3>5 DEF IInv
  <2> QED BY <2>1, <2>2, <2>3, <2>4, <2>5 DEF Next
<1> QED BY <1>1, <1>2, PTL DEF Spec

\* The variables keep their types, and the iterator reports no more addresses
\* than there are ROM numbers (onewire_device_iter_get_next()).
THEOREM TypeCorrect ==
  ASSUME ConstantsOK
  PROVE  Spec => []TypeOK
<1>1. IInv => TypeOK
  <2> SUFFICES ASSUME IInv PROVE TypeOK OBVIOUS
  <2>1. Devices \subseteq Rom BY DEF IInv, Typed, Found, Below
  <2>2. Cardinality(Devices) <= Cardinality(Rom)
    BY <2>1, FiniteRom, FS_Subset
  <2>3. Len(found) <= Cardinality(Rom) BY <2>2 DEF IInv, Once
  <2> QED BY <2>3 DEF IInv, Typed, TypeOK
<1> QED BY <1>1, SearchInvariant, PTL

\* The search finds every device with a good CRC once, whatever the length of
\* the ROM numbers, the devices and the failures on the way
\* (onewire_device_iter_get_next()).
THEOREM EachOnce ==
  ASSUME ConstantsOK
  PROVE  Spec => []FindsEachOnce
<1>1. IInv => FindsEachOnce
  <2> SUFFICES ASSUME IInv PROVE FindsEachOnce OBVIOUS
  <2>1. Cardinality(Devices) = Len(found) BY DEF IInv, Once
  <2>2. Devices \subseteq present BY DEF IInv, Found, Below
  <2>3. isLast => Devices = present \ BadCrc BY DEF IInv, Found
  <2> QED BY <2>1, <2>2, <2>3 DEF FindsEachOnce, Devices
<1> QED BY <1>1, SearchInvariant, PTL

-----------------------------------------------------------------------------
(* The decryption of an image.                                              *)

AfterKey == {"iv", "binsize", "auth", "extra", "decode"}
AfterIv == {"binsize", "auth", "extra", "decode"}
AfterSize == {"auth", "extra", "decode"}
AfterAuth == {"extra", "decode"}

ImageTyped ==
  /\ image \in [binary : Lengths, trailing : Trailing, genuine : BOOLEAN]
  /\ supplied \in Nat /\ at \in Nat /\ at <= supplied /\ supplied <= Img!Total
  /\ read \in Nat
  /\ state \in DOMAIN Img!Size \cup {"decode", "none"}
  /\ phase \in {"idle", "running", "failed", "ok"}

\* A call that returned has used every byte; a handle that was freed is not
\* called again.
Calls ==
  /\ phase = "idle" => at = supplied
  /\ state = "none" <=> phase = "ok" \/ (phase = "failed" /\ capacity = 0)
  /\ state # "none" => capacity = IF state \in {"magic", "key"} THEN KeySize ELSE Block
  /\ state = "none" => cache = <<>> /\ capacity = 0

\* The fields before this one are whole, and of this one the bytes read.
Fields ==
  /\ state \in {"magic", "key", "iv", "binsize", "auth", "extra"} =>
       /\ at = Img!Start[state] + read /\ read < Img!Size[state] /\ out = <<>>
       /\ cache = IF state \in {"magic", "key", "binsize"}
                    THEN Img!Bytes(Img!Start[state], read) ELSE <<>>
  /\ state \in AfterKey => key = Img!Bytes(Img!Start.key, KeySize)
  /\ state \in {"magic", "key"} => iv = <<>>
  /\ state = "iv" => iv = Img!Bytes(Img!Start.iv, read)
  /\ state \in AfterIv => iv = Img!Bytes(Img!Start.iv, IvSize)
  /\ state \in {"magic", "key", "iv", "binsize"} => auth = <<>>
  /\ state = "auth" => auth = Img!Bytes(Img!Start.auth, read)
  /\ state \in AfterAuth => auth = Img!Bytes(Img!Start.auth, AuthSize)
  /\ state \in AfterSize => length = image.binary
  /\ state = "none" => Len(iv) <= IvSize /\ Len(auth) <= AuthSize

\* What is decrypted ends where the cache begins, and the cache where the
\* call is: less than a block.
Binary ==
  state = "decode" /\ phase # "failed" =>
    \E c \in 0..(Block - 1) :
      /\ c <= read /\ at = Img!Header + read
      /\ cache = Img!Bytes(at - c, c)
      /\ out = Img!Bytes(Img!Header, read - c)

\* It stays when the handle is freed.
OutKept == state = "none" => out = Img!Bytes(Img!Header, Len(out))

\* A call that failed in the binary has decrypted nothing out of its turn, and
\* what it left in the cache fits.
Broken ==
  state = "decode" /\ phase = "failed" =>
    out = Img!Bytes(Img!Header, Len(out)) /\ Len(cache) <= Block

ImageInv ==
  ImageTyped /\ Calls /\ Fields /\ Binary /\ OutKept /\ Broken /\ Img!OkIsWhole

-----------------------------------------------------------------------------
(* Runs of bytes.                                                          *)

LEMMA BytesLen ==
  ASSUME NEW a, NEW n \in Nat
  PROVE  Len(Img!Bytes(a, n)) = n /\ (Img!Bytes(a, n) = <<>> <=> n = 0)
<1>1. Img!Bytes(a, n) \in Seq({a + i : i \in 1..n}) /\ Len(Img!Bytes(a, n)) = n
  BY DEF Img!Bytes
<1> QED BY <1>1

LEMMA Joined ==
  ASSUME NEW s \in Seq(Int), NEW t \in Seq(Int), NEW r \in Seq(Int),
         NEW a \in Int, Len(r) = Len(s) + Len(t),
         \A i \in 1..Len(s) : s[i] = a + i,
         \A i \in 1..Len(t) : t[i] = a + Len(s) + i,
         \A i \in 1..Len(r) : r[i] = a + i
  PROVE  s \o t = r
<1>1. Len(s) \in Nat /\ Len(t) \in Nat /\ Len(r) \in Nat
  OBVIOUS
<1>2. /\ s \o t \in Seq(Int) /\ Len(s \o t) = Len(s) + Len(t)
      /\ \A i \in 1..(Len(s) + Len(t)) :
           (s \o t)[i] = IF i <= Len(s) THEN s[i] ELSE t[i - Len(s)]
  BY ConcatProperties
<1>3. ASSUME NEW i \in 1..Len(r) PROVE (s \o t)[i] = r[i]
  <2>1. CASE i <= Len(s)
    BY <1>1, <1>2, <2>1
  <2>2. CASE i > Len(s)
    <3>1. i - Len(s) \in 1..Len(t) BY <1>1, <2>2
    <3>2. t[i - Len(s)] = a + Len(s) + (i - Len(s)) BY <3>1
    <3>3. (s \o t)[i] = t[i - Len(s)] BY <1>1, <1>2, <2>2
    <3> QED BY <1>1, <3>2, <3>3
  <2> QED BY <1>1, <2>1, <2>2
<1>4. Len(s \o t) = Len(r) BY <1>2
<1>5. s \o t \in Seq(Int) BY <1>2
<1> QED BY <1>3, <1>4, <1>5, SeqEqual

LEMMA BytesJoin ==
  \A a \in Int, n \in Nat, m \in Nat :
    Img!Bytes(a, n) \o Img!Bytes(a + n, m) = Img!Bytes(a, n + m)
<1> SUFFICES ASSUME NEW a \in Int, NEW n \in Nat, NEW m \in Nat
             PROVE  Img!Bytes(a, n) \o Img!Bytes(a + n, m) = Img!Bytes(a, n + m)
  BY Zenon
<1> DEFINE s == Img!Bytes(a, n)
           t == Img!Bytes(a + n, m)
           r == Img!Bytes(a, n + m)
<1>1. /\ s \in Seq(Int) /\ Len(s) = n /\ t \in Seq(Int) /\ Len(t) = m
      /\ r \in Seq(Int) /\ Len(r) = n + m
  BY DEF Img!Bytes
<1>2. /\ \A i \in 1..n : s[i] = a + i
      /\ \A i \in 1..m : t[i] = a + n + i
      /\ \A i \in 1..(n + m) : r[i] = a + i
  BY DEF Img!Bytes
<1> HIDE DEF s, t, r
<1>3. /\ Len(r) = Len(s) + Len(t)
      /\ \A i \in 1..Len(s) : s[i] = a + i
      /\ \A i \in 1..Len(t) : t[i] = a + Len(s) + i
      /\ \A i \in 1..Len(r) : r[i] = a + i
  BY <1>1, <1>2
<1>4. s \o t = r
  BY <1>1, <1>3, Joined
<1> QED BY <1>4 DEF s, t, r

\* The constants.
LEMMA ImageConstants ==
  ASSUME Img!ConstantsOK
  PROVE  /\ MagicSize \in Nat \ {0} /\ KeySize \in Nat \ {0} /\ IvSize \in Nat \ {0}
         /\ BinSizeData \in Nat \ {0} /\ AuthSize \in Nat \ {0}
         /\ Reserved \in Nat \ {0} /\ Block \in Nat \ {0}
         /\ BinSizeData <= Block /\ Block <= KeySize /\ MagicSize <= KeySize
         /\ Lengths \subseteq Nat /\ Trailing \subseteq Nat /\ Pieces \subseteq Nat
BY DEF Img!ConstantsOK

\* Where the fields are.
LEMMA Places ==
  ASSUME Img!ConstantsOK
  PROVE  /\ DOMAIN Img!Size = {"magic", "key", "iv", "binsize", "auth", "extra"}
         /\ Img!Size.magic = MagicSize /\ Img!Size.key = KeySize /\ Img!Size.iv = IvSize
         /\ Img!Size.binsize = BinSizeData /\ Img!Size.auth = AuthSize /\ Img!Size.extra = Reserved
         /\ \A s \in DOMAIN Img!Size : Img!Size[s] \in Nat \ {0} /\ Img!Start[s] \in Nat
         /\ \A s \in DOMAIN Img!Size : Img!Start[Img!NextState[s]] = Img!Start[s] + Img!Size[s]
         /\ Img!Header \in Nat /\ Img!Start.decode = Img!Header
         /\ Img!NextState.magic = "key" /\ Img!NextState.key = "iv" /\ Img!NextState.iv = "binsize"
         /\ Img!NextState.binsize = "auth" /\ Img!NextState.auth = "extra"
         /\ Img!NextState.extra = "decode" /\ Img!Start.magic = 0
<1>1. DOMAIN Img!Size = {"magic", "key", "iv", "binsize", "auth", "extra"}
  BY DEF Img!Size
<1>2. /\ Img!Size.magic = MagicSize /\ Img!Size.key = KeySize /\ Img!Size.iv = IvSize
      /\ Img!Size.binsize = BinSizeData /\ Img!Size.auth = AuthSize /\ Img!Size.extra = Reserved
      /\ Img!NextState.magic = "key" /\ Img!NextState.key = "iv" /\ Img!NextState.iv = "binsize"
      /\ Img!NextState.binsize = "auth" /\ Img!NextState.auth = "extra"
      /\ Img!NextState.extra = "decode" /\ Img!Start.magic = 0
  BY DEF Img!Size, Img!NextState, Img!Start
<1>3. /\ Img!Start.key = MagicSize /\ Img!Start.iv = MagicSize + KeySize
      /\ Img!Start.binsize = MagicSize + KeySize + IvSize
      /\ Img!Start.auth = MagicSize + KeySize + IvSize + BinSizeData
      /\ Img!Start.extra = MagicSize + KeySize + IvSize + BinSizeData + AuthSize
      /\ Img!Start.decode = MagicSize + KeySize + IvSize + BinSizeData + AuthSize + Reserved
  BY DEF Img!Start
<1>4. Img!Start.decode = Img!Header BY DEF Img!Header
<1> HIDE DEF Img!Header
<1> QED BY <1>1, <1>2, <1>3, <1>4, ImageConstants

-----------------------------------------------------------------------------
(* The steps.                                                              *)

LEMMA ImageInitHolds ==
  ASSUME Img!ConstantsOK, Img!Init
  PROVE  ImageInv
<1>1. /\ MagicSize \in Nat \ {0} /\ KeySize \in Nat \ {0} /\ IvSize \in Nat \ {0}
      /\ AuthSize \in Nat \ {0}
      /\ Lengths \subseteq Nat /\ Trailing \subseteq Nat
  BY ImageConstants
<1>2. /\ DOMAIN Img!Size = {"magic", "key", "iv", "binsize", "auth", "extra"}
      /\ Img!Size.magic = MagicSize /\ Img!Start.magic = 0 /\ Img!Header \in Nat
  BY Places
<1>3. Img!Bytes(0, 0) = <<>> /\ Img!Bytes(Img!Header, 0) = <<>>
  BY <1>2, BytesLen
<1>4. image.binary \in Nat /\ image.trailing \in Nat
  BY <1>1 DEF Img!Init
<1>5. ImageTyped BY <1>2, <1>4 DEF Img!Init, ImageTyped, Img!Total
<1>6. Calls BY DEF Img!Init, Calls
<1>7. Fields BY <1>1, <1>2, <1>3 DEF Img!Init, Fields, AfterKey, AfterIv, AfterSize, AfterAuth
<1>8. Binary BY DEF Img!Init, Binary
<1>9. OutKept /\ Broken /\ Img!OkIsWhole BY DEF Img!Init, OutKept, Broken, Img!OkIsWhole
<1> QED BY <1>5, <1>6, <1>7, <1>8, <1>9 DEF ImageInv

\* What InOrder says follows from what the buffers hold.
LEMMA Ordered ==
  ASSUME Img!ConstantsOK, ImageInv
  PROVE  Img!InOrder
<1> USE DEF ImageInv
<1>1. Img!Header \in Nat BY Places
<1>2. out = Img!Bytes(Img!Header, Len(out))
  <2>1. CASE state \in {"magic", "key", "iv", "binsize", "auth", "extra"}
    <3>1. out = <<>> BY <2>1 DEF Fields
    <3>2. Img!Bytes(Img!Header, 0) = <<>> BY <1>1, BytesLen
    <3> QED BY <3>1, <3>2
  <2>2. CASE state = "decode"
    <3>1. CASE phase = "failed" BY <2>2, <3>1 DEF Broken
    <3>2. CASE phase # "failed"
      <4>1. PICK c \in 0..(Block - 1) : c <= read /\ out = Img!Bytes(Img!Header, read - c)
        BY <2>2, <3>2 DEF Binary
      <4>2. read - c \in Nat BY <4>1, ImageConstants DEF ImageTyped
      <4>3. Len(out) = read - c BY <1>1, <4>1, <4>2, BytesLen
      <4> QED BY <4>1, <4>3
    <3> QED BY <3>1, <3>2
  <2>3. DOMAIN Img!Size = {"magic", "key", "iv", "binsize", "auth", "extra"}
    BY Places
  <2>4. CASE state = "none" BY <2>4 DEF OutKept
  <2> QED BY <2>1, <2>2, <2>3, <2>4 DEF ImageTyped
<1>3. state = "decode" =>
       /\ key = Img!Bytes(Img!Start.key, KeySize) /\ iv = Img!Bytes(Img!Start.iv, IvSize)
       /\ auth = Img!Bytes(Img!Start.auth, AuthSize) /\ length = image.binary
  BY DEF Fields, AfterKey, AfterIv, AfterSize, AfterAuth
<1>4. ASSUME state = "decode", phase = "idle"
      PROVE  /\ Len(out) + Len(cache) = read /\ read = supplied - Img!Header
             /\ Len(cache) < Block
  <2>1. PICK c \in 0..(Block - 1) :
          /\ c <= read /\ at = Img!Header + read
          /\ cache = Img!Bytes(at - c, c) /\ out = Img!Bytes(Img!Header, read - c)
    BY <1>4 DEF Binary
  <2>2. at = supplied BY <1>4 DEF Calls
  <2>3. c \in Nat /\ read - c \in Nat /\ at - c \in Int /\ read \in Nat
    BY <2>1, ImageConstants DEF ImageTyped
  <2>4. Len(out) = read - c /\ Len(cache) = c
    BY <1>1, <2>1, <2>3, BytesLen
  <2> QED BY <1>1, <2>1, <2>2, <2>3, <2>4, ImageConstants
<1> QED BY <1>2, <1>3, <1>4 DEF Img!InOrder

LEMMA StepDecryptData ==
  ASSUME Img!ConstantsOK, ImageInv, NEW n \in Pieces, Img!DecryptData(n)
  PROVE  ImageInv'
<1>1. ImageTyped /\ Calls /\ Fields /\ Binary /\ OutKept /\ Img!OkIsWhole BY DEF ImageInv
<1>2. /\ phase = "idle" /\ phase' = "running" /\ supplied' = supplied + n
      /\ supplied + n <= Img!Total
      /\ UNCHANGED <<image, at, state, read, key, iv, auth, length, cache, capacity, out>>
  BY DEF Img!DecryptData, Img!fields
<1>3. n \in Nat BY ImageConstants
<1>4. Img!Total' = Img!Total BY <1>2 DEF Img!Total
<1>5. ImageTyped' BY <1>1, <1>2, <1>3, <1>4 DEF ImageTyped
<1>6. Calls' BY <1>1, <1>2 DEF Calls
<1>7. Fields' BY <1>1, <1>2 DEF Fields
<1>8. Binary' BY <1>1, <1>2 DEF Binary
<1>9. OutKept' /\ Broken' BY <1>1, <1>2 DEF OutKept, Broken
<1>10. Img!OkIsWhole' BY <1>2 DEF Img!OkIsWhole
<1> QED BY <1>5, <1>6, <1>7, <1>8, <1>9, <1>10 DEF ImageInv

\* How much of the field there is.
LEMMA Takes ==
  ASSUME Img!ConstantsOK, ImageInv, Img!InHeader
  PROVE  /\ state \in {"magic", "key", "iv", "binsize", "auth", "extra"}
         /\ Img!Taken \in Nat /\ at + Img!Taken <= supplied
         /\ Img!Size[state] \in Nat /\ Img!Start[state] \in Nat
         /\ read \in Nat /\ read < Img!Size[state] /\ at = Img!Start[state] + read
         /\ Img!Whole => Img!Start[state] + read + Img!Taken = Img!Start[Img!NextState[state]]
         /\ ~Img!Whole => read + Img!Taken < Img!Size[state] /\ at + Img!Taken = supplied
<1>1. state \in {"magic", "key", "iv", "binsize", "auth", "extra"}
  BY Places DEF Img!InHeader
<1>2. /\ Img!Size[state] \in Nat /\ Img!Start[state] \in Nat
      /\ Img!Start[Img!NextState[state]] = Img!Start[state] + Img!Size[state]
  BY <1>1, Places
<1>3. /\ at \in Nat /\ supplied \in Nat /\ at <= supplied /\ read \in Nat
      /\ read < Img!Size[state] /\ at = Img!Start[state] + read
  BY <1>1 DEF ImageInv, ImageTyped, Fields
<1>4. Img!Taken = IF supplied - at < Img!Size[state] - read THEN supplied - at
              ELSE Img!Size[state] - read
  BY DEF Img!Taken, Img!Left, Img!Smaller
<1>5. Img!Whole <=> read + Img!Taken = Img!Size[state] BY DEF Img!Whole
<1> QED BY <1>1, <1>2, <1>3, <1>4, <1>5

LEMMA StepReadPart ==
  ASSUME Img!ConstantsOK, ImageInv, Img!ReadPart
  PROVE  ImageInv'
<1>1. ImageTyped /\ Calls /\ Fields /\ Img!OkIsWhole BY DEF ImageInv
<1>2. Img!InHeader /\ ~Img!Whole BY DEF Img!ReadPart
<1>3. /\ state \in {"magic", "key", "iv", "binsize", "auth", "extra"}
      /\ Img!Taken \in Nat /\ Img!Size[state] \in Nat /\ Img!Start[state] \in Nat
      /\ read \in Nat /\ at = Img!Start[state] + read
      /\ read + Img!Taken < Img!Size[state] /\ at + Img!Taken = supplied
  BY <1>2, Takes
<1>4. /\ at' = supplied /\ read' = read + Img!Taken /\ phase' = "idle"
      /\ cache' = IF state \in {"magic", "key", "binsize"}
                    THEN cache \o Img!Bytes(at, Img!Taken) ELSE cache
      /\ iv' = IF state = "iv" THEN iv \o Img!Bytes(at, Img!Taken) ELSE iv
      /\ auth' = IF state = "auth" THEN auth \o Img!Bytes(at, Img!Taken) ELSE auth
      /\ UNCHANGED <<image, supplied, state, key, length, capacity, out>>
  BY DEF Img!ReadPart
<1>5. Img!Bytes(Img!Start[state], read) \o Img!Bytes(at, Img!Taken) = Img!Bytes(Img!Start[state], read')
  <2>1. /\ Img!Start[state] \in Int /\ read \in Nat /\ Img!Taken \in Nat
        /\ at = Img!Start[state] + read /\ read' = read + Img!Taken
    BY <1>3, <1>4
  <2> QED BY <2>1, BytesJoin, Zenon
<1>6. ImageTyped'
  <2>1. Img!Total' = Img!Total BY <1>4 DEF Img!Total
  <2> QED BY <1>1, <1>3, <1>4, <2>1 DEF ImageTyped
<1>7. Calls' BY <1>1, <1>3, <1>4 DEF Calls
<1>8. Fields'
  <2>1. at' = Img!Start[state'] + read' /\ read' < Img!Size[state'] /\ out' = <<>>
    BY <1>1, <1>3, <1>4 DEF Fields
  <2>2. cache' = IF state' \in {"magic", "key", "binsize"}
                   THEN Img!Bytes(Img!Start[state'], read') ELSE <<>>
    BY <1>1, <1>3, <1>4, <1>5 DEF Fields
  <2>3. state' = "iv" => iv' = Img!Bytes(Img!Start.iv, read')
    BY <1>1, <1>4, <1>5 DEF Fields
  <2>4. state' = "auth" => auth' = Img!Bytes(Img!Start.auth, read')
    BY <1>1, <1>4, <1>5 DEF Fields
  <2>5. /\ state' \in AfterKey => key' = Img!Bytes(Img!Start.key, KeySize)
        /\ state' \in {"magic", "key"} => iv' = <<>>
        /\ state' \in AfterIv => iv' = Img!Bytes(Img!Start.iv, IvSize)
    BY <1>1, <1>4 DEF Fields, AfterIv
  <2>6. /\ state' \in {"magic", "key", "iv", "binsize"} => auth' = <<>>
        /\ state' \in AfterAuth => auth' = Img!Bytes(Img!Start.auth, AuthSize)
        /\ state' \in AfterSize => length' = image'.binary
    BY <1>1, <1>4 DEF Fields, AfterAuth
  <2> QED BY <1>3, <1>4, <2>1, <2>2, <2>3, <2>4, <2>5, <2>6 DEF Fields
<1>9. Binary' /\ OutKept' /\ Broken' BY <1>3, <1>4 DEF Binary, OutKept, Broken
<1>10. Img!OkIsWhole' BY <1>4 DEF Img!OkIsWhole
<1> QED BY <1>6, <1>7, <1>8, <1>9, <1>10 DEF ImageInv

LEMMA StepReadField ==
  ASSUME Img!ConstantsOK, ImageInv, Img!ReadField
  PROVE  ImageInv'
<1>1. ImageTyped /\ Calls /\ Fields /\ Img!OkIsWhole BY DEF ImageInv
<1>2. Img!InHeader /\ Img!Whole BY DEF Img!ReadField
<1>3. /\ state \in {"magic", "key", "iv", "binsize", "auth", "extra"}
      /\ Img!Taken \in Nat /\ at + Img!Taken <= supplied
      /\ Img!Size[state] \in Nat /\ Img!Start[state] \in Nat
      /\ read \in Nat /\ at = Img!Start[state] + read
      /\ at + Img!Taken = Img!Start[Img!NextState[state]] /\ read + Img!Taken = Img!Size[state]
  BY <1>2, Takes DEF Img!Whole
<1>4. /\ at' = at + Img!Taken /\ state' = Img!NextState[state]
      /\ read' = 0 /\ cache' = <<>>
      /\ key' = IF state = "key" THEN cache \o Img!Bytes(at, Img!Taken) ELSE key
      /\ capacity' = IF state = "key" THEN Block ELSE capacity
      /\ iv' = IF state = "iv" THEN iv \o Img!Bytes(at, Img!Taken) ELSE iv
      /\ length' = IF state = "binsize" THEN image.binary ELSE length
      /\ auth' = IF state = "auth" THEN auth \o Img!Bytes(at, Img!Taken) ELSE auth
      /\ UNCHANGED <<image, supplied, out, phase>>
  BY DEF Img!ReadField
<1>5. Img!Bytes(Img!Start[state], read) \o Img!Bytes(at, Img!Taken) = Img!Bytes(Img!Start[state], Img!Size[state])
  <2>1. /\ Img!Start[state] \in Int /\ read \in Nat /\ Img!Taken \in Nat
        /\ at = Img!Start[state] + read /\ Img!Size[state] = read + Img!Taken
    BY <1>3
  <2> QED BY <2>1, BytesJoin, Zenon
<1>6. /\ state = "magic" => state' = "key"
      /\ state = "key" => state' = "iv"
      /\ state = "iv" => state' = "binsize"
      /\ state = "binsize" => state' = "auth"
      /\ state = "auth" => state' = "extra"
      /\ state = "extra" => state' = "decode"
  BY <1>4, Places
<1>s. /\ DOMAIN Img!Size = {"magic", "key", "iv", "binsize", "auth", "extra"}
      /\ Img!Size.key = KeySize /\ Img!Size.iv = IvSize /\ Img!Size.auth = AuthSize
      /\ \A s \in DOMAIN Img!Size : Img!Size[s] \in Nat \ {0} /\ Img!Start[s] \in Nat
      /\ Img!Header \in Nat /\ Img!Start.decode = Img!Header
  BY Places
<1>7. ImageTyped'
  <2>1. Img!Total' = Img!Total BY <1>4 DEF Img!Total
  <2>2. state' \in DOMAIN Img!Size \cup {"decode", "none"} BY <1>3, <1>6, <1>s
  <2>3. at' \in Nat /\ at' <= supplied' /\ read' \in Nat
    BY <1>1, <1>3, <1>4 DEF ImageTyped
  <2> QED BY <1>1, <1>4, <2>1, <2>2, <2>3 DEF ImageTyped
<1>8. Calls'
  <2>1. phase = "running" BY <1>2 DEF Img!InHeader
  <2>2. capacity = IF state \in {"magic", "key"} THEN KeySize ELSE Block
    BY <1>1, <1>3 DEF Calls
  <2>3. capacity' = IF state' \in {"magic", "key"} THEN KeySize ELSE Block
    BY <1>3, <1>4, <1>6, <2>2
  <2> QED BY <1>3, <1>4, <1>6, <2>1, <2>3 DEF Calls
<1>9. out' = <<>>
  BY <1>1, <1>3, <1>4 DEF Fields
<1>e. \A s \in DOMAIN Img!Size : Img!Bytes(Img!Start[s], 0) = <<>>
  BY <1>s, BytesLen
<1>10. Fields'
  <2>1. state' \in {"magic", "key", "iv", "binsize", "auth", "extra"} =>
          /\ at' = Img!Start[state'] + read' /\ read' < Img!Size[state'] /\ out' = <<>>
          /\ cache' = IF state' \in {"magic", "key", "binsize"}
                        THEN Img!Bytes(Img!Start[state'], read') ELSE <<>>
    <3> SUFFICES ASSUME state' \in DOMAIN Img!Size
                 PROVE  /\ at' = Img!Start[state'] + read' /\ read' < Img!Size[state']
                        /\ out' = <<>>
                        /\ cache' = IF state' \in {"magic", "key", "binsize"}
                                      THEN Img!Bytes(Img!Start[state'], read') ELSE <<>>
      BY <1>s
    <3>1. read' = 0 /\ at' = Img!Start[state'] /\ cache' = <<>> BY <1>3, <1>4
    <3>2. Img!Start[state'] \in Nat /\ Img!Size[state'] \in Nat \ {0} BY <1>s
    <3>3. Img!Bytes(Img!Start[state'], read') = <<>> BY <1>e, <3>1
    <3> QED BY <1>9, <3>1, <3>2, <3>3
  <2>2. state' \in AfterKey => key' = Img!Bytes(Img!Start.key, KeySize)
    <3>1. state = "key" => key' = Img!Bytes(Img!Start.key, KeySize)
      BY <1>1, <1>4, <1>5, <1>s DEF Fields
    <3>2. state \in AfterKey => key' = Img!Bytes(Img!Start.key, KeySize)
      BY <1>1, <1>4 DEF Fields, AfterKey
    <3> QED BY <1>3, <1>6, <3>1, <3>2 DEF AfterKey
  <2>3. /\ state' \in {"magic", "key"} => iv' = <<>>
        /\ state' = "iv" => iv' = Img!Bytes(Img!Start.iv, read')
    <3>1. state \in {"magic", "key"} => iv' = <<>>
      BY <1>1, <1>4 DEF Fields
    <3>2. Img!Bytes(Img!Start.iv, read') = <<>> BY <1>4, <1>s, <1>e
    <3> QED BY <1>3, <1>6, <3>1, <3>2
  <2>4. state' \in AfterIv => iv' = Img!Bytes(Img!Start.iv, IvSize)
    <3>1. state = "iv" => iv' = Img!Bytes(Img!Start.iv, IvSize)
      BY <1>1, <1>4, <1>5, <1>s DEF Fields
    <3>2. state \in AfterIv => iv' = Img!Bytes(Img!Start.iv, IvSize)
      BY <1>1, <1>4 DEF Fields, AfterIv
    <3> QED BY <1>3, <1>6, <3>1, <3>2 DEF AfterIv
  <2>5. /\ state' \in {"magic", "key", "iv", "binsize"} => auth' = <<>>
        /\ state' = "auth" => auth' = Img!Bytes(Img!Start.auth, read')
    <3>1. state \in {"magic", "key", "iv", "binsize"} => auth' = <<>>
      BY <1>1, <1>4 DEF Fields
    <3>2. Img!Bytes(Img!Start.auth, read') = <<>> BY <1>4, <1>s, <1>e
    <3> QED BY <1>3, <1>6, <3>1, <3>2
  <2>6. state' \in AfterAuth => auth' = Img!Bytes(Img!Start.auth, AuthSize)
    <3>1. state = "auth" => auth' = Img!Bytes(Img!Start.auth, AuthSize)
      BY <1>1, <1>4, <1>5, <1>s DEF Fields
    <3>2. state \in AfterAuth => auth' = Img!Bytes(Img!Start.auth, AuthSize)
      BY <1>1, <1>4 DEF Fields, AfterAuth
    <3> QED BY <1>3, <1>6, <3>1, <3>2 DEF AfterAuth
  <2>7. state' \in AfterSize => length' = image'.binary
    BY <1>1, <1>3, <1>4, <1>6 DEF Fields, AfterSize
  <2>8. state' # "none" BY <1>3, <1>6
  <2> QED BY <2>1, <2>2, <2>3, <2>4, <2>5, <2>6, <2>7, <2>8 DEF Fields
<1>11. Binary'
  <2>1. SUFFICES ASSUME state' = "decode"
                 PROVE  /\ 0 \in 0..(Block - 1) /\ 0 <= read' /\ at' = Img!Header + read'
                        /\ cache' = Img!Bytes(at' - 0, 0) /\ out' = Img!Bytes(Img!Header, read' - 0)
    BY Zenon DEF Binary
  <2>2. state = "extra" BY <1>3, <1>6, <2>1
  <2>3. at' = Img!Header BY <1>3, <1>4, <2>1, <1>s
  <2>4. Img!Bytes(Img!Header, 0) = <<>> BY <1>s, BytesLen
  <2>5. 0 \in 0..(Block - 1) BY ImageConstants
  <2> QED BY <1>4, <1>9, <1>s, <2>3, <2>4, <2>5
<1>12. OutKept' /\ Broken' BY <1>2, <1>3, <1>4, <1>6 DEF OutKept, Broken, Img!InHeader
<1>13. Img!OkIsWhole'
  BY <1>2, <1>4 DEF Img!OkIsWhole, Img!InHeader
<1> QED BY <1>7, <1>8, <1>10, <1>11, <1>12, <1>13 DEF ImageInv

LEMMA StepFieldFails ==
  ASSUME Img!ConstantsOK, ImageInv, Img!FieldFails
  PROVE  ImageInv'
<1>1. ImageTyped /\ Calls /\ Fields /\ Binary /\ OutKept /\ Img!OkIsWhole BY DEF ImageInv
<1>2. /\ phase' = "failed" /\ phase = "running" /\ state \in {"magic", "key", "iv"}
      /\ UNCHANGED <<image, supplied, at, state, read, key, iv, auth, length, cache, capacity, out>>
  BY DEF Img!FieldFails, Img!InHeader, Img!fields
<1>3. KeySize # 0 /\ Block # 0 BY ImageConstants
<1>4. Img!Total' = Img!Total BY <1>2 DEF Img!Total
<1>5. ImageTyped' BY <1>1, <1>2, <1>4 DEF ImageTyped
<1>6. Calls' BY <1>1, <1>2, <1>3 DEF Calls
<1>7. Fields' BY <1>1, <1>2 DEF Fields
<1>8. Binary' BY <1>1, <1>2 DEF Binary
<1>9. OutKept' /\ Broken' BY <1>1, <1>2 DEF OutKept, Broken
<1>10. Img!OkIsWhole' BY <1>2 DEF Img!OkIsWhole
<1> QED BY <1>5, <1>6, <1>7, <1>8, <1>9, <1>10 DEF ImageInv

\* The two steps of process_bin() use all there is, and leave the fields.
LEMMA StepDecoding ==
  ASSUME Img!ConstantsOK, ImageInv, Img!Decoding,
         at' = supplied, phase' = "idle", read' = read + (supplied - at),
         UNCHANGED <<image, supplied, state, Img!fields, capacity>>,
         Binary'
  PROVE  ImageInv'
<1>1. ImageTyped /\ Calls /\ Fields BY DEF ImageInv
<1>2. state = "decode" BY DEF Img!Decoding
<1>3. ImageTyped'
  <2>1. Img!Total' = Img!Total BY DEF Img!Total
  <2>2. read' \in Nat BY <1>1 DEF ImageTyped
  <2> QED BY <1>1, <2>1, <2>2 DEF ImageTyped
<1>4. Calls' BY <1>1, <1>2 DEF Calls
<1>5. Fields' BY <1>1, <1>2 DEF Fields, Img!fields, AfterKey, AfterIv, AfterSize, AfterAuth
<1>6. OutKept' /\ Broken' /\ Img!OkIsWhole' BY <1>2 DEF OutKept, Broken, Img!OkIsWhole
<1> QED BY <1>3, <1>4, <1>5, <1>6 DEF ImageInv

LEMMA StepProcessBin ==
  ASSUME Img!ConstantsOK, ImageInv, Img!ProcessBin
  PROVE  ImageInv'
<1> DEFINE left == supplied - at
           fill == IF cache = <<>> THEN 0 ELSE Img!Smaller(Block - Len(cache), left)
           first == cache \o Img!Bytes(at, fill)
           rest == (left - fill) % Block
<1>1. Img!Decoding /\ state = "decode" /\ phase # "failed" BY DEF Img!ProcessBin, Img!Decoding
<1>2. /\ read' = read + left /\ at' = supplied /\ phase' = "idle"
      /\ UNCHANGED <<image, supplied, state, Img!fields, capacity>>
      /\ IF cache # <<>> /\ Len(first) # Block
           THEN cache' = first /\ UNCHANGED out
           ELSE /\ out' = out \o first \o Img!Bytes(at + fill, left - fill - rest)
                /\ cache' = Img!Bytes(supplied - rest, rest)
  BY DEF Img!ProcessBin, Img!Left
<1>3. PICK c \in 0..(Block - 1) :
        /\ c <= read /\ at = Img!Header + read
        /\ cache = Img!Bytes(at - c, c) /\ out = Img!Bytes(Img!Header, read - c)
  BY <1>1 DEF ImageInv, Binary
<1>4. /\ at \in Nat /\ read \in Nat /\ left \in Nat /\ Img!Header \in Nat
      /\ supplied \in Nat /\ Block \in Nat \ {0} /\ c \in Nat
  BY <1>3, ImageConstants, Places DEF ImageInv, ImageTyped
<1>5. Len(cache) = c /\ (cache = <<>> <=> c = 0)
  BY <1>3, <1>4, BytesLen
<1>6. /\ fill \in Nat /\ fill <= left /\ fill <= Block - c
      /\ c # 0 => fill = Block - c \/ fill = left
      /\ c = 0 => fill = 0
  BY <1>3, <1>4, <1>5 DEF Img!Smaller
<1>7. left - fill \in Nat BY <1>4, <1>6
<1>8. rest \in 0..(Block - 1) /\ rest <= left - fill
  BY <1>4, <1>7
<1> HIDE DEF fill, rest, left
<1>9. first = Img!Bytes(at - c, c + fill) /\ Len(first) = c + fill
  <2>1. at = (at - c) + c /\ at - c \in Int BY <1>4
  <2>2. Img!Bytes(at - c, c) \o Img!Bytes((at - c) + c, fill) = Img!Bytes(at - c, c + fill)
    BY <1>4, <1>6, <2>1, BytesJoin, Zenon
  <2>3. first = Img!Bytes(at - c, c + fill) BY <1>3, <2>1, <2>2, Zenon
  <2>4. c + fill \in Nat BY <1>4, <1>6
  <2> QED BY <2>3, <2>4, BytesLen, Zenon
<1>10. left = supplied - at BY DEF left
<1> HIDE DEF first
<1>11. Binary'
  <2>1. CASE cache # <<>> /\ Len(first) # Block
    <3>1. c # 0 /\ fill = left /\ c + left < Block
      BY <1>4, <1>5, <1>6, <1>9, <2>1
    <3>2. cache' = Img!Bytes(at - c, c + left) /\ out' = out
      BY <1>2, <1>9, <2>1, <3>1
    <3> DEFINE d == c + left
    <3>3. /\ d \in 0..(Block - 1) /\ d <= read' /\ at' = Img!Header + read'
          /\ at' - d = at - c /\ read' - d = read - c
      BY <1>2, <1>3, <1>4, <1>10, <3>1
    <3> QED BY <1>3, <3>2, <3>3 DEF Binary
  <2>2. CASE ~(cache # <<>> /\ Len(first) # Block)
    <3>1. /\ out' = out \o first \o Img!Bytes(at + fill, left - fill - rest)
          /\ cache' = Img!Bytes(supplied - rest, rest)
      BY <1>2, <2>2
    <3>2. out \o first = Img!Bytes(Img!Header, read + fill)
      <4>1. /\ at - c = Img!Header + (read - c) /\ read - c \in Nat /\ c + fill \in Nat
            /\ read + fill = (read - c) + (c + fill) /\ Img!Header \in Int
        BY <1>3, <1>4, <1>6
      <4> QED BY <1>3, <1>9, <4>1, BytesJoin, Zenon
    <3>3. out' = Img!Bytes(Img!Header, (read + fill) + (left - fill - rest))
      <4>1. /\ at + fill = Img!Header + (read + fill) /\ read + fill \in Nat
            /\ left - fill - rest \in Nat /\ Img!Header \in Int
        BY <1>3, <1>4, <1>6, <1>8
      <4> QED BY <3>1, <3>2, <4>1, BytesJoin, Zenon
    <3>4. /\ rest \in 0..(Block - 1) /\ rest <= read' /\ at' = Img!Header + read'
          /\ read' - rest = (read + fill) + (left - fill - rest)
      BY <1>2, <1>3, <1>4, <1>6, <1>8, <1>10
    <3>5. cache' = Img!Bytes(at' - rest, rest) BY <1>2, <3>1
    <3> QED BY <3>3, <3>4, <3>5 DEF Binary
  <2> QED BY <2>1, <2>2
<1> QED BY <1>1, <1>2, <1>10, <1>11, StepDecoding

LEMMA StepProcessBinEnd ==
  ASSUME Img!ConstantsOK, ImageInv, Img!ProcessBinEnd
  PROVE  ImageInv'
<1> DEFINE left == supplied - at
<1>1. Img!Decoding /\ state = "decode" /\ phase # "failed" BY DEF Img!ProcessBinEnd, Img!Decoding
<1>2. /\ read' = length /\ length = read + left /\ at' = supplied /\ phase' = "idle"
      /\ UNCHANGED <<image, supplied, state, Img!fields, capacity>>
      /\ out' = out \o cache \o Img!Bytes(at, left) /\ cache' = <<>>
  BY DEF Img!ProcessBinEnd, Img!Left
<1>3. PICK c \in 0..(Block - 1) :
        /\ c <= read /\ at = Img!Header + read
        /\ cache = Img!Bytes(at - c, c) /\ out = Img!Bytes(Img!Header, read - c)
  BY <1>1 DEF ImageInv, Binary
<1>4. /\ at \in Nat /\ read \in Nat /\ left \in Nat /\ Img!Header \in Nat
      /\ supplied \in Nat /\ Block \in Nat \ {0} /\ c \in Nat
  BY <1>3, ImageConstants, Places DEF ImageInv, ImageTyped
<1>5. out \o cache = Img!Bytes(Img!Header, read)
  <2>1. /\ at - c = Img!Header + (read - c) /\ read - c \in Nat
        /\ read = (read - c) + c /\ Img!Header \in Int
    BY <1>3, <1>4
  <2>2. Img!Bytes(Img!Header, read - c) \o Img!Bytes(Img!Header + (read - c), c)
        = Img!Bytes(Img!Header, (read - c) + c)
    BY <1>4, <2>1, BytesJoin, Zenon
  <2> QED BY <1>3, <2>1, <2>2, Zenon
<1>6. out' = Img!Bytes(Img!Header, read + left)
  <2>1. Img!Header \in Int BY <1>4
  <2>2. Img!Bytes(Img!Header, read) \o Img!Bytes(Img!Header + read, left) = Img!Bytes(Img!Header, read + left)
    BY <1>4, <2>1, BytesJoin, Zenon
  <2> QED BY <1>2, <1>3, <1>5, <2>2, Zenon
<1>7. Binary'
  <2>1. /\ 0 \in 0..(Block - 1) /\ 0 <= read' /\ at' = Img!Header + read'
        /\ read' - 0 = read + left /\ at' - 0 \in Int
    BY <1>2, <1>3, <1>4
  <2>2. cache' = Img!Bytes(at' - 0, 0) BY <1>2, <2>1, BytesLen
  <2> QED BY <1>6, <2>1, <2>2 DEF Binary
<1> QED BY <1>1, <1>2, <1>7, StepDecoding

\* A call of process_bin() that fails leaves what was decrypted before it, and
\* no more than a block in the cache.
LEMMA StepProcessBinFails ==
  ASSUME Img!ConstantsOK, ImageInv, Img!ProcessBinFails
  PROVE  ImageInv'
<1> DEFINE left == supplied - at
           fill == Img!Smaller(Block - Len(cache), left)
           behind == IF cache = <<>> THEN left ELSE left - fill
<1>1. Img!Decoding /\ state = "decode" /\ phase # "failed"
  BY DEF Img!ProcessBinFails, Img!Decoding
<1>2. /\ read' = read + left /\ at' = supplied /\ phase' = "failed"
      /\ UNCHANGED <<image, supplied, state, key, iv, auth, length, capacity, out>>
      /\ \/ cache' = cache
         \/ cache' = cache \o Img!Bytes(at, fill)
         \/ cache' = Img!Bytes(supplied - (behind % Block), behind % Block) /\ behind >= Block
  BY DEF Img!ProcessBinFails, Img!Left, Img!fields
<1>3. PICK c \in 0..(Block - 1) :
        /\ c <= read /\ at = Img!Header + read
        /\ cache = Img!Bytes(at - c, c) /\ out = Img!Bytes(Img!Header, read - c)
  BY <1>1 DEF ImageInv, Binary
<1>4. /\ at \in Nat /\ read \in Nat /\ left \in Nat /\ Img!Header \in Nat
      /\ supplied \in Nat /\ Block \in Nat \ {0} /\ c \in Nat
  BY <1>3, ImageConstants, Places DEF ImageInv, ImageTyped
<1>5. Len(cache) = c BY <1>3, <1>4, BytesLen
<1>6. fill \in Nat /\ c + fill <= Block
  BY <1>3, <1>4, <1>5 DEF Img!Smaller
<1>7. behind \in Int /\ behind <= left BY <1>4, <1>6
<1>8. Len(cache') <= Block
  <2>1. CASE cache' = cache BY <1>3, <1>4, <1>5, <2>1
  <2>2. CASE cache' = cache \o Img!Bytes(at, fill)
    <3>1. at = (at - c) + c /\ at - c \in Int /\ c + fill \in Nat BY <1>4, <1>6
    <3>2. Img!Bytes(at - c, c) \o Img!Bytes((at - c) + c, fill) = Img!Bytes(at - c, c + fill)
      BY <1>4, <1>6, <3>1, BytesJoin, Zenon
    <3>3. cache' = Img!Bytes(at - c, c + fill) BY <1>3, <2>2, <3>1, <3>2, Zenon
    <3>4. Len(cache') = c + fill BY <3>1, <3>3, BytesLen, Zenon
    <3> QED BY <1>6, <3>4
  <2>3. CASE cache' = Img!Bytes(supplied - (behind % Block), behind % Block) /\ behind >= Block
    <3> DEFINE rest == behind % Block
    <3>1. rest \in 0..(Block - 1) BY <1>4, <1>7, <2>3
    <3> HIDE DEF rest
    <3>2. rest \in Nat /\ supplied - rest \in Int /\ rest <= Block BY <1>4, <3>1
    <3>3. cache' = Img!Bytes(supplied - rest, rest) BY <2>3 DEF rest
    <3>4. Len(cache') = rest BY <3>2, <3>3, BytesLen
    <3> QED BY <3>2, <3>4
  <2> HIDE DEF fill, behind
  <2> QED BY <1>2, <2>1, <2>2, <2>3
<1> HIDE DEF fill, behind
<1>9. Broken'
  <2>1. read - c \in Nat BY <1>3, <1>4
  <2>2. Len(out) = read - c BY <1>3, <1>4, <2>1, BytesLen
  <2>3. out' = Img!Bytes(Img!Header, Len(out')) BY <1>2, <1>3, <2>2
  <2> QED BY <1>8, <2>3 DEF Broken
<1>10. ImageTyped'
  <2>1. Img!Total' = Img!Total BY <1>2 DEF Img!Total
  <2>2. read' \in Nat BY <1>2, <1>4
  <2> QED BY <1>2, <2>1, <2>2 DEF ImageInv, ImageTyped
<1>11. Calls' BY <1>1, <1>2, <1>4, ImageConstants DEF ImageInv, Calls
<1>12. Fields'
  BY <1>1, <1>2 DEF ImageInv, Fields, AfterKey, AfterIv, AfterSize, AfterAuth
<1>13. Binary' /\ OutKept' /\ Img!OkIsWhole'
  BY <1>1, <1>2 DEF Binary, OutKept, Img!OkIsWhole
<1> QED BY <1>9, <1>10, <1>11, <1>12, <1>13 DEF ImageInv

\* What the cache, the IV and the tag hold fits.
LEMMA Fits ==
  ASSUME Img!ConstantsOK, ImageInv
  PROVE  Img!TypeOK
<1>1. ImageTyped /\ Calls /\ Fields /\ Binary /\ Broken BY DEF ImageInv
<1>2. /\ DOMAIN Img!Size = {"magic", "key", "iv", "binsize", "auth", "extra"}
      /\ Img!Size.magic = MagicSize /\ Img!Size.key = KeySize /\ Img!Size.iv = IvSize
      /\ Img!Size.binsize = BinSizeData /\ Img!Size.auth = AuthSize
      /\ \A s \in DOMAIN Img!Size : Img!Size[s] \in Nat \ {0} /\ Img!Start[s] \in Nat
      /\ Img!Header \in Nat
  BY Places
<1>3. /\ KeySize \in Nat /\ Block \in Nat /\ IvSize \in Nat /\ AuthSize \in Nat
      /\ MagicSize <= KeySize /\ BinSizeData <= Block
      /\ MagicSize \in Nat /\ BinSizeData \in Nat
  BY ImageConstants
<1>4. read \in Nat /\ at \in Nat BY <1>1 DEF ImageTyped
<1>5. Len(<<>>) = 0 OBVIOUS
<1>6. Len(cache) <= capacity
  <2>1. CASE state = "none" BY <1>1, <1>5, <2>1 DEF Calls
  <2>2. CASE state \in {"magic", "key", "binsize"}
    <3>1. cache = Img!Bytes(Img!Start[state], read) /\ read < Img!Size[state]
      BY <1>1, <2>2 DEF Fields
    <3>2. Len(cache) = read BY <1>2, <1>4, <2>2, <3>1, BytesLen
    <3>3. capacity = IF state \in {"magic", "key"} THEN KeySize ELSE Block
      BY <1>1, <2>2 DEF Calls
    <3> QED BY <1>2, <1>3, <1>4, <2>2, <3>1, <3>2, <3>3
  <2>3. CASE state \in {"iv", "auth", "extra"}
    <3>1. cache = <<>> BY <1>1, <2>3 DEF Fields
    <3>2. capacity = Block BY <1>1, <2>3 DEF Calls
    <3> QED BY <1>3, <1>5, <3>1, <3>2
  <2>4. CASE state = "decode"
    <3>1. CASE phase = "failed" BY <1>1, <2>4, <3>1 DEF Broken, Calls
    <3>2. CASE phase # "failed"
      <4>1. PICK c \in 0..(Block - 1) : cache = Img!Bytes(at - c, c)
        BY <1>1, <2>4, <3>2 DEF Binary
      <4>2. c \in Nat /\ at - c \in Int /\ c <= Block BY <1>3, <1>4, <4>1
      <4>3. Len(cache) = c BY <4>1, <4>2, BytesLen
      <4>4. capacity = Block BY <1>1, <2>4 DEF Calls
      <4> QED BY <4>2, <4>3, <4>4
    <3> QED BY <3>1, <3>2
  <2> QED BY <1>1, <1>2, <2>1, <2>2, <2>3, <2>4 DEF ImageTyped
<1>7. Len(iv) <= IvSize
  <2>1. CASE state = "none" BY <1>1, <2>1 DEF Fields
  <2>2. CASE state \in {"magic", "key"} BY <1>1, <1>3, <1>5, <2>2 DEF Fields
  <2>3. CASE state = "iv"
    <3>1. iv = Img!Bytes(Img!Start.iv, read) /\ read < Img!Size.iv BY <1>1, <2>3 DEF Fields
    <3> QED BY <1>2, <1>3, <1>4, <3>1, BytesLen
  <2>4. CASE state \in AfterIv
    <3>1. iv = Img!Bytes(Img!Start.iv, IvSize) BY <1>1, <2>4 DEF Fields
    <3> QED BY <1>2, <1>3, <3>1, BytesLen
  <2> QED BY <1>1, <1>2, <2>1, <2>2, <2>3, <2>4 DEF ImageTyped, AfterIv
<1>8. Len(auth) <= AuthSize
  <2>1. CASE state = "none" BY <1>1, <2>1 DEF Fields
  <2>2. CASE state \in {"magic", "key", "iv", "binsize"}
    BY <1>1, <1>3, <1>5, <2>2 DEF Fields
  <2>3. CASE state = "auth"
    <3>1. auth = Img!Bytes(Img!Start.auth, read) /\ read < Img!Size.auth
      BY <1>1, <2>3 DEF Fields
    <3> QED BY <1>2, <1>3, <1>4, <3>1, BytesLen
  <2>4. CASE state \in AfterAuth
    <3>1. auth = Img!Bytes(Img!Start.auth, AuthSize) BY <1>1, <2>4 DEF Fields
    <3> QED BY <1>2, <1>3, <3>1, BytesLen
  <2> QED BY <1>1, <1>2, <2>1, <2>2, <2>3, <2>4 DEF ImageTyped, AfterAuth
<1> QED BY <1>1, <1>6, <1>7, <1>8 DEF Img!TypeOK, ImageTyped

\* What esp_encrypted_img_decrypt_end() and _abort() share.
LEMMA StepFree ==
  ASSUME Img!ConstantsOK, ImageInv, Img!Free, state # "none", phase' \in {"ok", "failed"},
         UNCHANGED <<image, supplied, at, read, Img!fields, out>>, Img!OkIsWhole'
  PROVE  ImageInv'
<1>1. ImageTyped /\ Calls /\ Fields BY DEF ImageInv
<1>2. /\ state' = "none" /\ cache' = <<>> /\ capacity' = 0
      /\ UNCHANGED <<image, supplied, at, read, key, iv, auth, length, out>>
  BY DEF Img!Free, Img!fields
<1>3. ImageTyped'
  <2>1. Img!Total' = Img!Total BY <1>2 DEF Img!Total
  <2> QED BY <1>1, <1>2, <2>1 DEF ImageTyped
<1>4. Calls' BY <1>2 DEF Calls
<1>5. Len(iv) <= IvSize /\ Len(auth) <= AuthSize BY Fits DEF Img!TypeOK
<1>6. Fields' BY <1>2, <1>5 DEF Fields, AfterKey, AfterIv, AfterSize, AfterAuth
<1>7. Binary' /\ Broken' BY <1>2 DEF Binary, Broken
<1>8. out = Img!Bytes(Img!Header, Len(out)) BY Ordered DEF Img!InOrder
<1>9. OutKept' BY <1>2, <1>8 DEF OutKept
<1> QED BY <1>3, <1>4, <1>6, <1>7, <1>9 DEF ImageInv

LEMMA StepDecryptEnd ==
  ASSUME Img!ConstantsOK, ImageInv, Img!DecryptEnd
  PROVE  ImageInv'
<1>1. /\ state # "none" /\ Img!Free
      /\ phase' = IF state = "decode" /\ cache = <<>> /\ read = length /\ Img!Verifies
                    THEN "ok" ELSE "failed"
      /\ UNCHANGED <<image, supplied, at, read, Img!fields, out>>
  BY DEF Img!DecryptEnd
<1>2. ASSUME phase' = "ok"
      PROVE  image'.genuine /\ Len(out') = image'.binary /\ at' = Img!Header + image'.binary
  <2>1. /\ state = "decode" /\ cache = <<>> /\ read = length
        /\ image.genuine /\ phase # "failed"
    BY <1>1, <1>2 DEF Img!Verifies
  <2>2. PICK c \in 0..(Block - 1) :
          /\ c <= read /\ at = Img!Header + read
          /\ cache = Img!Bytes(at - c, c) /\ out = Img!Bytes(Img!Header, read - c)
    BY <2>1 DEF ImageInv, Binary
  <2>3. c \in Nat /\ at \in Nat /\ read \in Nat /\ Img!Header \in Nat
    BY <2>2, ImageConstants, Places DEF ImageInv, ImageTyped
  <2>4. c = 0 BY <2>1, <2>2, <2>3, BytesLen
  <2>5. Len(out) = read BY <2>2, <2>3, <2>4, BytesLen
  <2>6. length = image.binary BY <2>1 DEF ImageInv, Fields, AfterSize
  <2> QED BY <1>1, <2>1, <2>2, <2>5, <2>6
<1>3. Img!OkIsWhole' BY <1>2 DEF Img!OkIsWhole
<1>4. phase' \in {"ok", "failed"} BY <1>1
<1> QED BY <1>1, <1>3, <1>4, StepFree

LEMMA StepDecryptAbort ==
  ASSUME Img!ConstantsOK, ImageInv, Img!DecryptAbort
  PROVE  ImageInv'
<1>1. /\ state # "none" /\ Img!Free /\ phase' = "failed"
      /\ UNCHANGED <<image, supplied, at, read, Img!fields, out>>
  BY DEF Img!DecryptAbort
<1>2. Img!OkIsWhole' BY <1>1 DEF Img!OkIsWhole
<1> QED BY <1>1, <1>2, StepFree

-----------------------------------------------------------------------------
(* The theorems.                                                           *)

\* Every buffer holds the bytes of the image that its place in the walk says
\* (esp_encrypted_img_decrypt_data(), process_bin()).
THEOREM Buffers ==
  ASSUME Img!ConstantsOK
  PROVE  Img!Spec => []ImageInv
<1>1. Img!Init => ImageInv BY ImageInitHolds
<1>2. ImageInv /\ [Img!Next]_(Img!vars) => ImageInv'
  <2> SUFFICES ASSUME ImageInv, [Img!Next]_(Img!vars) PROVE ImageInv' OBVIOUS
  <2>1. CASE \E n \in Pieces : Img!DecryptData(n) BY <2>1, StepDecryptData
  <2>2. CASE Img!ReadPart BY <2>2, StepReadPart
  <2>3. CASE Img!ReadField BY <2>3, StepReadField
  <2>4. CASE Img!FieldFails BY <2>4, StepFieldFails
  <2>5. CASE Img!ProcessBin BY <2>5, StepProcessBin
  <2>6. CASE Img!ProcessBinEnd BY <2>6, StepProcessBinEnd
  <2>f. CASE Img!ProcessBinFails BY <2>f, StepProcessBinFails
  <2>7. CASE Img!DecryptEnd BY <2>7, StepDecryptEnd
  <2>8. CASE Img!DecryptAbort BY <2>8, StepDecryptAbort
  <2>9. CASE UNCHANGED Img!vars
    <3>1. UNCHANGED <<image, supplied, at, state, read, key, iv, auth, length,
                      cache, capacity, out, phase>>
      BY <2>9 DEF Img!vars, Img!fields
    <3>2. ImageTyped' BY <3>1 DEF ImageInv, ImageTyped, Img!Total
    <3>3. Calls' BY <3>1 DEF ImageInv, Calls
    <3>4. Fields' BY <3>1 DEF ImageInv, Fields
    <3>5. Binary' BY <3>1 DEF ImageInv, Binary
    <3>6. OutKept' /\ Broken' /\ Img!OkIsWhole'
      BY <3>1 DEF ImageInv, OutKept, Broken, Img!OkIsWhole
    <3> QED BY <3>2, <3>3, <3>4, <3>5, <3>6 DEF ImageInv
  <2> QED BY <2>1, <2>2, <2>3, <2>4, <2>5, <2>6, <2>f, <2>7, <2>8, <2>9 DEF Img!Next
<1> QED BY <1>1, <1>2, PTL DEF Img!Spec

\* No buffer overflows, the cache least of all (read_and_cache_data()).
THEOREM ImageTypeCorrect ==
  ASSUME Img!ConstantsOK
  PROVE  Img!Spec => []Img!TypeOK
<1>1. ImageInv => Img!TypeOK BY Fits
<1> QED BY <1>1, Buffers, PTL

\* However an image is cut into pieces, its header's fields are read whole and
\* its binary is decrypted in order, nothing twice and nothing left out
\* (process_bin(), read_and_cache_data()).
THEOREM DecryptsInOrder ==
  ASSUME Img!ConstantsOK
  PROVE  Img!Spec => []Img!InOrder
<1>1. ImageInv => Img!InOrder BY Ordered
<1> QED BY <1>1, Buffers, PTL

\* An image that ends well was decrypted to its last byte and is genuine
\* (esp_encrypted_img_decrypt_end()).
THEOREM EndsWhole ==
  ASSUME Img!ConstantsOK
  PROVE  Img!Spec => []Img!OkIsWhole
<1>1. ImageInv => Img!OkIsWhole BY DEF ImageInv
<1> QED BY <1>1, Buffers, PTL

=============================================================================
