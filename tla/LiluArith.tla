------------------------------ MODULE LiluArith ------------------------------
(***************************************************************************)
(* The arithmetic helpers of the Lilu headers, on unsigned integers of W   *)
(* bits: fields and alignment of kern_util.hpp, timers of kern_time.hpp,   *)
(* and the numbering of processor cores of kern_cpu.hpp.  One step picks   *)
(* the arguments; the properties compare the functions with what they are  *)
(* for.  The operators on bits are defined here by what they do with each  *)
(* bit, and the powers of two by a recursive function, so that theorems    *)
(* can be proved about them.                                               *)
(***************************************************************************)
EXTENDS Integers, FiniteSets

CONSTANTS
  W,         \* bound: the width of the integers
  Packages,  \* bound: how many packages a machine has
  Cores      \* bound: how many cores a package has

VARIABLES
  x, y,           \* two integers
  packageCount, physicalCount,
  picked

vars == <<x, y, packageCount, physicalCount, picked>>

Pow2[n \in Nat] == IF n = 0 THEN 1 ELSE 2 * Pow2[n - 1]

Word == 0 .. Pow2[W] - 1
Bit == 0 .. W - 1
Wrap(n) == n % Pow2[W]

\* bit i of a word, and the word with the given bits
bit(a, i) == (a \div Pow2[i]) % 2
OfBits(bits) == CHOOSE r \in Word : \A i \in Bit : bit(r, i) = bits[i]

\* the operators &, | and ~ of C++
And(a, b) == OfBits([i \in Bit |-> bit(a, i) * bit(b, i)])
Or(a, b) == OfBits([i \in Bit |-> IF bit(a, i) = 1 THEN 1 ELSE bit(b, i)])
Complement(a) == OfBits([i \in Bit |-> 1 - bit(a, i)])

-----------------------------------------------------------------------------
(* Fields of bits, and alignment.                                          *)

getBit(n) == Wrap(Pow2[n])

getBitMask(hi, lo) == And(Or(getBit(hi), getBit(hi) - 1), Complement(getBit(lo) - 1))

getBitField(so, hi, lo) == And(so, getBitMask(hi, lo)) \div Pow2[lo]

\* Wrong variant: what does not fit the field spills over it.
setBitFieldWhole(so, hi, lo) == Wrap(so * Pow2[lo])

setBitField(so, hi, lo) == And(Wrap(so * Pow2[lo]), getBitMask(hi, lo))

alignValue(size, align) == And(Wrap(size + align - 1), Complement(align - 1))

-----------------------------------------------------------------------------
(* Timers, with the current time given.                                    *)

getTimeSinceNs(start, current) == IF current > start THEN current - start ELSE 0

getTimeLeftNs(start, timeout, current) ==
  IF Wrap(start + timeout) > current THEN Wrap(start + timeout) - current ELSE 0

-----------------------------------------------------------------------------
(* Cores.                                                                  *)

\* the loops: the cores of the packages before n, added up in a byte
Counted[n \in 0 .. Packages] == IF n = 0 THEN 0 ELSE Wrap(Counted[n - 1] + physicalCount[n - 1])

totalPhysical == IF packageCount = 0 THEN physicalCount[0] ELSE Counted[packageCount]

\* of a processor with the given numberToPackage and numberToPhysical
numberToPhysicalUnique(package, core) == Wrap(Counted[package] + core)

\* The cores of a machine, each by its package and its number in it.
CoresOf(count) == {k \in (DOMAIN count) \X (0 .. Cores - 1) : k[2] < count[k[1]]}

-----------------------------------------------------------------------------

Init ==
  /\ x = 0 /\ y = 0
  /\ packageCount = 0 /\ physicalCount = [i \in 0 .. Packages - 1 |-> 0]
  /\ picked = FALSE

\* Two integers, or a machine with no more cores than a byte can count.
Pick ==
  /\ ~picked /\ picked' = TRUE
  /\ \/ /\ x' \in Word /\ y' \in Word
        /\ UNCHANGED <<packageCount, physicalCount>>
     \/ /\ packageCount' \in 1 .. Packages
        /\ physicalCount' \in
             {f \in [0 .. Packages - 1 -> 0 .. Cores] :
                /\ \A i \in DOMAIN f : f[i] = 0 <=> i >= packageCount'
                /\ Cardinality(CoresOf(f)) \in Word}
        /\ UNCHANGED <<x, y>>

\* The caller has its results.
Done ==
  /\ picked /\ picked' = FALSE
  /\ x' = 0 /\ y' = 0
  /\ packageCount' = 0 /\ physicalCount' = [i \in 0 .. Packages - 1 |-> 0]

Next == Pick \/ Done

Spec == Init /\ [][Next]_vars

\* The arguments are what the helpers are meant for.
TypeOK ==
  /\ x \in Word /\ y \in Word
  /\ packageCount \in 0 .. Packages
  /\ physicalCount \in [0 .. Packages - 1 -> 0 .. Cores]
  /\ \A i \in DOMAIN physicalCount : physicalCount[i] = 0 <=> i >= packageCount
  /\ Cardinality(CoresOf(physicalCount)) \in Word
  /\ picked \in BOOLEAN

-----------------------------------------------------------------------------
(* Properties.                                                             *)

\* A field put into a word with setBitField reads back with getBitField as as
\* much of it as fits, and every other field of the word reads as before, the
\* full width and single bits included.
FieldsIndependent ==
  \A lo \in Bit : \A hi \in lo .. W - 1 :
    LET word == Or(And(x, Complement(getBitMask(hi, lo))), setBitField(y, hi, lo))
    IN /\ getBitField(word, hi, lo) = y % Pow2[hi - lo + 1]
       /\ hi < W - 1 => getBitField(word, W - 1, hi + 1) = x \div Pow2[hi + 1]
       /\ lo > 0 => getBitField(word, lo - 1, 0) = x % Pow2[lo]

\* alignValue returns the least multiple of a power of two not below the
\* value, unless that is beyond the type, where it wraps to zero.
AlignedLeast ==
  \A n \in Bit :
    LET r == alignValue(x, Pow2[n]) IN
    \/ r % Pow2[n] = 0 /\ r >= x /\ r - x < Pow2[n]
    \/ r = 0 /\ x > Pow2[W] - Pow2[n]

\* The two timers agree: what is left of a timeout is the timeout less the
\* time since the start, and nothing once that much has passed, for every
\* deadline the type can hold.
TimersAgree ==
  \A timeout \in 0 .. Pow2[W] - 1 - x :
    LET since == getTimeSinceNs(x, y)
        left == getTimeLeftNs(x, timeout, y)
    IN y >= x => left = (IF since < timeout THEN timeout - since ELSE 0)

\* numberToPhysicalUnique numbers the cores of all packages from 0 to
\* totalPhysical, each once, however many cores each package has, as long as
\* a byte can count them.
CoresNumbered ==
  /\ {numberToPhysicalUnique(k[1], k[2]) : k \in CoresOf(physicalCount)} = 0 .. totalPhysical - 1
  /\ Cardinality(CoresOf(physicalCount)) = totalPhysical

\* The helpers agree with their definitions over the integers, which know no
\* width and no mask.
HelpersAgree == picked => FieldsIndependent /\ AlignedLeast /\ TimersAgree /\ CoresNumbered
=============================================================================
