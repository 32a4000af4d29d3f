--------------------------- MODULE RoutinesProofs ---------------------------
(***************************************************************************)
(* Proofs about the routines that stand alone, for every word size, every  *)
(* size of memory, screen and heaps, every set of frequencies and every    *)
(* clock.                                                                  *)
(***************************************************************************)
EXTENDS Routines, TLAPS, FiniteSetTheorems, WellFoundedInduction

-----------------------------------------------------------------------------
(* Division.  The quotient bit is a power of two: it is in every set that   *)
(* has 1 and the double of each of its members.                            *)

Doubling(S) == 1 \in S /\ \A x \in S : 2 * x \in S
PowersOfTwo == {q \in Nat : \A S \in SUBSET Nat : Doubling(S) => q \in S}

\* The powers of two are positive, closed under doubling, and except for 1
\* closed under exact halving.
LEMMA PowersDouble == Doubling(PowersOfTwo) /\ 0 \notin PowersOfTwo
<1>1. Doubling(PowersOfTwo)
  BY DEF Doubling, PowersOfTwo
<1>2. Doubling(Nat \ {0})
  BY DEF Doubling
<1> QED
  BY <1>1, <1>2 DEF PowersOfTwo

LEMMA PowersHalve ==
    ASSUME NEW q \in PowersOfTwo, q # 1
    PROVE  q % 2 = 0 /\ q \div 2 \in PowersOfTwo
<1> DEFINE S == {1} \cup {2 * x : x \in PowersOfTwo}
<1>1. S \in SUBSET Nat
  BY DEF PowersOfTwo
<1>2. S \subseteq PowersOfTwo
  BY PowersDouble DEF Doubling
<1>3. \A x \in S : 2 * x \in S
  BY <1>2
<1>4. Doubling(S)
  BY <1>3 DEF Doubling
<1> HIDE DEF S
<1>5. q \in S
  BY <1>1, <1>4 DEF PowersOfTwo
<1>6. PICK x \in PowersOfTwo : q = 2 * x
  BY <1>5 DEF S
<1> QED
  BY <1>6 DEF PowersOfTwo

\* While the divisor is shifted, tempDen has gone as far as qbit has; while it
\* is subtracted, the quotient so far has no bit at qbit or below it.
DivTypeOK ==
    /\ divPc \in {"idle", "shift", "subtract", "done"}
    /\ divAsked \in [num : Word, den : Word]
    /\ num \in Nat /\ den \in Nat /\ quot \in Nat /\ tempDen \in Nat /\ qbit \in Nat

Shifting ==
    divPc = "shift" =>
        /\ den # 0 /\ den = divAsked.den /\ num = divAsked.num /\ quot = 0
        /\ qbit \in PowersOfTwo /\ tempDen = den * qbit /\ tempDen < WordSize

Subtracting ==
    divPc = "subtract" =>
        /\ den # 0 /\ den = divAsked.den
        /\ divAsked.num = quot * den + num
        /\ \/ /\ qbit \in PowersOfTwo /\ tempDen = den * qbit /\ num < 2 * tempDen
              /\ \E m \in Nat : quot = m * (2 * qbit)
           \/ qbit = 0 /\ num < den

Quotient ==
    divPc = "done" =>
        IF divAsked.den = 0 THEN quot = 0 /\ num = 0
        ELSE divAsked.num = quot * divAsked.den + num /\ num < divAsked.den

DivInv == DivTypeOK /\ Shifting /\ Subtracting /\ Quotient

LEMMA DivisionStarts == DivInit => DivInv
BY WordAssumption
   DEF DivInit, DivInv, DivTypeOK, Shifting, Subtracting, Quotient, Word

\* Setting a bit of a number that has no bit there or below adds it.
LEMMA BitIsClear ==
    ASSUME NEW q \in Nat, NEW m \in Nat, NEW b \in Nat \ {0}, q = m * (2 * b)
    PROVE  WithBit(q, b) = q + b
<1>1. q = (2 * m) * b
  OBVIOUS
<1>2. \A k \in Nat : (k * b) \div b = k
  OBVIOUS
<1>3. q \div b = 2 * m /\ (2 * m) % 2 = 0
  BY <1>1, <1>2
<1> QED
  BY <1>3 DEF WithBit

LEMMA ShiftKeeps ==
    ASSUME DivInv, ShiftDivisor
    PROVE  DivInv'
<1> USE WordAssumption DEF DivInv, DivTypeOK
<1>0. /\ divPc = "shift" /\ UNCHANGED <<divAsked, num, den, quot>>
      /\ den # 0 /\ den = divAsked.den /\ num = divAsked.num /\ quot = 0
      /\ qbit \in PowersOfTwo /\ tempDen = den * qbit /\ tempDen < WordSize
      /\ qbit > 0 /\ tempDen >= qbit /\ num < WordSize
  <2>1. /\ divPc = "shift" /\ UNCHANGED <<divAsked, num, den, quot>>
        /\ den # 0 /\ den = divAsked.den /\ num = divAsked.num /\ quot = 0
        /\ qbit \in PowersOfTwo /\ tempDen = den * qbit /\ tempDen < WordSize
    BY DEF ShiftDivisor, Shifting
  <2>2. qbit > 0 /\ num < WordSize
    BY <2>1, PowersDouble DEF Word
  <2>3. den * qbit >= qbit
    BY <2>1, <2>2
  <2> QED
    BY <2>1, <2>2, <2>3
<1>1. CASE MayShift
  <2>1. tempDen < WordSize \div 2
    BY <1>1 DEF MayShift, TopBitSet
  <2>2. /\ divPc' = "shift" /\ tempDen' = 2 * tempDen /\ qbit' = 2 * qbit
        /\ tempDen' < WordSize
    BY <1>0, <1>1, <2>1 DEF ShiftDivisor, ShiftLeft
  <2>3. qbit' \in PowersOfTwo
    BY <1>0, <2>2, PowersDouble DEF Doubling
  <2>4. tempDen' = den' * qbit'
    BY <1>0, <2>2
  <2>5. DivTypeOK'
    BY <1>0, <2>2
  <2> QED
    BY <1>0, <2>2, <2>3, <2>4, <2>5 DEF Shifting, Subtracting, Quotient
<1>2. CASE ~MayShift
  <2>1. divPc' = "subtract" /\ UNCHANGED <<tempDen, qbit>>
    BY <1>0, <1>2 DEF ShiftDivisor
  <2>2. tempDen > 0 /\ (tempDen >= num \/ tempDen >= WordSize \div 2)
    BY <1>0, <1>2 DEF MayShift, TopBitSet
  <2>3. num < 2 * tempDen
    BY <1>0, <2>2
  <2>4. divAsked.num = quot * den + num /\ quot = 0 * (2 * qbit)
    BY <1>0
  <2>5. \E m \in Nat : quot' = m * (2 * qbit')
    BY <1>0, <2>1, <2>4
  <2>6. DivTypeOK'
    BY <1>0, <2>1
  <2> QED
    BY <1>0, <2>1, <2>3, <2>4, <2>5, <2>6 DEF Shifting, Subtracting, Quotient
<1> QED
  BY <1>1, <1>2

LEMMA SubtractKeeps ==
    ASSUME DivInv, Subtract
    PROVE  DivInv'
<1> USE WordAssumption DEF DivInv, DivTypeOK
<1>1. /\ divPc = "subtract" /\ qbit > 0 /\ UNCHANGED <<divPc, divAsked, den>>
      /\ den # 0 /\ den = divAsked.den
      /\ divAsked.num = quot * den + num
      /\ qbit \in PowersOfTwo /\ tempDen = den * qbit /\ num < 2 * tempDen
      /\ \E m \in Nat : quot = m * (2 * qbit)
      /\ tempDen' = tempDen \div 2 /\ qbit' = qbit \div 2
  BY DEF Subtract, Subtracting
<1>2. PICK m \in Nat : quot = m * (2 * qbit)
  BY <1>1
<1>3. WithBit(quot, qbit) = quot + qbit
  <2>1. quot \in Nat /\ qbit \in Nat \ {0}
    BY <1>1
  <2> QED
    BY ONLY <1>2, <2>1, BitIsClear
<1>4. \E k \in Nat :
          /\ quot' = k * qbit /\ quot' \in Nat
          /\ divAsked.num = quot' * den + num' /\ num' < tempDen /\ num' \in Nat
  <2>1. CASE num >= tempDen
    <3>1. num' = num - tempDen /\ quot' = quot + qbit
      BY <1>3, <2>1 DEF Subtract
    <3>2. quot' = (2 * m + 1) * qbit /\ 2 * m + 1 \in Nat
      BY <1>1, <1>2, <3>1
    <3>3. quot' * den + num' = quot * den + num
      BY <1>1, <3>1
    <3>4. quot' \in Nat /\ num' \in Nat /\ num' < tempDen
      BY <1>1, <2>1, <3>1
    <3> QED
      BY <1>1, <3>2, <3>3, <3>4
  <2>2. CASE num < tempDen
    <3>1. num' = num /\ quot' = quot
      BY <1>1, <2>2 DEF Subtract
    <3>2. quot' = (2 * m) * qbit /\ 2 * m \in Nat
      BY <1>1, <1>2, <3>1
    <3>3. quot' \in Nat /\ num' \in Nat /\ num' < tempDen
      BY <1>1, <2>2, <3>1
    <3> QED
      BY <1>1, <3>1, <3>2, <3>3
  <2> QED
    BY <1>1, <2>1, <2>2
<1>5. CASE qbit = 1
  <2>1. qbit' = 0 /\ tempDen = den
    BY <1>1, <1>5
  <2> QED
    BY <1>1, <1>4, <2>1 DEF Shifting, Subtracting, Quotient
<1>6. CASE qbit # 1
  <2>1. qbit' \in PowersOfTwo /\ qbit = 2 * qbit'
    BY <1>1, <1>6, PowersHalve
  <2>2. tempDen = 2 * (den * qbit')
    BY <1>1, <2>1 DEF PowersOfTwo
  <2>3. tempDen' = den' * qbit' /\ tempDen = 2 * tempDen'
    BY <1>1, <2>1, <2>2 DEF PowersOfTwo
  <2>4. \E k \in Nat : quot' = k * (2 * qbit')
    <3>1. qbit' \in Nat /\ qbit \in Nat
      BY <2>1 DEF PowersOfTwo
    <3>2. PICK k \in Nat : quot' = k * qbit
      BY <1>4
    <3>3. k * qbit = k * (2 * qbit')
      BY <2>1, <3>1
    <3> QED
      BY <3>2, <3>3
  <2>5. divPc' = "subtract" /\ DivTypeOK'
    BY <1>1, <1>4
  <2>6. num' < 2 * tempDen' /\ divAsked'.num = quot' * den' + num' /\ den' # 0
        /\ den' = divAsked'.den
    BY <1>1, <1>4, <2>3
  <2> QED
    BY <2>1, <2>3, <2>4, <2>5, <2>6 DEF Shifting, Subtracting, Quotient
<1> QED
  BY <1>5, <1>6

\* What a call leaves for its caller is the quotient and the remainder that
\* the operators \div and % define.
LEMMA QuotientIsDiv ==
    ASSUME NEW n \in Nat, NEW d \in Nat \ {0}, NEW q \in Nat, NEW r \in Nat,
           n = q * d + r, r < d
    PROVE  q = n \div d /\ r = n % d
OBVIOUS

LEMMA DivisionKept ==
    ASSUME DivInv, [DivNext]_divVars
    PROVE  DivInv'
<1>1. CASE Divide
  BY <1>1, PowersDouble, WordAssumption
     DEF DivInv, DivTypeOK, Shifting, Subtracting, Quotient, Divide, Word, Doubling
<1>2. CASE Divided
  BY <1>2, PowersDouble, WordAssumption
     DEF DivInv, DivTypeOK, Shifting, Subtracting, Quotient, Divided, Word
<1>3. CASE UNCHANGED divVars
  BY <1>3 DEF DivInv, DivTypeOK, Shifting, Subtracting, Quotient, divVars
<1> QED
  BY <1>1, <1>2, <1>3, ShiftKeeps, SubtractKeeps DEF DivNext

LEMMA DivisionFollows ==
    ASSUME DivInv
    PROVE  DivisionRight
<1>1. Remaining
  BY PowersDouble DEF DivInv, DivTypeOK, Subtracting, Remaining
<1>2. ASSUME divPc = "done", divAsked.den # 0
      PROVE  quot = divAsked.num \div divAsked.den /\ num = divAsked.num % divAsked.den
  BY <1>2, QuotientIsDiv DEF DivInv, DivTypeOK, Quotient, Word
<1> QED
  BY <1>1, <1>2 DEF DivInv, Quotient, DivisionRight

\* For words of any even size, at either end of the range too, __udivdi3 and
\* __umoddi3 return the quotient and the remainder.
THEOREM DivisionIsRight == RoutinesSpec => []DivisionRight
<1>1. RoutinesInit => DivInv
  BY DivisionStarts DEF RoutinesInit
<1>2. DivInv /\ [RoutinesNext]_routineVars => DivInv'
  BY DivisionKept
     DEF RoutinesNext, routineVars, Dividing, Copying, Drawing, Sounding, Allocating, Bumping,
         Timing, Over
<1>3. DivInv => DivisionRight
  BY DivisionFollows
<1> QED
  BY <1>1, <1>2, <1>3, PTL DEF RoutinesSpec

-----------------------------------------------------------------------------
(* memcpy, memset and memmove.                                             *)

\* The memory once the bytes lo to hi - 1 of the area have been written.
Written(lo, hi) ==
    [a \in Address |->
        IF a < dest + lo \/ a >= dest + hi THEN a
        ELSE IF memCall = "memset" THEN Fill ELSE src + (a - dest)]

\* A loop has written the bytes it has passed, and the bytes it has still to
\* read are not among them: it goes up when the source is above or apart, and
\* down when the source is below.
MemInv ==
    /\ dest \in Nat /\ src \in Nat /\ count \in Nat /\ i \in Nat
    /\ dest + count <= MemSize /\ src + count <= MemSize /\ i <= count
    /\ memCall = "none" => count = 0 /\ way = "done"
    /\ \/ way = "forward" /\ mem = Written(0, i)
          /\ (memCall = "memset" \/ dest < src \/ Apart(dest, src, count))
       \/ way = "backward" /\ mem = Written(i, count) /\ memCall = "memmove" /\ src < dest
       \/ way = "done" /\ mem = Written(0, count)

LEMMA MemoryStarts == MemInit => MemInv
BY MemSizeAssumption DEF MemInit, MemInv, Written, Address

LEMMA CallKeeps ==
    ASSUME MemInv, memcpy \/ memset \/ memmove
    PROVE  MemInv'
<1>1. PICK name \in {"memcpy", "memset", "memmove"}, w \in {"forward", "backward", "done"},
           n \in 0 .. MemSize : \E d, s \in 0 .. MemSize - n :
        /\ Call(name, w, d, s, n)
        /\ w = "forward" => name = "memset" \/ d < s \/ Apart(d, s, n)
        /\ w = "backward" => name = "memmove" /\ s < d
        /\ w = "done" => name = "memmove" /\ s = d
  <2>1. CASE memcpy
    BY <2>1 DEF memcpy
  <2>2. CASE memset
    <3>1. PICK n \in 0 .. MemSize : \E d \in 0 .. MemSize - n :
              Call("memset", "forward", d, 0, n)
      BY <2>2 DEF memset
    <3>2. 0 \in 0 .. MemSize - n
      BY MemSizeAssumption
    <3> QED
      BY <3>1, <3>2
  <2>3. CASE memmove
    BY <2>3, MemSizeAssumption DEF memmove, Direction
  <2> QED
    BY <2>1, <2>2, <2>3
<1>2. PICK d \in 0 .. MemSize - n, s \in 0 .. MemSize - n :
        /\ Call(name, w, d, s, n)
        /\ w = "forward" => name = "memset" \/ d < s \/ Apart(d, s, n)
        /\ w = "backward" => name = "memmove" /\ s < d
        /\ w = "done" => name = "memmove" /\ s = d
  BY <1>1
<1>3. /\ memCall' = name /\ way' = w /\ dest' = d /\ src' = s /\ count' = n
      /\ i' = IF w = "backward" THEN n ELSE 0
      /\ mem = [a \in Address |-> a] /\ mem' = mem
  <2>1. /\ memCall' = name /\ way' = w /\ dest' = d /\ src' = s /\ count' = n
        /\ i' = IF w = "backward" THEN n ELSE 0
        /\ mem' = mem /\ memCall = "none"
    BY <1>2 DEF Call
  <2>2. mem = Written(0, 0) /\ count = 0 /\ dest \in Nat
    BY <2>1 DEF MemInv
  <2>3. mem = [a \in Address |-> a]
    BY <2>2 DEF Written, Address
  <2> QED
    BY <2>1, <2>3
<1>4. w = "forward" => mem' = Written(0, i)'
  BY <1>3 DEF Written, Address
<1>5. w = "backward" => mem' = Written(i, count)'
  BY <1>3 DEF Written, Address
<1>6. w = "done" => mem' = Written(0, count)'
  BY <1>2, <1>3 DEF Written, Address
<1> QED
  BY <1>2, <1>3, <1>4, <1>5, <1>6, MemSizeAssumption DEF MemInv, Apart

LEMMA ForwardKeeps ==
    ASSUME MemInv, Forward
    PROVE  MemInv'
<1>1. /\ dest \in Nat /\ src \in Nat /\ count \in Nat /\ i \in Nat /\ i < count
      /\ dest + count <= MemSize /\ src + count <= MemSize
      /\ way = "forward" /\ mem = Written(0, i)
      /\ memCall = "memset" \/ dest < src \/ Apart(dest, src, count)
      /\ mem' = [mem EXCEPT ![dest + i] = IF memCall = "memset" THEN Fill ELSE mem[src + i]]
      /\ i' = i + 1 /\ UNCHANGED <<memCall, way, dest, src, count>>
  BY DEF MemInv, Forward
<1>2. memCall # "memset" => mem[src + i] = src + i
  BY <1>1, MemSizeAssumption DEF Written, Address, Apart
<1>3. mem' = [a \in Address |->
                  IF a = dest + i THEN IF memCall = "memset" THEN Fill ELSE src + i ELSE mem[a]]
  BY <1>1, <1>2 DEF Written
<1>4. \A a \in Address : mem'[a] = Written(0, i)'[a]
  BY <1>1, <1>3, MemSizeAssumption DEF Written, Address
<1>5. mem' = Written(0, i)'
  BY <1>3, <1>4 DEF Written
<1> QED
  BY <1>1, <1>5 DEF MemInv, Apart

LEMMA BackwardKeeps ==
    ASSUME MemInv, Backward
    PROVE  MemInv'
<1>1. /\ dest \in Nat /\ src \in Nat /\ count \in Nat /\ i \in Nat /\ i > 0 /\ i <= count
      /\ dest + count <= MemSize /\ src + count <= MemSize
      /\ way = "backward" /\ mem = Written(i, count) /\ memCall = "memmove" /\ src < dest
      /\ mem' = [mem EXCEPT ![dest + i - 1] = mem[src + i - 1]]
      /\ i' = i - 1 /\ UNCHANGED <<memCall, way, dest, src, count>>
  BY DEF MemInv, Backward
<1>2. mem[src + i - 1] = src + i - 1
  BY <1>1, MemSizeAssumption DEF Written, Address
<1>3. mem' = [a \in Address |-> IF a = dest + i - 1 THEN src + i - 1 ELSE mem[a]]
  BY <1>1, <1>2 DEF Written
<1>4. \A a \in Address : mem'[a] = Written(i, count)'[a]
  BY <1>1, <1>3, MemSizeAssumption DEF Written, Address
<1>5. mem' = Written(i, count)'
  BY <1>3, <1>4 DEF Written
<1>6. i' \in Nat /\ i' <= count' /\ way' = "backward" /\ memCall' = "memmove"
  BY <1>1
<1> QED
  BY <1>1, <1>5, <1>6 DEF MemInv

LEMMA MemoryKept ==
    ASSUME MemInv, [MemNext]_memVars
    PROVE  MemInv'
<1>1. CASE Returned
  BY <1>1 DEF MemInv, Returned, Written
<1>2. CASE UNCHANGED memVars
  BY <1>2 DEF MemInv, memVars, Written, Apart
<1> QED
  BY <1>1, <1>2, CallKeeps, ForwardKeeps, BackwardKeeps DEF MemNext

\* In a memory of any size, however source and destination overlap, what
\* memcpy, memset and memmove leave behind is a copy, or the byte that fills.
THEOREM MoveIsACopy == RoutinesSpec => []MoveIsCopy
<1>1. RoutinesInit => MemInv
  BY MemoryStarts DEF RoutinesInit
<1>2. MemInv /\ [RoutinesNext]_routineVars => MemInv'
  BY MemoryKept
     DEF RoutinesNext, routineVars, Dividing, Copying, Drawing, Sounding, Allocating, Bumping,
         Timing, Over
<1>3. MemInv => MoveIsCopy
  BY DEF MemInv, MoveIsCopy, Written
<1> QED
  BY <1>1, <1>2, <1>3, PTL DEF RoutinesSpec

-----------------------------------------------------------------------------
(* The speaker.                                                            *)

\* The two clamps leave a divisor of sixteen bits that is as near as one can
\* be to the frequency asked for.
LEMMA DivisorIsTuned ==
    ASSUME NEW f \in Nat \ {0}
    PROVE  Divisor(f) \in Nat /\ Divisor(f) <= 65535 /\ Tuned(Divisor(f), f)
<1>1. PICK d \in Nat : /\ d * f <= PIT_BASE_FREQUENCY /\ PIT_BASE_FREQUENCY < (d + 1) * f
                       /\ Divisor(f) = IF d > 65535 THEN 65535 ELSE IF d < 1 THEN 1 ELSE d
  <2>1. PIT_BASE_FREQUENCY \in Nat
    BY SMT DEF PIT_BASE_FREQUENCY
  <2> DEFINE d == PIT_BASE_FREQUENCY \div f
  <2>2. d \in Nat /\ d * f <= PIT_BASE_FREQUENCY /\ PIT_BASE_FREQUENCY < (d + 1) * f
    BY <2>1, SMT
  <2> QED
    BY <2>2, SMT DEF Divisor
<1>2. CASE d > 65535
  <2>1. 65535 * f <= d * f /\ f <= d * f
    BY <1>1, <1>2, SMT
  <2>2. 65535 * f <= PIT_BASE_FREQUENCY /\ f <= PIT_BASE_FREQUENCY /\ Divisor(f) = 65535
    BY <1>1, <1>2, <2>1, SMT DEF PIT_BASE_FREQUENCY
  <2> QED
    BY <2>2, SMT DEF Tuned, PIT_BASE_FREQUENCY
<1>3. CASE d < 1
  <2>1. f > PIT_BASE_FREQUENCY /\ Divisor(f) = 1
    BY <1>1, <1>3, SMT
  <2> QED
    BY <2>1, SMT DEF Tuned
<1>4. CASE d >= 1 /\ d <= 65535
  <2>1. f <= d * f
    BY <1>1, <1>4, SMT
  <2>2. Divisor(f) = d /\ f <= PIT_BASE_FREQUENCY
    BY <1>1, <1>4, <2>1, SMT DEF PIT_BASE_FREQUENCY
  <2> QED
    BY <1>1, <1>4, <2>2, SMT DEF Tuned, PIT_BASE_FREQUENCY
<1> QED
  BY <1>2, <1>3, <1>4, SMT

\* The speaker's two bits are the only ones of port 0x61 that are changed.
Gated ==
    /\ port61 \in Nat /\ port61 <= 255
    /\ \E v \in Port61Values : port61 - LowBits(port61) = v - LowBits(v)

\* Between the port accesses: the timer has got as far as the routine, with the
\* divisor that belongs to the frequency asked for.
SquareWave == pit.access = 3 /\ pit.mode = 3
IsTimer == pit = [access |-> pit.access, mode |-> pit.mode, low |-> pit.low, reload |-> pit.reload]
AudioInv ==
    /\ Gated
    /\ divisor \in Nat /\ divisor <= 65535 /\ asked \in Nat \cup {-1}
    /\ IsTimer
    /\ audioPc \in {"idle", "control", "low", "high", "gate", "delay", "stop"}
    /\ audioPc \in {"idle", "delay"} =>
          /\ asked = 0 => LowBits(port61) = 0
          /\ asked > 0 => /\ LowBits(port61) = 3 /\ pit.low = <<>> /\ SquareWave
                          /\ Tuned(pit.reload, asked)
    /\ audioPc \in {"control", "low", "high", "gate"} => asked > 0 /\ Tuned(divisor, asked)
    /\ audioPc \in {"low", "high", "gate"} => SquareWave
    /\ audioPc \in {"low", "gate"} => pit.low = <<>>
    /\ audioPc = "high" => pit.low = <<divisor % 256>>
    /\ audioPc = "gate" => pit.reload = divisor
    /\ audioPc = "stop" => asked = 0

LEMMA SpeakerStarts == AudioInit => AudioInv
<1> SUFFICES ASSUME AudioInit PROVE AudioInv
  OBVIOUS
<1>1. Gated
  BY AudioAssumption, SMT DEF AudioInit, Gated
<1>2. IsTimer
  BY SMT DEF AudioInit, IsTimer
<1> QED
  BY <1>1, <1>2, SMT DEF AudioInit, AudioInv

\* A call: whatever is asked for becomes what the routine works on.
LEMMA PlayKeeps ==
    ASSUME AudioInv, audio_play_tone \/ audio_beep
    PROVE  AudioInv'
<1>1. PICK f \in Frequencies : Play(f)
  BY SMT DEF audio_play_tone, audio_beep
<1>2. UNCHANGED <<pit, port61>>
  BY SMT DEF audio_play_tone, audio_beep
<1>3. Gated'
  BY <1>2, SMT DEF Gated, AudioInv, LowBits
<1>4. CASE f = 0
  BY <1>1, <1>2, <1>3, <1>4, SMT DEF Play, AudioInv, IsTimer
<1>5. CASE f # 0
  <2>1. f \in Nat \ {0} /\ audioPc' = "control" /\ asked' = f /\ divisor' = Divisor(f)
    BY <1>1, <1>5, AudioAssumption, SMT DEF Play
  <2>2. divisor' \in Nat /\ divisor' <= 65535 /\ Tuned(divisor, asked)'
    BY <2>1, DivisorIsTuned, SMT DEF Tuned
  <2> QED
    BY <1>2, <1>3, <2>1, <2>2, SMT DEF AudioInv, IsTimer
<1> QED
  BY <1>4, <1>5, SMT

\* What a control byte and a second data byte make of the timer.
LEMMA TimerUpdates ==
    ASSUME NEW a, NEW m, NEW l, NEW r, NEW x
    PROVE  LET p == [access |-> a, mode |-> m, low |-> l, reload |-> r]
           IN  /\ [p EXCEPT !.access = x] = [access |-> x, mode |-> m, low |-> l, reload |-> r]
               /\ [p EXCEPT !.mode = x] = [access |-> a, mode |-> x, low |-> l, reload |-> r]
               /\ [p EXCEPT !.low = x] = [access |-> a, mode |-> m, low |-> x, reload |-> r]
               /\ [p EXCEPT !.reload = x] = [access |-> a, mode |-> m, low |-> l, reload |-> x]
BY SMT

LEMMA TimerSteps ==
    ASSUME IsTimer
    PROVE  /\ Control(pit, 182) = [access |-> 3, mode |-> 3, low |-> <<>>, reload |-> pit.reload]
           /\ \A lo, v \in Nat : pit.low = <<lo>> =>
                Data(pit, v) = [access |-> pit.access, mode |-> pit.mode, low |-> <<>>,
                                reload |-> lo + 256 * v]
<1>1. Counter(182) = 2 /\ Access(182) = 3 /\ Mode(182) = 3
  BY SMT DEF Counter, Access, Mode
<1> DEFINE a == pit.access  m == pit.mode  l == pit.low  r == pit.reload
<1>2. pit = [access |-> a, mode |-> m, low |-> l, reload |-> r]
  BY Zenon DEF IsTimer
<1> HIDE DEF a, m, l, r
<1>3. Control(pit, 182) = [access |-> 3, mode |-> 3, low |-> <<>>, reload |-> r]
  <2>1. Control(pit, 182) = [pit EXCEPT !.access = 3, !.mode = 3, !.low = <<>>]
    BY <1>1, Zenon DEF Control
  <2>2. Control(pit, 182) = [[[pit EXCEPT !.access = 3] EXCEPT !.mode = 3] EXCEPT !.low = <<>>]
    BY <2>1, Zenon
  <2> QED
    BY <1>2, <2>2, TimerUpdates, Zenon
<1>4. ASSUME NEW lo \in Nat, NEW v \in Nat, pit.low = <<lo>>
      PROVE  Data(pit, v) = [access |-> a, mode |-> m, low |-> <<>>, reload |-> lo + 256 * v]
  <2>1. pit.low # <<>> /\ pit.low[1] = lo
    BY <1>4, SMT
  <2>2. Data(pit, v) = [[pit EXCEPT !.reload = lo + 256 * v] EXCEPT !.low = <<>>]
    BY <2>1, Zenon DEF Data
  <2> QED
    BY <1>2, <2>2, TimerUpdates, Zenon
<1> QED
  BY <1>3, <1>4, Zenon DEF a, m, r

\* The three bytes for the timer.
LEMMA TimerKeeps ==
    ASSUME AudioInv, OutControl \/ OutLow \/ OutHigh
    PROVE  AudioInv'
<1>1. UNCHANGED <<beeping, divisor, port61, asked>>
  BY SMT DEF OutControl, OutLow, OutHigh
<1>2. Gated' /\ (Tuned(divisor, asked) => Tuned(divisor, asked)')
  BY <1>1, SMT DEF Gated, AudioInv, LowBits, Tuned
<1>3. CASE OutControl
  <2>2. pit' = [access |-> 3, mode |-> 3, low |-> <<>>, reload |-> pit.reload]
    BY <1>3, TimerSteps, SMT DEF OutControl, AudioInv
  <2>3. IsTimer' /\ pit'.low = <<>> /\ SquareWave'
    BY <2>2, SMT DEF AudioInv, SquareWave, IsTimer
  <2> QED
    BY <1>1, <1>2, <1>3, <2>3, SMT DEF AudioInv, OutControl
<1>4. CASE OutLow
  <2>1. pit' = [pit EXCEPT !.low = <<divisor % 256>>]
    BY <1>4, SMT DEF OutLow, Data, AudioInv
  <2>2. divisor % 256 \in Nat
    BY SMT DEF AudioInv
  <2>3. IsTimer' /\ pit'.low = <<divisor % 256>> /\ (SquareWave => SquareWave')
    BY <2>1, <2>2, SMT DEF AudioInv, SquareWave, IsTimer
  <2> QED
    BY <1>1, <1>2, <1>4, <2>3, SMT DEF AudioInv, OutLow
<1>5. CASE OutHigh
  <2>1. pit' = [access |-> pit.access, mode |-> pit.mode, low |-> <<>>,
                reload |-> (divisor % 256) + 256 * ((divisor \div 256) % 256)]
    <3> DEFINE lo == divisor % 256  hi == (divisor \div 256) % 256
    <3>1. lo \in Nat /\ hi \in Nat /\ pit.low = <<lo>> /\ IsTimer
      BY <1>5, SMT DEF OutHigh, AudioInv
    <3>2. pit' = Data(pit, hi)
      BY <1>5, Zenon DEF OutHigh
    <3> HIDE DEF lo, hi
    <3>3. pit' = [access |-> pit.access, mode |-> pit.mode, low |-> <<>>, reload |-> lo + 256 * hi]
      BY <3>1, <3>2, TimerSteps, Zenon
    <3> QED
      BY <3>3, Zenon DEF lo, hi
  <2>2. (divisor % 256) + 256 * ((divisor \div 256) % 256) = divisor
    BY SMT DEF AudioInv
  <2>3. IsTimer' /\ pit'.low = <<>> /\ pit'.reload = divisor /\ (SquareWave => SquareWave')
    BY <2>1, <2>2, SMT DEF AudioInv, SquareWave, IsTimer
  <2> QED
    BY <1>1, <1>2, <1>5, <2>3, SMT DEF AudioInv, OutHigh
<1> QED
  BY <1>3, <1>4, <1>5, SMT

\* The writes to port 0x61.
LEMMA GateKeeps ==
    ASSUME AudioInv, OpenGate \/ CloseGate
    PROVE  AudioInv'
<1>1. UNCHANGED <<beeping, divisor, pit, asked>>
  BY SMT DEF OpenGate, CloseGate
<1>2. /\ audioPc = "gate" => port61' = port61 - LowBits(port61) + 3
      /\ audioPc = "stop" => port61' = port61 - LowBits(port61)
  BY SMT DEF OpenGate, CloseGate, AudioInv, Gated, LowBits
<1>3. /\ audioPc = "gate" => LowBits(port61)' = 3
      /\ audioPc = "stop" => LowBits(port61)' = 0
      /\ port61' \in Nat /\ port61' <= 255 /\ port61' - LowBits(port61)' = port61 - LowBits(port61)
  BY <1>2, SMT DEF OpenGate, CloseGate, AudioInv, Gated, LowBits
<1>4. Gated'
  BY <1>3, SMT DEF AudioInv, Gated
<1> QED
  BY <1>1, <1>3, <1>4, SMT DEF OpenGate, CloseGate, AudioInv, SquareWave, Tuned, IsTimer

LEMMA SpeakerKept ==
    ASSUME AudioInv, [AudioNext]_audioVars
    PROVE  AudioInv'
<1>1. CASE audio_stop_tone \/ delay_ms
  BY <1>1, SMT DEF AudioInv, audio_stop_tone, delay_ms, Gated, LowBits, IsTimer
<1>2. CASE UNCHANGED audioVars
  BY <1>2, SMT DEF AudioInv, audioVars, Gated, LowBits, SquareWave, Tuned, IsTimer
<1> QED
  BY <1>1, <1>2, PlayKeeps, TimerKeeps, GateKeeps, SMT DEF AudioNext

\* Whatever the BIOS left, through any calls, for any frequencies: the speaker
\* sounds what was last asked for, in tune, or nothing.
THEOREM SpeakerSounds == RoutinesSpec => []SoundsAsAsked
<1>1. RoutinesInit => AudioInv
  BY SpeakerStarts DEF RoutinesInit
<1>2. AudioInv /\ [RoutinesNext]_routineVars => AudioInv'
  BY SpeakerKept
     DEF RoutinesNext, routineVars, Dividing, Copying, Drawing, Sounding, Allocating, Bumping,
         Timing, Over
<1>3. AudioInv => SoundsAsAsked
  BY SMT DEF AudioInv, SoundsAsAsked, Gated, SquareWave
<1> QED
  BY <1>1, <1>2, <1>3, PTL DEF RoutinesSpec

-----------------------------------------------------------------------------
(* The clock.  First the arithmetic of its divisions.                      *)

\* A quotient is known by its bounds; it grows with the dividend; whole
\* multiples of the divisor can be taken out.
LEMMA DivBounds ==
    ASSUME NEW n \in Int, NEW d \in Nat \ {0}
    PROVE  /\ n \div d \in Int /\ n % d \in 0 .. d - 1
           /\ n = (n \div d) * d + (n % d)
           /\ (n \div d) * d <= n /\ n < (n \div d + 1) * d
<1>1. n \div d \in Int /\ n % d \in 0 .. d - 1 /\ n = (n \div d) * d + (n % d)
  OBVIOUS
<1>2. (n \div d) * d <= n /\ n < (n \div d + 1) * d
  OBVIOUS
<1> QED
  BY <1>1, <1>2

LEMMA DivBetween ==
    ASSUME NEW n \in Int, NEW d \in Nat \ {0}, NEW q \in Int, q * d <= n, n < (q + 1) * d
    PROVE  n \div d = q
<1>1. n - q * d \in 0 .. d - 1 /\ n = q * d + (n - q * d)
  OBVIOUS
<1> QED
  BY <1>1

LEMMA DivGrows ==
    ASSUME NEW n \in Int, NEW m \in Int, NEW d \in Nat \ {0}, n <= m
    PROVE  n \div d <= m \div d
<1> DEFINE a == n \div d  b == m \div d
<1>1. a \in Int /\ b \in Int /\ a * d <= n /\ m < (b + 1) * d
  BY DivBounds
<1> HIDE DEF a, b
<1>2. SUFFICES ASSUME b < a PROVE FALSE
  BY <1>1 DEF a, b
<1>3. (b + 1) * d <= a * d
  BY <1>1, <1>2
<1> QED
  BY <1>1, <1>3

LEMMA DivShift ==
    ASSUME NEW k \in Int, NEW n \in Int, NEW d \in Nat \ {0}
    PROVE  (k * d + n) \div d = k + n \div d
<1> DEFINE q == n \div d
<1>1. q \in Int /\ q * d <= n /\ n < (q + 1) * d
  BY DivBounds
<1> HIDE DEF q
<1>2. (k + q) * d = k * d + q * d /\ (k + q + 1) * d = k * d + (q + 1) * d
  BY <1>1
<1>3. (k + q) * d <= k * d + n /\ k * d + n < (k + q + 1) * d
  BY <1>1, <1>2
<1>4. (k * d + n) \div d = k + q
  BY <1>1, <1>3, DivBetween
<1> QED
  BY <1>4 DEF q

\* A microsecond is a whole number of cycles, and a second a whole number of
\* microseconds.
Micro == CyclesPerSec \div UsecPerSec
LEMMA MicroDivides ==
    /\ Micro \in Nat \ {0} /\ Micro * UsecPerSec = CyclesPerSec
    /\ CyclesPerSec \in Nat \ {0} /\ UsecPerSec \in Nat \ {0} /\ TicRate \in Nat \ {0}
    /\ TicRate <= UsecPerSec
<1>1. /\ CyclesPerSec \in Nat \ {0} /\ UsecPerSec \in Nat \ {0} /\ TicRate \in Nat \ {0}
      /\ CyclesPerSec % UsecPerSec = 0 /\ TicRate <= UsecPerSec
  BY ClockAssumption
<1>2. Micro \in Int /\ Micro * UsecPerSec = CyclesPerSec
  BY <1>1, DivBounds DEF Micro
<1>3. Micro > 0
  BY <1>1, <1>2
<1> QED
  BY <1>1, <1>2, <1>3

\* The tics of a fraction of a second, from its microseconds.
Usecs(r) == r \div Micro
SubTics(r) == (Usecs(r) * TicRate) \div UsecPerSec

LEMMA SubTicsBounds ==
    ASSUME NEW r \in 0 .. CyclesPerSec - 1
    PROVE  /\ Usecs(r) \in 0 .. UsecPerSec - 1
           /\ SubTics(r) \in 0 .. TicRate - 1
<1> USE MicroDivides
<1>1. Usecs(r) \in Int /\ Usecs(r) * Micro <= r /\ r < (Usecs(r) + 1) * Micro
  BY DivBounds DEF Usecs
<1> DEFINE u == Usecs(r)
<1> HIDE DEF u
<1>2. u \in Int /\ u * Micro <= r /\ r < (u + 1) * Micro
  BY <1>1 DEF u
<1>3. u >= 0
  <2>1. SUFFICES ASSUME u + 1 <= 0 PROVE FALSE
    BY <1>2
  <2>2. (u + 1) * Micro <= 0
    BY <1>2, <2>1
  <2> QED
    BY <1>2, <2>2
<1>4. u < UsecPerSec
  <2>1. SUFFICES ASSUME u >= UsecPerSec PROVE FALSE
    BY <1>2
  <2>2. u * Micro >= UsecPerSec * Micro
    BY <1>2, <2>1
  <2> QED
    BY <1>2, <2>2
<1>5. u * TicRate \in Nat /\ u * TicRate <= (UsecPerSec - 1) * TicRate
  BY <1>2, <1>3, <1>4
<1>6. u * TicRate < TicRate * UsecPerSec
  BY <1>2, <1>5
<1> DEFINE y == (u * TicRate) \div UsecPerSec
<1>7. y \in Int /\ y * UsecPerSec <= u * TicRate /\ u * TicRate < (y + 1) * UsecPerSec
  <2>1. u * TicRate \in Int /\ UsecPerSec \in Nat \ {0}
    BY <1>5
  <2> QED
    BY <2>1, DivBounds, Zenon
<1>8. SubTics(r) = y
  BY DEF SubTics, u
<1> HIDE DEF y
<1>9. y >= 0
  <2>1. SUFFICES ASSUME y + 1 <= 0 PROVE FALSE
    BY <1>7
  <2>2. (y + 1) * UsecPerSec <= 0
    BY <1>7, <2>1
  <2> QED
    BY <1>5, <1>7, <2>2
<1>10. y < TicRate
  <2>1. SUFFICES ASSUME y >= TicRate PROVE FALSE
    BY <1>7
  <2>2. y * UsecPerSec >= TicRate * UsecPerSec
    BY <1>7, <2>1
  <2> QED
    BY <1>5, <1>6, <1>7, <2>2
<1> QED
  BY <1>2, <1>3, <1>4, <1>7, <1>8, <1>9, <1>10 DEF u

LEMMA SubTicsGrow ==
    ASSUME NEW r \in 0 .. CyclesPerSec - 1, NEW t \in 0 .. CyclesPerSec - 1, r <= t
    PROVE  SubTics(r) <= SubTics(t)
<1> USE MicroDivides
<1>1. Usecs(r) \in Nat /\ Usecs(t) \in Nat
  BY SubTicsBounds
<1>2. Usecs(r) <= Usecs(t)
  BY DivGrows DEF Usecs
<1>3. Usecs(r) * TicRate <= Usecs(t) * TicRate
  BY <1>1, <1>2
<1>4. Usecs(r) * TicRate \in Int /\ Usecs(t) * TicRate \in Int
  BY <1>1
<1> QED
  BY <1>3, <1>4, DivGrows DEF SubTics

\* Rounding down twice loses at most one tic more than rounding down once,
\* because a microsecond is at most a tic.
LEMMA TwiceRounded ==
    ASSUME NEW r \in 0 .. CyclesPerSec - 1
    PROVE  SubTics(r) \in {(r * TicRate) \div CyclesPerSec - 1, (r * TicRate) \div CyclesPerSec}
<1> USE MicroDivides
<1> DEFINE u == Usecs(r)  t == r % Micro  y == SubTics(r)  w == (Usecs(r) * TicRate) % UsecPerSec
<1>1. u \in Nat /\ t \in Nat /\ t <= Micro - 1 /\ r = u * Micro + t
  <2>1. r \in Int /\ Micro \in Nat \ {0}
    OBVIOUS
  <2>2. t \in 0 .. Micro - 1 /\ r = u * Micro + t
    BY <2>1, DivBounds, Zenon DEF Usecs
  <2> QED
    BY <2>2, SubTicsBounds
<1>2. y \in Nat /\ w \in Nat /\ w <= UsecPerSec - 1 /\ u * TicRate = y * UsecPerSec + w
  <2>1. u * TicRate \in Int /\ UsecPerSec \in Nat \ {0}
    BY <1>1
  <2>2. w \in 0 .. UsecPerSec - 1 /\ u * TicRate = y * UsecPerSec + w
    BY <2>1, DivBounds, Zenon DEF SubTics
  <2> QED
    BY <2>2, SubTicsBounds
<1> HIDE DEF u, t, y, w
<1>3. r * TicRate = y * CyclesPerSec + (Micro * w + t * TicRate)
  <2>1. r * TicRate = Micro * (u * TicRate) + t * TicRate
    BY <1>1
  <2>2. Micro * (u * TicRate) = Micro * (y * UsecPerSec) + Micro * w
    BY <1>1, <1>2
  <2>3. Micro * (y * UsecPerSec) = y * CyclesPerSec
    <3>1. Micro * (y * UsecPerSec) = y * (Micro * UsecPerSec)
      BY <1>2
    <3> QED
      BY <3>1
  <2> QED
    BY <1>1, <1>2, <2>1, <2>2, <2>3
<1>4. Micro * w <= CyclesPerSec - Micro /\ Micro * w >= 0
  <2>1. Micro * w <= Micro * (UsecPerSec - 1)
    BY <1>2
  <2>2. Micro * (UsecPerSec - 1) = CyclesPerSec - Micro
    OBVIOUS
  <2> QED
    BY <1>2, <2>1, <2>2
<1>5. t * TicRate <= CyclesPerSec - UsecPerSec /\ t * TicRate >= 0
  <2>1. t * TicRate <= t * UsecPerSec
    BY <1>1
  <2>2. t * UsecPerSec <= (Micro - 1) * UsecPerSec
    BY <1>1
  <2>3. (Micro - 1) * UsecPerSec = CyclesPerSec - UsecPerSec
    OBVIOUS
  <2> QED
    BY <1>1, <2>1, <2>2, <2>3
<1> DEFINE rest == Micro * w + t * TicRate
<1>6. rest \in Nat /\ rest < 2 * CyclesPerSec
  BY <1>1, <1>2, <1>4, <1>5
<1>7. rest \div CyclesPerSec \in {0, 1}
  <2> HIDE DEF rest
  <2>1. CASE rest < CyclesPerSec
    BY <1>6, <2>1, DivBetween
  <2>2. CASE rest >= CyclesPerSec
    BY <1>6, <2>2, DivBetween
  <2> QED
    BY <1>6, <2>1, <2>2
<1>8. (r * TicRate) \div CyclesPerSec = y + rest \div CyclesPerSec
  <2> HIDE DEF rest
  <2>1. (y * CyclesPerSec + rest) \div CyclesPerSec = y + rest \div CyclesPerSec
    <3>1. y \in Int /\ rest \in Int /\ CyclesPerSec \in Nat \ {0}
      BY <1>2, <1>6
    <3> QED
      BY <3>1, DivShift, Zenon
  <2>2. r * TicRate = y * CyclesPerSec + rest
    BY <1>3, Zenon DEF rest
  <2> QED
    BY <2>1, <2>2, Zenon
<1> QED
  BY <1>2, <1>7, <1>8 DEF y

\* What I_GetTime makes of e cycles with the base time b: it never decreases.
TicsAt(e, b) == (e \div CyclesPerSec - b) * TicRate + SubTics(e % CyclesPerSec)

LEMMA TicsAtGrow ==
    ASSUME NEW e \in Nat, NEW f \in Nat, NEW b \in Int, e <= f
    PROVE  /\ e \div CyclesPerSec <= f \div CyclesPerSec
           /\ TicsAt(e, b) \in Int /\ TicsAt(e, b) <= TicsAt(f, b)
<1> USE MicroDivides
<1> DEFINE s == e \div CyclesPerSec  t == f \div CyclesPerSec
           x == e % CyclesPerSec     y == f % CyclesPerSec
<1>1. /\ s \in Int /\ x \in 0 .. CyclesPerSec - 1 /\ e = s * CyclesPerSec + x
      /\ t \in Int /\ y \in 0 .. CyclesPerSec - 1 /\ f = t * CyclesPerSec + y
  BY DivBounds, e \in Int, f \in Int
<1>2. s <= t
  BY DivGrows, e \in Int, f \in Int
<1>3. TicsAt(e, b) = (s - b) * TicRate + SubTics(x) /\ TicsAt(f, b) = (t - b) * TicRate + SubTics(y)
  BY DEF TicsAt
<1> HIDE DEF s, t, x, y
<1>4. SubTics(x) \in 0 .. TicRate - 1 /\ SubTics(y) \in 0 .. TicRate - 1
  BY <1>1, SubTicsBounds
<1>5. CASE s = t
  <2>1. x <= y
    BY <1>1, <1>5
  <2>2. SubTics(x) <= SubTics(y)
    BY <1>1, <2>1, SubTicsGrow
  <2> QED
    BY <1>1, <1>2, <1>3, <1>4, <1>5, <2>2 DEF s, t
<1>6. CASE s < t
  <2>1. (s - b + 1) * TicRate <= (t - b) * TicRate
    BY <1>1, <1>6
  <2>2. (s - b + 1) * TicRate = (s - b) * TicRate + TicRate
    BY <1>1
  <2>3. (s - b) * TicRate \in Int /\ (t - b) * TicRate \in Int
    BY <1>1
  <2> QED
    BY <1>2, <1>3, <1>4, <2>1, <2>2, <2>3 DEF s, t
<1> QED
  BY <1>1, <1>2, <1>5, <1>6

\* Once it is set, the base time is a second that has passed and what the last
\* call returned is not ahead of the counter; from then on the tics that have
\* been run are those the clock has counted.
ClockInv ==
    /\ tsc \in Nat \ {0} /\ start_tsc \in Nat /\ start_tsc <= tsc /\ basetime \in Nat
    /\ now \in Int /\ last_update_time \in Int /\ tics \in Int
    /\ since.tics \in Int /\ since.now \in Int
    /\ pc \in {"boot", "running"}
    /\ pc = "boot" => start_tsc = 0 /\ basetime = 0
    /\ pc = "running" => start_tsc # 0
    /\ basetime <= Sec
    /\ basetime # 0 => now <= Tics
    /\ since.known => /\ basetime # 0 /\ last_update_time <= now
                      /\ tics - since.tics = last_update_time - since.now

LEMMA ClockStarts == ClockInit => ClockInv
<1> SUFFICES ASSUME ClockInit PROVE ClockInv
  OBVIOUS
<1>1. Elapsed = 0
  BY DEF ClockInit, Elapsed, Started
<1>2. Sec = 0
  BY <1>1, MicroDivides DEF Sec
<1> QED
  BY <1>2 DEF ClockInit, ClockInv

\* The counter and the tics it stands for.
LEMMA TicsOfElapsed ==
    ASSUME ClockInv
    PROVE  /\ Elapsed \in Nat /\ Sec \in Nat /\ Base \in Nat /\ Base <= Sec
           /\ Sec = Elapsed \div CyclesPerSec
           /\ Tics = TicsAt(Elapsed, Base) /\ Tics \in Int
<1>1. Elapsed \in Nat
  BY DEF ClockInv, Elapsed, Started
<1>2. Sec \in Nat /\ Sec = Elapsed \div CyclesPerSec
  BY <1>1, MicroDivides DEF Sec
<1>3. Base \in Nat /\ Base <= Sec
  BY <1>2 DEF ClockInv, Base
<1>4. Tics = TicsAt(Elapsed, Base)
  BY DEF Tics, TicsAt, Sec, Usec, SubTics, Usecs, Micro
<1>5. TicsAt(Elapsed, Base) \in Int
  BY <1>1, <1>3, TicsAtGrow
<1> QED
  BY <1>1, <1>2, <1>3, <1>4, <1>5

LEMMA AdvanceKeeps ==
    ASSUME ClockInv, NEW k \in Steps, TscAdvances(k)
    PROVE  ClockInv'
<1>1. k \in Nat /\ tsc' = tsc + k
      /\ UNCHANGED <<start_tsc, basetime, last_update_time, pc, now, tics, since>>
  BY ClockAssumption DEF TscAdvances
<1>2. Elapsed \in Nat /\ Elapsed' \in Nat /\ Elapsed <= Elapsed'
  BY <1>1 DEF ClockInv, Elapsed, Started
<1>3. Sec' = Elapsed' \div CyclesPerSec
  BY DEF Sec
<1>4. Sec <= Sec' /\ Sec' \in Nat
  <2>1. Sec <= Sec'
    BY <1>2, <1>3, TicsOfElapsed, TicsAtGrow, 0 \in Int
  <2>2. Sec \in Nat
    BY TicsOfElapsed
  <2>3. Sec' \in Int
    BY <1>2, <1>3, MicroDivides
  <2> QED
    BY <2>1, <2>2, <2>3
<1>5. basetime # 0 => Tics <= Tics' /\ Tics' \in Int
  <2> SUFFICES ASSUME basetime # 0 PROVE Tics <= Tics' /\ Tics' \in Int
    OBVIOUS
  <2>1. Base = basetime /\ Base' = basetime /\ basetime \in Int
    BY <1>1 DEF Base, ClockInv
  <2>2. Tics' = TicsAt(Elapsed', basetime)
    BY <2>1 DEF Tics, TicsAt, Sec, Usec, SubTics, Usecs, Micro
  <2>3. Tics = TicsAt(Elapsed, basetime)
    BY <2>1, TicsOfElapsed
  <2>4. TicsAt(Elapsed, basetime) <= TicsAt(Elapsed', basetime)
    BY <1>2, <2>1, TicsAtGrow
  <2>5. TicsAt(Elapsed', basetime) \in Int
    <3>1. Elapsed' <= Elapsed'
      BY <1>2
    <3> QED
      BY <1>2, <2>1, <3>1, TicsAtGrow
  <2> QED
    BY <2>2, <2>3, <2>4, <2>5
<1> QED
  BY <1>1, <1>4, <1>5, TicsOfElapsed DEF ClockInv

\* A call of I_GetTime: it fixes the start and, when the first second has
\* passed, the base time, and then returns what the counter says.
LEMMA GetTimeReads ==
    ASSUME ClockInv, I_GetTime, UNCHANGED tsc
    PROVE  /\ start_tsc' \in Nat \ {0} /\ start_tsc' <= tsc' /\ Elapsed' = Elapsed
           /\ basetime' \in Nat /\ basetime' <= Sec' /\ now' \in Int
           /\ basetime' # 0 => now' = Tics'
           /\ basetime # 0 => basetime' = basetime /\ now' >= now
<1>1. start_tsc' = Started /\ basetime' = Base /\ now' = Tics /\ tsc' = tsc
  BY DEF I_GetTime
<1>2. Started \in Nat \ {0} /\ Started <= tsc
  BY DEF ClockInv, Started
<1>3. Started' = Started
  BY <1>1, <1>2 DEF Started
<1>4. Elapsed' = Elapsed
  BY <1>1, <1>3 DEF Elapsed
<1>5. Sec' = Sec /\ Usec' = Usec
  BY <1>4 DEF Sec, Usec
<1>6. Base \in Nat /\ Base <= Sec /\ Tics \in Int
  BY TicsOfElapsed
<1>7. Base # 0 => Base' = Base
  BY <1>1 DEF Base
<1>8. Base # 0 => Tics' = Tics
  BY <1>5, <1>7 DEF Tics
<1>9. basetime # 0 => Base = basetime /\ now <= Tics
  BY DEF Base, ClockInv
<1> QED
  BY <1>1, <1>2, <1>4, <1>5, <1>6, <1>8, <1>9 DEF ClockInv

LEMMA ClockKept ==
    ASSUME ClockInv, [ClockNext]_clockVars
    PROVE  ClockInv'
<1>1. CASE doom_init
  <2>1. /\ pc = "boot" /\ pc' = "running" /\ I_GetTime /\ last_update_time' = now'
        /\ UNCHANGED <<tsc, tics, since>>
    BY <1>1 DEF doom_init
  <2> QED
    BY <2>1, GetTimeReads DEF ClockInv
<1>2. CASE doom_update
  <2>1. /\ pc = "running" /\ UNCHANGED <<tsc, pc>> /\ I_GetTime /\ last_update_time' = now'
        /\ tics' = IF now' > last_update_time THEN tics + (now' - last_update_time) ELSE tics
        /\ since' = IF since.known \/ basetime' = 0 THEN since
                    ELSE [known |-> TRUE, tics |-> tics', now |-> now']
    BY <1>2 DEF doom_update
  <2>2. tics' \in Int
    BY <2>1, GetTimeReads DEF ClockInv
  <2>3. CASE since.known
    <3>1. since' = since
      BY <2>1, <2>3
    <3>2. now' >= last_update_time /\ last_update_time \in Int /\ now' \in Int /\ tics \in Int
      BY <2>1, <2>3, GetTimeReads DEF ClockInv
    <3>3. tics' = tics + (now' - last_update_time)
      <4>1. \A t, n, l \in Int : n >= l => (IF n > l THEN t + (n - l) ELSE t) = t + (n - l)
        OBVIOUS
      <4>2. tics' = IF now' > last_update_time THEN tics + (now' - last_update_time) ELSE tics
        BY <2>1
      <4> QED
        BY <3>2, <4>1, <4>2, Zenon
    <3>4. tics' - since'.tics = last_update_time' - since'.now /\ last_update_time' <= now'
      BY <2>1, <2>3, <3>1, <3>2, <3>3 DEF ClockInv
    <3>5. since'.tics \in Int /\ since'.now \in Int /\ basetime' # 0
      BY <2>1, <2>3, <3>1, GetTimeReads DEF ClockInv
    <3> QED
      BY <2>1, <2>2, <3>4, <3>5, GetTimeReads DEF ClockInv
  <2>4. CASE ~since.known /\ basetime' = 0
    <3>1. since' = since /\ tics' \in Int
      BY <2>1, <2>4, GetTimeReads DEF ClockInv
    <3> QED
      BY <2>1, <2>4, <3>1, GetTimeReads DEF ClockInv
  <2>5. CASE ~since.known /\ basetime' # 0
    <3>1. since'.tics = tics' /\ since'.now = now' /\ tics' \in Int
      BY <2>1, <2>5, GetTimeReads DEF ClockInv
    <3> QED
      BY <2>1, <2>5, <3>1, GetTimeReads DEF ClockInv
  <2> QED
    BY <2>3, <2>4, <2>5
<1>3. CASE EngineReadsTime
  <2>1. pc = "running" /\ I_GetTime /\ UNCHANGED <<tsc, last_update_time, pc, tics, since>>
    BY <1>3 DEF EngineReadsTime
  <2> QED
    BY <2>1, GetTimeReads DEF ClockInv
<1>4. CASE UNCHANGED clockVars
  BY <1>4 DEF ClockInv, clockVars, Sec, Tics, Usec, Base, Elapsed, Started
<1> QED
  BY <1>1, <1>2, <1>3, <1>4, AdvanceKeeps DEF ClockNext

\* The tic a call of I_GetTime shows differs from the exact one by less than a
\* tic.
LEMMA NearIdeal ==
    ASSUME ClockInv, basetime # 0
    PROVE  Tics \in {Ideal - 1, Ideal}
<1> DEFINE s == Sec - basetime  r == Elapsed % CyclesPerSec
<1> USE MicroDivides
<1>1. Elapsed \in Int /\ s \in Int
  BY TicsOfElapsed DEF ClockInv
<1>2. r \in 0 .. CyclesPerSec - 1 /\ Elapsed = Sec * CyclesPerSec + r
  BY <1>1, DivBounds DEF Sec
<1>3. Tics = s * TicRate + SubTics(r)
  BY DEF Tics, SubTics, Usec, Usecs, Micro, Base
<1>4. Ideal = ((Elapsed - basetime * CyclesPerSec) * TicRate) \div CyclesPerSec
  BY DEF Ideal
<1>5. Sec \in Int /\ basetime \in Int
  BY TicsOfElapsed DEF ClockInv
<1> HIDE DEF r
<1>6. Elapsed - basetime * CyclesPerSec = s * CyclesPerSec + r
  BY <1>2, <1>5
<1> HIDE DEF s
<1>7. (s * CyclesPerSec + r) * TicRate = (s * TicRate) * CyclesPerSec + r * TicRate
  BY <1>1, <1>2
<1>8. Ideal = s * TicRate + (r * TicRate) \div CyclesPerSec
  <2>1. s * TicRate \in Int /\ r * TicRate \in Int /\ CyclesPerSec \in Nat \ {0}
    BY <1>1, <1>2
  <2>2. ((s * TicRate) * CyclesPerSec + r * TicRate) \div CyclesPerSec
            = s * TicRate + (r * TicRate) \div CyclesPerSec
    BY <2>1, DivShift, Zenon
  <2> QED
    BY <1>4, <1>6, <1>7, <2>2
<1>9. SubTics(r) \in {(r * TicRate) \div CyclesPerSec - 1, (r * TicRate) \div CyclesPerSec}
  BY <1>2, TwiceRounded
<1>10. s * TicRate \in Int /\ (r * TicRate) \div CyclesPerSec \in Int
  <2>1. s * TicRate \in Int /\ r * TicRate \in Int
    BY <1>1, <1>2
  <2> QED
    BY <2>1, DivBounds
<1> QED
  BY <1>3, <1>8, <1>9, <1>10

\* Whatever the readings of the counter, every tic the clock counts once it has
\* its base time is run, and none twice.
THEOREM ClockDoesNotDrift == RoutinesSpec => []NoDrift
<1>1. RoutinesInit => ClockInv
  BY ClockStarts DEF RoutinesInit
<1>2. ClockInv /\ [RoutinesNext]_routineVars => ClockInv'
  BY ClockKept
     DEF RoutinesNext, routineVars, Dividing, Copying, Drawing, Sounding, Allocating, Bumping,
         Timing, Over
<1>3. ClockInv => NoDrift
  BY DEF ClockInv, NoDrift
<1> QED
  BY <1>1, <1>2, <1>3, PTL DEF RoutinesSpec

\* From then on it never goes back, and it is never more than a tic away from
\* the counter although it is rounded down twice.
THEOREM ClockIsSteady == RoutinesSpec => SteadyAndAccurate
<1> DEFINE Good == /\ basetime # 0 => now' >= now
                   /\ basetime' # 0 /\ (doom_update \/ EngineReadsTime)
                         => now' \in {Ideal' - 1, Ideal'}
<1>0. (ClockInv /\ basetime # 0 => Tics \in {Ideal - 1, Ideal})'
  <2>1. ClockInv /\ basetime # 0 => Tics \in {Ideal - 1, Ideal}
    BY NearIdeal
  <2> QED
    BY <2>1, PTL
<1>1. RoutinesInit => ClockInv
  BY ClockStarts DEF RoutinesInit
<1>2. [RoutinesNext]_routineVars => [ClockNext]_clockVars
  BY DEF RoutinesNext, routineVars, Dividing, Copying, Drawing, Sounding, Allocating, Bumping,
         Timing, Over
<1>3. ClockInv /\ [RoutinesNext]_routineVars => ClockInv'
  BY <1>2, ClockKept
<1>4. ASSUME ClockInv, ClockInv', [ClockNext]_clockVars
      PROVE  [Good]_clockVars
  <2>1. CASE \E k \in Steps : TscAdvances(k)
    <3>1. PICK k \in Steps : TscAdvances(k)
      BY <2>1
    <3>2. tsc' = tsc + k /\ now' = now
      BY <3>1 DEF TscAdvances
    <3>3. k \in Nat \ {0} /\ tsc \in Nat /\ now \in Int
      BY <1>4, ClockAssumption DEF ClockInv
    <3>4. now' >= now /\ ~doom_update /\ ~EngineReadsTime
      BY <3>2, <3>3 DEF doom_update, EngineReadsTime
    <3> QED
      BY <3>4
  <2>2. CASE doom_init
    BY <1>4, <2>2 DEF doom_init, ClockInv, doom_update, EngineReadsTime
  <2>3. CASE doom_update \/ EngineReadsTime
    <3>1. I_GetTime /\ UNCHANGED tsc
      BY <2>3 DEF doom_update, EngineReadsTime
    <3>2. basetime # 0 => now' >= now
      BY <1>4, <3>1, GetTimeReads
    <3>3. basetime' # 0 => now' = Tics'
      BY <1>4, <3>1, GetTimeReads
    <3>4. basetime' # 0 => Tics' \in {Ideal' - 1, Ideal'}
      BY <1>0, <1>4
    <3> QED
      BY <3>2, <3>3, <3>4
  <2> QED
    BY <1>4, <2>1, <2>2, <2>3 DEF ClockNext
<1> HIDE DEF Good
<1>5. ClockInv /\ ClockInv' /\ [RoutinesNext]_routineVars => [Good]_clockVars
  BY <1>2, <1>4
<1>6. RoutinesSpec => [][Good]_clockVars
  BY <1>1, <1>3, <1>5, PTL DEF RoutinesSpec
<1> QED
  BY <1>6 DEF Good, SteadyAndAccurate

-----------------------------------------------------------------------------
(* The screen.  A buffer with some cells inked, and what a call has sent to *)
(* the palette.                                                            *)

\* A buffer once the cells of S are inked.
Drawn(S, first) == [a \in Offset |-> IF a \in S THEN Ink ELSE first[a]]

\* The cells of a rectangle that the loops have passed.
Passed(r, column, row) ==
    {a \in Offset : \E x \in 0 .. Width - 1, y \in 0 .. Height - 1 :
        /\ a = Cell(x, y)
        /\ r.x <= x /\ x < r.x + r.width
        /\ r.y <= y /\ y < r.y + r.height
        /\ y < row \/ (y = row /\ x < column)}

\* The components of one entry that a call sends, as six bits each.
Component(e) == [c \in 1 .. 3 |-> IF vgaCall.fn = "set_palette" THEN Scaled(PaletteByte(3 * e + c - 1))
                                  ELSE Scaled(vgaCall.rgb[c])]
FirstOnes(f, n) == [c \in 1 .. n |-> f[c]]

InkedIn(fn, first) == IF vgaCall.fn = fn THEN Drawn(Passed(rect, cx, cy), first) ELSE first

Clipped(c) == [x |-> Clip(c.x, c.width, Width).at, y |-> Clip(c.y, c.height, Height).at,
               width |-> Clip(c.x, c.width, Width).length,
               height |-> Clip(c.y, c.height, Height).length]

\* DrawnAsAsked of a call, the buffers and the palette when it returns.
AskedOf(c, fns, a) ==
    /\ c.fn \in fns
    /\ \E x \in 0 .. Width - 1, y \in 0 .. Height - 1 :
        /\ a = Cell(x, y)
        /\ IF c.fn \in {"write_pixel", "write_back_pixel"} THEN x = c.x /\ y = c.y
           ELSE /\ c.x <= x /\ x < c.x + c.width
                /\ c.y <= y /\ y < c.y + c.height

FrontOf(c) == [a \in Offset |-> IF AskedOf(c, {"write_pixel", "draw_rect"}, a) THEN Ink
                                ELSE IF c.fn = "blit" /\ a \in 0 .. ScreenSize - 1 THEN BackAtFirst[a]
                                ELSE FrontAtFirst[a]]
BackOf(c) == [a \in Offset |-> IF AskedOf(c, {"write_back_pixel", "draw_rect_back"}, a) THEN Ink
                               ELSE BackAtFirst[a]]
EntryOf(c, e) == CASE c.fn = "set_palette" ->
                            [comp \in 1 .. 3 |-> Scaled(PaletteByte(3 * e + comp - 1))]
                   [] c.fn = "set_palette_entry" /\ c.index = e ->
                            [comp \in 1 .. 3 |-> Scaled(c.rgb[comp])]
                   [] OTHER -> EntriesAtFirst[e]

RectOK ==
    /\ vgaCall.fn \in {"draw_rect", "draw_rect_back"}
    /\ {vgaCall.x, vgaCall.y, vgaCall.width, vgaCall.height} \subseteq Int
    /\ rect = Clipped(vgaCall)
    /\ cx \in Int /\ cy \in Int /\ rect.x <= cx /\ rect.y <= cy
    /\ front = InkedIn("draw_rect", FrontAtFirst)
    /\ back = InkedIn("draw_rect_back", BackAtFirst)

BlitOK ==
    /\ vgaCall.fn = "blit"
    /\ word \in 0 .. ScreenSize \div 4
    /\ front = [a \in Offset |-> IF a \in 0 .. 4 * word - 1 THEN BackAtFirst[a] ELSE FrontAtFirst[a]]
    /\ back = BackAtFirst

\* k entries and the first n components of the next have been sent.
Sent(k, n) ==
    /\ n \in 0 .. 2 /\ cx = 3 * k + n
    /\ dac.held = FirstOnes(Component(k), n)

PaletteOK ==
    /\ front = FrontAtFirst /\ back = BackAtFirst
    /\ \/ /\ vgaCall.fn = "set_palette"
          /\ \E k \in 0 .. PaletteSize, n \in 0 .. 2 :
                /\ Sent(k, n)
                /\ k < PaletteSize => dac.index = k
                /\ k = PaletteSize => n = 0
                /\ dac.entry = [e \in 0 .. PaletteSize - 1 |->
                                    IF e < k THEN Component(e) ELSE EntriesAtFirst[e]]
       \/ /\ vgaCall.fn = "set_palette_entry"
          /\ vgaCall.index \in 0 .. PaletteSize - 1
          /\ \E k \in 0 .. 1, n \in 0 .. 2 :
                /\ Sent(k, n)
                /\ k = 0 => dac.index = vgaCall.index
                /\ k = 1 => n = 0
                /\ dac.entry = [e \in 0 .. PaletteSize - 1 |->
                                    IF e = vgaCall.index /\ k = 1 THEN Component(e)
                                    ELSE EntriesAtFirst[e]]

ScreenInv ==
    /\ vgaPc \in {"idle", "rect", "blit", "palette", "done"}
    /\ dac = [index |-> dac.index, held |-> dac.held, entry |-> dac.entry]
    /\ vgaPc = "idle" => front = FrontAtFirst /\ back = BackAtFirst
    /\ vgaPc = "idle" => word = 0
    /\ vgaPc # "palette" /\ vgaPc # "done" => dac.entry = EntriesAtFirst
    /\ vgaPc = "rect" => RectOK
    /\ vgaPc = "blit" => BlitOK
    /\ vgaPc = "palette" => PaletteOK
    /\ DrawnAsAsked

\* What is left of a side after clipping is what lies on the screen.
LEMMA ClipIsExact ==
    ASSUME NEW at \in Int, NEW length \in Int, NEW limit \in Nat
    PROVE  /\ Clip(at, length, limit).at \in Nat /\ Clip(at, length, limit).length \in Int
           /\ \A x \in Int :
                 /\ Clip(at, length, limit).at <= x
                 /\ x < Clip(at, length, limit).at + Clip(at, length, limit).length
                 <=> 0 <= x /\ x < limit /\ at <= x /\ x < at + length
<1> DEFINE at0 == IF at < 0 THEN 0 ELSE at
           length0 == IF at < 0 THEN length + at ELSE length
           length1 == IF at0 + length0 > limit THEN limit - at0 ELSE length0
<1>1. Clip(at, length, limit).at = at0 /\ Clip(at, length, limit).length = length1
  BY DEF Clip
<1>2. at0 \in Nat /\ length0 \in Int /\ length1 \in Int
  OBVIOUS
<1>3. ASSUME NEW x \in Int
      PROVE  at0 <= x /\ x < at0 + length1 <=> 0 <= x /\ x < limit /\ at <= x /\ x < at + length
  OBVIOUS
<1> QED
  BY <1>1, <1>2, <1>3

LEMMA CellsAreOffsets ==
    ASSUME NEW x \in 0 .. Width - 1, NEW y \in 0 .. Height - 1
    PROVE  Cell(x, y) \in Offset
<1>1. Width \in Nat /\ Height \in Nat /\ Margin \in Nat
  BY ScreenAssumption
<1>2. y * Width \in Nat /\ y * Width <= (Height - 1) * Width
  BY <1>1
<1>3. (Height - 1) * Width = Height * Width - Width
  BY <1>1
<1>4. Cell(x, y) \in Nat /\ Cell(x, y) < Height * Width
  BY <1>1, <1>2, <1>3 DEF Cell
<1>5. Height * Width <= (Height + Margin + 1) * (Width + 1)
  <2>1. Height * Width <= (Height + Margin + 1) * Width
    BY <1>1
  <2>2. (Height + Margin + 1) * Width <= (Height + Margin + 1) * (Width + 1)
    BY <1>1
  <2> QED
    BY <1>1, <2>1, <2>2
<1>6. -(Margin + 1) * (Width + 1) <= 0 /\ -(Margin + 1) * (Width + 1) \in Int
  <2>1. (Margin + 1) * (Width + 1) \in Nat
    BY <1>1
  <2> QED
    BY <1>1, <2>1
<1> QED
  BY <1>1, <1>4, <1>5, <1>6 DEF Offset

\* Inking one cell more.
LEMMA InkOne ==
    ASSUME NEW S, NEW first, NEW a \in Offset
    PROVE  [Drawn(S, first) EXCEPT ![a] = Ink] = Drawn(S \cup {a}, first)
BY DEF Drawn

LEMMA ScreenStarts == ScreenInit => ScreenInv
BY DEF ScreenInit, ScreenInv, DrawnAsAsked

\* A return with the buffers and the palette asked for is one DrawnAsAsked allows.
LEMMA DrawnIsNext ==
    ASSUME vgaPc' = "done" => /\ front' = FrontOf(vgaCall') /\ back' = BackOf(vgaCall')
                              /\ \A e \in 0 .. PaletteSize - 1 : dac'.entry[e] = EntryOf(vgaCall', e)
    PROVE  DrawnAsAsked'
BY DEF DrawnAsAsked, FrontOf, BackOf, EntryOf, Asked, AskedOf

\* What a call asks of a buffer it does not draw in, and of the palette.
LEMMA FrontUntouched ==
    ASSUME NEW c, c.fn \notin {"write_pixel", "draw_rect", "blit"}
    PROVE  FrontOf(c) = FrontAtFirst
BY DEF FrontOf, AskedOf, FrontAtFirst

LEMMA BackUntouched ==
    ASSUME NEW c, c.fn \notin {"write_back_pixel", "draw_rect_back"}
    PROVE  BackOf(c) = BackAtFirst
BY DEF BackOf, AskedOf, BackAtFirst

LEMMA PaletteUntouched ==
    ASSUME NEW c, c.fn \notin {"set_palette", "set_palette_entry"}, NEW e
    PROVE  EntryOf(c, e) = EntriesAtFirst[e]
BY DEF EntryOf

LEMMA AskedPixel ==
    ASSUME NEW c, c.fn \in {"write_pixel", "write_back_pixel"}, c.x \in Int, c.y \in Int,
           NEW fns, NEW a
    PROVE  AskedOf(c, fns, a) <=> c.fn \in fns /\ OnScreen(c.x, c.y) /\ a = Cell(c.x, c.y)
<1>1. Width \in Nat /\ Height \in Nat
  BY ScreenAssumption
<1>2. OnScreen(c.x, c.y) <=> c.x \in 0 .. Width - 1 /\ c.y \in 0 .. Height - 1
  BY <1>1 DEF OnScreen
<1> QED
  BY <1>2, Zenon DEF AskedOf

LEMMA PixelKeeps ==
    ASSUME ScreenInv, Pixel
    PROVE  ScreenInv'
<1>1. PICK x \in Column, y \in Row : \/ vga_write_pixel(x, y) \/ vga_write_back_pixel(x, y)
                                     \/ vga_read_pixel(x, y) \/ vga_read_back_pixel(x, y)
  BY DEF Pixel
<1>2. front = FrontAtFirst /\ back = BackAtFirst /\ dac.entry = EntriesAtFirst
  BY DEF Pixel, ScreenInv
<1>3. x \in Int /\ y \in Int
  BY ScreenAssumption DEF Column, Row
<1>5. vgaPc' = "done" /\ dac' = dac /\ vgaCall'.x = x /\ vgaCall'.y = y
      /\ vgaCall'.fn \in {"write_pixel", "write_back_pixel", "read_pixel", "read_back_pixel"}
  BY <1>1 DEF vga_write_pixel, vga_write_back_pixel, vga_read_pixel, vga_read_back_pixel, Read
<1>6. \A e \in 0 .. PaletteSize - 1 : dac'.entry[e] = EntryOf(vgaCall', e)
  BY <1>2, <1>5, PaletteUntouched
<1>7. front' = FrontOf(vgaCall') /\ back' = BackOf(vgaCall')
  <2>1. CASE vga_write_pixel(x, y)
    <3>1. /\ front' = IF OnScreen(x, y) THEN [front EXCEPT ![Cell(x, y)] = Ink] ELSE front
          /\ back' = back
          /\ vgaCall'.fn = "write_pixel"
      BY <2>1 DEF vga_write_pixel
    <3>2. \A a : AskedOf(vgaCall', {"write_pixel", "draw_rect"}, a)
                    <=> OnScreen(x, y) /\ a = Cell(x, y)
      BY <3>1, <1>3, <1>5, AskedPixel
    <3>3. front' = FrontOf(vgaCall')
      BY <1>2, <3>1, <3>2 DEF FrontOf, FrontAtFirst
    <3> QED
      BY <1>2, <3>1, <3>3, BackUntouched
  <2>2. CASE vga_write_back_pixel(x, y)
    <3>1. /\ back' = IF OnScreen(x, y) THEN [back EXCEPT ![Cell(x, y)] = Ink] ELSE back
          /\ front' = front
          /\ vgaCall'.fn = "write_back_pixel"
      BY <2>2 DEF vga_write_back_pixel
    <3>2. \A a : AskedOf(vgaCall', {"write_back_pixel", "draw_rect_back"}, a)
                    <=> OnScreen(x, y) /\ a = Cell(x, y)
      BY <3>1, <1>3, <1>5, AskedPixel
    <3>3. back' = BackOf(vgaCall')
      BY <1>2, <3>1, <3>2 DEF BackOf, BackAtFirst
    <3> QED
      BY <1>2, <3>1, <3>3, FrontUntouched
  <2>3. CASE vga_read_pixel(x, y) \/ vga_read_back_pixel(x, y)
    <3>1. front' = front /\ back' = back /\ vgaCall'.fn \in {"read_pixel", "read_back_pixel"}
      BY <2>3 DEF vga_read_pixel, vga_read_back_pixel, Read
    <3> QED
      BY <1>2, <3>1, FrontUntouched, BackUntouched
  <2> QED
    BY <1>1, <2>1, <2>2, <2>3
<1>8. DrawnAsAsked'
  BY <1>6, <1>7, DrawnIsNext
<1> QED
  BY <1>5, <1>8 DEF ScreenInv

\* The loops are inside the screen, and the cells they have passed grow by one in
\* each turn, and by none from row to row.
LEMMA InsideScreen ==
    ASSUME RectOK
    PROVE  /\ rect.x \in Nat /\ rect.y \in Nat /\ rect.width \in Int /\ rect.height \in Int
           /\ \A x \in Int : rect.x <= x /\ x < rect.x + rect.width
                 <=> x \in 0 .. Width - 1 /\ vgaCall.x <= x /\ x < vgaCall.x + vgaCall.width
           /\ \A y \in Int : rect.y <= y /\ y < rect.y + rect.height
                 <=> y \in 0 .. Height - 1 /\ vgaCall.y <= y /\ y < vgaCall.y + vgaCall.height
<1>1. Width \in Nat /\ Height \in Nat
  BY ScreenAssumption
<1>2. vgaCall.x \in Int /\ vgaCall.y \in Int /\ vgaCall.width \in Int /\ vgaCall.height \in Int
  BY DEF RectOK
<1>3. /\ rect.x = Clip(vgaCall.x, vgaCall.width, Width).at
      /\ rect.y = Clip(vgaCall.y, vgaCall.height, Height).at
      /\ rect.width = Clip(vgaCall.x, vgaCall.width, Width).length
      /\ rect.height = Clip(vgaCall.y, vgaCall.height, Height).length
  BY DEF RectOK, Clipped
<1>4. /\ rect.x \in Nat /\ rect.width \in Int
      /\ \A x \in Int : rect.x <= x /\ x < rect.x + rect.width
            <=> 0 <= x /\ x < Width /\ vgaCall.x <= x /\ x < vgaCall.x + vgaCall.width
  <2> DEFINE across == Clip(vgaCall.x, vgaCall.width, Width)
  <2>1. /\ across.at \in Nat /\ across.length \in Int
        /\ \A x \in Int : across.at <= x /\ x < across.at + across.length
              <=> 0 <= x /\ x < Width /\ vgaCall.x <= x /\ x < vgaCall.x + vgaCall.width
    BY <1>1, <1>2, ClipIsExact
  <2> QED
    BY <1>3, <2>1
<1>5. /\ rect.y \in Nat /\ rect.height \in Int
      /\ \A y \in Int : rect.y <= y /\ y < rect.y + rect.height
            <=> 0 <= y /\ y < Height /\ vgaCall.y <= y /\ y < vgaCall.y + vgaCall.height
  <2> DEFINE down == Clip(vgaCall.y, vgaCall.height, Height)
  <2>1. /\ down.at \in Nat /\ down.length \in Int
        /\ \A y \in Int : down.at <= y /\ y < down.at + down.length
              <=> 0 <= y /\ y < Height /\ vgaCall.y <= y /\ y < vgaCall.y + vgaCall.height
    BY <1>1, <1>2, ClipIsExact
  <2> QED
    BY <1>3, <2>1
<1> QED
  BY <1>1, <1>4, <1>5

LEMMA RectStarts ==
    ASSUME ScreenInv, vga_draw_rect
    PROVE  ScreenInv'
<1>1. PICK fn \in {"draw_rect", "draw_rect_back"}, x \in Column, y \in Row,
          width \in -1 .. Width + 2 * Margin, height \in -1 .. Height + 2 * Margin :
        /\ vgaCall' = [fn |-> fn, x |-> x, y |-> y, width |-> width, height |-> height]
        /\ rect' = Clipped(vgaCall')
        /\ cx' = rect'.x /\ cy' = rect'.y
  BY DEF vga_draw_rect, Clipped
<1>2. x \in Int /\ y \in Int /\ width \in Int /\ height \in Int /\ Width \in Nat /\ Height \in Nat
  BY ScreenAssumption DEF Column, Row
<1>3. rect'.x \in Nat /\ rect'.y \in Nat
  BY <1>1, <1>2, ClipIsExact DEF Clipped
<1>4. Passed(rect', cx', cy') = {}
  BY <1>1, <1>3 DEF Passed
<1>5. /\ front = FrontAtFirst /\ back = BackAtFirst /\ dac.entry = EntriesAtFirst
      /\ front' = front /\ back' = back /\ dac' = dac /\ vgaPc' = "rect"
  BY DEF vga_draw_rect, ScreenInv
<1>6. Drawn({}, FrontAtFirst) = FrontAtFirst /\ Drawn({}, BackAtFirst) = BackAtFirst
  BY DEF Drawn, FrontAtFirst, BackAtFirst
<1>7. RectOK'
  <2>1. /\ vgaCall'.fn \in {"draw_rect", "draw_rect_back"}
        /\ {vgaCall'.x, vgaCall'.y, vgaCall'.width, vgaCall'.height} \subseteq Int
    BY <1>1, <1>2
  <2>2. cx' \in Int /\ cy' \in Int /\ rect'.x <= cx' /\ rect'.y <= cy'
    BY <1>1, <1>3
  <2>3. front' = InkedIn("draw_rect", FrontAtFirst)' /\ back' = InkedIn("draw_rect_back", BackAtFirst)'
    BY <1>4, <1>5, <1>6 DEF InkedIn
  <2> QED
    BY <1>1, <2>1, <2>2, <2>3 DEF RectOK
<1> QED
  BY <1>5, <1>7 DEF ScreenInv, DrawnAsAsked

LEMMA CellKeeps ==
    ASSUME ScreenInv, DrawCell
    PROVE  ScreenInv'
<1>1. RectOK /\ vgaPc = "rect" /\ cx \in Int /\ cy \in Int
  BY DEF ScreenInv, RectOK, DrawCell
<1>2. UNCHANGED <<vgaCall, vgaPc, rect, cy, dac>> /\ cx' = cx + 1
  BY DEF DrawCell
<1>3. rect.x <= cx /\ cx < rect.x + rect.width /\ rect.y <= cy /\ cy < rect.y + rect.height
  BY DEF DrawCell, ScreenInv, RectOK
<1>4. cx \in 0 .. Width - 1 /\ cy \in 0 .. Height - 1
  BY <1>1, <1>3, InsideScreen
<1>5. Cell(cx, cy) \in Offset
  BY <1>4, CellsAreOffsets
<1>6. Passed(rect, cx + 1, cy) = Passed(rect, cx, cy) \cup {Cell(cx, cy)}
  <2>1. \A x \in 0 .. Width - 1, y \in 0 .. Height - 1 :
            y < cy \/ (y = cy /\ x < cx + 1) <=> y < cy \/ (y = cy /\ x < cx) \/ (y = cy /\ x = cx)
    BY <1>1
  <2> QED
    BY <1>3, <1>4, <1>5, <2>1 DEF Passed
<1>7. /\ vgaCall.fn = "draw_rect" => front' = [front EXCEPT ![Cell(cx, cy)] = Ink] /\ back' = back
      /\ vgaCall.fn # "draw_rect" => back' = [back EXCEPT ![Cell(cx, cy)] = Ink] /\ front' = front
  BY DEF DrawCell
<1>8. front' = InkedIn("draw_rect", FrontAtFirst)'
  <2>1. CASE vgaCall.fn = "draw_rect"
    <3>1. front = Drawn(Passed(rect, cx, cy), FrontAtFirst)
      BY <1>1, <2>1 DEF RectOK, InkedIn
    <3>2. front' = Drawn(Passed(rect, cx, cy) \cup {Cell(cx, cy)}, FrontAtFirst)
      BY <1>5, <1>7, <2>1, <3>1, InkOne
    <3> QED
      BY <1>2, <1>6, <2>1, <3>2 DEF InkedIn
  <2>2. CASE vgaCall.fn # "draw_rect"
    BY <1>1, <1>2, <1>7, <2>2 DEF RectOK, InkedIn
  <2> QED
    BY <2>1, <2>2
<1>9. back' = InkedIn("draw_rect_back", BackAtFirst)'
  <2>1. CASE vgaCall.fn = "draw_rect_back"
    <3>1. back = Drawn(Passed(rect, cx, cy), BackAtFirst)
      BY <1>1, <2>1 DEF RectOK, InkedIn
    <3>2. back' = Drawn(Passed(rect, cx, cy) \cup {Cell(cx, cy)}, BackAtFirst)
      BY <1>5, <1>7, <2>1, <3>1, InkOne
    <3> QED
      BY <1>2, <1>6, <2>1, <3>2 DEF InkedIn
  <2>2. CASE vgaCall.fn # "draw_rect_back"
    BY <1>1, <1>2, <1>7, <2>2 DEF RectOK, InkedIn
  <2> QED
    BY <2>1, <2>2
<1>10. RectOK'
  BY <1>1, <1>2, <1>8, <1>9, InsideScreen DEF RectOK
<1> QED
  BY <1>1, <1>2, <1>10 DEF ScreenInv, DrawnAsAsked

LEMMA RowKeeps ==
    ASSUME ScreenInv, NextRow
    PROVE  ScreenInv'
<1>1. RectOK /\ vgaPc = "rect" /\ cx \in Int /\ cy \in Int
  BY DEF ScreenInv, RectOK, NextRow
<1>2. UNCHANGED <<vgaCall, vgaPc, rect, dac, front, back>> /\ cy' = cy + 1 /\ cx' = rect.x
      /\ cx >= rect.x + rect.width
  BY DEF NextRow
<1>3. rect.x \in Nat /\ rect.width \in Int
  BY <1>1, InsideScreen
<1>4. Passed(rect, rect.x, cy + 1) = Passed(rect, cx, cy)
  <2>1. \A x \in 0 .. Width - 1, y \in 0 .. Height - 1 : rect.x <= x /\ x < rect.x + rect.width =>
            (y < cy + 1 \/ (y = cy + 1 /\ x < rect.x) <=> y < cy \/ (y = cy /\ x < cx))
    BY <1>1, <1>2, <1>3
  <2> QED
    BY <2>1 DEF Passed
<1>5. RectOK'
  BY <1>1, <1>2, <1>3, <1>4, InsideScreen DEF RectOK, InkedIn
<1> QED
  BY <1>1, <1>2, <1>5 DEF ScreenInv, DrawnAsAsked

\* A blit has copied the words it has passed.
LEMMA BlitStarts ==
    ASSUME ScreenInv, vga_blit
    PROVE  ScreenInv'
<1>1. /\ front = FrontAtFirst /\ back = BackAtFirst /\ word = 0 /\ dac.entry = EntriesAtFirst
      /\ vgaCall' = [fn |-> "blit"] /\ vgaPc' = "blit"
      /\ UNCHANGED <<front, back, word, dac>>
  BY DEF vga_blit, ScreenInv
<1>2. 0 \in 0 .. ScreenSize \div 4
  BY ScreenAssumption DEF ScreenSize
<1>3. [a \in Offset |-> IF a \in 0 .. 4 * 0 - 1 THEN BackAtFirst[a] ELSE FrontAtFirst[a]]
        = FrontAtFirst
  BY DEF FrontAtFirst, Offset
<1>4. BlitOK'
  BY <1>1, <1>2, <1>3 DEF BlitOK
<1> QED
  BY <1>1, <1>4 DEF ScreenInv, DrawnAsAsked

LEMMA MovsdKeeps ==
    ASSUME ScreenInv, Movsd
    PROVE  ScreenInv'
<1>1. BlitOK /\ vgaPc = "blit" /\ word < ScreenSize \div 4 /\ dac.entry = EntriesAtFirst
  BY DEF Movsd, ScreenInv
<1>2. UNCHANGED <<vgaCall, vgaPc, back, dac>> /\ word' = word + 1
      /\ front' = [a \in Offset |-> IF a \in 4 * word .. 4 * word + 3 THEN back[a] ELSE front[a]]
  BY DEF Movsd
<1>3. word \in Nat /\ ScreenSize \in Nat /\ ScreenSize \div 4 \in Nat
  BY <1>1, ScreenAssumption DEF BlitOK, ScreenSize
<1>4. \A a \in Int : a \in 0 .. 4 * (word + 1) - 1
                        <=> a \in 0 .. 4 * word - 1 \/ a \in 4 * word .. 4 * word + 3
  BY <1>3
<1>5. Offset \subseteq Int
  BY DEF Offset
<1>6. front' = [a \in Offset |-> IF a \in 0 .. 4 * (word + 1) - 1 THEN BackAtFirst[a]
                                 ELSE FrontAtFirst[a]]
  BY <1>1, <1>2, <1>4, <1>5 DEF BlitOK
<1>7. word' \in 0 .. ScreenSize \div 4
  BY <1>1, <1>2, <1>3
<1>8. BlitOK'
  BY <1>1, <1>2, <1>6, <1>7 DEF BlitOK
<1> QED
  BY <1>1, <1>2, <1>8 DEF ScreenInv, DrawnAsAsked


\* The palette.
LEMMA AppendNext ==
    ASSUME NEW f, NEW n \in Nat
    PROVE  /\ Append(FirstOnes(f, n), f[n + 1]) = FirstOnes(f, n + 1)
           /\ Len(Append(FirstOnes(f, n), f[n + 1])) = n + 1
           /\ FirstOnes(f, 0) = <<>>
<1> DEFINE S == {f[c] : c \in 1 .. n + 1}
<1>1. FirstOnes(f, n) \in Seq(S) /\ Len(FirstOnes(f, n)) = n /\ f[n + 1] \in S
  BY DEF FirstOnes
<1>2. FirstOnes(f, n + 1) \in Seq(S) /\ Len(FirstOnes(f, n + 1)) = n + 1
  BY DEF FirstOnes
<1>3. \A c \in 1 .. n + 1 : Append(FirstOnes(f, n), f[n + 1])[c] = FirstOnes(f, n + 1)[c]
  BY <1>1 DEF FirstOnes
<1>4. Append(FirstOnes(f, n), f[n + 1]) \in Seq(S) /\ Len(Append(FirstOnes(f, n), f[n + 1])) = n + 1
  BY <1>1
<1>5. FirstOnes(f, 0) = <<>>
  BY DEF FirstOnes
<1> QED
  BY <1>2, <1>3, <1>4, <1>5

LEMMA PaletteStarts ==
    ASSUME ScreenInv, vga_set_palette \/ vga_set_palette_entry
    PROVE  ScreenInv'
<1>1. /\ front = FrontAtFirst /\ back = BackAtFirst /\ dac.entry = EntriesAtFirst
      /\ vgaPc' = "palette" /\ UNCHANGED <<front, back>> /\ cx' = 0
      /\ dac = [index |-> dac.index, held |-> dac.held, entry |-> dac.entry]
  BY DEF vga_set_palette, vga_set_palette_entry, ScreenInv
<1>2. PaletteSize \in Nat
  BY ScreenAssumption
<1>3. CASE vga_set_palette
  <2>1. dac' = [index |-> 0, held |-> <<>>, entry |-> EntriesAtFirst] /\ vgaCall'.fn = "set_palette"
    BY <1>1, <1>3 DEF vga_set_palette, DacIndex
  <2>2. Sent(0, 0)'
    BY <1>1, <2>1, AppendNext DEF Sent
  <2>3. dac'.entry = [e \in 0 .. PaletteSize - 1 |->
                        IF e < 0 THEN Component(e)' ELSE EntriesAtFirst[e]]
    BY <1>2, <2>1 DEF EntriesAtFirst
  <2>4. PaletteOK'
    BY <1>1, <1>2, <2>1, <2>2, <2>3 DEF PaletteOK
  <2> QED
    BY <1>1, <2>1, <2>4 DEF ScreenInv, DrawnAsAsked
<1>4. CASE vga_set_palette_entry
  <2>1. PICK e \in 0 .. PaletteSize - 1 :
          /\ dac' = [index |-> e, held |-> <<>>, entry |-> EntriesAtFirst]
          /\ vgaCall'.fn = "set_palette_entry" /\ vgaCall'.index = e
    <3>1. PICK e \in 0 .. PaletteSize - 1, r, g, b \in Colours :
            /\ vgaCall' = [fn |-> "set_palette_entry", index |-> e, rgb |-> <<r, g, b>>]
            /\ dac' = DacIndex(e)
      BY <1>4 DEF vga_set_palette_entry
    <3>2. DacIndex(e) = [index |-> e, held |-> <<>>, entry |-> EntriesAtFirst]
      <4>1. DacIndex(e) = [dac EXCEPT !.index = e, !.held = <<>>]
        BY DEF DacIndex
      <4>2. PICK p, q : dac = [index |-> p, held |-> q, entry |-> EntriesAtFirst]
        BY <1>1
      <4> QED
        BY <4>1, <4>2
    <3> QED
      BY <3>1, <3>2
  <2>2. Sent(0, 0)'
    BY <1>1, <2>1, AppendNext DEF Sent
  <2>3. dac'.entry = [d \in 0 .. PaletteSize - 1 |->
                        IF d = vgaCall'.index /\ 0 = 1 THEN Component(d)' ELSE EntriesAtFirst[d]]
    BY <1>2, <2>1 DEF EntriesAtFirst
  <2>4. PaletteOK'
    BY <1>1, <1>2, <2>1, <2>2, <2>3 DEF PaletteOK
  <2> QED
    BY <1>1, <2>1, <2>4 DEF ScreenInv, DrawnAsAsked
<1> QED
  BY <1>3, <1>4

\* A byte to the port: the component after the n that are there.
LEMMA DacTakes ==
    ASSUME NEW f, NEW n \in 0 .. 2, dac.held = FirstOnes(f, n),
           dac = [index |-> dac.index, held |-> dac.held, entry |-> dac.entry]
    PROVE  /\ n < 2 => DacData(f[n + 1]) = [index |-> dac.index, held |-> FirstOnes(f, n + 1),
                                            entry |-> dac.entry]
           /\ n = 2 => DacData(f[n + 1]) =
                          [index |-> (dac.index + 1) % PaletteSize, held |-> <<>>,
                           entry |-> [dac.entry EXCEPT ![dac.index] = FirstOnes(f, 3)]]
<1>1. Append(dac.held, f[n + 1]) = FirstOnes(f, n + 1) /\ Len(Append(dac.held, f[n + 1])) = n + 1
  BY AppendNext
<1>2. CASE n < 2
  BY <1>1, <1>2 DEF DacData
<1>3. CASE n = 2
  BY <1>1, <1>3 DEF DacData
<1> QED
  BY <1>2, <1>3

LEMMA ComponentKeeps ==
    ASSUME ScreenInv, NextComponent
    PROVE  ScreenInv'
<1>1. /\ PaletteOK /\ vgaPc = "palette" /\ cx < Bytes
      /\ dac = [index |-> dac.index, held |-> dac.held, entry |-> dac.entry]
      /\ UNCHANGED <<vgaCall, vgaPc, front, back>> /\ cx' = cx + 1
  BY DEF ScreenInv, NextComponent
<1>2. PaletteSize \in Nat
  BY ScreenAssumption
<1>3. \A e : Component(e)' = Component(e)
  BY <1>1 DEF Component
<1>4. \A e : FirstOnes(Component(e), 3) = Component(e)
  BY DEF FirstOnes, Component
<1>5. FirstOnes(Component(0), 0) = <<>> /\ \A k : FirstOnes(Component(k), 0) = <<>>
  BY AppendNext
<1>6. CASE vgaCall.fn = "set_palette"
  <2>1. PICK k \in 0 .. PaletteSize, n \in 0 .. 2 :
          /\ Sent(k, n)
          /\ k < PaletteSize => dac.index = k
          /\ k = PaletteSize => n = 0
          /\ dac.entry = [e \in 0 .. PaletteSize - 1 |->
                              IF e < k THEN Component(e) ELSE EntriesAtFirst[e]]
    BY <1>1, <1>6 DEF PaletteOK
  <2>2. cx = 3 * k + n /\ dac.held = FirstOnes(Component(k), n) /\ k < PaletteSize /\ dac.index = k
    BY <1>1, <1>2, <1>6, <2>1 DEF Sent, Bytes
  <2>3. Component(k)[n + 1] = Scaled(PaletteByte(cx))
    <3>1. n + 1 \in 1 .. 3 /\ 3 * k + (n + 1) - 1 = cx
      BY <2>2
    <3> QED
      BY <1>6, <3>1 DEF Component
  <2>4. dac' = DacData(Component(k)[n + 1])
    BY <1>6, <2>3 DEF NextComponent
  <2>5. CASE n < 2
    <3>1. dac' = [index |-> k, held |-> FirstOnes(Component(k), n + 1), entry |-> dac.entry]
      BY <1>1, <2>2, <2>4, <2>5, DacTakes
    <3>2. Sent(k, n + 1)'
      BY <1>1, <1>3, <2>2, <2>5, <3>1 DEF Sent
    <3>3. PaletteOK'
      BY <1>1, <1>3, <1>6, <2>1, <2>2, <2>5, <3>1, <3>2 DEF PaletteOK
    <3> QED
      BY <1>1, <3>1, <3>3 DEF ScreenInv, DrawnAsAsked
  <2>6. CASE n = 2
    <3>1. dac' = [index |-> (k + 1) % PaletteSize, held |-> <<>>,
                  entry |-> [dac.entry EXCEPT ![k] = Component(k)]]
      <4>1. FirstOnes(Component(k), 3) = Component(k)
        BY <1>4
      <4>2. DacData(Component(k)[n + 1]) = [index |-> (dac.index + 1) % PaletteSize, held |-> <<>>,
                entry |-> [dac.entry EXCEPT ![dac.index] = FirstOnes(Component(k), 3)]]
        BY <1>1, <2>2, <2>6, DacTakes
      <4> QED
        BY <2>2, <2>4, <4>1, <4>2
    <3>2. Sent(k + 1, 0)'
      BY <1>1, <1>3, <1>5, <2>2, <2>6, <3>1 DEF Sent
    <3>3. k + 1 < PaletteSize => dac'.index = k + 1
      BY <1>2, <3>1
    <3>4. dac'.entry = [e \in 0 .. PaletteSize - 1 |->
                            IF e < k + 1 THEN Component(e)' ELSE EntriesAtFirst[e]]
      <4>1. dac'.entry = [dac.entry EXCEPT ![k] = Component(k)]
        BY <3>1
      <4>2. \A e \in 0 .. PaletteSize - 1 : e < k + 1 <=> e < k \/ e = k
        BY <1>2
      <4>3. dac'.entry = [e \in 0 .. PaletteSize - 1 |->
                              IF e < k + 1 THEN Component(e) ELSE EntriesAtFirst[e]]
        BY <2>1, <2>2, <4>1, <4>2
      <4> QED
        BY <1>3, <4>3
    <3>5. PaletteOK'
      BY <1>1, <1>2, <1>6, <2>2, <3>2, <3>3, <3>4 DEF PaletteOK
    <3> QED
      BY <1>1, <3>1, <3>5 DEF ScreenInv, DrawnAsAsked
  <2> QED
    BY <2>5, <2>6
<1>7. CASE vgaCall.fn = "set_palette_entry"
  <2>1. PICK k \in 0 .. 1, n \in 0 .. 2 :
          /\ Sent(k, n)
          /\ k = 0 => dac.index = vgaCall.index
          /\ k = 1 => n = 0
          /\ dac.entry = [e \in 0 .. PaletteSize - 1 |->
                              IF e = vgaCall.index /\ k = 1 THEN Component(e) ELSE EntriesAtFirst[e]]
    BY <1>1, <1>7 DEF PaletteOK
  <2>2. /\ k = 0 /\ cx = n /\ dac.held = FirstOnes(Component(0), n)
        /\ dac.index = vgaCall.index /\ dac.index \in 0 .. PaletteSize - 1
    BY <1>1, <1>7, <2>1 DEF Sent, Bytes, PaletteOK
  <2>3. Component(0)[n + 1] = Scaled(vgaCall.rgb[cx + 1])
    <3>1. n + 1 \in 1 .. 3 /\ n + 1 = cx + 1
      BY <2>2
    <3> QED
      BY <1>7, <3>1 DEF Component
  <2>4. dac' = DacData(Component(0)[n + 1])
    BY <1>7, <2>3 DEF NextComponent
  <2>5. CASE n < 2
    <3>1. dac' = [index |-> dac.index, held |-> FirstOnes(Component(0), n + 1), entry |-> dac.entry]
      BY <1>1, <2>2, <2>4, <2>5, DacTakes
    <3>2. Sent(0, n + 1)'
      BY <1>1, <1>3, <2>2, <2>5, <3>1 DEF Sent
    <3>3. PaletteOK'
      BY <1>1, <1>3, <1>7, <2>1, <2>2, <2>5, <3>1, <3>2 DEF PaletteOK
    <3> QED
      BY <1>1, <3>1, <3>3 DEF ScreenInv, DrawnAsAsked
  <2>6. CASE n = 2
    <3>1. dac' = [index |-> (dac.index + 1) % PaletteSize, held |-> <<>>,
                  entry |-> [dac.entry EXCEPT ![dac.index] = Component(0)]]
      <4>1. FirstOnes(Component(0), 3) = Component(0)
        BY <1>4
      <4>2. DacData(Component(0)[n + 1]) = [index |-> (dac.index + 1) % PaletteSize, held |-> <<>>,
                entry |-> [dac.entry EXCEPT ![dac.index] = FirstOnes(Component(0), 3)]]
        BY <1>1, <2>2, <2>6, DacTakes
      <4> QED
        BY <2>4, <4>1, <4>2
    <3>2. Sent(1, 0)'
      BY <1>1, <1>3, <1>5, <2>2, <2>6, <3>1 DEF Sent
    <3>3. \A e : Component(e) = Component(0)
      BY <1>7 DEF Component
    <3>4. dac'.entry = [e \in 0 .. PaletteSize - 1 |->
                            IF e = vgaCall'.index /\ 1 = 1 THEN Component(e)' ELSE EntriesAtFirst[e]]
      BY <1>1, <1>3, <2>1, <2>2, <3>1, <3>3
    <3>5. PaletteOK'
      BY <1>1, <1>2, <1>7, <2>2, <3>2, <3>4 DEF PaletteOK
    <3> QED
      BY <1>1, <3>1, <3>5 DEF ScreenInv, DrawnAsAsked
  <2> QED
    BY <2>5, <2>6
<1> QED
  BY <1>1, <1>6, <1>7 DEF PaletteOK

\* The loops have passed everything the call asked for.
LEMMA RectDone ==
    ASSUME RectOK, cy >= rect.y + rect.height
    PROVE  front = FrontOf(vgaCall) /\ back = BackOf(vgaCall)
<1>1. cx \in Int /\ cy \in Int /\ vgaCall.fn \in {"draw_rect", "draw_rect_back"}
  BY DEF RectOK
<1>2. \A fns : \A a \in Offset : AskedOf(vgaCall, fns, a)
                                <=> vgaCall.fn \in fns /\ a \in Passed(rect, cx, cy)
  <2>1. \A x \in 0 .. Width - 1, y \in 0 .. Height - 1 :
          /\ vgaCall.x <= x /\ x < vgaCall.x + vgaCall.width
          /\ vgaCall.y <= y /\ y < vgaCall.y + vgaCall.height
          <=>
          /\ rect.x <= x /\ x < rect.x + rect.width
          /\ rect.y <= y /\ y < rect.y + rect.height
          /\ y < cy \/ (y = cy /\ x < cx)
    BY <1>1, InsideScreen
  <2>2. vgaCall.fn \notin {"write_pixel", "write_back_pixel"}
    BY <1>1
  <2> QED
    BY <2>1, <2>2, Zenon DEF AskedOf, Passed
<1>3. CASE vgaCall.fn = "draw_rect"
  <2>1. front = Drawn(Passed(rect, cx, cy), FrontAtFirst) /\ back = BackAtFirst
    BY <1>3 DEF RectOK, InkedIn
  <2>2. front = FrontOf(vgaCall)
    <3>1. \A a \in Offset : AskedOf(vgaCall, {"write_pixel", "draw_rect"}, a) <=> a \in Passed(rect, cx, cy)
      BY <1>2, <1>3
    <3>2. vgaCall.fn # "blit"
      BY <1>3
    <3> QED
      BY <2>1, <3>1, <3>2 DEF FrontOf, Drawn
  <2> QED
    BY <1>3, <2>1, <2>2, BackUntouched
<1>4. CASE vgaCall.fn = "draw_rect_back"
  <2>1. back = Drawn(Passed(rect, cx, cy), BackAtFirst) /\ front = FrontAtFirst
    BY <1>4 DEF RectOK, InkedIn
  <2>2. back = BackOf(vgaCall)
    <3>1. \A a \in Offset : AskedOf(vgaCall, {"write_back_pixel", "draw_rect_back"}, a) <=> a \in Passed(rect, cx, cy)
      BY <1>2, <1>4
    <3>2. vgaCall.fn # "blit"
      BY <1>4
    <3> QED
      BY <2>1, <3>1, <3>2 DEF BackOf, Drawn
  <2> QED
    BY <1>4, <2>1, <2>2, FrontUntouched
<1> QED
  BY <1>1, <1>3, <1>4

LEMMA EndKeeps ==
    ASSUME ScreenInv, LoopEnds
    PROVE  ScreenInv'
<1>1. vgaPc' = "done" /\ UNCHANGED <<vgaCall, front, back, dac>>
  BY DEF LoopEnds
<1>2. CASE vgaPc = "rect" /\ cy >= rect.y + rect.height
  <2>1. RectOK /\ dac.entry = EntriesAtFirst /\ vgaCall.fn \in {"draw_rect", "draw_rect_back"}
    BY <1>2 DEF ScreenInv, RectOK
  <2> QED
    BY <1>1, <1>2, <2>1, RectDone, PaletteUntouched, DrawnIsNext DEF ScreenInv
<1>3. CASE vgaPc = "blit" /\ word = ScreenSize \div 4
  <2>1. BlitOK /\ dac.entry = EntriesAtFirst /\ vgaCall.fn = "blit"
    BY <1>3 DEF ScreenInv, BlitOK
  <2>2. 4 * word = ScreenSize
    BY <1>3, ScreenAssumption DEF ScreenSize
  <2>3. \A a : ~AskedOf(vgaCall, {"write_pixel", "draw_rect"}, a)
    BY <2>1 DEF AskedOf
  <2>4. front = FrontOf(vgaCall)
    BY <2>1, <2>2, <2>3 DEF BlitOK, FrontOf
  <2>5. back = BackOf(vgaCall)
    BY <2>1, BackUntouched DEF BlitOK
  <2> QED
    BY <1>1, <2>1, <2>4, <2>5, PaletteUntouched, DrawnIsNext DEF ScreenInv
<1>4. CASE vgaPc = "palette" /\ cx = Bytes
  <2>1. PaletteOK /\ front = FrontAtFirst /\ back = BackAtFirst
    BY <1>4 DEF ScreenInv, PaletteOK
  <2>2. vgaCall.fn \in {"set_palette", "set_palette_entry"}
    BY <2>1 DEF PaletteOK
  <2>3. front = FrontOf(vgaCall) /\ back = BackOf(vgaCall)
    BY <2>1, <2>2, FrontUntouched, BackUntouched
  <2>4. \A e \in 0 .. PaletteSize - 1 : dac.entry[e] = EntryOf(vgaCall, e)
    <3>1. PaletteSize \in Nat
      BY ScreenAssumption
    <3>2. CASE vgaCall.fn = "set_palette"
      <4>1. PICK k \in 0 .. PaletteSize, n \in 0 .. 2 :
              /\ Sent(k, n)
              /\ dac.entry = [e \in 0 .. PaletteSize - 1 |->
                                  IF e < k THEN Component(e) ELSE EntriesAtFirst[e]]
        BY <2>1, <3>2 DEF PaletteOK
      <4>2. k = PaletteSize
        BY <1>4, <3>1, <3>2, <4>1 DEF Sent, Bytes
      <4> QED
        BY <3>1, <3>2, <4>1, <4>2 DEF EntryOf, Component
    <3>3. CASE vgaCall.fn = "set_palette_entry"
      <4>1. PICK k \in 0 .. 1, n \in 0 .. 2 :
              /\ Sent(k, n)
              /\ dac.entry = [e \in 0 .. PaletteSize - 1 |->
                                  IF e = vgaCall.index /\ k = 1 THEN Component(e)
                                  ELSE EntriesAtFirst[e]]
        BY <2>1, <3>3 DEF PaletteOK
      <4>2. k = 1
        BY <1>4, <3>3, <4>1 DEF Sent, Bytes
      <4> QED
        BY <3>3, <4>1, <4>2 DEF EntryOf, Component
    <3> QED
      BY <2>2, <3>2, <3>3
  <2> QED
    BY <1>1, <2>3, <2>4, DrawnIsNext DEF ScreenInv
<1> QED
  BY <1>2, <1>3, <1>4 DEF LoopEnds

LEMMA ScreenKept == ScreenInv /\ [ScreenNext]_vgaVars => ScreenInv'
<1>1. ASSUME ScreenInv, UNCHANGED vgaVars
      PROVE  ScreenInv'
  BY <1>1 DEF vgaVars, ScreenInv, DrawnAsAsked, Asked, RectOK, InkedIn, BlitOK, PaletteOK, Sent,
              Component
<1> QED
  BY <1>1, PixelKeeps, RectStarts, CellKeeps, RowKeeps, BlitStarts, MovsdKeeps, PaletteStarts,
     ComponentKeeps, EndKeeps DEF ScreenNext

\* When a drawing function returns, the buffers and the palette hold exactly what
\* the call asked for, whatever the screen's size and the arguments: clipping
\* (vga_draw_rect), the word copy of the blit and the two ports of the palette.
THEOREM DrawingIsAsAsked == RoutinesSpec => []DrawnAsAsked
<1>1. RoutinesInit => ScreenInv
  BY ScreenStarts DEF RoutinesInit
<1>2. ScreenInv /\ [RoutinesNext]_routineVars => ScreenInv'
  BY ScreenKept DEF RoutinesNext, routineVars, Dividing, Copying, Drawing, Sounding, Allocating,
                    Bumping, Timing, Over
<1>3. ScreenInv => DrawnAsAsked
  BY DEF ScreenInv
<1> QED
  BY <1>1, <1>2, <1>3, PTL DEF RoutinesSpec

-----------------------------------------------------------------------------
(* The bump heap.  What is true of the blocks a client holds, as a relation *)
(* between the memory, the blocks and the bump pointer.                     *)

BlockSize(r, p) == r[p - HeaderSize].size

(* The sum of the sizes of a set of blocks.  MapThenSumSet is a recursive   *)
(* function on the subsets of the set: that there is one, and that it does  *)
(* not matter in which order the blocks are taken, is shown with the least  *)
(* cardinality at which it would fail.                                      *)

Some(s) == CHOOSE x \in s : TRUE
Summed(g, r, s) == IF s = {} THEN 0 ELSE BlockSize(r, Some(s)) + g[s \ {Some(s)}]
IsSum(g, r, S) == g = [s \in SUBSET S |-> Summed(g, r, s)]
Total(r, S) == (CHOOSE g : IsSum(g, r, S))[S]

LEMMA SumIsTotal == MapThenSumSet(SizeOf, DOMAIN live) = Total(ram, DOMAIN live)
BY DEF MapThenSumSet, MapThenFoldSet, Total, IsSum, Summed, Some, SizeOf, BlockSize

LEMMA LeastOf ==
    ASSUME NEW S \in SUBSET Nat, S # {}
    PROVE  \E n \in S : \A m \in S : n <= m
<1>1. \E n \in S : \A m \in S : ~(<<m, n>> \in OpToRel(<, Nat))
  BY NatLessThanWellFounded, WFMin
<1>2. PICK n \in S : \A m \in S : ~(<<m, n>> \in OpToRel(<, Nat))
  BY <1>1
<1>3. \A m \in S : ~(m < n)
  BY <1>2 DEF OpToRel
<1>4. \A m \in S : n <= m
  <2> TAKE m \in S
  <2>1. m \in Nat /\ n \in Nat
    OBVIOUS
  <2> QED
    BY <1>3, <2>1
<1> QED
  BY <1>4

LEMMA LeastSubset ==
    ASSUME NEW S, IsFiniteSet(S), NEW B \in SUBSET (SUBSET S), B # {}
    PROVE  \E s \in B : /\ IsFiniteSet(s)
                        /\ \A t \in SUBSET S : Cardinality(t) < Cardinality(s) => t \notin B
<1> DEFINE N == {Cardinality(s) : s \in B}
<1>1. \A s \in SUBSET S : IsFiniteSet(s) /\ Cardinality(s) \in Nat
  BY FS_Subset, FS_CardinalityType
<1>2. N \in SUBSET Nat /\ N # {}
  BY <1>1
<1>3. PICK n \in N : \A m \in N : n <= m
  <2> HIDE DEF N
  <2> QED
    BY <1>2, LeastOf
<1>4. PICK s \in B : Cardinality(s) = n
  BY <1>3
<1>5. \A t \in B : Cardinality(t) \in N /\ Cardinality(t) \in Nat
  BY <1>1
<1>6. \A t \in B : ~(Cardinality(t) < Cardinality(s))
  BY <1>1, <1>3, <1>4, <1>5
<1> QED
  BY <1>1, <1>4, <1>6

LEMMA SomeOne ==
    ASSUME NEW s, s # {}
    PROVE  Some(s) \in s
BY DEF Some

LEMMA LessByOne ==
    ASSUME NEW s, IsFiniteSet(s), NEW x \in s
    PROVE  /\ IsFiniteSet(s \ {x}) /\ Cardinality(s) \in Nat /\ Cardinality(s \ {x}) \in Nat
           /\ Cardinality(s \ {x}) = Cardinality(s) - 1
BY FS_RemoveElement, FS_CardinalityType

\* There is a function that sums: one for every bound on the cardinality.
LEMMA SumExists ==
    ASSUME NEW r, NEW S, IsFiniteSet(S)
    PROVE  \E g : IsSum(g, r, S)
<1> DEFINE UpTo(n) == {s \in SUBSET S : Cardinality(s) <= n}
           Partial(g, n) == g = [s \in UpTo(n) |-> Summed(g, r, s)]
           Missing == {n \in Nat : ~ \E g : Partial(g, n)}
<1>1. \A s \in SUBSET S : IsFiniteSet(s) /\ Cardinality(s) \in Nat
  BY FS_Subset, FS_CardinalityType
<1>2. Missing = {}
  <2>1. SUFFICES ASSUME Missing # {}
                 PROVE  FALSE
    OBVIOUS
  <2>2. PICK n \in Missing : \A m \in Missing : n <= m
    <3>1. Missing \in SUBSET Nat
      OBVIOUS
    <3> HIDE DEF Missing
    <3> QED
      BY <2>1, <3>1, LeastOf
  <2>3. CASE n = 0
    <3>1. \A s \in UpTo(0) : s = {}
      BY <1>1, FS_EmptySet
    <3> DEFINE h == [s \in UpTo(0) |-> 0]
    <3>2. \A s \in UpTo(0) : Summed(h, r, s) = 0
      BY <3>1 DEF Summed
    <3>3. Partial(h, 0)
      BY <3>2
    <3> QED
      BY <2>2, <2>3, <3>3
  <2>4. CASE n # 0
    <3>1. n - 1 \in Nat /\ n - 1 \notin Missing
      <4>1. n \in Nat
        BY <2>2
      <4> HIDE DEF Missing
      <4>2. n - 1 \in Nat /\ ~(n <= n - 1)
        BY <2>4, <4>1
      <4> QED
        BY <2>2, <4>2
    <3>2. PICK h : Partial(h, n - 1)
      BY <3>1
    <3> DEFINE g == [s \in UpTo(n) |-> Summed(h, r, s)]
    <3>3. \A s \in UpTo(n) : Summed(h, r, s) = Summed(g, r, s)
      <4> SUFFICES ASSUME NEW s \in UpTo(n), s # {}
                   PROVE  g[s \ {Some(s)}] = h[s \ {Some(s)}]
        BY DEF Summed
      <4> DEFINE t == s \ {Some(s)}
      <4>1. Some(s) \in s /\ IsFiniteSet(s) /\ Cardinality(s) <= n /\ n \in Nat
        BY <1>1, SomeOne
      <4>2. t \in SUBSET S /\ Cardinality(t) = Cardinality(s) - 1 /\ Cardinality(s) \in Nat
        BY <4>1, LessByOne
      <4>3. t \in UpTo(n) /\ t \in UpTo(n - 1)
        BY <4>1, <4>2
      <4>4. g[t] = Summed(h, r, t) /\ h[t] = Summed(h, r, t)
        <5> HIDE DEF t
        <5> QED
          BY <3>2, <4>3
      <4> QED
        BY <4>4
    <3>4. Partial(g, n)
      BY <3>3
    <3> QED
      BY <2>2, <3>4
  <2> QED
    BY <2>3, <2>4
<1>3. Cardinality(S) \in Nat /\ UpTo(Cardinality(S)) = SUBSET S
  BY <1>1, FS_Subset
<1>4. PICK g : Partial(g, Cardinality(S))
  BY <1>2, <1>3
<1> QED
  BY <1>3, <1>4 DEF IsSum

LEMMA SumStep ==
    ASSUME NEW g, NEW r, NEW S, IsSum(g, r, S), NEW s \in SUBSET S
    PROVE  g[s] = Summed(g, r, s)
BY DEF IsSum

LEMMA SumIsNatural ==
    ASSUME NEW g, NEW r, NEW S, IsFiniteSet(S), IsSum(g, r, S),
           \A p \in S : BlockSize(r, p) \in Nat,
           NEW s \in SUBSET S
    PROVE  g[s] \in Nat
<1> DEFINE B == {u \in SUBSET S : g[u] \notin Nat}
<1>1. SUFFICES ASSUME B # {}
               PROVE  FALSE
  OBVIOUS
<1>2. PICK u \in B : /\ IsFiniteSet(u)
                     /\ \A t \in SUBSET S : Cardinality(t) < Cardinality(u) => t \notin B
  <2>1. B \in SUBSET (SUBSET S)
    OBVIOUS
  <2> HIDE DEF B
  <2> QED
    BY <1>1, <2>1, LeastSubset
<1>3. g[u] = Summed(g, r, u)
  BY SumStep
<1>4. u # {}
  BY <1>3 DEF Summed
<1>5. Some(u) \in u /\ u \ {Some(u)} \in SUBSET S /\ Cardinality(u \ {Some(u)}) < Cardinality(u)
  BY <1>2, <1>4, SomeOne, LessByOne
<1>6. g[u \ {Some(u)}] \in Nat
  BY <1>2, <1>5
<1> QED
  BY <1>3, <1>4, <1>5, <1>6 DEF Summed

\* Any member may be taken first.
LEMMA SumTakesAny ==
    ASSUME NEW g, NEW r, NEW S, IsFiniteSet(S), IsSum(g, r, S),
           \A p \in S : BlockSize(r, p) \in Nat,
           NEW s \in SUBSET S, NEW y \in s
    PROVE  g[s] = BlockSize(r, y) + g[s \ {y}]
<1> DEFINE B == {u \in SUBSET S : \E x \in u : g[u] # BlockSize(r, x) + g[u \ {x}]}
<1>1. SUFFICES ASSUME B # {}
               PROVE  FALSE
  OBVIOUS
<1>2. PICK u \in B : /\ IsFiniteSet(u)
                     /\ \A t \in SUBSET S : Cardinality(t) < Cardinality(u) => t \notin B
  <2>1. B \in SUBSET (SUBSET S)
    OBVIOUS
  <2> HIDE DEF B
  <2> QED
    BY <1>1, <2>1, LeastSubset
<1>3. PICK x \in u : g[u] # BlockSize(r, x) + g[u \ {x}]
  BY <1>2
<1> DEFINE c == Some(u)
<1>4. c \in u
  BY <1>3, SomeOne
<1>5. g[u] = BlockSize(r, c) + g[u \ {c}]
  BY <1>3, SumStep DEF Summed
<1> HIDE DEF c
<1>6. c # x
  BY <1>3, <1>5
<1>7. /\ u \ {c} \in SUBSET S /\ Cardinality(u \ {c}) < Cardinality(u)
      /\ u \ {x} \in SUBSET S /\ Cardinality(u \ {x}) < Cardinality(u)
  <2>1. \A z \in u : Cardinality(u \ {z}) = Cardinality(u) - 1 /\ Cardinality(u) \in Nat
    BY <1>2, LessByOne
  <2> QED
    BY <1>3, <1>4, <2>1
<1>8. u \ {c} \notin B /\ u \ {x} \notin B
  BY <1>2, <1>7
<1>9. /\ g[u \ {c}] = BlockSize(r, x) + g[(u \ {c}) \ {x}]
      /\ g[u \ {x}] = BlockSize(r, c) + g[(u \ {x}) \ {c}]
  <2>1. x \in u \ {c} /\ c \in u \ {x}
    BY <1>3, <1>4, <1>6
  <2> QED
    BY <1>7, <1>8, <2>1
<1>10. (u \ {c}) \ {x} = (u \ {x}) \ {c} /\ (u \ {c}) \ {x} \in SUBSET S
  OBVIOUS
<1>11. g[(u \ {c}) \ {x}] \in Nat /\ BlockSize(r, x) \in Nat /\ BlockSize(r, c) \in Nat
  BY <1>3, <1>4, <1>10, SumIsNatural
<1> QED
  <2> DEFINE rest == g[(u \ {c}) \ {x}]
  <2>1. g[u] = BlockSize(r, c) + (BlockSize(r, x) + rest)
    BY <1>5, <1>9
  <2>2. g[u \ {x}] = BlockSize(r, c) + rest
    BY <1>9, <1>10
  <2>3. g[u] # BlockSize(r, x) + (BlockSize(r, c) + rest)
    BY <1>3, <2>2
  <2>4. rest \in Nat
    BY <1>11
  <2> HIDE DEF rest
  <2> QED
    BY <1>11, <2>1, <2>3, <2>4

\* The sum depends on the sizes of its blocks and nothing else.
LEMMA SumsAgree ==
    ASSUME NEW g, NEW r, NEW S, IsFiniteSet(S), IsSum(g, r, S),
           NEW h, NEW r2, NEW T, IsSum(h, r2, T),
           NEW s \in SUBSET (S \cap T), \A p \in s : BlockSize(r, p) = BlockSize(r2, p)
    PROVE  g[s] = h[s]
<1> DEFINE B == {u \in SUBSET s : g[u] # h[u]}
<1>1. SUFFICES ASSUME B # {}
               PROVE  FALSE
  OBVIOUS
<1>2. PICK u \in B : /\ IsFiniteSet(u)
                     /\ \A t \in SUBSET s : Cardinality(t) < Cardinality(u) => t \notin B
  <2>1. B \in SUBSET (SUBSET s) /\ IsFiniteSet(s)
    BY FS_Subset
  <2> HIDE DEF B
  <2> QED
    BY <1>1, <2>1, LeastSubset
<1>3. g[u] = Summed(g, r, u) /\ h[u] = Summed(h, r2, u)
  BY SumStep
<1>4. u # {}
  BY <1>3 DEF Summed
<1>5. Some(u) \in u /\ u \ {Some(u)} \in SUBSET s /\ Cardinality(u \ {Some(u)}) < Cardinality(u)
  <2>1. \A z \in u : Cardinality(u \ {z}) = Cardinality(u) - 1 /\ Cardinality(u) \in Nat
    BY <1>2, LessByOne
  <2> QED
    BY <1>2, <1>4, <2>1, SomeOne
<1>6. g[u \ {Some(u)}] = h[u \ {Some(u)}]
  BY <1>2, <1>5
<1> QED
  BY <1>3, <1>4, <1>5, <1>6 DEF Summed

LEMMA TotalSums ==
    ASSUME NEW r, NEW S, IsFiniteSet(S)
    PROVE  \E g : IsSum(g, r, S) /\ Total(r, S) = g[S]
BY SumExists DEF Total

LEMMA TotalOfNone == \A r : Total(r, {}) = 0
<1> SUFFICES ASSUME NEW r
             PROVE  Total(r, {}) = 0
  OBVIOUS
<1>1. PICK g : IsSum(g, r, {}) /\ Total(r, {}) = g[{}]
  BY TotalSums, FS_EmptySet
<1> QED
  BY <1>1, SumStep DEF Summed

LEMMA TotalAgrees ==
    ASSUME NEW r, NEW r2, NEW S, IsFiniteSet(S), \A p \in S : BlockSize(r, p) = BlockSize(r2, p)
    PROVE  Total(r, S) = Total(r2, S)
<1>1. PICK g : IsSum(g, r, S) /\ Total(r, S) = g[S]
  BY TotalSums
<1>2. PICK h : IsSum(h, r2, S) /\ Total(r2, S) = h[S]
  BY TotalSums
<1>3. S \in SUBSET (S \cap S)
  OBVIOUS
<1> QED
  BY <1>1, <1>2, <1>3, SumsAgree

LEMMA TotalWithout ==
    ASSUME NEW r, NEW S, IsFiniteSet(S), NEW x \in S, \A p \in S : BlockSize(r, p) \in Nat
    PROVE  /\ Total(r, S) = BlockSize(r, x) + Total(r, S \ {x})
           /\ Total(r, S) \in Nat /\ Total(r, S \ {x}) \in Nat
<1>1. PICK g : IsSum(g, r, S) /\ Total(r, S) = g[S]
  BY TotalSums
<1>2. IsFiniteSet(S \ {x})
  BY FS_RemoveElement
<1>3. PICK h : IsSum(h, r, S \ {x}) /\ Total(r, S \ {x}) = h[S \ {x}]
  BY <1>2, TotalSums
<1>4. S \in SUBSET S /\ S \ {x} \in SUBSET S /\ S \ {x} \in SUBSET (S \cap (S \ {x}))
  OBVIOUS
<1>5. g[S] = BlockSize(r, x) + g[S \ {x}]
  BY <1>1, <1>4, SumTakesAny
<1>6. g[S \ {x}] = h[S \ {x}]
  BY <1>1, <1>3, <1>4, SumsAgree
<1>7. g[S] \in Nat /\ g[S \ {x}] \in Nat
  BY <1>1, <1>4, SumIsNatural
<1> QED
  BY <1>1, <1>3, <1>5, <1>6, <1>7

Blocks(r, l, bump) ==
    \A p \in DOMAIN l :
        /\ p \in Nat /\ p - HeaderSize \in Cells
        /\ r[p - HeaderSize] = Headed(BlockSize(r, p))
        /\ BlockSize(r, p) \in Nat /\ BlockSize(r, p) % 8 = 0
        /\ l[p] \in Nat /\ l[p] <= BlockSize(r, p)
        /\ p + BlockSize(r, p) <= bump
        /\ \A q \in DOMAIN l : p < q => p + BlockSize(r, p) <= q - HeaderSize

HeapInv ==
    /\ current_bump \in Nat /\ current_bump % 8 = 0
    /\ Start <= current_bump /\ current_bump <= Start + Limit
    /\ heap_limit = Limit
    /\ ram = [a \in Cells |-> ram[a]]
    /\ live = [p \in DOMAIN live |-> live[p]]
    /\ Blocks(ram, live, current_bump)
    /\ allocated_bytes = Total(ram, DOMAIN live)

LEMMA HeapConstants ==
    /\ Start \in Nat /\ Limit \in Nat /\ AddressSpace \in Nat /\ MaxInt \in Nat
    /\ Start % 8 = 0 /\ Start >= 8
    /\ Start + Limit + MaxInt + 16 < AddressSpace
    /\ Requests \subseteq 1 .. MaxInt /\ HeaderSize = 8
BY HeapAssumption DEF HeaderSize

LEMMA AddIsExact ==
    ASSUME NEW x \in Int, NEW y \in Int, x + y >= 0, x + y < AddressSpace
    PROVE  Add(x, y) = x + y
BY HeapConstants DEF Add

LEMMA AlignIsNext ==
    ASSUME NEW n \in 1 .. MaxInt
    PROVE  /\ Align(n) \in Nat /\ Align(n) % 8 = 0 /\ n <= Align(n) /\ Align(n) <= n + 7
           /\ TotalSize(n) = 8 + Align(n)
<1>1. Add(n, 7) = n + 7
  BY AddIsExact, HeapConstants
<1>2. Align(n) = (n + 7) - ((n + 7) % 8)
  BY <1>1 DEF Align
<1>3. Align(n) \in Nat /\ Align(n) % 8 = 0 /\ n <= Align(n) /\ Align(n) <= n + 7
  BY <1>2
<1>4. Add(8, Align(n)) = 8 + Align(n)
  BY <1>3, AddIsExact, HeapConstants
<1> QED
  BY <1>3, <1>4, HeapConstants DEF TotalSize

\* There is room for a block exactly when it ends within the limit.
LEMMA RoomIsReal ==
    ASSUME HeapInv, NEW n \in 1 .. MaxInt
    PROVE  /\ Room(n) <=> current_bump + 8 + Align(n) <= Start + Limit
           /\ Add(current_bump, TotalSize(n)) = current_bump + 8 + Align(n)
<1>1. Add(current_bump, TotalSize(n)) = current_bump + 8 + Align(n)
  <2>1. current_bump + TotalSize(n) = current_bump + 8 + Align(n)
    BY AlignIsNext, HeapConstants DEF HeapInv
  <2> QED
    BY <2>1, AlignIsNext, AddIsExact, HeapConstants DEF HeapInv
<1>2. Add(Start, heap_limit) = Start + Limit
  BY AddIsExact, HeapConstants DEF HeapInv
<1> QED
  BY <1>1, <1>2 DEF Room

\* Blocks that stay as they are, or shrink to what fits them.
LEMMA BlocksStay ==
    ASSUME NEW r, NEW l, NEW bump \in Nat, Blocks(r, l, bump),
           NEW r2, NEW l2, NEW bump2 \in Nat, DOMAIN l2 \subseteq DOMAIN l,
           \A p \in DOMAIN l2 : /\ r2[p - HeaderSize] = r[p - HeaderSize]
                                /\ l2[p] \in Nat /\ l2[p] <= BlockSize(r, p)
                                /\ p + BlockSize(r, p) <= bump2
    PROVE  Blocks(r2, l2, bump2)
<1>1. \A p \in DOMAIN l2 : BlockSize(r2, p) = BlockSize(r, p)
  BY DEF BlockSize
<1> QED
  BY <1>1 DEF Blocks

\* A block behind all the others.
Appended(r, l, bump, size, n, r2, l2) ==
    /\ bump \in Cells /\ size \in Nat /\ size % 8 = 0 /\ n \in Nat /\ n <= size
    /\ DOMAIN l2 = DOMAIN l \cup {bump + 8}
    /\ \A p \in DOMAIN l : r2[p - HeaderSize] = r[p - HeaderSize] /\ l2[p] = l[p]
    /\ r2[bump] = Headed(size) /\ l2[bump + 8] = n

LEMMA BlocksGrow ==
    ASSUME NEW r, NEW l, NEW bump \in Nat, Blocks(r, l, bump), NEW size, NEW n, NEW r2, NEW l2,
           Appended(r, l, bump, size, n, r2, l2)
    PROVE  Blocks(r2, l2, bump + 8 + size)
<1> DEFINE new == bump + 8
<1> USE DEF Appended
<1>1. new \in Nat /\ new - HeaderSize = bump
  BY HeapConstants
<1>2. BlockSize(r2, new) = size
  BY <1>1 DEF BlockSize, Headed
<1>3. \A p \in DOMAIN l : BlockSize(r2, p) = BlockSize(r, p)
  BY DEF BlockSize
<1>4. \A p \in DOMAIN l : /\ p \in Nat /\ BlockSize(r, p) \in Nat
                          /\ p + BlockSize(r, p) <= bump /\ p < new
  BY DEF Blocks
<1>5. ASSUME NEW p \in DOMAIN l
      PROVE  /\ p \in Nat /\ p - HeaderSize \in Cells
             /\ r2[p - HeaderSize] = Headed(BlockSize(r2, p))
             /\ BlockSize(r2, p) \in Nat /\ BlockSize(r2, p) % 8 = 0
             /\ l2[p] \in Nat /\ l2[p] <= BlockSize(r2, p)
             /\ p + BlockSize(r2, p) <= bump + 8 + size
             /\ \A q \in DOMAIN l2 : p < q => p + BlockSize(r2, p) <= q - HeaderSize
  BY <1>1, <1>3, <1>4, <1>5 DEF Blocks
<1>6. /\ new \in Nat /\ new - HeaderSize \in Cells
      /\ r2[new - HeaderSize] = Headed(BlockSize(r2, new))
      /\ BlockSize(r2, new) \in Nat /\ BlockSize(r2, new) % 8 = 0
      /\ l2[new] \in Nat /\ l2[new] <= BlockSize(r2, new)
      /\ new + BlockSize(r2, new) <= bump + 8 + size
      /\ \A q \in DOMAIN l2 : ~(new < q)
  BY <1>1, <1>2, <1>4
<1> QED
  BY <1>5, <1>6 DEF Blocks

\* Headers lie outside of every block's contents, and the contents of the blocks
\* lie apart, before the bump pointer.
LEMMA ContentsApart ==
    ASSUME HeapInv, NEW p \in DOMAIN live
    PROVE  /\ \A a \in CellsFrom(p, SizeOf(p)) : a < current_bump
           /\ \A q \in DOMAIN live : q - HeaderSize \notin CellsFrom(p, SizeOf(p))
           /\ \A q \in DOMAIN live : q # p =>
                 CellsFrom(p, SizeOf(p)) \cap CellsFrom(q, SizeOf(q)) = {}
           /\ CellsFrom(p, live[p]) \subseteq CellsFrom(p, SizeOf(p))
           /\ p - HeaderSize \in Cells /\ p \in Nat /\ SizeOf(p) \in Nat
<1>1. \A q \in DOMAIN live : SizeOf(q) = BlockSize(ram, q)
  BY DEF SizeOf, BlockSize
<1>2. Cells \subseteq Int /\ HeaderSize = 8
  BY HeapConstants DEF Cells
<1>3. \A q \in DOMAIN live :
        /\ q \in Nat /\ q - HeaderSize \in Cells /\ SizeOf(q) \in Nat
        /\ live[q] \in Nat /\ live[q] <= SizeOf(q)
        /\ q + SizeOf(q) <= current_bump
        /\ \A t \in DOMAIN live : q < t => q + SizeOf(q) <= t - HeaderSize
  BY <1>1 DEF HeapInv, Blocks
<1>4. \A a \in CellsFrom(p, SizeOf(p)) : a < current_bump
  BY <1>2, <1>3 DEF CellsFrom, HeapInv
<1>5. ASSUME NEW q \in DOMAIN live
      PROVE  q - HeaderSize \notin CellsFrom(p, SizeOf(p))
  BY <1>2, <1>3 DEF CellsFrom
<1>6. ASSUME NEW q \in DOMAIN live, q # p
      PROVE  CellsFrom(p, SizeOf(p)) \cap CellsFrom(q, SizeOf(q)) = {}
  <2>1. p < q \/ q < p
    BY <1>3, <1>6
  <2>2. p + SizeOf(p) <= q - 8 \/ q + SizeOf(q) <= p - 8
    BY <1>2, <1>3, <2>1
  <2>3. \A a \in Cells : ~(p <= a /\ a < p + SizeOf(p) /\ q <= a /\ a < q + SizeOf(q))
    BY <1>2, <1>3, <2>2
  <2> QED
    BY <2>3 DEF CellsFrom
<1>7. CellsFrom(p, live[p]) \subseteq CellsFrom(p, SizeOf(p))
  <2>1. \A a \in Cells : a < p + live[p] => a < p + SizeOf(p)
    BY <1>2, <1>3
  <2> QED
    BY <2>1 DEF CellsFrom
<1> QED
  BY <1>3, <1>4, <1>5, <1>6, <1>7

\* The blocks and their headers lie before the bump pointer.
LEMMA BlocksBehind ==
    ASSUME HeapInv, NEW p \in DOMAIN live
    PROVE  /\ p \in Nat /\ p < current_bump + 8 /\ p - HeaderSize # current_bump
           /\ p - HeaderSize < current_bump + 8 /\ p - HeaderSize < current_bump
<1>1. /\ p \in Nat /\ BlockSize(ram, p) \in Nat /\ p + BlockSize(ram, p) <= current_bump
      /\ current_bump \in Nat
  BY DEF HeapInv, Blocks
<1> QED
  BY <1>1, HeapConstants

\* The blocks are finitely many, and their sizes naturals.
LEMMA BlocksAreFew ==
    ASSUME HeapInv
    PROVE  IsFiniteSet(DOMAIN live) /\ \A p \in DOMAIN live : BlockSize(ram, p) \in Nat
<1>1. DOMAIN live \in SUBSET (0 .. Start + Limit)
  <2>1. \A p \in DOMAIN live : p \in Nat /\ BlockSize(ram, p) \in Nat
                                /\ p + BlockSize(ram, p) <= current_bump
    BY DEF HeapInv, Blocks
  <2>2. current_bump \in Nat /\ current_bump <= Start + Limit
    BY DEF HeapInv
  <2>3. \A p \in DOMAIN live : p \in 0 .. Start + Limit
    BY <2>1, <2>2, HeapConstants
  <2> QED
    BY <2>3
<1>2. IsFiniteSet(0 .. Start + Limit)
  BY FS_Interval, HeapConstants
<1> QED
  BY <1>1, <1>2, FS_Subset DEF HeapInv, Blocks

\* One block more.
LEMMA TotalGrows ==
    ASSUME HeapInv, NEW size \in Nat, NEW n, NEW r2, NEW l2,
           Appended(ram, live, current_bump, size, n, r2, l2)
    PROVE  /\ IsFiniteSet(DOMAIN l2)
           /\ \A p \in DOMAIN l2 : BlockSize(r2, p) \in Nat
           /\ \A p \in DOMAIN live : BlockSize(r2, p) = BlockSize(ram, p)
           /\ Total(r2, DOMAIN l2) = Total(ram, DOMAIN live) + size
           /\ Total(ram, DOMAIN live) \in Nat
<1> DEFINE new == current_bump + 8
<1>1. DOMAIN l2 = DOMAIN live \cup {new} /\ r2[current_bump] = Headed(size)
      /\ \A p \in DOMAIN live : r2[p - HeaderSize] = ram[p - HeaderSize]
  BY DEF Appended
<1>2. new - HeaderSize = current_bump /\ new \notin DOMAIN live
  BY BlocksBehind, HeapConstants DEF HeapInv
<1>3. BlockSize(r2, new) = size
  BY <1>1, <1>2 DEF BlockSize, Headed
<1> HIDE DEF new
<1>4. \A p \in DOMAIN live : BlockSize(r2, p) = BlockSize(ram, p)
  BY <1>1 DEF BlockSize
<1>5. IsFiniteSet(DOMAIN live) /\ IsFiniteSet(DOMAIN l2)
  BY <1>1, BlocksAreFew, FS_AddElement
<1>6. \A p \in DOMAIN l2 : BlockSize(r2, p) \in Nat
  BY <1>1, <1>3, <1>4, BlocksAreFew
<1>7. DOMAIN l2 \ {new} = DOMAIN live
  BY <1>1, <1>2
<1>8. /\ Total(r2, DOMAIN l2) = BlockSize(r2, new) + Total(r2, DOMAIN l2 \ {new})
      /\ Total(r2, DOMAIN l2 \ {new}) \in Nat
  BY <1>1, <1>5, <1>6, TotalWithout
<1>9. Total(r2, DOMAIN live) = Total(ram, DOMAIN live)
  BY <1>4, <1>5, TotalAgrees
<1> QED
  BY <1>3, <1>4, <1>5, <1>6, <1>7, <1>8, <1>9

LEMMA HeapStarts == BumpInit => HeapInv
<1> SUFFICES ASSUME BumpInit
             PROVE  HeapInv
  OBVIOUS
<1>1. DOMAIN live = {} /\ allocated_bytes = 0
  BY DEF BumpInit
<1> QED
  BY <1>1, TotalOfNone, HeapConstants DEF BumpInit, HeapInv, Blocks

\* What each step does to the blocks.
LEMMA MallocKeeps ==
    ASSUME HeapInv, NEW n \in 1 .. MaxInt, malloc(n)
    PROVE  HeapInv'
<1>1. /\ ram' = WithHeader(n) /\ current_bump' = current_bump + 8 + Align(n)
      /\ live' = Granted(current_bump + 8, n) /\ heap_limit' = heap_limit
      /\ current_bump + 8 + Align(n) <= Start + Limit
  BY RoomIsReal, HeapConstants DEF malloc, NewPtr
<1>2. Align(n) \in Nat /\ Align(n) % 8 = 0 /\ n <= Align(n)
  BY AlignIsNext
<1>3. current_bump \in Nat /\ current_bump % 8 = 0 /\ current_bump \in Cells
  BY <1>1, <1>2, HeapConstants DEF HeapInv, Cells
<1>4. ram = [a \in Cells |-> ram[a]] /\ live = [p \in DOMAIN live |-> live[p]]
  BY DEF HeapInv
<1>5. \A p \in DOMAIN live : /\ p \in Nat /\ p < current_bump + 8 /\ p - HeaderSize # current_bump
                             /\ p - HeaderSize < current_bump + 8
  BY <1>3, BlocksBehind
<1>6. DOMAIN live' = DOMAIN live \cup {current_bump + 8} /\ live' = [p \in DOMAIN live' |-> live'[p]]
      /\ live'[current_bump + 8] = n /\ \A p \in DOMAIN live : live'[p] = live[p]
  BY <1>1, <1>5 DEF Granted
<1>7. /\ ram' = [a \in Cells |-> ram'[a]] /\ ram'[current_bump] = Headed(Align(n))
      /\ \A p \in DOMAIN live : ram'[p - HeaderSize] = ram[p - HeaderSize]
  BY <1>1, <1>3, <1>4, <1>5 DEF WithHeader, HeapInv, Blocks
<1>8. Appended(ram, live, current_bump, Align(n), n, ram', live')
  <2>1. \A p \in DOMAIN live : ram'[p - HeaderSize] = ram[p - HeaderSize] /\ live'[p] = live[p]
    BY <1>6, <1>7
  <2>2. Blocks(ram, live, current_bump) /\ n \in Nat
    BY DEF HeapInv
  <2> QED
    BY <1>2, <1>3, <1>6, <1>7, <2>1, <2>2 DEF Appended
<1>9. current_bump' \in Nat /\ current_bump' % 8 = 0 /\ Start <= current_bump' /\ current_bump' <= Start + Limit
  BY <1>1, <1>2, <1>3, HeapConstants DEF HeapInv
<1>10. Blocks(ram', live', current_bump + 8 + Align(n))
  BY <1>3, <1>8, BlocksGrow DEF HeapInv
<1>11. allocated_bytes' = Total(ram', DOMAIN live')
  BY <1>2, <1>8, TotalGrows DEF malloc, HeapInv
<1> QED
  BY <1>1, <1>6, <1>7, <1>9, <1>10, <1>11 DEF HeapInv

LEMMA CallocKeeps ==
    ASSUME HeapInv, NEW k \in 1 .. 2, NEW n \in Requests, calloc(k, n)
    PROVE  HeapInv'
<1> DEFINE total == k * n
<1>1. /\ total \in 1 .. MaxInt
      /\ ram' = [a \in Cells |-> IF a \in CellsFrom(current_bump + 8, total) THEN Stored("zero")
                                 ELSE WithHeader(total)[a]]
      /\ current_bump' = Add(current_bump, TotalSize(total))
      /\ live' = Granted(current_bump + 8, total) /\ heap_limit' = heap_limit
      /\ Room(total)
  BY HeapConstants DEF calloc, NewPtr
<1> HIDE DEF total
<1>2. Align(total) \in Nat /\ Align(total) % 8 = 0 /\ total <= Align(total)
      /\ current_bump' = current_bump + 8 + Align(total)
      /\ current_bump + 8 + Align(total) <= Start + Limit
  BY <1>1, AlignIsNext, RoomIsReal
<1>3. current_bump \in Nat /\ current_bump % 8 = 0 /\ current_bump \in Cells
  BY <1>1, <1>2, HeapConstants DEF HeapInv, Cells
<1>4. ram = [a \in Cells |-> ram[a]] /\ live = [p \in DOMAIN live |-> live[p]]
  BY DEF HeapInv
<1>5. \A p \in DOMAIN live : /\ p \in Nat /\ p < current_bump + 8 /\ p - HeaderSize # current_bump
                             /\ p - HeaderSize < current_bump + 8
  BY <1>3, BlocksBehind
<1>6. DOMAIN live' = DOMAIN live \cup {current_bump + 8} /\ live' = [p \in DOMAIN live' |-> live'[p]]
      /\ live'[current_bump + 8] = total /\ \A p \in DOMAIN live : live'[p] = live[p]
  BY <1>1, <1>5 DEF Granted
<1>7. \A a \in Cells : a < current_bump + 8 => ram'[a] = WithHeader(total)[a]
  BY <1>1, <1>3 DEF CellsFrom, Cells
<1>8. /\ ram' = [a \in Cells |-> ram'[a]] /\ ram'[current_bump] = Headed(Align(total))
      /\ \A p \in DOMAIN live : ram'[p - HeaderSize] = ram[p - HeaderSize]
  <2>1. \A p \in DOMAIN live : p - HeaderSize \in Cells
    BY DEF HeapInv, Blocks
  <2>2. WithHeader(total)[current_bump] = Headed(Align(total))
    BY <1>3, <1>4 DEF WithHeader
  <2>3. \A p \in DOMAIN live : WithHeader(total)[p - HeaderSize] = ram[p - HeaderSize]
    BY <1>4, <1>5, <2>1 DEF WithHeader
  <2> QED
    <3>1. ram'[current_bump] = Headed(Align(total))
      BY <1>3, <1>7, <2>2
    <3>2. \A p \in DOMAIN live : ram'[p - HeaderSize] = WithHeader(total)[p - HeaderSize]
      BY <1>5, <1>7, <2>1
    <3>3. ram' = [a \in Cells |-> ram'[a]]
      BY <1>1
    <3> QED
      BY <2>3, <3>1, <3>2, <3>3
<1>9. Appended(ram, live, current_bump, Align(total), total, ram', live')
  <2>1. \A p \in DOMAIN live : ram'[p - HeaderSize] = ram[p - HeaderSize] /\ live'[p] = live[p]
    BY <1>6, <1>8
  <2>2. Blocks(ram, live, current_bump) /\ total \in Nat
    BY <1>1 DEF HeapInv
  <2> QED
    BY <1>2, <1>3, <1>6, <1>8, <2>1, <2>2 DEF Appended
<1>10. current_bump' \in Nat /\ current_bump' % 8 = 0 /\ Start <= current_bump' /\ current_bump' <= Start + Limit
  BY <1>2, <1>3, HeapConstants DEF HeapInv
<1>11. Blocks(ram', live', current_bump + 8 + Align(total))
  BY <1>3, <1>9, BlocksGrow DEF HeapInv
<1>12. allocated_bytes' = Total(ram', DOMAIN live')
  <2>1. allocated_bytes' = allocated_bytes + Align(total)
    BY DEF calloc, total
  <2> QED
    BY <1>2, <1>9, <2>1, TotalGrows DEF HeapInv
<1> QED
  BY <1>1, <1>2, <1>6, <1>8, <1>10, <1>11, <1>12 DEF HeapInv

LEMMA FreeKeeps ==
    ASSUME HeapInv, NEW p \in Cells, free(p)
    PROVE  HeapInv'
<1>1. /\ p \in DOMAIN live /\ p \in Nat /\ p - HeaderSize \in Cells /\ SizeOf(p) = BlockSize(ram, p)
      /\ BlockSize(ram, p) \in Nat /\ p + BlockSize(ram, p) <= current_bump
      /\ current_bump \in Nat /\ current_bump % 8 = 0
  BY DEF free, HeapInv, Blocks, SizeOf, BlockSize
<1>2. /\ ram' = [ram EXCEPT ![p - HeaderSize].is_free = 1]
      /\ current_bump' = BumpAfterFree(p, BlockSize(ram, p), current_bump)
      /\ live' = [q \in DOMAIN live \ {p} |-> live[q]]
      /\ heap_limit' = heap_limit
  BY <1>1 DEF free
<1>3. ASSUME NEW q \in DOMAIN live'
      PROVE  /\ ram'[q - HeaderSize] = ram[q - HeaderSize]
             /\ live'[q] \in Nat /\ live'[q] <= BlockSize(ram, q)
             /\ q + BlockSize(ram, q) <= current_bump'
  <2>1. q \in DOMAIN live /\ q # p /\ live'[q] = live[q] /\ q \in Nat /\ q - HeaderSize \in Cells
    BY <1>2 DEF HeapInv, Blocks
  <2>2. q - HeaderSize # p - HeaderSize
    BY <1>1, <2>1, HeapConstants
  <2>3. ram'[q - HeaderSize] = ram[q - HeaderSize]
    BY <1>2, <2>1, <2>2 DEF HeapInv
  <2>4. /\ live[q] \in Nat /\ live[q] <= BlockSize(ram, q) /\ BlockSize(ram, q) \in Nat
        /\ q + BlockSize(ram, q) <= current_bump
        /\ q < p => q + BlockSize(ram, q) <= p - HeaderSize
        /\ p < q => p + BlockSize(ram, p) <= q - HeaderSize
    BY <1>1, <2>1 DEF HeapInv, Blocks
  <2>5. q + BlockSize(ram, q) <= current_bump'
    BY <1>1, <1>2, <2>1, <2>4, HeapConstants DEF BumpAfterFree
  <2> QED
    BY <2>1, <2>3, <2>4, <2>5
<1>4. current_bump' \in Nat /\ current_bump' % 8 = 0 /\ Start <= current_bump' /\ current_bump' <= Start + Limit
  BY <1>1, <1>2, HeapConstants DEF BumpAfterFree, HeapInv, Cells
<1>5. Blocks(ram', live', current_bump')
  <2>1. DOMAIN live' \subseteq DOMAIN live
    BY <1>2
  <2> QED
    BY <1>3, <1>4, <2>1, BlocksStay DEF HeapInv
<1>6. ram' = [a \in Cells |-> ram'[a]] /\ live' = [q \in DOMAIN live' |-> live'[q]]
  BY <1>2 DEF HeapInv
<1>7. allocated_bytes' = Total(ram', DOMAIN live')
  <2>1. /\ Total(ram, DOMAIN live) = BlockSize(ram, p) + Total(ram, DOMAIN live \ {p})
        /\ Total(ram, DOMAIN live \ {p}) \in Nat
    BY <1>1, BlocksAreFew, TotalWithout
  <2>2. DOMAIN live' = DOMAIN live \ {p} /\ IsFiniteSet(DOMAIN live \ {p})
    BY <1>2, BlocksAreFew, FS_RemoveElement
  <2>3. \A q \in DOMAIN live' : BlockSize(ram, q) = BlockSize(ram', q)
    BY <1>3 DEF BlockSize
  <2>4. Total(ram, DOMAIN live') = Total(ram', DOMAIN live')
    BY <2>2, <2>3, TotalAgrees
  <2>5. allocated_bytes' = Less(Total(ram, DOMAIN live), BlockSize(ram, p))
    BY <1>1 DEF free, HeapInv
  <2>6. allocated_bytes' = Total(ram, DOMAIN live \ {p})
    BY <1>1, <2>1, <2>5 DEF Less
  <2> QED
    BY <2>2, <2>4, <2>6
<1> QED
  BY <1>2, <1>4, <1>5, <1>6, <1>7 DEF HeapInv

LEMMA ReuseKeeps ==
    ASSUME HeapInv, NEW p \in Cells, NEW n \in Requests, ReallocReuse(p, n)
    PROVE  HeapInv'
<1>1. /\ p \in DOMAIN live /\ n <= BlockSize(ram, p) /\ BlockSize(ram, p) \in Nat
      /\ live' = [q \in DOMAIN live |-> IF q = p THEN n ELSE live[q]]
      /\ UNCHANGED <<current_bump, heap_limit, ram>>
  <2>1. p \in DOMAIN live => DOMAIN live \cup {p} = DOMAIN live
    OBVIOUS
  <2> QED
    BY <2>1, HeapConstants DEF ReallocReuse, Granted, HeapInv, Blocks, SizeOf, BlockSize
<1>2. n \in Nat
  BY HeapConstants
<1>3. \A q \in DOMAIN live' :
          /\ ram'[q - HeaderSize] = ram[q - HeaderSize]
          /\ live'[q] \in Nat /\ live'[q] <= BlockSize(ram, q)
          /\ q + BlockSize(ram, q) <= current_bump'
  BY <1>1, <1>2 DEF HeapInv, Blocks
<1>4. Blocks(ram', live', current_bump')
  <2>1. DOMAIN live' \subseteq DOMAIN live /\ current_bump' \in Nat
    BY <1>1 DEF HeapInv
  <2> QED
    BY <1>3, <2>1, BlocksStay DEF HeapInv
<1>5. DOMAIN live' = DOMAIN live /\ allocated_bytes' = allocated_bytes
  BY <1>1 DEF ReallocReuse
<1> QED
  BY <1>1, <1>4, <1>5 DEF HeapInv

LEMMA GrowKeeps ==
    ASSUME HeapInv, NEW p \in Cells, NEW n \in Requests, ReallocGrow(p, n)
    PROVE  HeapInv'
<1>1. /\ p \in DOMAIN live /\ p \in Nat /\ p - HeaderSize \in Cells /\ SizeOf(p) = BlockSize(ram, p)
      /\ BlockSize(ram, p) \in Nat /\ BlockSize(ram, p) % 8 = 0
      /\ ram[p - HeaderSize] = Headed(BlockSize(ram, p))
      /\ current_bump \in Nat /\ current_bump % 8 = 0 /\ Start <= current_bump /\ current_bump <= Start + Limit
  BY DEF ReallocGrow, HeapInv, Blocks, SizeOf, BlockSize
<1>2. n \in 1 .. MaxInt /\ n \in Nat /\ Align(n) \in Nat /\ Align(n) % 8 = 0 /\ n <= Align(n)
      /\ Align(n) <= n + 7
  BY AlignIsNext, HeapConstants
<1>3. p + BlockSize(ram, p) = current_bump /\ BlockSize(ram, p) < n
  BY <1>1 DEF ReallocGrow, GrowsInPlace, IsLast
<1>4. /\ Add(current_bump, Align(n) - BlockSize(ram, p)) = p + Align(n)
      /\ Add(Start, heap_limit) = Start + Limit
  <2>1. current_bump + (Align(n) - BlockSize(ram, p)) = p + Align(n)
    BY <1>1, <1>2, <1>3
  <2>2. p + Align(n) < AddressSpace
    BY <1>1, <1>2, <1>3, HeapConstants
  <2>3. Start + heap_limit = Start + Limit
    BY DEF HeapInv
  <2> QED
    <3>1. Align(n) - BlockSize(ram, p) \in Int /\ p + Align(n) >= 0
      BY <1>1, <1>2
    <3>2. Add(current_bump, Align(n) - BlockSize(ram, p)) = p + Align(n)
      BY <1>1, <2>1, <2>2, <3>1, AddIsExact
    <3>3. Add(Start, heap_limit) = Start + Limit
      BY <2>3, AddIsExact, HeapConstants DEF HeapInv
    <3> QED
      BY <3>2, <3>3
<1>5. /\ current_bump' = p + Align(n) /\ p + Align(n) <= Start + Limit /\ heap_limit' = heap_limit
      /\ ram' = [ram EXCEPT ![p - HeaderSize].size = Align(n)]
      /\ live' = [q \in DOMAIN live |-> IF q = p THEN n ELSE live[q]]
  <2>1. DOMAIN live \cup {p} = DOMAIN live
    BY <1>1
  <2> QED
    BY <1>1, <1>4, <2>1 DEF ReallocGrow, GrowsInPlace, Granted
<1>6. /\ ram' = [a \in Cells |-> ram'[a]] /\ live' = [q \in DOMAIN live' |-> live'[q]]
      /\ DOMAIN live' = DOMAIN live
  BY <1>5 DEF HeapInv
<1>7. ram'[p - HeaderSize] = Headed(Align(n)) /\ live'[p] = n
  BY <1>1, <1>5 DEF HeapInv, Headed
<1>8. ASSUME NEW q \in DOMAIN live, q # p
      PROVE  /\ ram'[q - HeaderSize] = ram[q - HeaderSize] /\ live'[q] = live[q]
             /\ q \in Nat /\ BlockSize(ram, q) \in Nat
             /\ q < p /\ q + BlockSize(ram, q) <= p - HeaderSize
  <2>1. /\ q \in Nat /\ q - HeaderSize \in Cells /\ BlockSize(ram, q) \in Nat
        /\ q + BlockSize(ram, q) <= current_bump
        /\ q < p => q + BlockSize(ram, q) <= p - HeaderSize
        /\ p < q => p + BlockSize(ram, p) <= q - HeaderSize
    BY <1>1 DEF HeapInv, Blocks
  <2>2. q < p
    BY <1>1, <1>3, <1>8, <2>1, HeapConstants
  <2>3. q - HeaderSize # p - HeaderSize
    BY <1>1, <1>8, <2>1, HeapConstants
  <2> QED
    BY <1>5, <1>8, <2>1, <2>2, <2>3 DEF HeapInv
<1>9. BlockSize(ram', p) = Align(n) /\ \A q \in DOMAIN live : q # p => BlockSize(ram', q) = BlockSize(ram, q)
  BY <1>7, <1>8 DEF BlockSize, Headed
<1>10. ASSUME NEW q \in DOMAIN live', q # p
       PROVE  /\ q \in Nat /\ q - HeaderSize \in Cells
              /\ ram'[q - HeaderSize] = Headed(BlockSize(ram', q))
              /\ BlockSize(ram', q) \in Nat /\ BlockSize(ram', q) % 8 = 0
              /\ live'[q] \in Nat /\ live'[q] <= BlockSize(ram', q)
              /\ q + BlockSize(ram', q) <= current_bump'
              /\ \A t \in DOMAIN live' : q < t => q + BlockSize(ram', q) <= t - HeaderSize
  <2>1. q \in DOMAIN live
    BY <1>6
  <2>2. q + BlockSize(ram', q) <= current_bump'
    <3>1. BlockSize(ram', q) = BlockSize(ram, q) /\ q \in Nat /\ BlockSize(ram, q) \in Nat
          /\ q + BlockSize(ram, q) <= p - 8
      BY <1>8, <1>9, <1>10, <2>1, HeapConstants
    <3> QED
      BY <1>1, <1>2, <1>5, <3>1
  <2> QED
    BY <1>6, <1>8, <1>9, <1>10, <2>1, <2>2 DEF HeapInv, Blocks
<1>11. \A t \in DOMAIN live' : ~(p < t)
  BY <1>1, <1>6, <1>8
<1>12. current_bump' \in Nat /\ current_bump' % 8 = 0 /\ Start <= current_bump' /\ current_bump' <= Start + Limit
  BY <1>1, <1>2, <1>3, <1>5, HeapConstants
<1>13. Blocks(ram', live', current_bump')
  <2>1. /\ p \in Nat /\ p - HeaderSize \in Cells
        /\ ram'[p - HeaderSize] = Headed(BlockSize(ram', p))
        /\ BlockSize(ram', p) \in Nat /\ BlockSize(ram', p) % 8 = 0
        /\ live'[p] \in Nat /\ live'[p] <= BlockSize(ram', p)
        /\ p + BlockSize(ram', p) <= current_bump'
    BY <1>1, <1>2, <1>5, <1>7, <1>9
  <2> QED
    BY <1>10, <1>11, <2>1 DEF Blocks
<1>14. allocated_bytes' = Total(ram', DOMAIN live')
  <2> DEFINE others == DOMAIN live \ {p}
  <2>1. /\ Total(ram, DOMAIN live) = BlockSize(ram, p) + Total(ram, others)
        /\ Total(ram, others) \in Nat
    BY <1>1, BlocksAreFew, TotalWithout
  <2>2. IsFiniteSet(others) /\ IsFiniteSet(DOMAIN live)
    BY BlocksAreFew, FS_RemoveElement
  <2>3. Total(ram, others) = Total(ram', others)
    BY <1>9, <2>2, TotalAgrees
  <2>4. \A q \in DOMAIN live : BlockSize(ram', q) \in Nat
    BY <1>2, <1>9, BlocksAreFew
  <2>5. Total(ram', DOMAIN live) = BlockSize(ram', p) + Total(ram', others)
    BY <1>1, <2>2, <2>4, TotalWithout
  <2>6. allocated_bytes' = Total(ram, DOMAIN live) + (Align(n) - BlockSize(ram, p))
    BY <1>1 DEF ReallocGrow, HeapInv
  <2> HIDE DEF others
  <2> QED
    BY <1>1, <1>2, <1>6, <1>9, <2>1, <2>3, <2>5, <2>6
<1> QED
  BY <1>5, <1>6, <1>12, <1>13, <1>14 DEF HeapInv

LEMMA MoveKeeps ==
    ASSUME HeapInv, NEW p \in Cells, NEW n \in Requests, ReallocMove(p, n)
    PROVE  HeapInv'
<1> DEFINE ram1 == Moved(p, n)
           live1 == Granted(current_bump + 8, n)
           bump1 == current_bump + 8 + Align(n)
<1>1. /\ p \in DOMAIN live /\ p \in Nat /\ p - HeaderSize \in Cells /\ SizeOf(p) = BlockSize(ram, p)
      /\ BlockSize(ram, p) \in Nat /\ p + BlockSize(ram, p) <= current_bump
      /\ current_bump \in Nat /\ current_bump % 8 = 0 /\ Start <= current_bump
  BY DEF ReallocMove, HeapInv, Blocks, SizeOf, BlockSize
<1>2. n \in 1 .. MaxInt /\ n \in Nat /\ Align(n) \in Nat /\ Align(n) % 8 = 0 /\ n <= Align(n)
  BY AlignIsNext, HeapConstants
<1>3. bump1 <= Start + Limit /\ Add(current_bump, TotalSize(n)) = bump1 /\ NewPtr = current_bump + 8
      /\ current_bump \in Cells
  <2>1. bump1 <= Start + Limit /\ Add(current_bump, TotalSize(n)) = bump1
    BY <1>2, RoomIsReal DEF ReallocMove
  <2> QED
    BY <1>1, <1>2, <2>1, HeapConstants DEF NewPtr, Cells
<1>4. /\ ram' = [ram1 EXCEPT ![p - HeaderSize].is_free = 1]
      /\ current_bump' = bump1
      /\ live' = [q \in (DOMAIN live \ {p}) \cup {current_bump + 8} |->
                      IF q = current_bump + 8 THEN n ELSE live[q]]
      /\ heap_limit' = heap_limit
  <2>1. p + SizeOf(p) # bump1
    BY <1>1, <1>2
  <2> QED
    BY <1>3, <2>1 DEF ReallocMove, BumpAfterFree
<1>5. ram1 = [a \in Cells |-> ram1[a]] /\ live1 = [q \in DOMAIN live1 |-> live1[q]]
  BY DEF Moved, Granted
<1>6. Appended(ram, live, current_bump, Align(n), n, ram1, live1)
  <2>1. DOMAIN live1 = DOMAIN live \cup {current_bump + 8} /\ live1[current_bump + 8] = n
    BY DEF Granted
  <2>2. ram = [a \in Cells |-> ram[a]]
    BY DEF HeapInv
  <2>3. \A a \in Cells : a < current_bump + 8 => ram1[a] = WithHeader(n)[a]
    BY <1>1, <1>3 DEF Moved, CellsFrom, Cells
  <2>4. ram1[current_bump] = Headed(Align(n))
    BY <1>1, <1>3, <2>2, <2>3 DEF WithHeader
  <2>5. \A q \in DOMAIN live : ram1[q - HeaderSize] = ram[q - HeaderSize] /\ live1[q] = live[q]
    <3>1. \A q \in DOMAIN live : q - HeaderSize \in Cells
      BY DEF HeapInv, Blocks
    <3>2. \A q \in DOMAIN live : live1[q] = live[q]
      BY <1>1, BlocksBehind DEF Granted
    <3>3. \A q \in DOMAIN live : WithHeader(n)[q - HeaderSize] = ram[q - HeaderSize]
      BY <2>2, <3>1, BlocksBehind DEF WithHeader
    <3> QED
      BY <2>3, <3>1, <3>2, <3>3, BlocksBehind
  <2> QED
    BY <1>2, <1>3, <2>1, <2>4, <2>5 DEF Appended
<1> HIDE DEF ram1, live1
<1>7. Blocks(ram1, live1, bump1)
  <2>1. Blocks(ram, live, current_bump)
    BY DEF HeapInv
  <2> QED
    BY <1>1, <1>6, <2>1, BlocksGrow
<1>8. DOMAIN live1 = DOMAIN live \cup {current_bump + 8} /\ live1[current_bump + 8] = n
      /\ \A q \in DOMAIN live : live1[q] = live[q]
  BY <1>6 DEF Appended
<1>9. /\ ram' = [a \in Cells |-> ram'[a]] /\ live' = [q \in DOMAIN live' |-> live'[q]]
      /\ DOMAIN live' = DOMAIN live1 \ {p} /\ \A q \in DOMAIN live' : live'[q] = live1[q]
  <2>1. p # current_bump + 8
    BY <1>1
  <2>2. DOMAIN live' = DOMAIN live1 \ {p}
    BY <1>4, <1>8, <2>1
  <2> QED
    BY <1>4, <1>5, <1>8, <2>2
<1>10. ASSUME NEW q \in DOMAIN live'
       PROVE  /\ ram'[q - HeaderSize] = ram1[q - HeaderSize]
              /\ live'[q] \in Nat /\ live'[q] <= BlockSize(ram1, q)
              /\ q + BlockSize(ram1, q) <= bump1
  <2>1. q \in DOMAIN live1 /\ q # p /\ live'[q] = live1[q]
    BY <1>9
  <2>2. /\ live1[q] \in Nat /\ live1[q] <= BlockSize(ram1, q) /\ q + BlockSize(ram1, q) <= bump1
        /\ q \in Nat /\ q - HeaderSize \in Cells
    BY <1>7, <2>1 DEF Blocks
  <2>3. q - HeaderSize # p - HeaderSize
    BY <1>1, <2>1, <2>2, HeapConstants
  <2> QED
    BY <1>4, <1>5, <2>1, <2>2, <2>3
<1>11. Blocks(ram', live', bump1)
  <2>1. DOMAIN live' \subseteq DOMAIN live1 /\ bump1 \in Nat
    BY <1>1, <1>2, <1>9
  <2> QED
    BY <1>7, <1>10, <2>1, BlocksStay
<1>12. bump1 \in Nat /\ bump1 % 8 = 0 /\ Start <= bump1
  <2>1. \A x, y \in Nat : x % 8 = 0 /\ y % 8 = 0 => (x + 8 + y) % 8 = 0
    OBVIOUS
  <2> QED
    BY <1>1, <1>2, <2>1, HeapConstants
<1>13. allocated_bytes' = Total(ram', DOMAIN live')
  <2>1. /\ IsFiniteSet(DOMAIN live1) /\ \A q \in DOMAIN live1 : BlockSize(ram1, q) \in Nat
        /\ BlockSize(ram1, p) = BlockSize(ram, p)
        /\ Total(ram1, DOMAIN live1) = Total(ram, DOMAIN live) + Align(n)
        /\ Total(ram, DOMAIN live) \in Nat
    BY <1>1, <1>2, <1>6, TotalGrows
  <2>2. /\ Total(ram1, DOMAIN live1) = BlockSize(ram1, p) + Total(ram1, DOMAIN live1 \ {p})
        /\ Total(ram1, DOMAIN live1 \ {p}) \in Nat
    BY <1>1, <1>8, <2>1, TotalWithout
  <2>3. IsFiniteSet(DOMAIN live')
    BY <1>9, <2>1, FS_RemoveElement
  <2>4. \A q \in DOMAIN live' : BlockSize(ram1, q) = BlockSize(ram', q)
    BY <1>10 DEF BlockSize
  <2>5. Total(ram1, DOMAIN live') = Total(ram', DOMAIN live')
    BY <2>3, <2>4, TotalAgrees
  <2>6. allocated_bytes' = Less(Total(ram, DOMAIN live) + Align(n), BlockSize(ram, p))
    BY <1>1 DEF ReallocMove, HeapInv
  <2>7. allocated_bytes' = Total(ram1, DOMAIN live1 \ {p})
    BY <1>1, <1>2, <2>1, <2>2, <2>6 DEF Less
  <2> QED
    BY <1>9, <2>5, <2>7
<1> QED
  BY <1>3, <1>4, <1>9, <1>11, <1>12, <1>13 DEF HeapInv

LEMMA StoreKeeps ==
    ASSUME HeapInv, NEW p \in Cells, NEW v \in Values, Store(p, v)
    PROVE  HeapInv'
<1>1. /\ p \in DOMAIN live /\ UNCHANGED <<current_bump, heap_limit, live>>
      /\ ram' = [a \in Cells |-> IF a \in CellsFrom(p, live[p]) THEN Stored(v) ELSE ram[a]]
  BY DEF Store
<1>2. \A q \in DOMAIN live : q - HeaderSize \in Cells /\ q - HeaderSize \notin CellsFrom(p, live[p])
  BY <1>1, ContentsApart DEF HeapInv, Blocks
<1>3. \A q \in DOMAIN live' : /\ ram'[q - HeaderSize] = ram[q - HeaderSize]
                              /\ live'[q] \in Nat /\ live'[q] <= BlockSize(ram, q)
                              /\ q + BlockSize(ram, q) <= current_bump'
  BY <1>1, <1>2 DEF HeapInv, Blocks
<1>4. Blocks(ram', live', current_bump')
  <2>1. DOMAIN live' \subseteq DOMAIN live /\ current_bump' \in Nat
    BY <1>1 DEF HeapInv
  <2> QED
    BY <1>3, <2>1, BlocksStay DEF HeapInv
<1>5. allocated_bytes' = Total(ram', DOMAIN live')
  <2>1. \A q \in DOMAIN live : BlockSize(ram, q) = BlockSize(ram', q)
    BY <1>1, <1>3 DEF BlockSize
  <2>2. Total(ram, DOMAIN live) = Total(ram', DOMAIN live)
    BY <2>1, BlocksAreFew, TotalAgrees
  <2> QED
    BY <1>1, <2>2 DEF Store, HeapInv
<1> QED
  BY <1>1, <1>4, <1>5 DEF HeapInv

LEMMA HeapKept == HeapInv /\ [BumpNext]_bumpVars => HeapInv'
<1>1. ASSUME HeapInv, UNCHANGED bumpVars
      PROVE  HeapInv'
  BY <1>1 DEF HeapInv, bumpVars
<1>2. ASSUME HeapInv, BumpNext
      PROVE  HeapInv'
  <2>1. CASE \E n \in Requests : malloc(n) \/ OutOfMemory(n)
    BY <1>1, <1>2, <2>1, MallocKeeps, HeapConstants DEF OutOfMemory
  <2>2. CASE \E k \in 1 .. 2, n \in Requests : calloc(k, n)
    BY <1>2, <2>2, CallocKeeps
  <2>3. CASE \E p \in Cells : free(p)
    BY <1>2, <2>3, FreeKeeps
  <2>4. CASE \E p \in Cells, n \in Requests : realloc(p, n)
    BY <1>1, <1>2, <2>4, ReuseKeeps, GrowKeeps, MoveKeeps DEF realloc, ReallocFails, OutOfMemory
  <2>5. CASE \E p \in Cells, v \in Values : Store(p, v)
    BY <1>2, <2>5, StoreKeeps
  <2> QED
    BY <1>2, <2>1, <2>2, <2>3, <2>4, <2>5 DEF BumpNext
<1> QED
  BY <1>1, <1>2

LEMMA HeapInvIsSound == HeapInv => HeapSound
<1> SUFFICES ASSUME HeapInv
             PROVE  HeapSound
  OBVIOUS
<1>1. \A p \in DOMAIN live : SizeOf(p) = BlockSize(ram, p)
  BY DEF SizeOf, BlockSize
<1>2. \A p \in DOMAIN live : ram[p - HeaderSize] \in Headers /\ ram[p - HeaderSize].is_free = 0
  <2>1. \A p \in DOMAIN live : BlockSize(ram, p) \in Nat /\ ram[p - HeaderSize] = Headed(BlockSize(ram, p))
    BY DEF HeapInv, Blocks
  <2> QED
    <3>1. \A size \in Nat : Headed(size) \in Headers /\ Headed(size).is_free = 0
      BY DEF Headers, Headed
    <3> QED
      BY <2>1, <3>1
<1>3. current_bump <= Start + Limit - get_free_bytes
  BY HeapConstants DEF HeapInv, get_free_bytes
<1> QED
  BY <1>1, <1>2, <1>3, SumIsTotal DEF HeapSound, HeapInv, Blocks

\* What a step leaves of the contents of a block that is held before and after.
LEMMA OnlyStoreStores ==
    ASSUME HeapInv, BumpNext, NEW p \in DOMAIN live \cap DOMAIN live', \A v \in Values : ~Store(p, v)
    PROVE  Kept(p)
<1>1. SUFFICES ASSUME NEW a \in CellsFrom(p, live[p])
               PROVE  ram'[a] = ram[a]
  BY DEF Kept
<1>2. /\ a \in CellsFrom(p, SizeOf(p)) /\ a \in Cells /\ a < current_bump
      /\ \A q \in DOMAIN live : q - HeaderSize # a
      /\ \A q \in DOMAIN live : q # p => a \notin CellsFrom(q, SizeOf(q))
      /\ \A q \in DOMAIN live : q # p => a \notin CellsFrom(q, live[q])
  BY <1>1, ContentsApart DEF CellsFrom
<1>3. ram = [b \in Cells |-> ram[b]] /\ current_bump \in Nat /\ Cells \subseteq Int
  BY DEF HeapInv, Cells
<1>4. \A n : WithHeader(n)[a] = ram[a] /\ a \notin CellsFrom(NewPtr, n)
  BY <1>2, <1>3, HeapConstants DEF WithHeader, CellsFrom, NewPtr
<1>5. CASE \E n \in Requests : malloc(n) \/ OutOfMemory(n)
  BY <1>4, <1>5 DEF malloc, OutOfMemory, bumpVars
<1>6. CASE \E k \in 1 .. 2, n \in Requests : calloc(k, n)
  BY <1>2, <1>4, <1>6 DEF calloc
<1>7. CASE \E q \in Cells : free(q)
  BY <1>2, <1>3, <1>7 DEF free
<1>8. CASE \E q \in Cells, n \in Requests : realloc(q, n)
  <2>1. PICK q \in Cells, n \in Requests : realloc(q, n)
    BY <1>8
  <2>2. CASE ReallocReuse(q, n) \/ ReallocFails(q, n)
    BY <2>2 DEF ReallocReuse, ReallocFails, OutOfMemory, bumpVars
  <2>3. CASE ReallocGrow(q, n)
    BY <1>2, <1>3, <2>3 DEF ReallocGrow
  <2>4. CASE ReallocMove(q, n)
    <3>1. q \in DOMAIN live /\ q - HeaderSize # a
          /\ ram' = [Moved(q, n) EXCEPT ![q - HeaderSize].is_free = 1]
      BY <1>2, <2>4 DEF ReallocMove
    <3>2. Moved(q, n)[a] = WithHeader(n)[a]
      BY <1>2, <1>4 DEF Moved
    <3> QED
      BY <1>2, <1>4, <3>1, <3>2 DEF Moved
  <2> QED
    BY <2>1, <2>2, <2>3, <2>4 DEF realloc
<1>9. CASE \E q \in Cells, v \in Values : Store(q, v)
  BY <1>2, <1>9 DEF Store
<1> QED
  BY <1>5, <1>6, <1>7, <1>8, <1>9 DEF BumpNext

\* A block that moves takes its contents along.
LEMMA MoveTakesAll ==
    ASSUME HeapInv, NEW p \in DOMAIN live, NEW n \in Requests, ReallocMove(p, n),
           NEW a \in CellsFrom(p, live[p])
    PROVE  ram'[NewPtr + (a - p)] = ram[a]
<1> DEFINE new == NewPtr + (a - p)
<1>1. n \in 1 .. MaxInt /\ Align(n) \in Nat /\ n <= Align(n)
      /\ current_bump + 8 + Align(n) <= Start + Limit /\ NewPtr = current_bump + 8
  BY AlignIsNext, RoomIsReal, HeapConstants DEF ReallocMove, NewPtr
<1>2. /\ p \in Nat /\ p - HeaderSize \in Cells /\ SizeOf(p) \in Nat /\ SizeOf(p) < n
      /\ current_bump \in Nat /\ current_bump % 8 = 0 /\ Start <= current_bump
      /\ p + SizeOf(p) <= current_bump
  BY DEF ReallocMove, HeapInv, Blocks, SizeOf, BlockSize
<1>3. a \in Int /\ a % 8 = 0 /\ p <= a /\ a < p + SizeOf(p)
  BY ContentsApart DEF CellsFrom, Cells
<1>4. new \in Int /\ NewPtr <= new /\ new < NewPtr + SizeOf(p) /\ new < Start + Limit /\ Start <= new
  <2>1. a - p \in Nat /\ a - p < SizeOf(p)
    BY <1>2, <1>3
  <2>2. SizeOf(p) < Align(n) /\ Start \in Nat /\ Limit \in Nat
    BY <1>1, <1>2, HeapConstants
  <2> QED
    BY <1>1, <1>2, <2>1, <2>2
<1>5. p % 8 = 0
  BY <1>2, HeapConstants DEF Cells
<1>6. new % 8 = 0
  BY <1>1, <1>2, <1>3, <1>5
<1>7. new \in Cells /\ new \in CellsFrom(NewPtr, SizeOf(p)) /\ p + (new - NewPtr) = a
  BY <1>1, <1>2, <1>3, <1>4, <1>6, HeapConstants DEF Cells, CellsFrom
<1>8. new # p - HeaderSize
  BY <1>1, <1>2, <1>4, HeapConstants
<1>9. Moved(p, n)[new] = ram[a]
  BY <1>7 DEF Moved
<1> HIDE DEF new
<1>10. ram'[new] = ram[a]
  BY <1>7, <1>8, <1>9 DEF ReallocMove, Moved
<1> QED
  BY <1>10 DEF new

\* For every heap and every size of request: the headers of the blocks in use are
\* intact, every block is as large as asked and inside the heap, no two of them
\* overlap, and allocated_bytes is the sum of their sizes (malloc, calloc, realloc
\* and free of freestanding.c).
THEOREM HeapIsSound == RoutinesSpec => []HeapSound
<1>1. RoutinesInit => HeapInv
  BY HeapStarts DEF RoutinesInit
<1>2. HeapInv /\ [RoutinesNext]_routineVars => HeapInv'
  BY HeapKept DEF RoutinesNext, routineVars, Dividing, Copying, Drawing, Sounding, Allocating,
                  Bumping, Timing, Over
<1> QED
  BY <1>1, <1>2, HeapInvIsSound, PTL DEF RoutinesSpec

\* No call disturbs what a block in use holds, and a block that realloc moves
\* takes its contents along.
THEOREM HeapKeepsContents == RoutinesSpec => ContentsKept
<1> DEFINE Undisturbed ==
             /\ \A p \in DOMAIN live \cap DOMAIN live' : (\A v \in Values : ~Store(p, v)) => Kept(p)
             /\ \A p \in DOMAIN live, n \in Requests :
                   ReallocMove(p, n) => \A a \in CellsFrom(p, live[p]) : ram'[NewPtr + (a - p)] = ram[a]
<1>1. RoutinesInit => HeapInv
  BY HeapStarts DEF RoutinesInit
<1>2. HeapInv /\ [RoutinesNext]_routineVars => HeapInv' /\ [BumpNext]_bumpVars
  BY HeapKept DEF RoutinesNext, routineVars, Dividing, Copying, Drawing, Sounding, Allocating,
                  Bumping, Timing, Over
<1>3. HeapInv /\ [BumpNext]_bumpVars => [Undisturbed]_bumpVars
  BY OnlyStoreStores, MoveTakesAll
<1>4. RoutinesSpec => [][Undisturbed]_bumpVars
  BY <1>1, <1>2, <1>3, PTL DEF RoutinesSpec
<1> QED
  BY <1>4 DEF ContentsKept

-----------------------------------------------------------------------------
(* The free list heap.  The walk from the first block is a recursive        *)
(* function; that it finds exactly the blocks is shown from its equation.   *)

LEMMA WalkIs ==
    ASSUME NEW h
    PROVE  Walk(h) = [n \in Unit |-> IF n = 0 THEN 0 ELSE Follow(h, Walk(h)[n - 1])]
<1> DEFINE Partial(g, k) == g = [n \in 0 .. k |-> IF n = 0 THEN 0 ELSE Follow(h, g[n - 1])]
           Missing == {k \in Nat : ~ \E g : Partial(g, k)}
<1>1. Missing = {}
  <2>1. SUFFICES ASSUME Missing # {}
                 PROVE  FALSE
    OBVIOUS
  <2>2. PICK k \in Missing : \A m \in Missing : k <= m
    <3>1. Missing \in SUBSET Nat
      OBVIOUS
    <3> HIDE DEF Missing
    <3> QED
      BY <2>1, <3>1, LeastOf
  <2>3. CASE k = 0
    <3>1. Partial([n \in 0 .. 0 |-> 0], 0)
      OBVIOUS
    <3> QED
      BY <2>2, <2>3, <3>1
  <2>4. CASE k # 0
    <3>1. k - 1 \in Nat /\ k - 1 \notin Missing
      <4>1. k \in Nat
        BY <2>2
      <4> HIDE DEF Missing
      <4>2. k - 1 \in Nat /\ ~(k <= k - 1)
        BY <2>4, <4>1
      <4> QED
        BY <2>2, <4>2
    <3>2. PICK f : Partial(f, k - 1)
      BY <3>1
    <3> DEFINE g == [n \in 0 .. k |-> IF n = 0 THEN 0 ELSE Follow(h, f[n - 1])]
    <3>3. \A n \in 0 .. k - 1 : g[n] = f[n]
      BY <3>1, <3>2
    <3>4. \A n \in 0 .. k : n # 0 => g[n - 1] = f[n - 1]
      <4> TAKE n \in 0 .. k
      <4>1. n # 0 => n - 1 \in 0 .. k - 1
        BY <3>1
      <4> HIDE DEF g
      <4> QED
        BY <3>3, <4>1
    <3>5. Partial(g, k)
      BY <3>4
    <3> QED
      BY <2>2, <3>5
  <2> QED
    BY <2>3, <2>4
<1>2. HeapUnits - 1 \in Nat /\ Unit = 0 .. HeapUnits - 1
  BY HeapUnitsAssumption DEF Unit
<1>3. \E g : Partial(g, HeapUnits - 1)
  BY <1>1, <1>2
<1>4. \E g : g = [n \in Unit |-> IF n = 0 THEN 0 ELSE Follow(h, g[n - 1])]
  BY <1>2, <1>3
<1> QED
  BY <1>4 DEF Walk

Big(h, a) == IF h[a].size < 0 THEN -h[a].size ELSE h[a].size
EndOf(h, a) == a + 1 + Big(h, a)
HeaderSet == [size : Int, next : Unit \cup {NULL}, prev : Unit \cup {NULL}]

\* The blocks of S fill the heap and are linked in both directions.
Shape(h, S) ==
    /\ h \in [Unit -> HeaderSet]
    /\ S \in SUBSET Unit /\ 0 \in S
    /\ \A a \in S :
        /\ h[a].size # 0
        /\ h[a].next = NULL => EndOf(h, a) = HeapUnits
        /\ h[a].next # NULL => /\ h[a].next \in S /\ h[a].next = EndOf(h, a)
                               /\ h[h[a].next].prev = a
        /\ a = 0 => h[a].prev = NULL
        /\ a # 0 => h[a].prev \in S /\ h[h[a].prev].next = a
        /\ \A c \in S : a < c => EndOf(h, a) <= c

LEMMA ShapeFacts ==
    ASSUME NEW h, NEW S, Shape(h, S), NEW a \in S
    PROVE  /\ a \in Unit /\ a \in Nat /\ a < HeapUnits /\ HeapUnits \in Nat /\ NULL \notin Unit /\ NULL = -1
           /\ h[a].size \in Int /\ Big(h, a) \in Nat /\ Big(h, a) > 0
           /\ h[a].next \in Unit \cup {NULL} /\ h[a].prev \in Unit \cup {NULL}
           /\ h[a].next # NULL => h[a].next > a
           /\ a # 0 => h[a].prev < a
           /\ EndOf(h, a) = a + 1 + Big(h, a) /\ EndOf(h, a) <= HeapUnits
<1>1. HeapUnits \in Nat /\ NULL = -1 /\ S \subseteq 0 .. HeapUnits - 1
  BY HeapUnitsAssumption DEF NULL, Unit, Shape
<1>2. h[a] \in HeaderSet /\ h[a].size # 0
  BY DEF Shape
<1>3. h[a].size \in Int /\ h[a].next \in Unit \cup {NULL} /\ h[a].prev \in Unit \cup {NULL}
  BY <1>2 DEF HeaderSet
<1>4. Big(h, a) \in Nat /\ Big(h, a) > 0
  BY <1>2, <1>3 DEF Big
<1>5. h[a].next # NULL => h[a].next > a /\ EndOf(h, a) <= HeapUnits
  BY <1>1, <1>4 DEF Shape, EndOf
<1>6. a # 0 => h[a].prev < a
  <2> SUFFICES ASSUME a # 0
               PROVE  h[a].prev < a
    OBVIOUS
  <2> DEFINE p == h[a].prev
  <2>1. p \in S /\ h[p].next = a /\ a # NULL
    BY <1>1 DEF Shape
  <2>2. a = EndOf(h, p) /\ h[p].size # 0 /\ h[p] \in HeaderSet
    BY <2>1 DEF Shape
  <2>3. h[p].size \in Int
    BY <2>2 DEF HeaderSet
  <2>4. Big(h, p) \in Nat /\ Big(h, p) > 0
    BY <2>2, <2>3 DEF Big
  <2> HIDE DEF p
  <2>5. p < a
    BY <1>1, <2>1, <2>2, <2>4 DEF EndOf
  <2> QED
    BY <2>5 DEF p
<1>7. h[a].next = NULL => EndOf(h, a) = HeapUnits
  BY DEF Shape
<1> QED
  BY <1>1, <1>3, <1>4, <1>5, <1>6, <1>7 DEF EndOf, Unit

LEMMA ChainIsShape ==
    ASSUME NEW h, NEW S, Shape(h, S)
    PROVE  Chain(h) = S
<1>1. /\ HeapUnits \in Nat /\ HeapUnits > 1 /\ Unit = 0 .. HeapUnits - 1 /\ NULL = -1 /\ NULL \notin S
      /\ S \subseteq Unit /\ 0 \in S
  BY HeapUnitsAssumption DEF NULL, Unit, Shape
<1>2. \A n \in Unit : Walk(h)[n] = IF n = 0 THEN 0 ELSE Follow(h, Walk(h)[n - 1])
  <2> DEFINE w == Walk(h)
  <2>1. w = [n \in Unit |-> IF n = 0 THEN 0 ELSE Follow(h, w[n - 1])]
    BY WalkIs
  <2> HIDE DEF w
  <2>2. \A n \in Unit : w[n] = IF n = 0 THEN 0 ELSE Follow(h, w[n - 1])
    BY <2>1
  <2> QED
    BY <2>2 DEF w
<1>3. \A n \in Unit : Walk(h)[n] = NULL \/ (Walk(h)[n] \in S /\ Walk(h)[n] >= n)
  <2> DEFINE Bad == {n \in Unit : ~(Walk(h)[n] = NULL \/ (Walk(h)[n] \in S /\ Walk(h)[n] >= n))}
  <2>1. SUFFICES ASSUME Bad # {}
                 PROVE  FALSE
    OBVIOUS
  <2>2. PICK n \in Bad : \A m \in Bad : n <= m
    <3>1. Bad \in SUBSET Nat
      BY <1>1
    <3> HIDE DEF Bad
    <3> QED
      BY <2>1, <3>1, LeastOf
  <2>3. n # 0 /\ n \in Unit
    BY <1>1, <1>2, <2>2
  <2>4. n - 1 \in Unit /\ n - 1 \notin Bad
    <3>1. n - 1 \in Unit /\ ~(n <= n - 1)
      BY <1>1, <2>3
    <3> HIDE DEF Bad
    <3> QED
      BY <2>2, <3>1
  <2> DEFINE a == Walk(h)[n - 1]
  <2>5. a = NULL \/ (a \in S /\ a >= n - 1)
    BY <2>4
  <2>6. Walk(h)[n] = Follow(h, a)
    BY <1>2, <2>3
  <2>7. Walk(h)[n] = NULL \/ (Walk(h)[n] \in S /\ Walk(h)[n] >= n)
    <3> HIDE DEF a
    <3>1. CASE a = NULL
      BY <2>6, <3>1 DEF Follow
    <3>2. CASE a # NULL /\ h[a].next = NULL
      BY <2>6, <3>2 DEF Follow
    <3>3. CASE a # NULL /\ h[a].next # NULL
      <4>1. a \in S /\ a >= n - 1
        BY <2>5, <3>3
      <4>2. h[a].next \in S /\ h[a].next > a /\ a \in Nat
        BY <3>3, <4>1, ShapeFacts DEF Shape
      <4>3. h[a].next \in Nat /\ n \in Nat
        <5>1. \A u \in Unit : u \in Nat
          BY <1>1
        <5> QED
          BY <1>1, <2>3, <4>2, <5>1
      <4>4. h[a].next >= n
        BY <4>1, <4>2, <4>3
      <4> QED
        BY <2>6, <3>3, <4>2, <4>4 DEF Follow
    <3> QED
      BY <3>1, <3>2, <3>3
  <2> QED
    BY <2>2, <2>7
<1>4. Chain(h) \subseteq S
  BY <1>3 DEF Chain
<1>5. S \subseteq Chain(h)
  <2> DEFINE Bad == S \ Chain(h)
  <2>1. SUFFICES ASSUME Bad # {}
                 PROVE  FALSE
    OBVIOUS
  <2>2. \A u \in Unit : u \in Nat /\ u < HeapUnits
    BY <1>1
  <2>3. PICK a \in Bad : \A m \in Bad : a <= m
    <3>1. Bad \in SUBSET Nat
      BY <1>1, <2>2
    <3> HIDE DEF Bad
    <3> QED
      BY <2>1, <3>1, LeastOf
  <2>4. a \in S /\ a \notin Chain(h) /\ a \in Nat /\ a < HeapUnits
    BY <1>1, <2>2, <2>3
  <2>5. \A m \in S : m \in Nat /\ m < a => m \in Chain(h)
    <3>1. \A m \in Nat : m < a => ~(a <= m)
      BY <2>4
    <3> QED
      BY <2>3, <3>1
  <2> HIDE DEF Bad
  <2>6. Walk(h)[0] = 0 /\ 0 \in Unit
    BY <1>1, <1>2
  <2>7. a # 0
    BY <1>1, <2>4, <2>6 DEF Chain
  <2> DEFINE p == h[a].prev
  <2>8. p \in S /\ h[p].next = a
    BY <2>4, <2>7 DEF Shape
  <2>9. p < a /\ p \in Nat /\ p # NULL
    BY <1>1, <2>2, <2>4, <2>7, <2>8, ShapeFacts
  <2> HIDE DEF p
  <2>10. p \in Chain(h)
    BY <2>5, <2>8, <2>9
  <2>11. PICK n \in Unit : Walk(h)[n] = p
    BY <2>10 DEF Chain
  <2>12. n <= p /\ n \in Nat
    BY <1>3, <2>2, <2>9, <2>11
  <2>13. n + 1 \in Unit /\ (n + 1) - 1 = n /\ n + 1 # 0
    BY <1>1, <2>4, <2>9, <2>12
  <2>14. Walk(h)[n + 1] = a
    BY <1>2, <2>8, <2>9, <2>11, <2>13 DEF Follow
  <2>15. a \in Chain(h)
    BY <1>1, <2>4, <2>13, <2>14 DEF Chain
  <2> QED
    BY <2>4, <2>15
<1> QED
  BY <1>4, <1>5

\* Two blocks do not share a successor or a predecessor.
LEMMA OneBehind ==
    ASSUME NEW h, NEW S, Shape(h, S), NEW a \in S, NEW c \in S, h[c].next = a
    PROVE  c = h[a].prev /\ a # 0 /\ c < a
<1>1. a # NULL /\ h[c].next > c /\ a \in Nat /\ c \in Nat
  BY ShapeFacts
<1>2. h[h[c].next].prev = c
  BY <1>1 DEF Shape
<1> QED
  BY <1>1, <1>2

\* Giving out a block, or taking it back, turns its size.
Turned(h, a) == [h EXCEPT ![a].size = -h[a].size]

LEMMA TurnKeepsShape ==
    ASSUME NEW h, NEW S, Shape(h, S), NEW a \in S, NEW h2, h2 = Turned(h, a)
    PROVE  /\ Shape(h2, S)
           /\ \A c \in S : /\ h2[c].size = IF c = a THEN -h[a].size ELSE h[c].size
                           /\ h2[c].next = h[c].next /\ h2[c].prev = h[c].prev
                           /\ Big(h2, c) = Big(h, c)
<1>1. h \in [Unit -> HeaderSet] /\ S \in SUBSET Unit /\ 0 \in S
  BY DEF Shape
<1>2. \A c \in S : /\ h2[c].size = IF c = a THEN -h[a].size ELSE h[c].size
                   /\ h2[c].next = h[c].next /\ h2[c].prev = h[c].prev
  BY <1>1 DEF HeaderSet, Turned
<1>3. h[a].size \in Int
  BY ShapeFacts
<1>4. \A c \in S : Big(h2, c) = Big(h, c) /\ EndOf(h2, c) = EndOf(h, c)
  BY <1>2, <1>3 DEF Big, EndOf
<1>5. h2 \in [Unit -> HeaderSet]
  BY <1>1, <1>3 DEF HeaderSet, Turned
<1>6. \A c \in S : /\ h2[c].size # 0
                   /\ h2[c].next # NULL => h[c].next \in S /\ h2[h2[c].next].prev = h[h[c].next].prev
                   /\ c # 0 => h[c].prev \in S /\ h2[h2[c].prev].next = h[h[c].prev].next
  BY <1>2, <1>3 DEF Shape
<1>7. \A c \in S :
        /\ h2[c].next = NULL => EndOf(h2, c) = HeapUnits
        /\ h2[c].next # NULL => h2[c].next \in S /\ h2[c].next = EndOf(h2, c) /\ h2[h2[c].next].prev = c
        /\ c = 0 => h2[c].prev = NULL
        /\ c # 0 => h2[c].prev \in S /\ h2[h2[c].prev].next = c
        /\ \A d \in S : c < d => EndOf(h2, c) <= d
  <2>1. TAKE c \in S
  <2>2. h2[c].next = h[c].next /\ h2[c].prev = h[c].prev /\ EndOf(h2, c) = EndOf(h, c)
    BY <1>2, <1>4
  <2>3. /\ h[c].next = NULL => EndOf(h, c) = HeapUnits
        /\ h[c].next # NULL => h[c].next \in S /\ h[c].next = EndOf(h, c) /\ h[h[c].next].prev = c
        /\ c = 0 => h[c].prev = NULL
        /\ c # 0 => h[c].prev \in S /\ h[h[c].prev].next = c
        /\ \A d \in S : c < d => EndOf(h, c) <= d
    BY DEF Shape
  <2> QED
    BY <1>6, <2>2, <2>3
<1> QED
  BY <1>1, <1>2, <1>4, <1>5, <1>6, <1>7 DEF Shape

\* A free block and the free block behind it become one.
Joined(h, a) ==
    LET n == h[a].next
    IN  SetPrev([h EXCEPT ![a].size = @ + HEADER_SIZE + h[n].size, ![a].next = h[n].next], h[n].next, a)

SizeThenNext(h, a, x, y) == [h EXCEPT ![a].size = x, ![a].next = y]
NextThenSize(h, a, x, y) == [h EXCEPT ![a].next = y, ![a].size = x]

LEMMA SizeAndNext ==
    ASSUME NEW h, h \in [Unit -> HeaderSet], NEW a \in Unit, NEW x \in Int, NEW y \in Unit \cup {NULL},
           NEW g, g = SizeThenNext(h, a, x, y) \/ g = NextThenSize(h, a, x, y)
    PROVE  /\ g \in [Unit -> HeaderSet]
           /\ \A c \in Unit : /\ g[c].size = IF c = a THEN x ELSE h[c].size
                              /\ g[c].next = IF c = a THEN y ELSE h[c].next
                              /\ g[c].prev = h[c].prev
<1>1. CASE g = SizeThenNext(h, a, x, y)
  BY <1>1 DEF HeaderSet, SizeThenNext
<1>2. CASE g = NextThenSize(h, a, x, y)
  BY <1>2 DEF HeaderSet, NextThenSize
<1> QED
  BY <1>1, <1>2

LEMMA JoinedIs ==
    ASSUME NEW h, NEW S, Shape(h, S), NEW a \in S, NEW n \in S, n = h[a].next,
           h[a].size > 0, h[n].size > 0
    PROVE  /\ Joined(h, a) \in [Unit -> HeaderSet]
           /\ \A c \in Unit :
                /\ Joined(h, a)[c].size = IF c = a THEN h[a].size + 1 + h[n].size ELSE h[c].size
                /\ Joined(h, a)[c].next = IF c = a THEN h[n].next ELSE h[c].next
                /\ Joined(h, a)[c].prev = IF c = h[n].next THEN a ELSE h[c].prev
<1> DEFINE g == [h EXCEPT ![a].size = @ + HEADER_SIZE + h[n].size, ![a].next = h[n].next]
<1>1. /\ h \in [Unit -> HeaderSet] /\ a \in Unit /\ h[a].size \in Int /\ h[n].size \in Int
      /\ h[n].next \in Unit \cup {NULL} /\ NULL \notin Unit
  BY ShapeFacts DEF Shape
<1>2. /\ g \in [Unit -> HeaderSet]
      /\ \A c \in Unit :
            /\ g[c].size = IF c = a THEN h[a].size + 1 + h[n].size ELSE h[c].size
            /\ g[c].next = IF c = a THEN h[n].next ELSE h[c].next
            /\ g[c].prev = h[c].prev
  <2>1. g = SizeThenNext(h, a, h[a].size + 1 + h[n].size, h[n].next)
    BY <1>1 DEF HEADER_SIZE, SizeThenNext
  <2>2. h[a].size + 1 + h[n].size \in Int
    BY <1>1
  <2> HIDE DEF g
  <2> QED
    BY <1>1, <2>1, <2>2, SizeAndNext
<1>3. Joined(h, a) = IF h[n].next = NULL THEN g ELSE [g EXCEPT ![h[n].next].prev = a]
  BY DEF Joined, SetPrev
<1> HIDE DEF g
<1>4. CASE h[n].next = NULL
  BY <1>1, <1>2, <1>3, <1>4
<1>5. CASE h[n].next # NULL
  <2> DEFINE m == h[n].next
             j == Joined(h, a)
  <2>1. m \in Unit /\ j = [g EXCEPT ![m].prev = a]
    BY <1>1, <1>3, <1>5
  <2> HIDE DEF m, j
  <2>2. j \in [Unit -> HeaderSet]
    BY <1>1, <1>2, <2>1 DEF HeaderSet
  <2>3. \A c \in Unit : /\ j[c].size = g[c].size /\ j[c].next = g[c].next
                        /\ j[c].prev = IF c = m THEN a ELSE g[c].prev
    BY <1>2, <2>1 DEF HeaderSet
  <2> QED
    BY <1>2, <2>2, <2>3 DEF m, j
<1> QED
  BY <1>4, <1>5

LEMMA JoinKeepsShape ==
    ASSUME NEW h, NEW S, Shape(h, S), NEW a \in S, NEW n \in S, n = h[a].next,
           h[a].size > 0, h[n].size > 0, NEW j, j = Joined(h, a)
    PROVE  Shape(j, S \ {n})
<1>1. /\ j \in [Unit -> HeaderSet]
      /\ \A c \in S : /\ j[c].size = IF c = a THEN h[a].size + 1 + h[n].size ELSE h[c].size
                      /\ j[c].next = IF c = a THEN h[n].next ELSE h[c].next
                      /\ j[c].prev = IF c = h[n].next THEN a ELSE h[c].prev
  BY JoinedIs DEF Shape
<1>2. /\ a \in Nat /\ n \in Nat /\ a < n /\ n # 0 /\ h[n].prev = a /\ n = EndOf(h, a)
      /\ h[a].size \in Int /\ h[n].size \in Int /\ NULL \notin Unit
      /\ h[n].next \in Unit \cup {NULL} /\ h[n].next # NULL => h[n].next > n
  BY OneBehind, ShapeFacts DEF Shape
<1>3. /\ Big(j, a) = h[a].size + 1 + h[n].size /\ EndOf(j, a) = EndOf(h, n)
      /\ \A c \in S : c # a => Big(j, c) = Big(h, c) /\ EndOf(j, c) = EndOf(h, c)
  <2>1. Big(h, a) = h[a].size /\ Big(h, n) = h[n].size
    BY <1>2 DEF Big
  <2>2. Big(j, a) = h[a].size + 1 + h[n].size
    BY <1>1, <1>2 DEF Big
  <2>3. EndOf(j, a) = EndOf(h, n)
    BY <1>2, <2>1, <2>2 DEF EndOf
  <2>4. \A c \in S : c # a => Big(j, c) = Big(h, c) /\ EndOf(j, c) = EndOf(h, c)
    BY <1>1 DEF Big, EndOf
  <2> QED
    BY <2>2, <2>3, <2>4
<1>4. \A c \in S \ {n} : h[c].next # n \/ c = a
  BY <1>2, OneBehind
<1>5. \A c \in S \ {n} : c # 0 => h[c].prev # n \/ c = h[n].next
  BY DEF Shape
<1>6. ASSUME NEW c \in S \ {n}
      PROVE  /\ j[c].size # 0
             /\ j[c].next = NULL => EndOf(j, c) = HeapUnits
             /\ c = 0 => j[c].prev = NULL
             /\ \A d \in S \ {n} : c < d => EndOf(j, c) <= d
  <2>1. j[c].size # 0
    BY <1>1, <1>2 DEF Shape
  <2>2. j[c].next = NULL => EndOf(j, c) = HeapUnits
    BY <1>1, <1>3 DEF Shape
  <2>3. c = 0 => j[c].prev = NULL
    BY <1>1, <1>2 DEF Shape
  <2>4. ASSUME NEW d \in S \ {n}, c < d
        PROVE  EndOf(j, c) <= d
    <3>1. CASE c # a
      BY <1>3, <2>4, <3>1 DEF Shape
    <3>2. CASE c = a
      <4>1. n <= d /\ d \in Nat
        BY <1>2, <2>4, <3>2, ShapeFacts DEF Shape
      <4>2. n < d
        BY <1>2, <4>1
      <4> QED
        BY <1>3, <3>2, <4>2 DEF Shape
    <3> QED
      BY <3>1, <3>2
  <2> QED
    BY <2>1, <2>2, <2>3, <2>4
<1>7. ASSUME NEW c \in S \ {n}, j[c].next # NULL
      PROVE  j[c].next \in S \ {n} /\ j[c].next = EndOf(j, c) /\ j[j[c].next].prev = c
  <2>1. CASE c = a
    <3>1. h[n].next \in S /\ h[n].next # n /\ h[n].next = EndOf(h, n) /\ j[a].next = h[n].next
      BY <1>1, <1>2, <1>7, <2>1 DEF Shape
    <3> QED
      BY <1>1, <1>3, <2>1, <3>1
  <2>2. CASE c # a
    <3> DEFINE d == h[c].next
    <3>1. d \in S /\ d = EndOf(h, c) /\ h[d].prev = c /\ j[c].next = d
      BY <1>1, <1>7, <2>2 DEF Shape
    <3>2. d # n
      BY <1>4, <2>2
    <3>3. d # h[n].next
      <4>1. h[n].next = d => h[d].prev = n
        BY <3>1, OneBehind
      <4> QED
        BY <3>1, <4>1
    <3> HIDE DEF d
    <3> QED
      BY <1>1, <1>3, <2>2, <3>1, <3>2, <3>3
  <2> QED
    BY <2>1, <2>2
<1>8. ASSUME NEW c \in S \ {n}, c # 0
      PROVE  j[c].prev \in S \ {n} /\ j[j[c].prev].next = c
  <2>1. CASE c = h[n].next
    BY <1>1, <1>2, <2>1
  <2>2. CASE c # h[n].next
    <3> DEFINE d == h[c].prev
    <3>1. d \in S /\ h[d].next = c /\ j[c].prev = d /\ d # n
      BY <1>1, <1>5, <1>8, <2>2 DEF Shape
    <3>2. d # a
      BY <3>1
    <3> HIDE DEF d
    <3> QED
      BY <1>1, <3>1, <3>2
  <2> QED
    BY <2>1, <2>2
<1> QED
  BY <1>1, <1>2, <1>6, <1>7, <1>8 DEF Shape

\* The front of a free block is given out and the rest becomes a block.
LEMMA SplitIs ==
    ASSUME NEW h, NEW S, Shape(h, S), NEW a \in S, NEW n \in Nat \ {0}, h[a].size - n - 1 >= 1,
           NEW b, b = a + 1 + n, NEW s, s = Split(h, a, n)
    PROVE  /\ b \in Unit /\ s \in [Unit -> HeaderSet]
           /\ \A c \in Unit :
                /\ s[c].size = IF c = a THEN -n ELSE IF c = b THEN h[a].size - n - 1 ELSE h[c].size
                /\ s[c].next = IF c = a THEN b ELSE IF c = b THEN h[a].next ELSE h[c].next
                /\ s[c].prev = IF c = h[a].next THEN b ELSE IF c = b THEN a ELSE h[c].prev
<1> DEFINE new == Header(h[a].size - n - HEADER_SIZE, h[a].next, a)
           g == [h EXCEPT ![b] = new]
           k == SetPrev(g, h[a].next, b)
<1>1. /\ h \in [Unit -> HeaderSet] /\ a \in Unit /\ a \in Nat /\ h[a].size \in Int
      /\ h[a].next \in Unit \cup {NULL} /\ NULL \notin Unit /\ HeapUnits \in Nat /\ NULL = -1
      /\ EndOf(h, a) <= HeapUnits /\ Big(h, a) = h[a].size /\ EndOf(h, a) = a + 1 + h[a].size
      /\ h[a].next # NULL => h[a].next = EndOf(h, a)
  <2>1. h[a].size > 0 /\ h[a].size \in Int
    BY ShapeFacts
  <2> QED
    BY <2>1, ShapeFacts DEF Shape, Big, EndOf
<1>2. b \in Nat /\ a < b /\ b < HeapUnits /\ b \in Unit /\ h[a].next # b
  BY <1>1, HeapUnitsAssumption DEF Unit
<1>3. new \in HeaderSet /\ new.size = h[a].size - n - 1 /\ new.next = h[a].next /\ new.prev = a
  BY <1>1 DEF HeaderSet, Header, HEADER_SIZE
<1> HIDE DEF new
<1>4. g \in [Unit -> HeaderSet] /\ \A c \in Unit : g[c] = IF c = b THEN new ELSE h[c]
  BY <1>1, <1>2, <1>3
<1>5. k = IF h[a].next = NULL THEN g ELSE [g EXCEPT ![h[a].next].prev = b]
  BY DEF SetPrev
<1>6. s = NextThenSize(k, a, -n, b)
  BY DEF Split, new, HEADER_SIZE, NextThenSize
<1> HIDE DEF g, k
<1>7. /\ k \in [Unit -> HeaderSet]
      /\ \A c \in Unit : /\ k[c].size = g[c].size /\ k[c].next = g[c].next
                         /\ k[c].prev = IF c = h[a].next THEN b ELSE g[c].prev
  <2>1. CASE h[a].next = NULL
    BY <1>1, <1>4, <1>5, <2>1
  <2>2. CASE h[a].next # NULL
    <3> DEFINE m == h[a].next
    <3>1. m \in Unit /\ k = [g EXCEPT ![m].prev = b]
      BY <1>1, <1>5, <2>2
    <3> HIDE DEF m
    <3>2. k \in [Unit -> HeaderSet]
      BY <1>2, <1>4, <3>1 DEF HeaderSet
    <3>3. \A c \in Unit : /\ k[c].size = g[c].size /\ k[c].next = g[c].next
                          /\ k[c].prev = IF c = m THEN b ELSE g[c].prev
      BY <1>4, <3>1 DEF HeaderSet
    <3> QED
      BY <3>2, <3>3 DEF m
  <2> QED
    BY <2>1, <2>2
<1>8. /\ s \in [Unit -> HeaderSet]
      /\ \A c \in Unit : /\ s[c].size = IF c = a THEN -n ELSE k[c].size
                         /\ s[c].next = IF c = a THEN b ELSE k[c].next
                         /\ s[c].prev = k[c].prev
  <2>1. -n \in Int /\ b \in Unit \cup {NULL} /\ a \in Unit
    BY <1>1, <1>2
  <2> QED
    BY <1>6, <1>7, <2>1, SizeAndNext
<1> QED
  BY <1>2, <1>3, <1>4, <1>7, <1>8

LEMMA SplitKeepsShape ==
    ASSUME NEW h, NEW S, Shape(h, S), NEW a \in S, NEW n \in Nat \ {0}, h[a].size - n - 1 >= 1,
           NEW b, b = a + 1 + n, NEW s, s = Split(h, a, n)
    PROVE  Shape(s, S \cup {b}) /\ b \notin S
<1>1. /\ b \in Unit /\ s \in [Unit -> HeaderSet]
      /\ \A c \in Unit :
            /\ s[c].size = IF c = a THEN -n ELSE IF c = b THEN h[a].size - n - 1 ELSE h[c].size
            /\ s[c].next = IF c = a THEN b ELSE IF c = b THEN h[a].next ELSE h[c].next
            /\ s[c].prev = IF c = h[a].next THEN b ELSE IF c = b THEN a ELSE h[c].prev
  BY SplitIs
<1>2. /\ a \in Nat /\ b \in Nat /\ a < b /\ b # 0 /\ h[a].size \in Int /\ h[a].size > 0 /\ S \subseteq Unit
      /\ EndOf(h, a) = a + 1 + h[a].size /\ b < EndOf(h, a) /\ NULL \notin Unit /\ b # NULL
      /\ h[a].next \in Unit \cup {NULL} /\ 0 \in S
  <2>1. h[a].size > 0 /\ h[a].size \in Int /\ a \in Nat
    BY ShapeFacts
  <2> QED
    <3>1. EndOf(h, a) = a + 1 + h[a].size
      BY <2>1 DEF Big, EndOf
    <3>2. b \in Nat /\ a < b /\ b < EndOf(h, a)
      BY <2>1, <3>1
    <3>3. S \subseteq Unit /\ 0 \in S
      BY DEF Shape
    <3>4. NULL \notin Unit /\ NULL = -1 /\ h[a].next \in Unit \cup {NULL}
      BY ShapeFacts
    <3> QED
      BY <2>1, <3>1, <3>2, <3>3, <3>4
<1>3. b \notin S
  BY <1>2 DEF Shape
<1>4. /\ Big(s, a) = n /\ EndOf(s, a) = b
      /\ Big(s, b) = h[a].size - n - 1 /\ EndOf(s, b) = EndOf(h, a)
      /\ \A c \in S : c # a => Big(s, c) = Big(h, c) /\ EndOf(s, c) = EndOf(h, c)
  <2>1. s[a].size = -n /\ s[b].size = h[a].size - n - 1
    BY <1>1, <1>2
  <2>2. Big(s, a) = n /\ Big(s, b) = h[a].size - n - 1
    BY <1>2, <2>1 DEF Big
  <2>3. EndOf(s, a) = b /\ EndOf(s, b) = EndOf(h, a)
    BY <1>2, <2>2 DEF EndOf
  <2>4. \A c \in S : c # a => s[c].size = h[c].size
    BY <1>1, <1>2, <1>3
  <2> QED
    BY <2>2, <2>3, <2>4 DEF Big, EndOf
<1>5. ASSUME NEW c \in S, c # a
      PROVE  /\ s[c].size # 0
             /\ s[c].next = NULL => EndOf(s, c) = HeapUnits
             /\ s[c].next # NULL => s[c].next \in S /\ s[c].next = EndOf(s, c) /\ s[s[c].next].prev = c
             /\ c = 0 => s[c].prev = NULL
             /\ c # 0 => s[c].prev \in S \cup {b} /\ s[s[c].prev].next = c
             /\ \A d \in S \cup {b} : c < d => EndOf(s, c) <= d
  <2>1. c \in Unit /\ c # b /\ s[c].size = h[c].size /\ s[c].next = h[c].next
    BY <1>1, <1>2, <1>3, <1>5
  <2>2. s[c].next # NULL => s[c].next \in S /\ s[c].next = EndOf(s, c) /\ s[s[c].next].prev = c
    <3> SUFFICES ASSUME s[c].next # NULL
                 PROVE  s[c].next \in S /\ s[c].next = EndOf(s, c) /\ s[s[c].next].prev = c
      OBVIOUS
    <3> DEFINE d == h[c].next
    <3>1. d \in S /\ d = EndOf(h, c) /\ h[d].prev = c /\ s[c].next = d
      BY <2>1 DEF Shape
    <3>2. d # h[a].next
      <4>1. d = h[a].next => h[d].prev = a
        BY <3>1, OneBehind
      <4> QED
        BY <1>5, <3>1, <4>1
    <3> HIDE DEF d
    <3>3. s[d].prev = h[d].prev
      BY <1>1, <1>2, <1>3, <3>1, <3>2
    <3> QED
      BY <1>4, <1>5, <3>1, <3>3
  <2>3. c = 0 => s[c].prev = NULL
    <3>1. c = 0 => c # h[a].next
      BY <1>2, ShapeFacts
    <3> QED
      BY <1>1, <2>1, <3>1 DEF Shape
  <2>4. c # 0 => s[c].prev \in S \cup {b} /\ s[s[c].prev].next = c
    <3>1. CASE c = h[a].next
      BY <1>1, <1>2, <2>1, <3>1
    <3>2. CASE c # h[a].next
      <4> SUFFICES ASSUME c # 0
                   PROVE  s[c].prev \in S \cup {b} /\ s[s[c].prev].next = c
        OBVIOUS
      <4> DEFINE d == h[c].prev
      <4>1. d \in S /\ h[d].next = c /\ d # a /\ s[c].prev = d
        BY <1>1, <2>1, <3>2 DEF Shape
      <4> HIDE DEF d
      <4>2. s[d].next = c
        BY <1>1, <1>2, <1>3, <4>1
      <4> QED
        BY <4>1, <4>2
    <3> QED
      BY <3>1, <3>2
  <2>5. ASSUME NEW d \in S \cup {b}, c < d
        PROVE  EndOf(s, c) <= d
    <3>1. CASE d \in S
      BY <1>4, <1>5, <2>5, <3>1 DEF Shape
    <3>2. CASE d = b
      <4>1. c < a
        <5>1. a < c => EndOf(h, a) <= c
          BY <1>5 DEF Shape
        <5>2. c \in Nat /\ ~(a < c)
          BY <1>2, <2>5, <3>2, <5>1, ShapeFacts
        <5> QED
          BY <1>2, <1>5, <5>2
      <4>2. EndOf(h, c) <= a /\ EndOf(h, c) \in Nat
        <5>1. EndOf(h, c) <= a
          BY <4>1 DEF Shape
        <5>2. EndOf(h, c) \in Nat
          BY ShapeFacts
        <5> QED
          BY <5>1, <5>2
      <4> QED
        BY <1>2, <1>4, <1>5, <3>2, <4>2
    <3> QED
      BY <3>1, <3>2
  <2>6. h[c].next = NULL => EndOf(h, c) = HeapUnits
    BY DEF Shape
  <2>7. h[c].size # 0
    BY DEF Shape
  <2> QED
    BY <1>4, <1>5, <2>1, <2>2, <2>3, <2>4, <2>5, <2>6, <2>7
<1>6. /\ s[a].size # 0 /\ s[a].next = b /\ s[b].prev = a
      /\ a = 0 => s[a].prev = NULL
      /\ a # 0 => s[a].prev \in S /\ s[s[a].prev].next = a
      /\ \A d \in S \cup {b} : a < d => EndOf(s, a) <= d
  <2>1. s[a].size # 0 /\ s[a].next = b /\ s[b].prev = a /\ a # h[a].next /\ s[a].prev = h[a].prev
    <3>1. a # h[a].next /\ b # h[a].next
      BY <1>2, <1>3, ShapeFacts DEF Shape
    <3> QED
      BY <1>1, <1>2, <3>1
  <2>2. a # 0 => s[a].prev \in S /\ s[s[a].prev].next = a
    <3> SUFFICES ASSUME a # 0
                 PROVE  s[a].prev \in S /\ s[s[a].prev].next = a
      OBVIOUS
    <3> DEFINE d == h[a].prev
    <3>1. d \in S /\ h[d].next = a /\ d < a
      BY ShapeFacts DEF Shape
    <3> HIDE DEF d
    <3>2. s[d].next = a
      BY <1>1, <1>2, <1>3, <3>1
    <3> QED
      BY <2>1, <3>1, <3>2 DEF d
  <2>3. ASSUME NEW d \in S \cup {b}, a < d
        PROVE  EndOf(s, a) <= d
    <3>1. CASE d \in S
      <4>1. EndOf(h, a) <= d /\ d \in Nat
        BY <2>3, <3>1, ShapeFacts DEF Shape
      <4> QED
        BY <1>2, <1>4, <4>1
    <3>2. CASE d = b
      BY <1>2, <1>4, <3>2
    <3> QED
      BY <3>1, <3>2
  <2> QED
    BY <2>1, <2>2, <2>3 DEF Shape
<1>7. /\ s[b].size # 0
      /\ s[b].next = NULL => EndOf(s, b) = HeapUnits
      /\ s[b].next # NULL => s[b].next \in S /\ s[b].next = EndOf(s, b) /\ s[s[b].next].prev = b
      /\ \A d \in S \cup {b} : b < d => EndOf(s, b) <= d
  <2>1. s[b].size = h[a].size - n - 1 /\ s[b].next = h[a].next
    BY <1>1, <1>2
  <2>2. s[b].next # NULL => s[b].next \in S /\ s[b].next = EndOf(s, b) /\ s[s[b].next].prev = b
    BY <1>1, <1>2, <1>4, <2>1 DEF Shape
  <2>3. ASSUME NEW d \in S, b < d
        PROVE  EndOf(s, b) <= d
    <3>1. a < d
      <4>1. d \in Nat
        BY ShapeFacts
      <4> QED
        BY <1>2, <2>3, <4>1
    <3> QED
      BY <1>4, <3>1 DEF Shape
  <2>4. s[b].next = NULL => EndOf(s, b) = HeapUnits
    BY <1>4, <2>1 DEF Shape
  <2> QED
    BY <1>2, <2>1, <2>2, <2>3, <2>4
<1>8. \A c \in S \cup {b} :
        /\ s[c].size # 0
        /\ s[c].next = NULL => EndOf(s, c) = HeapUnits
        /\ s[c].next # NULL => /\ s[c].next \in S \cup {b} /\ s[c].next = EndOf(s, c)
                               /\ s[s[c].next].prev = c
        /\ c = 0 => s[c].prev = NULL
        /\ c # 0 => s[c].prev \in S \cup {b} /\ s[s[c].prev].next = c
        /\ \A d \in S \cup {b} : c < d => EndOf(s, c) <= d
  <2>1. TAKE c \in S \cup {b}
  <2>2. CASE c \in S /\ c # a
    BY <1>5, <2>2
  <2>3. CASE c = a
    BY <1>2, <1>4, <1>6, <2>3
  <2>4. CASE c = b
    BY <1>2, <1>6, <1>7, <2>4
  <2> QED
    BY <2>2, <2>3, <2>4
<1>9. S \cup {b} \in SUBSET Unit /\ 0 \in S \cup {b}
  BY <1>1, <1>2
<1> QED
  BY <1>1, <1>3, <1>8, <1>9 DEF Shape

\* Free blocks do not lie side by side, with the exception of pairs at a.
Parted(h, S, P) ==
    \A c \in S : h[c].next # NULL /\ <<c, h[c].next>> \notin P
                    => h[c].size < 0 \/ h[h[c].next].size < 0

\* The blocks given out are the client's, and large enough.
Given(h, S, l) ==
    /\ DOMAIN l \subseteq S
    /\ \A c \in S : h[c].size < 0 <=> c \in DOMAIN l
    /\ \A c \in DOMAIN l : l[c] \in Nat \ {0} /\ l[c] <= Big(h, c)

Sound(h, S, l) == Shape(h, S) /\ Parted(h, S, {}) /\ Given(h, S, l)

PortInv ==
    /\ held = [a \in DOMAIN held |-> held[a]]
    /\ IF heap_initialized THEN Sound(header, Chain(header), held)
       ELSE header = [a \in Unit |-> NoHeader] /\ DOMAIN held = {}

LEMMA FirstBlockIsSound ==
    ASSUME PortInv
    PROVE  \E S : Sound(Heap, S, held)
<1>1. CASE heap_initialized
  BY <1>1 DEF PortInv, Heap
<1>2. CASE ~heap_initialized
  <2> DEFINE first == Header(HeapUnits - HEADER_SIZE, NULL, NULL)
  <2>1. 0 \in Unit /\ HeapUnits \in Nat /\ HeapUnits > 1
    BY HeapUnitsAssumption DEF Unit
  <2>2. /\ first \in HeaderSet /\ NoHeader \in HeaderSet
        /\ first.size = HeapUnits - 1 /\ first.next = NULL /\ first.prev = NULL
    BY <2>1 DEF HeaderSet, Header, NoHeader, HEADER_SIZE
  <2>3. header = [a \in Unit |-> NoHeader] /\ DOMAIN held = {} /\ Heap = [header EXCEPT ![0] = first]
    BY <1>2 DEF PortInv, Heap, my_heap_init
  <2> HIDE DEF first
  <2>4. Heap \in [Unit -> HeaderSet] /\ Heap[0] = first
    BY <2>1, <2>2, <2>3
  <2>5. Big(Heap, 0) = HeapUnits - 1 /\ EndOf(Heap, 0) = HeapUnits
    BY <2>1, <2>2, <2>4 DEF Big, EndOf
  <2>6. Shape(Heap, {0})
    BY <2>1, <2>2, <2>4, <2>5 DEF Shape
  <2>7. Parted(Heap, {0}, {}) /\ Given(Heap, {0}, held)
    BY <2>1, <2>2, <2>3, <2>4 DEF Parted, Given
  <2> QED
    BY <2>6, <2>7 DEF Sound
<1> QED
  BY <1>1, <1>2

LEMMA MallocSplits ==
    ASSUME NEW h, NEW S, NEW l, Sound(h, S, l), NEW a \in S, NEW n \in Nat \ {0}, h[a].size - n - 1 >= 1,
           NEW s, s = Split(h, a, n), NEW l2, l2 = [c \in DOMAIN l \cup {a} |-> IF c = a THEN n ELSE l[c]]
    PROVE  \E T : Sound(s, T, l2)
<1> DEFINE b == a + 1 + n
<1>1. Shape(h, S) /\ Parted(h, S, {}) /\ Given(h, S, l)
  BY DEF Sound
<1>2. Shape(s, S \cup {b}) /\ b \notin S
  BY <1>1, SplitKeepsShape
<1>3. /\ b \in Unit
      /\ \A c \in Unit :
            /\ s[c].size = IF c = a THEN -n ELSE IF c = b THEN h[a].size - n - 1 ELSE h[c].size
            /\ s[c].next = IF c = a THEN b ELSE IF c = b THEN h[a].next ELSE h[c].next
  BY <1>1, SplitIs
<1>4. S \subseteq Unit /\ a \in Nat /\ h[a].size \in Int
  BY <1>1, ShapeFacts DEF Shape
<1> HIDE DEF b
<1>5. a # b /\ s[a].size = -n /\ s[b].size > 0 /\ s[a].size < 0
  BY <1>2, <1>3, <1>4
<1>6. ASSUME NEW c \in S, c # a
      PROVE  s[c].size = h[c].size /\ s[c].next = h[c].next /\ Big(s, c) = Big(h, c)
  BY <1>2, <1>3, <1>4, <1>6 DEF Big
<1>7. Parted(s, S \cup {b}, {})
  <2> SUFFICES ASSUME NEW c \in S \cup {b}, s[c].next # NULL
               PROVE  s[c].size < 0 \/ s[s[c].next].size < 0
    BY DEF Parted
  <2>1. CASE c = a
    BY <1>5, <2>1
  <2>2. CASE c = b
    <3> DEFINE m == h[a].next
    <3>1. s[b].next = m /\ m # NULL /\ m \in S /\ m # a
      <4>1. s[b].next = m /\ m # NULL
        BY <1>3, <1>4, <1>5, <2>2
      <4>2. m \in S /\ m > a
        BY <1>1, <4>1, ShapeFacts DEF Shape
      <4> QED
        BY <1>4, <4>1, <4>2
    <3>2. h[a].size < 0 \/ h[m].size < 0
      BY <1>1, <3>1 DEF Parted
    <3>3. h[a].size > 0
      BY <1>4
    <3> HIDE DEF m
    <3>4. s[m].size < 0
      BY <1>4, <1>6, <3>1, <3>2, <3>3
    <3> QED
      BY <2>2, <3>1, <3>4
  <2>3. CASE c \in S /\ c # a
    <3> DEFINE m == h[c].next
    <3>1. s[c].next = m /\ s[c].size = h[c].size /\ m \in S
      BY <1>1, <1>6, <2>3 DEF Shape
    <3>2. h[c].size < 0 \/ h[m].size < 0
      BY <1>1, <2>3, <3>1 DEF Parted
    <3>3. h[m].size < 0 => s[m].size < 0
      <4>1. m = a => ~(h[m].size < 0)
        BY <1>4
      <4> QED
        BY <1>6, <3>1, <4>1
    <3> QED
      BY <3>1, <3>2, <3>3
  <2> QED
    BY <2>1, <2>2, <2>3
<1>8. Given(s, S \cup {b}, l2)
  <2>1. DOMAIN l2 = DOMAIN l \cup {a} /\ l2[a] = n /\ \A c \in DOMAIN l : c # a => l2[c] = l[c]
    OBVIOUS
  <2>2. Big(s, a) = n
    BY <1>5 DEF Big
  <2>3. DOMAIN l2 \subseteq S \cup {b} /\ b \notin DOMAIN l2
    BY <1>1, <1>2, <2>1 DEF Given
  <2>4. \A c \in S \cup {b} : s[c].size < 0 <=> c \in DOMAIN l2
    <3> TAKE c \in S \cup {b}
    <3>1. CASE c = a
      BY <1>5, <2>1, <3>1
    <3>2. CASE c = b
      BY <1>2, <1>3, <1>4, <1>5, <2>3, <3>2
    <3>3. CASE c \in S /\ c # a
      BY <1>1, <1>6, <2>1, <3>3 DEF Given
    <3> QED
      BY <3>1, <3>2, <3>3
  <2>5. \A c \in DOMAIN l2 : l2[c] \in Nat \ {0} /\ l2[c] <= Big(s, c)
    <3> TAKE c \in DOMAIN l2
    <3>1. CASE c = a
      BY <2>1, <2>2, <3>1
    <3>2. CASE c # a
      <4>1. c \in DOMAIN l /\ c \in S /\ l2[c] = l[c] /\ Big(s, c) = Big(h, c)
        BY <1>1, <1>6, <2>1, <3>2 DEF Given
      <4> QED
        BY <1>1, <4>1 DEF Given
    <3> QED
      BY <3>1, <3>2
  <2> QED
    BY <2>3, <2>4, <2>5 DEF Given
<1> QED
  BY <1>2, <1>7, <1>8 DEF Sound

LEMMA MallocTakes ==
    ASSUME NEW h, NEW S, NEW l, Sound(h, S, l), NEW a \in S, NEW n \in Nat \ {0}, h[a].size >= n,
           NEW s, s = TakeWhole(h, a), NEW l2, l2 = [c \in DOMAIN l \cup {a} |-> IF c = a THEN n ELSE l[c]]
    PROVE  Sound(s, S, l2)
<1>1. Shape(h, S) /\ Parted(h, S, {}) /\ Given(h, S, l)
  BY DEF Sound
<1>0. s = Turned(h, a)
  BY DEF TakeWhole, Turned
<1>2. /\ Shape(s, S)
      /\ \A c \in S : /\ s[c].size = IF c = a THEN -h[a].size ELSE h[c].size
                      /\ s[c].next = h[c].next /\ s[c].prev = h[c].prev
                      /\ Big(s, c) = Big(h, c)
  BY <1>0, <1>1, TurnKeepsShape
<1>3. h[a].size \in Int /\ Big(h, a) = h[a].size /\ s[a].size < 0
  BY <1>1, <1>2, ShapeFacts DEF Big
<1>4. Parted(s, S, {})
  <2> SUFFICES ASSUME NEW c \in S, s[c].next # NULL
               PROVE  s[c].size < 0 \/ s[s[c].next].size < 0
    BY DEF Parted
  <2> DEFINE m == h[c].next
  <2>1. s[c].next = m /\ m \in S
    BY <1>1, <1>2 DEF Shape
  <2>2. h[c].size < 0 \/ h[m].size < 0
    BY <1>1, <2>1 DEF Parted
  <2> HIDE DEF m
  <2>3. \A d \in S : h[d].size < 0 => s[d].size < 0
    BY <1>2, <1>3
  <2> QED
    BY <2>1, <2>2, <2>3
<1>5. Given(s, S, l2)
  <2>1. DOMAIN l2 = DOMAIN l \cup {a} /\ l2[a] = n /\ \A c \in DOMAIN l : c # a => l2[c] = l[c]
    OBVIOUS
  <2>2. DOMAIN l2 \subseteq S
    BY <1>1, <2>1 DEF Given
  <2>3. \A c \in S : s[c].size < 0 <=> c \in DOMAIN l2
    BY <1>1, <1>2, <1>3, <2>1 DEF Given
  <2>4. \A c \in DOMAIN l2 : l2[c] \in Nat \ {0} /\ l2[c] <= Big(s, c)
    BY <1>1, <1>2, <1>3, <2>1, <2>2 DEF Given
  <2> QED
    BY <2>2, <2>3, <2>4 DEF Given
<1> QED
  BY <1>2, <1>4, <1>5 DEF Sound

\* free, in its three parts.
LEMMA FreeTurns ==
    ASSUME NEW h, NEW S, NEW l, Sound(h, S, l), NEW a \in DOMAIN l,
           NEW s, s = Turned(h, a),
           NEW l2, l2 = [c \in DOMAIN l \ {a} |-> l[c]]
    PROVE  /\ Shape(s, S) /\ Given(s, S, l2) /\ Parted(s, S, S \X {a} \cup {a} \X Unit)
           /\ a \in S /\ s[a].size > 0
<1>1. Shape(h, S) /\ Parted(h, S, {}) /\ Given(h, S, l) /\ a \in S
  BY DEF Sound, Given
<1>2. /\ Shape(s, S)
      /\ \A c \in S : /\ s[c].size = IF c = a THEN -h[a].size ELSE h[c].size
                      /\ s[c].next = h[c].next /\ s[c].prev = h[c].prev
                      /\ Big(s, c) = Big(h, c)
  BY <1>1, TurnKeepsShape
<1>3. h[a].size \in Int /\ h[a].size < 0 /\ s[a].size > 0
  BY <1>1, <1>2, ShapeFacts DEF Given
<1>4. Parted(s, S, S \X {a} \cup {a} \X Unit)
  <2> SUFFICES ASSUME NEW c \in S, s[c].next # NULL, c # a, s[c].next # a
               PROVE  s[c].size < 0 \/ s[s[c].next].size < 0
    <3>1. \A c \in S : s[c].next # NULL => s[c].next \in Unit
      BY <1>2 DEF Shape
    <3> QED
      BY <3>1 DEF Parted
  <2> DEFINE m == h[c].next
  <2>1. s[c].next = m /\ m \in S /\ m # a
    BY <1>1, <1>2 DEF Shape
  <2>2. h[c].size < 0 \/ h[m].size < 0
    BY <1>1, <1>2, <2>1 DEF Parted
  <2> HIDE DEF m
  <2> QED
    BY <1>2, <2>1, <2>2
<1>5. Given(s, S, l2)
  <2>1. DOMAIN l2 = DOMAIN l \ {a} /\ \A c \in DOMAIN l2 : l2[c] = l[c]
    OBVIOUS
  <2>2. DOMAIN l2 \subseteq S
    BY <1>1, <2>1 DEF Given
  <2>3. \A c \in S : s[c].size < 0 <=> c \in DOMAIN l2
    BY <1>1, <1>2, <1>3, <2>1 DEF Given
  <2>4. \A c \in DOMAIN l2 : l2[c] \in Nat \ {0} /\ l2[c] <= Big(s, c)
    BY <1>1, <1>2, <2>1, <2>2 DEF Given
  <2> QED
    BY <2>2, <2>3, <2>4 DEF Given
<1> QED
  BY <1>1, <1>2, <1>3, <1>4, <1>5

\* Joining two free blocks takes none from the client.
LEMMA JoinKeepsGiven ==
    ASSUME NEW h, NEW S, Shape(h, S), NEW a \in S, NEW n \in S, n = h[a].next,
           h[a].size > 0, h[n].size > 0, NEW j, j = Joined(h, a),
           NEW l, Given(h, S, l)
    PROVE  /\ Given(j, S \ {n}, l) /\ j[a].size > 0
           /\ \A c \in S \ {n, a} : j[c].size = h[c].size /\ j[c].next = h[c].next
<1>1. \A c \in S : /\ j[c].size = IF c = a THEN h[a].size + 1 + h[n].size ELSE h[c].size
                   /\ j[c].next = IF c = a THEN h[n].next ELSE h[c].next
  BY JoinedIs DEF Shape
<1>2. h[a].size \in Int /\ h[n].size \in Int /\ j[a].size > 0
  BY <1>1, ShapeFacts
<1>3. a \notin DOMAIN l /\ n \notin DOMAIN l
  BY <1>2 DEF Given
<1>4. DOMAIN l \subseteq S \ {n}
  BY <1>3 DEF Given
<1>5. \A c \in S \ {n} : j[c].size < 0 <=> c \in DOMAIN l
  BY <1>1, <1>2, <1>3 DEF Given
<1>6. \A c \in DOMAIN l : l[c] \in Nat \ {0} /\ l[c] <= Big(j, c)
  BY <1>1, <1>3, <1>4 DEF Given, Big
<1> QED
  BY <1>1, <1>2, <1>4, <1>5, <1>6 DEF Given

LEMMA FreeJoinsNext ==
    ASSUME NEW h, NEW S, NEW l, Shape(h, S), Given(h, S, l), NEW a \in S, h[a].size > 0,
           Parted(h, S, S \X {a} \cup {a} \X Unit),
           NEW j, j = JoinNext(h, a)
    PROVE  \E T : Shape(j, T) /\ Given(j, T, l) /\ a \in T /\ j[a].size > 0 /\ Parted(j, T, T \X {a})
<1> DEFINE n == h[a].next
<1>1. n \in Unit \cup {NULL} /\ NULL \notin Unit /\ (n # NULL => n \in S /\ h[n].size \in Int /\ h[n].size # 0)
  <2>1. n # NULL => n \in S
    BY DEF Shape
  <2> QED
    BY <2>1, ShapeFacts DEF Shape
<1>2. CASE n = NULL \/ h[n].size < 0
  <2>1. j = h
    BY <1>2 DEF JoinNext
  <2>2. Parted(h, S, S \X {a})
    <3> SUFFICES ASSUME NEW c \in S, h[c].next # NULL, h[c].next # a
                 PROVE  h[c].size < 0 \/ h[h[c].next].size < 0
      BY DEF Parted
    <3>1. CASE c = a
      BY <1>2, <3>1
    <3>2. CASE c # a
      BY <3>2 DEF Parted
    <3> QED
      BY <3>1, <3>2
  <2> QED
    BY <2>1, <2>2
<1>3. CASE n # NULL /\ ~(h[n].size < 0)
  <2>1. n \in S /\ h[n].size > 0
    BY <1>1, <1>3
  <2>2. j = Joined(h, a)
    BY <1>3 DEF JoinNext, Joined
  <2> DEFINE m == h[n].next
             T == S \ {n}
  <2> HIDE DEF n
  <2>3. n = h[a].next
    BY DEF n
  <2>4. /\ Shape(j, T) /\ Given(j, T, l) /\ j[a].size > 0
        /\ \A c \in T : c # a => j[c].size = h[c].size /\ j[c].next = h[c].next
    BY <2>1, <2>2, <2>3, JoinKeepsShape, JoinKeepsGiven
  <2>5. j[a].next = m
    BY <2>1, <2>2, <2>3, JoinedIs DEF Shape
  <2>6. a \in T /\ a < n /\ a \in Nat /\ n \in Nat /\ n # a
    BY <2>1, <2>3, OneBehind, ShapeFacts
  <2>7. Parted(j, T, T \X {a})
    <3> SUFFICES ASSUME NEW c \in T, j[c].next # NULL, j[c].next # a
                 PROVE  j[c].size < 0 \/ j[j[c].next].size < 0
      BY DEF Parted
    <3>1. CASE c = a
      <4>1. m # NULL /\ m > n /\ m \in S /\ m \in Nat
        BY <2>1, <2>5, <3>1, ShapeFacts DEF Shape
      <4>2. m # a /\ m # n
        BY <2>6, <4>1
      <4>3. h[n].size < 0 \/ h[m].size < 0
        BY <2>1, <2>6, <4>1, <4>2 DEF Parted
      <4>4. h[m].size < 0
        BY <1>3, <4>3
      <4> QED
        BY <2>4, <2>5, <3>1, <4>1, <4>2, <4>4
    <3>2. CASE c # a
      <4> DEFINE d == h[c].next
      <4>1. j[c].next = d /\ d # NULL /\ d # a /\ d \in S
        BY <2>4, <3>2 DEF Shape
      <4>2. d # n
        BY <2>1, <2>3, <3>2, OneBehind
      <4>3. h[c].size < 0 \/ h[d].size < 0
        BY <3>2, <4>1 DEF Parted
      <4> HIDE DEF d
      <4> QED
        BY <2>4, <3>2, <4>1, <4>2, <4>3
    <3> QED
      BY <3>1, <3>2
  <2> QED
    BY <2>4, <2>6, <2>7
<1> QED
  BY <1>2, <1>3

LEMMA FreeJoinsPrev ==
    ASSUME NEW h, NEW S, NEW l, Shape(h, S), Given(h, S, l), NEW a \in S, h[a].size > 0,
           Parted(h, S, S \X {a}),
           NEW j, j = JoinPrev(h, a)
    PROVE  \E T : Sound(j, T, l)
<1> DEFINE p == h[a].prev
<1>1. /\ NULL \notin Unit /\ p \in Unit \cup {NULL}
      /\ p # NULL => p \in S /\ h[p].next = a /\ h[p].size \in Int /\ h[p].size # 0 /\ a # NULL
  <2>1. p # NULL => p \in S /\ h[p].next = a /\ a # 0
    BY DEF Shape
  <2> QED
    BY <2>1, ShapeFacts DEF Shape
<1>2. CASE p = NULL \/ h[p].size < 0
  <2>1. j = h
    BY <1>2 DEF JoinPrev
  <2>2. Parted(h, S, {})
    <3> SUFFICES ASSUME NEW c \in S, h[c].next # NULL
                 PROVE  h[c].size < 0 \/ h[h[c].next].size < 0
      BY DEF Parted
    <3>1. CASE h[c].next = a
      <4>1. c = p /\ p # NULL
        <5>1. c = p
          BY <3>1, OneBehind
        <5> QED
          BY <5>1, ShapeFacts
      <4> QED
        BY <1>2, <4>1
    <3>2. CASE h[c].next # a
      BY <3>2 DEF Parted
    <3> QED
      BY <3>1, <3>2
  <2> QED
    BY <2>1, <2>2 DEF Sound
<1>3. CASE p # NULL /\ ~(h[p].size < 0)
  <2>1. p \in S /\ h[p].size > 0 /\ h[p].next = a
    BY <1>1, <1>3
  <2> DEFINE T == S \ {a}
             m == h[a].next
  <2> HIDE DEF p
  <2>2. j = Joined(h, p)
    BY <1>3, <2>1 DEF JoinPrev, Joined, p
  <2>3. /\ Shape(j, T) /\ Given(j, T, l)
        /\ \A c \in T : c # p => j[c].size = h[c].size /\ j[c].next = h[c].next
    BY <2>1, <2>2, JoinKeepsShape, JoinKeepsGiven
  <2>4. j[p].next = m
    BY <2>1, <2>2, JoinedIs DEF Shape
  <2>5. p < a /\ p \in Nat /\ a \in Nat /\ h[a].size \in Int
    BY <2>1, OneBehind, ShapeFacts
  <2>6. Parted(j, T, {})
    <3> SUFFICES ASSUME NEW c \in T, j[c].next # NULL
                 PROVE  j[c].size < 0 \/ j[j[c].next].size < 0
      BY DEF Parted
    <3>1. CASE c = p
      <4>1. m # NULL /\ m > a /\ m \in S /\ m \in Nat
        BY <2>4, <3>1, ShapeFacts DEF Shape
      <4>2. m # a /\ m # p
        BY <2>5, <4>1
      <4>3. h[a].size < 0 \/ h[m].size < 0
        BY <4>1, <4>2 DEF Parted
      <4>4. h[m].size < 0
        BY <2>5, <4>3
      <4> QED
        BY <2>3, <2>4, <3>1, <4>1, <4>2, <4>4
    <3>2. CASE c # p
      <4> DEFINE d == h[c].next
      <4>1. j[c].next = d /\ d # NULL /\ d \in S
        BY <2>3, <3>2 DEF Shape
      <4>2. d # a
        BY <2>1, <3>2, OneBehind
      <4>3. h[c].size < 0 \/ h[d].size < 0
        BY <3>2, <4>1, <4>2 DEF Parted
      <4>4. d = p => h[c].size < 0
        BY <2>1, <4>3, ShapeFacts
      <4> HIDE DEF d
      <4> QED
        BY <2>3, <3>2, <4>1, <4>2, <4>3, <4>4
    <3> QED
      BY <3>1, <3>2
  <2> QED
    BY <2>3, <2>6 DEF Sound
<1> QED
  BY <1>2, <1>3

LEMMA my_mallocKeeps ==
    ASSUME PortInv, NEW n \in 1 .. HeapUnits, my_malloc(n)
    PROVE  PortInv'
<1>1. PICK S : Sound(Heap, S, held)
  BY FirstBlockIsSound
<1>2. Shape(Heap, S) /\ Chain(Heap) = S /\ S \subseteq Unit /\ n \in Nat \ {0}
  BY <1>1, ChainIsShape, HeapUnitsAssumption DEF Sound, Shape
<1>3. \E T : Sound(header', T, held')
  <2>1. CASE Fits(Heap, n) = {}
    BY <1>1, <2>1 DEF my_malloc
  <2>2. CASE Fits(Heap, n) # {}
    <3> DEFINE a == FirstFit(Heap, n)
               l2 == [c \in DOMAIN held \cup {a} |-> IF c = a THEN n ELSE held[c]]
    <3>1. a \in S /\ Heap[a].size >= n
      <4>1. Fits(Heap, n) \in SUBSET Nat
        <5>1. Unit \subseteq Nat
          BY HeapUnitsAssumption DEF Unit
        <5>2. Fits(Heap, n) \subseteq Chain(Heap)
          BY DEF Fits
        <5> QED
          BY <1>2, <5>1, <5>2
      <4>2. \E c \in Fits(Heap, n) : \A d \in Fits(Heap, n) : c <= d
        BY <2>2, <4>1, LeastOf
      <4>3. a \in Fits(Heap, n)
        BY <4>2 DEF FirstFit
      <4> QED
        BY <1>2, <4>3 DEF Fits
    <3>2. /\ header' = IF Heap[a].size - n - 1 >= 1 THEN Split(Heap, a, n) ELSE TakeWhole(Heap, a)
          /\ held' = l2
      BY <2>2 DEF my_malloc, HEADER_SIZE
    <3> HIDE DEF a
    <3>3. CASE Heap[a].size - n - 1 >= 1
      BY <1>1, <1>2, <3>1, <3>2, <3>3, MallocSplits
    <3>4. CASE ~(Heap[a].size - n - 1 >= 1)
      BY <1>1, <1>2, <3>1, <3>2, <3>4, MallocTakes
    <3> QED
      BY <3>3, <3>4
  <2> QED
    BY <2>1, <2>2
<1>4. PICK T : Sound(header', T, held')
  BY <1>3
<1>5. Chain(header') = T
  BY <1>4, ChainIsShape DEF Sound
<1>6. held' = [c \in DOMAIN held' |-> held'[c]]
  BY DEF my_malloc, PortInv
<1>7. heap_initialized'
  BY DEF my_malloc
<1>8. Sound(header', Chain(header'), held')
  BY <1>4, <1>5
<1> QED
  BY <1>6, <1>7, <1>8 DEF PortInv

LEMMA my_freeKeeps ==
    ASSUME PortInv, NEW a \in DOMAIN held, my_free(a)
    PROVE  PortInv'
<1> DEFINE S == Chain(header)
           h1 == Turned(header, a)
           h2 == JoinNext(h1, a)
           h3 == JoinPrev(h2, a)
           l2 == [c \in DOMAIN held \ {a} |-> held[c]]
<1>1. heap_initialized /\ Sound(header, S, held)
  BY DEF PortInv
<1>2. header' = h3 /\ held' = l2 /\ heap_initialized'
  BY <1>1 DEF my_free, Turned
<1> HIDE DEF S, h1, h2, h3
<1>3. /\ Shape(h1, S) /\ Given(h1, S, l2) /\ Parted(h1, S, S \X {a} \cup {a} \X Unit)
      /\ a \in S /\ h1[a].size > 0
  BY <1>1, FreeTurns DEF h1
<1> HIDE DEF l2
<1>4. PICK T : Shape(h2, T) /\ Given(h2, T, l2) /\ a \in T /\ h2[a].size > 0 /\ Parted(h2, T, T \X {a})
  BY <1>3, FreeJoinsNext DEF h2
<1>5. PICK U : Sound(h3, U, l2)
  BY <1>4, FreeJoinsPrev DEF h3
<1>6. Chain(h3) = U
  BY <1>5, ChainIsShape DEF Sound
<1>7. l2 = [c \in DOMAIN l2 |-> l2[c]]
  BY DEF l2
<1>8. Sound(header', Chain(header'), held')
  BY <1>2, <1>5, <1>6
<1> QED
  BY <1>2, <1>7, <1>8 DEF PortInv

LEMMA PortHeapKept ==
    ASSUME PortInv, [PortNext]_portVars
    PROVE  PortInv'
<1>1. ASSUME NEW n \in 1 .. HeapUnits, my_malloc(n)
      PROVE  PortInv'
  BY <1>1, my_mallocKeeps
<1>2. ASSUME NEW a \in DOMAIN held, my_free(a)
      PROVE  PortInv'
  BY <1>2, my_freeKeeps
<1>3. CASE UNCHANGED portVars
  <2>1. heap_initialized' = heap_initialized /\ header' = header /\ held' = held
    BY <1>3 DEF portVars
  <2> QED
    BY <2>1 DEF PortInv
<1> QED
  BY <1>1, <1>2, <1>3 DEF PortNext

LEMMA PortStarts == PortInit => PortInv
  BY DEF PortInit, PortInv

LEMMA PortInvIsSound == PortInv => ChainSound
<1> SUFFICES ASSUME PortInv, heap_initialized
             PROVE  /\ \A a \in Chain(header) :
                        LET n == header[a].next
                        IN  /\ IF n = NULL THEN a + HEADER_SIZE + Size(a) = HeapUnits
                               ELSE n = a + HEADER_SIZE + Size(a) /\ header[n].prev = a
                            /\ n # NULL => header[a].size < 0 \/ header[n].size < 0
                            /\ header[a].size < 0 <=> a \in DOMAIN held
                            /\ a \in DOMAIN held => Size(a) >= held[a]
                    /\ DOMAIN held \subseteq Chain(header)
  BY DEF ChainSound
<1> DEFINE S == Chain(header)
<1>1. Shape(header, S) /\ Parted(header, S, {}) /\ Given(header, S, held)
  BY DEF PortInv, Sound
<1> HIDE DEF S
<1>2. ASSUME NEW a \in S
      PROVE  LET n == header[a].next
             IN  /\ IF n = NULL THEN a + HEADER_SIZE + Size(a) = HeapUnits
                    ELSE n = a + HEADER_SIZE + Size(a) /\ header[n].prev = a
                 /\ n # NULL => header[a].size < 0 \/ header[n].size < 0
                 /\ header[a].size < 0 <=> a \in DOMAIN held
                 /\ a \in DOMAIN held => Size(a) >= held[a]
  <2>1. Size(a) = Big(header, a) /\ EndOf(header, a) = a + HEADER_SIZE + Size(a)
    BY DEF Size, Big, EndOf, HEADER_SIZE
  <2>2. Big(header, a) \in Nat
    BY <1>1, ShapeFacts
  <2>3. /\ header[a].next = NULL => EndOf(header, a) = HeapUnits
        /\ header[a].next # NULL => header[a].next = EndOf(header, a) /\ header[header[a].next].prev = a
    BY <1>1 DEF Shape
  <2>4. header[a].next # NULL => header[a].size < 0 \/ header[header[a].next].size < 0
    BY <1>1 DEF Parted
  <2>5. /\ header[a].size < 0 <=> a \in DOMAIN held
        /\ a \in DOMAIN held => held[a] \in Nat /\ held[a] <= Big(header, a)
    BY <1>1 DEF Given
  <2> QED
    BY <2>1, <2>2, <2>3, <2>4, <2>5
<1>3. DOMAIN held \subseteq S
  BY <1>1 DEF Given
<1> QED
  BY <1>2, <1>3 DEF S

\* Through any mallocs and frees the list of the earlier design's heap is one
\* chain of blocks that fill it, no two free ones side by side, and the blocks
\* given out are the client's, each as large as it asked for.
THEOREM PortHeapIsSound == RoutinesSpec => []ChainSound
<1>1. RoutinesInit => PortInv
  BY PortStarts DEF RoutinesInit
<1>2. PortInv /\ [RoutinesNext]_routineVars => PortInv'
  BY PortHeapKept DEF RoutinesNext, routineVars, Dividing, Copying, Drawing, Sounding, Allocating,
                      Bumping, Timing, Over
<1> QED
  BY <1>1, <1>2, PortInvIsSound, PTL DEF RoutinesSpec

=============================================================================
