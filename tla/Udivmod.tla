------------------------------ MODULE Udivmod ------------------------------
(***************************************************************************)
(* The shift-and-subtract division gcc calls for uint64_t operands on this *)
(* 32-bit target (freestanding.c), for words of WordSize values.  A step   *)
(* is one turn of one of the two loops; the pointer rem is asked for or    *)
(* NULL.                                                                   *)
(***************************************************************************)
EXTENDS Integers

CONSTANT WordSize                          \* 2 to the power 64
ASSUME WordAssumption == WordSize \in Nat \ {0} /\ WordSize % 2 = 0

VARIABLES
    divPc,    \* "idle", "shift", "subtract" or "done"
    divAsked, \* the operands the caller passed
    num, den, quot, tempDen, qbit

divVars == <<divPc, divAsked, num, den, quot, tempDen, qbit>>

Word == 0 .. WordSize - 1

DivInit ==
    /\ divPc = "idle"
    /\ divAsked = [num |-> 0, den |-> 0]
    /\ num = 0 /\ den = 0 /\ quot = 0 /\ tempDen = 0 /\ qbit = 0

-----------------------------------------------------------------------------
(* The call.  A divisor of 0 gives the quotient 0 and the remainder 0.     *)
Divide ==
    /\ divPc \in {"idle", "done"}
    /\ \E n, d \in Word :
        /\ divAsked' = [num |-> n, den |-> d]
        /\ den' = d
        /\ IF d = 0
           THEN divPc' = "done" /\ num' = 0 /\ quot' = 0 /\ tempDen' = 0 /\ qbit' = 0
           ELSE divPc' = "shift" /\ num' = n /\ quot' = 0 /\ tempDen' = d /\ qbit' = 1

TopBitSet(x) == x >= WordSize \div 2
ShiftLeft(x) == (2 * x) % WordSize

(* Mutant: the shift goes on until the divisor passes the dividend.        *)
BelowOnly == tempDen < num
MayShift == tempDen < num /\ ~TopBitSet(tempDen)

ShiftDivisor ==
    /\ divPc = "shift"
    /\ IF MayShift
       THEN /\ tempDen' = ShiftLeft(tempDen)
            /\ qbit' = ShiftLeft(qbit)
            /\ UNCHANGED divPc
       ELSE divPc' = "subtract" /\ UNCHANGED <<tempDen, qbit>>
    /\ UNCHANGED <<divAsked, num, den, quot>>

(* quot |= qbit, for a bit that is not set yet or is.                      *)
WithBit(q, b) == IF (q \div b) % 2 = 1 THEN q ELSE q + b

Subtract ==
    /\ divPc = "subtract" /\ qbit > 0
    /\ IF num >= tempDen
       THEN num' = num - tempDen /\ quot' = WithBit(quot, qbit)
       ELSE UNCHANGED <<num, quot>>
    /\ tempDen' = tempDen \div 2
    /\ qbit' = qbit \div 2
    /\ UNCHANGED <<divPc, divAsked, den>>

Divided ==
    /\ divPc = "subtract" /\ qbit = 0
    /\ divPc' = "done"
    /\ UNCHANGED <<divAsked, num, den, quot, tempDen, qbit>>

DivNext == Divide \/ ShiftDivisor \/ Subtract \/ Divided

-----------------------------------------------------------------------------
(* What the subtractions rely on: the divisor has been shifted as often as *)
(* the quotient bit, and what is left of the dividend is less than twice   *)
(* the shifted divisor, so that one subtraction per bit is enough.         *)
Remaining ==
    divPc = "subtract" =>
        /\ divAsked.num = quot * den + num
        /\ qbit > 0 => tempDen = den * qbit /\ num < 2 * tempDen
        /\ qbit = 0 => num < den

(* __udivdi3 and __umoddi3 return the quotient and the remainder: for      *)
(* operands at either end of the word too, where the shifted divisor has   *)
(* no bit to spare.                                                        *)
DivisionRight ==
    /\ Remaining
    /\ divPc = "done" =>
        IF divAsked.den = 0
        THEN quot = 0 /\ num = 0
        ELSE /\ quot = divAsked.num \div divAsked.den
             /\ num = divAsked.num % divAsked.den

=============================================================================
