--------------------------------- MODULE Alu ---------------------------------
(***************************************************************************)
(* The arithmetic of the Z80: the flag functions and the microcode of      *)
(* z80mac.h, as operators from operands and the flags before to the result *)
(* and the flags after, [v |-> the byte, f |-> the flags].                 *)
(*                                                                         *)
(* A byte is a number 0..255. An intermediate int may be negative or go    *)
(* past 255; the cast to BYTE is % 256, as in two's complement.            *)
(***************************************************************************)
EXTENDS Integers, FiniteSets, FiniteSetsExt, Bitwise

Byte == 0 .. 255

\* The flag bits of F.
CF == 1
NF == 2
PF == 4   \* parity, and overflow in the arithmetic instructions
XF == 8
HF == 16
YF == 32
ZF == 64
SF == 128

Has(b, mask) == (b \div mask) % 2 = 1

On(condition, mask) == IF condition THEN mask ELSE 0

\* The bits of b that are in the set of masks.
Keep(b, masks) == MapThenSumSet(LAMBDA m : On(Has(b, m), m), masks)

Carry(f) == On(Has(f, CF), 1)
-----------------------------------------------------------------------------
(* Flags *)

\* sf8 and yxf copy bits of the result, zf8 tests it.
SZXY(b) == Keep(b, {SF, YF, XF}) + On(b = 0, ZF)

Parity(b) == On(Cardinality({i \in 0 .. 7 : Has(b, 2 ^ i)}) % 2 = 0, PF)

HalfCarry(a, b, r) == Keep((a ^^ b) ^^ r, {HF})

AddOverflows(a, b, r) == On(Has(a, SF) = Has(b, SF) /\ Has(a, SF) # Has(r, SF), PF)

SubOverflows(a, b, r) == On(Has(a, SF) # Has(b, SF) /\ Has(a, SF) # Has(r, SF), PF)

\* Bit 8 of an int, of a negative one too.
CarryOut(n) == On(Has(n, 256), CF)
-----------------------------------------------------------------------------
(* 8 bits *)

\* add8 and, with the carry as c, adc8.
Add8(a, b, c) ==
  LET n == a + b + c
      r == n % 256
  IN [v |-> r, f |-> SZXY(r) + HalfCarry(a, b, r) + AddOverflows(a, b, r) + CarryOut(n)]

\* Mutant: the borrow sets no carry.
Sub8NoBorrow(a, b, c) ==
  LET r == (a - b - c) % 256
  IN [v |-> r, f |-> NF + SZXY(r) + HalfCarry(a, b, r) + SubOverflows(a, b, r)]

\* sub8 and sbc8.
Sub8(a, b, c) ==
  LET n == a - b - c
      r == n % 256
  IN [v |-> r, f |-> NF + SZXY(r) + HalfCarry(a, b, r) + SubOverflows(a, b, r) + CarryOut(n)]

\* The comparison takes bits 3 and 5 from the operand and leaves a alone.
Cp8(a, b) ==
  LET s == Sub8(a, b, 0)
  IN [v |-> a, f |-> s.f - Keep(s.v, {XF, YF}) + Keep(b, {XF, YF})]

\* The carry stays as it was.
Inc8(a, f) == LET s == Add8(a, 1, 0) IN [s EXCEPT !.f = s.f - Keep(s.f, {CF}) + Keep(f, {CF})]

Dec8(a, f) == LET s == Sub8(a, 1, 0) IN [s EXCEPT !.f = s.f - Keep(s.f, {CF}) + Keep(f, {CF})]

Logic(r) == [v |-> r, f |-> SZXY(r) + Parity(r)]

And8(a, b) == LET s == Logic(a & b) IN [s EXCEPT !.f = s.f + HF]

Xor8(a, b) == Logic(a ^^ b)

Or8(a, b) == Logic(a | b)

\* The eight operations in the order of their opcodes.
AluOp(k, a, b, f) ==
  CASE k = 0 -> Add8(a, b, 0)
    [] k = 1 -> Add8(a, b, Carry(f))
    [] k = 2 -> Sub8(a, b, 0)
    [] k = 3 -> Sub8(a, b, Carry(f))
    [] k = 4 -> And8(a, b)
    [] k = 5 -> Xor8(a, b)
    [] k = 6 -> Or8(a, b)
    [] k = 7 -> Cp8(a, b)

\* RLC, RRC, RL, RR, SLA, SRA, SLL, SRL: the even ones go left. One bit goes
\* out into the carry, another comes in at the other end.
Rotate(k, b, f) ==
  LET top == b \div 128
      out == IF k % 2 = 0 THEN top ELSE b % 2
      new == CASE k \in {0, 1} -> out
               [] k \in {2, 3} -> Carry(f)
               [] k = 5        -> top
               [] k = 6        -> 1
               [] k \in {4, 7} -> 0
      r == IF k % 2 = 0 THEN (2 * b + new) % 256 ELSE (b \div 2) + 128 * new
  IN [v |-> r, f |-> out * CF + SZXY(r) + Parity(r)]

\* BIT: a zero bit sets Z and P.
TestBit(b, i, f) ==
  LET r == Keep(b, {2 ^ i})
  IN Keep(f, {CF}) + HF + Keep(r, {SF, XF, YF}) + On(r = 0, ZF + PF)
-----------------------------------------------------------------------------
(* The accumulator *)

\* DAA on the two digits apart; the bytes lo and hi may grow beyond a digit
\* or wrap, and are put together by | without a carry from one to the other.
Daa(a, f) ==
  LET fixLo == (a % 16) > 9 \/ Has(f, HF)
      fixHi == a \div 16 > 9 \/ Has(f, CF)
      by(fix) == CASE ~fix -> 0 [] fix /\ ~Has(f, NF) -> 6 [] fix /\ Has(f, NF) -> -6
      lo == ((a % 16) + by(fixLo)) % 256
      hi == ((a \div 16) + by(fixHi)) % 256
      r == ((hi * 16) | lo) % 256
  IN [v |-> r, f |-> Keep(f, {NF}) + On(fixLo, HF) + On(fixHi, CF)
                     + SZXY(r) + Parity(r)]

\* RLCA, RRCA, RLA, RRA, DAA, CPL, SCF, CCF.
AccumulatorOp(k, a, f) ==
  LET kept == Keep(f, {SF, ZF, PF})
      turned == Rotate(k, a, f)
  IN CASE k \in 0 .. 3 -> [v |-> turned.v,
                           f |-> kept + Keep(turned.f, {CF}) + Keep(turned.v, {XF, YF})]
       [] k = 4 -> Daa(a, f)
       [] k = 5 -> [v |-> 255 - a, f |-> kept + Keep(f, {CF}) + HF + NF + Keep(255 - a, {XF, YF})]
       [] k = 6 -> [v |-> a, f |-> kept + Keep(a, {XF, YF}) + CF]
       [] k = 7 -> [v |-> a, f |-> kept + Keep(a, {XF, YF}) + (IF Has(f, CF) THEN HF ELSE CF)]
-----------------------------------------------------------------------------
(* 16 bits: low bytes first, then the high bytes with the carry; the flags
   but Z come from the high bytes *)

Hi(w) == w \div 256
Lo(w) == w % 256

\* add16 keeps S, Z and P.
Add16(a, b, f) ==
  LET n == Hi(a) + Hi(b) + ((Lo(a) + Lo(b)) \div 256)
  IN [v |-> (a + b) % 65536,
      f |-> Keep(f, {SF, ZF, PF}) + Keep(n % 256, {XF, YF})
            + HalfCarry(Hi(a), Hi(b), n % 256) + CarryOut(n)]

\* Z is that of the whole result.
WithZeroOf(f, w) == f - Keep(f, {ZF}) + On(w = 0, ZF)

Adc16(a, b, f) ==
  LET w == (a + b + Carry(f)) % 65536
      s == Add8(Hi(a), Hi(b), (Lo(a) + Lo(b) + Carry(f)) \div 256)
  IN [v |-> w, f |-> WithZeroOf(s.f, w)]

\* N is not set, unlike in sbc8.
Sbc16(a, b, f) ==
  LET w == (a - b - Carry(f)) % 65536
      s == Sub8(Hi(a), Hi(b), On(Lo(a) - Lo(b) - Carry(f) < 0, 1))
  IN [v |-> w, f |-> WithZeroOf(s.f - NF, w)]
=============================================================================
