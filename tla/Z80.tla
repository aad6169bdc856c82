--------------------------------- MODULE Z80 ---------------------------------
(***************************************************************************)
(* The pages of the prefixes CB (Z80OP2A.c, after DD or FD Z80OP3B.c) and  *)
(* ED (Z80OP2C.c), and with the main table the processor as a whole.       *)
(***************************************************************************)
EXTENDS Z80Main

\* The opcode after CB; after DD CB comes the displacement first.
BitOp == IF Prefixed THEN At(3) ELSE At(1)

\* With an index prefix all of them work on memory.
Target == IF Prefixed THEN 6 ELSE BitOp % 8

BitNo == (BitOp \div 8) % 8

FetchesBit(ops) == Fetches({\hCB}) /\ BitOp \in ops

PastBit == Past(IF Prefixed THEN 2 ELSE 1)

\* With an index prefix the result goes to a register too.
StoreBoth(r, s) ==
  IF r = 6 THEN Store(6, s)
  ELSE /\ reg' = [reg EXCEPT ![Plain(r)] = s.v, !["F"] = s.f]
       /\ mem' = PutByte(Place, s.v)

RotateShift ==
  /\ FetchesBit(\h00 .. \h3F)
  /\ LET s == Rotate(BitNo, Value(Target), F)
     IN IF Prefixed THEN StoreBoth(BitOp % 8, s) ELSE Store(Target, s)
  /\ PastBit
  /\ UNCHANGED ctl

Bit ==
  /\ FetchesBit(\h40 .. \h7F)
  /\ reg' = [reg EXCEPT !["F"] = TestBit(Value(Target), BitNo, F)]
  /\ PastBit
  /\ UNCHANGED <<mem, ctl>>

\* RES and SET
ResetSet ==
  /\ FetchesBit(\h80 .. \hFF)
  /\ LET b == Value(Target)
         rest == b - Keep(b, {2 ^ BitNo})
     IN Store(Target, [v |-> IF BitOp < \hC0 THEN rest ELSE rest + 2 ^ BitNo, f |-> F])
  /\ PastBit
  /\ UNCHANGED ctl
-----------------------------------------------------------------------------
(* ED *)

FetchesED(ops) == halt = 0 /\ mem[pc] = \hED /\ At(1) \in ops

Ext == At(1)
ExtY == (Ext \div 8) % 8
ExtPair == <<BC, DE, HL, SP>>[(ExtY \div 2) + 1]

PastED == pc' = (pc + 2) % 65536

\* The rows x = 0 .. 6 of a column, (HL) left out in IN and OUT.
Column(first) == {first + 8 * k : k \in (0 .. 7) \ {6}}

\* IN r,(C)
InC ==
  /\ FetchesED(Column(\h40))
  /\ \E v \in PortBytes :
       reg' = [reg EXCEPT ![Plain(ExtY)] = v, !["F"] = Keep(F, {CF}) + SZXY(v) + Parity(v)]
  /\ PastED
  /\ UNCHANGED <<mem, ctl>>

\* OUT (C),r
OutC ==
  /\ FetchesED(Column(\h41))
  /\ bus' = <<Get(BC), reg[Plain(ExtY)]>>
  /\ PastED
  /\ UNCHANGED <<reg, mem, iff1, iff2, im, halt, task>>

\* SBC HL,rr and ADC HL,rr
CarryWord ==
  /\ FetchesED({\h42, \h4A, \h52, \h5A, \h62, \h6A, \h72, \h7A})
  /\ LET s == IF ExtY % 2 = 0 THEN Sbc16(Get(HL), Get(ExtPair), F) ELSE Adc16(Get(HL), Get(ExtPair), F)
     IN reg' = [Put(reg, HL, s.v) EXCEPT !["F"] = s.f]
  /\ PastED
  /\ UNCHANGED <<mem, ctl>>

\* LD (nn),rr and LD rr,(nn)
LoadPairAt ==
  /\ FetchesED({\h43, \h4B, \h53, \h5B, \h63, \h6B, \h73, \h7B})
  /\ LET a == WordAt(pc + 2)
     IN IF ExtY % 2 = 0 THEN mem' = PutWord(a, Get(ExtPair)) /\ UNCHANGED reg
                        ELSE reg' = Put(reg, ExtPair, WordAt(a)) /\ UNCHANGED mem
  /\ pc' = (pc + 4) % 65536
  /\ UNCHANGED ctl

Negate ==
  /\ FetchesED({\h44})
  /\ LET s == Sub8(0, A, 0) IN reg' = [reg EXCEPT !["A"] = s.v, !["F"] = s.f]
  /\ PastED
  /\ UNCHANGED <<mem, ctl>>

\* RETN and RETI
ReturnInterrupt ==
  /\ FetchesED({\h45, \h4D})
  /\ pc' = WordAt(Get(SP))
  /\ reg' = Put(reg, SP, Get(SP) + 2)
  /\ iff1' = IF Ext = \h45 THEN iff2 ELSE iff1
  /\ UNCHANGED <<mem, iff2, im, bus, halt, task>>

InterruptMode ==
  /\ FetchesED({\h46, \h56, \h5E})
  /\ im' = CASE Ext = \h46 -> 0 [] Ext = \h56 -> 1 [] Ext = \h5E -> 2
  /\ PastED
  /\ UNCHANGED <<reg, mem, iff1, iff2, bus, halt, task>>

\* LD I,A; LD R,A; LD A,I; LD A,R. R is written and never read: LD A,R gives
\* a byte of the random table.
LoadSpecial ==
  /\ FetchesED({\h47, \h4F, \h57, \h5F})
  /\ \E random \in RandomBytes :
       LET v == IF Ext = \h57 THEN reg["I"] ELSE random
       IN reg' = CASE Ext = \h47 -> [reg EXCEPT !["I"] = A]
                   [] Ext = \h4F -> [reg EXCEPT !["R"] = A]
                   [] OTHER -> [reg EXCEPT !["A"] = v,
                                  !["F"] = Keep(F, {CF}) + SZXY(v) + On(iff2 = 1, PF)]
  /\ PastED
  /\ UNCHANGED <<mem, ctl>>

\* RRD and RLD: three digits in a ring. The flags are computed and not kept.
RotateDigits ==
  /\ FetchesED({\h67, \h6F})
  /\ LET n == mem[Get(HL)]
         a == 16 * (A \div 16)
     IN IF Ext = \h67
        THEN /\ reg' = [reg EXCEPT !["A"] = a + (n % 16)]
             /\ mem' = PutByte(Get(HL), (n \div 16) + 16 * (A % 16))
        ELSE /\ reg' = [reg EXCEPT !["A"] = a + (n \div 16)]
             /\ mem' = PutByte(Get(HL), 16 * (n % 16) + (A % 16))
  /\ PastED
  /\ UNCHANGED ctl

\* The low bit of the row says forwards or backwards, the next whether to
\* stay on the instruction.
Direction == IF ExtY % 2 = 0 THEN 1 ELSE -1
Repeats == ExtY \in {6, 7}

\* Mutant: the repetition stops one byte early.
CopyBlockShort ==
  /\ FetchesED({\hA0, \hA8, \hB0, \hB8})
  /\ LET left == (Get(BC) - 1) % 65536
         b == mem[Get(HL)]
         moved == Put(Put(Put(reg, HL, Get(HL) + Direction), DE, Get(DE) + Direction), BC, left)
     IN /\ reg' = [moved EXCEPT !["F"] = Keep(F, {SF, ZF, CF}) + On(left # 0, PF)
                                        + Keep((b + A) % 256, {XF, YF})]
        /\ mem' = PutByte(Get(DE), b)
        /\ IF Repeats /\ left > 1 THEN UNCHANGED pc ELSE PastED
  /\ UNCHANGED ctl

\* LDI, LDD, LDIR, LDDR: a byte at a time, the instruction fetched anew.
CopyBlock ==
  /\ FetchesED({\hA0, \hA8, \hB0, \hB8})
  /\ LET left == (Get(BC) - 1) % 65536
         b == mem[Get(HL)]
         moved == Put(Put(Put(reg, HL, Get(HL) + Direction), DE, Get(DE) + Direction), BC, left)
     IN /\ reg' = [moved EXCEPT !["F"] = Keep(F, {SF, ZF, CF}) + On(left # 0, PF)
                                        + Keep((b + A) % 256, {XF, YF})]
        /\ mem' = PutByte(Get(DE), b)
        /\ IF Repeats /\ left # 0 THEN UNCHANGED pc ELSE PastED
  /\ UNCHANGED ctl

\* CPI, CPD, CPIR, CPDR
CompareBlock ==
  /\ FetchesED({\hA1, \hA9, \hB1, \hB9})
  /\ LET left == (Get(BC) - 1) % 65536
         s == Sub8(A, mem[Get(HL)], 0)
         undocumented == (s.v - On(Has(s.f, HF), 1)) % 256
     IN /\ reg' = [Put(Put(reg, HL, Get(HL) + Direction), BC, left)
                     EXCEPT !["F"] = Keep(F, {CF}) + Keep(s.f, {NF, SF, ZF, HF}) + On(left # 0, PF)
                                     + Keep(undocumented, {XF, YF})]
        /\ IF Repeats /\ left # 0 /\ s.v # 0 THEN UNCHANGED pc ELSE PastED
  /\ UNCHANGED <<mem, ctl>>

\* The block instructions of the ports are not implemented.
Unimplemented ==
  /\ FetchesED({\hA2, \hA3, \hAA, \hAB, \hB2, \hB3, \hBA, \hBB})
  /\ halt' = 3
  /\ PastED
  /\ UNCHANGED <<reg, mem, iff1, iff2, im, bus, task>>

KnownED == Column(\h40) \cup Column(\h41) \cup (\h42 .. \h47) \cup {\h4A, \h4B, \h4D, \h4F, \h52, \h53, \h56, \h57}
             \cup {\h5A, \h5B, \h5E, \h5F, \h62, \h63, \h67, \h6A, \h6B, \h6F, \h72, \h73, \h7A, \h7B}
             \cup (\hA0 .. \hA3) \cup (\hA8 .. \hAB) \cup (\hB0 .. \hB3) \cup (\hB8 .. \hBB)

IllegalED ==
  /\ FetchesED(Byte \ KnownED)
  /\ halt' = 2
  /\ PastED
  /\ UNCHANGED <<reg, mem, iff1, iff2, im, bus, task>>
-----------------------------------------------------------------------------
Init == Reset /\ mem \in [Addrs -> Byte]

Main == \/ LoadByte \/ LoadByteImmediate \/ Arithmetic \/ ArithmeticImmediate \/ IncDecByte
        \/ Accumulator \/ LoadAccumulator \/ LoadWord \/ LoadWordAt \/ IncDecWord \/ AddWord
        \/ Exchange \/ Push \/ Pop \/ LoadSP \/ ExchangeStack \/ Call \/ Return
        \/ Jump \/ JumpRelative \/ DecrementJump \/ NoOperation \/ SetInterrupts
        \/ In \/ Out \/ Halt \/ IllegalIndexed

Pages == \/ RotateShift \/ Bit \/ ResetSet
         \/ InC \/ OutC \/ CarryWord \/ LoadPairAt \/ Negate \/ ReturnInterrupt \/ InterruptMode
         \/ LoadSpecial \/ RotateDigits \/ CopyBlock \/ CompareBlock \/ Unimplemented \/ IllegalED

Next == Main \/ Pages

Spec == Init /\ [][Next]_vars

=============================================================================
