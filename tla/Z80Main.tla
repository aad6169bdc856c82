------------------------------- MODULE Z80Main -------------------------------
(***************************************************************************)
(* The processor: one step is one instruction, as cpu.step() decodes it.   *)
(* An opcode has three fields, xx yyy zzz, and the tables of 256 cases of  *)
(* Z80OP1A.c and, for the prefixes DD and FD, Z80OP2B.c are regular in     *)
(* them; where an entry is not, its action says. Z80 adds the other pages. *)
(*                                                                         *)
(* Left out: the clocks an instruction takes (Vrtc admits any), the        *)
(* mnemonics, and interrupts: nothing calls int_signal or nmi_signal.      *)
(***************************************************************************)
EXTENDS Alu, Sequences

CONSTANTS
  Addrs,        \* the addresses the programs use
  PortBytes,    \* what an IN may read
  RandomBytes   \* what LD A,R may find in the table rreg

ASSUME Z80Assumption == /\ Addrs \subseteq 0 .. 65535
                        /\ PortBytes \subseteq Byte /\ RandomBytes \subseteq Byte

VARIABLES
  reg,          \* the 8-bit registers; a pair is two of them
  pc,
  mem,          \* the memory of the machine, 32 KB of ROM and 32 KB of RAM
  iff1, iff2, im,
  bus,          \* the last OUT: <<port, byte>>
  halt,         \* 0, or why the processor has stopped
  task          \* history: the program that was in memory at reset

ctl == <<iff1, iff2, im, bus, halt, task>>
vars == <<reg, pc, mem, ctl>>

Registers == {"A", "F", "B", "C", "D", "E", "H", "L",
              "A2", "F2", "B2", "C2", "D2", "E2", "H2", "L2",
              "IXH", "IXL", "IYH", "IYL", "SPH", "SPL", "I", "R"}

BC == <<"B", "C">>
DE == <<"D", "E">>
HL == <<"H", "L">>
SP == <<"SPH", "SPL">>
AF == <<"A", "F">>

\* reset(): all registers are 0.
Reset ==
  /\ reg = [r \in Registers |-> 0]
  /\ pc = 0
  /\ iff1 = 0 /\ iff2 = 0 /\ im = 0
  /\ bus = <<0, 0>>
  /\ halt = 0
-----------------------------------------------------------------------------
(* Registers, memory, instruction stream *)

Get(p) == 256 * reg[p[1]] + reg[p[2]]

Put(f, p, w) == [f EXCEPT ![p[1]] = Hi(w % 65536), ![p[2]] = Lo(w % 65536)]

A == reg["A"]
F == reg["F"]

At(n) == mem[(pc + n) % 65536]

WordAt(a) == mem[a % 65536] + 256 * mem[(a + 1) % 65536]

\* The first 32 KB are ROM: what is written there is ignored. In the text
\* window the real store also marks a line (Refresh).
RamFirst == 32768

Written(f, a, b) == IF a % 65536 >= RamFirst THEN [f EXCEPT ![a % 65536] = b] ELSE f

PutByte(a, b) == Written(mem, a, b)

PutWord(a, w) == Written(PutByte(a, Lo(w)), a + 1, Hi(w))

Signed(b) == IF b > 127 THEN b - 256 ELSE b

\* DD and FD put IX or IY in the place of HL.
Prefixed == mem[pc] \in {\hDD, \hFD}

Op == IF Prefixed THEN At(1) ELSE At(0)
Y == (Op \div 8) % 8
Z == Op % 8

Size == IF Prefixed THEN 2 ELSE 1

Past(n) == pc' = (pc + Size + n) % 65536

Index == CASE ~Prefixed -> HL [] mem[pc] = \hDD -> <<"IXH", "IXL">> [] OTHER -> <<"IYH", "IYL">>

\* What a prefix may stand before; EX (SP),IX (E3) is an action of its own.
IndexedOps ==
  {\h09, \h19, \h29, \h39} \cup (\h21 .. \h26) \cup (\h2A .. \h2E) \cup (\h34 .. \h36)
    \cup ({o \in \h40 .. \hBF : o % 8 \in 4 .. 6 \/ o \in \h60 .. \h77} \ {\h76})
    \cup {\hCB, \hE1, \hE5, \hE9, \hF9}

\* The instruction at pc is one of ops.
Fetches(ops) == halt = 0 /\ Op \in ops /\ (Prefixed => Op \in IndexedOps)

\* Operands by their number: B C D E H L (HL) A, with a prefix
\* B C D E IXH IXL (IX+d) A.
Plain(i) == <<"B", "C", "D", "E", "H", "L", "", "A">>[i + 1]

Name(i) == IF i \in {4, 5} THEN Index[i - 3] ELSE Plain(i)

Place == (Get(Index) + (IF Prefixed THEN Signed(At(2)) ELSE 0)) % 65536

\* The displacement is a byte more.
Extra(i) == IF i = 6 /\ Prefixed THEN 1 ELSE 0

Value(i) == IF i = 6 THEN mem[Place] ELSE reg[Name(i)]

\* A result goes to operand i and its flags to F.
Store(i, s) ==
  IF i = 6 THEN /\ mem' = PutByte(Place, s.v)
                /\ reg' = [reg EXCEPT !["F"] = s.f]
           ELSE /\ reg' = [reg EXCEPT ![Name(i)] = s.v, !["F"] = s.f]
                /\ UNCHANGED mem

SetA(s) == reg' = [reg EXCEPT !["A"] = s.v, !["F"] = s.f] /\ UNCHANGED mem

Pairs(k) == <<BC, DE, Index, SP>>[k + 1]

\* NZ Z NC C PO PE P M
Condition(k) == Has(F, <<ZF, CF, PF, SF>>[(k \div 2) + 1]) = (k % 2 = 1)
-----------------------------------------------------------------------------
(* 8 bits *)

\* LD r,r'. With a prefix one operand is of the index register and the other
\* plain: LD IXH,L takes L, and LD H,(IX+d) sets H.
LoadByte ==
  /\ Fetches((\h40 .. \h7F) \ {\h76})
  /\ LET source == IF Y \in 4 .. 6 /\ Z # 6 THEN reg[Plain(Z)] ELSE Value(Z)
     IN IF Z = 6 THEN reg' = [reg EXCEPT ![Plain(Y)] = source] /\ UNCHANGED mem
                 ELSE Store(Y, [v |-> source, f |-> F])
  /\ Past(Extra(Y) + Extra(Z))
  /\ UNCHANGED ctl

LoadByteImmediate ==
  /\ Fetches({o \in \h00 .. \h3F : o % 8 = 6})
  /\ Store(Y, [v |-> At(Size + Extra(Y)), f |-> F])
  /\ Past(1 + Extra(Y))
  /\ UNCHANGED ctl

Arithmetic ==
  /\ Fetches(\h80 .. \hBF)
  /\ SetA(AluOp(Y, A, Value(Z), F))
  /\ Past(Extra(Z))
  /\ UNCHANGED ctl

ArithmeticImmediate ==
  /\ Fetches({o \in \hC0 .. \hFF : o % 8 = 6})
  /\ SetA(AluOp(Y, A, At(1), F))
  /\ Past(1)
  /\ UNCHANGED ctl

IncDecByte ==
  /\ Fetches({o \in \h00 .. \h3F : o % 8 \in {4, 5}})
  /\ Store(Y, IF Z = 4 THEN Inc8(Value(Y), F) ELSE Dec8(Value(Y), F))
  /\ Past(Extra(Y))
  /\ UNCHANGED ctl

Accumulator ==
  /\ Fetches({o \in \h00 .. \h3F : o % 8 = 7})
  /\ SetA(AccumulatorOp(Y, A, F))
  /\ Past(0)
  /\ UNCHANGED ctl

\* LD (BC),A and LD A,(BC), with DE and (nn) alike.
LoadAccumulator ==
  /\ Fetches({\h02, \h0A, \h12, \h1A, \h32, \h3A})
  /\ LET a == CASE Y \in {0, 1} -> Get(BC) [] Y \in {2, 3} -> Get(DE) [] OTHER -> WordAt(pc + 1)
     IN IF Y % 2 = 0 THEN mem' = PutByte(a, A) /\ UNCHANGED reg
                     ELSE reg' = [reg EXCEPT !["A"] = mem[a]] /\ UNCHANGED mem
  /\ Past(IF Y \in {6, 7} THEN 2 ELSE 0)
  /\ UNCHANGED ctl
-----------------------------------------------------------------------------
(* 16 bits *)

LoadWord ==
  /\ Fetches({\h01, \h11, \h21, \h31})
  /\ reg' = Put(reg, Pairs(Y \div 2), WordAt(pc + Size))
  /\ Past(2)
  /\ UNCHANGED <<mem, ctl>>

\* LD (nn),HL and LD HL,(nn)
LoadWordAt ==
  /\ Fetches({\h22, \h2A})
  /\ LET a == WordAt(pc + Size)
     IN IF Op = \h22 THEN mem' = PutWord(a, Get(Index)) /\ UNCHANGED reg
                   ELSE reg' = Put(reg, Index, WordAt(a)) /\ UNCHANGED mem
  /\ Past(2)
  /\ UNCHANGED ctl

IncDecWord ==
  /\ Fetches({o \in \h00 .. \h3F : o % 8 = 3})
  /\ LET p == Pairs(Y \div 2)
     IN reg' = Put(reg, p, Get(p) + (IF Y % 2 = 0 THEN 1 ELSE -1))
  /\ Past(0)
  /\ UNCHANGED <<mem, ctl>>

\* ADD HL,rr. DD 29 adds HL to IX, not IX.
AddWord ==
  /\ Fetches({\h09, \h19, \h29, \h39})
  /\ LET s == Add16(Get(Index), Get(<<BC, DE, HL, SP>>[(Y \div 2) + 1]), F)
     IN reg' = [Put(reg, Index, s.v) EXCEPT !["F"] = s.f]
  /\ Past(0)
  /\ UNCHANGED <<mem, ctl>>

Swap(f, r1, r2) == [f EXCEPT ![r1] = f[r2], ![r2] = f[r1]]

\* EX AF,AF'; EX DE,HL; EXX
Exchange ==
  /\ Fetches({\h08, \hEB, \hD9})
  /\ reg' = CASE Op = \h08 -> Swap(Swap(reg, "A", "A2"), "F", "F2")
              [] Op = \hEB -> Swap(Swap(reg, "D", "H"), "E", "L")
              [] Op = \hD9 -> [reg EXCEPT !["B"] = reg["B2"], !["B2"] = reg["B"],
                                         !["C"] = reg["C2"], !["C2"] = reg["C"],
                                         !["D"] = reg["D2"], !["D2"] = reg["D"],
                                         !["E"] = reg["E2"], !["E2"] = reg["E"],
                                         !["H"] = reg["H2"], !["H2"] = reg["H"],
                                         !["L"] = reg["L2"], !["L2"] = reg["L"]]
  /\ Past(0)
  /\ UNCHANGED <<mem, ctl>>
-----------------------------------------------------------------------------
(* The stack *)

PushWord(w) ==
  /\ mem' = PutWord(Get(SP) - 2, w)
  /\ reg' = Put(reg, SP, Get(SP) - 2)

\* The pair last: POP SP does not exist.
PopWord(p) ==
  /\ reg' = Put(Put(reg, SP, Get(SP) + 2), p, WordAt(Get(SP)))

StackPair(k) == <<BC, DE, Index, AF>>[k + 1]

Push ==
  /\ Fetches({\hC5, \hD5, \hE5, \hF5})
  /\ PushWord(Get(StackPair(Y \div 2)))
  /\ Past(0)
  /\ UNCHANGED ctl

Pop ==
  /\ Fetches({\hC1, \hD1, \hE1, \hF1})
  /\ PopWord(StackPair(Y \div 2))
  /\ Past(0)
  /\ UNCHANGED <<mem, ctl>>

LoadSP ==
  /\ Fetches({\hF9})
  /\ reg' = Put(reg, SP, Get(Index))
  /\ Past(0)
  /\ UNCHANGED <<mem, ctl>>

\* EX (SP),HL
ExchangeStack ==
  /\ halt = 0 /\ Op = \hE3
  /\ reg' = Put(reg, Index, WordAt(Get(SP)))
  /\ mem' = PutWord(Get(SP), Get(Index))
  /\ Past(0)
  \* The case of EX (SP),IX has no break: the illegal instruction follows.
  /\ halt' = IF Prefixed THEN 2 ELSE 0
  /\ UNCHANGED <<iff1, iff2, im, bus, task>>

\* CALL, CALL cc, RST
Call ==
  /\ Fetches({\hCD} \cup {o \in \hC0 .. \hFF : o % 8 \in {4, 7}})
  /\ LET taken == Z \in {5, 7} \/ Condition(Y)
         size == IF Z = 7 THEN 1 ELSE 3
     IN IF taken THEN /\ PushWord((pc + size) % 65536)
                      /\ pc' = IF Z = 7 THEN 8 * Y ELSE WordAt(pc + 1)
                 ELSE pc' = (pc + size) % 65536 /\ UNCHANGED <<reg, mem>>
  /\ UNCHANGED ctl

\* RET, RET cc
Return ==
  /\ Fetches({\hC9} \cup {o \in \hC0 .. \hFF : o % 8 = 0})
  /\ IF Op = \hC9 \/ Condition(Y)
     THEN pc' = WordAt(Get(SP)) /\ reg' = Put(reg, SP, Get(SP) + 2)
     ELSE Past(0) /\ UNCHANGED reg
  /\ UNCHANGED <<mem, ctl>>
-----------------------------------------------------------------------------
(* Jumps, control, ports *)

\* JP, JP cc, JP (HL)
Jump ==
  /\ Fetches({\hC3, \hE9} \cup {o \in \hC0 .. \hFF : o % 8 = 2})
  /\ pc' = CASE Op = \hE9 -> Get(Index)
             [] Op = \hC3 \/ (Z = 2 /\ Condition(Y)) -> WordAt(pc + 1)
             [] OTHER -> (pc + 3) % 65536
  /\ UNCHANGED <<reg, mem, ctl>>

\* JR, JR cc
JumpRelative ==
  /\ Fetches({\h18, \h20, \h28, \h30, \h38})
  /\ LET taken == Op = \h18 \/ Condition(Y - 4)
     IN Past(1 + (IF taken THEN Signed(At(1)) ELSE 0))
  /\ UNCHANGED <<reg, mem, ctl>>

DecrementJump ==
  /\ Fetches({\h10})
  /\ reg' = [reg EXCEPT !["B"] = (reg["B"] - 1) % 256]
  /\ Past(1 + (IF reg["B"] # 1 THEN Signed(At(1)) ELSE 0))
  /\ UNCHANGED <<mem, ctl>>

NoOperation == Fetches({\h00}) /\ Past(0) /\ UNCHANGED <<reg, mem, ctl>>

\* DI, EI
SetInterrupts ==
  /\ Fetches({\hF3, \hFB})
  /\ iff1' = (IF Op = \hFB THEN 1 ELSE 0) /\ iff2' = iff1'
  /\ Past(0)
  /\ UNCHANGED <<reg, mem, im, bus, halt, task>>

\* IN A,(n) and OUT (n),A: A is the high byte of the port.
In == /\ Fetches({\hDB})
      /\ \E v \in PortBytes : reg' = [reg EXCEPT !["A"] = v]
      /\ Past(1)
      /\ UNCHANGED <<mem, ctl>>

Out == /\ Fetches({\hD3})
       /\ bus' = <<256 * A + At(1), A>>
       /\ Past(1)
       /\ UNCHANGED <<reg, mem, iff1, iff2, im, halt, task>>

\* Mutant: the processor stays on the instruction, for an interrupt to come.
HaltWaits == Fetches({\h76}) /\ UNCHANGED vars

Halt == /\ Fetches({\h76})
        /\ halt' = 1
        /\ Past(0)
        /\ UNCHANGED <<reg, mem, iff1, iff2, im, bus, task>>

\* A prefix before anything else.
IllegalIndexed ==
  /\ halt = 0 /\ Prefixed /\ Op \notin IndexedOps \cup {\hE3}
  /\ halt' = 2
  /\ Past(0)
  /\ UNCHANGED <<reg, mem, iff1, iff2, im, bus, task>>
=============================================================================
