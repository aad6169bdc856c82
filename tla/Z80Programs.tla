----------------------------- MODULE Z80Programs -----------------------------
(***************************************************************************)
(* Small programs for the processor of Z80, from reset to HALT, and what   *)
(* each is to leave: the properties say of whole programs what the tables  *)
(* of opcodes are to do together.                                          *)
(***************************************************************************)
EXTENDS Z80

CONSTANTS
  Tasks   \* [name, x, y]: a program and its two operands

ASSUME TasksAssumption == \A t \in Tasks : t.x \in 0 .. 65535 /\ t.y \in 0 .. 65535
-----------------------------------------------------------------------------
(* The programs *)

HaltOp == \h76

\* B times: a shift of HL, an addition of DE if a bit came out.
Multiply(x, y) ==
  << \h26, x, \h2E, 0, \h1E, y, \h16, 0,   \* LD H,x; LD L,0; LD E,y; LD D,0
     \h06, 8,                              \* LD B,8
     \h29, \h30, 1, \h19,                  \* loop: ADD HL,HL; JR NC,next; ADD HL,DE
     \h10, 250, HaltOp >>                  \* next: DJNZ loop; HALT

\* HL by C, restoring: the quotient comes into L as the dividend leaves H.
Divide(x, y) ==
  << \h21, Lo(x), Hi(x), \h0E, y,   \* LD HL,x; LD C,y
     \hAF, \h06, 16,                \* XOR A; LD B,16
     \h29, \h17, \h38, 3,           \* loop: ADD HL,HL; RLA; JR C,take
     \hB9, \h38, 2,                 \* CP C; JR C,next
     \h91, \h2C,                    \* take: SUB C; INC L
     \h10, 245, HaltOp >>           \* next: DJNZ loop; HALT

\* The same difference by bytes, into BC and AF', and by words into HL and AF;
\* then the sums back into HL and IX.
Subtract(x, y) ==
  << \h21, Lo(x), Hi(x), \h11, Lo(y), Hi(y),   \* LD HL,x; LD DE,y
     \h7D, \h93, \h4F, \h7C, \h9A, \h47,       \* LD A,L; SUB E; LD C,A; LD A,H; SBC A,D; LD B,A
     \h08, \hB7, \hED, \h52,                   \* EX AF,AF'; OR A; SBC HL,DE
     \hF5, \hE5, \hDD, \hE1,                   \* PUSH AF; PUSH HL; POP IX
     \hDD, \h19, \hB7, \hED, \h5A,             \* ADD IX,DE; OR A; ADC HL,DE
     \hF1, HaltOp >>                           \* POP AF; HALT

\* LD A,x; LD B,y; SUB B or ADD A,B; DAA
Decimal(x, y, op) == << \h3E, x, \h06, y, op, \h27, HaltOp >>

\* y bytes from Data to Data + (x - 4), forwards or backwards; then a search
\* for the byte x from Data. Data begins two bytes above the ROM.
Data == RamFirst + 2
Scratch == RamFirst + 16

Copy(x, y) ==
  LET from == Data + (IF x < 4 THEN 0 ELSE y - 1)
      to == from + x - 4
  IN << \h21, Lo(from), Hi(from), \h11, Lo(to), Hi(to), \h01, y, 0,   \* LD HL; LD DE; LD BC
        \hED, IF x < 4 THEN \hB0 ELSE \hB8,                           \* LDIR or LDDR
        \hED, \h53, Lo(Scratch), Hi(Scratch),                         \* LD (Scratch),DE
        HaltOp >>

Search(x, y) ==
  << \h21, Lo(Data), Hi(Data), \h01, y, 0, \h3E, x,   \* LD HL,Data; LD BC,y; LD A,x
     \hED, \hB1, HaltOp >>                            \* CPIR; HALT

\* A subroutine that spoils all registers and keeps them for its caller; it
\* calls another by RST 38.
Context(x, y) ==
  << \h01, Lo(x), Hi(x), \h11, Lo(y), Hi(y),     \* LD BC,x; LD DE,y
     \h21, Lo(y), Hi(x), \h3E, Lo(x),            \* LD HL,...; LD A,...
     \hCD, 16, 0, HaltOp, 0,                     \* CALL 16; HALT
     \hF5, \hE5, \hD5, \hC5,                     \* PUSH AF; PUSH HL; PUSH DE; PUSH BC
     \hD9, \h21, 0, 0, \h39, \hEB, \hD9,         \* EXX; LD HL,0; ADD HL,SP; EX DE,HL; EXX
     \hE3, \hE3, \hED, \h44, \h2F, \h04, \h1D,   \* EX (SP),HL; EX (SP),HL; NEG; CPL; INC B; DEC E
     \hFF, \h23, \h0B,                           \* RST 38; INC HL; DEC BC
     \hC1, \hD1, \hE1, \hF1, \hC9 >>             \* POP BC; POP DE; POP HL; POP AF; RET

Rst38 == << \hC8, \hC0 >>   \* RET Z; RET NZ

\* Bit y of a byte beside IX set, tested and reset, by IX and by HL.
Indexed(x, y) ==
  << \hDD, \h21, 2 + Lo(Data), Hi(Data), \hDD, \h36, 255, x,                  \* LD IX,Data+2; LD (IX-1),x
     \hDD, \hCB, 255, \h00, \h21, 1 + Lo(Data), Hi(Data), \hCB, \h0E,         \* RLC (IX-1),B; LD HL,Data+1; RRC (HL)
     \hDD, \hCB, 255, \hC6 + 8 * y,                                           \* SET y,(IX-1)
     \hDD, \hCB, 255, \h46 + 8 * y, \hCA, 60, 0,                              \* BIT y,(IX-1); JP Z,60
     \hCB, \h86 + 8 * y, \h3A, 1 + Lo(Data), Hi(Data),                        \* RES y,(HL); LD A,(Data+1)
     \hEE, 255, \h32, 3 + Lo(Data), Hi(Data), \h22, 4 + Lo(Data), Hi(Data),   \* XOR 255; LD (Data+3),A; LD (Data+4),HL
     \h2A, 4 + Lo(Data), Hi(Data), \h56, \h34, \hDD, \h35, 255,               \* LD HL,(Data+4); LD D,(HL); INC (HL); DEC (IX-1)
     \hDD, \h72, 4, \hED, \h5B, 6 + Lo(Data), Hi(Data), \hDC, 60, 0,          \* LD (IX+4),D; LD DE,(Data+6); CALL C,60
     HaltOp >>

\* Digits in a ring: twice left and once right.
Digits(x, y) ==
  << \h3E, x, \h21, Lo(Data), Hi(Data), \h36, y,     \* LD A,x; LD HL,Data; LD (HL),y
     \hED, \h6F, \hED, \h6F, \hED, \h67, HaltOp >>   \* RLD; RLD; RRD; HALT

\* Ports, and the state of the interrupts.
Ports(x, y) ==
  << \hF3, \h3E, x, \hED, \h47, \hED, \h5E, \hFB,         \* DI; LD A,x; LD I,A; IM 2; EI
     \hED, \h57, \hE2, 60, 0, \hD3, y,                    \* LD A,I; JP PO,60; OUT (y),A
     \h01, y, 0, \hED, \h50, \hED, \h51,                  \* LD BC,y; IN D,(C); OUT (C),D
     \hF3, \hDB, y, \hED, \h4F, \hED, \h5F, \h00,         \* DI; IN A,(y); LD R,A; LD A,R; NOP
     \h21, Lo(Scratch), Hi(Scratch), \hF9, \h21, 43, 0,   \* LD HL,Scratch; LD SP,HL; LD HL,43
     \hE5, \hE1, \hE5, \hED, \h45, 0,                     \* PUSH HL; POP HL; PUSH HL; RETN
     HaltOp >>

\* Something the processor does not know, or has not implemented.
Unknown(x, y) == << x, y, HaltOp >>

\* EX (SP),IX with a word on the stack.
ExchangeIX(x, y) ==
  << \hDD, \h21, Lo(x), Hi(x), \h21, Lo(y), Hi(y), \hE5,   \* LD IX,x; LD HL,y; PUSH HL
     \hDD, \hE3, \hE1, HaltOp >>                           \* EX (SP),IX; POP HL; HALT

Code(t) ==
  CASE t.name = "multiply" -> Multiply(t.x, t.y)
    [] t.name = "divide" -> Divide(t.x, t.y)
    [] t.name = "subtract" -> Subtract(t.x, t.y)
    [] t.name = "decimal -" -> Decimal(t.x, t.y, \h90)
    [] t.name = "decimal +" -> Decimal(t.x, t.y, \h80)
    [] t.name = "copy" -> Copy(t.x, t.y)
    [] t.name = "search" -> Search(t.x, t.y)
    [] t.name = "context" -> Context(t.x, t.y)
    [] t.name = "indexed" -> Indexed(t.x, t.y)
    [] t.name = "digits" -> Digits(t.x, t.y)
    [] t.name = "ports" -> Ports(t.x, t.y)
    [] t.name = "unknown" -> Unknown(t.x, t.y)
    [] t.name = "exchange" -> ExchangeIX(t.x, t.y)

\* The data to copy and to search: 1 .. 16 around Data.
Original(a) == IF a \in Data - 6 .. Data + 9 THEN a - (Data - 7) ELSE 0

Image(t) ==
  LET code == Code(t)
  IN [a \in Addrs |-> IF a + 1 \in DOMAIN code THEN code[a + 1]
                      ELSE IF a \in {56, 57} THEN Rst38[a - 55]
                      ELSE Original(a)]
-----------------------------------------------------------------------------
ProgramInit == /\ task \in Tasks
               /\ mem = Image(task)
               /\ Init

\* The Z80 thread goes on executing until the processor stops.
ProgramSpec == ProgramInit /\ [][Next]_vars /\ WF_vars(Next)

\* The processor has stopped, and its program was the one of that name.
Done(name) == halt # 0 /\ task.name = name

X == task.x
Operand == task.y

Dec(b) == 10 * (b \div 16) + (b % 16)

SignedWord(w) == IF w > 32767 THEN w - 65536 ELSE w

(***************************************************************************)
(* What loops and carries of the arithmetic instructions compute together  *)
(* is the arithmetic of numbers: products, quotients with their            *)
(* remainders, differences by bytes and by words with carry, sign,         *)
(* overflow and zero as the numbers have them, decimal differences, and    *)
(* decimal sums as long as the low digits do not carry (DAA corrects the   *)
(* two digits apart and drops the carry between them: 15 + 27 gives 32).   *)
(***************************************************************************)
ArithmeticRight ==
  /\ Done("multiply") => Get(HL) = X * Operand
  /\ Done("divide") => Get(HL) = X \div Operand /\ A = X % Operand
  /\ Done("subtract") =>
       LET difference == (X - Operand) % 65536
           overflow == SignedWord(X) - SignedWord(Operand) \notin -32768 .. 32767
       IN /\ Get(BC) = difference
          /\ \A f \in {F, reg["F2"]} : /\ Has(f, CF) = (X < Operand)
                                       /\ Has(f, PF) = overflow
                                       /\ Has(f, SF) = (difference > 32767)
          /\ Has(F, ZF) = (X = Operand)
          /\ Get(HL) = X /\ Get(<<"IXH", "IXL">>) = X
  /\ Done("decimal -") => /\ Dec(A) = (Dec(X) - Dec(Operand)) % 100
                          /\ Has(F, CF) = (Dec(X) < Dec(Operand))
  /\ Done("decimal +") /\ (X % 16) + (Operand % 16) <= 9 =>
       /\ Dec(A) = (Dec(X) + Dec(Operand)) % 100
       /\ Has(F, CF) = (Dec(X) + Dec(Operand) > 99)

(***************************************************************************)
(* Block instructions, which are fetched anew for every byte, move and     *)
(* find what they should, overlaps included; indexed and bit instructions, *)
(* calls and the stack (across address 0) and the ports leave memory and   *)
(* registers as the program means them, the ROM as it was, and the         *)
(* processor halted by HALT and nothing else (but for EX (SP),IX: it       *)
(* exchanges the word, has no break in its case and stops).                *)
(***************************************************************************)
MemoryRight ==
  /\ Done("copy") =>
       LET to == Data + X - 4
       IN /\ \A a \in Data - 6 .. Data + 9 :
               mem[a] = IF a \in to .. to + Operand - 1 /\ a >= RamFirst THEN Original(a - (X - 4)) ELSE Original(a)
          /\ Get(BC) = 0
          /\ WordAt(Scratch) = IF X < 4 THEN to + Operand ELSE to - 1
  /\ Done("search") =>
       LET at == X - Original(Data)
       IN IF at \in 0 .. Operand - 1
          THEN Get(HL) = Data + at + 1 /\ Get(BC) = Operand - at - 1 /\ Has(F, ZF)
          ELSE Get(HL) = Data + Operand /\ Get(BC) = 0 /\ ~Has(F, ZF)
  /\ Done("context") =>
       /\ Get(BC) = X /\ Get(DE) = Operand /\ Get(HL) = 256 * Hi(X) + Lo(Operand)
       /\ A = Lo(X) /\ F = 0 /\ Get(SP) = 0
       /\ Get(<<"D2", "E2">>) = 65526
  /\ Done("indexed") =>
       LET rest == X - Keep(X, {2 ^ Operand})
       IN /\ mem[Data + 1] = rest /\ mem[Data + 3] = 255 - rest
          /\ WordAt(Data + 4) = Data + 1 /\ Get(HL) = Data + 1 /\ reg["E"] = rest
          /\ reg["B"] = ((2 * X) % 256) + (X \div 128)
  /\ Done("digits") => A = 16 * (X \div 16) + (Operand \div 16) /\ mem[Data] = 16 * (Operand % 16) + (X % 16)
  /\ Done("ports") => /\ bus = <<Operand, reg["D"]>> /\ reg["D"] \in PortBytes
                      /\ reg["I"] = X /\ im = 2 /\ iff1 = 0 /\ Get(SP) = Scratch
  /\ Done("exchange") => Get(<<"IXH", "IXL">>) = Operand /\ WordAt(Get(SP)) = X
  /\ halt # 0 => LET image == Image(task)
                 IN \A a \in Addrs : a < RamFirst => mem[a] = image[a]
  /\ halt # 0 => (halt = 1) = (task.name \notin {"unknown", "exchange"})

(***************************************************************************)
(* Every program comes to its end: the loops of DJNZ and of the block      *)
(* instructions count down to 0 whatever they count.                       *)
(***************************************************************************)
ProgramsEnd == <>(halt # 0)
=============================================================================
