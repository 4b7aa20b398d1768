---------------------------- MODULE TargetAccess ----------------------------
(***************************************************************************)
(* What GDB reads and writes of a stopped debuggee: the packets m and M    *)
(* (handle_read_mem and handle_write_mem of src/gdb.c over inf_mem2hex and *)
(* inf_hex2mem of src/arch/arm/64/gdb.c) and g and G (regs2hex, hex2regs), *)
(* with the hex digits of src/util.c by which bytes travel.                *)
(*                                                                         *)
(* A character is its ASCII code.  The kernel, external, reads and writes  *)
(* whole words at any address all of whose bytes are mapped.  GDB,         *)
(* external, sends bytes as pairs of hex digits.                           *)
(***************************************************************************)
EXTENDS Naturals, Sequences

CONSTANTS WordSize,     \* sizeof(seL4_Word)
          BufSize,      \* BUFSIZE
          Mapped,       \* addresses of the debuggee's memory
          NumWords,     \* registers of a whole word: x0 to x30, sp, pc
          Address,      \* addresses m and M are about
          ReadSize,     \* how many bytes m asks for
          WriteData,    \* byte sequences M carries
          ContextData,  \* byte sequences G carries
          Garbage       \* bytes an uninitialized variable may hold

Byte == 0 .. 255
ASSUME WordAssumption == WordSize \in Nat \ {0} /\ WordSize % 2 = 0
ASSUME MemoryAssumption == /\ Mapped \subseteq Nat \ {0}
                           /\ Address \subseteq Nat \ {0}
                           /\ ReadSize \subseteq Nat
ASSUME DataAssumption == /\ WriteData \subseteq Seq(Byte)
                         /\ ContextData \subseteq Seq(Byte)
                         /\ Garbage \subseteq Byte
ContextSize == WordSize * NumWords + WordSize \div 2
\* The buffer holds the string of all registers, and any short reply.
ASSUME SizeAssumption == /\ NumWords \in Nat /\ BufSize \in Nat
                         /\ BufSize >= 4 /\ BufSize > 2 * ContextSize
\* GDB writes all registers at once.
ASSUME ContextAssumption == \A data \in ContextData : Len(data) = ContextSize

VARIABLES mem,       \* the debuggee's memory
          regs,      \* the registers of target_thread, each a word
          request,   \* the packet handled last: [op, addr, data]; data are bytes
          output     \* and what it left in the output buffer

vars == <<mem, regs, request, output>>

InWord == 0 .. WordSize - 1
Word == [InWord -> Byte]
Reg == 1 .. NumWords + 1           \* the last is spsr
Error(n) == <<69, 48, 48 + n>>     \* E0n
Ok == <<79, 75>>
-----------------------------------------------------------------------------
(* src/util.c *)

hexchars == <<48, 49, 50, 51, 52, 53, 54, 55, 56, 57, 97, 98, 99, 100, 101, 102>>
int_to_hexchar(i) == hexchars[i + 1]
\* Mutant: the letters count from 9.
hexchar_to_int_Off(c) == IF c \in 48 .. 57 THEN c - 48 ELSE c - 97 + 9
hexchar_to_int(c) == CASE c \in 48 .. 57 -> c - 48
                       [] c \in 97 .. 102 -> c - 97 + 10
                       [] c \in 65 .. 70 -> c - 65 + 10

\* The hex string of the first size bytes of buf, and the bytes of a string.
mem2hex(buf, size) ==
  [k \in 1 .. 2 * size |->
     LET c == buf[(k - 1) \div 2]
     IN int_to_hexchar(IF k % 2 = 1 THEN c \div 16 ELSE c % 16)]
HexByte(buf, i) ==
  (hexchar_to_int(buf[2 * i + 1]) * 16 + hexchar_to_int(buf[2 * i + 2])) % 256
-----------------------------------------------------------------------------
(* Memory: src/arch/arm/64/gdb.c *)

\* seL4_ARM_VSpace_Read_Word and Write_Word.
Accessible(a) == {a + k : k \in InWord} \subseteq Mapped
ReadWord(m, a) == [k \in InWord |-> m[a + k]]
WriteWord(m, a, w) ==
  [x \in Mapped |-> IF x - a \in InWord THEN w[x - a] ELSE m[x]]

\* inf_mem2hex: a word is read at every WordSize-th byte.
\* Mutant: the address is not advanced.
WordOfFirst(a, i) == a
WordOf(a, i) == a + WordSize * (i \div WordSize)
Inf_mem2hexFails(a, size) ==
  \E i \in 0 .. size - 1 : ~Accessible(WordOf(a, i))
Inf_mem2hex(a, size) ==
  mem2hex([i \in 0 .. size - 1 |-> ReadWord(mem, WordOf(a, i))[i % WordSize]], size)

\* inf_hex2mem: s is the loop's state before byte i.  mem advances (`at') by one
\* for each byte and by a word after each word written.
Fills(i, size) == i % WordSize = WordSize - 1 \/ i = size - 1
WriteByte(buf, size, s, i) ==
  LET first == i % WordSize = 0
      word == [IF first THEN ReadWord(s.mem, s.at) ELSE s.word
                 EXCEPT ![i % WordSize] = HexByte(buf, i)]
      to == s.at + i \div WordSize
  IN IF s.failed \/ (first /\ ~Accessible(s.at))
       THEN [s EXCEPT !.failed = TRUE]
     ELSE IF ~Fills(i, size) THEN [s EXCEPT !.word = word, !.at = @ + 1]
     ELSE IF ~Accessible(to) THEN [s EXCEPT !.failed = TRUE]
     ELSE [at |-> s.at + WordSize + 1, word |-> word,
           mem |-> WriteWord(s.mem, to, word), failed |-> FALSE]
Inf_hex2mem(buf, a, size) ==
  LET Loop[i \in 0 .. size] ==
        IF i = 0 THEN [at |-> a, word |-> [k \in InWord |-> 0], mem |-> mem,
                       failed |-> FALSE]
        ELSE WriteByte(buf, size, Loop[i - 1], i - 1)
  IN Loop[size]
\* Every return is an address at or after a, a failure's too.
Returned(s) == s.at
-----------------------------------------------------------------------------
(* Registers: the same file *)

RegBytes(r) == IF r = NumWords + 1 THEN WordSize \div 2 ELSE WordSize
OffsetOf(r) == WordSize * (r - 1)

\* All registers in GDB's order: each word, then the lower half of spsr.
\* Mutant: the first two change places.
Regs2hexSwapped == LET s == [regs EXCEPT ![1] = regs[2], ![2] = regs[1]]
                   IN mem2hex([i \in 0 .. ContextSize - 1 |->
                                 s[i \div WordSize + 1][i % WordSize]], ContextSize)
Regs2hex == mem2hex([i \in 0 .. ContextSize - 1 |->
                       regs[i \div WordSize + 1][i % WordSize]], ContextSize)
\* The context starts uninitialized: what the packet does not carry is any byte.
Hex2regs(buf) ==
  {[r \in Reg |-> [k \in InWord |-> IF k < RegBytes(r)
                                    THEN HexByte(buf, OffsetOf(r) + k)
                                    ELSE rest[k]]] : rest \in [InWord -> Garbage]}
-----------------------------------------------------------------------------
(* The handlers of src/gdb.c *)

\* GDB's own digits, and the string it sends for a sequence of bytes.
Digit(n) == IF n < 10 THEN 48 + n ELSE 87 + n
HexOf(b) == [k \in 1 .. 2 * Len(b) |->
               LET c == b[(k + 1) \div 2]
               IN Digit(IF k % 2 = 1 THEN c \div 16 ELSE c % 16)]
Request(op, a, data) == [op |-> op, addr |-> a, data |-> data]

\* Mutant: the terminating zero is forgotten.
FitsExactly(size) == size * 2 <= BufSize
Fits(size) == size * 2 <= BufSize - 1
HandleReadMem(a, size) ==
  /\ request' = Request("m", a, [i \in 1 .. size |-> 0])
  /\ output' = IF ~Fits(size) THEN Error(1)
               ELSE IF Inf_mem2hexFails(a, size) THEN Error(4)
               ELSE Inf_mem2hex(a, size)
  /\ UNCHANGED <<mem, regs>>

HandleWriteMem(a, data) ==
  /\ request' = Request("M", a, data)
  /\ LET s == Inf_hex2mem(HexOf(data), a, Len(data))
     IN /\ mem' = s.mem
        /\ output' = IF Returned(s) = 0 THEN Error(3) ELSE Ok
  /\ UNCHANGED regs

HandleReadRegs ==
  /\ request' = Request("g", 0, <<>>)
  /\ output' = Regs2hex
  /\ UNCHANGED <<mem, regs>>

HandleWriteRegs(data) ==
  /\ request' = Request("G", 0, data)
  /\ regs' \in Hex2regs(HexOf(data))
  /\ output' = Ok
  /\ UNCHANGED mem

Init ==
  /\ mem = [x \in Mapped |-> x % 256]     \* a byte is named by its address
  /\ regs = [r \in Reg |-> [k \in InWord |-> (16 * r + k) % 256]]
  /\ request = Request("none", 0, <<>>)
  /\ output = <<>>

Next == \/ \E a \in Address, n \in ReadSize : HandleReadMem(a, n)
        \/ \E a \in Address, data \in WriteData : HandleWriteMem(a, data)
        \/ HandleReadRegs
        \/ \E data \in ContextData : HandleWriteRegs(data)

Spec == Init /\ [][Next]_vars
-----------------------------------------------------------------------------
(* Properties *)

TypeOK ==
  /\ mem \in [Mapped -> Byte]
  /\ regs \in [Reg -> Word]
  /\ \A i \in DOMAIN output : output[i] \in 0 .. 127
  /\ Len(output) + 1 <= BufSize

\* The reply to m is the memory GDB asked for, whatever word boundaries and
\* gaps it crosses.  It is an error only if the bytes, up to a word after the
\* last, are not all mapped, or the string and its zero do not fit.
Asked == {request.addr + i : i \in 0 .. Len(request.data) - 1}
ReadExact ==
  request.op = "m" =>
    \/ Asked \subseteq Mapped
       /\ output = HexOf([i \in DOMAIN request.data |-> mem[request.addr + i - 1]])
    \/ output = Error(4) /\ \E x \in Asked, k \in InWord : x + k \notin Mapped
    \/ output = Error(1) /\ 2 * Len(request.data) + 1 > BufSize

\* g sends the registers in the order GDB reads them, and after G each byte the
\* packet carries is in the register it is meant for.
ContextByte(i) == regs[i \div WordSize + 1][i % WordSize]
RegistersExact ==
  /\ request.op = "g" => output = HexOf([i \in 1 .. ContextSize |-> ContextByte(i - 1)])
  /\ request.op = "G" => \A i \in DOMAIN request.data :
                           ContextByte(i - 1) = request.data[i]

\* An M packet of one byte changes that byte and no other; where the word at
\* its address is not mapped it changes nothing.
ByteWriteExact ==
  [][request'.op = "M" /\ Len(request'.data) = 1 =>
       mem' = IF Accessible(request'.addr)
              THEN [mem EXCEPT ![request'.addr] = request'.data[1]]
              ELSE mem]_vars

\* "or NULL on error (cannot write memory)" (inf_hex2mem): when GDB is told OK
\* the bytes it sent are at the address it sent them to.
WriteReported ==
  request.op = "M" /\ output = Ok =>
    /\ Asked \subseteq Mapped
    /\ \A i \in DOMAIN request.data : mem[request.addr + i - 1] = request.data[i]
=============================================================================
