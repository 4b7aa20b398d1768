------------------------- MODULE TargetAccessProofs -------------------------
(***************************************************************************)
(* What GDB reads and writes of a stopped debuggee travels unchanged: for  *)
(* every size of a word, of the memory, the registers and the buffer, for  *)
(* every address and for all data.                                         *)
(*                                                                         *)
(* A byte is divided into two digits on one side and put together on the   *)
(* other (HexByteOf, SameString); the words inf_mem2hex reads cover the    *)
(* bytes asked for (ByteOfWord).                                           *)
(***************************************************************************)
EXTENDS TargetAccess, SequenceTheorems, WellFoundedInduction, TLAPS

LEMMA SequenceOf ==
  ASSUME NEW S, NEW n \in Nat, NEW f \in [1 .. n -> S]
  PROVE  f \in Seq(S) /\ Len(f) = n /\ DOMAIN f = 1 .. n
<1>1. f \in Seq(S)
  BY IsASeq
<1> QED
  BY <1>1, LenProperties

-----------------------------------------------------------------------------
(* Digits *)

\* hexchar_to_int reads the digits GDB writes, and int_to_hexchar writes those.
LEMMA Digits ==
  ASSUME NEW n \in 0 .. 15
  PROVE  /\ hexchar_to_int(Digit(n)) = n
         /\ int_to_hexchar(n) = Digit(n) /\ Digit(n) \in 0 .. 127
<1>1. int_to_hexchar(n) = Digit(n)
  <2>1. n \in {0, 1, 2, 3, 4, 5, 6, 7, 8, 9, 10, 11, 12, 13, 14, 15}
    OBVIOUS
  <2> QED
    BY <2>1 DEF int_to_hexchar, hexchars, Digit
<1>2. hexchar_to_int(Digit(n)) = n /\ Digit(n) \in 0 .. 127
  BY DEF hexchar_to_int, Digit
<1> QED
  BY <1>1, <1>2

LEMMA Nibbles ==
  ASSUME NEW c \in Byte
  PROVE  /\ c \div 16 \in 0 .. 15 /\ c % 16 \in 0 .. 15
         /\ ((c \div 16) * 16 + (c % 16)) % 256 = c
  BY DEF Byte

\* A byte GDB sends is the byte hex2mem and inf_hex2mem put together.
LEMMA HexByteOf ==
  ASSUME NEW data \in Seq(Byte), NEW i \in 0 .. Len(data) - 1
  PROVE  HexByte(HexOf(data), i) = data[i + 1] /\ data[i + 1] \in Byte
<1>1. Len(data) \in Nat /\ i \in Nat /\ i + 1 \in 1 .. Len(data)
  BY LenProperties
<1>2. data[i + 1] \in Byte
  BY <1>1, ElementOfSeq
<1>3. /\ 2 * i + 1 \in 1 .. 2 * Len(data) /\ 2 * i + 2 \in 1 .. 2 * Len(data)
      /\ (2 * i + 1 + 1) \div 2 = i + 1 /\ (2 * i + 2 + 1) \div 2 = i + 1
      /\ (2 * i + 1) % 2 = 1 /\ (2 * i + 2) % 2 # 1
  BY <1>1
<1>4. HexOf(data)[2 * i + 1] = Digit(data[i + 1] \div 16)
  BY <1>3 DEF HexOf
<1>5. HexOf(data)[2 * i + 2] = Digit(data[i + 1] % 16)
  BY <1>3 DEF HexOf
<1>6. /\ hexchar_to_int(Digit(data[i + 1] \div 16)) = data[i + 1] \div 16
      /\ hexchar_to_int(Digit(data[i + 1] % 16)) = data[i + 1] % 16
  BY <1>2, Nibbles, Digits
<1>7. HexByte(HexOf(data), i)
        = ((data[i + 1] \div 16) * 16 + (data[i + 1] % 16)) % 256
  BY <1>4, <1>5, <1>6 DEF HexByte
<1> QED
  BY <1>2, <1>7, Nibbles

\* mem2hex writes the string GDB would write for the same bytes.
LEMMA SameString ==
  ASSUME NEW size \in Nat, NEW buf \in [0 .. size - 1 -> Byte]
  PROVE  /\ mem2hex(buf, size) = HexOf([i \in 1 .. size |-> buf[i - 1]])
         /\ mem2hex(buf, size) \in [1 .. 2 * size -> 0 .. 127]
<1> DEFINE data == [i \in 1 .. size |-> buf[i - 1]]
<1>1. data \in Seq(Byte) /\ Len(data) = size
  <2>1. data \in [1 .. size -> Byte]
    OBVIOUS
  <2> QED
    BY <2>1, SequenceOf
<1>2. ASSUME NEW k \in 1 .. 2 * size
      PROVE  /\ (k - 1) \div 2 \in 0 .. size - 1
             /\ (k + 1) \div 2 \in 1 .. size
             /\ (k + 1) \div 2 - 1 = (k - 1) \div 2
  OBVIOUS
<1>3. \A k \in 1 .. 2 * size : data[(k + 1) \div 2] = buf[(k - 1) \div 2]
  BY <1>2
<1> HIDE DEF data
<1>4. \A k \in 1 .. 2 * size :
        LET c == buf[(k - 1) \div 2]
            n == IF k % 2 = 1 THEN c \div 16 ELSE c % 16
        IN int_to_hexchar(n) = Digit(n) /\ Digit(n) \in 0 .. 127
  <2> TAKE k \in 1 .. 2 * size
  <2> DEFINE c == buf[(k - 1) \div 2]
             n == IF k % 2 = 1 THEN c \div 16 ELSE c % 16
  <2>1. c \in Byte
    BY <1>2
  <2> HIDE DEF c
  <2>2. n \in 0 .. 15
    BY <2>1, Nibbles
  <2> HIDE DEF n
  <2>3. int_to_hexchar(n) = Digit(n) /\ Digit(n) \in 0 .. 127
    BY <2>2, Digits
  <2> QED
    BY <2>3 DEF c, n
<1>5. HexOf(data) = [k \in 1 .. 2 * size |->
                       LET c == buf[(k - 1) \div 2]
                       IN Digit(IF k % 2 = 1 THEN c \div 16 ELSE c % 16)]
  BY <1>1, <1>3 DEF HexOf
<1>6. mem2hex(buf, size) = HexOf(data)
  BY <1>4, <1>5 DEF mem2hex
<1>7. mem2hex(buf, size) \in [1 .. 2 * size -> 0 .. 127]
  BY <1>4 DEF mem2hex
<1> QED
  BY <1>6, <1>7 DEF data

-----------------------------------------------------------------------------
(* The loop of inf_hex2mem *)

LEMMA Least ==
  ASSUME NEW S \in SUBSET Nat, S # {}
  PROVE  \E m \in S : \A n \in S : m <= n
<1>1. PICK m \in S : \A n \in S : <<n, m>> \notin OpToRel(<, Nat)
  BY NatLessThanWellFounded, WFMin
<1>2. \A n \in S : m \in Nat /\ n \in Nat /\ ~(n < m)
  BY <1>1 DEF OpToRel
<1>3. \A n \in S : m <= n
  BY <1>2
<1> QED
  BY <1>3

Begun(a) == [at |-> a, word |-> [k \in InWord |-> 0], mem |-> mem,
             failed |-> FALSE]
\* The states the loop of inf_hex2mem passes in its first n turns.
Runs(f, buf, a, size, n) ==
  f = [i \in 0 .. n |-> IF i = 0 THEN Begun(a)
                        ELSE WriteByte(buf, size, f[i - 1], i - 1)]

\* The loop can be run for any number of turns: one that could not has a least
\* number of turns, and a turn can be added to those before.
LEMMA RunsExist ==
  ASSUME NEW buf, NEW a, NEW size, NEW n \in Nat
  PROVE  \E f : Runs(f, buf, a, size, n)
<1> DEFINE Bad == {k \in Nat : ~ \E f : Runs(f, buf, a, size, k)}
<1>1. CASE Bad = {}
  BY <1>1
<1>2. ASSUME Bad # {} PROVE FALSE
  <2>1. PICK m \in Bad : \A k \in Bad : m <= k
    BY <1>2, Least
  <2>2. m \in Nat /\ ~ \E f : Runs(f, buf, a, size, m)
    BY <2>1
  <2>3. CASE m = 0
    <3>1. Runs([i \in 0 .. 0 |-> Begun(a)], buf, a, size, 0)
      <4>1. \A i \in 0 .. 0 : i = 0
        OBVIOUS
      <4> QED
        BY <4>1 DEF Runs
    <3> QED
      BY <2>2, <2>3, <3>1
  <2>4. CASE m # 0
    <3>1. m - 1 \in Nat /\ m - 1 \notin Bad
      BY <2>1, <2>2, <2>4
    <3>2. PICK f : Runs(f, buf, a, size, m - 1)
      BY <3>1
    <3> DEFINE g == [i \in 0 .. m |-> IF i = m
                                      THEN WriteByte(buf, size, f[m - 1], m - 1)
                                      ELSE f[i]]
    <3>3. \A i \in 0 .. m - 1 : g[i] = f[i]
      BY <2>2
    <3>4. \A i \in 0 .. m : i # 0 => i - 1 \in 0 .. m - 1
      BY <2>2
    <3>5. \A i \in 0 .. m : i # m => i \in 0 .. m - 1
      BY <2>2
    <3>6. m # 0 /\ m \in 0 .. m /\ g[m] = WriteByte(buf, size, f[m - 1], m - 1)
      BY <2>2, <2>4
    <3>7. \A i \in 0 .. m - 1 : f[i] = IF i = 0 THEN Begun(a)
                                  ELSE WriteByte(buf, size, f[i - 1], i - 1)
      BY <3>2 DEF Runs
    <3>8. g = [i \in 0 .. m |-> g[i]]
      OBVIOUS
    <3> HIDE DEF g
    <3>9. \A i \in 0 .. m : g[i] = IF i = 0 THEN Begun(a)
                                ELSE WriteByte(buf, size, g[i - 1], i - 1)
      <4> TAKE i \in 0 .. m
      <4>1. CASE i = m
        BY <4>1, <3>3, <3>4, <3>6
      <4>2. CASE i # m
        BY <4>2, <3>3, <3>4, <3>5, <3>7
      <4> QED
        BY <4>1, <4>2
    <3>10. Runs(g, buf, a, size, m)
      BY <3>8, <3>9 DEF Runs
    <3> QED
      BY <2>2, <3>10
  <2> QED
    BY <2>3, <2>4
<1> QED
  BY <1>1, <1>2

LEMMA LoopRuns ==
  ASSUME NEW buf, NEW a, NEW size \in Nat
  PROVE  \E f : Runs(f, buf, a, size, size) /\ Inf_hex2mem(buf, a, size) = f[size]
<1> DEFINE Loop == CHOOSE f : Runs(f, buf, a, size, size)
<1>1. Runs(Loop, buf, a, size, size)
  BY RunsExist
<1>2. Inf_hex2mem(buf, a, size) = Loop[size]
  BY DEF Inf_hex2mem, Runs, Begun
<1> QED
  BY <1>1, <1>2

\* A state of the loop.
Turn == [at : Nat, word : Word, mem : [Mapped -> Byte], failed : BOOLEAN]

LEMMA WordsTyped ==
  ASSUME NEW m \in [Mapped -> Byte], NEW a \in Nat
  PROVE  /\ Accessible(a) => ReadWord(m, a) \in Word
         /\ \A w \in Word : WriteWord(m, a, w) \in [Mapped -> Byte]
<1>1. Accessible(a) => \A k \in InWord : a + k \in Mapped
  BY DEF Accessible
<1> QED
  BY <1>1 DEF ReadWord, WriteWord, Word

LEMMA TurnTyped ==
  ASSUME NEW buf, NEW size \in Nat, NEW i \in 0 .. size - 1,
         HexByte(buf, i) \in Byte, NEW s \in Turn
  PROVE  WriteByte(buf, size, s, i) \in Turn
<1> DEFINE first == i % WordSize = 0
           word == [IF first THEN ReadWord(s.mem, s.at) ELSE s.word
                      EXCEPT ![i % WordSize] = HexByte(buf, i)]
           to == s.at + i \div WordSize
<1>1. s.at \in Nat /\ s.word \in Word /\ s.mem \in [Mapped -> Byte]
      /\ s.failed \in BOOLEAN
  BY DEF Turn
<1>2. i \div WordSize \in Nat /\ to \in Nat /\ s.at + 1 \in Nat
      /\ s.at + WordSize + 1 \in Nat
  <2>1. i \in Nat /\ WordSize \in Nat \ {0}
    BY WordAssumption
  <2>2. i \div WordSize \in Nat
    BY <2>1
  <2> QED
    BY <1>1, <2>1, <2>2
<1>3. (first /\ ~Accessible(s.at)) \/ word \in Word
  <2>1. CASE first /\ Accessible(s.at)
    <3>1. ReadWord(s.mem, s.at) \in Word
      BY <1>1, <2>1, WordsTyped
    <3> QED
      BY <2>1, <3>1 DEF Word
  <2>2. CASE ~first
    BY <1>1, <2>2 DEF Word
  <2> QED
    BY <2>1, <2>2
<1> HIDE DEF first, word, to
<1>4. word \in Word => WriteWord(s.mem, to, word) \in [Mapped -> Byte]
  BY <1>1, <1>2, WordsTyped
<1>5. WriteByte(buf, size, s, i) =
        IF s.failed \/ (first /\ ~Accessible(s.at))
          THEN [s EXCEPT !.failed = TRUE]
        ELSE IF ~Fills(i, size) THEN [s EXCEPT !.word = word, !.at = @ + 1]
        ELSE IF ~Accessible(to) THEN [s EXCEPT !.failed = TRUE]
        ELSE [at |-> s.at + WordSize + 1, word |-> word,
              mem |-> WriteWord(s.mem, to, word), failed |-> FALSE]
  BY DEF WriteByte, first, word, to
<1>6. [s EXCEPT !.failed = TRUE] \in Turn
  BY DEF Turn
<1>7. word \in Word => [s EXCEPT !.word = word, !.at = @ + 1] \in Turn
  BY <1>2 DEF Turn
<1>8. word \in Word => [at |-> s.at + WordSize + 1, word |-> word,
                        mem |-> WriteWord(s.mem, to, word), failed |-> FALSE] \in Turn
  BY <1>2, <1>4 DEF Turn
<1> QED
  BY <1>3, <1>5, <1>6, <1>7, <1>8

\* Every turn of the loop leaves a word in curr_word and bytes in memory.
LEMMA LoopTyped ==
  ASSUME TypeOK, NEW a \in Nat, NEW data \in Seq(Byte)
  PROVE  Inf_hex2mem(HexOf(data), a, Len(data)) \in Turn
<1> DEFINE size == Len(data)
           buf == HexOf(data)
<1>1. size \in Nat
  BY LenProperties
<1>2. \A i \in 0 .. size - 1 : HexByte(buf, i) \in Byte
  BY HexByteOf
<1> HIDE DEF size, buf
<1>3. PICK f : Runs(f, buf, a, size, size) /\ Inf_hex2mem(buf, a, size) = f[size]
  BY <1>1, LoopRuns
<1>4. \A i \in 0 .. size : f[i] = IF i = 0 THEN Begun(a)
                              ELSE WriteByte(buf, size, f[i - 1], i - 1)
  BY <1>3 DEF Runs
<1> DEFINE Bad == {k \in 0 .. size : f[k] \notin Turn}
<1>5. ASSUME Bad # {} PROVE FALSE
  <2>1. PICK m \in Bad : \A k \in Bad : m <= k
    <3>1. Bad \in SUBSET Nat
      BY <1>1
    <3> QED
      BY <1>5, <3>1, Least
  <2>2. m \in 0 .. size /\ m \in Nat /\ f[m] \notin Turn
    BY <1>1, <2>1
  <2>3. m # 0
    <3>1. Begun(a) \in Turn
      BY DEF Begun, Turn, Word, Byte, TypeOK
    <3> QED
      BY <1>4, <2>2, <3>1
  <2>4. m - 1 \in 0 .. size - 1 /\ m - 1 \in 0 .. size /\ m - 1 \notin Bad
    BY <1>1, <2>1, <2>2, <2>3
  <2>5. f[m] = WriteByte(buf, size, f[m - 1], m - 1) /\ f[m - 1] \in Turn
    BY <1>4, <2>2, <2>3, <2>4
  <2>6. f[m] \in Turn
    BY <1>1, <1>2, <2>4, <2>5, TurnTyped
  <2> QED
    BY <2>2, <2>6
<1>6. size \in 0 .. size /\ size \notin Bad
  BY <1>1, <1>5
<1>7. Inf_hex2mem(buf, a, size) \in Turn
  BY <1>3, <1>6
<1> QED
  BY <1>7 DEF buf, size

-----------------------------------------------------------------------------
(* Types *)

LEMMA Constants ==
  /\ WordSize \in Nat \ {0} /\ WordSize \div 2 \in Nat
  /\ WordSize \div 2 <= WordSize /\ ContextSize \in Nat
  /\ NumWords \in Nat /\ BufSize \in Nat
<1>1. WordSize \in Nat \ {0} /\ NumWords \in Nat /\ BufSize \in Nat
  BY WordAssumption, SizeAssumption
<1>2. WordSize \div 2 \in Nat /\ WordSize \div 2 <= WordSize
  BY <1>1
<1>3. WordSize * NumWords \in Nat
  BY <1>1
<1> QED
  BY <1>1, <1>2, <1>3 DEF ContextSize

\* Where byte i of the string of all registers is: in a word, or in the half of
\* one that spsr has.
LEMMA ContextPlace ==
  ASSUME NEW i \in 0 .. ContextSize - 1
  PROVE  LET q == i \div WordSize
             r == i % WordSize
         IN /\ i = OffsetOf(q + 1) + r /\ q + 1 \in Reg
            /\ r \in InWord /\ r < RegBytes(q + 1)
<1> DEFINE q == i \div WordSize
           r == i % WordSize
<1>1. i \in Nat /\ q \in Nat /\ r \in InWord /\ r \in Nat /\ r < WordSize
      /\ i = (WordSize * q) + r
  <2>1. i \in Nat
    BY Constants
  <2> QED
    BY <2>1, Constants DEF InWord
<1> HIDE DEF q, r
<1>2. q <= NumWords
  <2> SUFFICES ASSUME q >= NumWords + 1 PROVE FALSE
    BY <1>1, Constants
  <2>1. PICK d \in Nat : q = NumWords + 1 + d
    <3>1. q - (NumWords + 1) \in Nat /\ q = NumWords + 1 + (q - (NumWords + 1))
      BY <1>1, Constants
    <3> QED
      BY <3>1
  <2>2. WordSize * q = WordSize * NumWords + WordSize + WordSize * d
    BY <2>1, Constants
  <2>3. WordSize * d \in Nat /\ WordSize * NumWords \in Nat
    BY <2>1, Constants
  <2>4. i >= WordSize * NumWords + WordSize
    BY <1>1, <2>2, <2>3, Constants
  <2> QED
    BY <2>3, <2>4, Constants DEF ContextSize
<1>3. q + 1 \in Reg
  BY <1>1, <1>2, Constants DEF Reg
<1>4. i = OffsetOf(q + 1) + r
  <2>1. q + 1 - 1 = q
    BY <1>1
  <2> QED
    BY <1>1, <2>1 DEF OffsetOf
<1>5. r < RegBytes(q + 1)
  <2>1. CASE q + 1 = NumWords + 1
    <3>1. q = NumWords
      BY <1>1, <2>1, Constants
    <3>2. i < WordSize * NumWords + WordSize \div 2
      BY Constants DEF ContextSize
    <3>3. WordSize * NumWords \in Nat
      BY Constants
    <3>4. r < WordSize \div 2
      BY <1>1, <3>1, <3>2, <3>3, Constants
    <3> QED
      BY <2>1, <3>4 DEF RegBytes
  <2>2. CASE q + 1 # NumWords + 1
    BY <1>1, <2>2 DEF RegBytes
  <2> QED
    BY <2>1, <2>2
<1> QED
  BY <1>1, <1>3, <1>4, <1>5 DEF q, r

\* And the string has a place for each byte of a register.
LEMMA PlaceInContext ==
  ASSUME NEW r \in Reg, NEW k \in InWord, k < RegBytes(r)
  PROVE  OffsetOf(r) + k \in 0 .. ContextSize - 1
<1>1. r \in Nat /\ r - 1 \in Nat /\ r - 1 <= NumWords /\ k \in Nat /\ k < WordSize
  BY Constants DEF Reg, InWord
<1>2. CASE r = NumWords + 1
  <2>1. r - 1 = NumWords /\ k < WordSize \div 2
    BY <1>2, Constants DEF RegBytes
  <2>2. WordSize * NumWords \in Nat
    BY Constants
  <2> QED
    BY <1>1, <2>1, <2>2, Constants DEF OffsetOf, ContextSize
<1>3. CASE r # NumWords + 1
  <2>1. NumWords - r \in Nat /\ NumWords = (r - 1) + 1 + (NumWords - r)
    BY <1>1, <1>3, Constants DEF Reg
  <2>2. WordSize * NumWords
          = WordSize * (r - 1) + WordSize + WordSize * (NumWords - r)
    BY <1>1, <2>1, Constants
  <2>3. WordSize * (r - 1) \in Nat /\ WordSize * (NumWords - r) \in Nat
    BY <1>1, <2>1, Constants
  <2>4. WordSize * (r - 1) + k < WordSize * NumWords
    BY <1>1, <2>2, <2>3, Constants
  <2> QED
    BY <1>1, <2>3, <2>4, Constants DEF OffsetOf, ContextSize
<1> QED
  BY <1>2, <1>3

\* The registers as one string of bytes.
LEMMA ContextTyped ==
  ASSUME TypeOK
  PROVE  [i \in 0 .. ContextSize - 1 |-> ContextByte(i)]
           \in [0 .. ContextSize - 1 -> Byte]
<1> SUFFICES ASSUME NEW i \in 0 .. ContextSize - 1
             PROVE  ContextByte(i) \in Byte
  OBVIOUS
<1>1. (i \div WordSize) + 1 \in Reg /\ i % WordSize \in InWord
  BY ContextPlace
<1> QED
  BY <1>1 DEF TypeOK, Word, ContextByte

\* What the buffer may hold.
Fitting(s) == (\A i \in DOMAIN s : s[i] \in 0 .. 127) /\ Len(s) + 1 <= BufSize

LEMMA ShortReplies ==
  /\ Fitting(Error(1)) /\ Fitting(Error(3)) /\ Fitting(Error(4)) /\ Fitting(Ok)
  /\ Fitting(<<>>)
<1>1. BufSize \in Nat /\ BufSize >= 4
  BY SizeAssumption
<1>2. ASSUME NEW n \in {1, 3, 4} PROVE Fitting(Error(n))
  <2>1. Len(Error(n)) = 3 /\ DOMAIN Error(n) = 1 .. 3
    BY DEF Error
  <2>2. Error(n)[1] = 69 /\ Error(n)[2] = 48 /\ Error(n)[3] = 48 + n
    BY DEF Error
  <2> QED
    BY <1>1, <2>1, <2>2 DEF Fitting
<1>3. Fitting(Ok)
  <2>1. Len(Ok) = 2 /\ DOMAIN Ok = 1 .. 2 /\ Ok[1] = 79 /\ Ok[2] = 75
    BY DEF Ok
  <2> QED
    BY <1>1, <2>1 DEF Fitting
<1>4. Fitting(<<>>)
  <2>1. DOMAIN <<>> = {} /\ Len(<<>>) = 0
    OBVIOUS
  <2> QED
    BY <1>1, <2>1 DEF Fitting
<1> QED
  BY <1>2, <1>3, <1>4

LEMMA LongReply ==
  ASSUME NEW n \in Nat, NEW s \in [1 .. n -> 0 .. 127], n + 1 <= BufSize
  PROVE  Fitting(s)
  BY SequenceOf DEF Fitting

\* Byte i of what m asks for is byte i % WordSize of the word read for it, which
\* starts at a byte asked for.
LEMMA ByteOfWord ==
  ASSUME NEW a \in Nat, NEW i \in Nat
  PROVE  /\ i % WordSize \in InWord /\ WordOf(a, i) + (i % WordSize) = a + i
         /\ \E j \in 0 .. i : WordOf(a, i) = a + j
<1> DEFINE q == i \div WordSize
           r == i % WordSize
<1>1. q \in Nat /\ r \in InWord /\ r \in Nat /\ i = (WordSize * q) + r
  BY Constants DEF InWord
<1>2. WordOf(a, i) = a + WordSize * q
  BY DEF WordOf
<1> HIDE DEF q, r
<1>3. WordSize * q \in Nat
  BY <1>1, Constants
<1>4. WordSize * q \in 0 .. i
  BY <1>1, <1>3
<1>5. WordOf(a, i) + r = a + i
  BY <1>1, <1>2, <1>3
<1> QED
  BY <1>1, <1>2, <1>4, <1>5 DEF r

\* m: what the words hold are the bytes asked for.
LEMMA ReadString ==
  ASSUME TypeOK, NEW a \in Nat, NEW size \in Nat, ~Inf_mem2hexFails(a, size)
  PROVE  /\ \A i \in 0 .. size - 1 : a + i \in Mapped
         /\ Inf_mem2hex(a, size) = HexOf([i \in 1 .. size |-> mem[a + i - 1]])
         /\ Inf_mem2hex(a, size) \in [1 .. 2 * size -> 0 .. 127]
<1> DEFINE buf == [i \in 0 .. size - 1 |-> ReadWord(mem, WordOf(a, i))[i % WordSize]]
<1>1. ASSUME NEW i \in 0 .. size - 1
      PROVE  a + i \in Mapped /\ ReadWord(mem, WordOf(a, i))[i % WordSize] = mem[a + i]
  <2>1. Accessible(WordOf(a, i)) /\ i \in Nat
    BY DEF Inf_mem2hexFails
  <2>2. i % WordSize \in InWord /\ WordOf(a, i) + (i % WordSize) = a + i
    BY <2>1, ByteOfWord
  <2>3. \A k \in InWord : WordOf(a, i) + k \in Mapped
    BY <2>1 DEF Accessible
  <2>4. \A k \in InWord : ReadWord(mem, WordOf(a, i))[k] = mem[WordOf(a, i) + k]
    BY DEF ReadWord
  <2> QED
    BY <2>2, <2>3, <2>4
<1>2. buf \in [0 .. size - 1 -> Byte] /\ \A i \in 0 .. size - 1 : buf[i] = mem[a + i]
  BY <1>1 DEF TypeOK
<1> HIDE DEF buf
<1>3. \A i \in 1 .. size : buf[i - 1] = mem[a + i - 1]
  <2> SUFFICES ASSUME NEW i \in 1 .. size PROVE buf[i - 1] = mem[a + i - 1]
    OBVIOUS
  <2>1. i - 1 \in 0 .. size - 1 /\ a + (i - 1) = a + i - 1
    OBVIOUS
  <2> QED
    BY <1>2, <2>1
<1>4. [i \in 1 .. size |-> buf[i - 1]] = [i \in 1 .. size |-> mem[a + i - 1]]
  BY <1>3
<1>5. Inf_mem2hex(a, size) = mem2hex(buf, size)
  BY DEF Inf_mem2hex, buf
<1>6. /\ mem2hex(buf, size) = HexOf([i \in 1 .. size |-> buf[i - 1]])
      /\ mem2hex(buf, size) \in [1 .. 2 * size -> 0 .. 127]
  BY <1>2, SameString
<1>7. \A i \in 0 .. size - 1 : a + i \in Mapped
  BY <1>1
<1> QED
  BY <1>4, <1>5, <1>6, <1>7

\* The reply to m, and its type.
LEMMA ReadMem ==
  ASSUME TypeOK, NEW a \in Address, NEW size \in ReadSize, HandleReadMem(a, size)
  PROVE  ReadExact' /\ Fitting(output')
<1>1. a \in Nat /\ size \in Nat /\ BufSize \in Nat
  BY MemoryAssumption, SizeAssumption
<1> DEFINE data == [i \in 1 .. size |-> 0]
<1>2. Len(data) = size /\ DOMAIN data = 1 .. size
  <2>1. data \in [1 .. size -> {0}]
    OBVIOUS
  <2> HIDE DEF data
  <2> QED
    BY <1>1, <2>1, SequenceOf
<1>3. request'.addr = a /\ request'.data = data /\ mem' = mem
  BY DEF HandleReadMem, Request
<1> HIDE DEF data
<1>4. Asked' = {a + i : i \in 0 .. size - 1}
  BY <1>2, <1>3 DEF Asked
<1>5. CASE ~Fits(size)
  <2>1. output' = Error(1)
    BY <1>5 DEF HandleReadMem
  <2>2. 2 * size + 1 > BufSize
    BY <1>1, <1>5 DEF Fits
  <2> QED
    BY <1>2, <1>3, <2>1, <2>2, ShortReplies DEF ReadExact
<1>6. CASE Fits(size) /\ Inf_mem2hexFails(a, size)
  <2>1. output' = Error(4)
    BY <1>6 DEF HandleReadMem
  <2>2. PICK i \in 0 .. size - 1 : ~Accessible(WordOf(a, i))
    BY <1>6 DEF Inf_mem2hexFails
  <2>3. PICK k \in InWord : WordOf(a, i) + k \notin Mapped
    BY <2>2 DEF Accessible
  <2>4. PICK j \in 0 .. i : WordOf(a, i) = a + j
    <3>1. i \in Nat
      BY <1>1
    <3> QED
      BY <1>1, <3>1, ByteOfWord
  <2>5. a + j \in Asked' /\ (a + j) + k \notin Mapped
    BY <1>1, <1>4, <2>3, <2>4
  <2> QED
    BY <2>1, <2>5, ShortReplies DEF ReadExact
<1>7. CASE Fits(size) /\ ~Inf_mem2hexFails(a, size)
  <2>1. output' = Inf_mem2hex(a, size)
    BY <1>7 DEF HandleReadMem
  <2>2. Asked' \subseteq Mapped
    BY <1>1, <1>4, <1>7, ReadString
  <2>3. output' = HexOf([i \in 1 .. size |-> mem[a + i - 1]])
    BY <1>1, <1>7, <2>1, ReadString
  <2>4. Fitting(output')
    <3>1. 2 * size \in Nat /\ 2 * size + 1 <= BufSize
      BY <1>1, <1>7 DEF Fits
    <3> QED
      BY <1>1, <1>7, <2>1, <3>1, ReadString, LongReply
  <2> QED
    BY <1>2, <1>3, <2>2, <2>3, <2>4 DEF ReadExact
<1> QED
  BY <1>5, <1>6, <1>7

\* g
LEMMA ReadRegs ==
  ASSUME TypeOK, HandleReadRegs
  PROVE  RegistersExact' /\ Fitting(output')
<1> DEFINE buf == [i \in 0 .. ContextSize - 1 |-> ContextByte(i)]
<1>1. output' = mem2hex(buf, ContextSize) /\ regs' = regs /\ request'.op = "g"
  BY DEF HandleReadRegs, Regs2hex, ContextByte, Request
<1>2. buf \in [0 .. ContextSize - 1 -> Byte]
      /\ \A i \in 0 .. ContextSize - 1 : buf[i] = ContextByte(i)
  BY ContextTyped
<1> HIDE DEF buf
<1>3. \A i \in 1 .. ContextSize : buf[i - 1] = ContextByte(i - 1)
  <2> SUFFICES ASSUME NEW i \in 1 .. ContextSize
               PROVE  buf[i - 1] = ContextByte(i - 1)
    OBVIOUS
  <2>1. i - 1 \in 0 .. ContextSize - 1
    BY Constants
  <2> QED
    BY <1>2, <2>1
<1>4. /\ output' = HexOf([i \in 1 .. ContextSize |-> buf[i - 1]])
      /\ output' \in [1 .. 2 * ContextSize -> 0 .. 127]
  BY <1>1, <1>2, Constants, SameString
<1>5. [i \in 1 .. ContextSize |-> buf[i - 1]]
        = [i \in 1 .. ContextSize |-> ContextByte(i - 1)]
  BY <1>3
<1>6. \A i : ContextByte(i)' = ContextByte(i)
  BY <1>1 DEF ContextByte
<1>7. output' = HexOf([i \in 1 .. ContextSize |-> ContextByte(i - 1)'])
  BY <1>4, <1>5, <1>6
<1>8. RegistersExact'
  BY <1>1, <1>7 DEF RegistersExact
<1>9. Fitting(output')
  <2>1. 2 * ContextSize \in Nat /\ 2 * ContextSize + 1 <= BufSize
    BY Constants, SizeAssumption
  <2> QED
    BY <1>4, <2>1, LongReply
<1> QED
  BY <1>8, <1>9

\* G
LEMMA WriteRegs ==
  ASSUME TypeOK, NEW data \in ContextData, HandleWriteRegs(data)
  PROVE  RegistersExact' /\ Fitting(output') /\ regs' \in [Reg -> Word]
<1> DEFINE buf == HexOf(data)
<1>1. data \in Seq(Byte) /\ Len(data) = ContextSize /\ DOMAIN data = 1 .. ContextSize
  BY DataAssumption, ContextAssumption, LenProperties
<1>2. request'.op = "G" /\ request'.data = data /\ output' = Ok
  BY DEF HandleWriteRegs, Request
<1>3. \A i \in 0 .. ContextSize - 1 : /\ HexByte(buf, i) = data[i + 1]
                                      /\ HexByte(buf, i) \in Byte
  BY <1>1, HexByteOf
<1> HIDE DEF buf
<1>4. PICK rest \in [InWord -> Garbage] :
        regs' = [r \in Reg |-> [k \in InWord |->
                  IF k < RegBytes(r) THEN HexByte(buf, OffsetOf(r) + k)
                  ELSE rest[k]]]
  BY DEF HandleWriteRegs, Hex2regs, buf
<1>5. regs' \in [Reg -> Word]
  <2>1. ASSUME NEW r \in Reg, NEW k \in InWord
        PROVE  (IF k < RegBytes(r) THEN HexByte(buf, OffsetOf(r) + k)
                ELSE rest[k]) \in Byte
    <3>1. CASE k < RegBytes(r)
      BY <1>3, <3>1, PlaceInContext
    <3>2. CASE ~(k < RegBytes(r))
      BY <3>2, DataAssumption
    <3> QED
      BY <3>1, <3>2
  <2> QED
    BY <1>4, <2>1 DEF Word
<1>6. ASSUME NEW i \in 1 .. ContextSize
      PROVE  ContextByte(i - 1)' = data[i]
  <2> DEFINE q == (i - 1) \div WordSize
             r == (i - 1) % WordSize
  <2>1. i - 1 \in 0 .. ContextSize - 1 /\ (i - 1) + 1 = i
    BY Constants
  <2>2. i - 1 = OffsetOf(q + 1) + r /\ q + 1 \in Reg /\ r \in InWord
        /\ r < RegBytes(q + 1)
    BY <2>1, ContextPlace
  <2>3. ContextByte(i - 1)' = regs'[q + 1][r]
    BY DEF ContextByte
  <2> HIDE DEF q, r
  <2>4. regs'[q + 1][r] = HexByte(buf, OffsetOf(q + 1) + r)
    BY <1>4, <2>2
  <2>5. HexByte(buf, i - 1) = data[(i - 1) + 1]
    BY <1>3, <2>1
  <2> QED
    BY <2>1, <2>2, <2>3, <2>4, <2>5
<1>7. RegistersExact'
  BY <1>1, <1>2, <1>6 DEF RegistersExact
<1> QED
  BY <1>2, <1>5, <1>7, ShortReplies

\* M: types, and what one byte does.
LEMMA WriteMem ==
  ASSUME TypeOK, NEW a \in Address, NEW data \in WriteData, HandleWriteMem(a, data)
  PROVE  mem' \in [Mapped -> Byte] /\ Fitting(output')
<1>1. a \in Nat /\ data \in Seq(Byte)
  BY MemoryAssumption, DataAssumption
<1>2. Inf_hex2mem(HexOf(data), a, Len(data)) \in Turn
  BY <1>1, LoopTyped
<1>3. mem' = Inf_hex2mem(HexOf(data), a, Len(data)).mem
      /\ output' \in {Error(3), Ok}
  BY DEF HandleWriteMem
<1> QED
  BY <1>2, <1>3, ShortReplies DEF Turn

LEMMA WriteOneByte ==
  ASSUME TypeOK, NEW a \in Address, NEW data \in WriteData, HandleWriteMem(a, data),
         Len(data) = 1
  PROVE  mem' = IF Accessible(a) THEN [mem EXCEPT ![a] = data[1]] ELSE mem
<1> DEFINE buf == HexOf(data)
           word == [ReadWord(mem, a) EXCEPT ![0] = HexByte(buf, 0)]
<1>1. a \in Nat /\ data \in Seq(Byte)
  BY MemoryAssumption, DataAssumption
<1>2. HexByte(buf, 0) = data[1]
  <2>1. 0 \in 0 .. Len(data) - 1 /\ 0 + 1 = 1
    OBVIOUS
  <2> QED
    BY <1>1, <2>1, HexByteOf
<1>3. mem' = Inf_hex2mem(buf, a, 1).mem
  BY DEF HandleWriteMem
<1> HIDE DEF buf
<1>4. PICK f : Runs(f, buf, a, 1, 1) /\ Inf_hex2mem(buf, a, 1) = f[1]
  BY LoopRuns
<1>5. f[0] = Begun(a) /\ f[1] = WriteByte(buf, 1, f[0], 0)
  <2>1. 0 \in 0 .. 1 /\ 1 \in 0 .. 1 /\ 1 # 0 /\ 1 - 1 = 0
    OBVIOUS
  <2> QED
    BY <1>4, <2>1 DEF Runs
<1>6. 0 % WordSize = 0 /\ 0 \div WordSize = 0 /\ a + 0 = a /\ 0 \in InWord
  BY <1>1, Constants DEF InWord
<1>7. Begun(a).at = a /\ Begun(a).mem = mem /\ Begun(a).failed = FALSE
  BY DEF Begun
<1>8. Fills(0, 1)
  BY DEF Fills
<1>9. CASE ~Accessible(a)
  <2>1. f[1] = [Begun(a) EXCEPT !.failed = TRUE]
    BY <1>5, <1>6, <1>7, <1>9 DEF WriteByte
  <2> QED
    BY <1>3, <1>4, <1>9, <2>1 DEF Begun
<1>10. CASE Accessible(a)
  <2>1. f[1].mem = WriteWord(mem, a, word)
    BY <1>5, <1>6, <1>7, <1>8, <1>10 DEF WriteByte
  <2>2. word \in [InWord -> Byte] /\ word[0] = data[1]
        /\ \A k \in InWord : a + k \in Mapped /\ (k # 0 => word[k] = mem[a + k])
    <3>1. \A k \in InWord : a + k \in Mapped
      BY <1>10 DEF Accessible
    <3>2. data[1] \in Byte
      BY <1>1, ElementOfSeq
    <3> QED
      BY <1>2, <1>6, <3>1, <3>2 DEF ReadWord, TypeOK
  <2> HIDE DEF word
  <2>3. a \in Mapped
    BY <1>6, <2>2
  <2>4. ASSUME NEW x \in Mapped
        PROVE  (IF x - a \in InWord THEN word[x - a] ELSE mem[x])
                 = IF x = a THEN data[1] ELSE mem[x]
    <3>1. x \in Nat
      BY MemoryAssumption
    <3>2. CASE x = a
      BY <1>6, <2>2, <3>1, <3>2
    <3>3. CASE x # a
      <4>1. x - a # 0 /\ a + (x - a) = x
        BY <1>1, <3>1, <3>3
      <4> QED
        BY <2>2, <3>3, <4>1
    <3> QED
      BY <3>2, <3>3
  <2>5. WriteWord(mem, a, word) = [mem EXCEPT ![a] = data[1]]
    BY <2>3, <2>4 DEF WriteWord, TypeOK
  <2> QED
    BY <1>3, <1>4, <1>10, <2>1, <2>5
<1> QED
  BY <1>9, <1>10

-----------------------------------------------------------------------------
(* The invariant *)

TargetInv == TypeOK /\ ReadExact /\ RegistersExact

LEMMA InitTargetInv == Init => TargetInv
<1> SUFFICES ASSUME Init PROVE TargetInv
  OBVIOUS
<1>1. mem \in [Mapped -> Byte]
  <2>1. \A x \in Mapped : x % 256 \in Byte
    BY MemoryAssumption DEF Byte
  <2> QED
    BY <2>1 DEF Init
<1>2. regs \in [Reg -> Word]
  <2>1. ASSUME NEW r \in Reg, NEW k \in InWord PROVE (16 * r + k) % 256 \in Byte
    <3>1. 16 * r + k \in Nat
      BY Constants DEF Reg, InWord
    <3> QED
      BY <3>1 DEF Byte
  <2> QED
    BY <2>1 DEF Init, Word
<1>3. Fitting(output) /\ request.op = "none"
  BY ShortReplies DEF Init, Request
<1> QED
  BY <1>1, <1>2, <1>3 DEF TargetInv, TypeOK, Fitting, ReadExact, RegistersExact

LEMMA NextTargetInv == TargetInv /\ [Next]_vars => TargetInv'
<1> SUFFICES ASSUME TargetInv, [Next]_vars PROVE TargetInv'
  OBVIOUS
<1> USE DEF TargetInv, TypeOK
<1>1. ASSUME NEW a \in Address, NEW n \in ReadSize, HandleReadMem(a, n)
      PROVE  TargetInv'
  <2>1. UNCHANGED <<mem, regs>> /\ request'.op = "m"
    BY <1>1 DEF HandleReadMem, Request
  <2>2. ReadExact' /\ Fitting(output')
    BY <1>1, ReadMem
  <2> QED
    BY <2>1, <2>2 DEF Fitting, RegistersExact
<1>2. ASSUME NEW a \in Address, NEW data \in WriteData, HandleWriteMem(a, data)
      PROVE  TargetInv'
  <2>1. UNCHANGED regs /\ request'.op = "M"
    BY <1>2 DEF HandleWriteMem, Request
  <2>2. mem' \in [Mapped -> Byte] /\ Fitting(output')
    BY <1>2, WriteMem
  <2> QED
    BY <2>1, <2>2 DEF Fitting, ReadExact, RegistersExact
<1>3. CASE HandleReadRegs
  <2>1. UNCHANGED <<mem, regs>> /\ request'.op = "g"
    BY <1>3 DEF HandleReadRegs, Request
  <2>2. RegistersExact' /\ Fitting(output')
    BY <1>3, ReadRegs
  <2> QED
    BY <2>1, <2>2 DEF Fitting, ReadExact
<1>4. ASSUME NEW data \in ContextData, HandleWriteRegs(data)
      PROVE  TargetInv'
  <2>1. UNCHANGED mem /\ request'.op = "G"
    BY <1>4 DEF HandleWriteRegs, Request
  <2>2. RegistersExact' /\ Fitting(output') /\ regs' \in [Reg -> Word]
    BY <1>4, WriteRegs
  <2> QED
    BY <2>1, <2>2 DEF Fitting, ReadExact
<1>5. CASE UNCHANGED vars
  BY <1>5 DEF vars, ReadExact, Asked, RegistersExact, ContextByte
<1> QED
  BY <1>1, <1>2, <1>3, <1>4, <1>5 DEF Next

LEMMA TargetInvariance == Spec => []TargetInv
  BY InitTargetInv, NextTargetInv, PTL DEF Spec

\* What the handlers write into the output buffer are characters and leave room
\* for the zero behind them, memory and registers are bytes, and inf_hex2mem's
\* loop keeps them so wherever its address wanders.
THEOREM TypeCorrect == Spec => []TypeOK
<1>1. TargetInv => TypeOK
  BY DEF TargetInv
<1> QED
  BY <1>1, TargetInvariance, PTL

\* The reply to m is the memory GDB asked for, from any address, across word
\* boundaries and up to a gap (handle_read_mem, inf_mem2hex).
THEOREM ReadsExact == Spec => []ReadExact
<1>1. TargetInv => ReadExact
  BY DEF TargetInv
<1> QED
  BY <1>1, TargetInvariance, PTL

\* g sends every register in its place, and G puts every byte there, the half
\* word of spsr included (regs2hex, hex2regs).
THEOREM ContextExact == Spec => []RegistersExact
<1>1. TargetInv => RegistersExact
  BY DEF TargetInv
<1> QED
  BY <1>1, TargetInvariance, PTL

\* An M packet of one byte changes that byte and no other (inf_hex2mem).
THEOREM OneByteWritten == Spec => ByteWriteExact
<1>1. ASSUME TargetInv, [Next]_vars, ~UNCHANGED vars,
             request'.op = "M", Len(request'.data) = 1
      PROVE  mem' = IF Accessible(request'.addr)
                    THEN [mem EXCEPT ![request'.addr] = request'.data[1]]
                    ELSE mem
  <2>1. ASSUME NEW a \in Address, NEW data \in WriteData, HandleWriteMem(a, data)
        PROVE  mem' = IF Accessible(request'.addr)
                      THEN [mem EXCEPT ![request'.addr] = request'.data[1]]
                      ELSE mem
    <3>1. request'.addr = a /\ request'.data = data
      BY <2>1 DEF HandleWriteMem, Request
    <3> QED
      BY <1>1, <2>1, <3>1, WriteOneByte DEF TargetInv
  <2>2. ~(\E a \in Address, n \in ReadSize : HandleReadMem(a, n))
        /\ ~HandleReadRegs /\ ~(\E data \in ContextData : HandleWriteRegs(data))
    BY <1>1 DEF HandleReadMem, HandleReadRegs, HandleWriteRegs, Request
  <2> QED
    BY <1>1, <2>1, <2>2 DEF Next
<1>2. TargetInv /\ [Next]_vars
        => [request'.op = "M" /\ Len(request'.data) = 1 =>
              mem' = IF Accessible(request'.addr)
                     THEN [mem EXCEPT ![request'.addr] = request'.data[1]]
                     ELSE mem]_vars
  BY <1>1
<1> QED
  BY <1>2, TargetInvariance, PTL DEF Spec, ByteWriteExact
=============================================================================
