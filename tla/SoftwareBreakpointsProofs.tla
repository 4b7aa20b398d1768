---------------------- MODULE SoftwareBreakpointsProofs ----------------------
(***************************************************************************)
(* Software breakpoints no two of which share an 8-byte word, and that GDB *)
(* sets and unsets once, are exact: for every table size, every text and   *)
(* every set of such addresses.  The invariant is inductive: what is in    *)
(* memory follows from what the table saved, and the table from what GDB   *)
(* was told.                                                               *)
(***************************************************************************)
EXTENDS SoftwareBreakpoints, TLAPS

IInv == TypeOK /\ BreakpointsInPlace /\ TableMatchesHost /\ SavedWordsTrue

\* A breakpoint GDB was told of is found by the search of
\* unset_software_breakpoint, in the one slot that has its address.
LEMMA InsertedFound ==
  ASSUME IInv, NEW a \in inserted
  PROVE  FirstWith(a) # {}
<1>1. PICK i \in Index : software_breakpoints[i].addr = a
  BY DEF IInv, TableMatchesHost
<1>2. a # 0
  BY AddressAssumption DEF IInv, TypeOK
<1>3. \A j \in 0 .. i - 1 : j \in Index /\ j # i
  BY TableAssumption DEF Index
<1>4. \A j \in 0 .. i - 1 : software_breakpoints[j].addr # a
  BY <1>1, <1>2, <1>3 DEF IInv, TableMatchesHost
<1> QED
  BY <1>1, <1>4 DEF FirstWith

LEMMA InitIInv == Init => IInv
<1> SUFFICES ASSUME Init PROVE IInv
  OBVIOUS
<1> USE DEF Init
<1>1. TypeOK
  BY AddressAssumption DEF TypeOK, NullBreak, Text, Insn
<1>2. BreakpointsInPlace
  BY DEF BreakpointsInPlace, Overlay, Text
<1>3. TableMatchesHost
  BY DEF TableMatchesHost, NullBreak
<1>4. SavedWordsTrue
  BY DEF SavedWordsTrue, NullBreak
<1> QED
  BY <1>1, <1>2, <1>3, <1>4 DEF IInv

\* set_software_breakpoint keeps the invariant.
LEMMA SetIInv ==
  ASSUME Spaced, ~MayResend, IInv, NEW a \in Site, SetSoftwareBreakpoint(a)
  PROVE  IInv'
<1>1. a \in Nat /\ a # 0 /\ a \notin inserted /\ a + 1 \notin inserted
  BY AddressAssumption DEF SetSoftwareBreakpoint, Sent, IInv, TypeOK, Spaced
<1>2. last' = <<"Z0", a>> /\ last' \in {<<"none", 0>>} \cup ({"Z0", "z0"} \X Site)
  BY DEF SetSoftwareBreakpoint, Sent
<1>3. CASE ~Accessible(a)
  BY <1>2, <1>3 DEF SetSoftwareBreakpoint, IInv, TypeOK, BreakpointsInPlace,
                    TableMatchesHost, SavedWordsTrue, Overlay
<1>4. ASSUME Accessible(a) PROVE a \in Mapped /\ a + 1 \in Mapped
  BY <1>4 DEF Accessible
<1>5. mem \in [Mapped -> Insn] /\ Brk \in Insn
  BY DEF IInv, TypeOK, Insn
<1>6. CASE Accessible(a) /\ FirstWith(0) = {}
  <2>1. mem' = Refused(a) /\ UNCHANGED <<software_breakpoints, inserted>>
    BY <1>6 DEF SetSoftwareBreakpoint
  <2>2. Refused(a) = mem
    BY <1>1, <1>4, <1>5, <1>6 DEF Refused, WithWord
  <2> QED
    BY <1>2, <2>1, <2>2 DEF IInv, TypeOK, BreakpointsInPlace, TableMatchesHost,
                            SavedWordsTrue, Overlay
<1>7. ASSUME Accessible(a), NEW i \in FirstWith(0),
             software_breakpoints' =
               [software_breakpoints EXCEPT ![i] = Saved(a)],
             mem' = WithWord(mem, a, Brk, mem[a + 1]),
             inserted' = inserted \cup {a}
      PROVE  IInv'
  <2>1. i \in Index /\ software_breakpoints[i].addr = 0
    BY DEF FirstWith
  <2>2. mem[a] = a /\ mem[a + 1] = a + 1
    BY <1>1, <1>4, <1>7 DEF IInv, BreakpointsInPlace, Overlay
  <2>3. software_breakpoints \in [Index -> [addr : Nat, lo : Insn, hi : Insn]]
    BY DEF IInv, TypeOK
  <2>4. /\ software_breakpoints'[i] = [addr |-> a, lo |-> a, hi |-> a + 1]
        /\ \A j \in Index \ {i} :
              software_breakpoints'[j] = software_breakpoints[j]
    BY <1>7, <2>1, <2>2, <2>3 DEF Saved
  <2>5. TypeOK'
    <3>1. mem' \in [Mapped -> Insn]
      BY <1>1, <1>4, <1>5, <1>7 DEF WithWord
    <3>2. Saved(a) \in [addr : Nat, lo : Insn, hi : Insn]
      BY <1>1, <2>2 DEF Saved, Insn
    <3>3. software_breakpoints' \in [Index -> [addr : Nat, lo : Insn, hi : Insn]]
      BY <1>7, <2>1, <2>3, <3>2
    <3>4. inserted' \subseteq Site
      BY <1>7 DEF IInv, TypeOK
    <3> QED
      BY <1>2, <3>1, <3>3, <3>4 DEF TypeOK
  <2>6. BreakpointsInPlace'
    <3>1. mem = [x \in Mapped |-> IF x \in inserted THEN Brk ELSE x]
      BY DEF IInv, BreakpointsInPlace, Overlay
    <3>2. mem' = [mem EXCEPT ![a] = Brk, ![a + 1] = a + 1]
      BY <1>7, <2>2 DEF WithWord
    <3>3. mem' = [x \in Mapped |-> IF x \in inserted' THEN Brk ELSE x]
      <4>1. a # a + 1 /\ a \in Mapped /\ a + 1 \in Mapped
        BY <1>1, <1>4, <1>7
      <4>2. mem' = [x \in Mapped |-> IF x = a THEN Brk
                                     ELSE IF x = a + 1 THEN a + 1 ELSE mem[x]]
        BY <1>5, <3>2, <4>1
      <4>3. \A x \in Mapped : mem'[x] = IF x \in inserted' THEN Brk ELSE x
        BY <1>1, <1>7, <3>1, <4>1, <4>2
      <4> QED
        BY <4>2, <4>3
    <3> QED
      BY <3>3 DEF BreakpointsInPlace, Overlay
  <2>7. TableMatchesHost'
    <3>1. \A j \in Index : software_breakpoints[j].addr # a
      BY <1>1 DEF IInv, TableMatchesHost
    <3>2. {software_breakpoints'[j].addr : j \in Index} \ {0}
            = ({software_breakpoints[j].addr : j \in Index} \ {0}) \cup {a}
      BY <1>1, <2>1, <2>4
    <3>3. {software_breakpoints'[j].addr : j \in Index} \ {0} = inserted'
      BY <1>7, <3>2 DEF IInv, TableMatchesHost
    <3>4. \A j, k \in Index : software_breakpoints'[j].addr # 0 /\
            software_breakpoints'[j].addr = software_breakpoints'[k].addr => j = k
      BY <1>1, <2>1, <2>4, <3>1 DEF IInv, TableMatchesHost
    <3> QED
      BY <3>3, <3>4 DEF TableMatchesHost
  <2>8. SavedWordsTrue'
    BY <1>7, <2>1, <2>4 DEF IInv, SavedWordsTrue, Accessible
  <2> QED
    BY <2>5, <2>6, <2>7, <2>8 DEF IInv
<1> QED
  BY <1>3, <1>6, <1>7 DEF SetSoftwareBreakpoint

\* unset_software_breakpoint keeps the invariant.
LEMMA UnsetIInv ==
  ASSUME Spaced, ~MayResend, IInv, NEW a \in Site, UnsetSoftwareBreakpoint(a)
  PROVE  IInv'
<1>1. a \in Nat /\ a # 0 /\ a \in inserted /\ a + 1 \notin inserted
  BY AddressAssumption DEF UnsetSoftwareBreakpoint, Sent, IInv, TypeOK, Spaced
<1>2. last' \in {<<"none", 0>>} \cup ({"Z0", "z0"} \X Site)
  BY DEF UnsetSoftwareBreakpoint, Sent
<1>3. FirstWith(a) # {} /\ inserted' = inserted \ {a}
  BY <1>1, InsertedFound DEF UnsetSoftwareBreakpoint
<1>4. PICK i \in FirstWith(a) :
        /\ mem' = WithWord(mem, a, software_breakpoints[i].lo,
                                   software_breakpoints[i].hi)
        /\ software_breakpoints' = Freed(i)
  BY <1>3 DEF UnsetSoftwareBreakpoint
<1>5. i \in Index /\ software_breakpoints[i].addr = a
  BY DEF FirstWith
<1>6. /\ a \in Mapped /\ a + 1 \in Mapped
      /\ software_breakpoints[i].lo = a /\ software_breakpoints[i].hi = a + 1
  BY <1>1, <1>5 DEF IInv, SavedWordsTrue, Accessible
<1>7. mem \in [Mapped -> Insn]
  BY DEF IInv, TypeOK
<1>8. software_breakpoints \in [Index -> [addr : Nat, lo : Insn, hi : Insn]]
  BY DEF IInv, TypeOK
<1>9. /\ software_breakpoints' \in [Index -> [addr : Nat, lo : Insn, hi : Insn]]
      /\ software_breakpoints'[i].addr = 0
      /\ \A j \in Index \ {i} :
            software_breakpoints'[j] = software_breakpoints[j]
  BY <1>4, <1>5, <1>8 DEF Freed
<1>10. TypeOK'
  <2>1. mem' \in [Mapped -> Insn]
    BY <1>1, <1>4, <1>6, <1>7 DEF WithWord, Insn
  <2> QED
    BY <1>2, <1>3, <1>9, <2>1 DEF IInv, TypeOK
<1>11. BreakpointsInPlace'
  BY <1>1, <1>3, <1>4, <1>6, <1>7
     DEF IInv, BreakpointsInPlace, Overlay, WithWord
<1>12. TableMatchesHost'
  <2>1. \A j \in Index \ {i} : software_breakpoints[j].addr # a
    BY <1>1, <1>5 DEF IInv, TableMatchesHost
  <2>2. {software_breakpoints'[j].addr : j \in Index} \ {0}
          = ({software_breakpoints[j].addr : j \in Index} \ {0}) \ {a}
    BY <1>1, <1>5, <1>9, <2>1
  <2>3. {software_breakpoints'[j].addr : j \in Index} \ {0} = inserted'
    BY <1>3, <2>2 DEF IInv, TableMatchesHost
  <2>4. \A j, k \in Index : software_breakpoints'[j].addr # 0 /\
          software_breakpoints'[j].addr = software_breakpoints'[k].addr => j = k
    BY <1>9 DEF IInv, TableMatchesHost
  <2> QED
    BY <2>3, <2>4 DEF TableMatchesHost
<1>13. SavedWordsTrue'
  BY <1>9 DEF IInv, SavedWordsTrue, Accessible
<1> QED
  BY <1>10, <1>11, <1>12, <1>13 DEF IInv

\* At most one slot covers an instruction, and detach restores what it saved.
LEMMA RestoredText ==
  ASSUME Spaced, IInv
  PROVE  Restored = Text
<1>1. SUFFICES ASSUME NEW x \in Mapped PROVE Restored[x] = x
  BY DEF Restored, Text
<1>2. x \in Nat /\ x # 0
  BY AddressAssumption
<1>3. \A i \in Index : software_breakpoints[i].addr \in Nat
  BY DEF IInv, TypeOK
<1>4. \A i \in Index : software_breakpoints[i].addr # 0 =>
        software_breakpoints[i].addr \in inserted
  BY DEF IInv, TableMatchesHost
<1>5. \A i, j \in Index : Covers(i, x) /\ Covers(j, x) => i = j
  <2> SUFFICES ASSUME NEW i \in Index, NEW j \in Index, Covers(i, x), Covers(j, x)
               PROVE  i = j
    OBVIOUS
  <2> DEFINE p == software_breakpoints[i].addr
             q == software_breakpoints[j].addr
  <2>1. /\ p \in Nat /\ p # 0 /\ (p = x \/ p = x - 1) /\ p \in Site
        /\ q \in Nat /\ q # 0 /\ (q = x \/ q = x - 1) /\ q \in Site
    BY <1>3, <1>4 DEF Covers, IInv, TypeOK
  <2>2. p + 1 \notin Site /\ q + 1 \notin Site
    BY <2>1 DEF Spaced
  <2>3. p = q
    <3> HIDE DEF p, q
    <3> QED
      BY <1>2, <2>1, <2>2
  <2> QED
    BY <2>1, <2>3 DEF IInv, TableMatchesHost
<1>6. LastCovering(x) = {i \in Index : Covers(i, x)}
  <2>1. ASSUME NEW i \in Index, Covers(i, x), NEW j \in i + 1 .. MaxSwBreaks - 1
        PROVE  ~Covers(j, x)
    <3>1. j \in Index /\ j # i
      BY TableAssumption DEF Index
    <3> QED
      BY <1>5, <2>1, <3>1
  <2> QED
    BY <2>1 DEF LastCovering
<1>7. CASE LastCovering(x) = {}
  <2>1. x \notin inserted
    <3>1. SUFFICES ASSUME x \in inserted PROVE FALSE
      OBVIOUS
    <3>2. PICK i \in Index : software_breakpoints[i].addr = x
      BY <3>1 DEF IInv, TableMatchesHost
    <3>3. Covers(i, x)
      BY <1>2, <3>2 DEF Covers
    <3> QED
      BY <1>6, <1>7, <3>3
  <2> QED
    BY <1>7, <2>1 DEF Restored, IInv, BreakpointsInPlace, Overlay
<1>8. CASE LastCovering(x) # {}
  <2> DEFINE i == CHOOSE k \in LastCovering(x) : TRUE
             b == software_breakpoints[i]
  <2>1. i \in Index /\ Covers(i, x)
    BY <1>6, <1>8
  <2>2. b.addr # 0 /\ b.addr \in {x, x - 1} /\ b.addr \in Nat
    BY <1>3, <2>1 DEF Covers
  <2>3. b.lo = b.addr /\ b.hi = b.addr + 1
    BY <2>1, <2>2 DEF IInv, SavedWordsTrue
  <2>4. Restored[x] = IF b.addr = x THEN b.lo ELSE b.hi
    BY <1>8 DEF Restored
  <2> HIDE DEF b
  <2> QED
    BY <1>2, <2>2, <2>3, <2>4
<1> QED
  BY <1>7, <1>8

\* Detach keeps the invariant.
LEMMA DetachIInv ==
  ASSUME Spaced, IInv, Detach
  PROVE  IInv'
<1>1. mem' = Text /\ inserted' = {} /\ last' = <<"none", 0>>
  BY RestoredText DEF Detach
<1>2. software_breakpoints' = [i \in Index |-> NullBreak]
  BY DEF Detach
<1>3. TypeOK'
  BY <1>1, <1>2, AddressAssumption DEF TypeOK, NullBreak, Text, Insn
<1>4. BreakpointsInPlace'
  BY <1>1 DEF BreakpointsInPlace, Overlay, Text
<1>5. TableMatchesHost'
  BY <1>1, <1>2 DEF TableMatchesHost, NullBreak
<1>6. SavedWordsTrue'
  BY <1>2 DEF SavedWordsTrue, NullBreak
<1> QED
  BY <1>3, <1>4, <1>5, <1>6 DEF IInv

LEMMA NextIInv ==
  ASSUME Spaced, ~MayResend, IInv, [Next]_vars
  PROVE  IInv'
<1>1. CASE UNCHANGED vars
  BY <1>1 DEF vars, IInv, TypeOK, BreakpointsInPlace, TableMatchesHost,
              SavedWordsTrue, Overlay
<1>2. ASSUME NEW a \in Site, SetSoftwareBreakpoint(a) PROVE IInv'
  BY <1>2, SetIInv
<1>3. ASSUME NEW a \in Site, UnsetSoftwareBreakpoint(a) PROVE IInv'
  BY <1>3, UnsetIInv
<1>4. CASE Detach
  BY <1>4, DetachIInv
<1> QED
  BY <1>1, <1>2, <1>3, <1>4 DEF Next

\* Types need neither spaced breakpoints nor a host that repeats nothing: a word
\* written back one instruction too far, or saved over a BRK, is still a word.
LEMMA NextTypeOK ==
  ASSUME TypeOK, [Next]_vars
  PROVE  TypeOK'
<1> USE DEF TypeOK
<1>1. CASE UNCHANGED vars
  BY <1>1 DEF vars
<1>2. \A lo, hi \in Insn : \A a : WithWord(mem, a, lo, hi) \in [Mapped -> Insn]
  BY DEF WithWord
<1>3. Brk \in Insn
  BY DEF Insn
<1>4. ASSUME NEW a \in Site, SetSoftwareBreakpoint(a) PROVE TypeOK'
  <2>1. inserted' \subseteq Site /\ last' \in {"Z0", "z0"} \X Site
    BY <1>4 DEF SetSoftwareBreakpoint, Sent
  <2>2. CASE ~Accessible(a)
    BY <1>4, <2>1, <2>2 DEF SetSoftwareBreakpoint
  <2>3. CASE Accessible(a)
    <3>1. a \in Nat /\ mem[a] \in Insn /\ mem[a + 1] \in Insn
      BY <2>3, AddressAssumption DEF Accessible
    <3>2. Saved(a) \in [addr : Nat, lo : Insn, hi : Insn]
      BY <3>1 DEF Saved
    <3>3. \A i \in FirstWith(0) : i \in Index
      BY DEF FirstWith
    <3>4. software_breakpoints' \in [Index -> [addr : Nat, lo : Insn, hi : Insn]]
      BY <1>4, <2>3, <3>2, <3>3 DEF SetSoftwareBreakpoint
    <3>5. WithWord(mem, a, Brk, mem[a + 1]) \in [Mapped -> Insn]
      BY <1>2, <1>3, <3>1
    <3>6. Refused(a) \in [Mapped -> Insn]
      <4> DEFINE m == WithWord(mem, a, Brk, mem[a + 1])
      <4>1. m \in [Mapped -> Insn]
        BY <3>5
      <4> HIDE DEF m
      <4>2. WithWord(m, a, mem[a], mem[a + 1]) \in [Mapped -> Insn]
        BY <3>1, <4>1 DEF WithWord
      <4> QED
        BY <4>2 DEF Refused, m
    <3> QED
      BY <1>4, <2>1, <2>3, <3>4, <3>5, <3>6 DEF SetSoftwareBreakpoint
  <2> QED
    BY <2>2, <2>3
<1>5. ASSUME NEW a \in Site, UnsetSoftwareBreakpoint(a) PROVE TypeOK'
  <2>1. inserted' \subseteq Site /\ last' \in {"Z0", "z0"} \X Site
    BY <1>5 DEF UnsetSoftwareBreakpoint, Sent
  <2>2. CASE FirstWith(a) = {}
    BY <1>5, <2>1, <2>2 DEF UnsetSoftwareBreakpoint
  <2>3. ASSUME NEW i \in FirstWith(a),
               mem' = WithWord(mem, a, software_breakpoints[i].lo,
                               software_breakpoints[i].hi),
               software_breakpoints' = Freed(i)
        PROVE  TypeOK'
    <3>1. i \in Index /\ software_breakpoints[i].lo \in Insn
          /\ software_breakpoints[i].hi \in Insn
      BY DEF FirstWith
    <3>2. mem' \in [Mapped -> Insn]
      BY <1>2, <2>3, <3>1
    <3>3. software_breakpoints' \in [Index -> [addr : Nat, lo : Insn, hi : Insn]]
      BY <2>3, <3>1 DEF Freed
    <3> QED
      BY <2>1, <3>2, <3>3
  <2> QED
    BY <1>5, <2>2, <2>3 DEF UnsetSoftwareBreakpoint
<1>6. CASE Detach
  <2>1. \A x \in Mapped : LastCovering(x) # {} =>
          (CHOOSE i \in LastCovering(x) : TRUE) \in Index
    BY DEF LastCovering
  <2>2. Restored \in [Mapped -> Insn]
    BY <2>1 DEF Restored
  <2>3. NullBreak \in [addr : Nat, lo : Insn, hi : Insn]
    BY DEF NullBreak, Insn
  <2> QED
    BY <1>6, <2>2, <2>3 DEF Detach
<1> QED
  BY <1>1, <1>4, <1>5, <1>6 DEF Next

\* Every variable has its type, whatever addresses GDB uses and however often it
\* sends a packet again.
THEOREM TypeCorrect == Spec => []TypeOK
<1>1. Init => TypeOK
  BY InitIInv DEF IInv
<1> QED
  BY <1>1, NextTypeOK, PTL DEF Spec

\* With breakpoints that share no word and packets that are not repeated, the
\* invariant of set_software_breakpoint, unset_software_breakpoint and detach.
THEOREM Invariance ==
  ASSUME Spaced, ~MayResend
  PROVE  Spec => []IInv
  BY InitIInv, NextIInv, PTL DEF Spec

\* The text has a BRK exactly where GDB was told a breakpoint is.
THEOREM BreakpointsExact ==
  ASSUME Spaced, ~MayResend
  PROVE  Spec => []BreakpointsInPlace
<1>1. IInv => BreakpointsInPlace
  BY DEF IInv
<1> QED
  BY <1>1, Invariance, PTL

\* The table of software breakpoints holds the breakpoints GDB was told of,
\* each in one slot.
THEOREM TableExact ==
  ASSUME Spaced, ~MayResend
  PROVE  Spec => []TableMatchesHost
<1>1. IInv => TableMatchesHost
  BY DEF IInv
<1> QED
  BY <1>1, Invariance, PTL

\* What unset_software_breakpoint and detach write back is the text that
\* set_software_breakpoint found, whatever was inserted and removed since.
THEOREM SavedWordsAlwaysTrue ==
  ASSUME Spaced, ~MayResend
  PROVE  Spec => []SavedWordsTrue
<1>1. IInv => SavedWordsTrue
  BY DEF IInv
<1> QED
  BY <1>1, Invariance, PTL

\* Software breakpoints implement the abstract set of breakpoints: each packet
\* inserts, removes or clears, or is refused and changes nothing.
THEOREM Refinement ==
  ASSUME Spaced, ~MayResend
  PROVE  Spec => ImplementsSet
<1>1. Init => Abstract!Init
  BY DEF Init, Text, Abstract!Init, Abstract!Text
<1>2. IInv /\ IInv' /\ [Next]_vars => [Abstract!Next]_<<inserted, mem>>
  <2> SUFFICES ASSUME IInv, IInv', [Next]_vars
               PROVE  [Abstract!Next]_<<inserted, mem>>
    OBVIOUS
  <2>1. mem' = Abstract!Overlay(inserted')
    BY DEF IInv, BreakpointsInPlace, Overlay, Abstract!Overlay
  <2>2. ASSUME NEW a \in Site, SetSoftwareBreakpoint(a)
        PROVE  [Abstract!Next]_<<inserted, mem>>
    <3>1. inserted' = inserted \cup {a} \/ inserted' = inserted
      BY <2>2 DEF SetSoftwareBreakpoint
    <3>2. CASE inserted' = inserted
      BY <3>2 DEF IInv, BreakpointsInPlace, Overlay
    <3> QED
      BY <2>1, <3>1, <3>2 DEF Abstract!Next, Abstract!Insert
  <2>3. ASSUME NEW a \in Site, UnsetSoftwareBreakpoint(a)
        PROVE  Abstract!Next
    BY <2>1, <2>3 DEF UnsetSoftwareBreakpoint, Abstract!Next, Abstract!Remove
  <2>4. CASE Detach
    BY <2>4, RestoredText DEF Detach, Abstract!Next, Abstract!Clear, Text, Abstract!Text
  <2>5. CASE UNCHANGED vars
    BY <2>5 DEF vars
  <2> QED
    BY <2>2, <2>3, <2>4, <2>5 DEF Next
<1> QED
  BY <1>1, <1>2, Invariance, PTL DEF Spec, ImplementsSet, Abstract!Spec
=============================================================================
