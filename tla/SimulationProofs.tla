--------------------------- MODULE SimulationProofs ---------------------------
(***************************************************************************)
(* Proofs that translated data instructions do what the guest's do, form   *)
(* by form and then for whole programs, for every width of a byte, every   *)
(* set of guest registers and every start state.                           *)
(***************************************************************************)
EXTENDS InstructionsProofs

------------------------------------------------------------------------------
(* The two processors of a world                                            *)
------------------------------------------------------------------------------

(* The two processors of a world agree. *)
Same(a, s) == \A r \in Guests : Full(s, translate_reg(r)) = a.reg[r]
Sim(a, s)  == Active(s, Cells) /\ a \in ArmState /\ ~a.taken /\ Same(a, s) /\ s.mem = a.mem

LEMMA SimFacts ==
    ASSUME NEW a, NEW s, Sim(a, s)
    PROVE  Awake(s, Cells) /\ s \in State(Cells) /\ a \in ArmState /\ s.stack = <<>>
  BY DEF Sim, Active, Rest, Awake

LEMMA DirectInjective == \A q, r \in DOMAIN Direct : Direct[q] = Direct[r] => q = r
  BY DEF Direct

LEMMA DirectNames == \A r \in DOMAIN Direct : Direct[r] # "rax" /\ Direct[r] \in Names
  BY DEF Direct, Names

(* The homes of different registers are different places, and none is rax. *)
LEMMA HomesDiffer ==
    /\ \A q, r : translate_reg(q) = translate_reg(r) => q = r
    /\ \A r : translate_reg(r) # RAX
  <1>1. "xzr" \notin DOMAIN Direct
    BY DEF Direct
  <1>2. \A r : \/ r \in DOMAIN Direct /\ translate_reg(r) = R(Direct[r])
               \/ r = "xzr" /\ translate_reg(r) = Zero
               \/ r \notin DOMAIN Direct /\ r # "xzr" /\ translate_reg(r) = Cell(r)
    BY DEF translate_reg, Zero
  <1>3. \A m, n : R(m) # Zero /\ Cell(m) # Zero /\ R(m) # Cell(n) /\ (R(m) = R(n) => m = n) /\ (Cell(m) = Cell(n) => m = n)
    BY OperandKinds DEF Zero
  <1> QED
    BY <1>1, <1>2, <1>3, DirectInjective, DirectNames DEF RAX

(* Where a register lives. *)
LEMMA HomeKinds ==
    ASSUME NEW r \in Gprs \cup Addresses
    PROVE  /\ HasCell(r) <=> translate_reg(r).k = "cell"
           /\ r \in DOMAIN Direct <=> translate_reg(r).k = "reg"
           /\ r # "xzr" => IsPlace(translate_reg(r), Cells)
           /\ is_indirect(translate_reg(r)) <=> r \notin DOMAIN Direct
  <1>1. "xzr" \notin DOMAIN Direct
    BY DEF Direct
  <1>2. \/ r \in DOMAIN Direct /\ translate_reg(r) = R(Direct[r])
        \/ r = "xzr" /\ translate_reg(r) = Zero
        \/ r \notin DOMAIN Direct /\ r # "xzr" /\ translate_reg(r) = Cell(r)
    BY DEF translate_reg, Zero
  <1>3. IsHome(translate_reg(r), Cells) /\ (translate_reg(r) = Zero <=> r = "xzr")
    BY HomeOf
  <1>4. \A n : R(n).k = "reg" /\ Cell(n).k = "cell" /\ Zero.k = "zero"
    BY OperandKinds DEF Zero
  <1> QED
    BY <1>1, <1>2, <1>3, <1>4 DEF IsHome, HasCell, is_indirect

LEMMA ReadVal ==
    ASSUME NEW a, NEW s, Sim(a, s), NEW c \in Bytewide, NEW r \in Gprs \cup Addresses
    PROVE  /\ Val(s, c, translate_reg(r)) = Read(a, c, r)
           /\ r # "xzr" => Get(s, c, translate_reg(r)) = Read(a, c, r)
           /\ Read(a, c, r) \in Words(c) /\ Read(a, c, r) \in Nat /\ Low(c, Read(a, c, r)) = Read(a, c, r)
  <1>1. IsHome(translate_reg(r), Cells) /\ (translate_reg(r) = Zero <=> r = "xzr")
    BY HomeOf
  <1>2. ASSUME r # "xzr" PROVE Get(s, c, translate_reg(r)) = Read(a, c, r)
    <2>1. IsPlace(translate_reg(r), Cells) /\ r \in Guests
      BY <1>2, HomeKinds, GuestNames
    <2>2. Get(s, c, translate_reg(r)) = Low(c, Full(s, translate_reg(r)))
      BY <2>1, SimFacts, FullType
    <2> QED
      BY <1>2, <2>1, <2>2 DEF Sim, Same, Read
  <1>3. Val(s, c, translate_reg(r)) = Read(a, c, r)
    BY <1>1, <1>2 DEF Val, Read
  <1>4. Read(a, c, r) \in Words(c) /\ Read(a, c, r) \in Nat
    BY SimFacts, ReadType
  <1> QED
    BY <1>2, <1>3, <1>4, LowId

(* b is a with the c low bits of v in r. *)
WritesTo(a, b, c, r, v) == b.reg = Write(a, c, r, v).reg /\ b.mem = a.mem /\ b.taken = a.taken
Agree(b, t) == Same(b, t) /\ t.mem = b.mem /\ t.taken = b.taken

LEMMA WriteAgrees ==
    ASSUME NEW a, NEW s, Sim(a, s), NEW t, NEW r \in Gprs \cup Addresses, NEW c \in Bytewide, NEW d \in Bytewide, NEW v \in Int, NEW w \in Int,
           Wrote(s, t, translate_reg(r), d, w, Cells), r # "xzr" => New(s, d, translate_reg(r), w) = Low(c, v),
           NEW b, WritesTo(a, b, c, r, v)
    PROVE  Agree(b, t)
  <1>1. a \in ArmState /\ s \in State(Cells) /\ a.taken = FALSE /\ s.taken = FALSE
    <2>1. a.taken \in BOOLEAN /\ s.taken \in BOOLEAN
      BY SimFacts DEF ArmState, State
    <2> QED
      BY <2>1, SimFacts DEF Sim, Active
  <1>2. \A q \in Guests : b.reg[q] = IF q = r THEN Low(c, v) ELSE a.reg[q]
    BY <1>1, WriteType DEF WritesTo
  <1>3. t.mem = b.mem /\ t.taken = b.taken
    BY <1>1 DEF WritesTo, Wrote, Sim, Control
  <1>4. ASSUME NEW q \in Guests PROVE Full(t, translate_reg(q)) = b.reg[q]
    <2>1. CASE q = r
      <3>1. r # "xzr" /\ translate_reg(r) # Zero
        BY <2>1, HomeOf, GuestAssumption
      <3> QED
        BY <1>2, <2>1, <3>1 DEF Wrote
    <2>2. CASE q # r
      <3>1. translate_reg(q) # translate_reg(r) /\ translate_reg(q) # RAX /\ q \in Gprs \cup Addresses /\ q # "xzr"
        BY <2>2, HomesDiffer, GuestAssumption DEF Gprs, Addresses
      <3>2. IsPlace(translate_reg(q), Cells)
        BY <3>1, HomeKinds
      <3>3. Full(t, translate_reg(q)) = Full(s, translate_reg(q))
        BY <3>1, <3>2 DEF Wrote, Kept
      <3> QED
        BY <1>2, <2>2, <3>3 DEF Sim, Same
    <2> QED
      BY <2>1, <2>2
  <1> QED
    BY <1>3, <1>4 DEF Agree, Same

(* What a write leaves in a home of its width. *)
LEMMA NewHome ==
    ASSUME NEW s \in State(Cells), NEW r \in Gprs \cup Addresses, r # "xzr", NEW c \in Widths, NEW w \in Int, ~(HasCell(r) /\ c = "w")
    PROVE  New(s, c, translate_reg(r), w) = Low(c, w)
  <1> DEFINE o == translate_reg(r)
  <1>1. IsPlace(o, Cells) /\ (HasCell(r) <=> o.k = "cell")
    BY HomeKinds
  <1>2. CASE o.k = "reg"
    BY <1>2 DEF New
  <1>3. CASE o.k = "cell" /\ c = "x"
    <2>1. New(s, c, o, w) = Insert("x", Full(s, o), w)
      BY <1>3 DEF New
    <2>2. PICK old \in Words("x") : old = Full(s, o)
      BY <1>1, FullType
    <2>3. Low("x", old) = old /\ old \in Int /\ Low("x", w) \in Int
      BY LowId, LowType, WordFacts, WidthsAre
    <2> QED
      BY <1>3, <2>1, <2>2, <2>3 DEF Insert
  <1> QED
    BY <1>1, <1>2, <1>3, PlaceKinds DEF Widths

(* How the flags develop in one instruction, from a and s to b and t. *)
Follow(i, a, s, b, t) ==
    IF i.op \in FlagSetters \/ ClobbersFlags(i)
      THEN \E kind \in KindsAfter(i) : Stand(kind, b.flags, t.flags)
      ELSE b.flags = a.flags /\ t.flags = s.flags

(* An instruction's translation does what the instruction does. *)
Does(i, a, s, b, t) == t.fault \/ (Agree(b, t) /\ (t.taken \/ Follow(i, a, s, b, t)))
Done(i, a, s)       == Does(i, a, s, ArmStep(a, i), Run(s, Compile(i)))

LEMMA LostFollows ==
    ASSUME NEW i, WrongFlags(i), i.op \in FlagSetters \/ ClobbersFlags(i), NEW a, NEW s, NEW b, NEW t
    PROVE  Follow(i, a, s, b, t)
  <1>1. KindsAfter(i) = {"lost"}
    BY DEF KindsAfter
  <1>2. Stand("lost", b.flags, t.flags)
    BY DEF Stand
  <1> QED
    BY <1>1, <1>2 DEF Follow

LEMMA KeptFollows ==
    ASSUME NEW i, i.op \notin FlagSetters, NEW a, NEW s, NEW b, NEW t, b.flags = a.flags, ClobbersFlags(i) \/ t.flags = s.flags
    PROVE  Follow(i, a, s, b, t)
  <1>1. CASE ClobbersFlags(i)
    BY <1>1, LostFollows DEF WrongFlags
  <1>2. CASE ~ClobbersFlags(i)
    BY <1>2 DEF Follow
  <1> QED
    BY <1>1, <1>2

(* Instructions that write one register. *)
ValueOps == {"ADD", "SUB", "AND", "ORR", "EOR", "BIC", "LSL", "LSR", "ASR", "MOV", "ADRP", "MOVK",
             "SXTB", "SXTH", "SXTW", "UXTB", "UXTH", "UDIV", "SDIV", "MADD", "UBFIZ", "CSEL"}

LEMMA ValueStep ==
    \A i, a : i.op \in ValueOps \cup {"CSET"} => ArmStep(a, i) = Write(a, i.c, i.d, Result(a, i)) /\ i.op \notin FlagSetters
                                    /\ Destinations(i) = {i.d} /\ i.op \notin MemoryOps /\ i.op \notin Branches
  BY DEF ValueOps, ArmStep, FlagSetters, Destinations, MemoryOps, Loads, Stores, Branches

LEMMA ValueDone ==
    ASSUME NEW i, i.op \in ValueOps, IsValued(i), i.c \in Widths, ~StaleUpperHalf(i), NEW a, NEW s, Sim(a, s),
           NEW w \in Int, Low(i.c, w) = Low(i.c, Result(a, i)), NEW f, ClobbersFlags(i) \/ f = s.flags,
           Puts(s, Compile(i), translate_reg(i.d), i.c, w, f, Cells)
    PROVE  Done(i, a, s)
  <1>1. PICK c \in Widths, v \in Int, r \in Gprs \cup Addresses : c = i.c /\ v = Result(a, i) /\ r = i.d
    BY ResultType, SimFacts DEF IsValued
  <1>2. ArmStep(a, i) = Write(a, c, r, v) /\ i.op \notin FlagSetters /\ Destinations(i) = {r}
    BY <1>1, ValueStep
  <1>3. PICK b, t : b = ArmStep(a, i) /\ t = Run(s, Compile(i))
    OBVIOUS
  <1>4. ~(HasCell(r) /\ c = "w")
    BY <1>1, <1>2 DEF StaleUpperHalf
  <1>5. r # "xzr" => New(s, c, translate_reg(r), w) = Low(c, v)
    BY <1>1, <1>4, NewHome, SimFacts
  <1>6. b.flags = a.flags /\ WritesTo(a, b, c, r, v)
    <2>1. c \in Bytewide /\ a \in ArmState
      BY WidthFacts, SimFacts
    <2> QED
      BY <1>2, <1>3, <2>1, WriteType DEF WritesTo
  <1>7. Wrote(s, t, translate_reg(r), c, w, Cells) /\ t.flags = f
    BY <1>1, <1>3 DEF Puts
  <1>8. Agree(b, t)
    <2>1. c \in Bytewide
      BY WidthFacts
    <2> QED
      BY <1>5, <1>6, <1>7, <2>1, WriteAgrees
  <1>9. Follow(i, a, s, b, t)
    BY <1>2, <1>6, <1>7, KeptFollows
  <1> QED
    BY <1>3, <1>8, <1>9 DEF Done, Does

(* Flags of comparisons. *)
KindOf(op)           == IF op \in Adding THEN "sum" ELSE "borrow"
RightFlags(op, c, x, y) == IF op \in Adding THEN AddFlags(c, x, y) ELSE SubFlags(c, x, y)
Comparing == {"ADDS", "SUBS", "CMP", "CMN"}

LEMMA BorrowInverts ==
    ASSUME NEW c \in Bytewide, NEW x \in Int, NEW y \in Int
    PROVE  SubFlags(c, x, y) = [ArmSubFlags(c, x, y) EXCEPT !.c = 1 - @]
  <1>1. PICK f : f = SubFlags(c, x, y)
    OBVIOUS
  <1>2. f \in ArmFlags
    BY <1>1, FlagsArm
  <1>3. ArmSubFlags(c, x, y) = [f EXCEPT !.c = 1 - @]
    BY <1>1 DEF ArmSubFlags
  <1>4. PICK g : g = [f EXCEPT !.c = 1 - @]
    OBVIOUS
  <1>5. PICK h : h = [g EXCEPT !.c = 1 - @]
    OBVIOUS
  <1>6. h = f
    <2>1. f = [n |-> f.n, z |-> f.z, c |-> f.c, v |-> f.v] /\ f.c \in {0, 1}
      BY <1>2 DEF ArmFlags
    <2>2. g = [n |-> f.n, z |-> f.z, c |-> 1 - f.c, v |-> f.v]
      BY <1>4, <2>1
    <2>3. h = [n |-> f.n, z |-> f.z, c |-> 1 - (1 - f.c), v |-> f.v]
      BY <1>5, <2>2
    <2> QED
      BY <2>1, <2>3
  <1> QED
    BY <1>1, <1>3, <1>4, <1>5, <1>6

LEMMA CompareFollows ==
    ASSUME NEW i, i.op \in Comparing, i.c \in Bytewide, NEW a, NEW s, NEW b, NEW t,
           Read(a, i.c, i.n) \in Int, Second(a, i.c, i.m) \in Int,
           b.flags = Compare(a, i, i.op), t.flags = RightFlags(i.op, i.c, Read(a, i.c, i.n), Second(a, i.c, i.m))
    PROVE  Follow(i, a, s, b, t)
  <1>1. i.op \in FlagSetters
    BY DEF Comparing, FlagSetters
  <1>2. CASE WrongFlags(i)
    BY <1>1, <1>2, LostFollows
  <1>3. CASE ~WrongFlags(i)
    <2>1. KindOf(i.op) \in KindsAfter(i)
      BY <1>3 DEF KindsAfter, KindOf, Comparing, Adding
    <2>2. Stand(KindOf(i.op), b.flags, t.flags)
      <3>1. CASE i.op \in Adding
        BY <3>1 DEF KindOf, Stand, Compare, RightFlags
      <3>2. CASE i.op \notin Adding
        <4>1. b.flags = ArmSubFlags(i.c, Read(a, i.c, i.n), Second(a, i.c, i.m))
          BY <3>2 DEF Compare
        <4>2. t.flags = SubFlags(i.c, Read(a, i.c, i.n), Second(a, i.c, i.m))
          BY <3>2 DEF RightFlags
        <4>3. t.flags = [b.flags EXCEPT !.c = 1 - @]
          BY <4>1, <4>2, BorrowInverts
        <4> QED
          BY <3>2, <4>3 DEF KindOf, Stand
      <3> QED
        BY <3>1, <3>2
    <2> QED
      BY <1>1, <2>1, <2>2 DEF Follow
  <1> QED
    BY <1>2, <1>3

LEMMA SetterDone ==
    ASSUME NEW i, i.op \in {"ADDS", "SUBS"}, IsValued(i), i.c \in Widths, ~StaleUpperHalf(i), NEW a, NEW s, Sim(a, s),
           NEW w \in Int, Low(i.c, w) = Low(i.c, Result(a, i)),
           Puts(s, Compile(i), translate_reg(i.d), i.c, w, RightFlags(i.op, i.c, Read(a, i.c, i.n), Second(a, i.c, i.m)), Cells)
    PROVE  Done(i, a, s)
  <1>1. PICK c \in Widths, v \in Int, r \in Gprs \cup Addresses : c = i.c /\ v = Result(a, i) /\ r = i.d
    BY ResultType, SimFacts DEF IsValued
  <1>2. Destinations(i) = {r} /\ ArmStep(a, i) = [Write(a, c, r, v) EXCEPT !.flags = Compare(a, i, i.op)] /\ c \in Bytewide
    BY <1>1, WidthFacts DEF Destinations, Stores, Branches, ArmStep, MemoryOps, Loads
  <1>3. PICK b, t : b = ArmStep(a, i) /\ t = Run(s, Compile(i))
    OBVIOUS
  <1>4. ~(HasCell(r) /\ c = "w")
    BY <1>1, <1>2 DEF StaleUpperHalf
  <1>5. r # "xzr" => New(s, c, translate_reg(r), w) = Low(c, v)
    BY <1>1, <1>4, NewHome, SimFacts
  <1>6. b.flags = Compare(a, i, i.op) /\ WritesTo(a, b, c, r, v)
    <2>1. PICK u : u = Write(a, c, r, v)
      OBVIOUS
    <2>2. u \in ArmState /\ u.mem = a.mem /\ u.taken = a.taken
      BY <1>2, <2>1, WriteType, SimFacts
    <2>3. b = [u EXCEPT !.flags = Compare(a, i, i.op)]
      BY <1>2, <1>3, <2>1
    <2>4. b.flags = Compare(a, i, i.op) /\ b.reg = u.reg /\ b.mem = u.mem /\ b.taken = u.taken
      BY <2>2, <2>3 DEF ArmState
    <2> QED
      BY <2>1, <2>2, <2>4 DEF WritesTo
  <1>7. Wrote(s, t, translate_reg(r), c, w, Cells) /\ t.flags = RightFlags(i.op, i.c, Read(a, i.c, i.n), Second(a, i.c, i.m))
    BY <1>1, <1>3 DEF Puts
  <1>8. Agree(b, t)
    BY <1>2, <1>5, <1>6, <1>7, WriteAgrees
  <1>9. Follow(i, a, s, b, t)
    <2>1. Read(a, i.c, i.n) \in Int /\ Second(a, i.c, i.m) \in Int
      <3>1. Read(a, c, i.n) \in Nat /\ Second(a, c, i.m) \in Nat
        BY <1>2, ReadType, SecondType, SimFacts DEF IsValued
      <3> QED
        BY <1>1, <3>1
    <2> QED
      BY <1>1, <1>2, <1>6, <1>7, <2>1, CompareFollows DEF Comparing
  <1> QED
    BY <1>3, <1>8, <1>9 DEF Done, Does

------------------------------------------------------------------------------
(* Arithmetic and logic, moves and shifts                                   *)
------------------------------------------------------------------------------

LEMMA SecondIs ==
    ASSUME NEW a \in ArmState, NEW c \in Bytewide, NEW m
    PROVE  /\ m.k = "reg" /\ m.r \in Gprs \cup Addresses => Second(a, c, m) = Read(a, c, m.r)
           /\ m.k = "imm" /\ m.v \in Int /\ m.lsl = 0 => Second(a, c, m) = Low(c, m.v)
  <1>1. ASSUME m.k = "reg", m.r \in Gprs \cup Addresses PROVE Second(a, c, m) = Read(a, c, m.r)
    <2>1. Second(a, c, m) = Low(c, Read(a, c, m.r))
      BY <1>1 DEF Second
    <2>2. Read(a, c, m.r) \in Words(c)
      BY <1>1, ReadType
    <2> QED
      BY <2>1, <2>2, LowId
  <1>2. ASSUME m.k = "imm", m.v \in Int, m.lsl = 0 PROVE Second(a, c, m) = Low(c, m.v)
    <2>1. Second(a, c, m) = Low(c, m.v * Pow2(0))
      BY <1>2 DEF Second
    <2>2. m.v * Pow2(0) = m.v
      BY <1>2, PowerSteps
    <2> QED
      BY <2>1, <2>2
  <1> QED
    BY <1>1, <1>2

(* Three registers through make_rrr. *)
LEMMA RegistersPut ==
    ASSUME NEW a, NEW s, Sim(a, s), NEW op \in AluOps, NEW c \in Widths, NEW d \in Gprs, NEW n \in Gprs, NEW m \in Gprs,
           n # "xzr", m # "xzr", ~(d \in DOMAIN Direct /\ d = m /\ d # n)
    PROVE  Puts(s, make_rrr(op, c, translate_reg(d), translate_reg(n), translate_reg(m)), translate_reg(d), c,
                Alu(op, Read(a, c, n), Read(a, c, m)), AluFlags(op, c, Read(a, c, n), Read(a, c, m)), Cells)
  <1> DEFINE dest == translate_reg(d)
             src1 == translate_reg(n)
             src2 == translate_reg(m)
  <1>1. IsHome(dest, Cells) /\ IsPlace(src1, Cells) /\ IsPlace(src2, Cells) /\ src2 # RAX /\ Awake(s, Cells) /\ c \in Bytewide
    BY HomeOf, HomeKinds, HomesDiffer, SimFacts, WidthFacts
  <1>2. src2 # dest \/ src1 = dest \/ dest.k # "reg"
    BY HomesDiffer, HomeKinds
  <1>3. Get(s, c, src1) = Read(a, c, n) /\ Get(s, c, src2) = Read(a, c, m)
    BY <1>1, ReadVal
  <1> HIDE DEF dest, src1, src2
  <1>4. Puts(s, make_rrr(op, c, dest, src1, src2), dest, c, Alu(op, Get(s, c, src1), Get(s, c, src2)),
                AluFlags(op, c, Get(s, c, src1), Get(s, c, src2)), Cells)
    BY <1>1, <1>2, PutsRrr
  <1> QED
    BY <1>3, <1>4 DEF dest, src1, src2

Fine(i) == IsInstruction(i) /\ ~Stops(i) /\ ~Miscompiled(i)

LEMMA FineFacts ==
    ASSUME NEW i, Fine(i)
    PROVE  /\ i.m.k \in {"reg", "shift", "ext"} /\ i.m.r = "xzr" => "m" \notin XzrPanics(i)
           /\ "d" \in DOMAIN i /\ i.d = "xzr" => "d" \notin XzrPanics(i)
           /\ "n" \in DOMAIN i /\ i.n = "xzr" => "n" \notin XzrPanics(i)
           /\ ~StaleUpperHalf(i)
  BY XzrOperand DEF Fine, Stops, Miscompiled

LEMMA FineValued ==
    ASSUME NEW i, Fine(i), i.op \in ValueOps \cup {"ADDS", "SUBS", "CSET"}
    PROVE  IsValued(i) /\ IsCompared(i)
  <1>1. i.op \notin MemoryOps \cup {"CMP", "CMN", "CCMP"} \cup Branches
    BY DEF ValueOps, MemoryOps, Loads, Stores, Branches
  <1> QED
    BY <1>1, Classes DEF Fine, IsBranch

(* What is left to show of an instruction that writes one register. *)
ValuePut(i, a, s, w, f) ==
    /\ i.c \in Widths /\ w \in Int /\ Low(i.c, w) = Low(i.c, Result(a, i))
    /\ Puts(s, Compile(i), translate_reg(i.d), i.c, w, f, Cells)

LEMMA FineValue ==
    \A i, a, s, w, f : ValuePut(i, a, s, w, f) /\ Fine(i) /\ i.op \in ValueOps /\ Sim(a, s) /\ (ClobbersFlags(i) \/ f = s.flags) => Done(i, a, s)
  <1> SUFFICES ASSUME NEW i, NEW a, NEW s, NEW w, NEW f, ValuePut(i, a, s, w, f), Fine(i), i.op \in ValueOps, Sim(a, s),
                      ClobbersFlags(i) \/ f = s.flags
               PROVE  Done(i, a, s)
    OBVIOUS
  <1>1. IsValued(i) /\ ~StaleUpperHalf(i)
    BY FineValued, FineFacts
  <1> QED
    BY <1>1, ValueDone DEF ValuePut

LEMMA FineSetter ==
    \A i, a, s, w, f : ValuePut(i, a, s, w, f) /\ Fine(i) /\ i.op \in {"ADDS", "SUBS"} /\ Sim(a, s)
                      /\ f = RightFlags(i.op, i.c, Read(a, i.c, i.n), Second(a, i.c, i.m)) => Done(i, a, s)
  <1> SUFFICES ASSUME NEW i, NEW a, NEW s, NEW w, NEW f, ValuePut(i, a, s, w, f), Fine(i), i.op \in {"ADDS", "SUBS"}, Sim(a, s),
                      f = RightFlags(i.op, i.c, Read(a, i.c, i.n), Second(a, i.c, i.m))
               PROVE  Done(i, a, s)
    OBVIOUS
  <1>1. IsValued(i) /\ ~StaleUpperHalf(i)
    BY FineValued, FineFacts
  <1> QED
    BY <1>1, SetterDone DEF ValuePut

LEMMA AddSubRegisterDone ==
    ASSUME NEW i \in Operands3({"ADD", "ADDS", "SUB", "SUBS"}, Gprs, Gprs, Register), Fine(i), NEW a, NEW s, Sim(a, s)
    PROVE  Done(i, a, s)
  <1>1. PICK c \in Widths, d \in Gprs, n \in Gprs, m \in Gprs :
            c = i.c /\ d = i.d /\ n = i.n /\ m = i.m.r /\ i.m.k = "reg" /\ i.op \in {"ADD", "ADDS", "SUB", "SUBS"}
            /\ "d" \in DOMAIN i /\ "n" \in DOMAIN i
    BY DEF Operands3, Register
  <1>2. PICK op : op = IF i.op \in {"SUB", "SUBS"} THEN "sub" ELSE "add"
    OBVIOUS
  <1>3. PICK x \in Words(c), y \in Words(c) : x = Read(a, c, n) /\ y = Read(a, c, m)
    BY WidthFacts, ReadVal
  <1>4. x \in Int /\ y \in Int /\ c \in Bytewide /\ op \in AluOps /\ Awake(s, Cells) /\ a \in ArmState
    BY <1>2, WidthFacts, WordFacts, SimFacts DEF AluOps
  <1>5. Second(a, c, i.m) = y
    BY <1>1, <1>3, <1>4, SecondIs
  <1>6. Result(a, i) = Alu(op, x, y) /\ Alu(op, x, y) \in Int
    BY <1>1, <1>2, <1>3, <1>4, <1>5 DEF Result, Alu
  <1>7. PICK w \in Int : w = Result(a, i)
    BY <1>6
  <1>8. CASE i.op \in {"SUB", "SUBS", "ADDS"} \/ (is_indirect(translate_reg(n)) /\ is_indirect(translate_reg(m)))
    <2>1. n # "xzr" /\ m # "xzr"
      <3>1. XzrPanics(i) = {"n", "m"}
        <4>1. CASE i.op \in {"SUB", "SUBS", "ADDS"}
          BY <1>1, <4>1 DEF XzrPanics, Is
        <4>2. CASE i.op = "ADD"
          BY <1>1, <1>8, <4>2 DEF XzrPanics, Is
        <4> QED
          BY <1>1, <4>1, <4>2
      <3> QED
        BY <1>1, <3>1, FineFacts
    <2>2. ~(d \in DOMAIN Direct /\ d = m /\ d # n)
      <3>1. CASE i.op \in {"SUB", "SUBS", "ADDS"}
        BY <1>1, <3>1 DEF Fine, Miscompiled, OverwritesSecond, Is
      <3>2. CASE i.op = "ADD"
        BY <1>1, <1>8, <3>2, HomeKinds
      <3> QED
        BY <1>1, <3>1, <3>2
    <2>3. Compile(i) = make_rrr(op, c, translate_reg(d), translate_reg(n), translate_reg(m))
      BY <1>1, <1>2, <1>8 DEF Compile, MemoryOps, Loads, Stores, Branches, compile_arith, translate_add_sub
    <2>4. Puts(s, Compile(i), translate_reg(d), c, Alu(op, x, y), AluFlags(op, c, x, y), Cells)
      BY <1>3, <1>4, <2>1, <2>2, <2>3, RegistersPut
    <2>6. ValuePut(i, a, s, w, AluFlags(op, c, x, y))
      BY <1>1, <1>6, <1>7, <2>4 DEF ValuePut
    <2>5. CASE i.op \in {"ADDS", "SUBS"}
      <3>1. AluFlags(op, c, x, y) = RightFlags(i.op, c, x, y)
        BY <1>2, <2>5 DEF AluFlags, RightFlags, Adding
      <3> QED
        BY <1>1, <1>3, <1>5, <2>5, <2>6, <3>1, FineSetter
    <2>7. CASE i.op \in {"ADD", "SUB"}
      <3>1. ClobbersFlags(i)
        <4>1. CASE i.op = "SUB"
          BY <4>1 DEF ClobbersFlags
        <4>2. CASE i.op = "ADD"
          <5>1. HasCell(n) /\ HasCell(m)
            BY <1>8, <2>1, <4>2, HomeKinds, PlaceKinds DEF is_indirect
          <5> QED
            BY <1>1, <4>2, <5>1 DEF ClobbersFlags, Is
        <4> QED
          BY <2>7, <4>1, <4>2
      <3> QED
        BY <2>6, <2>7, <3>1, FineValue DEF ValueOps
    <2> QED
      BY <1>1, <2>5, <2>7
  <1>9. CASE i.op = "ADD" /\ ~(is_indirect(translate_reg(n)) /\ is_indirect(translate_reg(m)))
    <2> DEFINE t1 == translate_reg(n)
               t2 == translate_reg(m)
               p  == pre_read(t1, c) \o pre_read(t2, c)
    <2>1. /\ IsHome(t1, Cells) /\ t1 # RAX /\ IsHome(t2, Cells) /\ t2 # RAX /\ (t1.k = "reg" \/ t2.k = "reg")
          /\ IsHome(translate_reg(d), Cells)
      BY <1>9, HomeOf, HomesDiffer, HomeKinds
    <2>2. FetchesTwo(s, p, t1, t2, c, Cells)
      BY <1>4, <2>1, PreReadTwo
    <2>3. PICK f : /\ Puts(s, p, Zero, c, 0, f, Cells) /\ (t1 # Zero /\ t2 # Zero => f = s.flags)
                   /\ Get(Run(s, p), c, reg_operand(t1)) = Val(s, c, t1) /\ Get(Run(s, p), c, reg_operand(t2)) = Val(s, c, t2)
      BY <2>2 DEF FetchesTwo
    <2>4. Val(s, c, t1) = x /\ Val(s, c, t2) = y
      BY <1>3, <1>4, ReadVal
    <2>5. Compile(i) = (p \o <<I3("lea", c, reg_operand(translate_reg(d)), reg_operand(t1), reg_operand(t2))>>) \o post_write(translate_reg(d), c)
      BY <1>1, <1>2, <1>9 DEF Compile, MemoryOps, Loads, Stores, Branches, compile_arith, translate_add_sub
    <2>6. IsSource(reg_operand(t1), Cells) /\ IsSource(reg_operand(t2), Cells)
      BY <2>1, HomeOperand, TargetIsSource
    <2> HIDE DEF p, t1, t2
    <2>7. PICK g : Puts(s, Compile(i), translate_reg(d), c, Ternary("lea", c, x, y), g, Cells) /\ g = f
      <3>1. PICK g : /\ Puts(s, (p \o <<I3("lea", c, reg_operand(translate_reg(d)), reg_operand(t1), reg_operand(t2))>>) \o post_write(translate_reg(d), c),
                             translate_reg(d), c, Ternary("lea", c, Get(Run(s, p), c, reg_operand(t1)), Get(Run(s, p), c, reg_operand(t2))), g, Cells)
                     /\ "lea" \notin {"andn", "bzhi"} => g = f
        BY <1>4, <2>1, <2>3, <2>6, PutsCalc DEF IsThree
      <3> QED
        BY <2>3, <2>4, <2>5, <3>1
    <2>8. Ternary("lea", c, x, y) = Alu(op, x, y)
      BY <1>2, <1>9 DEF Ternary, Alu
    <2>9. ClobbersFlags(i) \/ g = s.flags
      <3>1. CASE n = "xzr" \/ m = "xzr"
        BY <1>1, <1>9, <3>1 DEF ClobbersFlags, Is
      <3>2. CASE n # "xzr" /\ m # "xzr"
        BY <2>3, <2>7, <3>2, HomeOf DEF t1, t2
      <3> QED
        BY <3>1, <3>2
    <2>10. ValuePut(i, a, s, w, g)
      BY <1>1, <1>6, <1>7, <2>7, <2>8 DEF ValuePut
    <2> QED
      BY <1>9, <2>9, <2>10, FineValue DEF ValueOps
  <1> QED
    BY <1>1, <1>8, <1>9

(* An extended or shifted operand is what load_shifted computes. *)
Lefts == {"LSL"} \cup Extensions

LEMMA LeftsAre == Lefts = {"LSL", "UXTB", "SXTB", "UXTH", "SXTH", "UXTW", "SXTW", "UXTX", "SXTX"}
  BY DEF Lefts, Extensions, Narrow

LEMMA ExtendedLeft ==
    ASSUME NEW a, NEW s, Sim(a, s), NEW c \in Bytewide, NEW r \in Gprs, r # "xzr", NEW m, m.by \in Lefts
    PROVE  \E w \in Int : Extended(a, c, r, m.by, m.n) = w * Pow2(m.n) /\ Low(c, w) = Low(c, Widened(s, translate_reg(r), c, m))
  <1>1. \A w \in Bytewide : Get(s, w, translate_reg(r)) = Read(a, w, r) /\ Read(a, w, r) \in Int
    BY ReadVal
  <1>2. \A w \in Bytewide : \A v \in Int : Signed(w, v) \in Int /\ Low(w, Signed(w, v)) = Low(w, v)
    BY SignedFacts
  <1>3. CASE m.by \in {"LSL", "UXTX", "SXTX"}
    <2>1. Extended(a, c, r, m.by, m.n) = Read(a, c, r) * Pow2(m.n)
      BY <1>3 DEF Extended
    <2>2. Widened(s, translate_reg(r), c, m) \in {Read(a, c, r), Signed(c, Read(a, c, r))}
      BY <1>1, <1>3 DEF Widened, Narrow, SignKind
    <2> QED
      BY <1>1, <1>2, <2>1, <2>2
  <1>4. CASE m.by \in {"UXTB", "UXTH", "UXTW"}
    <2>1. PICK d \in Bytewide : d = Narrow[m.by] /\ m.by \in DOMAIN Narrow /\ m.by \notin SignKind
      BY <1>4 DEF Narrow, SignKind, Bytewide
    <2>2. Widened(s, translate_reg(r), c, m) = Read(a, d, r)
      BY <1>1, <2>1 DEF Widened
    <2>3. Extended(a, c, r, m.by, m.n) = Read(a, d, r) * Pow2(m.n)
      BY <1>4, <2>1 DEF Extended, Narrow
    <2> QED
      BY <1>1, <2>2, <2>3
  <1>5. CASE m.by \in {"SXTB", "SXTH", "SXTW"}
    <2>1. PICK d \in Bytewide : d = Narrow[m.by] /\ m.by \in DOMAIN Narrow /\ m.by \in SignKind
      BY <1>5 DEF Narrow, SignKind, Bytewide
    <2>2. Widened(s, translate_reg(r), c, m) = Signed(d, Read(a, d, r))
      BY <1>1, <2>1 DEF Widened
    <2>3. Extended(a, c, r, m.by, m.n) = Signed(d, Read(a, d, r)) * Pow2(m.n)
      BY <1>5, <2>1 DEF Extended, Narrow
    <2> QED
      BY <1>1, <1>2, <2>2, <2>3
  <1> QED
    BY <1>3, <1>4, <1>5, LeftsAre

Operand2(a, s, c, r, m) ==
    /\ Moved2(s, c, translate_reg(r), c, m) \in Int
    /\ Low(c, Moved2(s, c, translate_reg(r), c, m)) = Low(c, Extended(a, c, r, m.by, m.n))

LEMMA ExtendedMoved ==
    ASSUME NEW a, NEW s, Sim(a, s), NEW c \in Bytewide, NEW r \in Gprs, r # "xzr", NEW m, m.by \in Lefts \cup {"LSR", "ASR"}, m.n \in Nat
    PROVE  Operand2(a, s, c, r, m)
  <1> DEFINE src == translate_reg(r)
  <1>1. IsSource(src, Cells) /\ s \in State(Cells)
    BY HomeKinds, TargetIsSource, SimFacts
  <1>2. PICK v \in Int : v = Widened(s, src, c, m)
    BY <1>1, WidenedType
  <1>3. Pow2(m.n) \in Nat /\ Pow2(0) = 1
    BY PowerType, PowerSteps
  <1>4. CASE m.by \in Lefts
    <2>1. PICK w \in Int : Extended(a, c, r, m.by, m.n) = w * Pow2(m.n) /\ Low(c, w) = Low(c, v)
      BY <1>2, <1>4, ExtendedLeft
    <2>2. CASE m.n = 0
      <3>1. Moved2(s, c, src, c, m) = v
        BY <1>2, <2>2 DEF Moved2
      <3>2. w * Pow2(m.n) = w
        BY <1>3, <2>2
      <3> QED
        BY <2>1, <3>1, <3>2 DEF Operand2
    <2>3. CASE m.n # 0
      <3>1. ShiftOf(m.by) = "shl"
        BY <1>4, LeftsAre DEF ShiftOf
      <3>2. PICK z \in Int : z = Low(c, v)
        BY LowType
      <3>3. Moved2(s, c, src, c, m) = z * Pow2(m.n)
        BY <1>2, <2>3, <3>1, <3>2 DEF Moved2, Shift
      <3>4. PICK p \in Int : p = Pow2(m.n)
        BY <1>3
      <3>5. Low(c, z * p) = Low(c, w * p)
        <4>1. Low(c, Low(c, w) * p) = Low(c, w * p)
          BY <3>4, LowOps
        <4> QED
          BY <2>1, <3>2, <4>1
      <3>6. z * p \in Int
        OBVIOUS
      <3> QED
        BY <2>1, <3>3, <3>4, <3>5, <3>6 DEF Operand2
    <2> QED
      BY <2>2, <2>3
  <1>5. CASE m.by \in {"LSR", "ASR"}
    <2>1. v = Read(a, c, r) /\ Low(c, v) = v
      <3>1. v = Get(s, c, src)
        BY <1>2, <1>5 DEF Widened, Narrow, SignKind
      <3> QED
        BY <3>1, ReadVal
    <2>2. PICK op \in {"shr", "sar"} : op = ShiftOf(m.by) /\ Extended(a, c, r, m.by, m.n) = Shift(op, c, v, m.n)
      BY <1>5, <2>1 DEF ShiftOf, Extended
    <2>3. CASE m.n # 0
      <3>1. Moved2(s, c, src, c, m) = Shift(op, c, v, m.n)
        BY <1>2, <2>1, <2>2, <2>3 DEF Moved2
      <3>2. Shift(op, c, v, m.n) \in Int
        BY ShiftType
      <3> QED
        BY <2>2, <3>1, <3>2 DEF Operand2
    <2>4. CASE m.n = 0
      <3>1. Moved2(s, c, src, c, m) = v
        BY <1>2, <2>4 DEF Moved2
      <3>2. PICK z \in Int : z = Signed(c, v) /\ Low(c, z) = Low(c, v)
        BY SignedFacts
      <3>3. Shift(op, c, v, m.n) \in {v, z}
        <4>1. v \div 1 = v /\ z \div 1 = z
          OBVIOUS
        <4> QED
          BY <1>3, <2>1, <2>4, <3>2, <4>1 DEF Shift
      <3> QED
        BY <2>2, <3>1, <3>2, <3>3 DEF Operand2
    <2> QED
      BY <2>3, <2>4
  <1> QED
    BY <1>4, <1>5

LEMMA AddFlagsCommute == \A c \in Bytewide : \A x, y \in Int : AddFlags(c, x, y) = AddFlags(c, y, x)
  <1> TAKE c \in Bytewide
  <1> TAKE x, y \in Int
  <1>1. x + y = y + x
    OBVIOUS
  <1>2. PICK p \in Int, q \in Int : p = Signed(c, x) /\ q = Signed(c, y)
    BY SignedFacts
  <1>3. p + q = q + p
    OBVIOUS
  <1> QED
    BY <1>1, <1>2, <1>3 DEF AddFlags

LEMMA SecondShift ==
    \A a, c, m : m.k = "shift" => Second(a, c, m) = Low(c, Extended(a, c, m.r, m.by, m.n))
  BY DEF Second

LEMMA AddSubShiftedDone ==
    ASSUME NEW i \in Operands3({"ADD", "ADDS", "SUB", "SUBS"}, Gprs, Gprs, Shifted(Shifts \cup Extensions)), Fine(i), NEW a, NEW s, Sim(a, s)
    PROVE  Done(i, a, s)
  <1>1. PICK c \in Widths, d \in Gprs, n \in Gprs, r \in Gprs, m \in {i.m} :
            c = i.c /\ d = i.d /\ n = i.n /\ m = i.m /\ r = m.r /\ m.k = "shift" /\ m.by \in Shifts \cup Extensions /\ m.n \in Nat
            /\ "d" \in DOMAIN i /\ "n" \in DOMAIN i /\ i.op \in {"ADD", "ADDS", "SUB", "SUBS"}
    BY DEF Operands3, Shifted
  <1>2. i.op \in {"ADD", "ADDS"} /\ ~(d \in DOMAIN Direct /\ d = n)
    BY <1>1 DEF Fine, Miscompiled, SubtractsBackwards, OverwritesFirst, Is
  <1>3. n # "xzr" /\ r # "xzr"
    <2>1. XzrPanics(i) = {"n", "m"}
      BY <1>1 DEF XzrPanics, Is
    <2> QED
      BY <1>1, <2>1, FineFacts
  <1>4. c \in Bytewide /\ Awake(s, Cells) /\ s \in State(Cells) /\ a \in ArmState /\ "add" \in AluOps /\ "add" \in Writing
    BY WidthFacts, SimFacts DEF AluOps, Writing
  <1> DEFINE home == translate_reg(d)
             s1   == translate_reg(n)
             s2   == translate_reg(r)
             dest == reg_operand(home)
             x    == load_shifted(dest, c, s2, c, m)
             t    == Run(s, x)
  <1>5. Operand2(a, s, c, r, m)
    <2>1. m.by \in Lefts \cup {"LSR", "ASR"}
      BY <1>1 DEF Lefts, Shifts
    <2> QED
      BY <1>1, <1>3, <1>4, <2>1, ExtendedMoved
  <1>6. PICK e \in Int : e = Moved2(s, c, s2, c, m) /\ Low(c, e) = Low(c, Extended(a, c, r, m.by, m.n))
    BY <1>5 DEF Operand2
  <1>7. PICK p \in Words(c), q \in Words(c) : p = Read(a, c, n) /\ q = Low(c, e)
    BY <1>4, <1>6, ReadVal, LowType
  <1>8. p \in Int /\ q \in Int /\ q + p \in Int /\ q = Second(a, c, i.m)
    <2>1. q = Second(a, c, i.m)
      BY <1>1, <1>6, <1>7, SecondShift
    <2> QED
      BY <1>4, <1>7, <2>1, WordFacts
  <1>9. /\ IsHome(home, Cells) /\ IsPlace(s1, Cells) /\ IsPlace(s2, Cells) /\ IsPlace(dest, Cells)
        /\ s1 # RAX /\ s1 # dest /\ Get(s, c, s1) = p
    <2>1. IsHome(home, Cells) /\ IsPlace(s1, Cells) /\ IsPlace(s2, Cells) /\ s1 # RAX /\ Get(s, c, s1) = p
      BY <1>3, <1>4, <1>7, HomeOf, HomeKinds, HomesDiffer, ReadVal
    <2>2. dest = RAX \/ (dest = home /\ home.k = "reg")
      BY DEF reg_operand
    <2>3. home.k = "reg" => s1 # home
      BY <1>2, HomesDiffer, HomeKinds
    <2> QED
      BY <2>1, <2>2, <2>3, HomeOperand
  <1>10. Compile(i) = (x \o make_rr("add", c, dest, s1)) \o post_write(home, c)
    BY <1>1, <1>2 DEF Compile, MemoryOps, Loads, Stores, Branches, compile_arith, translate_add_sub
  <1> HIDE DEF dest
  <1>11. PICK f : Puts(s, x, dest, c, e, f, Cells)
    <2>1. m.by \notin {"ROR", "MSL"}
      BY <1>1 DEF Shifts, Extensions, Narrow
    <2> QED
      BY <1>1, <1>4, <1>6, <1>9, <2>1, PutsShifted
  <1> HIDE DEF x, home, s1
  <1>12. Awake(t, Cells) /\ Get(t, c, dest) = q /\ Get(t, c, s1) = p
    <2>1. Awake(t, Cells)
      BY <1>4, <1>11, AwakeRun
    <2>2. Get(t, c, dest) = Low(c, e)
      <3>1. Order[c] <= Order[c]
        BY <1>4 DEF Bytewide, Order
      <3> QED
        BY <1>4, <1>9, <1>11, <3>1, PutsNarrow
    <2>3. Get(t, c, s1) = Get(s, c, s1)
      BY <1>4, <1>9, <1>11, KeptSource
    <2> QED
      BY <1>7, <1>9, <2>1, <2>2, <2>3
  <1>13. Puts(t, make_rr("add", c, dest, s1), dest, c, q + p, AddFlags(c, q, p), Cells)
    <2>1. Puts(t, make_rr("add", c, dest, s1), dest, c, Binary("add", Get(t, c, dest), Get(t, c, s1)),
               BinaryFlags("add", c, t.flags, Get(t, c, dest), Get(t, c, s1)), Cells)
      BY <1>4, <1>9, <1>12, PutsMakeRr
    <2> QED
      BY <1>12, <2>1 DEF Binary, BinaryFlags, Alu, AluFlags
  <1>14. Puts(s, x \o make_rr("add", c, dest, s1), dest, c, q + p, AddFlags(c, q, p), Cells)
    BY <1>4, <1>8, <1>9, <1>11, <1>13, PutsAgain
  <1>15. Puts(s, Compile(i), home, c, q + p, AddFlags(c, q, p), Cells)
    <2> DEFINE y == x \o make_rr("add", c, dest, s1)
    <2>1. Puts(s, y, reg_operand(home), c, q + p, AddFlags(c, q, p), Cells)
      BY <1>14 DEF dest
    <2> HIDE DEF y
    <2>2. Puts(s, y \o post_write(home, c), home, c, q + p, AddFlags(c, q, p), Cells)
      BY <1>4, <1>8, <1>9, <2>1, PutsPost
    <2> QED
      BY <1>10, <2>2 DEF y
  <1>16. Result(a, i) = p + q
    BY <1>1, <1>2, <1>7, <1>8 DEF Result
  <1>17. PICK w \in Int : w = q + p
    BY <1>8
  <1>18. ValuePut(i, a, s, w, AddFlags(c, q, p))
    BY <1>1, <1>8, <1>15, <1>16, <1>17 DEF ValuePut, home
  <1>19. CASE i.op = "ADD"
    <2>1. ClobbersFlags(i)
      BY <1>1, <1>19 DEF ClobbersFlags, Is
    <2> QED
      BY <1>18, <1>19, <2>1, FineValue DEF ValueOps
  <1>20. CASE i.op = "ADDS"
    <2>1. AddFlags(c, q, p) = RightFlags(i.op, i.c, Read(a, i.c, i.n), Second(a, i.c, i.m))
      BY <1>1, <1>4, <1>7, <1>8, <1>20, AddFlagsCommute DEF RightFlags, Adding
    <2> QED
      BY <1>18, <1>20, <2>1, FineSetter
  <1> QED
    BY <1>2, <1>19, <1>20

LEMMA Refuses == Refused(refuse)
  BY DEF Refused, refuse

(* A short constant is itself, sign-extended or not. *)
LEMMA ShortFacts ==
    ASSUME NEW v \in Short
    PROVE  v \in Nat /\ v \in Words("w") /\ v \in Words("x") /\ Signed("w", v) = v /\ \A c \in Widths : Low(c, v) = v /\ v \in Words(c)
  <1>1. PICK h \in Nat : h = Mod["w"] \div 2 /\ 2 * h = Mod["w"]
    BY WidthFacts DEF Bytewide
  <1>2. v \in Words("w") /\ v < h /\ v \in Nat
    <2>1. Mod["w"] \in Nat
      BY WidthFacts DEF Bytewide
    <2> QED
      BY <1>1, <2>1 DEF Short, Words
  <1>3. "w" \in Bytewide /\ v \in Words("x")
    BY <1>2, WordFacts, WidthsAre
  <1>4. Low("w", v) = v
    BY <1>2, <1>3, LowId
  <1>5. Signed("w", v) = v
    BY <1>1, <1>2, <1>4 DEF Signed
  <1>6. ASSUME NEW c \in Widths PROVE v \in Words(c) /\ Low(c, v) = v
    <2>1. v \in Words(c)
      BY <1>2, <1>3 DEF Widths
    <2> QED
      BY <2>1, LowId, WidthFacts
  <1> QED
    BY <1>2, <1>3, <1>5, <1>6

LEMMA AddSubConstantDone ==
    ASSUME NEW i \in Operands3({"ADD", "ADDS", "SUB", "SUBS"}, Addresses, Addresses, [k : {"imm"}, v : Short, lsl : Nat]), Fine(i),
           ~Refused(Compile(i)), NEW a, NEW s, Sim(a, s)
    PROVE  Done(i, a, s)
  <1>1. PICK c \in Widths, d \in Addresses, n \in Addresses, m \in Short :
            c = i.c /\ d = i.d /\ n = i.n /\ m = i.m.v /\ i.m.k = "imm" /\ i.op \in {"ADD", "ADDS", "SUB", "SUBS"}
    BY DEF Operands3
  <1>2. PICK op : op = IF i.op \in {"SUB", "SUBS"} THEN "sub" ELSE "add"
    OBVIOUS
  <1> DEFINE home == translate_reg(d)
             s1   == translate_reg(n)
  <1>3. Compile(i) = IF i.m.lsl # 0 THEN refuse
                     ELSE IF i.op # "ADD" THEN make_rri(op, c, home, s1, m)
                     ELSE pre_read(s1, c) \o <<I3("lea", c, reg_operand(home), reg_operand(s1), N(m))>> \o post_write(home, c)
    BY <1>1, <1>2 DEF Compile, MemoryOps, Loads, Stores, Branches, compile_arith, translate_add_sub
  <1>4. i.m.lsl = 0
    BY <1>3, Refuses
  <1>5. c \in Bytewide /\ Awake(s, Cells) /\ a \in ArmState /\ op \in AluOps /\ m \in Int /\ s \in State(Cells)
    BY <1>2, WidthFacts, SimFacts, ShortFacts DEF AluOps
  <1>6. PICK x \in Int : x = Read(a, c, n) /\ Get(s, c, s1) = x /\ Val(s, c, s1) = x
    BY <1>5, ReadVal, GuestNames
  <1>7. Second(a, c, i.m) = m /\ m = Low(c, Signed("w", m)) /\ Low(c, m) = m
    BY <1>1, <1>4, <1>5, SecondIs, ShortFacts
  <1>8. Result(a, i) = Alu(op, x, m) /\ Alu(op, x, m) \in Int
    BY <1>1, <1>2, <1>5, <1>6, <1>7 DEF Result, Alu
  <1>9. PICK w \in Int : w = Alu(op, x, m)
    BY <1>8
  <1>10. IsPlace(home, Cells) /\ IsHome(home, Cells) /\ IsPlace(s1, Cells) /\ IsHome(s1, Cells)
    BY HomeOf, HomeKinds, GuestNames
  <1> HIDE DEF home, s1
  <1>11. CASE i.op # "ADD"
    <2>1. Puts(s, make_rri(op, c, home, s1, m), home, c, Alu(op, x, m), AluFlags(op, c, x, m), Cells)
      BY <1>5, <1>6, <1>7, <1>10, PutsRri
    <2>2. ValuePut(i, a, s, w, AluFlags(op, c, x, m))
      BY <1>1, <1>3, <1>4, <1>8, <1>9, <1>11, <2>1 DEF ValuePut, home
    <2>3. CASE i.op = "SUB"
      <3>1. ClobbersFlags(i)
        BY <2>3 DEF ClobbersFlags
      <3> QED
        BY <2>2, <2>3, <3>1, FineValue DEF ValueOps
    <2>4. CASE i.op \in {"ADDS", "SUBS"}
      <3>1. AluFlags(op, c, x, m) = RightFlags(i.op, i.c, Read(a, i.c, i.n), Second(a, i.c, i.m))
        BY <1>1, <1>2, <1>6, <1>7, <2>4 DEF AluFlags, RightFlags, Adding
      <3> QED
        BY <2>2, <2>4, <3>1, FineSetter
    <2> QED
      BY <1>1, <1>11, <2>3, <2>4
  <1>12. CASE i.op = "ADD"
    <2> DEFINE p == pre_read(s1, c)
    <2>1. Fetches(s, p, s1, c, Cells)
      BY <1>5, <1>10, PreReadFetches
    <2>2. PICK f : Puts(s, p, Zero, c, 0, f, Cells) /\ (s1 # Zero => f = s.flags) /\ Get(Run(s, p), c, reg_operand(s1)) = Val(s, c, s1)
      BY <2>1, ZeroAny DEF Fetches
    <2>3. IsSource(reg_operand(s1), Cells) /\ IsSource(N(m), Cells) /\ s1 # Zero
      BY <1>5, <1>10, HomeOperand, TargetIsSource, PlaceKinds DEF IsSource
    <2>4. Get(Run(s, p), c, N(m)) = m
      BY <1>7, GetNumber
    <2>5. Compile(i) = (p \o <<I3("lea", c, reg_operand(home), reg_operand(s1), N(m))>>) \o post_write(home, c)
      BY <1>3, <1>4, <1>12
    <2> HIDE DEF p
    <2>6. Puts(s, Compile(i), home, c, Ternary("lea", c, x, m), f, Cells)
      <3>1. PICK g : /\ Puts(s, (p \o <<I3("lea", c, reg_operand(home), reg_operand(s1), N(m))>>) \o post_write(home, c),
                             home, c, Ternary("lea", c, Get(Run(s, p), c, reg_operand(s1)), Get(Run(s, p), c, N(m))), g, Cells)
                     /\ "lea" \notin {"andn", "bzhi"} => g = f
        BY <1>5, <1>10, <2>2, <2>3, PutsCalc DEF IsThree
      <3> QED
        BY <1>6, <2>2, <2>4, <2>5, <3>1
    <2>7. Ternary("lea", c, x, m) = w
      BY <1>2, <1>9, <1>12 DEF Ternary, Alu
    <2>8. ValuePut(i, a, s, w, f)
      BY <1>1, <1>8, <1>9, <2>6, <2>7 DEF ValuePut, home
    <2> QED
      BY <1>12, <2>2, <2>3, <2>8, FineValue DEF ValueOps
  <1> QED
    BY <1>11, <1>12

LEMMA LogicalRegisterDone ==
    ASSUME NEW i \in Operands3({"AND", "ORR", "EOR"}, Gprs, Gprs, Register), Fine(i), NEW a, NEW s, Sim(a, s)
    PROVE  Done(i, a, s)
  <1>1. PICK c \in Widths, d \in Gprs, n \in Gprs, m \in Gprs :
            c = i.c /\ d = i.d /\ n = i.n /\ m = i.m.r /\ i.m.k = "reg" /\ i.op \in {"AND", "ORR", "EOR"} /\ "n" \in DOMAIN i
    BY DEF Operands3, Register
  <1>2. PICK op \in {"and", "or", "xor"} : (i.op = "AND" => op = "and") /\ (i.op = "ORR" => op = "or") /\ (i.op = "EOR" => op = "xor")
    BY <1>1
  <1>3. n # "xzr" /\ m # "xzr" /\ ~(d \in DOMAIN Direct /\ d = m /\ d # n)
    <2>1. XzrPanics(i) = {"n", "m"}
      BY <1>1 DEF XzrPanics, Is
    <2> QED
      BY <1>1, <2>1, FineFacts DEF Fine, Miscompiled, OverwritesSecond, Is
  <1>4. c \in Bytewide /\ a \in ArmState /\ op \in AluOps
    BY WidthFacts, SimFacts, <1>2 DEF AluOps
  <1>5. PICK x \in Nat, y \in Nat : x = Read(a, c, n) /\ y = Read(a, c, m) /\ y = Second(a, c, i.m)
    BY <1>1, <1>4, ReadVal, SecondIs
  <1>6. Result(a, i) = Alu(op, x, y) /\ Alu(op, x, y) \in Int
    <2>1. Result(a, i) = Combine(op, x, y)
      BY <1>1, <1>2, <1>5 DEF Result
    <2>2. op \in {"and", "or", "xor"} /\ op \notin {"add", "sub"} /\ x \in Int /\ y \in Int
      BY <1>2
    <2>3. Combine(op, x, y) \in Nat
      BY <2>2, CombineType
    <2>4. Alu(op, x, y) = Combine(op, x, y)
      BY <2>2 DEF Alu
    <2> QED
      BY <2>1, <2>3, <2>4
  <1>7. Compile(i) = make_rrr(op, c, translate_reg(d), translate_reg(n), translate_reg(m))
    BY <1>1, <1>2 DEF Compile, MemoryOps, Loads, Stores, Branches, compile_arith, translate_logical
  <1>8. Puts(s, Compile(i), translate_reg(d), c, Alu(op, x, y), AluFlags(op, c, x, y), Cells)
    BY <1>3, <1>4, <1>5, <1>7, RegistersPut
  <1>9. PICK w \in Int : w = Alu(op, x, y)
    BY <1>6
  <1>10. ValuePut(i, a, s, w, AluFlags(op, c, x, y))
    BY <1>1, <1>6, <1>8, <1>9 DEF ValuePut
  <1> QED
    BY <1>1, <1>10, FineValue DEF ValueOps, ClobbersFlags

LEMMA LogicalConstantDone ==
    ASSUME NEW i, i \in Operands3({"AND", "ORR", "EOR"}, Addresses, Gprs, Constant(Words(i.c))), Fine(i), NEW a, NEW s, Sim(a, s)
    PROVE  Done(i, a, s)
  <1>1. PICK c \in Widths, d \in Addresses, n \in Gprs, m \in Words(i.c) :
            c = i.c /\ d = i.d /\ n = i.n /\ m = i.m.v /\ i.m.k = "imm" /\ i.m.lsl = 0 /\ i.op \in {"AND", "ORR", "EOR"}
    BY DEF Operands3, Constant
  <1>2. PICK op \in {"and", "or", "xor"} : (i.op = "AND" => op = "and") /\ (i.op = "ORR" => op = "or") /\ (i.op = "EOR" => op = "xor")
    BY <1>1
  <1>3. c \in Bytewide /\ a \in ArmState /\ op \in AluOps /\ Awake(s, Cells) /\ s \in State(Cells) /\ m \in Words(c) /\ m \in Int /\ m \in Nat
    <2>1. c \in Bytewide /\ m \in Words(c)
      BY <1>1, WidthFacts
    <2> QED
      BY <2>1, <1>2, SimFacts, WordFacts DEF AluOps
  <1>4. Low(c, m) = m /\ Second(a, c, i.m) = m
    BY <1>1, <1>3, LowId, SecondIs
  <1>5. PICK x \in Nat : x = Read(a, c, n) /\ Low(c, x) = x
    BY <1>3, ReadVal
  <1>6. Result(a, i) = Alu(op, x, m) /\ Alu(op, x, m) \in Int
    <2>1. Result(a, i) = Combine(op, x, m)
      BY <1>1, <1>2, <1>4, <1>5 DEF Result
    <2>2. op \in {"and", "or", "xor"} /\ op \notin {"add", "sub"} /\ x \in Int /\ m \in Int
      BY <1>2, <1>3
    <2>3. Combine(op, x, m) \in Nat
      BY <2>2, CombineType
    <2>4. Alu(op, x, m) = Combine(op, x, m)
      BY <2>2 DEF Alu
    <2> QED
      BY <2>1, <2>3, <2>4
  <1> DEFINE home == translate_reg(d)
             s1   == translate_reg(n)
             x1   == IF home # s1 THEN make_mov_rr(c, home, s1) ELSE <<>>
             x2   == <<I("mov", "x", RAX, N(m))>>
             x3   == make_rr(op, c, home, RAX)
  <1>7. Compile(i) = (x1 \o x2) \o x3
    BY <1>1, <1>2 DEF Compile, MemoryOps, Loads, Stores, Branches, compile_arith, translate_logical
  <1>8. IsPlace(home, Cells) /\ home # RAX /\ home # Zero /\ IsHome(home, Cells) /\ IsHome(s1, Cells)
    BY HomeOf, HomeKinds, HomesDiffer, PlaceKinds, GuestNames
  <1>9. IsCode(x1) /\ IsCode(x2) /\ IsCode(x3)
    <2>1. IsCode(make_mov_rr(c, home, s1)) /\ IsCode(x3)
      <3>1. Coded(make_mov_rr(c, home, s1), {home}, Cells)
        BY <1>3, <1>8, MovCode
      <3>2. Coded(x3, {home, RAX}, Cells)
        BY <1>3, <1>8, RaxHome, MakeRrCode DEF IsTwo
      <3> QED
        BY <3>1, <3>2, CodedIsCode
    <2> QED
      BY <2>1, RunShort
  <1>10. Val(s, c, s1) = x
    BY <1>3, <1>5, ReadVal
  <1>11. Compile(i) = x1 \o (x2 \o x3)
    <2> HIDE DEF x1, x2, x3
    <2>1. Associates(x1, x2, x3)
      BY <1>9, CodeAssociative
    <2> QED
      BY <1>7, <2>1 DEF Associates
  <1> HIDE DEF home, s1, x2, x3
  <1>12. Puts(s, Compile(i), home, c, Alu(op, x, m), AluFlags(op, c, x, m), Cells)
    <2>1. CASE home # s1
      <3>1. PICK f : Puts(s, x1, home, c, x, f, Cells)
        BY <1>3, <1>8, <1>10, <2>1, PutsMovRr
      <3>2. Awake(Run(s, x1), Cells) /\ Get(Run(s, x1), c, home) = x
        <4>1. Order[c] <= Order[c]
          BY <1>3 DEF Order, Bytewide
        <4> QED
          BY <1>3, <1>5, <1>8, <3>1, <4>1, AwakeRun, PutsNarrow
      <3>3. Puts(Run(s, x1), x2 \o x3, home, c, Alu(op, x, m), AluFlags(op, c, x, m), Cells)
        BY <1>3, <1>4, <1>8, <3>2, PutsWithRax DEF x2, x3
      <3> HIDE DEF x1
      <3> QED
        BY <1>3, <1>6, <1>8, <1>11, <3>1, <3>3, PutsAgain
    <2>2. CASE home = s1
      <3>1. Compile(i) = x2 \o x3
        BY <1>9, <1>11, <2>2, ConcatIsCode, EmptyParts
      <3>2. Get(s, c, home) = x
        BY <1>8, <1>10, <2>2 DEF Val
      <3> QED
        BY <1>3, <1>4, <1>8, <3>1, <3>2, PutsWithRax DEF x2, x3
    <2> QED
      BY <2>1, <2>2
  <1>13. PICK w \in Int : w = Alu(op, x, m)
    BY <1>6
  <1>14. ValuePut(i, a, s, w, AluFlags(op, c, x, m))
    BY <1>1, <1>6, <1>12, <1>13 DEF ValuePut, home
  <1> QED
    BY <1>1, <1>14, FineValue DEF ValueOps, ClobbersFlags

(* A calculation of two registers, one of which is fetched. *)
LEMMA FetchedPut ==
    ASSUME NEW a, NEW s, Sim(a, s), NEW op \in IsThree, NEW c \in Widths, NEW d \in Gprs, NEW n \in Gprs, n # "xzr", NEW m \in Gprs, NEW t1, NEW t2,
           \/ t1 = translate_reg(n) /\ t2 = reg_operand(translate_reg(m))
           \/ t2 = translate_reg(n) /\ t1 = reg_operand(translate_reg(m)),
           NEW x, x = IF t1 = translate_reg(n) THEN Read(a, c, n) ELSE Read(a, c, m),
           NEW y, y = IF t1 = translate_reg(n) THEN Read(a, c, m) ELSE Read(a, c, n),
           translate_reg(n) = reg_operand(translate_reg(m)) => n = m
    PROVE  \E f : /\ Puts(s, pre_read(translate_reg(m), c) \o <<I3(op, c, reg_operand(translate_reg(d)), t1, t2)>> \o post_write(translate_reg(d), c),
                          translate_reg(d), c, Ternary(op, c, x, y), f, Cells)
                  /\ op \notin {"andn", "bzhi"} /\ m # "xzr" => f = s.flags
  <1> DEFINE home == translate_reg(d)
             src  == translate_reg(n)
             two  == translate_reg(m)
             p    == pre_read(two, c)
             t    == Run(s, p)
  <1>1. c \in Bytewide /\ Awake(s, Cells) /\ s \in State(Cells) /\ a \in ArmState
    BY WidthFacts, SimFacts
  <1>2. IsHome(home, Cells) /\ IsPlace(src, Cells) /\ IsHome(two, Cells) /\ src # RAX /\ src # Zero /\ (two = Zero <=> m = "xzr")
    BY HomeOf, HomeKinds, HomesDiffer, PlaceKinds
  <1>3. Get(s, c, src) = Read(a, c, n) /\ Val(s, c, two) = Read(a, c, m)
    BY <1>1, ReadVal
  <1>4. IsSource(src, Cells) /\ IsSource(reg_operand(two), Cells)
    BY <1>2, HomeOperand, TargetIsSource
  <1> HIDE DEF home, src, two
  <1>5. PICK f : Puts(s, p, Zero, c, 0, f, Cells) /\ (two # Zero => f = s.flags) /\ Get(t, c, reg_operand(two)) = Val(s, c, two)
    <2>1. Fetches(s, p, two, c, Cells)
      BY <1>1, <1>2, PreReadFetches
    <2> QED
      BY <2>1 DEF Fetches
  <1>6. Get(t, c, src) = Get(s, c, src)
    BY <1>1, <1>2, <1>5, KeptSource
  <1>7. Get(t, c, t1) = x /\ Get(t, c, t2) = y
    BY <1>3, <1>5, <1>6 DEF src, two
  <1>8. IsSource(t1, Cells) /\ IsSource(t2, Cells)
    BY <1>4 DEF src, two
  <1> HIDE DEF p
  <1>9. \E g : /\ Puts(s, (p \o <<I3(op, c, reg_operand(home), t1, t2)>>) \o post_write(home, c), home, c,
                          Ternary(op, c, Get(t, c, t1), Get(t, c, t2)), g, Cells)
               /\ op \notin {"andn", "bzhi"} => g = f
    BY <1>1, <1>2, <1>5, <1>8, PutsCalc
  <1> QED
    BY <1>2, <1>5, <1>7, <1>9 DEF p, home, two

(* A register is not the fetched one unless it is the same. *)
LEMMA OperandSame ==
    ASSUME NEW n \in Gprs, NEW m \in Gprs, translate_reg(n) = reg_operand(translate_reg(m))
    PROVE  n = m
  <1>1. reg_operand(translate_reg(m)) \in {translate_reg(m), RAX}
    BY DEF reg_operand
  <1> QED
    BY <1>1, HomesDiffer

LEMMA ClearDone ==
    ASSUME NEW i \in Operands3({"BIC"}, Gprs, Gprs, Register), Fine(i), NEW a, NEW s, Sim(a, s)
    PROVE  Done(i, a, s)
  <1>1. PICK c \in Widths, d \in Gprs, n \in Gprs, m \in Gprs :
            c = i.c /\ d = i.d /\ n = i.n /\ m = i.m.r /\ i.m.k = "reg" /\ i.op = "BIC" /\ "n" \in DOMAIN i
    BY DEF Operands3, Register
  <1>2. n # "xzr"
    <2>1. XzrPanics(i) = {"n"}
      BY <1>1 DEF XzrPanics, Is
    <2> QED
      BY <1>1, <2>1, FineFacts
  <1>3. c \in Bytewide /\ a \in ArmState /\ "andn" \in IsThree
    BY WidthFacts, SimFacts DEF IsThree
  <1>4. PICK x \in Nat, y \in Nat : x = Read(a, c, n) /\ y = Read(a, c, m) /\ y = Second(a, c, i.m)
    BY <1>1, <1>3, ReadVal, SecondIs
  <1>5. PICK z \in Int : z = Complement(c, y)
    BY <1>3, ComplementType
  <1>6. PICK w \in Int : w = Combine("and", x, z) /\ w = Combine("and", z, x)
    <2>1. x \in Int
      OBVIOUS
    <2>2. Combine("and", x, z) \in Nat /\ Combine("and", x, z) = Combine("and", z, x)
      BY <2>1, CombineType, CombineCommutes
    <2> QED
      BY <2>2
  <1>7. Result(a, i) = w
    BY <1>1, <1>4, <1>5, <1>6 DEF Result
  <1> DEFINE t1 == reg_operand(translate_reg(m))
             t2 == translate_reg(n)
  <1>8. PICK f : Puts(s, pre_read(translate_reg(m), c) \o <<I3("andn", c, reg_operand(translate_reg(d)), t1, t2)>> \o post_write(translate_reg(d), c),
                      translate_reg(d), c, Ternary("andn", c, y, x), f, Cells)
    <2>1. t2 = t1 => n = m
      BY OperandSame
    <2>2. y = (IF t1 = t2 THEN Read(a, c, n) ELSE Read(a, c, m)) /\ x = IF t1 = t2 THEN Read(a, c, m) ELSE Read(a, c, n)
      BY <1>4, <2>1
    <2>3. t2 = translate_reg(n) /\ t1 = reg_operand(translate_reg(m))
      OBVIOUS
    <2> HIDE DEF t1, t2
    <2> QED
      BY <1>2, <1>3, <2>1, <2>2, <2>3, FetchedPut
  <1>9. Compile(i) = pre_read(translate_reg(m), c) \o <<I3("andn", c, reg_operand(translate_reg(d)), t1, t2)>> \o post_write(translate_reg(d), c)
    BY <1>1 DEF Compile, MemoryOps, Loads, Stores, Branches, compile_arith, translate_bic
  <1>10. Ternary("andn", c, y, x) = w
    BY <1>5, <1>6 DEF Ternary
  <1>11. ValuePut(i, a, s, w, f)
    BY <1>1, <1>7, <1>8, <1>9, <1>10 DEF ValuePut
  <1> QED
    BY <1>1, <1>11, FineValue DEF ValueOps, ClobbersFlags

LEMMA ShiftDone ==
    ASSUME NEW i, i \in Operands3({"LSL", "LSR", "ASR"}, Gprs, Gprs, Register \cup Constant(0 .. Bits[i.c] - 1)), Fine(i),
           NEW a, NEW s, Sim(a, s)
    PROVE  Done(i, a, s)
  <1>1. PICK c \in Widths, d \in Gprs, n \in Gprs :
            c = i.c /\ d = i.d /\ n = i.n /\ i.op \in {"LSL", "LSR", "ASR"} /\ "n" \in DOMAIN i /\ "d" \in DOMAIN i
            /\ i.m \in Register \cup Constant(0 .. Bits[i.c] - 1)
    BY DEF Operands3
  <1>2. c \in Bytewide /\ a \in ArmState /\ Awake(s, Cells) /\ Bits[c] \in Nat \ {0} /\ Bits[c] < Mod[c] /\ Mod[c] \in Nat
    BY WidthFacts, SimFacts, BitsBelow
  <1>3. PICK x \in Nat : x = Read(a, c, n)
    BY <1>2, ReadVal
  <1>4. PICK op \in {"shl", "shr", "sar"} : (i.op = "LSL" => op = "shl") /\ (i.op = "LSR" => op = "shr") /\ (i.op = "ASR" => op = "sar")
    BY <1>1
  <1>5. CASE i.m \in Register
    <2>1. PICK m \in Gprs : m = i.m.r /\ i.m.k = "reg"
      BY <1>5 DEF Register
    <2>2. n # "xzr"
      <3>1. XzrPanics(i) = {"n"}
        BY <1>1, <2>1 DEF XzrPanics, Is
      <3> QED
        BY <1>1, <3>1, FineFacts
    <2>3. PICK y \in Nat : y = Read(a, c, m) /\ y = Second(a, c, i.m)
      BY <1>2, <2>1, ReadVal, SecondIs
    <2>4. PICK vex \in {"shlx", "shrx", "sarx"} : (i.op = "LSL" => vex = "shlx") /\ (i.op = "LSR" => vex = "shrx") /\ (i.op = "ASR" => vex = "sarx")
      BY <1>1
    <2> DEFINE t1 == translate_reg(n)
               t2 == reg_operand(translate_reg(m))
               code == pre_read(translate_reg(m), c) \o <<I3(vex, c, reg_operand(translate_reg(d)), t1, t2)>> \o post_write(translate_reg(d), c)
    <2>5. PICK f : Puts(s, code, translate_reg(d), c, Ternary(vex, c, x, y), f, Cells) /\ (m # "xzr" => f = s.flags)
      <3>1. t1 = t2 => n = m
        BY OperandSame
      <3>2. x = (IF t1 = t1 THEN Read(a, c, n) ELSE Read(a, c, m)) /\ y = IF t1 = t1 THEN Read(a, c, m) ELSE Read(a, c, n)
        BY <1>3, <2>3
      <3>3. t1 = translate_reg(n) /\ t2 = reg_operand(translate_reg(m)) /\ vex \in IsThree /\ vex \notin {"andn", "bzhi"}
        BY DEF IsThree
      <3> HIDE DEF t1, t2
      <3> QED
        BY <1>2, <2>2, <3>1, <3>2, <3>3, FetchedPut
    <2>6. Compile(i) = code
      BY <1>1, <2>1, <2>4 DEF Compile, MemoryOps, Loads, Stores, Branches, compile_arith, translate_shift
    <2>7. Ternary(vex, c, x, y) = Shift(op, c, x, y % Bits[c])
      BY <1>1, <1>4, <2>4 DEF Ternary
    <2>8. PICK k \in Nat : k = y % Bits[c]
      BY <1>2
    <2>9. PICK w \in Int : w = Shift(op, c, x, y % Bits[c])
      <3>1. x \in Int
        OBVIOUS
      <3> QED
        BY <1>2, <2>8, <3>1, ShiftType
    <2>10. Result(a, i) = w
      BY <1>1, <1>3, <1>4, <2>3, <2>9 DEF Result
    <2>11. ValuePut(i, a, s, w, f)
      BY <1>1, <2>5, <2>6, <2>7, <2>9, <2>10 DEF ValuePut
    <2>12. ClobbersFlags(i) \/ f = s.flags
      BY <1>1, <2>1, <2>5 DEF ClobbersFlags, Is
    <2> QED
      BY <1>1, <2>11, <2>12, FineValue DEF ValueOps
  <1>6. CASE i.m \in Constant(0 .. Bits[c] - 1)
    <2>1. PICK m \in 0 .. Bits[c] - 1 : m = i.m.v /\ i.m.k = "imm" /\ i.m.lsl = 0
      BY <1>6 DEF Constant
    <2>2. d = n
      BY <1>1, <2>1 DEF Fine, Miscompiled, IgnoresSource, Is
    <2>3. d # "xzr"
      <3>1. XzrPanics(i) = {"d"}
        BY <1>1, <2>1 DEF XzrPanics, Is
      <3> QED
        BY <1>1, <3>1, FineFacts
    <2>4. m \in Nat /\ m \in Words(c) /\ m % Bits[c] = m /\ m \in Int
      <3>1. PICK b \in Nat \ {0}, q \in Nat : b = Bits[c] /\ q = Mod[c] /\ b < q
        BY <1>2
      <3> QED
        BY <3>1 DEF Words
    <2>5. Second(a, c, i.m) = m
      BY <1>2, <2>1, <2>4, SecondIs, LowId
    <2>6. IsPlace(translate_reg(d), Cells) /\ Get(s, c, translate_reg(d)) = x
      BY <1>2, <1>3, <2>2, <2>3, HomeKinds, ReadVal
    <2>7. PICK f : Puts(s, <<I(op, c, translate_reg(d), N(m))>>, translate_reg(d), c, Shift(op, c, x, m), f, Cells)
      BY <1>2, <2>4, <2>6, PutsShift
    <2>8. Compile(i) = <<I(op, c, translate_reg(d), N(m))>>
      BY <1>1, <1>4, <2>1 DEF Compile, MemoryOps, Loads, Stores, Branches, compile_arith, translate_shift
    <2>9. PICK w \in Int : w = Shift(op, c, x, m)
      <3>1. x \in Int
        OBVIOUS
      <3> QED
        BY <1>2, <2>4, <3>1, ShiftType
    <2>10. Result(a, i) = w
      BY <1>1, <1>3, <1>4, <2>4, <2>5, <2>9 DEF Result
    <2>11. ValuePut(i, a, s, w, f)
      BY <1>1, <2>7, <2>8, <2>9, <2>10 DEF ValuePut
    <2>12. ClobbersFlags(i)
      BY <1>1, <2>1 DEF ClobbersFlags, Is
    <2> QED
      BY <1>1, <2>11, <2>12, FineValue DEF ValueOps
  <1> QED
    BY <1>1, <1>5, <1>6

(* A number in rax. *)
LEMMA PutsNumber ==
    ASSUME NEW s, Awake(s, Cells), NEW c \in Widths, NEW k \in Nat, k \in Words("w"), NEW p, p = <<I("mov", "w", RAX, N(k))>>
    PROVE  Puts(s, p, RAX, "w", k, s.flags, Cells) /\ Get(Run(s, p), c, RAX) = k
  <1>1. "w" \in Widths /\ "w" \in Bytewide /\ c \in Bytewide /\ s \in State(Cells) /\ IsPlace(RAX, Cells) /\ IsSource(N(k), Cells)
    BY WidthFacts, WidthsAre, RaxRdx DEF Widths, Awake, IsSource
  <1>2. Low("w", k) = k /\ Get(s, "w", N(k)) = k /\ k \in Int
    BY <1>1, LowId, GetNumber
  <1>3. Puts(s, p, RAX, "w", k, s.flags, Cells)
    <2>1. Puts(s, p, RAX, "w", Binary("mov", Get(s, "w", RAX), Get(s, "w", N(k))),
               BinaryFlags("mov", "w", s.flags, Get(s, "w", RAX), Get(s, "w", N(k))), Cells)
      BY <1>1, PutsTwo DEF Writing
    <2> QED
      BY <1>2, <2>1 DEF Binary, BinaryFlags
  <1>4. Get(Run(s, p), c, RAX) = k
    <2>1. PICK t : t = Run(s, p)
      OBVIOUS
    <2>2. Wrote(s, t, RAX, "w", k, Cells)
      BY <1>3, <2>1 DEF Puts
    <2>3. Full(t, RAX) = New(s, "w", RAX, k) /\ t \in State(Cells)
      BY <1>1, <2>2, PlaceKinds DEF Wrote
    <2>4. New(s, "w", RAX, k) = k
      BY <1>1, <1>2, OperandKinds DEF New, RAX
    <2>5. Get(t, c, RAX) = Low(c, k)
      BY <1>1, <2>3, <2>4, FullType
    <2>6. Low(c, k) = k
      <3>1. k \in Words(c)
        BY WordFacts, WidthsAre DEF Widths
      <3> QED
        BY <1>1, <3>1, LowId
    <2> QED
      BY <2>1, <2>5, <2>6
  <1> QED
    BY <1>3, <1>4

LEMMA FieldDone ==
    ASSUME NEW i, i \in [op : {"UBFIZ"}, c : Widths, d : Gprs, n : Gprs, m : Constant({0}), lsb : Nat, width : 1 .. Bits[i.c]],
           Fine(i), NEW a, NEW s, Sim(a, s)
    PROVE  Done(i, a, s)
  <1>1. PICK c \in Widths, d \in Gprs, n \in Gprs, l \in Nat, k \in 1 .. Bits[i.c] :
            c = i.c /\ d = i.d /\ n = i.n /\ l = i.lsb /\ k = i.width /\ i.op = "UBFIZ" /\ "n" \in DOMAIN i
    OBVIOUS
  <1>2. c \in Bytewide /\ a \in ArmState /\ Awake(s, Cells) /\ s \in State(Cells)
    BY WidthFacts, SimFacts
  <1>3. n # "xzr"
    <2>1. XzrPanics(i) = {"n"}
      BY <1>1 DEF XzrPanics, Is, MemoryOps, Loads, Stores
    <2> QED
      BY <1>1, <2>1, FineFacts
  <1>4. k \in Nat /\ k \in Words("w") /\ Pow2(k) \in Nat \ {0} /\ Pow2(l) \in Nat
    <2>1. Bits["w"] \in Nat /\ Bits["x"] \in Nat /\ Mod["w"] \in Nat /\ Bits["w"] < Mod["w"] /\ Bits["x"] < Mod["w"]
      BY WidthFacts, BitsBelow DEF Bytewide
    <2>2. k \in Nat /\ k < Mod["w"]
      BY <1>1, <2>1 DEF Widths
    <2> QED
      BY <2>1, <2>2, PowerType DEF Words
  <1> DEFINE home == translate_reg(d)
             s1   == translate_reg(n)
             o    == reg_operand(home)
             p    == <<I("mov", "w", RAX, N(k))>>
             x1   == <<I3("bzhi", c, o, s1, RAX)>>
             x2   == <<I("shl", c, o, N(l))>>
             t    == Run(s, p)
  <1>5. Compile(i) = (p \o x1 \o x2) \o post_write(home, c)
    <2>1. Compile(i) = <<I("mov", "w", RAX, N(k)), I3("bzhi", c, o, s1, RAX), I("shl", c, o, N(l))>> \o post_write(home, c)
      BY <1>1 DEF Compile, MemoryOps, Loads, Stores, Branches, compile_arith, translate_ubfiz
    <2> QED
      BY <2>1, ThreeParts
  <1>6. /\ IsHome(home, Cells) /\ IsPlace(s1, Cells) /\ s1 # RAX /\ IsPlace(o, Cells) /\ IsSource(s1, Cells) /\ IsSource(RAX, Cells)
        /\ IsHome(o, Cells) /\ IsPlace(RAX, Cells)
    BY <1>3, HomeOf, HomeKinds, HomesDiffer, HomeOperand, TargetIsSource, RaxRdx
  <1>7. PICK x \in Nat : x = Read(a, c, n) /\ Get(s, c, s1) = x
    BY <1>2, <1>3, ReadVal
  <1> HIDE DEF home, s1, o, p
  <1>8. Puts(s, p, RAX, "w", k, s.flags, Cells) /\ Get(t, c, RAX) = k
    BY <1>2, <1>4, PutsNumber DEF p
  <1>9. Puts(s, p, Zero, "w", k, s.flags, Cells) /\ Awake(t, Cells)
    BY <1>2, <1>8, RaxIsHome, AwakeRun
  <1>10. Get(t, c, s1) = x
    BY <1>2, <1>6, <1>7, <1>8, KeptSource
  <1>11. PICK v \in Int : v = x % Pow2(k)
    BY <1>4
  <1>12. PICK f : Puts(s, p \o x1, o, c, v, f, Cells)
    <2>1. PICK g : Puts(t, x1, o, c, v, g, Cells)
      <3>1. PICK g : Puts(t, x1, o, c, Ternary("bzhi", c, Get(t, c, s1), Get(t, c, RAX)), g, Cells)
        BY <1>6, <1>9, PutsThree DEF IsThree
      <3> QED
        BY <1>8, <1>10, <1>11, <3>1 DEF Ternary
    <2> HIDE DEF x1
    <2>2. Puts(s, p \o x1, o, c, v, g, Cells)
      BY <1>2, <1>6, <1>9, <2>1, PutsThrough
    <2> QED
      BY <2>2
  <1> HIDE DEF x1
  <1>13. PICK u \in Int : u = Low(c, v)
    BY <1>2, LowType
  <1>14. PICK g : Puts(s, (p \o x1) \o x2, o, c, u * Pow2(l), g, Cells)
    <2> DEFINE y == p \o x1
    <2>1. Puts(s, y, o, c, v, f, Cells)
      BY <1>12
    <2> HIDE DEF y
    <2>2. Awake(Run(s, y), Cells) /\ Get(Run(s, y), c, o) = u
      <3>1. Order[c] <= Order[c]
        BY <1>2 DEF Order, Bytewide
      <3> QED
        BY <1>2, <1>6, <1>13, <2>1, <3>1, AwakeRun, PutsNarrow
    <2>3. PICK g : Puts(Run(s, y), x2, o, c, u * Pow2(l), g, Cells)
      <3>1. PICK g : Puts(Run(s, y), x2, o, c, Shift("shl", c, Get(Run(s, y), c, o), l), g, Cells)
        BY <1>6, <2>2, PutsShift
      <3> QED
        BY <2>2, <3>1 DEF Shift
    <2> HIDE DEF x2
    <2>4. u * Pow2(l) \in Int
      BY <1>4
    <2>5. Puts(s, y \o x2, o, c, u * Pow2(l), g, Cells)
      BY <1>2, <1>6, <2>1, <2>3, <2>4, PutsAgain
    <2> QED
      BY <2>5 DEF y
  <1>15. PICK w \in Int : w = u * Pow2(l)
    BY <1>4
  <1>16. Puts(s, Compile(i), home, c, w, g, Cells)
    <2> DEFINE y == (p \o x1) \o x2
    <2>1. Puts(s, y, reg_operand(home), c, w, g, Cells)
      BY <1>14, <1>15 DEF o
    <2> HIDE DEF y
    <2>2. Puts(s, y \o post_write(home, c), home, c, w, g, Cells)
      BY <1>2, <1>6, <2>1, PutsPost
    <2> QED
      BY <1>5, <2>2 DEF y
  <1>17. Low(c, w) = Low(c, Result(a, i))
    <2>1. Result(a, i) = v * Pow2(l)
      BY <1>1, <1>7, <1>11 DEF Result
    <2>2. PICK q \in Int : q = Pow2(l)
      BY <1>4
    <2>3. Low(c, Low(c, v) * q) = Low(c, v * q)
      BY <1>2, <2>2, LowOps
    <2> QED
      BY <1>13, <1>15, <2>1, <2>2, <2>3
  <1>18. ValuePut(i, a, s, w, g)
    BY <1>1, <1>16, <1>17 DEF ValuePut, home
  <1> QED
    BY <1>1, <1>18, FineValue DEF ValueOps, ClobbersFlags

LEMMA MovDone ==
    ASSUME NEW i, i \in Operands3({"MOV"}, Gprs \cup Addresses, {"xzr"}, [k : {"reg"}, r : Gprs \cup Addresses] \cup Constant(Words(i.c))),
           Fine(i), NEW a, NEW s, Sim(a, s)
    PROVE  Done(i, a, s)
  <1>1. PICK c \in Widths, d \in Gprs \cup Addresses :
            c = i.c /\ d = i.d /\ i.op = "MOV" /\ "d" \in DOMAIN i /\ i.m \in [k : {"reg"}, r : Gprs \cup Addresses] \cup Constant(Words(i.c))
    BY DEF Operands3
  <1>2. c \in Bytewide /\ a \in ArmState /\ Awake(s, Cells)
    BY WidthFacts, SimFacts
  <1>3. d # "xzr"
    <2>1. XzrPanics(i) = {"d"}
      BY <1>1 DEF XzrPanics, Is, MemoryOps, Loads, Stores
    <2> QED
      BY <1>1, <2>1, FineFacts
  <1>4. IsPlace(translate_reg(d), Cells)
    BY <1>3, HomeKinds
  <1>5. CASE i.m \in [k : {"reg"}, r : Gprs \cup Addresses]
    <2>1. PICK m \in Gprs \cup Addresses : m = i.m.r /\ i.m.k = "reg"
      BY <1>5
    <2>2. IsHome(translate_reg(m), Cells) /\ (translate_reg(m) = Zero <=> m = "xzr")
      BY HomeOf
    <2>3. PICK x \in Int : x = Read(a, c, m) /\ Val(s, c, translate_reg(m)) = x
      BY <1>2, ReadVal
    <2>4. PICK f : Puts(s, make_mov_rr(c, translate_reg(d), translate_reg(m)), translate_reg(d), c, x, f, Cells) /\ (m # "xzr" => f = s.flags)
      BY <1>2, <1>4, <2>2, <2>3, PutsMovRr
    <2>5. Compile(i) = make_mov_rr(c, translate_reg(d), translate_reg(m))
      BY <1>1, <2>1 DEF Compile, MemoryOps, Loads, Stores, Branches, compile_arith, translate_mov
    <2>6. Result(a, i) = x
      BY <1>1, <1>2, <2>1, <2>3, SecondIs DEF Result
    <2>7. ValuePut(i, a, s, x, f)
      BY <1>1, <2>4, <2>5, <2>6 DEF ValuePut
    <2>8. ClobbersFlags(i) \/ f = s.flags
      BY <1>1, <2>1, <2>4 DEF ClobbersFlags, Is
    <2> QED
      BY <1>1, <2>7, <2>8, FineValue DEF ValueOps
  <1>6. CASE i.m \in Constant(Words(c))
    <2>1. PICK m \in Words(c) : m = i.m.v /\ i.m.k = "imm" /\ i.m.lsl = 0
      BY <1>6 DEF Constant
    <2>2. m \in Int /\ "w" \in Bytewide
      BY <1>2, WordFacts, WidthsAre
    <2>3. Result(a, i) = m
      BY <1>1, <1>2, <2>1, <2>2, SecondIs, LowId DEF Result
    <2>4. PICK z \in Int : z = Signed("w", m) /\ Low("w", z) = Low("w", m)
      BY <2>2, SignedFacts
    <2>5. Low(c, z) = Low(c, m)
      <3>1. CASE c = "x"
        <4>1. Low("x", z) = m
          BY <1>1, <2>1, <2>4, <3>1 DEF Fine, Miscompiled, TruncatesConstant, Is
        <4> QED
          BY <1>2, <2>1, <3>1, <4>1, LowId
      <3>2. CASE c = "w"
        BY <2>4, <3>2
      <3> QED
        BY <3>1, <3>2 DEF Widths
    <2>6. PICK w \in Int : w = Low(c, z)
      BY <1>2, LowType
    <2>7. Puts(s, make_ri("mov", c, translate_reg(d), m), translate_reg(d), c, w, s.flags, Cells)
      <3>1. Puts(s, make_ri("mov", c, translate_reg(d), m), translate_reg(d), c, Binary("mov", Get(s, c, translate_reg(d)), w),
                 BinaryFlags("mov", c, s.flags, Get(s, c, translate_reg(d)), w), Cells)
        BY <1>2, <1>4, <2>2, <2>4, <2>6, PutsRi DEF Writing
      <3> QED
        BY <3>1 DEF Binary, BinaryFlags
    <2>8. Compile(i) = make_ri("mov", c, translate_reg(d), m)
      BY <1>1, <2>1 DEF Compile, MemoryOps, Loads, Stores, Branches, compile_arith, translate_mov
    <2>9. Low(c, w) = Low(c, Result(a, i))
      <3>1. Low(c, Low(c, z)) = Low(c, z)
        BY <1>2, LowOps
      <3> QED
        BY <2>3, <2>5, <2>6, <3>1
    <2>10. ValuePut(i, a, s, w, s.flags)
      BY <1>1, <2>7, <2>8, <2>9 DEF ValuePut
    <2> QED
      BY <1>1, <2>10, FineValue DEF ValueOps
  <1> QED
    BY <1>1, <1>5, <1>6

LEMMA AddressDone ==
    ASSUME NEW i \in [op : {"ADRP"}, c : {"x"}, d : Gprs, n : {"xzr"}, m : Constant(Words("x"))], Fine(i), NEW a, NEW s, Sim(a, s)
    PROVE  Done(i, a, s)
  <1>1. PICK d \in Gprs, m \in Words("x") : i.c = "x" /\ d = i.d /\ i.op = "ADRP" /\ m = i.m.v /\ i.m.k = "imm" /\ i.m.lsl = 0
    BY DEF Constant
  <1>2. "x" \in Bytewide /\ "x" \in Widths /\ a \in ArmState /\ Awake(s, Cells) /\ m \in Int
    BY WidthFacts, WidthsAre, SimFacts, WordFacts DEF Widths
  <1>3. Low("x", m) = m
    BY <1>2, LowId
  <1>4. Result(a, i) = m
    BY <1>1, <1>2, <1>3, SecondIs DEF Result
  <1> DEFINE home == translate_reg(d)
             y    == <<I("mov", "x", reg_operand(home), N(m))>>
  <1>5. IsHome(home, Cells) /\ IsPlace(reg_operand(home), Cells) /\ IsSource(N(m), Cells)
    BY <1>2, HomeOf, HomeOperand DEF IsSource
  <1> HIDE DEF home
  <1>6. Puts(s, y, reg_operand(home), "x", m, s.flags, Cells)
    <2>1. Puts(s, y, reg_operand(home), "x", Binary("mov", Get(s, "x", reg_operand(home)), Get(s, "x", N(m))),
               BinaryFlags("mov", "x", s.flags, Get(s, "x", reg_operand(home)), Get(s, "x", N(m))), Cells)
      BY <1>2, <1>5, PutsTwo DEF Writing
    <2> QED
      BY <1>3, <2>1, GetNumber DEF Binary, BinaryFlags
  <1> HIDE DEF y
  <1>7. Puts(s, y \o post_write(home, "x"), home, "x", m, s.flags, Cells)
    BY <1>2, <1>5, <1>6, PutsPost
  <1>8. Compile(i) = y \o post_write(home, "x")
    BY <1>1 DEF Compile, MemoryOps, Loads, Stores, Branches, compile_arith, make_mov_ri64, y, home
  <1>9. ValuePut(i, a, s, m, s.flags)
    BY <1>1, <1>2, <1>4, <1>7, <1>8 DEF ValuePut, home
  <1> QED
    BY <1>1, <1>9, FineValue DEF ValueOps

LEMMA ExtendDone ==
    ASSUME NEW i \in [op : {"SXTB", "SXTH", "SXTW", "UXTB", "UXTH"}, c : Widths, d : Gprs, n : Gprs, m : Constant({0})], Fine(i),
           NEW a, NEW s, Sim(a, s)
    PROVE  Done(i, a, s)
  <1>1. PICK c \in Widths, d \in Gprs, n \in Gprs, by \in {"SXTB", "SXTH", "SXTW", "UXTB", "UXTH"} :
            c = i.c /\ d = i.d /\ n = i.n /\ by = i.op /\ "n" \in DOMAIN i /\ "d" \in DOMAIN i
    OBVIOUS
  <1>2. c \in Bytewide /\ a \in ArmState /\ Awake(s, Cells) /\ s \in State(Cells)
    BY WidthFacts, SimFacts
  <1>3. n # "xzr" /\ d # "xzr"
    <2>1. XzrPanics(i) = {"d", "n"}
      BY <1>1 DEF XzrPanics, Is, MemoryOps, Loads, Stores
    <2> QED
      BY <1>1, <2>1, FineFacts
  <1>4. PICK m : m = [by |-> by, n |-> 0]
    OBVIOUS
  <1>5. m.by = by /\ m.n = 0 /\ m.by \in Lefts /\ m.n \in Nat /\ m.by \notin {"ROR", "MSL"}
    BY <1>4 DEF Lefts, Extensions, Narrow
  <1>6. PICK e \in Int : e = Moved2(s, c, translate_reg(n), c, m) /\ Low(c, e) = Low(c, Extended(a, c, n, by, 0))
    <2>1. Operand2(a, s, c, n, m)
      BY <1>2, <1>3, <1>5, ExtendedMoved
    <2> QED
      BY <1>5, <2>1 DEF Operand2
  <1> DEFINE home == translate_reg(d)
             s1   == translate_reg(n)
             y    == load_shifted(reg_operand(home), c, s1, c, m)
  <1>7. IsHome(home, Cells) /\ IsPlace(home, Cells) /\ IsPlace(s1, Cells) /\ IsPlace(reg_operand(home), Cells)
    BY <1>3, HomeOf, HomeKinds, HomeOperand
  <1>8. home.k \in {"reg", "cell"}
    BY <1>7, PlaceKinds
  <1>9. Puts(s, y, reg_operand(home), c, e, s.flags, Cells)
    BY <1>2, <1>5, <1>6, <1>7, PutsShifted
  <1>10. Compile(i) = y \o post_write(home, c)
    <2>1. Compile(i) = IF home.k = "reg" THEN load_shifted(home, c, s1, c, m) ELSE load_shifted(RAX, c, s1, c, m) \o make_mov_rr(c, home, RAX)
      BY <1>1, <1>4, <1>8 DEF Compile, MemoryOps, Loads, Stores, Branches, compile_arith, translate_extend
    <2>2. make_mov_rr(c, home, RAX) = <<I("mov", c, home, RAX)>>
      BY OperandKinds DEF make_mov_rr, make_rr_impl, RAX
    <2>3. CASE home.k = "reg"
      <3>1. y \o <<>> = y
        BY <1>9, EmptyParts DEF Puts
      <3> QED
        BY <2>1, <2>3, <3>1 DEF reg_operand, post_write
    <2>4. CASE home.k = "cell"
      BY <2>1, <2>2, <2>4 DEF reg_operand, post_write
    <2> QED
      BY <1>8, <2>3, <2>4
  <1> HIDE DEF y, home
  <1>11. Puts(s, Compile(i), home, c, e, s.flags, Cells)
    BY <1>2, <1>7, <1>9, <1>10, PutsPost
  <1>12. Result(a, i) = Extended(a, c, n, by, 0)
    BY <1>1 DEF Result
  <1>13. ValuePut(i, a, s, e, s.flags)
    BY <1>1, <1>6, <1>11, <1>12 DEF ValuePut, home
  <1> QED
    BY <1>1, <1>13, FineValue DEF ValueOps

(* A field of a word's complement, and a field's content, as constants that *)
(* a 32-bit immediate stands for.                                           *)
FieldConstants(c, l, v, f, b1, b2) ==
    /\ b1 = Low(c, Signed("w", Complement("x", f))) /\ b1 = Complement(c, f)
    /\ b2 = Low(c, Signed("w", v * Pow2(l))) /\ b2 = Low(c, v * Pow2(l))

LEMMA FieldBounds ==
    ASSUME NEW c \in Widths, NEW l \in Nat, l + Bits["h"] <= Bits[c], NEW v \in Words("h"), NEW f, f = (Pow2(Bits["h"]) - 1) * Pow2(l)
    PROVE  f \in Words(c) /\ f \in Nat /\ v * Pow2(l) \in Words(c) /\ v * Pow2(l) \in Nat /\ v \in Nat /\ f + 1 \in Int
           /\ Complement("x", f) = Mod["x"] - 1 - f /\ Complement(c, f) = Mod[c] - 1 - f
  <1>1. c \in Bytewide /\ "x" \in Bytewide
    BY WidthFacts, WidthsAre
  <1>2. PICK m, p : m = Complement(c, f) /\ p = v * Pow2(l)
    OBVIOUS
  <1>3. f \in Words(c) /\ m = Mod[c] - 1 - f /\ p \in Words(c)
    <2>1. 0 \in Int /\ IsField(c, l, v, f, m, p)
      BY <1>1, <1>2 DEF IsField
    <2> QED
      BY <2>1, FillField
  <1>4. f \in Words("x") /\ f \in Nat /\ p \in Nat /\ v \in Nat
    BY <1>1, <1>3, WordFacts, WidthsAre
  <1>5. Low("x", f) = f
    BY <1>1, <1>4, LowId
  <1> QED
    BY <1>2, <1>3, <1>4, <1>5 DEF Complement

LEMMA HalfBound == Mod["h"] \in Nat /\ Mod["w"] \in Nat /\ Mod["x"] \in Nat /\ 2 * Mod["h"] <= Mod["w"] /\ Mod["x"] = Mod["w"] * Mod["w"] /\ Mod["w"] >= 2
                   /\ 2 * (Mod["w"] \div 2) = Mod["w"] /\ Mod["w"] \div 2 \in Nat
  <1>1. PICK h \in Nat, w \in Nat : h = Mod["h"] /\ w = Mod["w"] /\ w = h * h /\ h >= 2 /\ w >= 2 /\ Mod["x"] = w * w /\ 2 * (w \div 2) = w /\ w \div 2 \in Nat
    BY WidthFacts DEF Bytewide
  <1>2. 2 * h <= h * h
    BY <1>1
  <1>3. w * w \in Nat
    OBVIOUS
  <1> QED
    BY <1>1, <1>2, <1>3

LEMMA LowUp ==
    ASSUME NEW c \in Bytewide, NEW v \in Int
    PROVE  Low(c, v + Mod[c]) = Low(c, v)
  <1>1. PICK k \in Int : k = 1
    OBVIOUS
  <1>2. PICK m \in Nat \ {0} : m = Mod[c]
    BY WidthFacts
  <1>3. ((v + m * k) % m) = (v % m)
    BY SameRemainder
  <1>4. v + m * k = v + m
    BY <1>1
  <1> QED
    BY <1>2, <1>3, <1>4 DEF Low

LEMMA LowWide ==
    ASSUME NEW v \in Int
    PROVE  Low("w", v + Mod["x"]) = Low("w", v)
  <1>1. PICK m \in Nat \ {0} : m = Mod["w"] /\ Mod["x"] = m * m
    BY WidthFacts DEF Bytewide
  <1>2. PICK k \in Int : k = m
    OBVIOUS
  <1>3. ((v + m * k) % m) = (v % m)
    BY SameRemainder
  <1> QED
    BY <1>1, <1>2, <1>3 DEF Low

LEMMA FieldInHalf ==
    ASSUME NEW c \in Widths, NEW l \in Nat, l + Bits["h"] <= Bits[c], NEW v \in Words("h"), NEW f, f = (Pow2(Bits["h"]) - 1) * Pow2(l),
           c = "w" \/ l = 0, NEW b1, b1 = Complement(c, f), NEW b2, b2 = Low(c, v * Pow2(l))
    PROVE  FieldConstants(c, l, v, f, b1, b2)
  <1>1. PICK p \in Nat : p = v * Pow2(l) /\ p \in Words(c)
    BY FieldBounds
  <1>2. f \in Nat /\ f \in Words(c) /\ Complement("x", f) = Mod["x"] - 1 - f /\ b1 = Mod[c] - 1 - f
    BY FieldBounds
  <1>3. c \in Bytewide /\ "x" \in Bytewide /\ "w" \in Bytewide
    BY WidthFacts, WidthsAre
  <1>4. PICK z \in Nat : z = Mod["w"] /\ Mod["x"] = z * z /\ 2 * Mod["h"] <= z /\ z >= 2 /\ 2 * (z \div 2) = z /\ z \div 2 \in Nat
    BY HalfBound
  <1>5. PICK k \in Int : k = Complement("x", f) /\ k = z * z - 1 - f
    BY <1>2, <1>4
  <1>6. Low("w", k) = Low("w", -1 - f)
    <2>1. PICK g \in Int : g = -1 - f
      BY <1>2
    <2>2. Low("w", g + Mod["x"]) = Low("w", g)
      BY <2>1, LowWide
    <2>3. g + Mod["x"] = k
      BY <1>2, <1>4, <1>5, <2>1
    <2> QED
      BY <2>1, <2>2, <2>3
  <1>7. CASE c = "w"
    <2>1. f < z
      BY <1>2, <1>4, <1>7 DEF Words
    <2>2. Low("w", -1 - f) = z - 1 - f
      <3>1. z - 1 - f \in Words("w")
        BY <1>2, <1>4, <2>1 DEF Words
      <3>2. Low("w", z - 1 - f) = z - 1 - f
        BY <1>3, <3>1, LowId
      <3>3. PICK g \in Int : g = -1 - f
        BY <1>2
      <3>4. Low("w", g + Mod["w"]) = Low("w", g)
        BY <1>3, <3>3, LowUp
      <3>5. g + Mod["w"] = z - 1 - f
        BY <1>4, <3>3
      <3> QED
        BY <3>2, <3>3, <3>4, <3>5
    <2>3. Low("w", Signed("w", k)) = Low("w", k) /\ Low("w", Signed("w", p)) = Low("w", p)
      BY <1>3, SignedFacts
    <2> QED
      BY <1>1, <1>2, <1>4, <1>5, <1>6, <1>7, <2>2, <2>3 DEF FieldConstants
  <1>8. CASE c = "x" /\ l = 0
    <2>1. f = Mod["h"] - 1 /\ p = v
      <3>1. Pow2(l) = 1 /\ Pow2(Bits["h"]) = Mod["h"] /\ Mod["h"] \in Nat
        BY <1>8, PowerSteps, WidthFacts DEF Bytewide
      <3>2. v \in Nat
        BY FieldBounds
      <3> QED
        BY <1>1, <3>1, <3>2
    <2>2. PICK h \in Nat : h = Mod["h"] /\ 2 * h <= z
      BY <1>4, HalfBound
    <2>3. 2 * (f + 1) <= z /\ 2 * p < z /\ p < z /\ f < z
      <3>1. v < h
        BY <2>2 DEF Words
      <3> QED
        BY <1>1, <1>2, <2>1, <2>2, <3>1
    <2>4. Signed("w", k) = -1 - f
      <3>1. z - 1 - f \in Words("w")
        BY <1>2, <1>4, <2>3 DEF Words
      <3>2. Low("w", z - 1 - f) = z - 1 - f
        BY <1>3, <3>1, LowId
      <3>3. PICK g \in Int : g = -1 - f
        BY <1>2
      <3>4. Low("w", g + Mod["w"]) = Low("w", g)
        BY <1>3, <3>3, LowUp
      <3>5. g + Mod["w"] = z - 1 - f
        BY <1>4, <3>3
      <3>6. Low("w", k) = z - 1 - f
        BY <1>6, <3>2, <3>3, <3>4, <3>5
      <3>7. ~(z - 1 - f < z \div 2)
        BY <1>2, <1>4, <2>3
      <3> QED
        BY <1>2, <1>4, <3>6, <3>7 DEF Signed
    <2>5. Signed("w", p) = p
      <3>1. p \in Words("w")
        BY <1>4, <2>3 DEF Words
      <3>2. Low("w", p) = p
        BY <1>3, <3>1, LowId
      <3> QED
        BY <1>4, <2>3, <3>2 DEF Signed
    <2>6. Low("x", -1 - f) = Mod["x"] - 1 - f
      <3>1. PICK q \in Nat : q = Mod["x"] /\ f < q
        BY <1>2, <1>8, HalfBound DEF Words
      <3>2. q - 1 - f \in Words("x")
        BY <1>2, <3>1 DEF Words
      <3>3. Low("x", q - 1 - f) = q - 1 - f
        BY <1>3, <3>2, LowId
      <3>4. PICK g \in Int : g = -1 - f
        BY <1>2
      <3>5. Low("x", g + Mod["x"]) = Low("x", g)
        BY <1>3, <3>4, LowUp
      <3>6. g + Mod["x"] = q - 1 - f
        BY <3>1, <3>4
      <3> QED
        BY <3>1, <3>3, <3>4, <3>5, <3>6
    <2> QED
      BY <1>1, <1>2, <1>5, <1>8, <2>4, <2>5, <2>6 DEF FieldConstants
  <1> QED
    BY <1>7, <1>8 DEF Widths

LEMMA FieldOr ==
    ASSUME NEW c \in Widths, NEW l \in Nat, l + Bits["h"] <= Bits[c], NEW v \in Words("h"), NEW f, f = (Pow2(Bits["h"]) - 1) * Pow2(l),
           NEW b1, b1 = Complement(c, f), NEW x \in Nat, NEW p, p = v * Pow2(l)
    PROVE  b1 \in Words(c) /\ Combine("and", x, b1) \in Words(c) /\ Combine("or", Combine("and", x, b1), p) = Combine("and", x, b1) + p
  <1>1. c \in Bytewide /\ x \in Int
    BY WidthFacts
  <1>2. IsField(c, l, v, f, b1, p)
    BY <1>1 DEF IsField
  <1> QED
    BY <1>1, <1>2, FillField

(* "And" with one constant, then "or" with another. *)
Masks(s, code, d, c, x, b1, b2) == \E f : Puts(s, code, d, c, Combine("or", Combine("and", x, b1), b2), f, Cells)

LEMMA MaskedBy ==
    ASSUME NEW s, Awake(s, Cells), NEW d, IsPlace(d, Cells), NEW c \in Widths, NEW x \in Int, NEW b1 \in Words(c), NEW b2 \in Int,
           NEW y1, NEW f, Puts(s, y1, d, c, Combine("and", x, b1), f, Cells), NEW y2,
           \A t : Awake(t, Cells) => \E g : Puts(t, y2, d, c, Combine("or", Get(t, c, d), b2), g, Cells)
    PROVE  Masks(s, y1 \o y2, d, c, x, b1, b2)
  <1>1. c \in Bytewide /\ s \in State(Cells) /\ b1 \in Words("x") /\ b1 \in Int /\ b1 \in Nat
    BY WidthFacts, WordFacts DEF Awake
  <1>2. PICK k \in Nat : k = Combine("and", x, b1) /\ k <= b1
    BY <1>1, AndBelow
  <1>3. Low(c, k) = k
    <2>1. Mod[c] \in Nat
      BY <1>1, WidthFacts
    <2>2. k \in Words(c)
      BY <1>1, <1>2, <2>1 DEF Words
    <2> QED
      BY <1>1, <2>2, LowId
  <1>4. Awake(Run(s, y1), Cells) /\ Get(Run(s, y1), c, d) = k
    <2>1. Order[c] <= Order[c]
      BY <1>1 DEF Order, Bytewide
    <2> QED
      BY <1>1, <1>2, <1>3, <2>1, AwakeRun, PutsNarrow
  <1>5. PICK g : Puts(Run(s, y1), y2, d, c, Combine("or", k, b2), g, Cells)
    BY <1>4
  <1>6. PICK w \in Int : w = Combine("or", k, b2)
    <2>1. k \in Int
      OBVIOUS
    <2>2. Combine("or", k, b2) \in Nat
      BY <2>1, CombineType
    <2> QED
      BY <2>2
  <1>7. k \in Int
    OBVIOUS
  <1>8. Puts(s, y1 \o y2, d, c, w, g, Cells)
    BY <1>1, <1>2, <1>5, <1>6, <1>7, PutsAgain
  <1> QED
    BY <1>2, <1>6, <1>8 DEF Masks

(* A constant through a register or an immediate. *)
LEMMA LogicBy ==
    ASSUME NEW s, Awake(s, Cells), NEW op \in {"and", "or"}, NEW c \in Widths, NEW d, IsPlace(d, Cells), d # RAX, NEW imm \in Int
    PROVE  /\ \E g : Puts(s, make_ri(op, c, d, imm), d, c, Combine(op, Get(s, c, d), Low(c, Signed("w", imm))), g, Cells)
           /\ c = "x" => \E g : Puts(s, <<I("mov", "x", RAX, N(imm))>> \o <<I(op, "x", d, RAX)>>, d, c, Combine(op, Get(s, c, d), Low(c, imm)), g, Cells)
  <1>1. op \in AluOps /\ op \in Writing /\ op \notin {"add", "sub", "mov"}
    BY DEF AluOps, Writing
  <1>2. \A y, z : Alu(op, y, z) = Combine(op, y, z) /\ Binary(op, y, z) = Combine(op, y, z)
    BY <1>1 DEF Alu, Binary
  <1>3. \E g : Puts(s, make_ri(op, c, d, imm), d, c, Binary(op, Get(s, c, d), Low(c, Signed("w", imm))), g, Cells)
    BY <1>1, PutsRi
  <1>4. ASSUME c = "x" PROVE \E g : Puts(s, <<I("mov", "x", RAX, N(imm))>> \o <<I(op, "x", d, RAX)>>, d, c, Alu(op, Get(s, c, d), Low(c, imm)), g, Cells)
    <2>1. make_rr(op, c, d, RAX) = <<I(op, "x", d, RAX)>>
      BY <1>4, OperandKinds DEF make_rr, make_rr_impl, RAX
    <2>2. Puts(s, <<I("mov", "x", RAX, N(imm))>> \o make_rr(op, c, d, RAX), d, c, Alu(op, Get(s, c, d), Low(c, imm)),
                AluFlags(op, c, Get(s, c, d), Low(c, imm)), Cells)
      BY <1>1, PutsWithRax
    <2> QED
      BY <2>1, <2>2
  <1> QED
    BY <1>2, <1>3, <1>4

LEMMA MovkDone ==
    ASSUME NEW i,
           i \in Operands3({"MOVK"}, Gprs, {"xzr"}, [k : {"imm"}, v : Words("h"), lsl : {Bits["h"] * k : k \in 0 .. Bytes[i.c] \div 2 - 1}]),
           Fine(i), NEW a, NEW s, Sim(a, s)
    PROVE  Done(i, a, s)
  <1>1. PICK c \in Widths, d \in Gprs, v \in Words("h"), k \in 0 .. Bytes[i.c] \div 2 - 1 :
            c = i.c /\ d = i.d /\ v = i.m.v /\ i.op = "MOVK" /\ i.m.k = "imm" /\ i.m.lsl = Bits["h"] * k /\ "d" \in DOMAIN i
    BY DEF Operands3
  <1>2. c \in Bytewide /\ a \in ArmState /\ Awake(s, Cells) /\ s \in State(Cells)
    BY WidthFacts, SimFacts
  <1>3. d # "xzr"
    <2>1. XzrPanics(i) = {"d"}
      BY <1>1 DEF XzrPanics, Is, MemoryOps, Loads, Stores
    <2> QED
      BY <1>1, <2>1, FineFacts
  <1>4. PICK l \in Nat : /\ l = i.m.lsl /\ l + Bits["h"] <= Bits[c] /\ (l <= Bits["h"] => l \in {0, Bits["h"]})
                         /\ (c = "w" => l <= Bits["h"])
    <2>1. PICK b \in Nat \ {0} : b = Bits["h"] /\ Bits["w"] = 2 * b /\ Bits["x"] = 4 * b
      BY ByteAssumption DEF Bits, Bytes
    <2>2. k \in 0 .. (IF c = "w" THEN 1 ELSE 3)
      BY <1>1 DEF Widths, Bytes
    <2>3. k \in {0, 1, 2, 3} /\ (c = "w" => k \in {0, 1})
      BY <2>2
    <2>4. b * 0 = 0 /\ b * 1 = b /\ b * 2 = b + b /\ b * 3 = b + b + b
      OBVIOUS
    <2>5. PICK l \in Nat : l = b * k
      BY <2>3, <2>4
    <2>6. l \in {0, b, b + b, b + b + b} /\ (c = "w" => l \in {0, b})
      BY <2>3, <2>4, <2>5
    <2>7. l = i.m.lsl /\ (l <= b => l \in {0, b}) /\ (c = "w" => l <= b /\ l + b <= 2 * b) /\ l + b <= 4 * b
      BY <1>1, <2>1, <2>5, <2>6
    <2> QED
      BY <2>1, <2>7 DEF Widths
  <1>5. PICK f : f = (Pow2(Bits["h"]) - 1) * Pow2(l)
    OBVIOUS
  <1>6. PICK b1, b2, imm \in Nat : b1 = Complement(c, f) /\ b2 = Low(c, imm) /\ imm = v * Pow2(l) /\ b2 = imm /\ imm \in Words(c)
    <2>1. v * Pow2(l) \in Words(c) /\ v * Pow2(l) \in Nat /\ f \in Int
      BY <1>4, <1>5, FieldBounds
    <2>2. Complement(c, f) \in Nat
      BY <1>2, <2>1, ComplementType
    <2> QED
      BY <1>2, <2>1, <2>2, LowId
  <1>7. PICK x \in Nat : x = Read(a, c, d) /\ Get(s, c, translate_reg(d)) = x
    BY <1>2, <1>3, ReadVal
  <1>8. b1 \in Words(c) /\ Combine("or", Combine("and", x, b1), b2) = Combine("and", x, b1) + b2 /\ Combine("and", x, b1) \in Nat
    <2>1. x \in Int
      OBVIOUS
    <2>2. b1 \in Words(c) /\ Combine("and", x, b1) \in Words(c) /\ Combine("or", Combine("and", x, b1), imm) = Combine("and", x, b1) + imm
      <3>1. b1 = Complement(c, f) /\ imm = v * Pow2(l)
        BY <1>6
      <3> QED
        BY <1>4, <1>5, <3>1, FieldOr
    <2>3. Combine("and", x, b1) \in Nat
      BY <1>2, <2>2, WordFacts
    <2> QED
      BY <1>6, <2>2, <2>3
  <1>9. PICK w \in Int : w = Combine("or", Combine("and", x, b1), b2)
    BY <1>6, <1>8
  <1>10. Result(a, i) = w
    <2>1. Second(a, c, i.m) = b2
      BY <1>1, <1>4, <1>6 DEF Second
    <2> QED
      BY <1>1, <1>4, <1>5, <1>6, <1>7, <1>8, <1>9, <2>1 DEF Result
  <1> DEFINE home == translate_reg(d)
             mask == Complement("x", f)
  <1>11. IsPlace(home, Cells) /\ home # RAX
    BY <1>3, HomeKinds, HomesDiffer
  <1>12. PICK z \in Int : z = mask /\ (c = "x" => Low(c, z) = b1)
    <2>1. f \in Int
      BY <1>4, <1>5, FieldBounds
    <2>2. mask \in Words("x") /\ mask \in Nat /\ "x" \in Bytewide
      BY <2>1, ComplementType, WidthsAre
    <2> QED
      BY <1>6, <2>2, LowId
  <1>13. Compile(i) = IF l > Bits["h"]
                        THEN <<I("mov", "x", RAX, N(z)), I("and", "x", home, RAX), I("mov", "x", RAX, N(imm)), I("or", "x", home, RAX)>>
                        ELSE make_ri("and", c, home, z) \o make_ri("or", c, home, imm)
    BY <1>1, <1>4, <1>5, <1>6, <1>12 DEF Compile, MemoryOps, Loads, Stores, Branches, compile_arith, translate_movk
  <1> HIDE DEF home, mask
  <1>14. Masks(s, Compile(i), home, c, x, b1, b2)
    <2>1. CASE l > Bits["h"]
      <3>1. c = "x"
        <4>1. Bits["h"] \in Nat
          BY WidthFacts DEF Bytewide
        <4> QED
          BY <1>4, <2>1, <4>1 DEF Widths
      <3> DEFINE y1 == <<I("mov", "x", RAX, N(z))>> \o <<I("and", "x", home, RAX)>>
                 y2 == <<I("mov", "x", RAX, N(imm))>> \o <<I("or", "x", home, RAX)>>
      <3>2. PICK g : Puts(s, y1, home, c, Combine("and", x, b1), g, Cells)
        BY <1>2, <1>7, <1>11, <1>12, <3>1, LogicBy DEF home
      <3>3. \A t : Awake(t, Cells) => \E h : Puts(t, y2, home, c, Combine("or", Get(t, c, home), b2), h, Cells)
        BY <1>6, <1>11, <3>1, LogicBy
      <3>4. Compile(i) = y1 \o y2
        BY <1>13, <2>1, FourParts
      <3> HIDE DEF y1, y2
      <3>5. b2 \in Int /\ x \in Int
        BY <1>6
      <3> QED
        BY <1>2, <1>8, <1>11, <3>2, <3>3, <3>4, <3>5, MaskedBy
    <2>2. CASE ~(l > Bits["h"])
      <3>1. c = "w" \/ l = 0
        <4>1. Bits["h"] \in Nat
          BY WidthFacts DEF Bytewide
        <4>2. l \in {0, Bits["h"]}
          BY <1>4, <2>2, <4>1
        <4> QED
          BY <1>1, <1>4, <4>2 DEF Fine, Miscompiled, ClearsUpperHalf, Widths
      <3>2. b1 = Low(c, Signed("w", z)) /\ b2 = Low(c, Signed("w", imm))
        <4>1. FieldConstants(c, l, v, f, b1, b2)
          BY <1>4, <1>5, <1>6, <3>1, FieldInHalf
        <4> QED
          BY <1>6, <1>12, <4>1 DEF FieldConstants, mask
      <3> DEFINE y1 == make_ri("and", c, home, z)
                 y2 == make_ri("or", c, home, imm)
      <3>3. PICK g : Puts(s, y1, home, c, Combine("and", x, b1), g, Cells)
        BY <1>2, <1>7, <1>11, <1>12, <3>2, LogicBy DEF home
      <3>4. \A t : Awake(t, Cells) => \E h : Puts(t, y2, home, c, Combine("or", Get(t, c, home), b2), h, Cells)
        <4> SUFFICES ASSUME NEW t, Awake(t, Cells)
                     PROVE  \E h : Puts(t, y2, home, c, Combine("or", Get(t, c, home), b2), h, Cells)
          OBVIOUS
        <4>1. \E h : Puts(t, make_ri("or", c, home, imm), home, c, Combine("or", Get(t, c, home), Low(c, Signed("w", imm))), h, Cells)
          <5>1. imm \in Int /\ "or" \in {"and", "or"}
            BY <1>6
          <5> QED
            BY <1>11, <5>1, LogicBy
        <4> QED
          BY <3>2, <4>1
      <3>5. Compile(i) = y1 \o y2
        BY <1>13, <2>2
      <3> HIDE DEF y1, y2
      <3>6. b2 \in Int /\ x \in Int
        BY <1>6
      <3> QED
        BY <1>2, <1>8, <1>11, <3>3, <3>4, <3>5, <3>6, MaskedBy
    <2> QED
      BY <2>1, <2>2
  <1>15. PICK g : ValuePut(i, a, s, w, g)
    BY <1>1, <1>9, <1>10, <1>14 DEF ValuePut, Masks, home
  <1> QED
    BY <1>1, <1>15, FineValue DEF ValueOps, ClobbersFlags

------------------------------------------------------------------------------
(* Multiplication and division                                              *)
------------------------------------------------------------------------------

(* A register that is pushed before and popped after. *)
LEMMA PushFull ==
    ASSUME NEW G, NEW s \in State(G), NEW n \in Names, NEW t, t = PushOf(s, n)
    PROVE  \A p : IsPlace(p, G) /\ p # RSP => Full(t, p) = Full(s, p)
  <1>1. t.cell = s.cell /\ t.reg = [s.reg EXCEPT !["rsp"] = Low("x", s.reg["rsp"] - Bytes["x"])]
    BY PushStep DEF Pushed
  <1>2. \A m \in Names : m # "rsp" => t.reg[m] = s.reg[m]
    BY <1>1 DEF State
  <1> SUFFICES ASSUME NEW p, IsPlace(p, G), p # RSP PROVE Full(t, p) = Full(s, p)
    OBVIOUS
  <1> QED
    BY <1>1, <1>2, PlaceKinds DEF Full, RSP

LEMMA StackRestored ==
    ASSUME NEW v \in Words("x")
    PROVE  Low("x", Low("x", v - Bytes["x"]) + Bytes["x"]) = v
  <1>1. v \in Int /\ Bytes["x"] = 8
    BY WordFacts DEF Bytes
  <1>2. PICK m \in Int : m = v - 8
    BY <1>1
  <1>3. Low("x", Low("x", m) + 8) = Low("x", m + 8)
    BY LowOps, WidthsAre
  <1>4. m + 8 = v
    BY <1>1, <1>2
  <1>5. Low("x", v) = v
    BY LowId, WidthsAre
  <1> QED
    BY <1>1, <1>2, <1>3, <1>4, <1>5

LEMMA PopFull ==
    ASSUME NEW G, NEW s \in State(G), NEW u \in State(G), NEW n \in Names, n # "rsp", u.stack = <<s.reg[n]>>, NEW z, z = PopOf(u, n)
    PROVE  /\ \A p : IsPlace(p, G) /\ p # RSP /\ p # R(n) => Full(z, p) = Full(u, p)
           /\ Full(z, R(n)) = Full(s, R(n))
           /\ \A t : t = PushOf(s, n) /\ Full(u, RSP) = Full(t, RSP) => Full(z, RSP) = Full(s, RSP)
  <1>1. PICK v \in Words("x") : v = s.reg[n]
    BY DEF State
  <1>2. z.cell = u.cell /\ Popped(u, z, n, v)
    BY <1>1, PopStep
  <1>3. PICK r : r = [u.reg EXCEPT ![n] = v] /\ z.reg = [r EXCEPT !["rsp"] = Low("x", r["rsp"] + Bytes["x"])]
    BY <1>2 DEF Popped
  <1>4. "rsp" \in Names /\ u.reg \in [Names -> Words("x")] /\ s.reg \in [Names -> Words("x")]
    BY DEF Names, Direct, State
  <1>5. r \in [Names -> Words("x")] /\ r[n] = v /\ r["rsp"] = u.reg["rsp"] /\ \A m \in Names : m # n => r[m] = u.reg[m]
    BY <1>3, <1>4
  <1>6. z.reg[n] = v /\ z.reg["rsp"] = Low("x", u.reg["rsp"] + Bytes["x"]) /\ \A m \in Names : m # n /\ m # "rsp" => z.reg[m] = u.reg[m]
    BY <1>3, <1>4, <1>5
  <1>7. ASSUME NEW p, IsPlace(p, G), p # RSP, p # R(n) PROVE Full(z, p) = Full(u, p)
    BY <1>2, <1>6, <1>7, PlaceKinds DEF Full, RSP
  <1>8. Full(z, R(n)) = Full(s, R(n))
    BY <1>1, <1>6, OperandKinds DEF Full
  <1>9. ASSUME NEW t, t = PushOf(s, n), Full(u, RSP) = Full(t, RSP) PROVE Full(z, RSP) = Full(s, RSP)
    <2>1. Pushed(s, t)
      BY <1>9, PushStep
    <2>2. t.reg["rsp"] = Low("x", s.reg["rsp"] - Bytes["x"])
      BY <1>4, <2>1 DEF Pushed
    <2>3. \A w : Full(w, RSP) = w.reg["rsp"]
      BY OperandKinds DEF Full, RSP
    <2>4. Low("x", u.reg["rsp"] + Bytes["x"]) = s.reg["rsp"]
      BY <1>4, <1>9, <2>2, <2>3, StackRestored
    <2> QED
      BY <1>6, <2>3, <2>4
  <1> QED
    BY <1>7, <1>8, <1>9

(* What a bracket leaves of what ran in it. *)
Unwound(s, t, u, z, n, G) ==
    /\ z \in State(G) /\ Control(s, z) /\ z.mem = u.mem /\ z.flags = u.flags
    /\ \A p : IsPlace(p, G) /\ p # RSP /\ p # R(n) => Full(z, p) = Full(u, p)
    /\ Full(z, R(n)) = Full(s, R(n))
    /\ Full(u, RSP) = Full(t, RSP) => Full(z, RSP) = Full(s, RSP)

LEMMA BracketFull ==
    ASSUME NEW G, NEW s, Active(s, G), NEW n \in Names, n # "rsp", NEW a, IsPlainCode(a, G)
    PROVE  \E t, u : /\ t = PushOf(s, n) /\ u = Run(t, a)
                     /\ Awake(t, G) /\ t.flags = s.flags /\ t.mem = s.mem /\ (\A p : IsPlace(p, G) /\ p # RSP => Full(t, p) = Full(s, p))
                     /\ IF u.fault THEN Run(s, Bracket(R(n), a)).fault ELSE Unwound(s, t, u, Run(s, Bracket(R(n), a)), n, G)
  <1>1. s \in State(G) /\ ~s.fault /\ ~s.taken /\ s.stack = <<>> /\ s.skip = 0
    BY DEF Active, Rest
  <1>2. PICK t, u : /\ t = PushOf(s, n) /\ u = Run(t, a)
                    /\ t \in State(G) /\ ~t.fault /\ ~t.taken /\ t.skip = 0 /\ PlainStep(t, u, G) /\ u.stack = <<s.reg[n]>>
                    /\ Run(s, Bracket(R(n), a)) = IF u.fault THEN u ELSE PopOf(u, n)
    BY RunBracket
  <1>3. Awake(t, G) /\ t.flags = s.flags /\ t.mem = s.mem /\ t.fault = s.fault /\ t.taken = s.taken /\ t.skip = s.skip
    BY <1>1, <1>2, PushStep DEF Awake
  <1>4. \A p : IsPlace(p, G) /\ p # RSP => Full(t, p) = Full(s, p)
    BY <1>1, <1>2, PushFull
  <1>5. ASSUME ~u.fault PROVE Unwound(s, t, u, Run(s, Bracket(R(n), a)), n, G)
    <2>1. PICK z : z = PopOf(u, n) /\ z = Run(s, Bracket(R(n), a))
      BY <1>2, <1>5
    <2>2. u \in State(G) /\ u.skip = 0 /\ u.taken = t.taken /\ u.fault = FALSE
      <3>1. u \in State(G) /\ u.skip = 0 /\ u.taken = t.taken
        BY <1>2 DEF PlainStep
      <3> QED
        BY <1>5, <3>1 DEF State
    <2>3. s.reg[n] \in Words("x")
      BY <1>1 DEF State
    <2>4. z \in State(G) /\ z.stack = <<>> /\ z.skip = u.skip /\ z.fault = u.fault /\ z.taken = u.taken /\ z.flags = u.flags /\ z.mem = u.mem
      BY <1>2, <2>1, <2>2, <2>3, PopStep
    <2>5. s.fault = FALSE
      BY <1>1 DEF State
    <2>6. Control(s, z)
      BY <1>1, <1>3, <2>2, <2>4, <2>5 DEF Control
    <2>7. /\ \A p : IsPlace(p, G) /\ p # RSP /\ p # R(n) => Full(z, p) = Full(u, p)
          /\ Full(z, R(n)) = Full(s, R(n))
          /\ Full(u, RSP) = Full(t, RSP) => Full(z, RSP) = Full(s, RSP)
      BY <1>1, <1>2, <2>1, <2>2, PopFull
    <2> QED
      BY <2>1, <2>4, <2>6, <2>7 DEF Unwound
  <1> QED
    BY <1>2, <1>3, <1>4, <1>5

(* In the bracket: what is there at first, and what a result d leaves. *)
Entered(s, t, G) == Awake(t, G) /\ t.flags = s.flags /\ t.mem = s.mem /\ \A p : IsPlace(p, G) /\ p # RSP => Full(t, p) = Full(s, p)
Left(t, u, n, d, c, v, f, G) ==
    /\ ~u.fault /\ u.mem = t.mem /\ u.flags = f
    /\ \A p : IsPlace(p, G) /\ p \notin {d, RAX, R(n)} => Full(u, p) = Full(t, p)
    /\ d # Zero => Full(u, d) = New(t, c, d, v)

LEMMA BracketPuts ==
    ASSUME NEW G, NEW s, Active(s, G), NEW n \in Names \ {"rsp", "rax"}, NEW a, IsPlainCode(a, G),
           NEW d, IsHome(d, G), d # R(n), d # RSP, NEW c, NEW v, NEW f,
           \A t : Entered(s, t, G) => Left(t, Run(t, a), n, d, c, v, f, G)
    PROVE  Puts(s, Bracket(R(n), a), d, c, v, f, G)
  <1>1. PICK t, u : /\ t = PushOf(s, n) /\ u = Run(t, a)
                    /\ Awake(t, G) /\ t.flags = s.flags /\ t.mem = s.mem /\ (\A p : IsPlace(p, G) /\ p # RSP => Full(t, p) = Full(s, p))
                    /\ IF u.fault THEN Run(s, Bracket(R(n), a)).fault ELSE Unwound(s, t, u, Run(s, Bracket(R(n), a)), n, G)
    BY BracketFull
  <1>2. Left(t, u, n, d, c, v, f, G)
    BY <1>1 DEF Entered
  <1>3. CASE ~u.fault
    <2>1. Left(t, u, n, d, c, v, f, G)
      BY <1>2
    <2>2. PICK z : z = Run(s, Bracket(R(n), a)) /\ Unwound(s, t, u, z, n, G)
      BY <1>1, <1>3
    <2>3. RSP # RAX /\ RSP # R(n) /\ RAX # R(n) /\ IsPlace(RSP, G)
      BY RaxRdx, OperandKinds DEF RSP, RAX
    <2>4. Full(z, RSP) = Full(s, RSP)
      <3>1. Full(u, RSP) = Full(t, RSP)
        BY <2>1, <2>3 DEF Left
      <3> QED
        BY <2>2, <3>1 DEF Unwound
    <2>5. Kept(s, z, d, G)
      <3> SUFFICES ASSUME NEW p, IsPlace(p, G), p # d, p # RAX PROVE Full(z, p) = Full(s, p)
        BY DEF Kept
      <3>1. CASE p = RSP
        BY <2>4, <3>1
      <3>2. CASE p = R(n)
        BY <2>2, <3>2 DEF Unwound
      <3>3. CASE p # RSP /\ p # R(n)
        BY <1>1, <2>1, <2>2, <3>3 DEF Unwound, Left
      <3> QED
        BY <3>1, <3>2, <3>3
    <2>6. ASSUME d # Zero PROVE Full(z, d) = New(s, c, d, v)
      <3>1. IsPlace(d, G)
        BY <2>6 DEF IsHome
      <3>2. Full(z, d) = New(t, c, d, v) /\ Full(t, d) = Full(s, d)
        BY <1>1, <2>1, <2>2, <2>6, <3>1 DEF Unwound, Left
      <3> QED
        BY <3>2 DEF New
    <2>7. z.mem = s.mem /\ z.flags = f /\ z \in State(G) /\ Control(s, z)
      BY <1>1, <2>1, <2>2 DEF Unwound, Left
    <2>8. IsCode(Bracket(R(n), a))
      <3>1. IsCode(a) /\ IsCode(<<I("push", "x", RSP, R(n))>>) /\ IsCode(<<I("pop", "x", R(n), RSP)>>)
        BY RunShort DEF IsPlainCode
      <3> QED
        BY <3>1, ConcatIsCode DEF Bracket
    <2> QED
      BY <2>2, <2>5, <2>6, <2>7, <2>8 DEF Puts, Wrote
  <1> QED
    BY <1>2, <1>3 DEF Left

(* What faults in it. *)
LEMMA BracketFaults ==
    ASSUME NEW G, NEW s, Active(s, G), NEW n \in Names \ {"rsp", "rax"}, NEW a, IsPlainCode(a, G),
           \A t : Entered(s, t, G) => Run(t, a).fault
    PROVE  Run(s, Bracket(R(n), a)).fault
  BY BracketFull DEF Entered

(* The last step: rax goes to the destination. *)
LEMMA LeaveByRax ==
    ASSUME NEW G, NEW t, Awake(t, G), NEW p, IsCode(p), NEW y, y = Run(t, p), Awake(y, G), y.mem = t.mem,
           \A o : IsPlace(o, G) /\ o \notin {RAX, RDX} => Full(y, o) = Full(t, o),
           NEW c \in Widths, NEW v \in Int, Get(y, c, RAX) = Low(c, v), NEW d, IsPlace(d, G), d \notin {RAX, RDX}
    PROVE  Left(t, Run(t, p \o make_mov_rr(c, d, RAX)), "rdx", d, c, v, y.flags, G)
  <1>1. IsHome(RAX, G) /\ RAX # Zero /\ IsPlace(RAX, G) /\ c \in Bytewide
    BY RaxHome, WidthFacts
  <1>2. PICK e : e = make_mov_rr(c, d, RAX) /\ Puts(y, e, d, c, Val(y, c, RAX), y.flags, G)
    BY <1>1, PutsMovRr
  <1>3. Val(y, c, RAX) = Low(c, v)
    BY <1>1 DEF Val
  <1>4. PICK u : u = Run(t, p \o e) /\ u = Run(y, e)
    BY <1>2, RunConcat DEF Puts
  <1>5. Wrote(y, u, d, c, Low(c, v), G) /\ u.flags = y.flags
    BY <1>2, <1>3, <1>4 DEF Puts
  <1>6. Full(u, d) = New(t, c, d, v)
    <2>1. Full(u, d) = New(y, c, d, Low(c, v)) /\ Full(y, d) = Full(t, d)
      BY <1>5, PlaceKinds DEF Wrote
    <2>2. Low(c, v) \in Int /\ Low(c, Low(c, v)) = Low(c, v) /\ y \in State(G)
      BY <1>1, LowType, LowOps DEF Awake
    <2>3. New(y, c, d, Low(c, v)) = New(y, c, d, v)
      BY <1>1, <2>2, NewFacts
    <2> QED
      BY <2>1, <2>3 DEF New
  <1>7. \A o : IsPlace(o, G) /\ o \notin {d, RAX, R("rdx")} => Full(u, o) = Full(t, o)
    BY <1>5 DEF Wrote, Kept, RDX
  <1> QED
    BY <1>2, <1>4, <1>5, <1>6, <1>7 DEF Left, Wrote, Control, Awake

(* What a multiplication or division leaves: v in rax, and undefined flags. *)
Calculated(t, y, c, v, G) ==
    /\ Awake(y, G) /\ y.mem = t.mem /\ y.flags = NoFlags
    /\ \A o : IsPlace(o, G) /\ o \notin {RAX, RDX} => Full(y, o) = Full(t, o)
    /\ Get(y, c, RAX) = Low(c, v)

LEMMA FlagsKeepPlaces ==
    ASSUME NEW G, NEW s \in State(G), NEW f \in FlagWords, NEW t, t = [s EXCEPT !.flags = f]
    PROVE  t \in State(G) /\ Control(s, t) /\ t.mem = s.mem /\ t.flags = f /\ \A o : Full(t, o) = Full(s, o) /\ \A c : IsPlace(o, G) => Get(t, c, o) = Get(s, c, o)
  <1>1. t \in State(G) /\ t.mem = s.mem /\ t.flags = f /\ t.reg = s.reg /\ t.cell = s.cell
        /\ t.stack = s.stack /\ t.skip = s.skip /\ t.fault = s.fault /\ t.taken = s.taken
    BY DEF State
  <1>2. \A o : Full(t, o) = Full(s, o)
    BY <1>1 DEF Full
  <1>3. \A o, c : IsPlace(o, G) => Get(t, c, o) = Get(s, c, o)
    BY <1>1, <1>2, FullType
  <1> QED
    BY <1>1, <1>2, <1>3 DEF Control

LEMMA MultiplyLeaves ==
    ASSUME NEW G, NEW t, Awake(t, G), NEW c \in Widths, NEW b \in Words(c)
    PROVE  Calculated(t, Multiply(t, c, b), c, Get(t, c, RAX) * b, G)
  <1>1. IsPlace(RAX, G) /\ IsPlace(RDX, G) /\ RAX # RDX /\ c \in Bytewide /\ t \in State(G) /\ IsSource(RAX, G)
    BY RaxRdx, WidthFacts, OperandKinds, TargetIsSource DEF RAX, RDX, Awake
  <1>2. PICK p \in Int : p = Get(t, c, RAX) * b
    <2>1. Get(t, c, RAX) \in Int /\ b \in Int
      BY <1>1, GetType, WordFacts
    <2> QED
      BY <2>1
  <1>3. PICK q \in Int : q = p \div Mod[c]
    BY <1>1, WidthFacts, Division
  <1>4. PICK x : x = Put(t, c, RAX, p)
    OBVIOUS
  <1>5. x \in State(G) /\ Frame(t, x) /\ x.mem = t.mem /\ Full(x, RAX) = New(t, c, RAX, p) /\ \A o : IsPlace(o, G) /\ o # RAX => Full(x, o) = Full(t, o)
    BY <1>1, <1>4, PutType, PutFull, TargetIsSource
  <1>6. PICK w : w = Put(x, c, RDX, q)
    OBVIOUS
  <1>7. w \in State(G) /\ Frame(x, w) /\ w.mem = x.mem /\ \A o : IsPlace(o, G) /\ o # RDX => Full(w, o) = Full(x, o)
    BY <1>1, <1>5, <1>6, PutType, PutFull, TargetIsSource
  <1>8. PICK y : y = [w EXCEPT !.flags = NoFlags] /\ y = Multiply(t, c, b)
    BY <1>2, <1>3, <1>4, <1>6 DEF Multiply
  <1>9. y \in State(G) /\ Control(w, y) /\ y.mem = w.mem /\ y.flags = NoFlags /\ \A o : Full(y, o) = Full(w, o)
    BY <1>7, <1>8, FlagsKeepPlaces, NoFlagsType
  <1>10. Awake(y, G)
    BY <1>5, <1>7, <1>9 DEF Awake, Control, Frame
  <1>11. Get(y, c, RAX) = Low(c, p)
    <2>1. Full(y, RAX) = New(t, c, RAX, p)
      BY <1>1, <1>5, <1>7, <1>9
    <2>2. Low(c, New(t, c, RAX, p)) = Low(c, p)
      BY <1>1, NewFacts
    <2>3. Get(y, c, RAX) = Low(c, Full(y, RAX))
      BY <1>1, <1>9, FullType
    <2> QED
      BY <2>1, <2>2, <2>3
  <1> QED
    BY <1>2, <1>5, <1>7, <1>8, <1>9, <1>10, <1>11 DEF Calculated

LEMMA SpHome == translate_reg("sp") = RSP /\ translate_reg("x2") = RDX
  BY DEF translate_reg, Direct, RSP, RDX

LEMMA NotSp == \A r \in Gprs : translate_reg(r) # RSP /\ (r # "x2" => translate_reg(r) # RDX)
  BY SpHome, HomesDiffer DEF Gprs

LEMMA EnteredVal ==
    ASSUME NEW a, NEW s, Sim(a, s), NEW t, Entered(s, t, Cells), NEW c \in Bytewide, NEW r \in Gprs
    PROVE  /\ Val(t, c, translate_reg(r)) = Read(a, c, r)
           /\ r # "xzr" => Get(t, c, translate_reg(r)) = Read(a, c, r)
  <1>1. IsHome(translate_reg(r), Cells) /\ (translate_reg(r) = Zero <=> r = "xzr") /\ translate_reg(r) # RSP
    BY HomeOf, NotSp
  <1>2. s \in State(Cells) /\ t \in State(Cells)
    BY SimFacts DEF Entered, Awake
  <1>3. ASSUME r # "xzr" PROVE Get(t, c, translate_reg(r)) = Get(s, c, translate_reg(r))
    <2>1. IsPlace(translate_reg(r), Cells)
      BY <1>1, <1>3 DEF IsHome
    <2>2. Full(t, translate_reg(r)) = Full(s, translate_reg(r))
      BY <1>1, <2>1 DEF Entered
    <2> QED
      BY <1>2, <2>1, <2>2, FullType
  <1>4. Val(s, c, translate_reg(r)) = Read(a, c, r) /\ (r # "xzr" => Get(s, c, translate_reg(r)) = Read(a, c, r))
    BY ReadVal
  <1> QED
    BY <1>1, <1>3, <1>4 DEF Val

(* The first operand goes to rax. *)
Fetched(t, y, c, x, G) ==
    /\ Awake(y, G) /\ y.mem = t.mem /\ Get(y, c, RAX) = x
    /\ \A o : IsPlace(o, G) /\ o # RAX => Full(y, o) = Full(t, o) /\ \A k : Get(y, k, o) = Get(t, k, o)

LEMMA FetchRax ==
    ASSUME NEW G, NEW t, Awake(t, G), NEW c \in Widths, NEW n, IsHome(n, G), NEW x, x = Val(t, c, n)
    PROVE  IsCode(make_mov_rr(c, RAX, n)) /\ Fetched(t, Run(t, make_mov_rr(c, RAX, n)), c, x, G)
  <1>1. IsPlace(RAX, G) /\ c \in Bytewide /\ t \in State(G)
    BY RaxRdx, WidthFacts DEF Awake
  <1>2. PICK e, f : e = make_mov_rr(c, RAX, n) /\ Puts(t, e, RAX, c, x, f, G)
    BY <1>1, PutsMovRr
  <1>3. x \in Words(c) /\ x \in Int
    BY <1>1, ValType
  <1>4. PICK y : y = Run(t, e)
    OBVIOUS
  <1>5. Awake(y, G)
    BY <1>2, <1>4, AwakeRun
  <1>6. Wrote(t, y, RAX, c, x, G)
    BY <1>2, <1>4 DEF Puts
  <1>7. Get(y, c, RAX) = x
    <2>1. Get(y, c, RAX) = Low(c, x)
      BY <1>1, <1>3, <1>6, WroteGet
    <2> QED
      BY <1>1, <1>3, <2>1, LowId
  <1>8. ASSUME NEW o, IsPlace(o, G), o # RAX PROVE Full(y, o) = Full(t, o) /\ \A k : Get(y, k, o) = Get(t, k, o)
    <2>1. Full(y, o) = Full(t, o)
      BY <1>6, <1>8 DEF Wrote, Kept
    <2>2. y \in State(G)
      BY <1>5 DEF Awake
    <2> QED
      BY <1>1, <1>8, <2>1, <2>2, FullType
  <1> QED
    BY <1>2, <1>4, <1>5, <1>6, <1>7, <1>8 DEF Fetched, Wrote, Puts

LEMMA MaddDone ==
    ASSUME NEW i \in [op : {"MADD"}, c : Widths, d : Gprs, n : Gprs, m : Register, a : Gprs], Fine(i), NEW a, NEW s, Sim(a, s)
    PROVE  Done(i, a, s)
  <1>1. PICK c \in Widths, d \in Gprs, n \in Gprs, m \in Gprs :
            c = i.c /\ d = i.d /\ n = i.n /\ m = i.m.r /\ i.m.k = "reg" /\ i.op = "MADD" /\ "d" \in DOMAIN i
    BY DEF Register
  <1>2. i.a = m /\ d # "x2" /\ m # "x2"
    BY <1>1 DEF Fine, Miscompiled, AddsMultiplier, UsesX2
  <1>3. d # "xzr" /\ m # "xzr"
    <2>1. XzrPanics(i) = {"d", "m"}
      BY <1>1 DEF XzrPanics, Is
    <2> QED
      BY <1>1, <2>1, FineFacts
  <1>4. c \in Bytewide /\ a \in ArmState /\ Active(s, Cells) /\ ~Stops(i)
    BY WidthFacts, SimFacts DEF Sim, Fine
  <1>5. PICK x \in Words(c), y \in Words(c) : x = Read(a, c, n) /\ y = Read(a, c, m) /\ y = Second(a, c, i.m) /\ x \in Int /\ y \in Int
    BY <1>1, <1>4, ReadVal, SecondIs, WordFacts
  <1>6. PICK v \in Int : v = x * y + y
    BY <1>5
  <1>7. Result(a, i) = v
    BY <1>1, <1>2, <1>5, <1>6 DEF Result
  <1> DEFINE dest == translate_reg(d)
             s1   == translate_reg(n)
             s2   == translate_reg(m)
             g    == MaddInside(i)
             f    == AddFlags(c, Low(c, x * y), y)
  <1>8. IsPlace(dest, Cells) /\ IsHome(dest, Cells) /\ dest \notin {RAX, RDX, RSP} /\ IsHome(s1, Cells) /\ IsPlace(s2, Cells) /\ s2 \notin {RAX, RDX}
        /\ IsSource(s2, Cells)
    BY <1>2, <1>3, HomeOf, HomeKinds, HomesDiffer, NotSp, TargetIsSource
  <1>9. Compile(i) = Bracket(R("rdx"), g) /\ IsPlainCode(g, Cells)
    BY <1>4, MaddBracket DEF Bracketed, Coded, Good
  <1>10. g = (make_mov_rr(c, RAX, s1) \o (<<I("mul", c, RAX, s2)>> \o <<I("add", c, RAX, s2)>>)) \o make_mov_rr(c, dest, RAX)
    BY <1>1 DEF MaddInside
  <1> HIDE DEF g, f, dest, s1, s2
  <1>11. ASSUME NEW t, Entered(s, t, Cells) PROVE Left(t, Run(t, g), "rdx", dest, c, v, f, Cells)
    <2>1. Val(t, c, s1) = x /\ Get(t, c, s2) = y /\ Awake(t, Cells)
      <3>1. Val(t, c, s1) = x
        BY <1>4, <1>5, <1>11, EnteredVal DEF s1
      <3>2. Get(t, c, s2) = y
        <4>1. m # "xzr" => Get(t, c, translate_reg(m)) = Read(a, c, m)
          BY <1>4, <1>11, EnteredVal
        <4> QED
          BY <1>3, <1>5, <4>1 DEF s2
      <3> QED
        BY <1>11, <3>1, <3>2 DEF Entered
    <2>2. PICK p : p = make_mov_rr(c, RAX, s1) /\ IsCode(p) /\ Fetched(t, Run(t, p), c, x, Cells)
      BY <1>8, <2>1, FetchRax
    <2>3. PICK t1 : t1 = Run(t, p) /\ Awake(t1, Cells) /\ t1.mem = t.mem /\ Get(t1, c, RAX) = x /\ Get(t1, c, s2) = y
                    /\ \A o : IsPlace(o, Cells) /\ o # RAX => Full(t1, o) = Full(t, o)
      BY <1>8, <2>1, <2>2 DEF Fetched
    <2>4. PICK q : q = <<I("mul", c, RAX, s2)>> /\ IsCode(q)
      BY RunShort
    <2>5. Run(t1, q) = Multiply(t1, c, y)
      <3>1. Run(t1, q) = Effect(t1, I("mul", c, RAX, s2))
        BY <2>3, <2>4, RunOne DEF Awake
      <3> QED
        BY <2>3, <3>1, EffectOfDivide
    <2>6. PICK t2 : t2 = Run(t1, q) /\ Calculated(t1, t2, c, x * y, Cells)
      BY <2>3, <2>5, MultiplyLeaves
    <2>7. Get(t2, c, s2) = y
      <3>1. t1 \in State(Cells) /\ t2 \in State(Cells) /\ Full(t2, s2) = Full(t1, s2)
        BY <1>8, <2>3, <2>6 DEF Calculated, Awake
      <3> QED
        BY <1>8, <2>3, <3>1, FullType
    <2>8. PICK r : r = <<I("add", c, RAX, s2)>> /\ Puts(t2, r, RAX, c, Low(c, x * y) + y, f, Cells)
      <3>1. "add" \in Writing /\ IsPlace(RAX, Cells) /\ Awake(t2, Cells) /\ Get(t2, c, RAX) = Low(c, x * y)
        BY <2>6, RaxRdx DEF Writing, AluOps, Calculated
      <3>2. Puts(t2, <<I("add", c, RAX, s2)>>, RAX, c, Binary("add", Low(c, x * y), y), BinaryFlags("add", c, t2.flags, Low(c, x * y), y), Cells)
        BY <1>4, <1>8, <2>7, <3>1, PutsTwo
      <3>3. Binary("add", Low(c, x * y), y) = Low(c, x * y) + y /\ BinaryFlags("add", c, t2.flags, Low(c, x * y), y) = f
        BY DEF Binary, BinaryFlags, Alu, AluFlags, f
      <3> QED
        BY <3>2, <3>3
    <2>9. PICK t3 : t3 = Run(t2, r) /\ Awake(t3, Cells)
      BY <2>6, <2>8, AwakeRun DEF Calculated
    <2>10. Wrote(t2, t3, RAX, c, Low(c, x * y) + y, Cells) /\ t3.flags = f /\ IsCode(r)
      BY <2>8, <2>9 DEF Puts
    <2>11. Get(t3, c, RAX) = Low(c, v)
      <3>1. PICK k \in Int : k = x * y
        BY <1>5
      <3>2. Low(c, k) \in Int /\ Low(c, Low(c, k) + y) = Low(c, k + y)
        <4>1. Low(c, k) \in Int
          BY <1>4, LowType
        <4>2. Low(c, Low(c, k) + y) = Low(c, k + y)
          BY <1>4, <1>5, LowOps
        <4> QED
          BY <4>1, <4>2
      <3>3. PICK h \in Int : h = Low(c, k) + y
        BY <1>5, <3>2
      <3>4. t2 \in State(Cells) /\ IsPlace(RAX, Cells)
        BY <2>6, RaxRdx DEF Calculated, Awake
      <3>5. Get(t3, c, RAX) = Low(c, h)
        BY <1>4, <2>10, <3>1, <3>3, <3>4, WroteGet
      <3> QED
        BY <1>6, <3>1, <3>2, <3>3, <3>5
    <2>12. PICK b : b = p \o (q \o r) /\ IsCode(b) /\ t3 = Run(t, b)
      <3>1. PICK h : h = q \o r /\ IsCode(h) /\ Run(t1, h) = t3
        <4>1. IsCode(q \o r) /\ Run(t1, q \o r) = Run(Run(t1, q), r)
          BY <2>4, <2>10, RunConcat
        <4> QED
          BY <2>6, <2>9, <4>1
      <3>2. IsCode(p \o h) /\ Run(t, p \o h) = t3
        BY <2>2, <2>3, <3>1, RunConcat
      <3> QED
        BY <3>1, <3>2
    <2>13. t3.mem = t.mem /\ \A o : IsPlace(o, Cells) /\ o \notin {RAX, RDX} => Full(t3, o) = Full(t, o)
      BY <2>3, <2>6, <2>10 DEF Wrote, Kept, Calculated
    <2>14. Left(t, Run(t, b \o make_mov_rr(c, dest, RAX)), "rdx", dest, c, v, t3.flags, Cells)
      BY <1>8, <2>1, <2>9, <2>11, <2>12, <2>13, LeaveByRax
    <2>15. g = b \o make_mov_rr(c, dest, RAX)
      BY <1>10, <2>2, <2>4, <2>8, <2>12
    <2> QED
      BY <2>10, <2>14, <2>15
  <1>12. Puts(s, Bracket(R("rdx"), g), dest, c, v, f, Cells)
    <2>1. "rdx" \in Names \ {"rsp", "rax"} /\ dest # R("rdx") /\ dest # RSP
      BY <1>8 DEF Names, Direct, RDX
    <2> QED
      BY <1>4, <1>8, <1>9, <1>11, <2>1, BracketPuts
  <1>13. ValuePut(i, a, s, v, f)
    BY <1>1, <1>7, <1>9, <1>12 DEF ValuePut, dest
  <1>14. ClobbersFlags(i) /\ i.op \in ValueOps
    BY <1>1 DEF ClobbersFlags, ValueOps
  <1> QED
    BY <1>13, <1>14, FineValue

(* Division *)
LEMMA QuotientBounds ==
    ASSUME NEW n \in Nat, NEW d \in Nat \ {0}
    PROVE  n \div d \in Nat /\ n \div d <= n /\ (d >= 2 => 2 * (n \div d) <= n) /\ (d = 1 => n \div d = n)
  <1>1. PICK q \in Int : q = n \div d /\ n = (d * q) + (n % d) /\ n % d \in 0 .. d - 1
    <2>1. n \div d \in Int /\ n = (d * (n \div d)) + (n % d) /\ (n % d) \in 0 .. d - 1
      BY Division
    <2> QED
      BY <2>1
  <1>2. PICK r \in 0 .. d - 1 : r = n % d
    BY <1>1
  <1>3. n = d * q + r
    BY <1>1, <1>2
  <1>4. q >= 0
    <2>1. ASSUME q <= -1 PROVE d * q <= -d
      BY <2>1
    <2> QED
      BY <1>1, <1>3, <2>1
  <1>5. d * q >= q
    BY <1>4
  <1>6. d >= 2 => d * q >= 2 * q
    BY <1>4
  <1>7. d = 1 => q = n
    BY <1>3
  <1> QED
    BY <1>1, <1>3, <1>4, <1>5, <1>6, <1>7

Magnitude(v) == IF v < 0 THEN -v ELSE v

QuotientOf(n, d) == IF (n < 0) = (d < 0) THEN Magnitude(n) \div Magnitude(d) ELSE -(Magnitude(n) \div Magnitude(d))

LEMMA ArmQuotientIs ==
    ASSUME NEW a \in Int, NEW b \in Int, b # 0
    PROVE  ArmQuotient(a, b) = QuotientOf(a, b)
  BY DEF ArmQuotient, Magnitude, QuotientOf

Dividend(signed, c, hi, lo) == IF signed /\ hi >= Mod[c] \div 2 THEN (hi * Mod[c] + lo) - Mod[c] * Mod[c] ELSE hi * Mod[c] + lo
Divisor(signed, c, by)      == IF signed THEN Signed(c, by) ELSE by

LEMMA QuotientIs ==
    \A signed, c, hi, lo, by : Quotient(signed, c, hi, lo, by) = QuotientOf(Dividend(signed, c, hi, lo), Divisor(signed, c, by))
  <1> TAKE signed, c, hi, lo, by
  <1> QED
    BY Zenon DEF Quotient, Magnitude, Dividend, Divisor, QuotientOf

(* An unsigned division with nothing above the dividend. *)
LEMMA UnsignedQuotient ==
    ASSUME NEW c \in Bytewide, NEW x \in Words(c), NEW y \in Words(c), y # 0
    PROVE  /\ Quotient(FALSE, c, 0, x, y) = ArmQuotient(x, y) /\ ArmQuotient(x, y) \in Int
           /\ Fits(FALSE, c, ArmQuotient(x, y))
  <1>1. x \in Nat /\ y \in Nat /\ x < Mod[c] /\ Mod[c] \in Nat
    BY WidthFacts DEF Words
  <1>2. 0 * Mod[c] + x = x
    BY <1>1
  <1>3. PICK q : q = x \div y
    OBVIOUS
  <1>4. q \in Nat /\ q <= x
    BY <1>1, <1>3, QuotientBounds
  <1>5. Magnitude(x) = x /\ Magnitude(y) = y
    BY <1>1 DEF Magnitude
  <1>10. QuotientOf(x, y) = q
    BY <1>1, <1>3, <1>5 DEF QuotientOf
  <1>6. Quotient(FALSE, c, 0, x, y) = q
    <2>1. Quotient(FALSE, c, 0, x, y) = QuotientOf(x, y)
      <3>1. x = Dividend(FALSE, c, 0, x) /\ y = Divisor(FALSE, c, y)
        BY <1>2 DEF Dividend, Divisor
      <3> QED
        BY <3>1, QuotientIs, Zenon
    <2> QED
      BY <1>10, <2>1, Zenon
  <1>7. ArmQuotient(x, y) = q
    <2>1. ArmQuotient(x, y) = QuotientOf(x, y)
      BY <1>1, ArmQuotientIs
    <2> QED
      BY <1>10, <2>1, Zenon
  <1>8. Fits(FALSE, c, q)
    BY <1>1, <1>4 DEF Fits
  <1>9. q \in Int
    BY <1>4
  <1> QED
    BY <1>6, <1>7, <1>8, <1>9, Zenon

(* A signed one with the sign above it: the quotient fits but for one. *)
LEMMA SignedZero ==
    ASSUME NEW c \in Bytewide, NEW y \in Words(c)
    PROVE  Signed(c, y) = 0 <=> y = 0
  <1>1. Low(c, y) = y /\ y \in Nat /\ y < Mod[c] /\ Mod[c] \in Nat /\ Mod[c] \div 2 \in Nat \ {0}
    BY LowId, WidthFacts DEF Words
  <1> QED
    BY <1>1 DEF Signed

LEMMA SignedQuotient ==
    ASSUME NEW c \in Bytewide, NEW x \in Words(c), NEW y \in Words(c), y # 0, NEW hi, hi = Low(c, IF Signed(c, x) < 0 THEN -1 ELSE 0)
    PROVE  /\ Quotient(TRUE, c, hi, x, y) = ArmQuotient(Signed(c, x), Signed(c, y)) /\ ArmQuotient(Signed(c, x), Signed(c, y)) \in Int
           /\ Fits(TRUE, c, ArmQuotient(Signed(c, x), Signed(c, y))) <=> ~(Signed(c, x) = -(Mod[c] \div 2) /\ Signed(c, y) = -1)
  <1>1. PICK m \in Nat, h \in Nat \ {0} : m = Mod[c] /\ h = Mod[c] \div 2 /\ 2 * h = m
    BY WidthFacts
  <1>2. x \in Nat /\ y \in Nat /\ x < m /\ Low(c, x) = x
    BY <1>1, LowId DEF Words
  <1>3. PICK n \in Int, d \in Int : n = Signed(c, x) /\ d = Signed(c, y) /\ -h <= n /\ n < h /\ -h <= d /\ d < h
    BY <1>1, <1>2, SignedFacts
  <1>4. d # 0
    BY <1>3, SignedZero
  <1>5. n = IF x < h THEN x ELSE x - m
    BY <1>1, <1>2, <1>3 DEF Signed
  <1>6. hi = IF x < h THEN 0 ELSE m - 1
    <2>1. Low(c, 0) = 0
      BY LowZero
    <2>2. Low(c, -1) = m - 1
      <3>1. m - 1 \in Words(c)
        BY <1>1 DEF Words
      <3>2. Low(c, m - 1) = m - 1
        BY <3>1, LowId
      <3>3. Low(c, (-1) + Mod[c] * 1) = Low(c, -1)
        BY LowSame
      <3>4. (-1) + Mod[c] * 1 = m - 1
        BY <1>1
      <3> QED
        BY <3>2, <3>3, <3>4
    <2> QED
      BY <1>1, <1>2, <1>3, <1>5, <2>1, <2>2
  <1>7. n = IF TRUE /\ hi >= Mod[c] \div 2 THEN (hi * Mod[c] + x) - Mod[c] * Mod[c] ELSE hi * Mod[c] + x
    <2>1. CASE x < h
      <3>1. hi = 0 /\ ~(hi >= h) /\ hi * m + x = x
        BY <1>1, <1>2, <1>6, <2>1
      <3> QED
        BY <1>1, <1>5, <2>1, <3>1
    <2>2. CASE ~(x < h)
      <3>1. hi = m - 1 /\ hi >= h
        BY <1>1, <1>6, <2>2
      <3>2. (m - 1) * m = m * m - m
        BY <1>1
      <3>3. PICK k \in Nat : k = m * m
        BY <1>1
      <3>4. (hi * m + x) - m * m = x - m
        BY <1>1, <1>2, <3>1, <3>2, <3>3
      <3> QED
        BY <1>1, <1>5, <2>2, <3>1, <3>4
    <2> QED
      BY <1>1, <1>2, <2>1, <2>2
  <1>8. PICK k \in Nat, j \in Nat \ {0} : k = Magnitude(n) /\ j = Magnitude(d)
    BY <1>4 DEF Magnitude
  <1>9. PICK q \in Int : q = IF (n < 0) = (d < 0) THEN k \div j ELSE -(k \div j)
    <2>1. k \div j \in Nat
      BY QuotientBounds
    <2> QED
      BY <2>1
  <1>10. ArmQuotient(n, d) = q
    BY <1>4, <1>8, <1>9, ArmQuotientIs DEF QuotientOf
  <1>11. Quotient(TRUE, c, hi, x, y) = q
    <2>1. n = Dividend(TRUE, c, hi, x)
      BY <1>7 DEF Dividend
    <2>2. d = Divisor(TRUE, c, y)
      BY <1>3 DEF Divisor
    <2>3. Quotient(TRUE, c, hi, x, y) = QuotientOf(n, d)
      BY <2>1, <2>2, QuotientIs, Zenon
    <2> QED
      BY <1>8, <1>9, <2>3 DEF QuotientOf
  <1>12. Fits(TRUE, c, q) <=> -h <= q /\ q < h
    BY <1>1 DEF Fits
  <1>13. (-h <= q /\ q < h) <=> ~(n = -h /\ d = -1)
    <2>1. PICK e \in Nat : e = k \div j /\ e <= k /\ (j >= 2 => 2 * e <= k) /\ (j = 1 => e = k)
      BY QuotientBounds
    <2>2. q = IF (n < 0) = (d < 0) THEN e ELSE -e
      BY <1>9, <2>1
    <2>3. (n < 0 => k = -n) /\ (~(n < 0) => k = n) /\ (d < 0 => j = -d) /\ (~(d < 0) => j = d)
      BY <1>8 DEF Magnitude
    <2>4. CASE j >= 2
      <3>1. 2 * e <= h
        BY <1>3, <2>1, <2>3, <2>4
      <3>2. d # -1
        BY <2>3, <2>4
      <3> QED
        BY <2>2, <3>1, <3>2
    <2>5. CASE j = 1
      <3>1. e = k
        BY <2>1, <2>5
      <3>2. d = 1 \/ d = -1
        BY <2>3, <2>5
      <3> QED
        BY <1>3, <2>2, <2>3, <3>1, <3>2
    <2> QED
      BY <2>4, <2>5
  <1> QED
    BY <1>1, <1>3, <1>9, <1>10, <1>11, <1>12, <1>13

LEMMA DivideLeaves ==
    ASSUME NEW G, NEW t, Awake(t, G), NEW signed \in BOOLEAN, NEW c \in Widths, NEW b \in Words(c),
           NEW q, q = Quotient(signed, c, Get(t, c, RDX), Get(t, c, RAX), b)
    PROVE  /\ b = 0 \/ ~Fits(signed, c, q) => Divide(t, signed, c, b).fault
           /\ b # 0 /\ Fits(signed, c, q) => Calculated(t, Divide(t, signed, c, b), c, q, G)
  <1>1. IsPlace(RAX, G) /\ IsPlace(RDX, G) /\ RAX # RDX /\ c \in Bytewide /\ t \in State(G) /\ IsSource(RAX, G) /\ IsSource(RDX, G)
    BY RaxRdx, WidthFacts, OperandKinds, TargetIsSource DEF RAX, RDX, Awake
  <1>2. ASSUME b = 0 \/ ~Fits(signed, c, q) PROVE Divide(t, signed, c, b).fault
    <2>1. Divide(t, signed, c, b) = [t EXCEPT !.fault = TRUE]
      BY <1>2 DEF Divide
    <2> QED
      BY <1>1, <2>1 DEF State
  <1>3. ASSUME b # 0, Fits(signed, c, q) PROVE Calculated(t, Divide(t, signed, c, b), c, q, G)
    <2>1. q \in Int
      BY <1>1, <1>3, GetType, QuotientType
    <2>2. PICK w : w = Put(t, c, RAX, q)
      OBVIOUS
    <2>3. w \in State(G) /\ Frame(t, w) /\ w.mem = t.mem /\ Full(w, RAX) = New(t, c, RAX, q) /\ \A o : IsPlace(o, G) /\ o # RAX => Full(w, o) = Full(t, o)
      BY <1>1, <2>1, <2>2, PutType, PutFull, TargetIsSource
    <2>4. PICK y : y = [w EXCEPT !.flags = NoFlags] /\ y = Divide(t, signed, c, b)
      BY <1>3, <2>2 DEF Divide
    <2>5. y \in State(G) /\ Control(w, y) /\ y.mem = w.mem /\ y.flags = NoFlags /\ \A o : Full(y, o) = Full(w, o)
      BY <2>3, <2>4, FlagsKeepPlaces, NoFlagsType
    <2>6. Awake(y, G)
      BY <2>3, <2>5 DEF Awake, Control, Frame
    <2>7. Get(y, c, RAX) = Low(c, q)
      <3>1. Full(y, RAX) = New(t, c, RAX, q)
        BY <2>3, <2>5
      <3>2. Low(c, New(t, c, RAX, q)) = Low(c, q)
        BY <1>1, <2>1, NewFacts
      <3>3. Get(y, c, RAX) = Low(c, Full(y, RAX))
        BY <1>1, <2>5, FullType
      <3> QED
        BY <3>1, <3>2, <3>3
    <2> QED
      BY <2>3, <2>4, <2>5, <2>6, <2>7 DEF Calculated
  <1> QED
    BY <1>2, <1>3

(* What is put into rdx before a division. *)
Spread(t, y, v, G) ==
    /\ Awake(y, G) /\ y.mem = t.mem
    /\ \A o : IsPlace(o, G) /\ o # RDX => Full(y, o) = Full(t, o) /\ \A k : Get(y, k, o) = Get(t, k, o)
    /\ Full(y, RDX) = Low("w", v)

LEMMA PutRdx ==
    ASSUME NEW G, NEW t, Awake(t, G), NEW v \in Int, NEW y,
           y = Put(t, "w", RDX, v) \/ \E f \in FlagWords : y = [Put(t, "w", RDX, v) EXCEPT !.flags = f]
    PROVE  Spread(t, y, v, G)
  <1>1. IsPlace(RDX, G) /\ RDX.k = "reg" /\ "w" \in Bytewide /\ "w" \in Widths /\ t \in State(G)
    BY RaxRdx, WidthsAre, OperandKinds DEF RDX, Awake, Widths
  <1>2. PICK w : w = Put(t, "w", RDX, v)
    OBVIOUS
  <1>3. w \in State(G) /\ Frame(t, w) /\ w.mem = t.mem /\ Full(w, RDX) = New(t, "w", RDX, v) /\ \A o : IsPlace(o, G) /\ o # RDX => Full(w, o) = Full(t, o)
    BY <1>1, <1>2, PutType, PutFull, TargetIsSource
  <1>4. y \in State(G) /\ Control(w, y) /\ y.mem = w.mem /\ \A o : Full(y, o) = Full(w, o)
    <2>1. CASE y = w
      BY <1>3, <2>1 DEF Control
    <2>2. ASSUME NEW f \in FlagWords, y = [w EXCEPT !.flags = f] PROVE y \in State(G) /\ Control(w, y) /\ y.mem = w.mem /\ \A o : Full(y, o) = Full(w, o)
      BY <1>3, <2>2, FlagsKeepPlaces
    <2> QED
      BY <1>2, <2>1, <2>2
  <1>5. Awake(y, G)
    BY <1>3, <1>4 DEF Awake, Control, Frame
  <1>6. Full(y, RDX) = Low("w", v)
    BY <1>1, <1>3, <1>4 DEF New
  <1>7. \A o : IsPlace(o, G) /\ o # RDX => Full(y, o) = Full(t, o) /\ \A k : Get(y, k, o) = Get(t, k, o)
    BY <1>1, <1>3, <1>4, FullType
  <1> QED
    BY <1>3, <1>4, <1>5, <1>6, <1>7 DEF Spread

ExtendOf(signed) == IF signed THEN <<[op |-> "cdq", c |-> "w"]>> ELSE <<I("xor", "w", RDX, RDX)>>

LEMMA SpreadRdx ==
    ASSUME NEW G, NEW t, Awake(t, G), NEW signed \in BOOLEAN, NEW c \in Widths, signed => c = "w", NEW x \in Words(c), Get(t, c, RAX) = x
    PROVE  /\ IsCode(ExtendOf(signed)) /\ Spread(t, Run(t, ExtendOf(signed)), IF signed /\ Signed("w", x) < 0 THEN -1 ELSE 0, G)
           /\ Get(Run(t, ExtendOf(signed)), c, RDX) = Low(c, IF signed /\ Signed(c, x) < 0 THEN -1 ELSE 0)
  <1>1. IsPlace(RAX, G) /\ IsPlace(RDX, G) /\ c \in Bytewide /\ "w" \in Bytewide /\ t \in State(G) /\ IsSource(RDX, G) /\ x \in Int
    BY RaxRdx, WidthFacts, WidthsAre, TargetIsSource, WordFacts DEF Awake
  <1>2. PICK e : e = ExtendOf(signed) /\ IsCode(e)
    BY RunShort DEF ExtendOf
  <1>3. PICK y : y = Run(t, e)
    OBVIOUS
  <1>4. PICK v \in Int : v = IF signed /\ Signed("w", x) < 0 THEN -1 ELSE 0
    OBVIOUS
  <1>5. Spread(t, y, v, G)
    <2>1. CASE signed
      <3>1. y = Put(t, "w", RDX, IF Signed("w", t.reg["rax"]) < 0 THEN -1 ELSE 0)
        <4>1. y = Effect(t, [op |-> "cdq", c |-> "w"])
          BY <1>2, <1>3, <2>1, RunOne DEF ExtendOf, Awake
        <4> QED
          BY <4>1, EffectOfDivide
      <3>2. Signed("w", t.reg["rax"]) = Signed("w", x)
        <4>1. t.reg["rax"] = Full(t, RAX) /\ c = "w"
          BY <2>1, OperandKinds DEF RAX, Full
        <4>2. x = Low("w", Full(t, RAX)) /\ Full(t, RAX) \in Int
          BY <1>1, <4>1, FullType
        <4> QED
          BY <1>1, <4>1, <4>2, SignedFacts
      <3>3. y = Put(t, "w", RDX, v)
        BY <1>4, <2>1, <3>1, <3>2
      <3> QED
        BY <3>3, PutRdx
    <2>2. CASE ~signed
      <3>1. PICK z \in Words("w") : z = Get(t, "w", RDX) /\ z \in Int
        BY <1>1, GetType, WordFacts
      <3>2. "xor" \in AluOps /\ Alu("xor", z, z) = 0
        <4>1. Combine("xor", z, z) = 0
          BY <3>1, CombineSelf
        <4> QED
          BY <4>1 DEF Alu, AluOps
      <3>3. PICK f \in FlagWords : f = AluFlags("xor", "w", z, z)
        BY <1>1, <3>1, <3>2, AluType
      <3>4. y = Effect(t, I("xor", "w", RDX, RDX))
        BY <1>2, <1>3, <2>2, RunOne DEF ExtendOf, Awake
      <3>5. y = [Put(t, "w", RDX, 0) EXCEPT !.flags = f]
        BY <3>1, <3>2, <3>3, <3>4, EffectOfAlu
      <3>6. v = 0
        BY <1>4, <2>2
      <3> QED
        BY <3>5, <3>6, PutRdx
    <2> QED
      BY <2>1, <2>2
  <1>6. Get(y, c, RDX) = Low(c, IF signed /\ Signed(c, x) < 0 THEN -1 ELSE 0)
    <2>1. y \in State(G) /\ Full(y, RDX) = Low("w", v)
      BY <1>5 DEF Spread, Awake
    <2>2. Get(y, c, RDX) = Low(c, Low("w", v))
      BY <1>1, <2>1, FullType
    <2>3. CASE c = "w"
      <3>1. Low("w", Low("w", v)) = Low("w", v)
        BY <1>1, LowOps
      <3> QED
        BY <1>4, <2>2, <2>3, <3>1
    <2>4. CASE ~signed
      <3>1. v = 0 /\ Low("w", 0) = 0
        BY <1>1, <1>4, <2>4, LowZero
      <3> QED
        BY <2>2, <2>4, <3>1
    <2> QED
      BY <2>3, <2>4
  <1> QED
    BY <1>2, <1>3, <1>4, <1>5, <1>6

LEMMA DivRuns ==
    ASSUME NEW i \in Operands3({"UDIV", "SDIV"}, Gprs, Gprs, Register), ~Stops(i), ~UsesX2(i), ~HalfSignExtends(i),
           NEW a, NEW s, Sim(a, s), NEW t, Entered(s, t, Cells)
    PROVE  IF Untranslatable(i, a) THEN Run(t, DivInside(i)).fault
           ELSE Left(t, Run(t, DivInside(i)), "rdx", translate_reg(i.d), i.c, Result(a, i), NoFlags, Cells)
  <1>1. PICK c \in Widths, d \in Gprs, n \in Gprs, m \in Gprs, signed \in BOOLEAN :
            c = i.c /\ d = i.d /\ n = i.n /\ m = i.m.r /\ i.m.k = "reg" /\ i.op \in {"UDIV", "SDIV"} /\ "d" \in DOMAIN i
            /\ (signed <=> i.op = "SDIV")
    BY DEF Operands3, Register
  <1>2. d # "x2" /\ m # "x2" /\ (signed => c = "w")
    BY <1>1 DEF UsesX2, HalfSignExtends, Widths
  <1>3. d # "xzr" /\ m # "xzr"
    <2>1. XzrPanics(i) = {"d", "m"}
      BY <1>1 DEF XzrPanics, Is
    <2> QED
      BY <1>1, <2>1, XzrOperand DEF Stops
  <1>4. c \in Bytewide /\ a \in ArmState
    BY WidthFacts, SimFacts
  <1>5. PICK x \in Words(c), y \in Words(c) : x = Read(a, c, n) /\ y = Read(a, c, m) /\ y = Second(a, c, i.m) /\ x \in Int /\ y \in Int
    BY <1>1, <1>4, ReadVal, SecondIs, WordFacts
  <1> DEFINE dest == translate_reg(d)
             s1   == translate_reg(n)
             s2   == translate_reg(m)
             g    == DivInside(i)
             v    == Result(a, i)
  <1>6. IsPlace(dest, Cells) /\ dest \notin {RAX, RDX} /\ IsHome(s1, Cells) /\ IsPlace(s2, Cells) /\ s2 \notin {RAX, RDX} /\ IsSource(s2, Cells)
    BY <1>2, <1>3, HomeOf, HomeKinds, HomesDiffer, NotSp, TargetIsSource
  <1>7. PICK op : op = IF signed THEN "idiv" ELSE "div"
    OBVIOUS
  <1>8. g = ((make_mov_rr(c, RAX, s1) \o ExtendOf(signed)) \o <<I(op, c, RAX, s2)>>) \o make_mov_rr(c, dest, RAX)
    BY <1>1, <1>7 DEF DivInside, ExtendOf
  <1>9. v = IF signed THEN ArmQuotient(Signed(c, x), Signed(c, y)) ELSE ArmQuotient(x, y)
    BY <1>1, <1>5 DEF Result
  <1>10. Untranslatable(i, a) <=> y = 0 \/ (signed /\ Signed(c, x) = -(Mod[c] \div 2) /\ Signed(c, y) = -1)
    BY <1>1, <1>5 DEF Untranslatable
  <1>11. v \in Int
    <2>1. Signed(c, x) \in Int /\ Signed(c, y) \in Int
      BY <1>4, <1>5, SignedFacts
    <2> QED
      BY <1>5, <1>9, <2>1, ArmQuotientType
  <1>12. Val(t, c, s1) = x /\ Awake(t, Cells)
    BY <1>4, <1>5, EnteredVal DEF s1, Entered
  <1>13. Get(t, c, s2) = y
    <2>1. m # "xzr" => Get(t, c, translate_reg(m)) = Read(a, c, m)
      BY <1>4, EnteredVal
    <2> QED
      BY <1>3, <1>5, <2>1 DEF s2
  <1> HIDE DEF g, v, dest, s1, s2
  <1>14. PICK p : p = make_mov_rr(c, RAX, s1) /\ IsCode(p) /\ Fetched(t, Run(t, p), c, x, Cells)
    BY <1>6, <1>12, FetchRax
  <1>15. PICK t1 : t1 = Run(t, p) /\ Awake(t1, Cells) /\ t1.mem = t.mem /\ Get(t1, c, RAX) = x /\ Get(t1, c, s2) = y
                   /\ \A o : IsPlace(o, Cells) /\ o # RAX => Full(t1, o) = Full(t, o)
    BY <1>6, <1>13, <1>14 DEF Fetched
  <1>16. PICK w : w = IF signed /\ Signed("w", x) < 0 THEN -1 ELSE 0
    OBVIOUS
  <1>17. PICK hi : hi = Low(c, IF signed /\ Signed(c, x) < 0 THEN -1 ELSE 0)
    OBVIOUS
  <1>18. PICK e, t2 : e = ExtendOf(signed) /\ IsCode(e) /\ t2 = Run(t1, e) /\ Spread(t1, t2, w, Cells) /\ Get(t2, c, RDX) = hi
    <2>1. /\ IsCode(ExtendOf(signed)) /\ Spread(t1, Run(t1, ExtendOf(signed)), IF signed /\ Signed("w", x) < 0 THEN -1 ELSE 0, Cells)
          /\ Get(Run(t1, ExtendOf(signed)), c, RDX) = Low(c, IF signed /\ Signed(c, x) < 0 THEN -1 ELSE 0)
      BY <1>2, <1>15, SpreadRdx
    <2> QED
      BY <1>16, <1>17, <2>1
  <1>19. /\ Awake(t2, Cells) /\ t2.mem = t.mem /\ Get(t2, c, RAX) = x /\ Get(t2, c, s2) = y
         /\ \A o : IsPlace(o, Cells) /\ o \notin {RAX, RDX} => Full(t2, o) = Full(t, o)
    <2>1. IsPlace(RAX, Cells) /\ RAX # RDX
      BY RaxRdx, OperandKinds DEF RAX, RDX
    <2> QED
      BY <1>6, <1>15, <1>18, <2>1 DEF Spread
  <1>20. PICK q, t3 : q = <<I(op, c, RAX, s2)>> /\ IsCode(q) /\ t3 = Run(t2, q)
    BY RunShort
  <1>21. t3 = Divide(t2, signed, c, y)
    <2>1. t3 = Effect(t2, I(op, c, RAX, s2))
      BY <1>19, <1>20, RunOne DEF Awake
    <2>2. CASE signed
      <3>1. op = "idiv" /\ signed = TRUE
        BY <1>7, <2>2
      <3> QED
        BY <1>19, <2>1, <3>1, EffectOfDivide
    <2>3. CASE ~signed
      <3>1. op = "div" /\ signed = FALSE
        BY <1>7, <2>3
      <3> QED
        BY <1>19, <2>1, <3>1, EffectOfDivide
    <2> QED
      BY <2>2, <2>3
  <1>22. PICK k : k = Quotient(signed, c, hi, x, y)
    OBVIOUS
  <1>23. /\ y = 0 \/ ~Fits(signed, c, k) => t3.fault
         /\ y # 0 /\ Fits(signed, c, k) => Calculated(t2, t3, c, k, Cells)
    BY <1>18, <1>19, <1>21, <1>22, DivideLeaves
  <1>24. y # 0 => k = v /\ (Fits(signed, c, k) <=> ~Untranslatable(i, a))
    <2> SUFFICES ASSUME y # 0 PROVE k = v /\ (Fits(signed, c, k) <=> ~Untranslatable(i, a))
      OBVIOUS
    <2>1. CASE signed
      <3>1. signed = TRUE /\ hi = Low(c, IF Signed(c, x) < 0 THEN -1 ELSE 0)
        BY <1>17, <2>1
      <3>2. /\ Quotient(TRUE, c, hi, x, y) = ArmQuotient(Signed(c, x), Signed(c, y))
            /\ Fits(TRUE, c, ArmQuotient(Signed(c, x), Signed(c, y))) <=> ~(Signed(c, x) = -(Mod[c] \div 2) /\ Signed(c, y) = -1)
        BY <1>4, <3>1, SignedQuotient
      <3>3. k = ArmQuotient(Signed(c, x), Signed(c, y)) /\ v = ArmQuotient(Signed(c, x), Signed(c, y))
        BY <1>9, <1>22, <3>1, <3>2
      <3> QED
        BY <1>10, <3>1, <3>2, <3>3
    <2>2. CASE ~signed
      <3>1. signed = FALSE /\ hi = 0
        BY <1>4, <1>17, <2>2, LowZero
      <3>2. Quotient(FALSE, c, 0, x, y) = ArmQuotient(x, y) /\ Fits(FALSE, c, ArmQuotient(x, y))
        BY <1>4, UnsignedQuotient
      <3>3. k = ArmQuotient(x, y) /\ v = ArmQuotient(x, y)
        BY <1>9, <1>22, <3>1, <3>2
      <3> QED
        BY <1>10, <3>1, <3>2, <3>3
    <2> QED
      BY <2>1, <2>2
  <1>25. PICK b : b = (p \o e) \o q /\ IsCode(b) /\ t3 = Run(t, b)
    <2>1. PICK h : h = p \o e /\ IsCode(h) /\ Run(t, h) = t2
      <3>1. IsCode(p \o e) /\ Run(t, p \o e) = Run(Run(t, p), e)
        BY <1>14, <1>18, RunConcat
      <3> QED
        BY <1>15, <1>18, <3>1
    <2>2. IsCode(h \o q) /\ Run(t, h \o q) = Run(Run(t, h), q)
      BY <1>20, <2>1, RunConcat
    <2> QED
      BY <1>20, <2>1, <2>2
  <1>26. g = b \o make_mov_rr(c, dest, RAX)
    BY <1>8, <1>14, <1>18, <1>20, <1>25
  <1>27. CASE Untranslatable(i, a)
    <2>1. t3.fault
      BY <1>10, <1>23, <1>24, <1>27
    <2>2. PICK r : r = make_mov_rr(c, dest, RAX) /\ IsCode(r)
      <3>1. IsHome(dest, Cells) /\ IsHome(RAX, Cells)
        BY <1>6, RaxHome DEF IsHome
      <3> QED
        BY <1>4, <3>1, MovCode, CodedIsCode
    <2>3. Run(t, b \o r) = Run(t3, r)
      BY <1>25, <2>2, RunConcat
    <2>4. Run(t3, r) = t3
      BY <2>1, <2>2, RunStopped
    <2> QED
      BY <1>26, <1>27, <2>1, <2>2, <2>3, <2>4 DEF g
  <1>28. CASE ~Untranslatable(i, a)
    <2>1. Calculated(t2, t3, c, v, Cells)
      BY <1>10, <1>23, <1>24, <1>28
    <2>2. Awake(t3, Cells) /\ t3.mem = t.mem /\ t3.flags = NoFlags /\ Get(t3, c, RAX) = Low(c, v)
          /\ \A o : IsPlace(o, Cells) /\ o \notin {RAX, RDX} => Full(t3, o) = Full(t, o)
      BY <1>19, <2>1 DEF Calculated
    <2>3. Left(t, Run(t, b \o make_mov_rr(c, dest, RAX)), "rdx", dest, c, v, t3.flags, Cells)
      BY <1>6, <1>11, <1>12, <1>25, <2>2, LeaveByRax
    <2> QED
      BY <1>1, <1>26, <1>28, <2>2, <2>3 DEF g, v, dest
  <1> QED
    BY <1>27, <1>28

LEMMA DivDone ==
    ASSUME NEW i \in Operands3({"UDIV", "SDIV"}, Gprs, Gprs, Register), ~Stops(i), ~UsesX2(i), ~HalfSignExtends(i),
           NEW a, NEW s, Sim(a, s)
    PROVE  /\ Run(s, Compile(i)).fault <=> Untranslatable(i, a)
           /\ Fine(i) => Done(i, a, s)
  <1>1. i.c \in Widths /\ i.d \in Gprs /\ i.m.k = "reg" /\ i.op \in {"UDIV", "SDIV"} /\ "d" \in DOMAIN i
    BY DEF Operands3, Register
  <1>2. Active(s, Cells) /\ Awake(s, Cells)
    BY SimFacts DEF Sim
  <1> DEFINE dest == translate_reg(i.d)
             g    == DivInside(i)
  <1>3. Compile(i) = Bracket(R("rdx"), g) /\ IsPlainCode(g, Cells)
    BY DivBracket DEF Bracketed, Coded, Good
  <1>4. IsHome(dest, Cells) /\ dest # R("rdx") /\ dest # RSP /\ "rdx" \in Names \ {"rsp", "rax"}
    BY <1>1, HomeOf, NotSp DEF UsesX2, RDX, Names, Direct
  <1> HIDE DEF dest, g
  <1>5. CASE Untranslatable(i, a)
    <2>1. \A t : Entered(s, t, Cells) => Run(t, g).fault
      BY <1>5, DivRuns DEF g
    <2>2. Run(s, Bracket(R("rdx"), g)).fault
      BY <1>2, <1>3, <1>4, <2>1, BracketFaults
    <2> QED
      BY <1>3, <1>5, <2>2 DEF Done, Does
  <1>6. CASE ~Untranslatable(i, a)
    <2>1. PICK v : v = Result(a, i)
      OBVIOUS
    <2>2. \A t : Entered(s, t, Cells) => Left(t, Run(t, g), "rdx", dest, i.c, v, NoFlags, Cells)
      BY <1>6, <2>1, DivRuns DEF g, dest
    <2>3. Puts(s, Bracket(R("rdx"), g), dest, i.c, v, NoFlags, Cells)
      BY <1>2, <1>3, <1>4, <2>2, BracketPuts
    <2>4. ~Run(s, Compile(i)).fault
      BY <1>2, <1>3, <2>3 DEF Puts, Wrote, Control, Awake
    <2>5. ASSUME Fine(i) PROVE Done(i, a, s)
      <3>1. IsValued(i) /\ i.op \in ValueOps
        BY <1>1, <2>5, FineValued DEF ValueOps
      <3>2. v \in Int
        BY <2>1, <3>1, ResultType, SimFacts
      <3>3. ValuePut(i, a, s, v, NoFlags)
        BY <1>1, <1>3, <2>1, <2>3, <3>2 DEF ValuePut, dest
      <3>4. ClobbersFlags(i)
        BY <1>1 DEF ClobbersFlags, HalfSignExtends, UsesX2
      <3> QED
        BY <2>5, <3>1, <3>3, <3>4, FineValue
    <2> QED
      BY <1>6, <2>4, <2>5
  <1> QED
    BY <1>5, <1>6

------------------------------------------------------------------------------
(* Comparisons                                                              *)
------------------------------------------------------------------------------

(* Code that only sets flags. *)
LEMMA FlagsAgree ==
    ASSUME NEW a, NEW s, Sim(a, s), NEW t, NEW c, NEW v, Wrote(s, t, Zero, c, v, Cells), NEW b, NEW g, b = [a EXCEPT !.flags = g]
    PROVE  Agree(b, t) /\ b.flags = g
  <1>1. a \in ArmState /\ s \in State(Cells) /\ ~a.taken /\ ~s.taken
    BY SimFacts DEF Sim, Active
  <1>2. a.taken = FALSE /\ s.taken = FALSE
    <2>1. a.taken \in BOOLEAN /\ s.taken \in BOOLEAN
      BY <1>1 DEF ArmState, State
    <2> QED
      BY <1>1, <2>1
  <1>3. b.reg = a.reg /\ b.mem = a.mem /\ b.taken = a.taken /\ b.flags = g
    BY <1>1 DEF ArmState
  <1>4. t.mem = b.mem /\ t.taken = b.taken
    BY <1>2, <1>3 DEF Wrote, Control, Sim
  <1>5. ASSUME NEW q \in Guests PROVE Full(t, translate_reg(q)) = b.reg[q]
    <2>1. q \in Gprs \cup Addresses /\ q # "xzr"
      BY GuestAssumption DEF Gprs, Addresses
    <2>2. IsPlace(translate_reg(q), Cells) /\ translate_reg(q) # Zero /\ translate_reg(q) # RAX
      BY <2>1, HomeKinds, HomesDiffer, HomeOf
    <2>3. Full(t, translate_reg(q)) = Full(s, translate_reg(q))
      BY <2>2 DEF Wrote, Kept
    <2> QED
      BY <1>3, <2>3 DEF Sim, Same
  <1> QED
    BY <1>3, <1>4, <1>5 DEF Agree, Same

LEMMA FlagsDone ==
    ASSUME NEW i, NEW a, NEW s, Sim(a, s), NEW c, NEW v, NEW f, Puts(s, Compile(i), Zero, c, v, f, Cells),
           NEW g, ArmStep(a, i) = [a EXCEPT !.flags = g],
           \A b, t : b.flags = g /\ t.flags = f => Follow(i, a, s, b, t)
    PROVE  Done(i, a, s)
  <1>1. PICK b, t : b = ArmStep(a, i) /\ t = Run(s, Compile(i))
    OBVIOUS
  <1>2. Wrote(s, t, Zero, c, v, Cells) /\ t.flags = f
    BY <1>1 DEF Puts
  <1>3. Agree(b, t) /\ b.flags = g
    BY <1>1, <1>2, FlagsAgree
  <1>4. Follow(i, a, s, b, t)
    BY <1>2, <1>3
  <1> QED
    BY <1>1, <1>3, <1>4 DEF Done, Does

(* A sum in rax. *)
LEMMA PutsSum ==
    ASSUME NEW s, Awake(s, Cells), NEW c \in Widths, NEW n, IsHome(n, Cells), NEW x, x = Val(s, c, n),
           NEW b, NEW y \in Int, \A t : Fetched(s, t, c, x, Cells) =>
                         Puts(t, b, RAX, c, Alu("add", x, y), AddFlags(c, x, y), Cells)
    PROVE  \E v : Puts(s, make_mov_rr(c, RAX, n) \o b, Zero, c, v, AddFlags(c, x, y), Cells)
  <1>1. PICK p : p = make_mov_rr(c, RAX, n)
    OBVIOUS
  <1>2. IsCode(p) /\ Fetched(s, Run(s, p), c, x, Cells)
    BY <1>1, FetchRax
  <1>3. PICK f : Puts(s, p, RAX, c, Val(s, c, n), f, Cells)
    BY <1>1, PutsMovRr, RaxRdx
  <1>4. Puts(Run(s, p), b, RAX, c, Alu("add", x, y), AddFlags(c, x, y), Cells)
    BY <1>2
  <1>5. Val(s, c, n) \in Int /\ Alu("add", x, y) \in Int
    <2>1. s \in State(Cells) /\ c \in Bytewide
      BY WidthFacts DEF Awake
    <2>2. Val(s, c, n) \in Int
      BY <2>1, ValType
    <2> QED
      BY <2>2 DEF Alu
  <1>6. Puts(s, p \o b, RAX, c, Alu("add", x, y), AddFlags(c, x, y), Cells)
    <2>1. IsPlace(RAX, Cells) /\ c \in Bytewide
      BY RaxRdx, WidthFacts
    <2> QED
      BY <1>3, <1>4, <1>5, <2>1, PutsAgain
  <1> QED
    BY <1>1, <1>6, RaxIsHome

(* The flags of a comparison, or any flags at all after a form that gets them wrong. *)
LEMMA CompareSets ==
    ASSUME NEW i, i.op \in {"CMP", "CMN"}, IsCompared(i), i.c \in Widths, NEW a, NEW s, Sim(a, s), NEW c, NEW v, NEW f,
           Puts(s, Compile(i), Zero, c, v, f, Cells),
           WrongFlags(i) \/ f = RightFlags(i.op, i.c, Read(a, i.c, i.n), Second(a, i.c, i.m))
    PROVE  Done(i, a, s)
  <1>1. ArmStep(a, i) = [a EXCEPT !.flags = Compare(a, i, i.op)]
    BY DEF ArmStep, MemoryOps, Loads, Stores
  <1>2. Read(a, i.c, i.n) \in Int /\ Second(a, i.c, i.m) \in Int
    <2>1. Read(a, i.c, i.n) \in Nat /\ Second(a, i.c, i.m) \in Nat
      BY ReadType, SecondType, SimFacts DEF IsCompared
    <2> QED
      BY <2>1
  <1>3. i.op \in Comparing /\ i.op \in FlagSetters /\ i.c \in Bytewide
    BY WidthFacts DEF Comparing, FlagSetters
  <1>4. ASSUME NEW b, NEW t, b.flags = Compare(a, i, i.op), t.flags = f PROVE Follow(i, a, s, b, t)
    <2>1. CASE WrongFlags(i)
      BY <1>3, <2>1, LostFollows
    <2>2. CASE f = RightFlags(i.op, i.c, Read(a, i.c, i.n), Second(a, i.c, i.m))
      BY <1>2, <1>3, <1>4, <2>2, CompareFollows
    <2> QED
      BY <2>1, <2>2
  <1> QED
    BY <1>1, <1>4, FlagsDone

LEMMA CompareRegisterDone ==
    ASSUME NEW i \in Operands2({"CMP", "CMN"}, Gprs, Register), Fine(i), NEW a, NEW s, Sim(a, s)
    PROVE  Done(i, a, s)
  <1>1. PICK c \in Widths, n \in Gprs, m \in Gprs :
            c = i.c /\ n = i.n /\ m = i.m.r /\ i.m.k = "reg" /\ i.op \in {"CMP", "CMN"} /\ "n" \in DOMAIN i
    BY DEF Operands2, Register
  <1>2. m # "xzr" /\ (i.op = "CMP" => n # "xzr")
    <2>1. "m" \in XzrPanics(i) /\ (i.op = "CMP" => "n" \in XzrPanics(i))
      BY <1>1 DEF XzrPanics, Is
    <2> QED
      BY <1>1, <2>1, FineFacts
  <1> DEFINE t1 == translate_reg(n)
             t2 == translate_reg(m)
  <1>3. /\ IsHome(t1, Cells) /\ IsPlace(t2, Cells) /\ t2 # RAX /\ t1 # RAX /\ (n # "xzr" => IsPlace(t1, Cells))
        /\ Awake(s, Cells) /\ s \in State(Cells) /\ a \in ArmState /\ c \in Bytewide
    BY <1>2, HomeOf, HomeKinds, HomesDiffer, SimFacts, WidthFacts
  <1>4. PICK x \in Int, y \in Int : x = Read(a, c, n) /\ y = Read(a, c, m) /\ x = Val(s, c, t1) /\ y = Get(s, c, t2)
                                    /\ (n # "xzr" => x = Get(s, c, t1))
    BY <1>2, <1>3, ReadVal
  <1>5. IsCompared(i) /\ y = Second(a, c, i.m)
    <2>1. i.c \in Bytewide /\ i.n \in Gprs \cup Addresses /\ SecondOK(i.m)
      BY <1>1, <1>3 DEF SecondOK
    <2> QED
      BY <1>1, <1>3, <1>4, <2>1, SecondIs DEF IsCompared
  <1>6. Compile(i) = IF i.op = "CMP" THEN make_cmp_rr(c, t1, t2) ELSE make_mov_rr(c, RAX, t1) \o make_rr("add", c, RAX, t2)
    BY <1>1 DEF Compile, MemoryOps, Loads, Stores, Branches, compile_arith, translate_cmp_cmn
  <1> HIDE DEF t1, t2
  <1>7. PICK k, v, f : Puts(s, Compile(i), Zero, k, v, f, Cells) /\ f = RightFlags(i.op, c, x, y)
    <2>1. CASE i.op = "CMP"
      <3>1. Puts(s, make_cmp_rr(c, t1, t2), Zero, "x", 0, SubFlags(c, Get(s, c, t1), Get(s, c, t2)), Cells)
        BY <1>2, <1>3, <2>1, PutsCmpRr
      <3>2. SubFlags(c, x, y) = RightFlags(i.op, c, x, y)
        BY <2>1 DEF RightFlags, Adding
      <3> QED
        BY <1>2, <1>4, <1>6, <2>1, <3>1, <3>2
    <2>2. CASE i.op = "CMN"
      <3>1. ASSUME NEW t, Fetched(s, t, c, x, Cells)
            PROVE  Puts(t, make_rr("add", c, RAX, t2), RAX, c, Alu("add", x, y), AddFlags(c, x, y), Cells)
        <4>1. Awake(t, Cells) /\ Get(t, c, RAX) = x /\ Get(t, c, t2) = y /\ "add" \in Writing
          BY <1>3, <1>4, <3>1 DEF Fetched, Writing, AluOps
        <4>2. Puts(t, make_rr("add", c, RAX, t2), RAX, c, Binary("add", Get(t, c, RAX), Get(t, c, t2)),
                   BinaryFlags("add", c, t.flags, Get(t, c, RAX), Get(t, c, t2)), Cells)
          BY <1>3, <4>1, PutsMakeRr, RaxRdx
        <4>3. Binary("add", x, y) = Alu("add", x, y) /\ BinaryFlags("add", c, t.flags, x, y) = AddFlags(c, x, y)
          BY DEF Binary, BinaryFlags, AluFlags
        <4> QED
          BY <4>1, <4>2, <4>3
      <3>2. \E v : Puts(s, make_mov_rr(c, RAX, t1) \o make_rr("add", c, RAX, t2), Zero, c, v, AddFlags(c, x, y), Cells)
        BY <1>3, <1>4, <3>1, PutsSum
      <3>3. AddFlags(c, x, y) = RightFlags(i.op, c, x, y)
        BY <2>2 DEF RightFlags, Adding
      <3> QED
        BY <1>6, <2>2, <3>2, <3>3
    <2> QED
      BY <1>1, <2>1, <2>2
  <1>8. f = RightFlags(i.op, i.c, Read(a, i.c, i.n), Second(a, i.c, i.m))
    BY <1>1, <1>4, <1>5, <1>7
  <1>9. i.op \in {"CMP", "CMN"} /\ i.c \in Widths
    BY <1>1
  <1> QED
    BY <1>5, <1>7, <1>8, <1>9, CompareSets

LEMMA CompareConstantDone ==
    ASSUME NEW i \in Operands2({"CMP", "CMN"}, Addresses, [k : {"imm"}, v : Short, lsl : Nat]), Fine(i), NEW a, NEW s, Sim(a, s)
    PROVE  Done(i, a, s)
  <1>1. PICK c \in Widths, n \in Addresses, m \in Short :
            c = i.c /\ n = i.n /\ m = i.m.v /\ i.m.k = "imm" /\ i.op \in {"CMP", "CMN"} /\ i.m.lsl \in Nat
    BY DEF Operands2
  <1> DEFINE t1 == translate_reg(n)
  <1>2. /\ IsHome(t1, Cells) /\ IsPlace(t1, Cells) /\ n # "xzr"
        /\ Awake(s, Cells) /\ s \in State(Cells) /\ a \in ArmState /\ c \in Bytewide
    BY GuestNames, HomeOf, HomeKinds, SimFacts, WidthFacts
  <1>3. m \in Int /\ m = Low(c, Signed("w", m)) /\ Low(c, m) = m
    BY ShortFacts
  <1>4. PICK x \in Int : x = Read(a, c, n) /\ x = Val(s, c, t1) /\ x = Get(s, c, t1)
    BY <1>2, ReadVal
  <1>5. IsCompared(i) /\ (i.m.lsl = 0 => m = Second(a, c, i.m))
    <2>1. i.c \in Bytewide /\ i.n \in Gprs \cup Addresses /\ SecondOK(i.m)
      BY <1>1, <1>2, <1>3 DEF SecondOK
    <2> QED
      BY <1>1, <1>2, <1>3, <2>1, SecondIs DEF IsCompared
  <1>6. Compile(i) = IF i.op = "CMP" THEN make_ri("cmp", c, t1, m) ELSE make_mov_rr(c, RAX, t1) \o make_ri("add", c, RAX, m)
    BY <1>1 DEF Compile, MemoryOps, Loads, Stores, Branches, compile_arith, translate_cmp_cmn
  <1> HIDE DEF t1
  <1>7. PICK k, v, f : Puts(s, Compile(i), Zero, k, v, f, Cells) /\ f = RightFlags(i.op, c, x, m)
    <2>1. CASE i.op = "CMP"
      <3>1. Puts(s, make_ri("cmp", c, t1, m), Zero, "x", 0, SubFlags(c, Get(s, c, t1), Low(c, Signed("w", m))), Cells)
        BY <1>2, <1>3, PutsCmpRi
      <3>2. SubFlags(c, x, m) = RightFlags(i.op, c, x, m)
        BY <2>1 DEF RightFlags, Adding
      <3> QED
        BY <1>3, <1>4, <1>6, <2>1, <3>1, <3>2
    <2>2. CASE i.op = "CMN"
      <3>1. ASSUME NEW t, Fetched(s, t, c, x, Cells)
            PROVE  Puts(t, make_ri("add", c, RAX, m), RAX, c, Alu("add", x, m), AddFlags(c, x, m), Cells)
        <4>1. Awake(t, Cells) /\ Get(t, c, RAX) = x /\ "add" \in Writing
          BY <3>1 DEF Fetched, Writing, AluOps
        <4>2. Puts(t, make_ri("add", c, RAX, m), RAX, c, Binary("add", Get(t, c, RAX), m),
                   BinaryFlags("add", c, t.flags, Get(t, c, RAX), m), Cells)
          BY <1>3, <4>1, PutsRi, RaxRdx
        <4>3. Binary("add", x, m) = Alu("add", x, m) /\ BinaryFlags("add", c, t.flags, x, m) = AddFlags(c, x, m)
          BY DEF Binary, BinaryFlags, AluFlags
        <4> QED
          BY <4>1, <4>2, <4>3
      <3>2. \E v : Puts(s, make_mov_rr(c, RAX, t1) \o make_ri("add", c, RAX, m), Zero, c, v, AddFlags(c, x, m), Cells)
        BY <1>2, <1>3, <1>4, <3>1, PutsSum
      <3>3. AddFlags(c, x, m) = RightFlags(i.op, c, x, m)
        BY <2>2 DEF RightFlags, Adding
      <3> QED
        BY <1>6, <2>2, <3>2, <3>3
    <2> QED
      BY <1>1, <2>1, <2>2
  <1>8. WrongFlags(i) \/ i.m.lsl = 0
    BY <1>1 DEF WrongFlags, SetsWrongFlags, FlagSetters, Is
  <1>9. WrongFlags(i) \/ f = RightFlags(i.op, i.c, Read(a, i.c, i.n), Second(a, i.c, i.m))
    BY <1>1, <1>4, <1>5, <1>7, <1>8
  <1>10. i.op \in {"CMP", "CMN"} /\ i.c \in Widths
    BY <1>1
  <1> QED
    BY <1>5, <1>7, <1>9, <1>10, CompareSets

------------------------------------------------------------------------------
(* Conditions, selections and branches                                      *)
------------------------------------------------------------------------------

(* The flags stand for the guest's in a way that i does not misread. *)
Kinds == {"sum", "borrow", "zero", "lost"}
Reads(i, arm, f) == Always(i) \/ \E kind \in Kinds : Stand(kind, arm, f) /\ ~Misread(kind, i)

(* A condition of the guest's, tested with cc. *)
Tested(i, arm, f) ==
    /\ i.op # "CSEL" => (Holds(jcc_cc[i.cond], f) <=> Condition(i.cond, arm))
    /\ i.op = "CSEL" => (Holds(cmov_cc[i.cond], f) <=> Condition(i.cond, arm))
    /\ i.op # "CSEL" /\ ~Always(i) => (Holds(jcc_cc[inverse_condition[i.cond]], f) <=> ~Condition(i.cond, arm))

LEMMA TablesAre ==
    /\ jcc_cc["EQ"] = "e" /\ jcc_cc["NE"] = "ne" /\ jcc_cc["LT"] = "l" /\ jcc_cc["GE"] = "ge" /\ jcc_cc["GT"] = "g" /\ jcc_cc["LE"] = "le"
    /\ jcc_cc["CC"] = "ae" /\ jcc_cc["CS"] = "b" /\ jcc_cc["HI"] = "a" /\ jcc_cc["LS"] = "be" /\ jcc_cc["VC"] = "no" /\ jcc_cc["VS"] = "o"
    /\ jcc_cc["MI"] = "s" /\ jcc_cc["PL"] = "ns" /\ jcc_cc["AL"] = "always" /\ jcc_cc["NV"] = "always"
    /\ cmov_cc["CS"] = "ae" /\ cmov_cc["CC"] = "b" /\ \A cond \in Conditions \ {"CS", "CC"} : cmov_cc[cond] = jcc_cc[cond]
    /\ inverse_condition["EQ"] = "NE" /\ inverse_condition["NE"] = "EQ" /\ inverse_condition["LT"] = "GE" /\ inverse_condition["GE"] = "LT"
    /\ inverse_condition["GT"] = "LE" /\ inverse_condition["LE"] = "GT" /\ inverse_condition["CC"] = "CS" /\ inverse_condition["CS"] = "CC"
    /\ inverse_condition["HI"] = "LS" /\ inverse_condition["LS"] = "HI" /\ inverse_condition["VC"] = "VS" /\ inverse_condition["VS"] = "VC"
    /\ inverse_condition["MI"] = "PL" /\ inverse_condition["PL"] = "MI"
  <1>1. \A cond \in Conditions \ {"CS", "CC"} : cmov_cc[cond] = jcc_cc[cond]
    BY DEF cmov_cc, Conditions
  <1>2. cmov_cc["CS"] = "ae" /\ cmov_cc["CC"] = "b"
    BY DEF cmov_cc, jcc_cc
  <1>3. /\ jcc_cc["EQ"] = "e" /\ jcc_cc["NE"] = "ne" /\ jcc_cc["LT"] = "l" /\ jcc_cc["GE"] = "ge" /\ jcc_cc["GT"] = "g" /\ jcc_cc["LE"] = "le"
        /\ jcc_cc["CC"] = "ae" /\ jcc_cc["CS"] = "b" /\ jcc_cc["HI"] = "a" /\ jcc_cc["LS"] = "be" /\ jcc_cc["VC"] = "no" /\ jcc_cc["VS"] = "o"
        /\ jcc_cc["MI"] = "s" /\ jcc_cc["PL"] = "ns" /\ jcc_cc["AL"] = "always" /\ jcc_cc["NV"] = "always"
    BY DEF jcc_cc
  <1>4. /\ inverse_condition["EQ"] = "NE" /\ inverse_condition["NE"] = "EQ" /\ inverse_condition["LT"] = "GE" /\ inverse_condition["GE"] = "LT"
        /\ inverse_condition["GT"] = "LE" /\ inverse_condition["LE"] = "GT" /\ inverse_condition["CC"] = "CS" /\ inverse_condition["CS"] = "CC"
        /\ inverse_condition["HI"] = "LS" /\ inverse_condition["LS"] = "HI" /\ inverse_condition["VC"] = "VS" /\ inverse_condition["VS"] = "VC"
        /\ inverse_condition["MI"] = "PL" /\ inverse_condition["PL"] = "MI"
    BY DEF inverse_condition
  <1> QED
    BY <1>1, <1>2, <1>3, <1>4

LEMMA HoldsIs ==
    \A f : /\ (Holds("e", f) <=> f.z = 1) /\ (Holds("ne", f) <=> f.z = 0) /\ (Holds("s", f) <=> f.n = 1) /\ (Holds("ns", f) <=> f.n = 0)
           /\ (Holds("o", f) <=> f.v = 1) /\ (Holds("no", f) <=> f.v = 0) /\ (Holds("b", f) <=> f.c = 1) /\ (Holds("ae", f) <=> f.c = 0)
           /\ (Holds("be", f) <=> f.c = 1 \/ f.z = 1) /\ (Holds("a", f) <=> f.c = 0 /\ f.z = 0)
           /\ (Holds("l", f) <=> f.n # f.v) /\ (Holds("ge", f) <=> f.n = f.v)
           /\ (Holds("le", f) <=> f.z = 1 \/ f.n # f.v) /\ (Holds("g", f) <=> f.z = 0 /\ f.n = f.v) /\ Holds("always", f)
  BY DEF Holds

LEMMA ConditionIs ==
    \A f : /\ (Condition("EQ", f) <=> f.z = 1) /\ (Condition("NE", f) <=> f.z = 0) /\ (Condition("MI", f) <=> f.n = 1) /\ (Condition("PL", f) <=> f.n = 0)
           /\ (Condition("VS", f) <=> f.v = 1) /\ (Condition("VC", f) <=> f.v = 0) /\ (Condition("CS", f) <=> f.c = 1) /\ (Condition("CC", f) <=> f.c = 0)
           /\ (Condition("LS", f) <=> f.c = 0 \/ f.z = 1) /\ (Condition("HI", f) <=> f.c = 1 /\ f.z = 0)
           /\ (Condition("LT", f) <=> f.n # f.v) /\ (Condition("GE", f) <=> f.n = f.v)
           /\ (Condition("LE", f) <=> f.z = 1 \/ f.n # f.v) /\ (Condition("GT", f) <=> f.z = 0 /\ f.n = f.v)
           /\ Condition("AL", f) /\ Condition("NV", f)
  BY DEF Condition

(* What the flags of a kind have in common with the guest's. *)
LEMMA StandFacts ==
    ASSUME NEW arm \in ArmFlags, NEW f, NEW kind \in Kinds \ {"lost"}, Stand(kind, arm, f)
    PROVE  /\ f.z = arm.z /\ f.n = arm.n /\ f.v = arm.v /\ arm.z \in {0, 1} /\ arm.n \in {0, 1} /\ arm.c \in {0, 1} /\ arm.v \in {0, 1}
           /\ kind # "borrow" => f.c = arm.c
           /\ kind = "borrow" => f.c = 1 - arm.c
           /\ kind = "zero" => arm.z = 1
  BY DEF Stand, ArmFlags, Kinds

LEMMA ConditionRead ==
    ASSUME NEW i, i.cond \in Conditions, NEW arm \in ArmFlags, NEW f, Reads(i, arm, f)
    PROVE  Tested(i, arm, f)
  <1>1. CASE Always(i)
    <2>1. jcc_cc[i.cond] = "always" /\ cmov_cc[i.cond] = "always"
      BY <1>1, TablesAre DEF Always
    <2>2. Condition(i.cond, arm) /\ Holds("always", f)
      BY <1>1, ConditionIs, HoldsIs DEF Always
    <2> QED
      BY <1>1, <2>1, <2>2 DEF Tested
  <1>2. CASE ~Always(i)
    <2>1. PICK kind \in Kinds : Stand(kind, arm, f) /\ ~Misread(kind, i)
      BY <1>2 DEF Reads
    <2>2. /\ kind # "lost"
          /\ i.cond \in {"CS", "CC"} => (kind = "borrow" <=> i.op = "CSEL")
          /\ i.cond \in {"HI", "LS"} => kind # "sum"
      BY <2>1 DEF Misread
    <2>3. /\ f.z = arm.z /\ f.n = arm.n /\ f.v = arm.v /\ arm.z \in {0, 1} /\ arm.n \in {0, 1} /\ arm.c \in {0, 1} /\ arm.v \in {0, 1}
          /\ kind # "borrow" => f.c = arm.c
          /\ kind = "borrow" => f.c = 1 - arm.c
          /\ kind = "zero" => arm.z = 1
      BY <2>1, <2>2, StandFacts
    <2>4. i.cond \in {"EQ", "NE", "LT", "GE", "GT", "LE", "CC", "CS", "HI", "LS", "VC", "VS", "MI", "PL"}
      BY <1>2, ConditionsAre DEF Always
    <2>5. CASE i.cond \in {"EQ", "NE", "MI", "PL", "VS", "VC"}
      BY <1>2, <2>3, <2>5, TablesAre, HoldsIs, ConditionIs, ConditionsAre DEF Tested
    <2>6. CASE i.cond \in {"LT", "GE", "GT", "LE"}
      BY <1>2, <2>3, <2>6, TablesAre, HoldsIs, ConditionIs, ConditionsAre DEF Tested
    <2>7. CASE i.cond \in {"CC", "CS"}
      BY <1>2, <2>2, <2>3, <2>7, TablesAre, HoldsIs, ConditionIs DEF Tested
    <2>8. CASE i.cond \in {"HI", "LS"}
      <3>1. kind \in {"borrow", "zero"}
        BY <2>2, <2>8 DEF Kinds
      <3> QED
        BY <1>2, <2>3, <2>8, <3>1, TablesAre, HoldsIs, ConditionIs, ConditionsAre DEF Tested
    <2> QED
      BY <2>4, <2>5, <2>6, <2>7, <2>8
  <1> QED
    BY <1>1, <1>2

------------------------------------------------------------------------------
(* The flags of one and zero. *)
LEMMA NoFlagSet == AddFlags("w", 0, 1) = [n |-> 0, z |-> 0, c |-> 0, v |-> 0]
  <1>1. PICK h \in Nat : h = Mod["w"] \div 2 /\ 2 * h = Mod["w"]
    BY WidthFacts DEF Bytewide
  <1>2. Mod["w"] >= 4
    <2>1. Mod["w"] = Mod["h"] * Mod["h"] /\ Mod["h"] >= 2 /\ Mod["h"] \in Nat
      BY WidthFacts DEF Bytewide
    <2>2. PICK m \in Nat : m = Mod["h"]
      BY <2>1
    <2>3. m * m >= 2 * m
      BY <2>1, <2>2
    <2> QED
      BY <2>1, <2>2, <2>3
  <1>3. 0 \in Words("w") /\ 1 \in Words("w") /\ "w" \in Bytewide /\ Mod["w"] \in Nat
    BY <1>2, WidthFacts DEF Words, Bytewide
  <1>4. Low("w", 0) = 0 /\ Low("w", 1) = 1
    BY <1>3, LowId
  <1>5. Signed("w", 0) = 0 /\ Signed("w", 1) = 1
    BY <1>1, <1>2, <1>4 DEF Signed
  <1>6. Bit(FALSE) = 0
    BY BitIs
  <1>7. AddFlags("w", 0, 1) = [z |-> Bit(Low("w", 1) = 0), n |-> Bit(Signed("w", 1) < 0), c |-> Bit(1 >= Mod["w"]),
                               v |-> Bit(Signed("w", 0) + Signed("w", 1) # Signed("w", 1))]
    BY DEF AddFlags, Flags
  <1>8. Bit(Low("w", 1) = 0) = 0 /\ Bit(Signed("w", 1) < 0) = 0 /\ Bit(1 >= Mod["w"]) = 0 /\ Bit(Signed("w", 0) + Signed("w", 1) # Signed("w", 1)) = 0
    BY <1>2, <1>3, <1>4, <1>5 DEF Bit
  <1> QED
    BY <1>7, <1>8

LEMMA SetFlagsPuts ==
    ASSUME NEW s, Awake(s, Cells), NEW nzcv \in ArmFlags
    PROVE  \E v : Puts(s, set_flags(nzcv), Zero, "x", v, nzcv, Cells)
  <1>1. s \in State(Cells) /\ IsPlace(RAX, Cells) /\ "w" \in Widths /\ "w" \in Bytewide /\ nzcv \in FlagWords
    BY RaxRdx, WidthsAre DEF Awake, Widths, ArmFlags, FlagWords
  <1>2. CASE nzcv = [n |-> 0, z |-> 0, c |-> 0, v |-> 0]
    <2>1. PICK x : x = <<I("mov", "w", RAX, N(0))>> /\ Puts(s, x, RAX, "w", Binary("mov", Get(s, "w", RAX), Get(s, "w", N(0))),
                       BinaryFlags("mov", "w", s.flags, Get(s, "w", RAX), Get(s, "w", N(0))), Cells)
      <3>1. IsSource(N(0), Cells) /\ "mov" \in Writing
        BY DEF IsSource, Writing
      <3> QED
        BY <1>1, <3>1, PutsTwo
    <2>2. Puts(s, x, RAX, "w", 0, s.flags, Cells)
      <3>1. Get(s, "w", N(0)) = 0
        BY <1>1, GetNumber, LowZero
      <3> QED
        BY <2>1, <3>1 DEF Binary, BinaryFlags
    <2>3. PICK t : t = Run(s, x) /\ Awake(t, Cells) /\ Get(t, "w", RAX) = 0
      <3>1. Awake(Run(s, x), Cells)
        BY <2>2, AwakeRun
      <3>2. Get(Run(s, x), "w", RAX) = Low("w", 0)
        <4>1. Wrote(s, Run(s, x), RAX, "w", 0, Cells) /\ 0 \in Int
          BY <2>2 DEF Puts
        <4> QED
          BY <1>1, <4>1, WroteGet
      <3> QED
        BY <1>1, <3>1, <3>2, LowZero
    <2>4. PICK y : y = <<I("add", "w", RAX, N(1))>> /\ Puts(t, y, RAX, "w", Binary("add", Get(t, "w", RAX), Get(t, "w", N(1))),
                       BinaryFlags("add", "w", t.flags, Get(t, "w", RAX), Get(t, "w", N(1))), Cells)
      <3>1. IsSource(N(1), Cells) /\ "add" \in Writing
        BY DEF IsSource, Writing, AluOps
      <3> QED
        BY <1>1, <2>3, <3>1, PutsTwo
    <2>5. Puts(t, y, RAX, "w", 1, nzcv, Cells)
      <3>1. Get(t, "w", N(1)) = 1
        <4>1. 1 \in Words("w")
          BY WidthFacts DEF Words, Bytewide
        <4> QED
          BY <1>1, <4>1, GetNumber, LowId
      <3>2. Binary("add", 0, 1) = 1 /\ BinaryFlags("add", "w", t.flags, 0, 1) = AddFlags("w", 0, 1)
        BY DEF Binary, BinaryFlags, Alu, AluFlags
      <3> QED
        BY <1>2, <2>3, <2>4, <3>1, <3>2, NoFlagSet
    <2>6. Puts(s, x \o y, RAX, "w", 1, nzcv, Cells)
      BY <1>1, <2>2, <2>3, <2>5, PutsAgain
    <2>7. set_flags(nzcv) = x \o y
      BY <1>2, <2>1, <2>4, TwoParts DEF set_flags
    <2> QED
      BY <2>6, <2>7, RaxIsHome, ZeroAny
  <1>3. CASE nzcv # [n |-> 0, z |-> 0, c |-> 0, v |-> 0]
    <2>1. Effect(s, Iw("popf", "x", RAX, RAX, nzcv)) = [s EXCEPT !.flags = nzcv]
      BY EffectOfWide
    <2>2. Puts(s, <<Iw("popf", "x", RAX, RAX, nzcv)>>, Zero, "x", 0, nzcv, Cells)
      BY <1>1, <2>1, PutsFlags
    <2> QED
      BY <1>3, <2>2 DEF set_flags
  <1> QED
    BY <1>2, <1>3

LEMMA ChooseFollows ==
    ASSUME NEW i, i.op = "CCMP", IsCompared(i), i.nzcv \in ArmFlags, NEW a, NEW s, NEW b, NEW t,
           Read(a, i.c, i.n) \in Int, Second(a, i.c, i.m) \in Int,
           b.flags = (IF Condition(i.cond, a.flags) THEN Compare(a, i, "CMP") ELSE i.nzcv),
           t.flags = (IF Condition(i.cond, a.flags) THEN SubFlags(i.c, Read(a, i.c, i.n), Second(a, i.c, i.m)) ELSE i.nzcv)
    PROVE  Follow(i, a, s, b, t)
  <1>1. i.op \in FlagSetters /\ ~WrongFlags(i)
    BY DEF FlagSetters, WrongFlags, SetsWrongFlags, OverwritesSecond, OverwritesFirst, SubtractsBackwards, Is
  <1>2. CASE Condition(i.cond, a.flags)
    <2>1. "borrow" \in KindsAfter(i)
      BY <1>1 DEF KindsAfter
    <2>2. b.flags = ArmSubFlags(i.c, Read(a, i.c, i.n), Second(a, i.c, i.m))
      BY <1>2 DEF Compare, Adding
    <2>3. t.flags = [b.flags EXCEPT !.c = 1 - @]
      BY <1>2, <2>2, BorrowInverts DEF IsCompared
    <2>4. Stand("borrow", b.flags, t.flags)
      BY <2>3 DEF Stand
    <2> QED
      BY <1>1, <2>1, <2>4 DEF Follow
  <1>3. CASE ~Condition(i.cond, a.flags)
    <2>1. ~Always(i)
      BY <1>3, ConditionIs DEF Always
    <2>2. PICK kind \in {"zero", "sum"} : kind = IF i.nzcv.z = 1 THEN "zero" ELSE "sum"
      OBVIOUS
    <2>3. kind \in KindsAfter(i)
      BY <1>1, <2>1, <2>2 DEF KindsAfter
    <2>4. Stand(kind, b.flags, t.flags)
      BY <1>3, <2>2 DEF Stand
    <2> QED
      BY <1>1, <2>3, <2>4 DEF Follow
  <1> QED
    BY <1>2, <1>3

LEMMA ChooseDone ==
    ASSUME NEW i \in [op : {"CCMP"}, c : Widths, n : Gprs, m : Register \cup Constant(Short), cond : Conditions, nzcv : ArmFlags],
           Fine(i), NEW a, NEW s, Sim(a, s), Reads(i, a.flags, s.flags)
    PROVE  Done(i, a, s)
  <1> DEFINE t1 == translate_reg(i.n)
             t2 == translate_reg(i.m.r)
             compare == IF i.m.k = "reg" THEN make_cmp_rr(i.c, t1, t2) ELSE make_ri("cmp", i.c, t1, i.m.v)
  <1>1. /\ i.op = "CCMP" /\ "n" \in DOMAIN i /\ i.n \in Gprs /\ i.c \in Widths /\ i.nzcv \in ArmFlags /\ i.cond \in Conditions
        /\ \/ i.m.k = "reg" /\ i.m.r \in Gprs
           \/ i.m.k = "imm" /\ i.m.v \in Short /\ i.m.lsl = 0
    BY DEF Register, Constant
  <1>2. Compile(i) = Choose2(jcc_cc[i.cond], set_flags(i.nzcv), compare)
    <2>1. Compile(i) = translate_ccmp(i)
      BY <1>1 DEF Compile, MemoryOps, Loads, Stores, Branches, compile_arith
    <2> QED
      BY <2>1 DEF translate_ccmp, make_jcc, Choose2
  <1>3. i.n # "xzr" /\ (i.m.k = "reg" => i.m.r # "xzr")
    <2>1. XzrPanics(i) = {"n", "m"}
      BY <1>1 DEF XzrPanics, Is
    <2> QED
      BY <1>1, <2>1, FineFacts
  <1>4. PICK c \in Widths : c = i.c /\ c \in Bytewide
    BY <1>1, WidthFacts
  <1>5. Awake(s, Cells) /\ s \in State(Cells) /\ a \in ArmState /\ a.flags \in ArmFlags
    BY SimFacts DEF ArmState
  <1>6. PICK x \in Int : x = Read(a, c, i.n) /\ x = Get(s, c, t1)
    <2>1. PICK n \in Gprs : n = i.n
      BY <1>1
    <2>2. Get(s, c, translate_reg(n)) = Read(a, c, n) /\ Read(a, c, n) \in Nat
      BY <1>3, <1>4, <2>1, ReadVal
    <2> QED
      BY <2>1, <2>2
  <1>7. IsPlace(t1, Cells)
    BY <1>1, <1>3, HomeKinds
  <1>8. PICK y \in Int : y = Second(a, c, i.m) /\ Puts(s, compare, Zero, "x", 0, SubFlags(c, x, y), Cells)
    <2>1. CASE i.m.k = "reg"
      <3>1. PICK r \in Gprs : r = i.m.r /\ r # "xzr"
        BY <1>1, <1>3, <2>1
      <3>2. PICK y \in Int : y = Read(a, c, r) /\ y = Get(s, c, t2)
        <4>1. Get(s, c, translate_reg(r)) = Read(a, c, r) /\ Read(a, c, r) \in Nat
          BY <1>4, <3>1, ReadVal
        <4> QED
          BY <3>1, <4>1
      <3>3. y = Second(a, c, i.m)
        BY <1>4, <1>5, <2>1, <3>1, <3>2, SecondIs
      <3>4. IsPlace(t2, Cells) /\ t2 # RAX
        BY <3>1, HomeKinds, HomesDiffer
      <3>5. compare = make_cmp_rr(c, t1, t2)
        BY <1>4, <2>1
      <3> HIDE DEF t1, t2, compare
      <3>6. Puts(s, make_cmp_rr(c, t1, t2), Zero, "x", 0, SubFlags(c, Get(s, c, t1), Get(s, c, t2)), Cells)
        BY <1>5, <1>7, <3>4, PutsCmpRr
      <3> QED
        BY <1>6, <3>2, <3>3, <3>5, <3>6
    <2>2. CASE i.m.k = "imm"
      <3>1. PICK y \in Short : y = i.m.v
        BY <1>1, <2>2
      <3>2. y \in Int /\ y = Low(c, Signed("w", y)) /\ Low(c, y) = y
        BY ShortFacts
      <3>3. y = Second(a, c, i.m)
        BY <1>1, <1>4, <1>5, <2>2, <3>1, <3>2, SecondIs
      <3>4. compare = make_ri("cmp", c, t1, y)
        BY <1>4, <2>2, <3>1
      <3> HIDE DEF t1, t2, compare
      <3>5. Puts(s, make_ri("cmp", c, t1, y), Zero, "x", 0, SubFlags(c, Get(s, c, t1), Low(c, Signed("w", y))), Cells)
        BY <1>5, <1>7, <3>2, PutsCmpRi
      <3> QED
        BY <1>6, <3>2, <3>3, <3>4, <3>5
    <2> QED
      BY <1>1, <2>1, <2>2
  <1> HIDE DEF t1, t2, compare
  <1>9. PICK v : Puts(s, set_flags(i.nzcv), Zero, "x", v, i.nzcv, Cells)
    BY <1>1, <1>5, SetFlagsPuts
  <1>10. Holds(jcc_cc[i.cond], s.flags) <=> Condition(i.cond, a.flags)
    BY <1>1, <1>5, ConditionRead DEF Tested
  <1>11. /\ Run(s, Compile(i)) = (IF Holds(jcc_cc[i.cond], s.flags) THEN Run(s, compare) ELSE Run(s, set_flags(i.nzcv)))
         /\ IsCode(Compile(i))
    <2>1. Active(s, Cells) /\ IsCode(compare)
      BY <1>8 DEF Sim, Puts
    <2>2. Coded(set_flags(i.nzcv), {}, Cells)
      BY <1>1, SetFlagsCode
    <2>3. IsPlainCode(set_flags(i.nzcv), Cells)
      BY <2>2 DEF Coded, Good
    <2> QED
      BY <1>2, <2>1, <2>3, RunChoice
  <1>12. PICK f : f = IF Condition(i.cond, a.flags) THEN SubFlags(c, x, y) ELSE i.nzcv
    OBVIOUS
  <1>13. PICK w : Puts(s, Compile(i), Zero, "x", w, f, Cells)
    <2>1. CASE Condition(i.cond, a.flags)
      <3>1. Puts(s, Compile(i), Zero, "x", 0, f, Cells)
        BY <1>8, <1>10, <1>11, <1>12, <2>1 DEF Puts
      <3> QED
        BY <3>1
    <2>2. CASE ~Condition(i.cond, a.flags)
      <3>1. Puts(s, Compile(i), Zero, "x", v, f, Cells)
        BY <1>9, <1>10, <1>11, <1>12, <2>2 DEF Puts
      <3> QED
        BY <3>1
    <2> QED
      BY <2>1, <2>2
  <1>14. PICK g : g = (IF Condition(i.cond, a.flags) THEN Compare(a, i, "CMP") ELSE i.nzcv) /\ ArmStep(a, i) = [a EXCEPT !.flags = g]
    BY <1>1 DEF ArmStep, MemoryOps, Loads, Stores
  <1>15. ASSUME NEW b, NEW t, b.flags = g, t.flags = f PROVE Follow(i, a, s, b, t)
    <2>1. IsCompared(i)
      BY <1>1, <1>4, ShortFacts DEF IsCompared, SecondOK
    <2>2. Read(a, i.c, i.n) \in Int /\ Second(a, i.c, i.m) \in Int
      BY <1>4, <1>6, <1>8
    <2>3. f = IF Condition(i.cond, a.flags) THEN SubFlags(i.c, Read(a, i.c, i.n), Second(a, i.c, i.m)) ELSE i.nzcv
      BY <1>4, <1>6, <1>8, <1>12
    <2> QED
      BY <1>1, <1>14, <1>15, <2>1, <2>2, <2>3, ChooseFollows
  <1> QED
    BY <1>13, <1>14, <1>15, FlagsDone

LEMMA SelectDone ==
    ASSUME NEW i \in [op : {"CSEL"}, c : Widths, d : Gprs, n : Gprs, m : Register, cond : Conditions], Fine(i), NEW a, NEW s, Sim(a, s),
           Reads(i, a.flags, s.flags)
    PROVE  Done(i, a, s)
  <1>1. PICK c \in Widths, d \in Gprs, n \in Gprs, m \in Gprs, cc \in {cmov_cc[i.cond]} :
            c = i.c /\ d = i.d /\ n = i.n /\ m = i.m.r /\ i.m.k = "reg" /\ i.op = "CSEL" /\ "n" \in DOMAIN i /\ "d" \in DOMAIN i
            /\ i.cond \in Conditions /\ cc = cmov_cc[i.cond]
    BY DEF Register
  <1>2. d # "xzr" /\ n # "xzr"
    <2>1. XzrPanics(i) = {"d", "n"}
      BY <1>1 DEF XzrPanics, Is, MemoryOps, Loads, Stores
    <2> QED
      BY <1>1, <2>1, FineFacts
  <1>3. c \in Bytewide /\ Awake(s, Cells) /\ s \in State(Cells) /\ a \in ArmState /\ a.flags \in ArmFlags
    BY WidthFacts, SimFacts DEF ArmState
  <1> DEFINE td == translate_reg(d)
             tn == translate_reg(n)
             tm == translate_reg(m)
  <1>4. /\ IsPlace(td, Cells) /\ td # RAX /\ IsPlace(tn, Cells) /\ tn # RAX /\ IsHome(tm, Cells) /\ (m # "xzr" => tm # Zero)
        /\ IsPlace(RAX, Cells) /\ IsHome(RAX, Cells) /\ RAX # Zero /\ IsHome(td, Cells)
    BY <1>2, HomeOf, HomeKinds, HomesDiffer, RaxRdx, RaxHome
  <1>5. PICK x \in Int, y \in Int : x = Read(a, c, n) /\ y = Read(a, c, m) /\ x = Get(s, c, tn) /\ y = Val(s, c, tm)
                                    /\ Low(c, x) = x /\ Low(c, y) = y
    BY <1>2, <1>3, ReadVal
  <1>6. y = Second(a, c, i.m)
    BY <1>1, <1>3, <1>5, SecondIs
  <1>7. Holds(cc, s.flags) <=> Condition(i.cond, a.flags)
    BY <1>1, <1>3, ConditionRead DEF Tested
  <1>8. m = "xzr" => cc = "always"
    <2>1. m = "xzr" => i.cond \in {"AL", "NV"}
      BY <1>1 DEF Fine, Miscompiled, ChoosesAfterXor
    <2> QED
      BY <1>1, <2>1, TablesAre, ConditionsAre
  <1>9. PICK v \in Int : v = IF Condition(i.cond, a.flags) THEN x ELSE y
    OBVIOUS
  <1>10. Result(a, i) = v
    BY <1>1, <1>5, <1>6, <1>9 DEF Result
  <1>11. Compile(i) = make_mov_rr(c, RAX, tm) \o <<Iw("cmov", c, RAX, tn, cc)>> \o make_mov_rr(c, td, RAX)
    BY <1>1 DEF Compile, MemoryOps, Loads, Stores, Branches, compile_arith, translate_csel
  <1> HIDE DEF td, tn, tm
  <1>12. PICK p, f : p = make_mov_rr(c, RAX, tm) /\ Puts(s, p, RAX, c, Val(s, c, tm), f, Cells) /\ (tm # Zero => f = s.flags)
    BY <1>3, <1>4, PutsMovRr
  <1>13. Puts(s, p, RAX, c, y, f, Cells)
    BY <1>5, <1>12
  <1>14. PICK t : t = Run(s, p) /\ Awake(t, Cells) /\ Get(t, c, RAX) = y /\ Get(t, c, tn) = x /\ t.flags = f
    <2>1. Awake(Run(s, p), Cells)
      BY <1>3, <1>13, AwakeRun
    <2>2. Wrote(s, Run(s, p), RAX, c, y, Cells) /\ Run(s, p).flags = f
      BY <1>13 DEF Puts
    <2>3. Get(Run(s, p), c, RAX) = Low(c, y)
      BY <1>3, <1>4, <2>2, WroteGet
    <2>4. Get(Run(s, p), c, tn) = Get(s, c, tn)
      BY <1>3, <1>4, <1>13, KeptSource
    <2> QED
      BY <1>5, <2>1, <2>2, <2>3, <2>4
  <1>15. Holds(cc, t.flags) <=> Condition(i.cond, a.flags)
    <2>1. CASE m = "xzr"
      BY <1>7, <1>8, <2>1, HoldsIs
    <2>2. CASE m # "xzr"
      BY <1>4, <1>7, <1>12, <1>14, <2>2
    <2> QED
      BY <2>1, <2>2
  <1>16. Puts(t, <<Iw("cmov", c, RAX, tn, cc)>>, RAX, c, v, f, Cells)
    <2>1. IsSource(tn, Cells)
      BY <1>4, TargetIsSource
    <2>2. Puts(t, <<Iw("cmov", c, RAX, tn, cc)>>, RAX, c, IF Holds(cc, t.flags) THEN Get(t, c, tn) ELSE Get(t, c, RAX), t.flags, Cells)
      BY <1>14, <2>1, PutsChosen
    <2> QED
      BY <1>9, <1>14, <1>15, <2>2
  <1>17. PICK q : q = p \o <<Iw("cmov", c, RAX, tn, cc)>> /\ Puts(s, q, RAX, c, v, f, Cells)
    BY <1>3, <1>4, <1>13, <1>14, <1>16, PutsAgain
  <1>18. PICK u : u = Run(s, q) /\ Awake(u, Cells) /\ Get(u, c, RAX) = v /\ u.flags = f
    <2>1. Awake(Run(s, q), Cells)
      BY <1>3, <1>17, AwakeRun
    <2>2. Wrote(s, Run(s, q), RAX, c, v, Cells) /\ Run(s, q).flags = f
      BY <1>17 DEF Puts
    <2>3. Get(Run(s, q), c, RAX) = Low(c, v)
      BY <1>3, <1>4, <2>2, WroteGet
    <2> QED
      BY <1>5, <1>9, <2>1, <2>2, <2>3
  <1>19. Puts(u, make_mov_rr(c, td, RAX), td, c, v, f, Cells)
    <2>1. Val(u, c, RAX) = v
      BY <1>4, <1>18 DEF Val
    <2>2. PICK g : Puts(u, make_mov_rr(c, td, RAX), td, c, Val(u, c, RAX), g, Cells) /\ (RAX # Zero => g = u.flags)
      BY <1>4, <1>18, PutsMovRr
    <2> QED
      BY <1>4, <1>18, <2>1, <2>2
  <1>20. Puts(s, q, Zero, c, v, f, Cells)
    BY <1>17, RaxIsHome
  <1>21. Puts(s, q \o make_mov_rr(c, td, RAX), td, c, v, f, Cells)
    BY <1>3, <1>4, <1>18, <1>19, <1>20, PutsThrough
  <1>22. ValuePut(i, a, s, v, f)
    BY <1>1, <1>10, <1>11, <1>12, <1>17, <1>21 DEF ValuePut, td
  <1>23. ClobbersFlags(i) \/ f = s.flags
    <2>1. CASE m = "xzr"
      BY <1>1, <2>1 DEF ClobbersFlags, Is
    <2>2. CASE m # "xzr"
      BY <1>4, <1>12, <2>2
    <2> QED
      BY <2>1, <2>2
  <1> QED
    BY <1>1, <1>22, <1>23, FineValue DEF ValueOps

LEMMA SetDone ==
    ASSUME NEW i \in [op : {"CSET"}, c : Widths, d : Gprs, n : {"xzr"}, m : Constant({0}), cond : Conditions], Fine(i), NEW a, NEW s, Sim(a, s),
           Reads(i, a.flags, s.flags)
    PROVE  Done(i, a, s)
  <1>1. PICK c \in Widths, d \in Gprs, cond \in Conditions :
            c = i.c /\ d = i.d /\ cond = i.cond /\ i.op = "CSET" /\ "d" \in DOMAIN i
    OBVIOUS
  <1>2. d # "xzr" /\ d \in DOMAIN Direct
    <2>1. XzrPanics(i) = {"d"}
      BY <1>1 DEF XzrPanics, Is, MemoryOps, Loads, Stores
    <2>2. d # "xzr"
      BY <1>1, <2>1, FineFacts
    <2>3. ~HasCell(d)
      <3>1. Destinations(i) = {d}
        BY <1>1 DEF Destinations, Stores, Branches
      <3> QED
        BY <1>1, <3>1, FineFacts DEF StaleUpperHalf
    <2>4. translate_reg(d).k = "reg"
      <3>1. IsPlace(translate_reg(d), Cells) /\ translate_reg(d).k # "cell"
        BY <2>2, <2>3, HomeKinds
      <3> QED
        BY <3>1, PlaceKinds
    <2> QED
      BY <2>2, <2>4, HomeKinds
  <1>3. c \in Bytewide /\ Awake(s, Cells) /\ s \in State(Cells) /\ a \in ArmState /\ a.flags \in ArmFlags
    BY WidthFacts, SimFacts DEF ArmState
  <1> DEFINE td == translate_reg(d)
             al == IF cond \in {"AL", "NV"} THEN I("mov", "b", RAX, N(1)) ELSE Iw("setcc", "b", RAX, RAX, jcc_cc[cond])
  <1>4. td.k = "reg" /\ IsPlace(td, Cells) /\ IsHome(td, Cells) /\ td # RAX /\ IsPlace(RAX, Cells) /\ IsSource(RAX, Cells) /\ td # Zero
    BY <1>2, HomeOf, HomeKinds, HomesDiffer, RaxRdx, TargetIsSource
  <1>5. Compile(i) = <<al>> \o <<Iw("movzx", "w", td, RAX, "b")>>
    <2>1. Compile(i) = make_setcc(cond, td)
      BY <1>1 DEF Compile, MemoryOps, Loads, Stores, Branches, compile_arith
    <2>2. make_setcc(cond, td) = <<al>> \o (CASE td.k = "reg"  -> <<Iw("movzx", "w", td, RAX, "b")>>
                    [] td.k = "cell" -> <<Iw("movzx", "w", RAX, RAX, "b"), I("mov", "w", td, RAX)>>
                    [] td.k = "zero" -> panic)
      BY DEF make_setcc
    <2> HIDE DEF al
    <2> QED
      BY <1>4, <2>1, <2>2
  <1>6. PICK v \in {0, 1} : v = Bit(Condition(cond, a.flags))
    BY ConditionType, BitIs
  <1>7. Puts(s, <<al>>, RAX, "b", v, s.flags, Cells)
    <2>1. CASE cond \in {"AL", "NV"}
      <3>1. Effect(s, al) = Put(s, "b", RAX, 1)
        <4>1. Effect(s, I("mov", "b", RAX, N(1))) = Put(s, "b", RAX, Get(s, "b", N(1)))
          BY EffectOfMov
        <4>2. Get(s, "b", N(1)) = 1
          <5>1. 1 \in Words("b")
            BY WidthFacts DEF Words, Bytewide
          <5> QED
            BY <5>1, GetNumber, LowId, WidthsAre
        <4> QED
          BY <2>1, <4>1, <4>2
      <3>2. v = 1
        BY <1>6, <2>1, ConditionIs DEF Bit
      <3> HIDE DEF al
      <3>3. Effect(s, al) = Put(s, "b", RAX, v) /\ v \in Int
        BY <3>1, <3>2
      <3> QED
        BY <1>3, <1>4, <3>3, PutsOne, WidthsAre
    <2>2. CASE cond \notin {"AL", "NV"}
      <3>1. Puts(s, <<Iw("setcc", "b", RAX, RAX, jcc_cc[cond])>>, RAX, "b", Bit(Holds(jcc_cc[cond], s.flags)), s.flags, Cells)
        BY <1>3, PutsBit
      <3>2. Tested(i, a.flags, s.flags)
        BY <1>1, <1>3, ConditionRead
      <3>3. Holds(jcc_cc[cond], s.flags) <=> Condition(cond, a.flags)
        BY <1>1, <3>2 DEF Tested
      <3>4. Bit(Holds(jcc_cc[cond], s.flags)) = v
        BY <1>6, <3>3 DEF Bit
      <3> QED
        BY <2>2, <3>1, <3>4
    <2> QED
      BY <2>1, <2>2
  <1> HIDE DEF td, al
  <1>8. PICK t : t = Run(s, <<al>>) /\ Awake(t, Cells) /\ Get(t, "b", RAX) = v /\ t.flags = s.flags
    <2>1. Awake(Run(s, <<al>>), Cells)
      BY <1>3, <1>7, AwakeRun
    <2>2. Wrote(s, Run(s, <<al>>), RAX, "b", v, Cells) /\ Run(s, <<al>>).flags = s.flags
      BY <1>7 DEF Puts
    <2>3. Get(Run(s, <<al>>), "b", RAX) = Low("b", v)
      <3>1. v \in Int
        OBVIOUS
      <3> QED
        BY <1>3, <1>4, <2>2, <3>1, WroteGet, WidthsAre
    <2>4. Low("b", v) = v
      <3>1. v \in Words("b")
        BY WidthFacts DEF Words, Bytewide
      <3> QED
        BY <3>1, LowId, WidthsAre
    <2> QED
      BY <2>1, <2>2, <2>3, <2>4
  <1>9. Puts(t, <<Iw("movzx", "w", td, RAX, "b")>>, td, "w", v, s.flags, Cells)
    <2>1. "w" \in Widths
      BY DEF Widths
    <2>2. Puts(t, <<Iw("movzx", "w", td, RAX, "b")>>, td, "w", Get(t, "b", RAX), t.flags, Cells)
      BY <1>4, <1>8, <2>1, PutsExtended, WidthsAre
    <2> QED
      BY <1>8, <2>2
  <1>10. Puts(s, Compile(i), td, "w", v, s.flags, Cells)
    <2>1. Puts(s, <<al>>, Zero, "b", v, s.flags, Cells)
      BY <1>7, RaxIsHome
    <2> QED
      BY <1>3, <1>4, <1>5, <1>8, <1>9, <2>1, PutsThrough, WidthsAre
  <1>11. PICK b, z : b = ArmStep(a, i) /\ z = Run(s, Compile(i))
    OBVIOUS
  <1>12. b = Write(a, c, d, v) /\ i.op \notin FlagSetters
    <2>1. Result(a, i) = v
      BY <1>1, <1>6 DEF Result
    <2> QED
      BY <1>1, <1>11, <2>1, ValueStep
  <1>13. b.flags = a.flags /\ WritesTo(a, b, c, d, v)
    BY <1>3, <1>12, WriteType DEF WritesTo
  <1>14. Wrote(s, z, td, "w", v, Cells) /\ z.flags = s.flags
    BY <1>10, <1>11 DEF Puts
  <1>15. New(s, "w", td, v) = Low(c, v)
    <2>1. New(s, "w", td, v) = Low("w", v)
      BY <1>4 DEF New, Widths
    <2>2. v \in Words("w") /\ v \in Words(c)
      <3>1. \A k \in Bytewide : 0 \in Words(k) /\ 1 \in Words(k)
        BY WidthFacts DEF Words
      <3> QED
        BY <1>3, <3>1, WidthsAre
    <2> QED
      BY <1>3, <2>1, <2>2, LowId, WidthsAre
  <1>16. Agree(b, z)
    <2>1. v \in Int /\ "w" \in Bytewide
      BY WidthsAre
    <2> QED
      BY <1>3, <1>13, <1>14, <1>15, <2>1, WriteAgrees DEF td
  <1>17. Follow(i, a, s, b, z)
    BY <1>12, <1>13, <1>14, KeptFollows
  <1> QED
    BY <1>11, <1>16, <1>17 DEF Done, Does

(* A jump after code p that leaves the flags f. *)
LEMMA JumpDone ==
    ASSUME NEW i, i.op \in Branches, NEW a, NEW s, Sim(a, s), NEW p, NEW cond, NEW c, NEW v, NEW f, Puts(s, p, Zero, c, v, f, Cells),
           Compile(i) = p \o make_branch_to_label(cond), ClobbersFlags(i) \/ f = s.flags,
           NEW jumps, ArmStep(a, i) = [a EXCEPT !.taken = jumps], jumps \in BOOLEAN,
           Holds(jcc_cc[inverse_condition[cond]], f) <=> ~jumps
    PROVE  Done(i, a, s)
  <1>1. PICK t : t = Run(s, p) /\ Awake(t, Cells) /\ Wrote(s, t, Zero, c, v, Cells) /\ t.flags = f /\ IsCode(p)
    <2>1. Awake(s, Cells)
      BY SimFacts
    <2>2. Awake(Run(s, p), Cells)
      BY <2>1, AwakeRun
    <2> QED
      BY <2>2 DEF Puts
  <1>2. Run(t, make_branch_to_label(cond)) = IF ~jumps THEN t ELSE [t EXCEPT !.taken = TRUE]
    <2>1. t \in State(Cells) /\ ~t.fault /\ ~t.taken /\ t.skip = 0
      BY <1>1 DEF Awake
    <2> QED
      BY <1>1, <2>1, RunBranch
  <1>3. Run(s, Compile(i)) = Run(t, make_branch_to_label(cond))
    <2>1. Sound(make_branch_to_label(cond), {}, Cells)
      BY BranchSound
    <2>2. IsCode(make_branch_to_label(cond))
      BY <2>1 DEF Sound, Encodes, NoRefusal
    <2> QED
      BY <1>1, <2>2, RunConcat
  <1>4. PICK b : b = [a EXCEPT !.flags = a.flags]
    OBVIOUS
  <1>5. Agree(b, t) /\ b = a
    <2>1. Agree(b, t)
      BY <1>1, <1>4, FlagsAgree
    <2>2. b = a
      BY <1>4, SimFacts DEF ArmState
    <2> QED
      BY <2>1, <2>2
  <1>6. PICK z, u : z = ArmStep(a, i) /\ u = Run(s, Compile(i))
    OBVIOUS
  <1>7. z.reg = a.reg /\ z.mem = a.mem /\ z.flags = a.flags /\ z.taken = jumps /\ ~a.taken /\ a.taken \in BOOLEAN
    BY <1>6, SimFacts DEF ArmState, Sim
  <1>8. CASE jumps
    <2>1. u = [t EXCEPT !.taken = TRUE]
      BY <1>2, <1>3, <1>6, <1>8
    <2>2. u.reg = t.reg /\ u.cell = t.cell /\ u.mem = t.mem /\ u.taken
      BY <1>1, <2>1 DEF Awake, State
    <2>3. u.taken = z.taken
      BY <1>1, <1>7, <1>8, <2>1 DEF Awake, State
    <2>4. \A q : Full(u, q) = Full(t, q)
      BY <2>2 DEF Full
    <2>5. Agree(z, u)
      BY <1>5, <1>7, <2>2, <2>3, <2>4 DEF Agree, Same
    <2> QED
      BY <1>6, <2>2, <2>5 DEF Done, Does
  <1>9. CASE ~jumps
    <2>1. u = t
      BY <1>2, <1>3, <1>6, <1>9
    <2>2. z.taken = a.taken
      BY <1>7, <1>9
    <2>3. Agree(z, u)
      BY <1>5, <1>7, <2>1, <2>2 DEF Agree, Same
    <2>4. Follow(i, a, s, z, u)
      <3>1. i.op \notin FlagSetters
        BY DEF Branches, FlagSetters
      <3> QED
        BY <1>1, <1>7, <2>1, <3>1, KeptFollows
    <2> QED
      BY <1>6, <2>3, <2>4 DEF Done, Does
  <1> QED
    BY <1>8, <1>9

LEMMA NothingPuts ==
    ASSUME NEW s, Awake(s, Cells)
    PROVE  Puts(s, <<>>, Zero, "x", 0, s.flags, Cells)
  BY PutsNothing, RaxRdx

LEMMA BranchDone ==
    ASSUME NEW i \in [op : {"B.cond"}, c : {"x"}, n : {"xzr"}, m : Constant({0}), cond : Conditions], Fine(i), NEW a, NEW s, Sim(a, s),
           Reads(i, a.flags, s.flags)
    PROVE  Done(i, a, s)
  <1>1. i.op = "B.cond" /\ i.op \in Branches /\ i.cond \in Conditions /\ ~Always(i)
    BY DEF Branches, Always, Fine, Miscompiled, NeverJumps
  <1>2. Puts(s, <<>>, Zero, "x", 0, s.flags, Cells)
    BY NothingPuts, SimFacts
  <1>3. Compile(i) = <<>> \o make_branch_to_label(i.cond)
    <2>1. Compile(i) = make_branch_to_label(i.cond)
      BY <1>1 DEF Compile, MemoryOps, Loads, Stores, compile_branch
    <2>2. PICK p : p = make_branch_to_label(i.cond) /\ IsCode(p)
      <3>1. Sound(make_branch_to_label(i.cond), {}, Cells)
        BY BranchSound
      <3> QED
        BY <3>1 DEF Sound, Encodes, NoRefusal
    <2>3. <<>> \o p = p
      BY <2>2, EmptyParts
    <2> QED
      BY <2>1, <2>2, <2>3
  <1>4. Tested(i, a.flags, s.flags)
    <2>1. a.flags \in ArmFlags
      BY SimFacts DEF ArmState
    <2> QED
      BY <1>1, <2>1, ConditionRead
  <1>5. PICK jumps \in BOOLEAN : jumps = Condition(i.cond, a.flags)
    BY <1>1, ConditionType
  <1>6. ArmStep(a, i) = [a EXCEPT !.taken = jumps]
    BY <1>1, <1>5 DEF ArmStep, MemoryOps, Loads, Stores
  <1>7. Holds(jcc_cc[inverse_condition[i.cond]], s.flags) <=> ~jumps
    BY <1>1, <1>4, <1>5 DEF Tested
  <1> QED
    BY <1>1, <1>2, <1>3, <1>6, <1>7, JumpDone

LEMMA ZeroBranchDone ==
    ASSUME NEW i \in Operands2({"CBZ", "CBNZ"}, Gprs, Constant({0})), Fine(i), NEW a, NEW s, Sim(a, s)
    PROVE  Done(i, a, s)
  <1>1. PICK c \in Widths, n \in Gprs : c = i.c /\ n = i.n /\ i.op \in {"CBZ", "CBNZ"} /\ "n" \in DOMAIN i /\ i.op \in Branches
    BY DEF Operands2, Branches
  <1>2. n # "xzr"
    <2>1. XzrPanics(i) = {"n"}
      BY <1>1 DEF XzrPanics, Is, MemoryOps, Loads, Stores
    <2> QED
      BY <1>1, <2>1, FineFacts
  <1>3. c \in Bytewide /\ Awake(s, Cells)
    BY WidthFacts, SimFacts
  <1> DEFINE tn == translate_reg(n)
  <1>4. PICK x \in Int : x = Read(a, c, n) /\ x = Get(s, c, tn) /\ x = Low(c, x)
    BY <1>2, <1>3, ReadVal
  <1>5. PICK cond \in {"EQ", "NE"} : cond = IF i.op = "CBZ" THEN "EQ" ELSE "NE"
    OBVIOUS
  <1>6. Compile(i) = <<I("cmp", c, tn, N(0))>> \o make_branch_to_label(cond)
    BY <1>1, <1>5 DEF Compile, MemoryOps, Loads, Stores, compile_branch, handle_cbz_cbnz
  <1>7. PICK f : f = SubFlags(c, x, 0) /\ Puts(s, <<I("cmp", c, tn, N(0))>>, Zero, "x", 0, f, Cells)
    <2>1. IsSource(tn, Cells) /\ IsSource(N(0), Cells)
      <3>1. IsPlace(tn, Cells)
        BY <1>2, HomeKinds
      <3> QED
        BY <3>1, TargetIsSource DEF IsSource
    <2>2. Get(s, c, N(0)) = 0
      BY <1>3, GetNumber, LowZero
    <2> HIDE DEF tn
    <2>3. Puts(s, <<I("cmp", c, tn, N(0))>>, Zero, "x", 0, SubFlags(c, Get(s, c, tn), Get(s, c, N(0))), Cells)
      BY <1>3, <2>1, PutsCmp
    <2> QED
      BY <1>4, <2>2, <2>3
  <1> HIDE DEF tn
  <1>8. f.z = Bit(x = 0)
    <2>1. f.z = Bit(Low(c, x - 0) = 0)
      BY <1>7 DEF SubFlags, Flags
    <2>2. x - 0 = x
      OBVIOUS
    <2>3. Low(c, x - 0) = x
      BY <1>4, <2>2
    <2> QED
      BY <2>1, <2>3
  <1>9. PICK jumps \in BOOLEAN : jumps = ((x = 0) = (i.op = "CBZ"))
    OBVIOUS
  <1>10. ArmStep(a, i) = [a EXCEPT !.taken = jumps]
    <2>1. ArmStep(a, i) = [a EXCEPT !.taken = (Read(a, i.c, i.n) = 0) = (i.op = "CBZ")]
      BY <1>1 DEF ArmStep, MemoryOps, Loads, Stores
    <2> QED
      BY <1>1, <1>4, <1>9, <2>1
  <1>11. Holds(jcc_cc[inverse_condition[cond]], f) <=> ~jumps
    <2>1. CASE i.op = "CBZ"
      <3>1. Holds(jcc_cc[inverse_condition[cond]], f) <=> f.z = 0
        BY <1>5, <2>1, TablesAre, HoldsIs
      <3>2. jumps <=> x = 0
        BY <1>9, <2>1
      <3> QED
        BY <1>8, <3>1, <3>2 DEF Bit
    <2>2. CASE i.op = "CBNZ"
      <3>1. Holds(jcc_cc[inverse_condition[cond]], f) <=> f.z = 1
        BY <1>5, <2>2, TablesAre, HoldsIs
      <3>2. jumps <=> x # 0
        BY <1>9, <2>2
      <3> QED
        BY <1>8, <3>1, <3>2 DEF Bit
    <2> QED
      BY <1>1, <2>1, <2>2
  <1>12. ClobbersFlags(i)
    BY <1>1 DEF ClobbersFlags
  <1> QED
    BY <1>1, <1>6, <1>7, <1>10, <1>11, <1>12, JumpDone

(* A tested bit is in the carry. *)
BitTested(s, b) == [s EXCEPT !.flags = [s.flags EXCEPT !.c = b, !.n = Undef, !.v = Undef]]

LEMMA EffectOfBt == \A s, c, to, from : Effect(s, I("bt", c, to, from)) = BitTested(s, BitOf(Get(s, c, to), from.at))
  BY DEF Effect, I, AluOps, BitTested, BitOf

LEMMA BitBranchDone ==
    ASSUME NEW i, i \in [op : {"TBZ", "TBNZ"}, c : Widths, n : Gprs, m : Constant({0}), bit : 0 .. Bits[i.c] - 1], Fine(i), NEW a, NEW s, Sim(a, s)
    PROVE  Done(i, a, s)
  <1>1. PICK c \in Widths, n \in Gprs, k \in 0 .. Bits[i.c] - 1 :
            c = i.c /\ n = i.n /\ k = i.bit /\ i.op \in {"TBZ", "TBNZ"} /\ "n" \in DOMAIN i /\ i.op \in Branches
    BY DEF Branches
  <1>2. n # "xzr"
    <2>1. XzrPanics(i) = {"n"}
      BY <1>1 DEF XzrPanics, Is, MemoryOps, Loads, Stores
    <2> QED
      BY <1>1, <2>1, FineFacts
  <1>3. c \in Bytewide /\ Awake(s, Cells) /\ k \in Nat /\ s \in State(Cells) /\ s.flags \in FlagWords
    <2>1. Bits[c] \in Nat /\ c \in Bytewide
      BY WidthFacts
    <2> QED
      BY <1>1, <2>1, SimFacts DEF Awake, State
  <1> DEFINE tn == translate_reg(n)
  <1>4. PICK x \in Int : x = Read(a, c, n) /\ x = Get(s, c, tn)
    BY <1>2, <1>3, ReadVal
  <1>5. PICK cond \in {"CC", "CS"} : cond = IF i.op = "TBZ" THEN "CC" ELSE "CS"
    OBVIOUS
  <1>6. Compile(i) = <<I("bt", c, tn, N(k))>> \o make_branch_to_label(cond)
    BY <1>1, <1>5 DEF Compile, MemoryOps, Loads, Stores, compile_branch, handle_tbz_tbnz
  <1>7. PICK bit \in {0, 1} : bit = (x \div Pow2(k)) % 2
    BY <1>3, BitType DEF BitOf
  <1>8. PICK f \in FlagWords : f.c = bit /\ Effect(s, I("bt", c, tn, N(k))) = [s EXCEPT !.flags = f]
    <2> HIDE DEF tn
    <2>1. Effect(s, I("bt", c, tn, N(k))) = BitTested(s, BitOf(Get(s, c, tn), N(k).at))
      BY EffectOfBt
    <2>2. BitOf(Get(s, c, tn), N(k).at) = bit
      BY <1>4, <1>7, OperandKinds DEF BitOf
    <2>3. PICK f : f = [s.flags EXCEPT !.c = bit, !.n = Undef, !.v = Undef]
      OBVIOUS
    <2>4. Effect(s, I("bt", c, tn, N(k))) = [s EXCEPT !.flags = f]
      BY <2>1, <2>2, <2>3 DEF BitTested
    <2>5. f \in FlagWords /\ f.c = bit
      BY <1>3, <2>3 DEF FlagWords, Undef
    <2> QED
      BY <2>4, <2>5
  <1>9. Puts(s, <<I("bt", c, tn, N(k))>>, Zero, "x", 0, f, Cells)
    <2> HIDE DEF tn
    <2> QED
      BY <1>3, <1>8, PutsFlags
  <1> HIDE DEF tn
  <1>10. PICK jumps \in BOOLEAN : jumps = ((bit = 0) = (i.op = "TBZ"))
    OBVIOUS
  <1>11. ArmStep(a, i) = [a EXCEPT !.taken = jumps]
    <2>1. ArmStep(a, i) = [a EXCEPT !.taken = ((Read(a, i.c, i.n) \div Pow2(i.bit)) % 2 = 0) = (i.op = "TBZ")]
      BY <1>1 DEF ArmStep, MemoryOps, Loads, Stores
    <2> QED
      BY <1>1, <1>4, <1>7, <1>10, <2>1
  <1>12. Holds(jcc_cc[inverse_condition[cond]], f) <=> ~jumps
    <2>1. CASE i.op = "TBZ"
      <3>1. Holds(jcc_cc[inverse_condition[cond]], f) <=> bit = 1
        <4>1. cond = "CC"
          BY <1>5, <2>1
        <4>2. jcc_cc[inverse_condition[cond]] = "b"
          BY <4>1, TablesAre
        <4>3. Holds("b", f) <=> f.c = 1
          BY HoldsIs
        <4> QED
          BY <1>8, <4>2, <4>3
      <3>2. jumps <=> bit = 0
        BY <1>10, <2>1
      <3> QED
        BY <1>7, <3>1, <3>2
    <2>2. CASE i.op = "TBNZ"
      <3>1. Holds(jcc_cc[inverse_condition[cond]], f) <=> bit = 0
        <4>1. cond = "CS"
          BY <1>5, <2>2
        <4>2. jcc_cc[inverse_condition[cond]] = "ae"
          BY <4>1, TablesAre
        <4>3. Holds("ae", f) <=> f.c = 0
          BY HoldsIs
        <4> QED
          BY <1>8, <4>2, <4>3
      <3>2. jumps <=> bit # 0
        BY <1>10, <2>2
      <3> QED
        BY <1>7, <3>1, <3>2
    <2> QED
      BY <1>1, <2>1, <2>2
  <1>13. ClobbersFlags(i)
    BY <1>1 DEF ClobbersFlags
  <1> QED
    BY <1>1, <1>6, <1>9, <1>11, <1>12, <1>13, JumpDone

------------------------------------------------------------------------------
(* Addresses of loads and stores                                            *)
------------------------------------------------------------------------------

(* The address of a load or store. *)
Displaced(m) == IF m.k = "off" THEN m.imm ELSE 0

(* The base is where it was, and the new base is not put over it. *)
Aimed(s, e, m, n) == Full(e, translate_reg(m.base)) = Full(s, translate_reg(m.base)) /\ (m.k = "ext" => R(n) # translate_reg(m.base))

(* What process_addr_mode has put into register n. *)
Reached(a, s, e, m, n, v) ==
    Aimed(s, e, m, n) => Low("x", v + Displaced(m)) = ArmAddress(a, m) /\ (m.k = "pre" => v = Low("x", a.reg[m.base] + m.imm))
                        /\ (m.k \in {"off", "post"} => v = a.reg[m.base])

LEMMA BaseValue ==
    ASSUME NEW a, NEW s, Sim(a, s), NEW m, IsMode(m)
    PROVE  a.reg[m.base] \in Words("x") /\ a.reg[m.base] \in Int /\ Full(s, translate_reg(m.base)) = a.reg[m.base]
           /\ Low("x", a.reg[m.base]) = a.reg[m.base]
  <1>1. m.base \in Guests /\ a \in ArmState
    BY ModeFacts, GuestNames, SimFacts
  <1>2. a.reg[m.base] \in Words("x")
    BY <1>1 DEF ArmState
  <1>3. Low("x", a.reg[m.base]) = a.reg[m.base]
    BY <1>2, LowId, WidthsAre
  <1> QED
    BY <1>1, <1>2, <1>3, WordFacts DEF Sim, Same

(* A base that is moved. *)
LEMMA StepPuts ==
    ASSUME NEW e, Awake(e, Cells), NEW n \in Names, NEW k \in Int
    PROVE  \E f : Puts(e, <<I("add", "x", R(n), N(k))>>, R(n), "x", Low("x", Full(e, R(n)) + k), f, Cells)
  <1>1. IsPlace(R(n), Cells) /\ "x" \in Bytewide /\ "add" \in Writing /\ e \in State(Cells) /\ IsSource(N(k), Cells) /\ IsHome(R(n), Cells)
    BY RegisterCode, WidthsAre DEF Writing, AluOps, Awake, IsSource
  <1>2. PICK v \in Words("x") : v = Full(e, R(n)) /\ Get(e, "x", R(n)) = Low("x", v) /\ Low("x", v) = v /\ v \in Int
    BY <1>1, FullType, LowId, WordFacts
  <1>3. PICK f : Puts(e, <<I("add", "x", R(n), N(k))>>, R(n), "x", Binary("add", v, Get(e, "x", N(k))), f, Cells)
    BY <1>1, <1>2, PutsTwo
  <1>4. PICK z \in Int : z = Low("x", k) /\ Get(e, "x", N(k)) = z
    BY <1>1, GetNumber, LowType
  <1>5. Binary("add", v, z) = v + z /\ v + z \in Int
    BY <1>2, <1>4 DEF Binary, Alu
  <1>6. PICK w \in Int : w = Low("x", v + k)
    BY <1>1, <1>2, LowType
  <1>7. Low("x", v + z) = Low("x", w)
    <2>1. Low("x", v + Low("x", k)) = Low("x", v + k) /\ Low("x", Low("x", v + k)) = Low("x", v + k)
      <3>1. PICK y \in Int : y = v + k
        BY <1>2
      <3> QED
        BY <1>1, <1>2, <3>1, LowOps
    <2> QED
      BY <1>4, <1>6, <2>1
  <1>8. PICK y \in Int : y = v + z
    BY <1>5
  <1>9. Puts(e, <<I("add", "x", R(n), N(k))>>, R(n), "x", y, f, Cells) /\ Low("x", y) = Low("x", w)
    BY <1>3, <1>4, <1>5, <1>7, <1>8
  <1>10. Puts(e, <<I("add", "x", R(n), N(k))>>, R(n), "x", w, f, Cells)
    BY <1>1, <1>9, PutsSame
  <1> QED
    BY <1>2, <1>6, <1>10

(* The sum of a base and an index. *)
Staged(e, m, n, x, p, w, f) ==
    Formed(m, R(n)) = p \o make_rr("add", "x", R(n), translate_reg(m.base)) /\ Puts(e, p, R(n), "x", w, f, Cells) /\ Low("x", w) = Low("x", x)

LEMMA IndexPuts ==
    ASSUME NEW a, NEW s, Sim(a, s), NEW e, Entered(s, e, Cells), NEW m, IsMode(m), m.k = "ext", m.by # "none" => m.r # "xzr",
           NEW n \in Names
    PROVE  \E v \in Int : \E f : Puts(e, Formed(m, R(n)), R(n), "x", v, f, Cells)
                             /\ (Aimed(s, e, m, n) => Low("x", v) = ArmAddress(a, m))
  <1> DEFINE b == translate_reg(m.base)
             r == translate_reg(m.r)
  <1>1. m.r \in Gprs /\ m.by \in {"none", "LSL", "UXTW", "SXTW", "SXTX"} /\ m.n \in Nat /\ IsPlace(b, Cells) /\ b # RAX
    BY ModeFacts, HomesDiffer
  <1>2. IsPlace(R(n), Cells) /\ IsHome(R(n), Cells) /\ "x" \in Bytewide /\ "x" \in Widths /\ "add" \in Writing /\ Awake(e, Cells) /\ e \in State(Cells)
        /\ s \in State(Cells)
    BY RegisterCode, WidthsAre, SimFacts DEF Writing, AluOps, Entered, Awake, Widths
  <1>3. PICK x \in Int : x = Extended(a, "x", m.r, m.by, m.n)
    BY <1>1, <1>2, SimFacts, ExtendedType DEF Shifts, Extensions, Narrow
  <1>4. \E p, w, f : w \in Int /\ Staged(e, m, n, x, p, w, f)
    <2>1. CASE m.by = "none"
      <3>1. m.n = 0
        BY <2>1 DEF IsMode, Indexed, Offset
      <3>2. x = Read(a, "x", m.r)
        <4>1. Extended(a, "x", m.r, "none", m.n) = Read(a, "x", m.r) * Pow2(m.n)
          BY DEF Extended
        <4>2. Read(a, "x", m.r) \in Int
          BY <1>1, <1>2, ReadVal
        <4> QED
          BY <1>3, <2>1, <3>1, <4>1, <4>2, PowerSteps
      <3>3. Val(e, "x", r) = x
        BY <1>1, <1>2, <3>2, EnteredVal
      <3>4. IsHome(r, Cells)
        BY <1>1, HomeOf
      <3>5. PICK f : Puts(e, make_mov_rr("x", R(n), r), R(n), "x", Val(e, "x", r), f, Cells)
        BY <1>2, <3>4, PutsMovRr
      <3>6. Formed(m, R(n)) = make_mov_rr("x", R(n), r) \o make_rr("add", "x", R(n), b)
        BY <2>1 DEF Formed
      <3>7. Staged(e, m, n, x, make_mov_rr("x", R(n), r), x, f)
        BY <3>3, <3>5, <3>6 DEF Staged
      <3> QED
        BY <3>7
    <2>2. CASE m.by # "none"
      <3>1. Formed(m, R(n)) = load_shifted(R(n), "x", r, "x", m) \o make_rr("add", "x", R(n), b)
        BY <2>2 DEF Formed
      <3>2. m.r # "xzr" /\ IsPlace(r, Cells) /\ m.by \notin {"ROR", "MSL"} /\ m.by \in Lefts
        BY <1>1, <2>2, HomeKinds, LeftsAre
      <3>3. PICK f : Puts(e, load_shifted(R(n), "x", r, "x", m), R(n), "x", Moved2(e, "x", r, "x", m), f, Cells)
        BY <1>1, <1>2, <3>2, PutsShifted
      <3>4. Operand2(a, s, "x", m.r, m)
        BY <1>1, <1>2, <3>2, ExtendedMoved
      <3>5. Moved2(e, "x", r, "x", m) = Moved2(s, "x", r, "x", m)
        <4>1. \A w : Get(e, w, r) = Get(s, w, r)
          <5>1. Full(e, r) = Full(s, r)
            BY <1>1, <3>2, NotSp DEF Entered
          <5> QED
            BY <1>2, <3>2, <5>1, FullType
        <4> QED
          BY <4>1 DEF Moved2, Widened
      <3>6. PICK w \in Int : w = Moved2(s, "x", r, "x", m) /\ Low("x", w) = Low("x", x)
        BY <1>3, <3>4 DEF Operand2
      <3>7. Staged(e, m, n, x, load_shifted(R(n), "x", r, "x", m), w, f)
        BY <3>1, <3>3, <3>5, <3>6 DEF Staged
      <3> QED
        BY <3>6, <3>7
    <2> QED
      BY <2>1, <2>2
  <1>5. PICK p, w, f : w \in Int /\ Formed(m, R(n)) = p \o make_rr("add", "x", R(n), b) /\ Puts(e, p, R(n), "x", w, f, Cells)
                       /\ Low("x", w) = Low("x", x)
    BY <1>4 DEF Staged
  <1>6. PICK t : t = Run(e, p)
    OBVIOUS
  <1>7. Awake(t, Cells) /\ Wrote(e, t, R(n), "x", w, Cells) /\ t \in State(Cells)
    <2>1. Awake(t, Cells)
      BY <1>2, <1>5, <1>6, AwakeRun
    <2> QED
      BY <1>5, <1>6, <2>1 DEF Puts, Awake
  <1>8. PICK y \in Int : y = Get(t, "x", b)
    BY <1>1, <1>2, <1>7, GetType, TargetIsSource
  <1>9. PICK l \in Int : l = Low("x", w) /\ Get(t, "x", R(n)) = l
    <2>1. Get(t, "x", R(n)) = Low("x", w)
      BY <1>2, <1>5, <1>7, WroteGet
    <2> QED
      BY <1>2, <1>5, <2>1, LowType
  <1>10. PICK g : Puts(t, make_rr("add", "x", R(n), b), R(n), "x", l + y, g, Cells)
    <2>1. PICK g : Puts(t, make_rr("add", "x", R(n), b), R(n), "x", Binary("add", l, y), g, Cells)
      BY <1>1, <1>2, <1>7, <1>8, <1>9, PutsMakeRr
    <2>2. Binary("add", l, y) = l + y
      BY DEF Binary, Alu
    <2> QED
      BY <2>1, <2>2
  <1>11. PICK v \in Int : v = l + y
    OBVIOUS
  <1>12. Puts(e, p \o make_rr("add", "x", R(n), b), R(n), "x", v, g, Cells)
    BY <1>2, <1>5, <1>6, <1>10, <1>11, PutsAgain
  <1>13. ASSUME Aimed(s, e, m, n) PROVE Low("x", v) = ArmAddress(a, m)
    <2>1. R(n) # b /\ Full(e, b) = Full(s, b)
      BY <1>13 DEF Aimed
    <2>2. y = a.reg[m.base]
      <3>1. Full(t, b) = Full(e, b)
        BY <1>1, <1>7, <2>1 DEF Wrote, Kept
      <3>2. y = Low("x", Full(t, b))
        BY <1>1, <1>7, <1>8, FullType
      <3> QED
        BY <2>1, <3>1, <3>2, BaseValue
    <2>3. Low("x", l + y) = Low("x", x + y)
      <3>1. Low("x", Low("x", w) + y) = Low("x", w + y) /\ Low("x", Low("x", w) + y) = Low("x", Low("x", x) + y)
            /\ Low("x", Low("x", x) + y) = Low("x", x + y)
        BY <1>2, <1>5, LowOps
      <3> QED
        BY <1>9, <3>1
    <2>4. ArmAddress(a, m) = Low("x", y + x)
      BY <1>3, <2>2 DEF ArmAddress
    <2>5. y + x = x + y
      OBVIOUS
    <2> QED
      BY <1>11, <2>3, <2>4, <2>5
  <1> QED
    BY <1>5, <1>12, <1>13

(* The base itself. *)
LEMMA BasePuts ==
    ASSUME NEW e, Awake(e, Cells), NEW m, IsMode(m), m.k # "ext", NEW n \in Names, translate_reg(m.base).k = "reg" => R(n) = translate_reg(m.base)
    PROVE  \E v \in Words("x") : Puts(e, Formed(m, R(n)), R(n), "x", v, e.flags, Cells) /\ v = Full(e, translate_reg(m.base))
  <1> DEFINE b == translate_reg(m.base)
  <1>1. IsPlace(b, Cells) /\ IsHome(b, Cells) /\ b # Zero /\ e \in State(Cells) /\ "x" \in Widths /\ IsPlace(R(n), Cells)
    BY ModeFacts, PlaceKinds, RegisterCode DEF IsHome, Awake, Widths
  <1>2. PICK v \in Words("x") : v = Full(e, b) /\ Get(e, "x", b) = v
    <2>1. Full(e, b) \in Words("x") /\ Get(e, "x", b) = Low("x", Full(e, b))
      BY <1>1, FullType
    <2> QED
      BY <2>1, LowId, WidthsAre
  <1>3. is_indirect(b) <=> b.k # "reg"
    BY <1>1, PlaceKinds
  <1>4. CASE b.k = "reg"
    <2>1. Formed(m, R(n)) = <<>> /\ R(n) = b
      BY <1>3, <1>4 DEF Formed
    <2> QED
      BY <1>1, <1>2, <2>1, PutsNothing
  <1>5. CASE b.k # "reg"
    <2>1. Formed(m, R(n)) = make_mov_rr("x", R(n), b)
      BY <1>3, <1>5 DEF Formed
    <2>2. Val(e, "x", b) = v
      BY <1>1, <1>2 DEF Val
    <2>3. PICK f : Puts(e, make_mov_rr("x", R(n), b), R(n), "x", Val(e, "x", b), f, Cells) /\ (b # Zero => f = e.flags)
      BY <1>1, PutsMovRr
    <2> QED
      BY <1>1, <1>2, <2>1, <2>2, <2>3
  <1> QED
    BY <1>4, <1>5

(* All that comes before the transfer. *)
Addressed(a, s, e, m, n, v, f) ==
    /\ Puts(e, Before(m, R(n)), R(n), "x", v, f, Cells) /\ (m.k = "off" => f = e.flags)
    /\ Reached(a, s, e, m, n, v)

LEMMA BeforePuts ==
    ASSUME NEW a, NEW s, Sim(a, s), NEW e, Entered(s, e, Cells), NEW m, IsMode(m), m.k = "ext" /\ m.by # "none" => m.r # "xzr",
           NEW n \in Names, m.k # "ext" /\ translate_reg(m.base).k = "reg" => R(n) = translate_reg(m.base)
    PROVE  \E v, f : v \in Words("x") /\ Addressed(a, s, e, m, n, v, f)
  <1>1. IsPlace(R(n), Cells) /\ IsHome(R(n), Cells) /\ "x" \in Bytewide /\ "x" \in Widths /\ Awake(e, Cells) /\ e \in State(Cells)
    BY RegisterCode, WidthsAre DEF Entered, Awake, Widths
  <1>2. CASE m.k = "ext"
    <2>1. PICK v, f : v \in Int /\ Puts(e, Formed(m, R(n)), R(n), "x", v, f, Cells) /\ (Aimed(s, e, m, n) => Low("x", v) = ArmAddress(a, m))
      BY <1>2, IndexPuts
    <2>7. Low("x", v) \in Words("x")
      BY <1>1, <2>1, LowType
    <2>8. PICK w \in Words("x") : w = Low("x", v)
      BY <2>7
    <2>9. w \in Int /\ Low("x", w) = w
      BY <1>1, LowId, WordFacts
    <2>2. w = Low("x", v) /\ w \in Int /\ Low("x", w) = w
      BY <2>8, <2>9
    <2>3. Puts(e, Formed(m, R(n)), R(n), "x", w, f, Cells)
      <3>1. Low("x", v) = Low("x", w)
        BY <2>2
      <3> QED
        BY <1>1, <2>1, <2>2, <3>1, PutsSame
    <2>4. Before(m, R(n)) = Formed(m, R(n))
      <3>1. Moved(m, R(n)) = <<>>
        BY <1>2 DEF Moved
      <3>2. IsCode(Formed(m, R(n)))
        BY <2>3 DEF Puts
      <3> QED
        BY <3>1, <3>2, EmptyParts DEF Before
    <2>5. Reached(a, s, e, m, n, w)
      BY <1>2, <2>1, <2>2 DEF Reached, Displaced
    <2>6. Addressed(a, s, e, m, n, w, f)
      BY <1>2, <2>3, <2>4, <2>5 DEF Addressed
    <2> QED
      BY <2>6
  <1>3. CASE m.k # "ext"
    <2>1. PICK v \in Words("x") : Puts(e, Formed(m, R(n)), R(n), "x", v, e.flags, Cells) /\ v = Full(e, translate_reg(m.base))
      BY <1>1, <1>3, BasePuts
    <2>2. m.k \in {"off", "pre", "post"} /\ m.imm \in Int /\ v \in Int
      BY <1>3, ModeFacts, WordFacts
    <2>3. Aimed(s, e, m, n) => v = a.reg[m.base]
      BY <2>1, BaseValue DEF Aimed
    <2>4. CASE m.k # "pre"
      <3>1. Before(m, R(n)) = Formed(m, R(n))
        <4>1. Moved(m, R(n)) = <<>>
          BY <2>4 DEF Moved
        <4>2. IsCode(Formed(m, R(n)))
          BY <2>1 DEF Puts
        <4> QED
          BY <4>1, <4>2, EmptyParts DEF Before
      <3>2. Reached(a, s, e, m, n, v)
        <4>1. ArmAddress(a, m) = Low("x", a.reg[m.base] + Displaced(m))
          BY <2>2, <2>4 DEF ArmAddress, Displaced
        <4> QED
          BY <2>3, <2>4, <4>1 DEF Reached
      <3>3. Addressed(a, s, e, m, n, v, e.flags)
        BY <2>1, <3>1, <3>2 DEF Addressed
      <3> QED
        BY <3>3
    <2>5. CASE m.k = "pre"
      <3>1. PICK t : t = Run(e, Formed(m, R(n)))
        OBVIOUS
      <3>2. Awake(t, Cells)
        BY <1>1, <2>1, <3>1, AwakeRun
      <3>3. Full(t, R(n)) = v
        <4>1. Full(t, R(n)) = New(e, "x", R(n), v)
          BY <1>1, <2>1, <3>1, PlaceKinds DEF Puts, Wrote
        <4>2. New(e, "x", R(n), v) = Low("x", v)
          BY <1>1, OperandKinds DEF New
        <4> QED
          BY <1>1, <4>1, <4>2, LowId
      <3>4. PICK w \in Words("x") : w = Low("x", v + m.imm) /\ w \in Int /\ Low("x", w) = w
        BY <1>1, <2>2, LowType, LowId, WordFacts
      <3>5. PICK f : Puts(t, Moved(m, R(n)), R(n), "x", w, f, Cells)
        <4>1. Moved(m, R(n)) = <<I("add", "x", R(n), N(m.imm))>>
          BY <2>5 DEF Moved
        <4> QED
          BY <2>2, <3>2, <3>3, <3>4, <4>1, StepPuts
      <3>6. Puts(e, Before(m, R(n)), R(n), "x", w, f, Cells)
        <4>1. Puts(e, Formed(m, R(n)) \o Moved(m, R(n)), R(n), "x", w, f, Cells)
          BY <1>1, <2>1, <2>2, <3>1, <3>4, <3>5, PutsAgain
        <4> QED
          BY <4>1 DEF Before
      <3>7. Reached(a, s, e, m, n, w)
        <4>1. ArmAddress(a, m) = Low("x", a.reg[m.base] + m.imm) /\ Displaced(m) = 0
          BY <2>5 DEF ArmAddress, Displaced
        <4> QED
          BY <2>3, <2>5, <3>4, <4>1 DEF Reached
      <3>8. Addressed(a, s, e, m, n, w, f)
        BY <2>5, <3>6, <3>7 DEF Addressed
      <3> QED
        BY <3>4, <3>8
    <2> QED
      BY <2>4, <2>5
  <1> QED
    BY <1>2, <1>3

(* What comes after the transfer. *)
Writes(m) == m.k \in {"pre", "post"}
Finished(u, z, m, n) ==
    LET b == translate_reg(m.base)
    IN  /\ z \in State(Cells) /\ Control(u, z) /\ z.mem = u.mem
        /\ \A p : IsPlace(p, Cells) /\ (Writes(m) => p \notin {RAX, b, R(n)}) => Full(z, p) = Full(u, p)
        /\ ~Writes(m) => z.flags = u.flags
        /\ Writes(m) => Full(z, b) = IF m.k = "pre" THEN Full(u, R(n)) ELSE Low("x", Full(u, R(n)) + m.imm)

LEMMA PostedRun ==
    ASSUME NEW u, Awake(u, Cells), NEW m, IsMode(m), Writes(m), NEW n \in Names, NEW y, y = Run(u, Posted(m, R(n)))
    PROVE  /\ IsCode(Posted(m, R(n))) /\ Awake(y, Cells) /\ Control(u, y) /\ y.mem = u.mem
           /\ \A p : IsPlace(p, Cells) /\ p \notin {RAX, R(n)} => Full(y, p) = Full(u, p)
           /\ Full(y, R(n)) = IF m.k = "pre" THEN Full(u, R(n)) ELSE Low("x", Full(u, R(n)) + m.imm)
  <1>1. m.imm \in Int /\ IsPlace(R(n), Cells) /\ m.k \in {"pre", "post"} /\ u \in State(Cells) /\ "x" \in Bytewide /\ "x" \in Widths
        /\ R(n) # Zero
    BY ModeFacts, RegisterCode, WidthsAre DEF Writes, Awake, Widths
  <1>2. CASE m.k = "pre"
    <2>1. Posted(m, R(n)) = <<>> /\ y = u /\ IsCode(<<>>)
      BY <1>2, RunShort DEF Posted
    <2> QED
      BY <1>2, <2>1 DEF Control
  <1>3. CASE m.k = "post"
    <2>1. PICK f : Puts(u, Posted(m, R(n)), R(n), "x", Low("x", Full(u, R(n)) + m.imm), f, Cells)
      BY <1>1, <1>3, StepPuts DEF Posted
    <2>2. PICK w \in Words("x") : w = Low("x", Full(u, R(n)) + m.imm) /\ w \in Int /\ Low("x", w) = w
      <3>1. PICK v \in Int : v = Full(u, R(n))
        BY <1>1, FullType
      <3>2. PICK v2 \in Int : v2 = v + m.imm
        BY <1>1
      <3>3. Low("x", v2) \in Words("x")
        BY <1>1, LowType
      <3> QED
        BY <1>1, <3>1, <3>2, <3>3, LowId, WordFacts
    <2>3. Puts(u, Posted(m, R(n)), R(n), "x", w, f, Cells)
      BY <2>1, <2>2
    <2>4. Awake(y, Cells)
      BY <2>3, AwakeRun
    <2>5. Wrote(u, y, R(n), "x", w, Cells) /\ IsCode(Posted(m, R(n)))
      BY <2>3 DEF Puts
    <2>6. Full(y, R(n)) = w
      <3>1. Full(y, R(n)) = New(u, "x", R(n), w)
        BY <1>1, <2>5 DEF Wrote
      <3> QED
        BY <1>1, <2>2, <3>1, OperandKinds DEF New
    <2> QED
      BY <1>3, <2>2, <2>4, <2>5, <2>6 DEF Wrote, Kept
  <1> QED
    BY <1>1, <1>2, <1>3

LEMMA AfterRun ==
    ASSUME NEW u, Awake(u, Cells), NEW m, IsMode(m), NEW n \in Names, m.k # "ext" /\ translate_reg(m.base).k = "reg" => R(n) = translate_reg(m.base)
    PROVE  IsCode(After(m, R(n))) /\ Finished(u, Run(u, After(m, R(n))), m, n)
  <1> DEFINE b == translate_reg(m.base)
  <1>1. IsPlace(b, Cells) /\ IsPlace(R(n), Cells) /\ "x" \in Bytewide /\ "x" \in Widths /\ u \in State(Cells) /\ b # RAX /\ "mov" \in Writing
        /\ R(n).k = "reg"
    BY ModeFacts, RegisterCode, WidthsAre, HomesDiffer, OperandKinds DEF Awake, Widths, Writing
  <1>2. CASE ~Writes(m)
    <2>1. After(m, R(n)) = <<>>
      <3>1. Posted(m, R(n)) = <<>> /\ Saved(m, R(n)) = <<>>
        BY <1>2 DEF Posted, Saved, Writes
      <3> QED
        BY <3>1, RunShort, EmptyParts DEF After
    <2>2. IsCode(<<>>) /\ Run(u, <<>>) = u
      BY RunShort
    <2> QED
      BY <1>1, <1>2, <2>1, <2>2 DEF Finished, Control
  <1>3. CASE Writes(m)
    <2>1. PICK y : y = Run(u, Posted(m, R(n)))
      OBVIOUS
    <2>2. /\ IsCode(Posted(m, R(n))) /\ Awake(y, Cells) /\ Control(u, y) /\ y.mem = u.mem
          /\ \A p : IsPlace(p, Cells) /\ p \notin {RAX, R(n)} => Full(y, p) = Full(u, p)
          /\ Full(y, R(n)) = IF m.k = "pre" THEN Full(u, R(n)) ELSE Low("x", Full(u, R(n)) + m.imm)
      BY <1>3, <2>1, PostedRun
    <2>3. CASE b.k = "reg"
      <3>1. R(n) = b
        BY <1>3, <2>3 DEF Writes
      <3>2. After(m, R(n)) = Posted(m, R(n))
        <4>1. Saved(m, R(n)) = <<>>
          BY <2>3 DEF Saved
        <4> QED
          BY <2>2, <4>1, EmptyParts DEF After
      <3>3. Run(u, After(m, R(n))) = y /\ IsCode(After(m, R(n))) /\ y \in State(Cells)
        BY <2>1, <2>2, <3>2 DEF Awake
      <3>4. Finished(u, y, m, n)
        BY <1>3, <2>2, <3>1, <3>3 DEF Finished
      <3> QED
        BY <3>3, <3>4
    <2>4. CASE b.k # "reg"
      <3>1. b.k = "cell"
        BY <1>1, <2>4, PlaceKinds
      <3>2. Saved(m, R(n)) = <<I("mov", "x", b, R(n))>>
        BY <1>3, <3>1 DEF Saved, Writes
      <3>3. PICK w \in Words("x") : w = Full(y, R(n)) /\ Get(y, "x", R(n)) = w /\ w \in Int /\ Low("x", w) = w
        <4>1. y \in State(Cells)
          BY <2>2 DEF Awake
        <4>2. Full(y, R(n)) \in Words("x") /\ Get(y, "x", R(n)) = Low("x", Full(y, R(n)))
          BY <1>1, <4>1, FullType
        <4> QED
          BY <1>1, <4>2, LowId, WordFacts
      <3>4. PICK f : Puts(y, Saved(m, R(n)), b, "x", w, f, Cells)
        <4>1. IsSource(R(n), Cells)
          BY <1>1, TargetIsSource
        <4>2. Puts(y, <<I("mov", "x", b, R(n))>>, b, "x", Binary("mov", Get(y, "x", b), Get(y, "x", R(n))),
                   BinaryFlags("mov", "x", y.flags, Get(y, "x", b), Get(y, "x", R(n))), Cells)
          BY <1>1, <2>2, <4>1, PutsTwo
        <4> QED
          BY <3>2, <3>3, <4>2 DEF Binary
      <3>5. PICK z : z = Run(y, Saved(m, R(n))) /\ Wrote(y, z, b, "x", w, Cells) /\ IsCode(Saved(m, R(n)))
        BY <3>4 DEF Puts
      <3>6. Full(z, b) = w
        <4>1. b # Zero /\ ~(HasCell(m.base) /\ FALSE)
          BY <1>1, PlaceKinds
        <4>2. Full(z, b) = New(y, "x", b, w)
          BY <3>5, <4>1 DEF Wrote
        <4>3. m.base \in Gprs \cup Addresses /\ m.base # "xzr" /\ y \in State(Cells)
          BY <2>2, ModeFacts, GuestNames DEF Awake
        <4>4. New(y, "x", translate_reg(m.base), w) = Low("x", w)
          BY <1>1, <3>3, <4>3, NewHome, WidthsAre
        <4> QED
          BY <3>3, <4>2, <4>4
      <3>7. Run(u, After(m, R(n))) = z /\ IsCode(After(m, R(n)))
        <4>1. IsCode(Posted(m, R(n)) \o Saved(m, R(n))) /\ Run(u, Posted(m, R(n)) \o Saved(m, R(n))) = Run(Run(u, Posted(m, R(n))), Saved(m, R(n)))
          BY <2>2, <3>5, RunConcat
        <4> QED
          BY <2>1, <3>5, <4>1 DEF After
      <3>8. ASSUME NEW p, IsPlace(p, Cells), p \notin {RAX, b, R(n)} PROVE Full(z, p) = Full(u, p)
        BY <2>2, <3>5, <3>8 DEF Wrote, Kept
      <3>9. Finished(u, z, m, n)
        <4>1. z \in State(Cells) /\ Control(u, z) /\ z.mem = u.mem
          BY <2>2, <3>5 DEF Wrote, Control
        <4> QED
          BY <1>3, <2>2, <3>3, <3>6, <3>8, <4>1 DEF Finished
      <3> QED
        BY <3>7, <3>9
    <2> QED
      BY <2>3, <2>4
  <1> QED
    BY <1>2, <1>3

------------------------------------------------------------------------------
(* Transfers of one register                                                *)
------------------------------------------------------------------------------

(* A load whose value and address do not matter. *)
Astray(i) == i.op \in Loads /\ i.d = "xzr"

(* What the transfer of i finds: the address, and the data Q. *)
Offers(i, a, y, n, Q) ==
    /\ Awake(y, Cells) /\ y.mem = a.mem
    /\ Astray(i) \/ Low("x", Full(y, R(n)) + Displaced(i.m)) = ArmAddress(a, i.m)
    /\ \A q \in Q \ {"xzr"} : Full(y, translate_reg(q)) = a.reg[q]

Homes(D) == {translate_reg(q) : q \in D}

(* ... and what it leaves: the registers D and memory as in b. *)
Carries(i, b, y, u, n, D) ==
    /\ u \in State(Cells) /\ Control(y, u) /\ u.mem = b.mem
    /\ \A q \in D : Full(u, translate_reg(q)) = b.reg[q]
    /\ \A p : IsPlace(p, Cells) /\ p # RAX /\ p \notin Homes(D) => Full(u, p) = Full(y, p)
    /\ Writes(i.m) => Full(u, R(n)) = Full(y, R(n))
    /\ ClobbersFlags(i) \/ u.flags = y.flags

(* The whole, from e to z. *)
Through(i, a, s, e, b, z, n, D) ==
    LET home == translate_reg(i.m.base)
    IN  /\ z \in State(Cells) /\ Control(e, z) /\ z.mem = b.mem /\ (ClobbersFlags(i) \/ z.flags = e.flags)
        /\ \A q \in D : Full(z, translate_reg(q)) = b.reg[q]
        /\ \A p : IsPlace(p, Cells) /\ p \notin {RAX, R(n)} \cup Homes(D) /\ ~(Writes(i.m) /\ p = home) => Full(z, p) = Full(e, p)
        /\ Writes(i.m) /\ Aimed(s, e, i.m, n) => Full(z, home) = Low("x", a.reg[i.m.base] + i.m.imm)
        /\ i.m.k = "off" /\ R(n) = home /\ Aimed(s, e, i.m, n) /\ home \notin Homes(D) => Full(z, home) = a.reg[i.m.base]

(* The register of the base does not collide with the data. *)
Apart(i, s, e, n, Q, D) ==
    /\ IsMode(i.m) /\ n \in Names /\ Q \subseteq Gprs /\ D \subseteq Q \ {"xzr"}
    /\ Aimed(s, e, i.m, n) \/ Astray(i)
    /\ \A q \in Q : translate_reg(q) # R(n) \/ (i.m.k = "off" /\ q = i.m.base /\ Aimed(s, e, i.m, n))
    /\ Writes(i.m) => i.m.base \notin D
    /\ i.m.k # "off" => ClobbersFlags(i)
    /\ i.m.k = "ext" /\ i.m.by # "none" => i.m.r # "xzr"
    /\ i.m.k # "ext" /\ translate_reg(i.m.base).k = "reg" => R(n) = translate_reg(i.m.base)

LEMMA ApartFacts ==
    ASSUME NEW i, NEW s, NEW e, NEW n, NEW Q, NEW D, Apart(i, s, e, n, Q, D)
    PROVE  /\ \A q \in D : q \in Guests /\ q # "xzr" /\ IsPlace(translate_reg(q), Cells) /\ translate_reg(q) # RAX /\ translate_reg(q) # RSP
           /\ Writes(i.m) => R(n) \notin Homes(D) /\ translate_reg(i.m.base) \notin Homes(D)
           /\ RAX \notin Homes(D) /\ RSP \notin Homes(D)
           /\ translate_reg(i.m.base) # RAX
  <1>1. \A q \in D : q \in Guests /\ q # "xzr" /\ IsPlace(translate_reg(q), Cells) /\ translate_reg(q) # RAX /\ translate_reg(q) # RSP
    <2> SUFFICES ASSUME NEW q \in D
                 PROVE  q \in Guests /\ q # "xzr" /\ IsPlace(translate_reg(q), Cells) /\ translate_reg(q) # RAX /\ translate_reg(q) # RSP
      OBVIOUS
    <2>1. q \in Gprs /\ q # "xzr"
      BY DEF Apart
    <2> QED
      BY <2>1, GuestNames, HomeKinds, HomesDiffer, NotSp
  <1>2. ASSUME Writes(i.m) PROVE R(n) \notin Homes(D) /\ translate_reg(i.m.base) \notin Homes(D)
    <2>1. \A q \in D : translate_reg(q) # R(n)
      BY <1>2 DEF Apart, Writes
    <2>2. \A q \in D : q # i.m.base
      BY <1>2 DEF Apart
    <2> QED
      BY <2>1, <2>2, HomesDiffer DEF Homes
  <1> QED
    BY <1>1, <1>2, HomesDiffer DEF Homes

LEMMA AroundRun ==
    ASSUME NEW i, NEW a, NEW s, Sim(a, s), NEW e, Entered(s, e, Cells), NEW n, NEW Q, NEW D, Apart(i, s, e, n, Q, D),
           NEW b, NEW x, IsCode(x), \A y : Offers(i, a, y, n, Q) => Carries(i, b, y, Run(y, x), n, D)
    PROVE  Through(i, a, s, e, b, Run(e, Around(i.m, R(n), x)), n, D)
  <1> DEFINE m == i.m
             home == translate_reg(i.m.base)
  <1>1. IsMode(m) /\ n \in Names /\ IsPlace(R(n), Cells) /\ R(n) # Zero /\ IsPlace(home, Cells) /\ Awake(e, Cells) /\ e \in State(Cells)
        /\ e.mem = s.mem /\ e.flags = s.flags /\ a.mem = s.mem
    BY RegisterCode, ModeFacts DEF Apart, Entered, Awake, Sim
  <1>2. PICK v, f : v \in Words("x") /\ Addressed(a, s, e, m, n, v, f)
    <2>1. (m.k = "ext" /\ m.by # "none" => m.r # "xzr") /\ (m.k # "ext" /\ translate_reg(m.base).k = "reg" => R(n) = translate_reg(m.base))
      BY DEF Apart
    <2> HIDE DEF m
    <2> QED
      BY <1>1, <2>1, BeforePuts
  <1>3. Puts(e, Before(m, R(n)), R(n), "x", v, f, Cells) /\ (m.k = "off" => f = e.flags) /\ Reached(a, s, e, m, n, v)
    BY <1>2 DEF Addressed
  <1>4. PICK y : y = Run(e, Before(m, R(n)))
    OBVIOUS
  <1>5. Awake(y, Cells)
    BY <1>1, <1>3, <1>4, AwakeRun
  <1>6. IsCode(Before(m, R(n))) /\ Wrote(e, y, R(n), "x", v, Cells) /\ y.flags = f
    BY <1>3, <1>4 DEF Puts
  <1>7. Full(y, R(n)) = v /\ Control(e, y) /\ y.mem = e.mem /\ \A p : IsPlace(p, Cells) /\ p \notin {RAX, R(n)} => Full(y, p) = Full(e, p)
    <2>1. New(e, "x", R(n), v) = v
      <3>1. New(e, "x", R(n), v) = Low("x", v)
        BY OperandKinds DEF New, Widths
      <3> QED
        BY <1>2, <3>1, LowId, WidthsAre
    <2> QED
      BY <1>1, <1>6, <2>1 DEF Wrote, Kept
  <1>8. Offers(i, a, y, n, Q)
    <2>1. Astray(i) \/ Low("x", Full(y, R(n)) + Displaced(i.m)) = ArmAddress(a, i.m)
      BY <1>3, <1>7 DEF Apart, Reached
    <2>2. ASSUME NEW q \in Q \ {"xzr"} PROVE Full(y, translate_reg(q)) = a.reg[q]
      <3>1. q \in Gprs /\ q # "xzr" /\ q \in Guests
        BY GuestNames DEF Apart
      <3>2. IsPlace(translate_reg(q), Cells) /\ translate_reg(q) # RAX /\ translate_reg(q) # RSP
        BY <3>1, HomeKinds, HomesDiffer, NotSp
      <3>3. CASE translate_reg(q) # R(n)
        <4>1. Full(y, translate_reg(q)) = Full(e, translate_reg(q))
          BY <1>7, <3>2, <3>3
        <4>2. Full(e, translate_reg(q)) = Full(s, translate_reg(q))
          BY <3>2 DEF Entered
        <4> QED
          BY <3>1, <4>1, <4>2 DEF Sim, Same
      <3>4. CASE translate_reg(q) = R(n)
        <4>1. i.m.k = "off" /\ q = i.m.base /\ Aimed(s, e, i.m, n)
          BY <3>4 DEF Apart
        <4> QED
          BY <1>3, <1>7, <3>4, <4>1 DEF Reached
      <3> QED
        BY <3>3, <3>4
    <2> QED
      BY <1>1, <1>5, <1>7, <2>1, <2>2 DEF Offers
  <1>9. PICK u : u = Run(y, x) /\ Carries(i, b, y, u, n, D)
    BY <1>8
  <1>10. Awake(u, Cells)
    BY <1>5, <1>9 DEF Carries, Control, Awake
  <1>11. PICK z : z = Run(u, After(m, R(n))) /\ IsCode(After(m, R(n))) /\ Finished(u, z, m, n)
    <2>1. m.k # "ext" /\ translate_reg(m.base).k = "reg" => R(n) = translate_reg(m.base)
      BY DEF Apart
    <2> HIDE DEF m
    <2> QED
      BY <1>1, <1>10, <2>1, AfterRun
  <1>12. Run(e, Around(m, R(n), x)) = z
    <2> HIDE DEF m
    <2>1. PICK p : p = Before(m, R(n)) /\ IsCode(p) /\ Run(e, p) = y
      BY <1>4, <1>6
    <2>2. PICK q : q = p \o x /\ IsCode(q) /\ Run(e, q) = u
      <3>1. IsCode(p \o x) /\ Run(e, p \o x) = Run(Run(e, p), x)
        BY <2>1, RunConcat
      <3> QED
        BY <1>9, <2>1, <3>1
    <2>3. Run(e, q \o After(m, R(n))) = Run(Run(e, q), After(m, R(n)))
      BY <1>11, <2>2, RunConcat
    <2>4. Around(m, R(n), x) = q \o After(m, R(n))
      BY <2>1, <2>2 DEF Around
    <2> QED
      BY <1>11, <2>2, <2>3, <2>4
  <1>13. ASSUME NEW q \in D PROVE Full(z, translate_reg(q)) = b.reg[q]
    <2>1. IsPlace(translate_reg(q), Cells) /\ translate_reg(q) # RAX /\ translate_reg(q) \in Homes(D)
      BY <1>13, ApartFacts DEF Homes
    <2>2. Writes(m) => R(n) \notin Homes(D) /\ home \notin Homes(D)
      BY ApartFacts
    <2>3. Full(z, translate_reg(q)) = Full(u, translate_reg(q))
      BY <1>11, <2>1, <2>2 DEF Finished
    <2> QED
      BY <1>9, <2>3 DEF Carries
  <1>14. ASSUME NEW p, IsPlace(p, Cells), p \notin {RAX, R(n)} \cup Homes(D), ~(Writes(m) /\ p = home) PROVE Full(z, p) = Full(e, p)
    <2>1. Full(z, p) = Full(u, p)
      BY <1>11, <1>14 DEF Finished
    <2>2. Full(u, p) = Full(y, p)
      BY <1>9, <1>14 DEF Carries
    <2> QED
      BY <1>7, <1>14, <2>1, <2>2
  <1>15. ASSUME Writes(m), Aimed(s, e, m, n) PROVE Full(z, home) = Low("x", a.reg[m.base] + m.imm)
    <2>1. Full(u, R(n)) = v
      BY <1>7, <1>9, <1>15 DEF Carries
    <2>2. Full(z, home) = IF m.k = "pre" THEN v ELSE Low("x", v + m.imm)
      BY <1>11, <1>15, <2>1 DEF Finished
    <2>3. (m.k = "pre" => v = Low("x", a.reg[m.base] + m.imm)) /\ (m.k = "post" => v = a.reg[m.base])
      BY <1>3, <1>15 DEF Reached
    <2> QED
      BY <1>15, <2>2, <2>3 DEF Writes
  <1>16. ASSUME m.k = "off", R(n) = home, Aimed(s, e, m, n), home \notin Homes(D) PROVE Full(z, home) = a.reg[m.base]
    <2>1. v = a.reg[m.base] /\ ~Writes(m)
      BY <1>3, <1>16 DEF Reached, Writes
    <2>2. home # RAX
      BY ApartFacts
    <2>3. Full(z, home) = Full(u, home)
      BY <1>1, <1>11, <2>1 DEF Finished
    <2>4. Full(u, home) = Full(y, home)
      BY <1>1, <1>9, <1>16, <2>2 DEF Carries
    <2> QED
      BY <1>7, <1>16, <2>1, <2>3, <2>4
  <1>17. ClobbersFlags(i) \/ z.flags = e.flags
    <2>1. CASE m.k # "off"
      BY <2>1 DEF Apart
    <2>2. CASE m.k = "off"
      <3>1. z.flags = u.flags
        BY <1>11, <2>2 DEF Finished, Writes
      <3> QED
        BY <1>3, <1>6, <1>9, <2>2, <3>1 DEF Carries
    <2> QED
      BY <2>1, <2>2
  <1>18. z \in State(Cells) /\ Control(e, z) /\ z.mem = b.mem
    BY <1>7, <1>9, <1>11 DEF Finished, Carries, Control
  <1>19. Through(i, a, s, e, b, z, n, D)
    BY <1>13, <1>14, <1>15, <1>16, <1>17, <1>18 DEF Through
  <1> QED
    BY <1>12, <1>19

(* What the guest's processor makes of a: only D, and a base that is written back. *)
Expects(i, a, b, D) ==
    /\ b.taken = a.taken /\ b.flags = a.flags
    /\ \A q \in Guests \ D : b.reg[q] = IF Writes(i.m) /\ q = i.m.base THEN Low("x", a.reg[q] + i.m.imm) ELSE a.reg[q]

LEMMA GuestHome ==
    ASSUME NEW q \in Guests
    PROVE  IsPlace(translate_reg(q), Cells) /\ translate_reg(q) # RAX /\ translate_reg(q) # Zero
  <1>1. q \in Gprs \cup Addresses /\ q # "xzr"
    BY GuestAssumption DEF Gprs, Addresses
  <1> QED
    BY <1>1, HomeKinds, HomesDiffer, PlaceKinds

(* All the registers are right, the others as well as those in D. *)
LEMMA ThroughSame ==
    ASSUME NEW i, NEW a, NEW s, Sim(a, s), NEW b, NEW z, NEW D, NEW base, base = i.m.base, Expects(i, a, b, D),
           \A q \in D : Full(z, translate_reg(q)) = b.reg[q],
           Writes(i.m) => Full(z, translate_reg(base)) = Low("x", a.reg[base] + i.m.imm),
           \A q \in Guests : q \notin D /\ ~(Writes(i.m) /\ q = base) => Full(z, translate_reg(q)) = a.reg[q]
    PROVE  Same(b, z)
  BY DEF Same, Expects

LEMMA TransferFollows ==
    ASSUME NEW i, i.op \in MemoryOps, NEW a, NEW s, Sim(a, s), NEW b, NEW z, NEW D, Expects(i, a, b, D), Same(b, z),
           z.mem = b.mem, Control(s, z), ClobbersFlags(i) \/ z.flags = s.flags, b = ArmStep(a, i), z = Run(s, Compile(i))
    PROVE  Done(i, a, s)
  <1>1. i.op \notin FlagSetters
    BY DEF MemoryOps, Loads, Stores, FlagSetters
  <1>2. Follow(i, a, s, b, z)
    BY <1>1, KeptFollows DEF Expects
  <1>3. z.taken = b.taken
    <2>1. a.taken \in BOOLEAN /\ s.taken \in BOOLEAN
      BY SimFacts DEF ArmState, State
    <2> QED
      BY <2>1 DEF Control, Expects, Sim, Active
  <1> QED
    BY <1>2, <1>3 DEF Done, Does, Agree

LEMMA PlainlyDone ==
    ASSUME NEW i, i.op \in MemoryOps, NEW a, NEW s, Sim(a, s), NEW n, NEW Q, NEW D, Apart(i, s, s, n, Q, D),
           R(n) = translate_reg(i.m.base) \/ R(n) = RAX, i.m.k = "ext" => R(n) # translate_reg(i.m.base),
           NEW b, b = ArmStep(a, i), Expects(i, a, b, D),
           NEW x, IsCode(x), \A y : Offers(i, a, y, n, Q) => Carries(i, b, y, Run(y, x), n, D),
           Compile(i) = Around(i.m, R(n), x)
    PROVE  Done(i, a, s)
  <1> DEFINE home == translate_reg(i.m.base)
  <1>1. Entered(s, s, Cells)
    BY SimFacts DEF Entered
  <1>2. PICK z : z = Run(s, Compile(i)) /\ Through(i, a, s, s, b, z, n, D)
    BY <1>1, AroundRun
  <1>3. Aimed(s, s, i.m, n)
    BY DEF Aimed
  <1>4. ASSUME NEW q \in Guests, q \notin D, ~(Writes(i.m) /\ q = i.m.base) PROVE Full(z, translate_reg(q)) = a.reg[q]
    <2>1. IsPlace(translate_reg(q), Cells) /\ translate_reg(q) # RAX /\ translate_reg(q) \notin Homes(D)
          /\ (translate_reg(q) = home => q = i.m.base)
      BY <1>4, GuestHome, HomesDiffer DEF Homes
    <2>2. CASE translate_reg(q) # R(n)
      <3>1. Full(z, translate_reg(q)) = Full(s, translate_reg(q))
        BY <1>2, <1>4, <2>1, <2>2 DEF Through
      <3> QED
        BY <3>1 DEF Sim, Same
    <2>3. CASE translate_reg(q) = R(n)
      <3>1. R(n) = home /\ q = i.m.base
        BY <2>1, <2>3
      <3>2. i.m.k = "off"
        <4>1. i.m.k \in {"off", "pre", "post", "ext"}
          BY ModeFacts DEF Apart
        <4> QED
          BY <1>4, <3>1, <4>1 DEF Writes
      <3> QED
        BY <1>2, <1>3, <2>1, <2>3, <3>1, <3>2 DEF Through
    <2> QED
      BY <2>2, <2>3
  <1>5. Same(b, z)
    <2>1. Writes(i.m) => Full(z, home) = Low("x", a.reg[i.m.base] + i.m.imm)
      BY <1>2, <1>3 DEF Through
    <2>2. \A q \in D : Full(z, translate_reg(q)) = b.reg[q]
      BY <1>2 DEF Through
    <2>3. ASSUME NEW q \in Guests PROVE Full(z, translate_reg(q)) = b.reg[q]
      <3>1. CASE q \in D
        BY <2>2, <3>1
      <3>2. CASE q \notin D /\ ~(Writes(i.m) /\ q = i.m.base)
        <4>1. Full(z, translate_reg(q)) = a.reg[q]
          BY <1>4, <3>2
        <4> QED
          BY <3>2, <4>1 DEF Expects
      <3>3. CASE q \notin D /\ Writes(i.m) /\ q = i.m.base
        BY <2>1, <3>3 DEF Expects
      <3> QED
        BY <3>1, <3>2, <3>3
    <2> QED
      BY <2>3 DEF Same
  <1>6. z.mem = b.mem /\ Control(s, z) /\ (ClobbersFlags(i) \/ z.flags = s.flags)
    BY <1>2 DEF Through
  <1> QED
    BY <1>2, <1>5, <1>6, TransferFollows

(* What is to show of a transfer x: it carries the data D, whatever stands around it. *)
Carrier(i, a, n, Q, D, x) ==
    LET b == ArmStep(a, i)
    IN  /\ IsCode(x) /\ Expects(i, a, b, D)
        /\ \A y : Offers(i, a, y, n, Q) => Carries(i, b, y, Run(y, x), n, D)

(* Register n is borrowed for the address. *)
Lends(i, s, n, Q, D) ==
    /\ n \in {"r10", "r9", "r14"} /\ R(n) \notin Homes(D) /\ (i.m.k = "ext" \/ translate_reg(i.m.base).k = "cell")
    /\ \A e : Entered(s, e, Cells) => Apart(i, s, e, n, Q, D)

LEMMA BorrowedDone ==
    ASSUME NEW i, i.op \in MemoryOps, NEW a, NEW s, Sim(a, s), NEW n, NEW Q, NEW D, Lends(i, s, n, Q, D), NEW x, Carrier(i, a, n, Q, D, x),
           IsPlainCode(Around(i.m, R(n), x), Cells), Compile(i) = Bracket(R(n), Around(i.m, R(n), x))
    PROVE  Done(i, a, s)
  <1> DEFINE home == translate_reg(i.m.base)
  <1>0. /\ n \in {"r10", "r9", "r14"} /\ R(n) \notin Homes(D) /\ (i.m.k = "ext" \/ home.k = "cell")
        /\ \A e : Entered(s, e, Cells) => Apart(i, s, e, n, Q, D)
    BY DEF Lends
  <1>b. PICK b : b = ArmStep(a, i) /\ Expects(i, a, b, D) /\ IsCode(x)
               /\ \A y : Offers(i, a, y, n, Q) => Carries(i, b, y, Run(y, x), n, D)
    BY DEF Carrier
  <1>1. n \in Names /\ n # "rsp" /\ Active(s, Cells) /\ IsPlace(RSP, Cells) /\ RSP # RAX /\ R(n) # RAX /\ R(n) # RSP
        /\ RSP.k = "reg" /\ s \in State(Cells)
    BY <1>0, RaxRdx, OperandKinds, SimFacts DEF Names, Direct, Sim, RSP, RAX
  <1>2. PICK t, u : /\ u = Run(t, Around(i.m, R(n), x)) /\ Entered(s, t, Cells)
                    /\ IF u.fault THEN Run(s, Compile(i)).fault ELSE Unwound(s, t, u, Run(s, Compile(i)), n, Cells)
    BY <1>1, BracketFull DEF Entered
  <1>3. Apart(i, s, t, n, Q, D)
    BY <1>0, <1>2
  <1>4. Through(i, a, s, t, b, u, n, D)
    BY <1>2, <1>3, <1>b, AroundRun
  <1>5. ~u.fault
    BY <1>2, <1>4 DEF Through, Control, Entered, Awake
  <1>6. PICK z : z = Run(s, Compile(i)) /\ Unwound(s, t, u, z, n, Cells)
    BY <1>2, <1>5
  <1>7. RSP \notin Homes(D) /\ ~(Writes(i.m) /\ RSP = home)
    <2>1. RSP \notin Homes(D)
      BY <1>3, ApartFacts
    <2>2. Writes(i.m) => home.k = "cell"
      BY <1>0 DEF Writes
    <2> QED
      BY <1>1, <2>1, <2>2
  <1>8. Full(z, RSP) = Full(s, RSP)
    <2>1. Full(u, RSP) = Full(t, RSP)
      BY <1>1, <1>4, <1>7 DEF Through
    <2> QED
      BY <1>6, <2>1 DEF Unwound
  <1>9. ASSUME NEW q \in Guests, q \notin D, ~(Writes(i.m) /\ q = i.m.base) PROVE Full(z, translate_reg(q)) = a.reg[q]
    <2>1. IsPlace(translate_reg(q), Cells) /\ translate_reg(q) # RAX /\ translate_reg(q) \notin Homes(D)
          /\ (translate_reg(q) = home => q = i.m.base)
      BY <1>9, GuestHome, HomesDiffer DEF Homes
    <2>2. Full(z, translate_reg(q)) = Full(s, translate_reg(q))
      <3>1. CASE translate_reg(q) = RSP
        BY <1>8, <3>1
      <3>2. CASE translate_reg(q) = R(n)
        BY <1>6, <3>2 DEF Unwound
      <3>3. CASE translate_reg(q) # RSP /\ translate_reg(q) # R(n)
        <4>1. Full(z, translate_reg(q)) = Full(u, translate_reg(q))
          BY <1>6, <2>1, <3>3 DEF Unwound
        <4>2. Full(u, translate_reg(q)) = Full(t, translate_reg(q))
          BY <1>4, <1>9, <2>1, <3>3 DEF Through
        <4>3. Full(t, translate_reg(q)) = Full(s, translate_reg(q))
          BY <1>2, <2>1, <3>3 DEF Entered
        <4> QED
          BY <4>1, <4>2, <4>3
      <3> QED
        BY <3>1, <3>2, <3>3
    <2> QED
      BY <2>2 DEF Sim, Same
  <1>10. Same(b, z)
    <2>1. ASSUME NEW q \in D PROVE Full(z, translate_reg(q)) = b.reg[q]
      <3>1. translate_reg(q) \in Homes(D) /\ IsPlace(translate_reg(q), Cells)
        BY <1>3, ApartFacts DEF Homes
      <3>2. Full(z, translate_reg(q)) = Full(u, translate_reg(q))
        BY <1>0, <1>6, <1>7, <3>1 DEF Unwound
      <3> QED
        BY <1>4, <3>2 DEF Through
    <2>2. ASSUME Writes(i.m) PROVE Full(z, home) = Low("x", a.reg[i.m.base] + i.m.imm)
      <3>1. home.k = "cell" /\ IsPlace(home, Cells)
        BY <1>0, <1>3, <2>2, ModeFacts DEF Writes, Apart
      <3>2. home # RSP /\ home # R(n)
        BY <1>1, <3>1, OperandKinds
      <3>3. Aimed(s, t, i.m, n)
        <4>1. Full(t, home) = Full(s, home)
          BY <1>2, <3>1, <3>2 DEF Entered
        <4> QED
          BY <2>2, <4>1 DEF Aimed, Writes
      <3>4. Full(u, home) = Low("x", a.reg[i.m.base] + i.m.imm)
        BY <1>4, <2>2, <3>3 DEF Through
      <3> QED
        BY <1>6, <3>1, <3>2, <3>4 DEF Unwound
    <2>3. PICK base : base = i.m.base
      OBVIOUS
    <2>4. Expects(i, a, b, D)
      BY <1>b
    <2>5. Writes(i.m) => Full(z, translate_reg(base)) = Low("x", a.reg[base] + i.m.imm)
      BY <2>2, <2>3
    <2>6. \A q \in Guests : q \notin D /\ ~(Writes(i.m) /\ q = base) => Full(z, translate_reg(q)) = a.reg[q]
      BY <1>9, <2>3
    <2> QED
      BY <2>1, <2>3, <2>4, <2>5, <2>6, ThroughSame
  <1>11. z.mem = b.mem /\ Control(s, z) /\ (ClobbersFlags(i) \/ z.flags = s.flags)
    BY <1>2, <1>4, <1>6 DEF Through, Unwound, Entered
  <1> QED
    BY <1>6, <1>10, <1>11, <1>b, TransferFollows

(* What a store leaves. *)
Stored(y, u, n, adr, size, v, src) ==
    /\ u \in State(Cells) /\ Control(y, u) /\ u.mem = Store(y.mem, adr, size, v)
    /\ \A p : IsPlace(p, Cells) /\ p # RAX => Full(u, p) = Full(y, p)
    /\ Full(u, R(n)) = Full(y, R(n))
    /\ src # Zero => u.flags = y.flags

LEMMA PutMemory ==
    ASSUME NEW t \in State(Cells), NEW size \in Bytewide, NEW n \in Names, NEW k \in Int, NEW v \in Int, NEW u, u = Put(t, size, M(n, k), v)
    PROVE  /\ u \in State(Cells) /\ Frame(t, u) /\ u.mem = Store(t.mem, Low("x", Full(t, R(n)) + k), size, v)
           /\ \A p : Full(u, p) = Full(t, p)
  <1>1. IsTarget(M(n, k), Cells)
    BY DEF IsTarget
  <1>2. u \in State(Cells) /\ Frame(t, u)
    BY <1>1, PutType
  <1>3. u = [t EXCEPT !.mem = Store(t.mem, Address(t, M(n, k)), size, v)]
    BY OperandKinds DEF Put
  <1>4. Address(t, M(n, k)) = Low("x", t.reg[n] + k) /\ Full(t, R(n)) = t.reg[n]
    BY AddressType, OperandKinds DEF Full
  <1>5. u.mem = Store(t.mem, Address(t, M(n, k)), size, v) /\ u.reg = t.reg /\ u.cell = t.cell
    BY <1>3 DEF State
  <1> QED
    BY <1>2, <1>4, <1>5 DEF Full

LEMMA StoreRun ==
    ASSUME NEW y, Awake(y, Cells), NEW src, IsHome(src, Cells), NEW c \in Widths, NEW size \in Bytewide, Order[size] <= Order[c],
           NEW n \in Names, NEW a, NEW extra \in Int, a.base = R(n), a.offset \in Int, src.k = "reg" \/ R(n) # RAX,
           NEW x, x = make_store(src, c, size, a, extra)
    PROVE  IsCode(x) /\ Stored(y, Run(y, x), n, Low("x", Full(y, R(n)) + (a.offset + extra)), size, Val(y, c, src), src)
  <1> DEFINE p == pre_read(src, c)
             o == reg_operand(src)
             k == a.offset + extra
  <1>1. c \in Bytewide /\ y \in State(Cells) /\ IsPlace(o, Cells) /\ k \in Int /\ IsPlace(R(n), Cells)
    BY WidthsAre, HomeOperand, RegisterCode DEF Awake
  <1>2. PICK f : Puts(y, p, Zero, c, 0, f, Cells) /\ (src # Zero => f = y.flags) /\ Get(Run(y, p), c, o) = Val(y, c, src)
    <2>1. Fetches(y, p, src, c, Cells)
      BY PreReadFetches
    <2> QED
      BY <2>1 DEF Fetches
  <1>3. PICK t : t = Run(y, p)
    OBVIOUS
  <1>4. Awake(t, Cells)
    BY <1>2, <1>3, AwakeRun
  <1>5. IsCode(p) /\ Control(y, t) /\ t.mem = y.mem /\ t.flags = f /\ t \in State(Cells)
        /\ \A q : IsPlace(q, Cells) /\ q # RAX => Full(t, q) = Full(y, q)
    <2>1. Wrote(y, t, Zero, c, 0, Cells) /\ IsCode(p) /\ t.flags = f
      BY <1>2, <1>3 DEF Puts
    <2>2. \A q : IsPlace(q, Cells) => q # Zero
      BY PlaceKinds
    <2> QED
      BY <2>1, <2>2 DEF Wrote, Kept
  <1>6. Full(t, R(n)) = Full(y, R(n))
    <2>1. CASE src.k = "reg"
      <3>1. p = <<>>
        BY <2>1, PreReadFetches
      <3> QED
        BY <1>3, <3>1, RunShort
    <2>2. CASE R(n) # RAX
      BY <1>1, <1>5, <2>2
    <2> QED
      BY <2>1, <2>2
  <1>7. PICK v \in Int : v = Get(t, size, o) /\ Low(size, v) = Low(size, Val(y, c, src))
    <2>1. Full(t, o) \in Int /\ Get(t, size, o) = Low(size, Full(t, o)) /\ Get(t, c, o) = Low(c, Full(t, o))
      BY <1>1, <1>5, FullType
    <2>2. Low(size, Full(t, o)) \in Int /\ Low(size, Low(size, Full(t, o))) = Low(size, Full(t, o))
      BY <2>1, LowType, LowId
    <2>3. Low(size, Low(c, Full(t, o))) = Low(size, Full(t, o))
      BY <1>1, <2>1, LowNarrow
    <2> QED
      BY <1>2, <1>3, <2>1, <2>2, <2>3
  <1>8. PICK u : u = Put(t, size, M(n, k), v)
    OBVIOUS
  <1>9. u \in State(Cells) /\ Frame(t, u) /\ u.mem = Store(t.mem, Low("x", Full(t, R(n)) + k), size, v) /\ \A q : Full(u, q) = Full(t, q)
    BY <1>1, <1>5, <1>8, PutMemory
  <1>10. Store(t.mem, Low("x", Full(t, R(n)) + k), size, v) = Store(y.mem, Low("x", Full(y, R(n)) + k), size, Val(y, c, src))
    BY <1>5, <1>6, <1>7 DEF Store
  <1>11. IsCode(x) /\ Run(y, x) = u
    <2>1. PICK q : q = <<I("mov", size, M(n, k), o)>> /\ IsCode(q) /\ Run(t, q) = u
      <3>1. Run(t, <<I("mov", size, M(n, k), o)>>) = Effect(t, I("mov", size, M(n, k), o)) /\ IsCode(<<I("mov", size, M(n, k), o)>>)
        BY <1>4, RunOne, RunShort DEF Awake
      <3> QED
        BY <1>7, <1>8, <3>1, EffectOfMov
    <2>2. x = p \o q
      <3>1. memory_operand(a, extra) = M(n, k)
        BY OperandKinds DEF memory_operand
      <3> QED
        BY <2>1, <3>1 DEF make_store
    <2>3. PICK w : w = p /\ IsCode(w) /\ Run(y, w) = t
      BY <1>3, <1>5
    <2>4. IsCode(w \o q) /\ Run(y, w \o q) = Run(Run(y, w), q)
      BY <2>1, <2>3, RunConcat
    <2> QED
      BY <2>1, <2>2, <2>3, <2>4
  <1>12. Control(y, u) /\ u.flags = f
    BY <1>5, <1>9 DEF Frame, Control
  <1>13. Full(u, R(n)) = Full(y, R(n)) /\ \A q : IsPlace(q, Cells) /\ q # RAX => Full(u, q) = Full(y, q)
    BY <1>5, <1>6, <1>9
  <1>14. u.mem = Store(y.mem, Low("x", Full(y, R(n)) + k), size, Val(y, c, src))
    BY <1>9, <1>10
  <1>15. Stored(y, u, n, Low("x", Full(y, R(n)) + k), size, Val(y, c, src), src)
    BY <1>2, <1>9, <1>12, <1>13, <1>14 DEF Stored
  <1> QED
    BY <1>11, <1>15

(* What is read there. *)
LoadedAt(mem, adr, c, size, signed) ==
    IF size # c /\ signed THEN Signed(size, Low(size, Load(mem, adr))) ELSE Low(size, Load(mem, adr))

LEMMA LoadedType ==
    ASSUME NEW y \in State(Cells), NEW v \in Int, NEW c, NEW size \in Bytewide, NEW signed
    PROVE  LoadedAt(y.mem, Low("x", v), c, size, signed) \in Int
  <1>1. Low("x", v) \in Words("x") /\ y.mem \in Memory
    BY LowType, WidthsAre DEF State
  <1>2. Load(y.mem, Low("x", v)) \in Int
    BY <1>1, LoadType
  <1>3. Low(size, Load(y.mem, Low("x", v))) \in Int
    BY <1>2, LowType
  <1>4. Signed(size, Low(size, Load(y.mem, Low("x", v)))) \in Int
    BY <1>3, SignedFacts
  <1> QED
    BY <1>3, <1>4 DEF LoadedAt

LEMMA WideMoves ==
    /\ \A s, c, to, from, d : Effect(s, Iw("movzx", c, to, from, d)) = Put(s, c, to, Get(s, d, from))
    /\ \A s, c, to, from, d : Effect(s, Iw("movsx", c, to, from, d)) = Put(s, c, to, Signed(d, Get(s, d, from)))
  BY EffectOfWide

LEMMA LoadRun ==
    ASSUME NEW y, Awake(y, Cells), NEW dest, IsHome(dest, Cells), NEW c \in Widths, NEW size \in Bytewide, NEW signed \in BOOLEAN,
           size = c \/ (size = "w" /\ c = "x" /\ signed) \/ (size \in {"b", "h"} /\ c = "w"),
           NEW n \in Names, NEW a, NEW extra \in Int, a.base = R(n), a.offset \in Int,
           NEW x, x = make_load(dest, c, size, signed, a, extra),
           NEW v, v = LoadedAt(y.mem, Low("x", Full(y, R(n)) + (a.offset + extra)), c, size, signed)
    PROVE  /\ Puts(y, x, dest, c, v, y.flags, Cells) /\ v \in Int
           /\ dest # R(n) /\ (dest.k = "reg" \/ R(n) # RAX) => Full(Run(y, x), R(n)) = Full(y, R(n))
  <1> DEFINE o == reg_operand(dest)
             k == a.offset + extra
             p == M(n, k)
             load == CASE size = c                    -> I("mov", c, o, p)
                       [] size = "w" /\ c = "x"       -> Iw("movsx", "x", o, p, "w")
                       [] size \in {"b", "h"} /\ c = "w" -> Iw(IF signed THEN "movsx" ELSE "movzx", "w", o, p, size)
  <1>1. c \in Bytewide /\ y \in State(Cells) /\ IsPlace(o, Cells) /\ k \in Int /\ IsPlace(R(n), Cells) /\ c \in {"w", "x"}
    BY WidthsAre, HomeOperand, RegisterCode DEF Awake, Widths
  <1>2. x = <<load>> \o post_write(dest, c)
    <2>1. memory_operand(a, extra) = p
      BY OperandKinds DEF memory_operand
    <2>2. CASE size = c
      BY <2>1, <2>2 DEF make_load
    <2>3. CASE size = "w" /\ c = "x"
      BY <2>1, <2>3 DEF make_load
    <2>4. CASE size \in {"b", "h"} /\ c = "w"
      BY <2>1, <2>4 DEF make_load
    <2> QED
      BY <2>2, <2>3, <2>4
  <1>3. \A d : Get(y, d, p) = Low(d, Load(y.mem, Low("x", Full(y, R(n)) + k)))
    <2>1. Address(y, p) = Low("x", y.reg[n] + k) /\ Full(y, R(n)) = y.reg[n]
      BY <1>1, AddressType, OperandKinds DEF Full
    <2> QED
      BY <2>1, OperandKinds DEF Get
  <1>4. v \in Int
    <2>1. PICK q \in Int : q = Full(y, R(n)) + k
      <3>1. Full(y, R(n)) \in Int
        BY <1>1, FullType
      <3> QED
        BY <1>1, <3>1
    <2> QED
      BY <1>1, <2>1, LoadedType
  <1>5. Effect(y, load) = Put(y, c, o, v)
    <2>1. CASE size = c
      <3>1. v = Get(y, c, p)
        BY <1>3, <2>1 DEF LoadedAt
      <3> QED
        BY <2>1, <3>1, EffectOfMov
    <2>2. CASE size = "w" /\ c = "x"
      <3>1. v = Signed("w", Get(y, "w", p)) /\ load = Iw("movsx", "x", o, p, "w")
        BY <1>3, <2>2 DEF LoadedAt
      <3> HIDE DEF load, o, p
      <3>2. Effect(y, Iw("movsx", "x", o, p, "w")) = Put(y, "x", o, Signed("w", Get(y, "w", p)))
        BY WideMoves
      <3> QED
        BY <2>2, <3>1, <3>2
    <2>3. CASE size \in {"b", "h"} /\ c = "w" /\ signed
      <3>1. v = Signed(size, Get(y, size, p)) /\ load = Iw("movsx", "w", o, p, size)
        BY <1>3, <2>3 DEF LoadedAt
      <3> HIDE DEF load, o, p
      <3>2. Effect(y, Iw("movsx", "w", o, p, size)) = Put(y, "w", o, Signed(size, Get(y, size, p)))
        BY WideMoves
      <3> QED
        BY <2>3, <3>1, <3>2
    <2>4. CASE size \in {"b", "h"} /\ c = "w" /\ ~signed
      <3>1. v = Get(y, size, p) /\ load = Iw("movzx", "w", o, p, size)
        BY <1>3, <2>4 DEF LoadedAt
      <3> HIDE DEF load, o, p
      <3>2. Effect(y, Iw("movzx", "w", o, p, size)) = Put(y, "w", o, Get(y, size, p))
        BY WideMoves
      <3> QED
        BY <2>4, <3>1, <3>2
    <2> QED
      BY <2>1, <2>2, <2>3, <2>4
  <1> HIDE DEF load
  <1>6. Puts(y, <<load>>, o, c, v, y.flags, Cells)
    BY <1>1, <1>4, <1>5, PutsOne
  <1>7. Puts(y, x, dest, c, v, y.flags, Cells)
    BY <1>2, <1>4, <1>6, PutsPost
  <1>8. ASSUME dest # R(n), dest.k = "reg" \/ R(n) # RAX PROVE Full(Run(y, x), R(n)) = Full(y, R(n))
    <2>1. CASE R(n) # RAX
      <3>1. Wrote(y, Run(y, x), dest, c, v, Cells)
        BY <1>7 DEF Puts
      <3> QED
        BY <1>1, <1>8, <2>1, <3>1 DEF Wrote, Kept
    <2>2. CASE dest.k = "reg"
      <3>1. post_write(dest, c) = <<>> /\ o = dest
        BY <2>2 DEF post_write, reg_operand
      <3>2. x = <<load>>
        <4>1. IsCode(<<load>>)
          BY RunShort
        <4> QED
          BY <1>2, <3>1, <4>1, EmptyParts
      <3>3. Run(y, <<load>>) = Put(y, c, o, v)
        BY <1>5, RunOne DEF Awake
      <3>4. Full(Put(y, c, o, v), R(n)) = Full(y, R(n))
        BY <1>1, <1>4, <1>8, <3>1, PutFull
      <3> QED
        BY <3>2, <3>3, <3>4
    <2> QED
      BY <1>8, <2>1, <2>2
  <1> QED
    BY <1>4, <1>7, <1>8

LEMMA BackIs ==
    ASSUME NEW a \in ArmState, NEW m, IsMode(m), NEW t, t = WriteBack(a, m)
    PROVE  /\ t \in ArmState /\ t.flags = a.flags /\ t.mem = a.mem /\ t.taken = a.taken
           /\ \A q \in Guests : t.reg[q] = IF Writes(m) /\ q = m.base THEN Low("x", a.reg[q] + m.imm) ELSE a.reg[q]
  <1>1. t \in ArmState /\ t.flags = a.flags /\ t.mem = a.mem /\ t.taken = a.taken
    BY ModeGuest
  <1>2. m.base \in Guests
    BY ModeFacts, GuestNames
  <1>3. CASE Writes(m)
    <2>1. t = [a EXCEPT !.reg[m.base] = Low("x", a.reg[m.base] + m.imm)]
      BY <1>3 DEF WriteBack, Writes
    <2> QED
      BY <1>1, <1>2, <1>3, <2>1 DEF ArmState
  <1>4. CASE ~Writes(m)
    <2>1. t = a
      BY <1>4 DEF WriteBack, Writes
    <2> QED
      BY <1>1, <1>4, <2>1
  <1> QED
    BY <1>3, <1>4

LEMMA MemoryStep == \A a, i : i.op \in MemoryOps => ArmStep(a, i) = Transfer(a, i)
  BY DEF ArmStep, MemoryOps, Loads, Stores

(* The data are the guest's. *)
LEMMA OffersVal ==
    ASSUME NEW i, NEW a \in ArmState, NEW y, NEW n, NEW Q, Offers(i, a, y, n, Q), NEW r \in Gprs, r \in Q, NEW c \in Bytewide
    PROVE  Val(y, c, translate_reg(r)) = Read(a, c, r) /\ Read(a, c, r) \in Int
  <1>1. IsHome(translate_reg(r), Cells) /\ (translate_reg(r) = Zero <=> r = "xzr") /\ y \in State(Cells)
    BY HomeOf DEF Offers, Awake
  <1>2. CASE r = "xzr"
    BY <1>1, <1>2 DEF Val, Read
  <1>3. CASE r # "xzr"
    <2>1. Get(y, c, translate_reg(r)) = Low(c, Full(y, translate_reg(r)))
      BY <1>1, <1>3, FullType DEF IsHome
    <2>2. Full(y, translate_reg(r)) = a.reg[r]
      BY <1>3 DEF Offers
    <2>3. r \in Guests
      BY <1>3, GuestNames
    <2>4. a.reg[r] \in Int
      BY <2>3, WordFacts DEF ArmState
    <2>5. Low(c, a.reg[r]) \in Int
      BY <2>4, LowType
    <2> QED
      BY <1>1, <1>3, <2>1, <2>2, <2>5 DEF Val, Read
  <1> QED
    BY <1>2, <1>3

LEMMA StoreCarrier ==
    ASSUME NEW i, i.op \in Stores, i.c \in Widths, i.d \in Gprs, IsMode(i.m), NEW a \in ArmState, NEW n \in Names,
           translate_reg(i.d).k = "reg" \/ R(n) # RAX, NEW m, m.base = R(n), m.offset = Displaced(i.m),
           NEW x, x = make_store(translate_reg(i.d), i.c, Size(i), m, 0)
    PROVE  Carrier(i, a, n, {i.d}, {}, x)
  <1> DEFINE src == translate_reg(i.d)
             b == ArmStep(a, i)
  <1>1. PICK c, size : c = i.c /\ size = Size(i) /\ c \in Widths /\ c \in Bytewide /\ size \in Bytewide /\ Order[size] <= Order[c]
    <2>1. Size(i) \in {"b", "h", i.c} /\ i.c \in {"w", "x"}
      BY DEF Size, Stores, Widths
    <2> QED
      BY <2>1, WidthsAre DEF Order, Bytewide
  <1>2. IsHome(src, Cells) /\ (src = Zero <=> i.d = "xzr") /\ 0 \in Int /\ m.offset \in Int
    BY HomeOf, ModeFacts DEF Displaced
  <1>3. PICK t : t = WriteBack(a, i.m) /\ t \in ArmState /\ t.flags = a.flags /\ t.mem = a.mem /\ t.taken = a.taken
               /\ \A q \in Guests : t.reg[q] = IF Writes(i.m) /\ q = i.m.base THEN Low("x", a.reg[q] + i.m.imm) ELSE a.reg[q]
    BY BackIs
  <1>4. b = [t EXCEPT !.mem = Store(t.mem, ArmAddress(a, i.m), size, Read(a, c, i.d))]
    <2>1. i.op \in MemoryOps /\ i.op \notin Loads
      BY DEF MemoryOps, Stores, Loads
    <2>2. b = Transfer(a, i)
      BY <2>1, MemoryStep
    <2>3. Transfer(a, i) = [t EXCEPT !.mem = Store(t.mem, ArmAddress(a, i.m), Size(i), Read(a, i.c, i.d))]
      BY <1>3 DEF Transfer, Stores, Loads
    <2> HIDE DEF b
    <2> QED
      BY <1>1, <2>2, <2>3
  <1>5. b.mem = Store(a.mem, ArmAddress(a, i.m), size, Read(a, c, i.d)) /\ b.reg = t.reg /\ b.flags = t.flags /\ b.taken = t.taken
    BY <1>3, <1>4 DEF ArmState
  <1>6. Expects(i, a, b, {})
    BY <1>3, <1>5 DEF Expects
  <1>7. IsCode(x)
    <2>1. Coded(make_store(src, c, size, m, 0), {}, Cells)
      BY <1>1, <1>2, StoreCode
    <2> QED
      BY <1>1, <2>1, CodedIsCode
  <1>8. ASSUME NEW y, Offers(i, a, y, n, {i.d}) PROVE Carries(i, b, y, Run(y, x), n, {})
    <2>1. Awake(y, Cells) /\ y.mem = a.mem /\ Low("x", Full(y, R(n)) + Displaced(i.m)) = ArmAddress(a, i.m)
      <3>1. ~Astray(i)
        BY DEF Astray, Loads, Stores
      <3> QED
        BY <1>8, <3>1 DEF Offers
    <2>2. Val(y, c, src) = Read(a, c, i.d)
      BY <1>1, <1>8, OffersVal
    <2>3. PICK u : u = Run(y, x) /\ Stored(y, u, n, Low("x", Full(y, R(n)) + (m.offset + 0)), size, Val(y, c, src), src)
      BY <1>1, <1>2, <2>1, StoreRun
    <2>4. m.offset + 0 = Displaced(i.m)
      BY <1>2
    <2>5. u \in State(Cells) /\ Control(y, u) /\ u.mem = b.mem /\ Full(u, R(n)) = Full(y, R(n))
          /\ (\A p : IsPlace(p, Cells) /\ p # RAX => Full(u, p) = Full(y, p)) /\ (src # Zero => u.flags = y.flags)
      BY <1>5, <2>1, <2>2, <2>3, <2>4 DEF Stored
    <2>6. ClobbersFlags(i) \/ u.flags = y.flags
      <3>1. i.d = "xzr" => ClobbersFlags(i)
        BY DEF ClobbersFlags
      <3> QED
        BY <1>2, <2>5, <3>1
    <2> QED
      BY <2>3, <2>5, <2>6 DEF Carries
  <1> QED
    BY <1>6, <1>7, <1>8 DEF Carrier

(* How a load fills its register. *)
Fills(i, size, signed) ==
    /\ size = Size(i) /\ signed \in BOOLEAN /\ (size # i.c /\ signed <=> i.op \in {"LDRSB", "LDRSH", "LDRSW"})
    /\ size \in Bytewide /\ (size = i.c \/ (size = "w" /\ i.c = "x" /\ signed) \/ (size \in {"b", "h"} /\ i.c = "w"))

LEMMA LoadCarrier ==
    ASSUME NEW i, i.op \in Loads, i.c \in Widths, i.d \in Gprs, IsMode(i.m), ~StaleUpperHalf(i), NEW a \in ArmState, NEW n \in Names,
           translate_reg(i.d).k = "reg" \/ R(n) # RAX, Writes(i.m) => translate_reg(i.d) # R(n) /\ i.m.base # i.d,
           NEW m, m.base = R(n), m.offset = Displaced(i.m),
           NEW size, NEW signed, Fills(i, size, signed), NEW x, x = make_load(translate_reg(i.d), i.c, size, signed, m, 0)
    PROVE  Carrier(i, a, n, {i.d}, {i.d} \ {"xzr"}, x)
  <1> DEFINE dest == translate_reg(i.d)
             D == {i.d} \ {"xzr"}
             b == ArmStep(a, i)
  <1>1. PICK c : c = i.c /\ c \in Widths /\ c \in Bytewide
    BY WidthsAre
  <1>2. IsHome(dest, Cells) /\ (dest = Zero <=> i.d = "xzr") /\ 0 \in Int /\ m.offset \in Int /\ dest # RAX
    BY HomeOf, ModeFacts, HomesDiffer DEF Displaced
  <1>3. PICK t : t = WriteBack(a, i.m) /\ t \in ArmState /\ t.flags = a.flags /\ t.mem = a.mem /\ t.taken = a.taken
               /\ \A q \in Guests : t.reg[q] = IF Writes(i.m) /\ q = i.m.base THEN Low("x", a.reg[q] + i.m.imm) ELSE a.reg[q]
    BY BackIs
  <1>4. PICK l \in Int : l = Loaded(a, i, ArmAddress(a, i.m))
    <2>1. ArmAddress(a, i.m) \in Words("x") /\ a.mem \in Memory /\ Size(i) \in Bytewide
      BY ModeGuest DEF ArmState, Fills
    <2>2. Load(a.mem, ArmAddress(a, i.m)) \in Int
      BY <2>1, LoadType
    <2>3. Low(Size(i), Load(a.mem, ArmAddress(a, i.m))) \in Int
      BY <2>1, <2>2, LowType
    <2>4. Signed(Size(i), Low(Size(i), Load(a.mem, ArmAddress(a, i.m)))) \in Int
      BY <2>1, <2>3, SignedFacts
    <2> QED
      BY <2>3, <2>4 DEF Loaded
  <1>5. b = Write(t, c, i.d, l)
    <2>1. i.op \in MemoryOps
      BY DEF MemoryOps
    <2>2. b = Transfer(a, i)
      BY <2>1, MemoryStep
    <2>3. Transfer(a, i) = Write(t, i.c, i.d, Loaded(a, i, ArmAddress(a, i.m)))
      BY <1>3 DEF Transfer, Stores, Loads
    <2> HIDE DEF b
    <2> QED
      BY <1>1, <1>4, <2>2, <2>3
  <1>6. b.flags = a.flags /\ b.mem = a.mem /\ b.taken = a.taken /\ \A q \in Guests : b.reg[q] = IF q = i.d THEN Low(c, l) ELSE t.reg[q]
    BY <1>1, <1>3, <1>4, <1>5, WriteType
  <1>7. Expects(i, a, b, D)
    <2>1. \A q \in Guests \ D : q # i.d
      BY GuestAssumption
    <2> QED
      BY <1>3, <1>6, <2>1 DEF Expects
  <1>8. IsCode(x)
    <2>1. size = "x" => c = "x"
      BY <1>1 DEF Fills, Widths
    <2>2. Coded(make_load(dest, c, size, signed, m, 0), IF size \in {"b", "h"} /\ c = "x" THEN {Zero} ELSE {}, Cells)
      BY <1>1, <1>2, <2>1, LoadCode DEF Fills
    <2> QED
      BY <1>1, <2>2, CodedIsCode
  <1>9. ASSUME NEW y, Offers(i, a, y, n, {i.d}) PROVE Carries(i, b, y, Run(y, x), n, D)
    <2>1. Awake(y, Cells) /\ y.mem = a.mem /\ (i.d # "xzr" => Low("x", Full(y, R(n)) + Displaced(i.m)) = ArmAddress(a, i.m))
      BY <1>9 DEF Offers, Astray
    <2>2. PICK v : v = LoadedAt(y.mem, Low("x", Full(y, R(n)) + (m.offset + 0)), c, size, signed)
      OBVIOUS
    <2>3. PICK u : u = Run(y, x)
      OBVIOUS
    <2>4. Puts(y, x, dest, c, v, y.flags, Cells) /\ v \in Int /\ (dest # R(n) => Full(u, R(n)) = Full(y, R(n)))
      <3>1. size \in Bytewide /\ signed \in BOOLEAN /\ (size = c \/ (size = "w" /\ c = "x" /\ signed) \/ (size \in {"b", "h"} /\ c = "w"))
        BY <1>1 DEF Fills
      <3> QED
        BY <1>1, <1>2, <2>1, <2>2, <2>3, <3>1, LoadRun
    <2>5. Wrote(y, u, dest, c, v, Cells) /\ u.flags = y.flags /\ y \in State(Cells)
      BY <2>1, <2>3, <2>4 DEF Puts, Awake
    <2>6. ASSUME i.d # "xzr" PROVE Full(u, dest) = b.reg[i.d]
      <3>1. v = l
        <4>1. m.offset + 0 = Displaced(i.m)
          BY <1>2
        <4>2. v = LoadedAt(a.mem, ArmAddress(a, i.m), c, size, signed)
          BY <2>1, <2>2, <2>6, <4>1
        <4>3. (size # c /\ signed <=> i.op \in {"LDRSB", "LDRSH", "LDRSW"}) /\ size = Size(i)
          BY <1>1 DEF Fills
        <4> QED
          BY <1>4, <4>2, <4>3 DEF Loaded, LoadedAt
      <3>2. Full(u, dest) = New(y, c, dest, v)
        BY <1>2, <2>5, <2>6 DEF Wrote
      <3>3. New(y, c, dest, v) = Low(c, v)
        <4>1. ~(HasCell(i.d) /\ c = "w")
          <5>1. Destinations(i) = {i.d}
            BY DEF Destinations, Loads, Stores, Branches
          <5> QED
            BY <1>1, <5>1 DEF StaleUpperHalf
        <4> QED
          BY <1>1, <2>4, <2>5, <2>6, <4>1, NewHome
      <3>4. i.d \in Guests
        BY <2>6, GuestNames
      <3> QED
        BY <1>6, <3>1, <3>2, <3>3, <3>4
    <2>7. \A p : IsPlace(p, Cells) /\ p # RAX /\ p \notin Homes(D) => Full(u, p) = Full(y, p)
      <3> SUFFICES ASSUME NEW p, IsPlace(p, Cells), p # RAX, p \notin Homes(D) PROVE Full(u, p) = Full(y, p)
        OBVIOUS
      <3>1. p # dest
        BY <1>2, PlaceKinds DEF Homes
      <3> QED
        BY <2>5, <3>1 DEF Wrote, Kept
    <2>8. u \in State(Cells) /\ Control(y, u) /\ u.mem = b.mem
      BY <1>6, <2>1, <2>5 DEF Wrote
    <2> QED
      BY <2>3, <2>4, <2>5, <2>6, <2>7, <2>8 DEF Carries
  <1> QED
    BY <1>7, <1>8, <1>9 DEF Carrier

------------------------------------------------------------------------------
(* Transfers of two registers                                               *)
------------------------------------------------------------------------------

(* The second address of a pair. *)
LEMMA NextAddress ==
    ASSUME NEW v \in Int, NEW k \in Int, NEW e \in Int, NEW adr, adr = Low("x", v + k)
    PROVE  Low("x", v + (k + e)) = Low("x", adr + e)
  <1>1. PICK w \in Int : w = v + k
    OBVIOUS
  <1>2. Low("x", Low("x", w) + e) = Low("x", w + e)
    BY LowOps, WidthsAre
  <1>3. v + (k + e) = w + e
    BY <1>1
  <1> QED
    BY <1>1, <1>2, <1>3

LEMMA StorePairCarrier ==
    ASSUME NEW i, i.op = "STP", i.c \in Widths, i.d \in Gprs, i.d2 \in Gprs, IsMode(i.m), NEW a \in ArmState, NEW n \in Names,
           translate_reg(i.d).k = "reg" \/ R(n) # RAX, translate_reg(i.d2).k = "reg" \/ R(n) # RAX,
           NEW m, m.base = R(n), m.offset = Displaced(i.m),
           NEW x1, x1 = make_store(translate_reg(i.d), i.c, i.c, m, 0),
           NEW x2, x2 = make_store(translate_reg(i.d2), i.c, i.c, m, Bytes[i.c])
    PROVE  Carrier(i, a, n, {i.d, i.d2}, {}, x1 \o x2)
  <1> DEFINE src == translate_reg(i.d)
             src2 == translate_reg(i.d2)
             b == ArmStep(a, i)
             Q == {i.d, i.d2}
  <1>1. PICK c : c = i.c /\ c \in Widths /\ c \in Bytewide /\ Order[c] <= Order[c] /\ Bytes[c] \in Int
    <2>1. i.c \in {"w", "x"}
      BY DEF Widths
    <2> QED
      BY <2>1, WidthsAre DEF Order, Bytes
  <1>2. IsHome(src, Cells) /\ (src = Zero <=> i.d = "xzr") /\ IsHome(src2, Cells) /\ (src2 = Zero <=> i.d2 = "xzr")
        /\ 0 \in Int /\ m.offset \in Int /\ src2 # RAX /\ m.offset + 0 = Displaced(i.m)
    BY HomeOf, ModeFacts, HomesDiffer DEF Displaced
  <1>3. PICK t : t = WriteBack(a, i.m) /\ t \in ArmState /\ t.flags = a.flags /\ t.mem = a.mem /\ t.taken = a.taken
               /\ \A q \in Guests : t.reg[q] = IF Writes(i.m) /\ q = i.m.base THEN Low("x", a.reg[q] + i.m.imm) ELSE a.reg[q]
    BY BackIs
  <1>4. PICK adr : adr = ArmAddress(a, i.m)
    OBVIOUS
  <1>5. b.mem = Store(Store(a.mem, adr, c, Read(a, c, i.d)), Low("x", adr + Bytes[c]), c, Read(a, c, i.d2))
        /\ b.reg = t.reg /\ b.flags = t.flags /\ b.taken = t.taken
    <2>1. b = Transfer(a, i)
      BY MemoryStep DEF MemoryOps
    <2>2. Transfer(a, i) = [t EXCEPT !.mem = Store(Store(t.mem, adr, i.c, Read(a, i.c, i.d)), Low("x", adr + Bytes[i.c]), i.c, Read(a, i.c, i.d2))]
      BY <1>3, <1>4 DEF Transfer, Stores, Loads
    <2> HIDE DEF b
    <2> QED
      BY <1>1, <1>3, <2>1, <2>2 DEF ArmState
  <1>6. Expects(i, a, b, {})
    BY <1>3, <1>5 DEF Expects
  <1>7. IsCode(x1) /\ IsCode(x2) /\ IsCode(x1 \o x2)
    <2>1. Coded(make_store(src, c, c, m, 0), {}, Cells) /\ Coded(make_store(src2, c, c, m, Bytes[c]), {}, Cells)
      BY <1>1, <1>2, StoreCode
    <2>2. IsCode(x1) /\ IsCode(x2)
      BY <1>1, <2>1, CodedIsCode
    <2> QED
      BY <2>2, ConcatIsCode
  <1>8. ASSUME NEW y, Offers(i, a, y, n, Q) PROVE Carries(i, b, y, Run(y, x1 \o x2), n, {})
    <2>1. Awake(y, Cells) /\ y.mem = a.mem /\ Low("x", Full(y, R(n)) + Displaced(i.m)) = adr
      <3>1. ~Astray(i)
        BY DEF Astray, Loads
      <3> QED
        BY <1>4, <1>8, <3>1 DEF Offers
    <2>2. Val(y, c, src) = Read(a, c, i.d) /\ Val(y, c, src2) = Read(a, c, i.d2)
      BY <1>1, <1>8, OffersVal
    <2>3. PICK u : u = Run(y, x1) /\ Stored(y, u, n, Low("x", Full(y, R(n)) + (m.offset + 0)), c, Val(y, c, src), src)
      BY <1>1, <1>2, <2>1, StoreRun
    <2>4. u \in State(Cells) /\ Control(y, u) /\ u.mem = Store(y.mem, adr, c, Read(a, c, i.d)) /\ Full(u, R(n)) = Full(y, R(n))
          /\ (\A p : IsPlace(p, Cells) /\ p # RAX => Full(u, p) = Full(y, p)) /\ (src # Zero => u.flags = y.flags)
      BY <1>2, <2>1, <2>2, <2>3 DEF Stored
    <2>5. Awake(u, Cells)
      BY <2>1, <2>4 DEF Awake, Control
    <2>6. Val(u, c, src2) = Read(a, c, i.d2)
      <3>1. CASE src2 = Zero
        BY <2>2, <3>1 DEF Val
      <3>2. CASE src2 # Zero
        <4>1. Full(u, src2) = Full(y, src2) /\ IsPlace(src2, Cells) /\ y \in State(Cells)
          BY <1>2, <2>1, <2>4, <3>2 DEF IsHome, Awake
        <4>2. Get(u, c, src2) = Low(c, Full(u, src2)) /\ Get(y, c, src2) = Low(c, Full(y, src2))
          BY <2>4, <4>1, FullType
        <4> QED
          BY <2>2, <3>2, <4>1, <4>2 DEF Val
      <3> QED
        BY <3>1, <3>2
    <2>7. PICK z : z = Run(u, x2) /\ Stored(u, z, n, Low("x", Full(u, R(n)) + (m.offset + Bytes[c])), c, Val(u, c, src2), src2)
      BY <1>1, <1>2, <2>5, StoreRun
    <2>8. Low("x", Full(u, R(n)) + (m.offset + Bytes[c])) = Low("x", adr + Bytes[c])
      <3>1. Full(u, R(n)) \in Int
        BY <2>4, RegisterCode, FullType
      <3> QED
        BY <1>1, <1>2, <2>1, <2>4, <3>1, NextAddress
    <2>9. z \in State(Cells) /\ Control(u, z) /\ z.mem = b.mem /\ Full(z, R(n)) = Full(u, R(n))
          /\ (\A p : IsPlace(p, Cells) /\ p # RAX => Full(z, p) = Full(u, p)) /\ (src2 # Zero => z.flags = u.flags)
      BY <1>5, <2>1, <2>4, <2>6, <2>7, <2>8 DEF Stored
    <2>10. ClobbersFlags(i) \/ z.flags = y.flags
      <3>1. "xzr" \in {i.d, i.d2} => ClobbersFlags(i)
        BY DEF ClobbersFlags
      <3> QED
        BY <1>2, <2>4, <2>9, <3>1
    <2>11. Run(y, x1 \o x2) = z
      <3>1. Run(y, x1 \o x2) = Run(Run(y, x1), x2)
        BY <1>7, RunConcat
      <3> QED
        BY <2>3, <2>7, <3>1
    <2>12. Control(y, z)
      BY <2>4, <2>9 DEF Control
    <2>13. Carries(i, b, y, z, n, {})
      BY <2>4, <2>9, <2>10, <2>12 DEF Carries
    <2> QED
      BY <2>11, <2>13
  <1> QED
    BY <1>6, <1>7, <1>8 DEF Carrier

(* One load of a pair. *)
PairLoaded(y, u, adr, c, dest, n, mem) ==
    /\ Awake(u, Cells) /\ Control(y, u) /\ u.mem = y.mem /\ u.flags = y.flags
    /\ \A p : IsPlace(p, Cells) /\ p # RAX /\ p # dest => Full(u, p) = Full(y, p)
    /\ dest # R(n) => Full(u, R(n)) = Full(y, R(n))
    /\ dest # Zero /\ ~(dest.k = "cell" /\ c = "w") => Full(u, dest) = Low(c, Load(mem, adr))

LEMMA PairLoad ==
    ASSUME NEW y, Awake(y, Cells), NEW r \in Gprs, NEW c \in Widths, NEW n \in Names, NEW m, m.base = R(n), m.offset \in Int,
           NEW e \in Int, NEW adr, adr = Low("x", Full(y, R(n)) + (m.offset + e)), translate_reg(r).k = "reg" \/ R(n) # RAX,
           NEW signed \in BOOLEAN, ~signed, NEW x, x = make_load(translate_reg(r), c, c, signed, m, e)
    PROVE  IsCode(x) /\ PairLoaded(y, Run(y, x), adr, c, translate_reg(r), n, y.mem)
  <1> DEFINE dest == translate_reg(r)
  <1>1. c \in Bytewide /\ IsHome(dest, Cells) /\ (dest = Zero <=> r = "xzr") /\ y \in State(Cells) /\ dest # RAX
        /\ (HasCell(r) <=> dest.k = "cell")
    BY WidthsAre, HomeOf, HomesDiffer, HomeKinds DEF Awake
  <1>2. PICK v : v = LoadedAt(y.mem, Low("x", Full(y, R(n)) + (m.offset + e)), c, c, signed)
    OBVIOUS
  <1>3. PICK u : u = Run(y, x)
    OBVIOUS
  <1>4. Puts(y, x, dest, c, v, y.flags, Cells) /\ v \in Int /\ (dest # R(n) => Full(u, R(n)) = Full(y, R(n)))
    <2>1. PICK size : size = c /\ size \in Bytewide
      BY <1>1
    <2>2. PICK d : d = dest
      OBVIOUS
    <2>3. x = make_load(d, c, size, signed, m, e) /\ IsHome(d, Cells)
          /\ v = LoadedAt(y.mem, Low("x", Full(y, R(n)) + (m.offset + e)), c, size, signed)
      BY <1>1, <1>2, <2>1, <2>2
    <2>5. /\ Puts(y, x, d, c, v, y.flags, Cells) /\ v \in Int
          /\ d # R(n) /\ (d.k = "reg" \/ R(n) # RAX) => Full(Run(y, x), R(n)) = Full(y, R(n))
      <3> HIDE DEF dest
      <3> QED
        BY <2>1, <2>3, LoadRun
    <2>6. d.k = "reg" \/ R(n) # RAX
      BY <2>2
    <2> HIDE DEF dest
    <2> QED
      BY <1>3, <2>2, <2>5, <2>6
  <1>5. Wrote(y, u, dest, c, v, Cells) /\ u.flags = y.flags /\ IsCode(x)
    BY <1>3, <1>4 DEF Puts
  <1>6. Awake(u, Cells)
    BY <1>3, <1>4, AwakeRun
  <1>7. ASSUME dest # Zero, ~(dest.k = "cell" /\ c = "w") PROVE Full(u, dest) = Low(c, Load(y.mem, adr))
    <2>1. Full(u, dest) = New(y, c, dest, v)
      BY <1>5, <1>7 DEF Wrote
    <2>2. New(y, c, dest, v) = Low(c, v)
      BY <1>1, <1>4, <1>7, NewHome
    <2>3. v = Low(c, Load(y.mem, adr))
      BY <1>2 DEF LoadedAt
    <2>4. Low(c, v) = v
      <3>1. Low("x", Full(y, R(n)) + (m.offset + e)) \in Words("x")
        <4>1. PICK w \in Int : w = Full(y, R(n))
          BY <1>1, RegisterCode, FullType
        <4>2. w + (m.offset + e) \in Int
          OBVIOUS
        <4> QED
          BY <4>1, <4>2, LowType, WidthsAre
      <3>2. Load(y.mem, adr) \in Int
        BY <1>1, <3>1, LoadType DEF State
      <3>3. Low(c, Load(y.mem, adr)) \in Words(c)
        BY <1>1, <3>2, LowType
      <3> QED
        BY <1>1, <2>3, <3>3, LowId
    <2> QED
      BY <2>1, <2>2, <2>3, <2>4
  <1>8. \A p : IsPlace(p, Cells) /\ p # RAX /\ p # dest => Full(u, p) = Full(y, p)
    BY <1>5 DEF Wrote, Kept
  <1>9. Control(y, u) /\ u.mem = y.mem
    BY <1>5 DEF Wrote
  <1>10. PairLoaded(y, u, adr, c, dest, n, y.mem)
    BY <1>4, <1>5, <1>6, <1>7, <1>8, <1>9 DEF PairLoaded
  <1> QED
    BY <1>3, <1>5, <1>10

LEMMA LoadPairCarrier ==
    ASSUME NEW i, i.op = "LDP", i.c \in Widths, i.d \in Gprs, i.d2 \in Gprs, i.d # i.d2, IsMode(i.m), ~StaleUpperHalf(i),
           NEW a \in ArmState, NEW n \in Names, translate_reg(i.d).k = "reg" \/ R(n) # RAX, translate_reg(i.d2).k = "reg" \/ R(n) # RAX,
           translate_reg(i.d) # R(n) \/ i.d2 = "xzr",
           Writes(i.m) => R(n) \notin {translate_reg(i.d), translate_reg(i.d2)} /\ i.m.base \notin {i.d, i.d2},
           NEW m, m.base = R(n), m.offset = Displaced(i.m), NEW signed \in BOOLEAN, ~signed,
           NEW x1, x1 = make_load(translate_reg(i.d), i.c, i.c, signed, m, 0),
           NEW x2, x2 = make_load(translate_reg(i.d2), i.c, i.c, signed, m, Bytes[i.c])
    PROVE  Carrier(i, a, n, {i.d, i.d2}, {i.d, i.d2} \ {"xzr"}, x1 \o x2)
  <1> DEFINE dest == translate_reg(i.d)
             dest2 == translate_reg(i.d2)
             b == ArmStep(a, i)
             Q == {i.d, i.d2}
             D == {i.d, i.d2} \ {"xzr"}
  <1>1. PICK c : c = i.c /\ c \in Widths /\ c \in Bytewide /\ Bytes[c] \in Int
    <2>1. i.c \in {"w", "x"}
      BY DEF Widths
    <2> QED
      BY <2>1, WidthsAre DEF Bytes
  <1>2. IsHome(dest, Cells) /\ (dest = Zero <=> i.d = "xzr") /\ IsHome(dest2, Cells) /\ (dest2 = Zero <=> i.d2 = "xzr")
        /\ 0 \in Int /\ m.offset \in Int /\ dest # RAX /\ dest2 # RAX /\ dest # dest2 /\ m.offset = Displaced(i.m)
    BY HomeOf, ModeFacts, HomesDiffer DEF Displaced
  <1>3. PICK t : t = WriteBack(a, i.m) /\ t \in ArmState /\ t.flags = a.flags /\ t.mem = a.mem /\ t.taken = a.taken
               /\ \A q \in Guests : t.reg[q] = IF Writes(i.m) /\ q = i.m.base THEN Low("x", a.reg[q] + i.m.imm) ELSE a.reg[q]
    BY BackIs
  <1>4. PICK adr : adr = ArmAddress(a, i.m) /\ adr \in Words("x")
    BY ModeGuest
  <1>5. PICK adr2 : adr2 = Low("x", adr + Bytes[c]) /\ adr2 \in Words("x")
    <2>1. PICK w \in Int : w = adr
      BY <1>4, WordFacts
    <2>2. w + Bytes[c] \in Int
      BY <1>1
    <2> QED
      BY <2>1, <2>2, LowType, WidthsAre
  <1>6. PICK l, l2 : l = Load(a.mem, adr) /\ l2 = Load(a.mem, adr2) /\ l \in Int /\ l2 \in Int
    BY <1>4, <1>5, LoadType DEF ArmState
  <1>7. b = Write(Write(t, c, i.d, l), c, i.d2, l2)
    <2>1. b = Transfer(a, i)
      BY MemoryStep DEF MemoryOps
    <2>2. Transfer(a, i) = Write(Write(t, i.c, i.d, Load(a.mem, adr)), i.c, i.d2, Load(a.mem, Low("x", adr + Bytes[i.c])))
      BY <1>3, <1>4 DEF Transfer, Stores, Loads
    <2> HIDE DEF b
    <2> QED
      BY <1>1, <1>5, <1>6, <2>1, <2>2
  <1>8. /\ b.flags = a.flags /\ b.mem = a.mem /\ b.taken = a.taken
        /\ \A q \in Guests : b.reg[q] = IF q = i.d2 THEN Low(c, l2) ELSE IF q = i.d THEN Low(c, l) ELSE t.reg[q]
    <2>1. PICK w : w = Write(t, c, i.d, l) /\ w \in ArmState /\ w.flags = a.flags /\ w.mem = a.mem /\ w.taken = a.taken
                  /\ \A q \in Guests : w.reg[q] = IF q = i.d THEN Low(c, l) ELSE t.reg[q]
      BY <1>1, <1>3, <1>6, WriteType
    <2>2. b = Write(w, c, i.d2, l2)
      BY <1>7, <2>1
    <2> HIDE DEF b
    <2> QED
      BY <1>1, <1>6, <2>1, <2>2, WriteType
  <1>9. Expects(i, a, b, D)
    <2>1. \A q \in Guests \ D : q # i.d /\ q # i.d2
      BY GuestAssumption
    <2> HIDE DEF b, D
    <2> QED
      BY <1>3, <1>8, <2>1 DEF Expects
  <1>10. IsCode(x1) /\ IsCode(x2) /\ IsCode(x1 \o x2)
    <2>1. c # "b" /\ c # "h"
      BY <1>1 DEF Widths
    <2>2. Coded(make_load(dest, c, c, signed, m, 0), IF c \in {"b", "h"} /\ c = "x" THEN {Zero} ELSE {}, Cells)
          /\ Coded(make_load(dest2, c, c, signed, m, Bytes[c]), IF c \in {"b", "h"} /\ c = "x" THEN {Zero} ELSE {}, Cells)
      BY <1>1, <1>2, <2>1, LoadCode
    <2>3. IsCode(x1) /\ IsCode(x2)
      BY <1>1, <2>2, CodedIsCode
    <2> QED
      BY <2>3, ConcatIsCode
  <1>11. ~(dest.k = "cell" /\ c = "w") /\ ~(dest2.k = "cell" /\ c = "w")
    <2>1. Destinations(i) = {i.d, i.d2}
      BY DEF Destinations, Stores, Branches
    <2> QED
      BY <1>1, <2>1 DEF StaleUpperHalf, HasCell
  <1>12. ASSUME NEW y, Offers(i, a, y, n, Q) PROVE Carries(i, b, y, Run(y, x1 \o x2), n, D)
    <2>1. Awake(y, Cells) /\ y.mem = a.mem /\ Low("x", Full(y, R(n)) + Displaced(i.m)) = adr
      <3>1. ~Astray(i)
        BY DEF Astray, Loads
      <3> QED
        BY <1>4, <1>12, <3>1 DEF Offers
    <2>2. PICK u : u = Run(y, x1)
      OBVIOUS
    <2>3. PairLoaded(y, u, adr, c, dest, n, y.mem)
      <3>1. adr = Low("x", Full(y, R(n)) + (m.offset + 0))
        BY <1>2, <2>1
      <3> QED
        BY <1>1, <1>2, <2>1, <2>2, <3>1, PairLoad
    <2>4. /\ Awake(u, Cells) /\ Control(y, u) /\ u.mem = a.mem /\ u.flags = y.flags
          /\ \A p : IsPlace(p, Cells) /\ p # RAX /\ p # dest => Full(u, p) = Full(y, p)
          /\ dest # R(n) => Full(u, R(n)) = Full(y, R(n))
          /\ dest # Zero => Full(u, dest) = Low(c, l)
      BY <1>6, <1>11, <2>1, <2>3 DEF PairLoaded
    <2>5. PICK z : z = Run(u, x2)
      OBVIOUS
    <2>6. PICK adr3 : adr3 = Low("x", Full(u, R(n)) + (m.offset + Bytes[c]))
      OBVIOUS
    <2>7. PairLoaded(u, z, adr3, c, dest2, n, u.mem)
      BY <1>1, <1>2, <2>4, <2>5, <2>6, PairLoad
    <2>8. dest2 # Zero => adr3 = adr2
      <3>1. ASSUME dest2 # Zero PROVE adr3 = adr2
        <4>1. Full(u, R(n)) = Full(y, R(n))
          BY <1>2, <2>4, <3>1
        <4>2. PICK w \in Int : w = Full(y, R(n))
          BY <2>1, RegisterCode, FullType DEF Awake
        <4>3. adr = Low("x", w + m.offset) /\ adr3 = Low("x", w + (m.offset + Bytes[c]))
          BY <1>2, <2>1, <2>6, <4>1, <4>2
        <4> QED
          BY <1>1, <1>2, <1>5, <4>3, NextAddress
      <3> QED
        BY <3>1
    <2>9. /\ Awake(z, Cells) /\ Control(u, z) /\ z.mem = a.mem /\ z.flags = u.flags
          /\ \A p : IsPlace(p, Cells) /\ p # RAX /\ p # dest2 => Full(z, p) = Full(u, p)
          /\ dest2 # R(n) => Full(z, R(n)) = Full(u, R(n))
          /\ dest2 # Zero => Full(z, dest2) = Low(c, l2)
      <3>1. dest2 # Zero => Full(z, dest2) = Low(c, Load(a.mem, adr2))
        BY <1>11, <2>4, <2>7, <2>8 DEF PairLoaded
      <3> QED
        BY <1>6, <2>4, <2>7, <3>1 DEF PairLoaded
    <2>10. ASSUME NEW q \in D PROVE Full(z, translate_reg(q)) = b.reg[q]
      <3>1. q \in Guests /\ q # "xzr"
        BY GuestNames
      <3>2. CASE q = i.d2
        <4>1. Full(z, dest2) = Low(c, l2)
          BY <1>2, <2>9, <3>1, <3>2
        <4> HIDE DEF b
        <4> QED
          BY <1>8, <3>1, <3>2, <4>1
      <3>3. CASE q = i.d
        <4>1. Full(u, dest) = Low(c, l) /\ IsPlace(dest, Cells)
          BY <1>2, <2>4, <3>1, <3>3 DEF IsHome
        <4>2. Full(z, dest) = Full(u, dest)
          BY <1>2, <2>9, <4>1
        <4> HIDE DEF b
        <4> QED
          BY <1>8, <3>1, <3>3, <4>1, <4>2
      <3> QED
        BY <3>2, <3>3
    <2>11. \A p : IsPlace(p, Cells) /\ p # RAX /\ p \notin Homes(D) => Full(z, p) = Full(y, p)
      <3> SUFFICES ASSUME NEW p, IsPlace(p, Cells), p # RAX, p \notin Homes(D) PROVE Full(z, p) = Full(y, p)
        OBVIOUS
      <3>1. p # dest /\ p # dest2
        BY <1>2, PlaceKinds DEF Homes
      <3> QED
        BY <2>4, <2>9, <3>1
    <2>12. Writes(i.m) => Full(z, R(n)) = Full(y, R(n))
      BY <2>4, <2>9
    <2>13. z \in State(Cells) /\ Control(y, z) /\ z.mem = b.mem /\ z.flags = y.flags
      <3> HIDE DEF b
      <3> QED
        BY <1>8, <2>4, <2>9 DEF Control, Awake
    <2>14. Carries(i, b, y, z, n, D)
      <3> HIDE DEF b
      <3> QED
        BY <2>10, <2>11, <2>12, <2>13 DEF Carries
    <2>15. Run(y, x1 \o x2) = z
      <3> HIDE DEF dest, dest2, b, Q, D
      <3>1. PICK x3, x4 : x3 = x1 /\ x4 = x2
        OBVIOUS
      <3>2. IsCode(x3 \o x4) /\ Run(y, x3 \o x4) = Run(Run(y, x3), x4)
        BY <1>10, <3>1, RunConcat
      <3> QED
        BY <2>2, <2>5, <3>1, <3>2
    <2> QED
      BY <2>14, <2>15
  <1> QED
    BY <1>9, <1>10, <1>12 DEF Carrier

(* The register that the address of i is in. *)
Aside(i, n, data) ==
    /\ n \in Names /\ Base(i.m, i.c, data) = R(n)
    /\ Borrowed(i.m, data) =>
         /\ n \in {"r10", "r9", "r14"} /\ R(n) \notin data
         /\ i.m.k = "ext" /\ ~Astray(i) => i.m.base # "sp" /\ R(n) # translate_reg(i.m.base)

LEMMA MemoryFlags ==
    ASSUME NEW i, i.op \in MemoryOps, i.m.k # "off"
    PROVE  ClobbersFlags(i)
  BY DEF ClobbersFlags

LEMMA WrappedDone ==
    ASSUME NEW i, i.op \in MemoryOps, IsMode(i.m), NEW a, NEW s, Sim(a, s), NEW Q, Q \subseteq Gprs, NEW D, D \subseteq Q \ {"xzr"},
           NEW data, data = Homes(Q), NEW n, Aside(i, n, data), NEW x, Carrier(i, a, n, Q, D, x), Coded(x, {}, Cells),
           Compile(i) = Wrapped(i.m, i.c, data, x), i.m.k = "ext" /\ i.m.by # "none" => i.m.r # "xzr",
           Writes(i.m) => i.m.base \notin Q
    PROVE  Done(i, a, s)
  <1> DEFINE home == translate_reg(i.m.base)
  <1>1. PICK b : b = ArmStep(a, i) /\ Expects(i, a, b, D) /\ IsCode(x)
               /\ \A y : Offers(i, a, y, n, Q) => Carries(i, b, y, Run(y, x), n, D)
    BY DEF Carrier
  <1>2. i.m.base \in Addresses /\ IsPlace(home, Cells) /\ home # RAX /\ n \in Names /\ Base(i.m, i.c, data) = R(n)
        /\ (home.k = "reg" \/ home.k = "cell") /\ (is_indirect(home) <=> home.k = "cell")
    <2>1. i.m.base \in Addresses /\ IsPlace(home, Cells) /\ home # RAX
      BY ModeFacts, HomesDiffer
    <2>2. IsHome(home, Cells)
      BY <2>1 DEF IsHome
    <2> HIDE DEF home
    <2> QED
      BY <2>1, <2>2, PlaceKinds DEF Aside
  <1>3. i.m.k # "off" => ClobbersFlags(i)
    BY MemoryFlags
  <1>4. Writes(i.m) => i.m.base \notin D
    OBVIOUS
  <1>5. \A q \in Q : translate_reg(q) \in data
    BY DEF Homes
  <1>6. CASE Borrowed(i.m, data)
    <2>1. n \in {"r10", "r9", "r14"} /\ R(n) \notin data /\ (i.m.k = "ext" /\ ~Astray(i) => i.m.base # "sp" /\ R(n) # home)
      BY <1>6 DEF Aside
    <2>2. i.m.k = "ext" \/ home.k = "cell"
      BY <1>2, <1>6 DEF Borrowed, Scratch
    <2>3. Compile(i) = Bracket(R(n), Around(i.m, R(n), x))
      BY <1>2, <1>6 DEF Wrapped
    <2>4. R(n) \notin Homes(D)
      BY <2>1 DEF Homes
    <2>5. ASSUME NEW e, Entered(s, e, Cells) PROVE Apart(i, s, e, n, Q, D)
      <3>1. Aimed(s, e, i.m, n) \/ Astray(i)
        <4>1. CASE Astray(i)
          BY <4>1
        <4>2. CASE ~Astray(i)
          <5>1. home # RSP
            <6>1. CASE i.m.k = "ext"
              BY <2>1, <4>2, <6>1, SpHome, HomesDiffer
            <6>2. CASE home.k = "cell"
              BY <6>2 DEF RSP, R
            <6> QED
              BY <2>2, <6>1, <6>2
          <5>2. Full(e, home) = Full(s, home)
            BY <1>2, <2>5, <5>1 DEF Entered
          <5> QED
            BY <2>1, <4>2, <5>2 DEF Aimed
        <4> QED
          BY <4>1, <4>2
      <3>2. \A q \in Q : translate_reg(q) # R(n)
        BY <1>5, <2>1
      <3>3. i.m.k # "ext" /\ home.k = "reg" => R(n) = home
        BY <2>2
      <3> HIDE DEF home
      <3> QED
        BY <1>2, <1>3, <1>4, <3>1, <3>2, <3>3 DEF Apart, home
    <2>6. IsPlainCode(Around(i.m, R(n), x), Cells)
      <3>1. Coded(Around(i.m, R(n), x), ModeOperands(i.m) \cup {}, Cells)
        BY <1>2, AroundCode
      <3>2. Zero \notin ModeOperands(i.m) \cup {}
        <4>1. CASE i.m.k = "ext" /\ i.m.by # "none"
          <5>1. i.m.r \in Gprs /\ i.m.r # "xzr"
            BY <4>1, ModeFacts
          <5> QED
            BY <4>1, <5>1, HomeOf DEF ModeOperands
        <4>2. CASE ~(i.m.k = "ext" /\ i.m.by # "none")
          BY <4>2 DEF ModeOperands
        <4> QED
          BY <4>1, <4>2
      <3> QED
        BY <3>1, <3>2 DEF Coded, Good
    <2>7. Lends(i, s, n, Q, D)
      BY <2>1, <2>2, <2>4, <2>5 DEF Lends
    <2> QED
      BY <2>3, <2>6, <2>7, BorrowedDone
  <1>7. CASE ~Borrowed(i.m, data)
    <2>1. Compile(i) = Around(i.m, R(n), x)
      BY <1>2, <1>7 DEF Wrapped
    <2>2. (Scratch(i.m) => R(n) = RAX) /\ (~Scratch(i.m) => R(n) = home /\ i.m.k # "ext")
      BY <1>2, <1>7 DEF Base, Scratch
    <2>3. R(n) \in {home, RAX} /\ (i.m.k = "ext" => R(n) # home) /\ (i.m.k # "ext" /\ home.k = "reg" => R(n) = home)
      BY <1>2, <2>2 DEF Scratch
    <2>4. Aimed(s, s, i.m, n)
      BY <2>3 DEF Aimed
    <2>5. \A q \in Q : translate_reg(q) # R(n) \/ (i.m.k = "off" /\ q = i.m.base /\ Aimed(s, s, i.m, n))
      <3> SUFFICES ASSUME NEW q \in Q, translate_reg(q) = R(n) PROVE i.m.k = "off" /\ q = i.m.base
        BY <2>4
      <3>1. translate_reg(q) # RAX
        BY HomesDiffer
      <3>2. q = i.m.base /\ i.m.k # "ext"
        BY <2>2, <3>1, HomesDiffer
      <3> QED
        BY <3>2, ModeFacts DEF Writes
    <2>6. Apart(i, s, s, n, Q, D)
      <3> HIDE DEF home
      <3> QED
        BY <1>2, <1>3, <1>4, <2>3, <2>4, <2>5 DEF Apart, home
    <2>7. R(n) = translate_reg(i.m.base) \/ R(n) = RAX
      BY <2>3
    <2>8. i.m.k = "ext" => R(n) # translate_reg(i.m.base)
      BY <2>3
    <2> HIDE DEF home
    <2> QED
      BY <1>1, <2>1, <2>6, <2>7, <2>8, PlainlyDone, SMTT(30)
  <1> QED
    BY <1>6, <1>7

(* The data do not collide with the register of the address. *)
LEMMA AsideFacts ==
    ASSUME NEW i, IsMode(i.m), NEW Q, Q \subseteq Gprs, NEW data, data = Homes(Q), NEW n, Aside(i, n, data), NEW q \in Q
    PROVE  /\ translate_reg(q).k = "reg" \/ R(n) # RAX
           /\ translate_reg(q) = R(n) => q = i.m.base /\ ~Scratch(i.m)
  <1>1. translate_reg(q) \in data /\ q \in Gprs
    BY DEF Homes
  <1>2. is_indirect(translate_reg(q)) <=> translate_reg(q).k # "reg"
    <2>1. IsHome(translate_reg(q), Cells)
      BY <1>1, HomeOf
    <2> QED
      BY <2>1, PlaceKinds
  <1>3. CASE Borrowed(i.m, data)
    <2>1. R(n) \notin data /\ n # "rax"
      BY <1>3 DEF Aside
    <2>2. R(n) # RAX
      BY <2>1 DEF R, RAX
    <2> QED
      BY <1>1, <2>1, <2>2
  <1>4. CASE ~Borrowed(i.m, data) /\ Scratch(i.m)
    <2>1. R(n) = RAX /\ ~is_indirect(translate_reg(q))
      BY <1>1, <1>4 DEF Aside, Base, Borrowed
    <2> QED
      BY <1>2, <2>1, HomesDiffer
  <1>5. CASE ~Borrowed(i.m, data) /\ ~Scratch(i.m)
    <2>1. R(n) = translate_reg(i.m.base)
      BY <1>5 DEF Aside, Base
    <2> QED
      BY <1>5, <2>1, HomesDiffer
  <1> QED
    BY <1>3, <1>4, <1>5

(* r10 is free if all data are outside the registers. *)
LEMMA FirstAlternate ==
    ASSUME NEW t, NEW u, NEW c, R("r10") \notin {t, u} \/ c # "x"
    PROVE  get_alt_reg({t, u}, c) = R("r10")
  <1> DEFINE blocked == {r \in {"r10", "r9", "r14"} : c = "x" /\ R(r) \in {t, u}}
             P(r) == r = "r10" \/ ("r10" \in blocked /\ (r = "r9" \/ "r9" \in blocked))
             n == CHOOSE r \in {"r10", "r9", "r14"} \ blocked : P(r)
  <1>1. "r10" \notin blocked
    OBVIOUS
  <1>2. \A r : P(r) <=> r = "r10"
    BY <1>1
  <1>3. n = "r10"
    <2>1. \E r \in {"r10", "r9", "r14"} \ blocked : P(r)
      BY <1>1
    <2>2. P(n)
      BY <2>1
    <2> HIDE DEF n
    <2> QED
      BY <1>2, <2>2
  <1>4. get_alt_reg({t, u}, c) = R(n)
    BY DEF get_alt_reg
  <1> QED
    BY <1>3, <1>4

LEMMA BaseNames ==
    /\ \A m, n : R(m) = R(n) => m = n
    /\ R("r10") = translate_reg("x23")
    /\ \A r \in Gprs : is_indirect(translate_reg(r)) <=> translate_reg(r).k # "reg"
  <1>1. \A m, n : R(m) = R(n) => m = n
    BY DEF R
  <1>2. R("r10") = translate_reg("x23")
    BY DEF translate_reg, Direct
  <1>3. \A r \in Gprs : is_indirect(translate_reg(r)) <=> translate_reg(r).k # "reg"
    BY HomeOf, PlaceKinds
  <1> QED
    BY <1>1, <1>2, <1>3

(* The registers of a single transfer. *)
LEMMA SingleAside ==
    ASSUME NEW i, i.op \in Loads \cup Stores, i.d \in Gprs, IsMode(i.m), ~BorrowsBase(i)
    PROVE  \E n : Aside(i, n, {translate_reg(i.d)})
  <1> DEFINE d == translate_reg(i.d)
  <1>1. PICK n \in Names : Base(i.m, i.c, {d}) = R(n)
    <2>1. HasBase(i.m, i.c, d, d) /\ {d, d} = {d}
      BY BaseFacts
    <2> HIDE DEF d
    <2> QED
      BY <2>1 DEF HasBase
  <1>2. ASSUME Borrowed(i.m, {d})
        PROVE  /\ n \in {"r10", "r9", "r14"} /\ R(n) \notin {d}
               /\ i.m.k = "ext" /\ ~Astray(i) => i.m.base # "sp" /\ R(n) # translate_reg(i.m.base)
    <2>1. is_indirect(d) /\ d.k # "reg"
      BY <1>2, BaseNames DEF Borrowed
    <2>2. R("r10") # d
      BY <2>1 DEF R
    <2>3. n = "r10"
      <3>1. get_alt_reg({d, d}, i.c) = R("r10") /\ {d, d} = {d}
        BY <2>2, FirstAlternate
      <3> HIDE DEF d
      <3>2. R(n) = R("r10")
        BY <1>1, <1>2, <3>1 DEF Base
      <3> QED
        BY <3>2, BaseNames
    <2>4. ASSUME i.m.k = "ext", ~Astray(i) PROVE i.m.base # "sp" /\ R(n) # translate_reg(i.m.base)
      <3>1. Borrows(i)
        BY <2>1, <2>4 DEF Borrows, MemoryOps
      <3>2. i.m.base \notin {"sp", "x23"}
        BY <2>4, <3>1 DEF BorrowsBase, Astray
      <3> QED
        BY <2>3, <3>2, BaseNames, HomesDiffer
    <2> QED
      BY <2>2, <2>3, <2>4
  <1> HIDE DEF d
  <1>3. Aside(i, n, {d})
    BY <1>1, <1>2 DEF Aside
  <1> QED
    BY <1>3 DEF d

LEMMA PairAside ==
    ASSUME NEW i, i.op \in {"LDP", "STP"}, i.c \in Widths, i.d \in Gprs, i.d2 \in Gprs, IsMode(i.m), i.m.k # "ext", ~BorrowsData(i)
    PROVE  \E n : Aside(i, n, {translate_reg(i.d), translate_reg(i.d2)})
  <1> DEFINE d == translate_reg(i.d)
             e == translate_reg(i.d2)
  <1>1. PICK n \in Names : Base(i.m, i.c, {d, e}) = R(n)
    <2>1. HasBase(i.m, i.c, d, e)
      BY BaseFacts
    <2> HIDE DEF d, e
    <2> QED
      BY <2>1 DEF HasBase
  <1>2. ASSUME Borrowed(i.m, {d, e}) PROVE n \in {"r10", "r9", "r14"} /\ R(n) \notin {d, e}
    <2>1. (is_indirect(d) \/ is_indirect(e)) /\ Scratch(i.m)
      BY <1>2 DEF Borrowed
    <2>2. HasCell(i.m.base)
      <3>1. IsHome(translate_reg(i.m.base), Cells) /\ translate_reg(i.m.base) # Zero
        BY ModeFacts, PlaceKinds DEF IsHome
      <3>2. is_indirect(translate_reg(i.m.base))
        BY <2>1 DEF Scratch
      <3> QED
        BY <3>1, <3>2, PlaceKinds DEF HasCell
    <2>3. Borrows(i)
      BY <2>1, <2>2 DEF Borrows, MemoryOps
    <2>4. CASE i.c = "x"
      <3> HIDE DEF d, e
      <3>1. PICK m \in {"r10", "r9", "r14"} : get_alt_reg({d, e}, i.c) = R(m) /\ (i.c = "x" => R(m) \notin {d, e})
        BY Alternate
      <3>2. R(n) = R(m)
        BY <1>1, <1>2, <3>1 DEF Base
      <3> QED
        BY <2>4, <3>1, <3>2, BaseNames
    <2>5. CASE i.c = "w"
      <3>1. i.d # "x23" /\ i.d2 # "x23"
        BY <2>3, <2>5 DEF BorrowsData
      <3>2. R("r10") \notin {d, e}
        BY <3>1, BaseNames, HomesDiffer
      <3> HIDE DEF d, e
      <3>3. get_alt_reg({d, e}, i.c) = R("r10")
        BY <3>2, FirstAlternate
      <3>4. R(n) = R("r10")
        BY <1>1, <1>2, <3>3 DEF Base
      <3> QED
        BY <3>2, <3>4, BaseNames
    <2> QED
      BY <2>4, <2>5 DEF Widths
  <1> HIDE DEF d, e
  <1>3. Aside(i, n, {d, e})
    BY <1>1, <1>2 DEF Aside
  <1> QED
    BY <1>3 DEF d, e

------------------------------------------------------------------------------
(* Loads and stores, every form                                             *)
------------------------------------------------------------------------------

IsSingle(i) == i \in [op : Loads \cup Stores, c : Widths, d : Gprs, m : Offset \cup Indexed \cup [k : {"literal"}]]
IsPair(i)   == i \in [op : {"LDP", "STP"}, c : Widths, d : Gprs, d2 : Gprs, m : Offset]

LEMMA SingleDone ==
    ASSUME NEW i, IsSingle(i), i.op = "LDRSW" => i.c = "x", i.m.k \in {"pre", "post"} => i.m.base # i.d, Fine(i), NEW a, NEW s, Sim(a, s)
    PROVE  Done(i, a, s)
  <1> DEFINE T == translate_reg(i.d)
             A == process_addr_mode(i.m, i.c, {T})
  <1>1. /\ i.op \in Loads \cup Stores /\ i.d \in Gprs /\ i.c \in Widths /\ i.op \in MemoryOps
        /\ IsMode(i.m) \/ i.m.k = "literal"
    BY DEF IsSingle, IsMode, MemoryOps
  <1>2. ~HasNoForm(i) /\ ~StaleUpperHalf(i) /\ ~BorrowsBase(i)
    BY DEF Fine, Stops, Miscompiled
  <1>3. i.m.k # "literal" /\ IsMode(i.m)
    BY <1>1, <1>2 DEF HasNoForm
  <1>4. i.m.k = "ext" /\ i.m.by # "none" => i.m.r # "xzr"
    <2> SUFFICES ASSUME i.m.k = "ext", i.m.by # "none", i.m.r = "xzr" PROVE FALSE
      OBVIOUS
    <2>1. XzrPanics(i) = {"m"}
      BY <1>1 DEF XzrPanics, Is, MemoryOps, Loads, Stores
    <2>2. "m" \in XzrOperands(i)
      BY XzrOperand
    <2> QED
      BY <2>1, <2>2 DEF Fine, Stops
  <1>5. PICK Q, data : Q = {i.d} /\ data = {T} /\ data = Homes(Q) /\ Q \subseteq Gprs /\ i.d \in Q
    BY <1>1 DEF Homes
  <1>6. PICK n : Aside(i, n, data)
    <2>1. \E q : Aside(i, q, {translate_reg(i.d)})
      BY <1>1, <1>2, <1>3, SingleAside
    <2> QED
      BY <1>5, <2>1
  <1>7. n \in Names /\ (T.k = "reg" \/ R(n) # RAX) /\ (Writes(i.m) => T # R(n) /\ i.m.base # i.d /\ i.m.base \notin Q)
    <2>1. n \in Names
      BY <1>6 DEF Aside
    <2>2. (translate_reg(i.d).k = "reg" \/ R(n) # RAX) /\ (translate_reg(i.d) = R(n) => i.d = i.m.base)
      BY <1>3, <1>5, <1>6, AsideFacts
    <2> QED
      BY <1>5, <2>1, <2>2 DEF Writes
  <1>8. PICK m : m = A /\ m.base = R(n) /\ m.offset = Displaced(i.m) /\ m.offset \in Int
    <2>1. ModeOf(A, i.m, i.c, data, R(n))
      <3>1. ModeOf(process_addr_mode(i.m, i.c, data), i.m, i.c, data, Base(i.m, i.c, data))
        BY <1>3, ModeIs
      <3> QED
        BY <1>5, <1>6, <3>1 DEF Aside
    <2>2. A.base = R(n) /\ A.offset = Displaced(i.m)
      BY <2>1 DEF ModeOf, Displaced
    <2> HIDE DEF A
    <2> QED
      BY <1>3, <2>2, ModeFacts DEF Displaced
  <1>9. Compile(i) = compile_load_store(i)
    BY <1>1 DEF Compile
  <1>10. \E x, D : Carrier(i, a, n, Q, D, x) /\ Coded(x, {}, Cells) /\ D \subseteq Q \ {"xzr"}
                   /\ Compile(i) = A.code \o x \o finalize_addr_mode(A)
    <2>1. CASE i.op \in Stores
      <3>1. PICK x : x = make_store(T, i.c, Size(i), m, 0)
        OBVIOUS
      <3>2. Compile(i) = A.code \o x \o finalize_addr_mode(A)
        <4>1. compile_load_store(i) = load_store(i, FALSE, Size(i), FALSE)
          BY <1>3, <2>1 DEF compile_load_store, Stores, Size
        <4> QED
          BY <1>8, <1>9, <3>1, <4>1 DEF load_store
      <3>3. Carrier(i, a, n, Q, {}, x)
        <4>1. Carrier(i, a, n, {i.d}, {}, x)
          BY <1>1, <1>3, <1>7, <1>8, <2>1, <3>1, SimFacts, StoreCarrier
        <4> QED
          BY <1>5, <4>1
      <3>4. Coded(x, {}, Cells)
        <4>1. IsHome(T, Cells) /\ i.c \in Bytewide /\ Size(i) \in Bytewide /\ 0 \in Int
          BY <1>1, HomeOf, WidthsAre DEF Size
        <4> HIDE DEF T
        <4> QED
          BY <1>7, <1>8, <3>1, <4>1, StoreCode
      <3>5. PICK D : D = {}
        OBVIOUS
      <3>6. Carrier(i, a, n, Q, D, x)
        BY <3>3, <3>5
      <3>7. D \subseteq Q \ {"xzr"}
        BY <3>5
      <3> HIDE DEF A, T
      <3> QED
        BY <3>2, <3>4, <3>6, <3>7
    <2>2. CASE i.op \in Loads
      <3>1. PICK signed \in BOOLEAN : (signed <=> i.op \in {"LDRSB", "LDRSH", "LDRSW"})
                 /\ compile_load_store(i) = load_store(i, TRUE, Size(i), signed)
        <4>1. CASE i.op \in {"LDR", "LDRB", "LDRH"}
          BY <1>3, <4>1 DEF compile_load_store, Size
        <4>2. CASE i.op \in {"LDRSB", "LDRSH", "LDRSW"}
          BY <1>3, <4>2 DEF compile_load_store, Size
        <4> QED
          BY <2>2, <4>1, <4>2 DEF Loads
      <3>2. PICK size : size = Size(i) /\ Fills(i, size, signed)
        <4>1. i.op \in {"LDR", "LDRB", "LDRSB", "LDRH", "LDRSH", "LDRSW"} /\ i.c \in {"w", "x"}
              /\ (i.op \in {"LDRB", "LDRSB", "LDRH", "LDRSH"} => i.c = "w")
          BY <1>1, <1>2, <2>2 DEF Loads, Widths, HasNoForm
        <4>2. Size(i) \in Bytewide
          BY <4>1, WidthsAre DEF Size
        <4> QED
          BY <3>1, <4>1, <4>2 DEF Fills, Size
      <3>3. PICK x : x = make_load(T, i.c, size, signed, m, 0)
        OBVIOUS
      <3>4. Compile(i) = A.code \o x \o finalize_addr_mode(A)
        BY <1>8, <1>9, <3>1, <3>2, <3>3 DEF load_store
      <3>5. Carrier(i, a, n, Q, {i.d} \ {"xzr"}, x)
        <4>1. Carrier(i, a, n, {i.d}, {i.d} \ {"xzr"}, x)
          BY <1>1, <1>2, <1>3, <1>7, <1>8, <2>2, <3>2, <3>3, SimFacts, LoadCarrier
        <4> QED
          BY <1>5, <4>1
      <3>6. Coded(x, {}, Cells)
        <4>1. IsHome(T, Cells) /\ i.c \in Widths /\ size \in Bytewide /\ 0 \in Int
              /\ (size = "x" => i.c = "x") /\ ~(size \in {"b", "h"} /\ i.c = "x")
          BY <1>1, <3>2, HomeOf DEF Fills
        <4> HIDE DEF T
        <4>2. Coded(make_load(T, i.c, size, signed, m, 0), IF size \in {"b", "h"} /\ i.c = "x" THEN {Zero} ELSE {}, Cells)
          BY <1>7, <1>8, <4>1, LoadCode
        <4> QED
          BY <3>3, <4>1, <4>2
      <3> QED
        BY <1>5, <3>4, <3>5, <3>6
    <2> QED
      BY <1>1, <2>1, <2>2
  <1>11. PICK x, D : Carrier(i, a, n, Q, D, x) /\ Coded(x, {}, Cells) /\ D \subseteq Q \ {"xzr"}
                     /\ Compile(i) = A.code \o x \o finalize_addr_mode(A)
    BY <1>10
  <1>12. Compile(i) = Wrapped(i.m, i.c, data, x)
    <2>1. IsCode(x) /\ data = {T, T}
      BY <1>5, <1>11, CodedIsCode
    <2>2. Wraps(i.m, i.c, data, x)
      <3> HIDE DEF T
      <3> QED
        BY <1>3, <2>1, WrappedIs
    <2> QED
      BY <1>5, <1>11, <2>2 DEF Wraps
  <1> HIDE DEF T, A
  <1> QED
    BY <1>1, <1>3, <1>4, <1>5, <1>6, <1>7, <1>11, <1>12, WrappedDone

LEMMA ModeCodes ==
    ASSUME NEW m, IsMode(m), NEW c, NEW t, NEW u
    PROVE  IsCode(process_addr_mode(m, c, {t, u}).code)
  <1> DEFINE data == {t, u}
             a == process_addr_mode(m, c, data)
  <1>1. PICK n \in Names : Base(m, c, {t, u}) = R(n)
    <2>1. HasBase(m, c, t, u)
      BY BaseFacts
    <2> QED
      BY <2>1 DEF HasBase
  <1>2. IsCode(Formed(m, R(n))) /\ IsCode(Moved(m, R(n)))
    BY FormedCode, CodedIsCode, RunShort DEF Moved
  <1>3. PICK p : IsCode(p) /\ a.code = p \o Formed(m, R(n)) \o Moved(m, R(n))
    <2>1. ModeOf(a, m, c, data, Base(m, c, data))
      BY ModeIs
    <2>2. \A z : IsCode(<<z>>) /\ IsCode(<<>>)
      BY RunShort
    <2> HIDE DEF a
    <2>3. PICK p : p = (IF Borrowed(m, data) THEN <<I("push", "x", RSP, Base(m, c, data))>> ELSE <<>>) /\ IsCode(p)
      BY <2>2
    <2> QED
      BY <1>1, <2>1, <2>3 DEF ModeOf
  <1> QED
    BY <1>2, <1>3, ConcatIsCode

LEMMA PairDone ==
    ASSUME NEW i, IsPair(i), i.m.k \in {"pre", "post"} => i.m.base \notin {i.d, i.d2}, i.op = "LDP" => i.d # i.d2,
           Fine(i), NEW a, NEW s, Sim(a, s)
    PROVE  Done(i, a, s)
  <1> DEFINE T == translate_reg(i.d)
             U == translate_reg(i.d2)
             A == process_addr_mode(i.m, i.c, {T, U})
  <1>1. /\ i.op \in {"LDP", "STP"} /\ i.d \in Gprs /\ i.d2 \in Gprs /\ i.c \in Widths /\ i.op \in MemoryOps
        /\ IsMode(i.m) /\ i.m.k # "ext" /\ i.m.k # "literal"
    BY DEF IsPair, IsMode, MemoryOps, Offset
  <1>2. ~StaleUpperHalf(i) /\ ~LosesBase(i) /\ ~BorrowsData(i)
    BY DEF Fine, Miscompiled
  <1>3. PICK Q, data : Q = {i.d, i.d2} /\ data = {T, U} /\ data = Homes(Q) /\ Q \subseteq Gprs /\ i.d \in Q /\ i.d2 \in Q
    BY <1>1 DEF Homes
  <1>4. PICK n : Aside(i, n, data)
    <2>1. \E q : Aside(i, q, {translate_reg(i.d), translate_reg(i.d2)})
      BY <1>1, <1>2, PairAside
    <2> QED
      BY <1>3, <2>1
  <1>5. /\ n \in Names /\ (T.k = "reg" \/ R(n) # RAX) /\ (U.k = "reg" \/ R(n) # RAX)
        /\ (T = R(n) => i.d = i.m.base /\ ~Scratch(i.m)) /\ (U = R(n) => i.d2 = i.m.base)
    <2>1. n \in Names
      BY <1>4 DEF Aside
    <2>2. (translate_reg(i.d).k = "reg" \/ R(n) # RAX) /\ (translate_reg(i.d) = R(n) => i.d = i.m.base /\ ~Scratch(i.m))
      BY <1>1, <1>3, <1>4, AsideFacts
    <2>3. (translate_reg(i.d2).k = "reg" \/ R(n) # RAX) /\ (translate_reg(i.d2) = R(n) => i.d2 = i.m.base)
      BY <1>1, <1>3, <1>4, AsideFacts
    <2> QED
      BY <2>1, <2>2, <2>3
  <1>6. Writes(i.m) => R(n) \notin {T, U} /\ i.m.base \notin {i.d, i.d2} /\ i.m.base \notin Q
    BY <1>3, <1>5 DEF Writes
  <1>7. i.op = "LDP" => T # R(n) \/ i.d2 = "xzr"
    <2> SUFFICES ASSUME i.op = "LDP", T = R(n) PROVE i.d2 = "xzr"
      OBVIOUS
    <2>1. i.d = i.m.base /\ ~is_indirect(T)
      BY <1>5 DEF Scratch
    <2>2. i.d \in DOMAIN Direct
      BY <1>1, <2>1, HomeKinds
    <2> QED
      BY <1>2, <2>1, <2>2 DEF LosesBase
  <1>8. PICK m : m = A /\ m.base = R(n) /\ m.offset = Displaced(i.m) /\ m.offset \in Int
    <2>1. ModeOf(A, i.m, i.c, data, R(n))
      <3>1. ModeOf(process_addr_mode(i.m, i.c, data), i.m, i.c, data, Base(i.m, i.c, data))
        BY <1>1, ModeIs
      <3> QED
        BY <1>3, <1>4, <3>1 DEF Aside
    <2>2. A.base = R(n) /\ A.offset = Displaced(i.m)
      BY <2>1 DEF ModeOf, Displaced
    <2> HIDE DEF A
    <2> QED
      BY <1>1, <2>2, ModeFacts DEF Displaced
  <1>9. Compile(i) = load_store_pair(i)
    BY <1>1 DEF Compile, compile_load_store
  <1>10. PICK signed : signed \in BOOLEAN /\ ~signed /\ signed = FALSE
    OBVIOUS
  <1>11. PICK c : c = i.c /\ c \in Widths /\ c \in Bytewide /\ 0 \in Int /\ Bytes[c] \in Int /\ c # "b" /\ c # "h"
    <2>1. i.c \in {"w", "x"}
      BY <1>1 DEF Widths
    <2>2. i.c \in Bytewide /\ Bytes[i.c] \in Int /\ i.c # "b" /\ i.c # "h"
      BY <2>1, WidthsAre DEF Bytes
    <2> QED
      BY <1>1, <2>2
  <1>12. IsHome(T, Cells) /\ IsHome(U, Cells)
    BY <1>1, HomeOf
  <1>13. \E x1, x2, D : Carrier(i, a, n, Q, D, x1 \o x2) /\ Coded(x1, {}, Cells) /\ Coded(x2, {}, Cells) /\ D \subseteq Q \ {"xzr"}
                        /\ Compile(i) = A.code \o x1 \o x2 \o finalize_addr_mode(A)
    <2>1. CASE i.op = "STP"
      <3>1. PICK x1, x2 : x1 = make_store(T, i.c, i.c, m, 0) /\ x2 = make_store(U, i.c, i.c, m, Bytes[i.c])
        OBVIOUS
      <3>2. Compile(i) = A.code \o x1 \o x2 \o finalize_addr_mode(A)
        BY <1>8, <1>9, <2>1, <3>1 DEF load_store_pair
      <3>3. Carrier(i, a, n, Q, {}, x1 \o x2)
        <4>1. Carrier(i, a, n, {i.d, i.d2}, {}, x1 \o x2)
          BY <1>1, <1>5, <1>8, <2>1, <3>1, SimFacts, StorePairCarrier
        <4> QED
          BY <1>3, <4>1
      <3>4. Coded(x1, {}, Cells) /\ Coded(x2, {}, Cells)
        <4> HIDE DEF T, U
        <4> QED
          BY <1>5, <1>8, <1>11, <1>12, <3>1, StoreCode
      <3>5. PICK D : D = {}
        OBVIOUS
      <3>6. Carrier(i, a, n, Q, D, x1 \o x2)
        BY <3>3, <3>5
      <3>7. D \subseteq Q \ {"xzr"}
        BY <3>5
      <3> HIDE DEF A, T, U
      <3> QED
        BY <3>2, <3>4, <3>6, <3>7
    <2>2. CASE i.op = "LDP"
      <3>1. PICK x1, x2 : x1 = make_load(T, i.c, i.c, signed, m, 0) /\ x2 = make_load(U, i.c, i.c, signed, m, Bytes[i.c])
        OBVIOUS
      <3>2. Compile(i) = A.code \o x1 \o x2 \o finalize_addr_mode(A)
        BY <1>8, <1>9, <1>10, <2>2, <3>1 DEF load_store_pair
      <3>3. PICK D : D = {i.d, i.d2} \ {"xzr"} /\ D \subseteq Q \ {"xzr"}
        BY <1>3
      <3>4. Carrier(i, a, n, Q, D, x1 \o x2)
        <4>1. Carrier(i, a, n, {i.d, i.d2}, {i.d, i.d2} \ {"xzr"}, x1 \o x2)
          BY <1>1, <1>2, <1>5, <1>6, <1>7, <1>8, <1>10, <2>2, <3>1, SimFacts, LoadPairCarrier
        <4> QED
          BY <1>3, <3>3, <4>1
      <3>5. Coded(x1, {}, Cells) /\ Coded(x2, {}, Cells)
        <4> HIDE DEF T, U
        <4>1. Coded(make_load(T, c, c, signed, m, 0), IF c \in {"b", "h"} /\ c = "x" THEN {Zero} ELSE {}, Cells)
              /\ Coded(make_load(U, c, c, signed, m, Bytes[c]), IF c \in {"b", "h"} /\ c = "x" THEN {Zero} ELSE {}, Cells)
          BY <1>5, <1>8, <1>10, <1>11, <1>12, LoadCode
        <4> QED
          BY <1>11, <3>1, <4>1
      <3> HIDE DEF A, T, U
      <3> QED
        BY <3>2, <3>3, <3>4, <3>5
    <2> QED
      BY <1>1, <2>1, <2>2
  <1>14. PICK x1, x2, D : Carrier(i, a, n, Q, D, x1 \o x2) /\ Coded(x1, {}, Cells) /\ Coded(x2, {}, Cells) /\ D \subseteq Q \ {"xzr"}
                          /\ Compile(i) = A.code \o x1 \o x2 \o finalize_addr_mode(A)
    BY <1>13
  <1>15. PICK x : x = x1 \o x2 /\ Coded(x, {}, Cells) /\ Carrier(i, a, n, Q, D, x)
    <2>1. Coded(x1 \o x2, {} \cup {}, Cells)
      BY <1>14, CodedConcat
    <2> QED
      BY <1>14, <2>1
  <1>16. Compile(i) = Wrapped(i.m, i.c, data, x)
    <2>1. IsCode(x) /\ IsCode(x1) /\ IsCode(x2)
      BY <1>14, <1>15, CodedIsCode
    <2>2. Wraps(i.m, i.c, data, x)
      <3> HIDE DEF T, U
      <3> QED
        BY <1>1, <1>3, <2>1, WrappedIs
    <2>3. IsCode(A.code)
      BY <1>1, ModeCodes
    <2>4. Associates(A.code, x1, x2)
      <3> HIDE DEF A
      <3> QED
        BY <2>1, <2>3, CodeAssociative
    <2>5. A.code \o x \o finalize_addr_mode(A) = Wrapped(i.m, i.c, data, x)
      BY <1>3, <2>2 DEF Wraps
    <2> HIDE DEF A
    <2> QED
      BY <1>14, <1>15, <2>4, <2>5, Zenon DEF Associates
  <1> HIDE DEF T, U, A
  <1>17. i.m.k = "ext" /\ i.m.by # "none" => i.m.r # "xzr"
    BY <1>1
  <1> QED
    BY <1>1, <1>3, <1>4, <1>6, <1>14, <1>15, <1>16, <1>17, WrappedDone

------------------------------------------------------------------------------
(* Every form                                                               *)
------------------------------------------------------------------------------

(* Every form is translated to what it does. *)
LEMMA ArithmeticDone ==
    ASSUME NEW i, IsArithmetic(i), Fine(i), ~Refused(Compile(i)), NEW a, NEW s, Sim(a, s)
    PROVE  Done(i, a, s)
  <1>1. ~HasNoForm(i) /\ ~UsesX2(i) /\ ~HalfSignExtends(i) /\ ~Stops(i)
    BY DEF Fine, Stops, Miscompiled
  <1>2. CASE i \in Operands3({"ADD", "ADDS", "SUB", "SUBS"}, Gprs, Gprs, Register \cup Shifted(Shifts \cup Extensions))
    <2>1. \/ i \in Operands3({"ADD", "ADDS", "SUB", "SUBS"}, Gprs, Gprs, Register)
          \/ i \in Operands3({"ADD", "ADDS", "SUB", "SUBS"}, Gprs, Gprs, Shifted(Shifts \cup Extensions))
      BY <1>2 DEF Operands3
    <2> QED
      BY <2>1, AddSubRegisterDone, AddSubShiftedDone
  <1>3. CASE i \in Operands3({"ADD", "ADDS", "SUB", "SUBS"}, Addresses, Addresses, [k : {"imm"}, v : Short, lsl : Nat])
    BY <1>3, AddSubConstantDone
  <1>4. CASE i \in Operands3({"AND", "ORR", "EOR", "BIC"}, Gprs, Gprs, Register \cup Shifted(Shifts \cup {"ROR"}))
    <2>1. i.m.k # "shift" /\ i.m \in Register \cup Shifted(Shifts \cup {"ROR"})
      BY <1>1, <1>4 DEF HasNoForm, Is, Operands3
    <2>2. i.m \in Register
      BY <2>1 DEF Shifted
    <2>3. i \in Operands3({"AND", "ORR", "EOR"}, Gprs, Gprs, Register) \/ i \in Operands3({"BIC"}, Gprs, Gprs, Register)
      BY <1>4, <2>2 DEF Operands3
    <2> QED
      BY <2>3, LogicalRegisterDone, ClearDone
  <1>5. CASE i \in Operands3({"AND", "ORR", "EOR"}, Addresses, Gprs, Constant(Words(i.c)))
    BY <1>5, LogicalConstantDone
  <1>6. CASE i \in Operands3({"LSL", "LSR", "ASR"}, Gprs, Gprs, Register \cup Constant(0 .. Bits[i.c] - 1))
    BY <1>6, ShiftDone
  <1>7. CASE i \in Operands3({"UDIV", "SDIV"}, Gprs, Gprs, Register)
    BY <1>1, <1>7, DivDone
  <1>8. CASE i \in [op : {"MADD"}, c : Widths, d : Gprs, n : Gprs, m : Register, a : Gprs]
    BY <1>8, MaddDone
  <1>9. CASE i \in [op : {"UBFIZ"}, c : Widths, d : Gprs, n : Gprs, m : Constant({0}), lsb : Nat, width : 1 .. Bits[i.c]]
    BY <1>9, FieldDone
  <1> QED
    BY <1>2, <1>3, <1>4, <1>5, <1>6, <1>7, <1>8, <1>9, Zenon DEF IsArithmetic

LEMMA MoveDone ==
    ASSUME NEW i, IsMove(i), Fine(i), NEW a, NEW s, Sim(a, s)
    PROVE  Done(i, a, s)
  <1>1. CASE i \in Operands3({"MOV"}, Gprs \cup Addresses, {"xzr"}, [k : {"reg"}, r : Gprs \cup Addresses] \cup Constant(Words(i.c)))
    BY <1>1, MovDone
  <1>2. CASE i \in Operands3({"MOVK"}, Gprs, {"xzr"}, [k : {"imm"}, v : Words("h"), lsl : {Bits["h"] * k : k \in 0 .. Bytes[i.c] \div 2 - 1}])
    BY <1>2, MovkDone
  <1>3. CASE i \in [op : {"ADRP"}, c : {"x"}, d : Gprs, n : {"xzr"}, m : Constant(Words("x"))]
    BY <1>3, AddressDone
  <1>4. CASE \/ i \in Operands3({"SXTB", "SXTH"}, Gprs, Gprs, Constant({0}))
             \/ i \in [op : {"SXTW"}, c : {"x"}, d : Gprs, n : Gprs, m : Constant({0})]
             \/ i \in [op : {"UXTB", "UXTH"}, c : {"w"}, d : Gprs, n : Gprs, m : Constant({0})]
    <2>1. i \in [op : {"SXTB", "SXTH", "SXTW", "UXTB", "UXTH"}, c : Widths, d : Gprs, n : Gprs, m : Constant({0})]
      BY <1>4 DEF Operands3, Widths
    <2> QED
      BY <2>1, ExtendDone
  <1> QED
    BY <1>1, <1>2, <1>3, <1>4, Zenon DEF IsMove

LEMMA ConditionalDone ==
    ASSUME NEW i, IsConditional(i), Fine(i), NEW a, NEW s, Sim(a, s), "cond" \in DOMAIN i => Reads(i, a.flags, s.flags)
    PROVE  Done(i, a, s)
  <1>1. ~HasNoForm(i)
    BY DEF Fine, Stops
  <1>2. CASE i \in Operands2({"CMP", "CMN"}, Gprs, Register \cup Shifted(Shifts \cup Extensions))
    <2>1. i.m.k # "shift" /\ i.m \in Register \cup Shifted(Shifts \cup Extensions)
      BY <1>1, <1>2 DEF HasNoForm, Is, Operands2
    <2>2. i.m \in Register
      BY <2>1 DEF Shifted
    <2>3. i \in Operands2({"CMP", "CMN"}, Gprs, Register)
      BY <1>2, <2>2 DEF Operands2
    <2> QED
      BY <2>3, CompareRegisterDone
  <1>3. CASE i \in Operands2({"CMP", "CMN"}, Addresses, [k : {"imm"}, v : Short, lsl : Nat])
    BY <1>3, CompareConstantDone
  <1>4. CASE i \in [op : {"CCMP"}, c : Widths, n : Gprs, m : Register \cup Constant(Short), cond : Conditions, nzcv : ArmFlags]
    <2>1. "cond" \in DOMAIN i
      BY <1>4
    <2> QED
      BY <1>4, <2>1, ChooseDone
  <1>5. CASE i \in [op : {"CSEL"}, c : Widths, d : Gprs, n : Gprs, m : Register, cond : Conditions]
    <2>1. "cond" \in DOMAIN i
      BY <1>5
    <2> QED
      BY <1>5, <2>1, SelectDone
  <1>6. CASE i \in [op : {"CSET"}, c : Widths, d : Gprs, n : {"xzr"}, m : Constant({0}), cond : Conditions]
    <2>1. "cond" \in DOMAIN i
      BY <1>6
    <2> QED
      BY <1>6, <2>1, SetDone
  <1>7. CASE i \in [op : {"B.cond"}, c : {"x"}, n : {"xzr"}, m : Constant({0}), cond : Conditions]
    <2>1. "cond" \in DOMAIN i
      BY <1>7
    <2> QED
      BY <1>7, <2>1, BranchDone
  <1>8. CASE i \in Operands2({"CBZ", "CBNZ"}, Gprs, Constant({0}))
    BY <1>8, ZeroBranchDone
  <1>9. CASE i \in [op : {"TBZ", "TBNZ"}, c : Widths, n : Gprs, m : Constant({0}), bit : 0 .. Bits[i.c] - 1]
    BY <1>9, BitBranchDone
  <1> QED
    BY <1>2, <1>3, <1>4, <1>5, <1>6, <1>7, <1>8, <1>9, Zenon DEF IsConditional

LEMMA StepDone ==
    ASSUME NEW i, Fine(i), ~Refused(Compile(i)), NEW a, NEW s, Sim(a, s), "cond" \in DOMAIN i => Reads(i, a.flags, s.flags)
    PROVE  Done(i, a, s)
  <1>1. CASE IsArithmetic(i)
    BY <1>1, ArithmeticDone
  <1>2. CASE IsMove(i)
    BY <1>2, MoveDone
  <1>3. CASE IsConditional(i)
    BY <1>3, ConditionalDone
  <1>4. CASE IsTransfer(i)
    BY <1>4, SingleDone, PairDone DEF IsTransfer, IsSingle, IsPair
  <1> QED
    BY <1>1, <1>2, <1>3, <1>4 DEF Fine, IsInstruction

------------------------------------------------------------------------------
(* Whole programs                                                           *)
------------------------------------------------------------------------------

(* Whatever the translator emits can be run. *)
LEMMA CompileCode ==
    ASSUME NEW i, IsInstruction(i)
    PROVE  IsCode(Compile(i))
  <1>1. IsCode(refuse)
    <2>1. refuse \in Seq({[op |-> "refuse"]})
      BY DEF refuse
    <2> QED
      BY <2>1 DEF IsCode
  <1>2. CASE Sound(Compile(i), IF Stops(i) THEN {Zero} ELSE {}, Cells)
    BY <1>2 DEF Sound, Encodes, NoRefusal
  <1> QED
    BY <1>1, <1>2, CompileVerdict DEF Verdict

(* The last instruction that touched the flags decides what they stand for. *)
LEMMA KindsAreKinds ==
    ASSUME NEW p, NEW j
    PROVE  FlagKinds(p, j) \subseteq Kinds
  <1>1. \A i : KindsAfter(i) \subseteq Kinds
    BY DEF KindsAfter, Kinds
  <1>2. {"sum"} \subseteq Kinds
    BY DEF Kinds
  <1> QED
    BY <1>1, <1>2, Zenon DEF FlagKinds

Touches(i) == i.op \in FlagSetters \/ ClobbersFlags(i)

LEMMA KindsNext ==
    ASSUME NEW p, NEW j \in Nat \ {0}
    PROVE  FlagKinds(p, j + 1) = IF Touches(p[j]) THEN KindsAfter(p[j]) ELSE FlagKinds(p, j)
  <1>1. \A m \in Nat : Touching(p, m) = {k \in 1 .. m - 1 : Touches(p[k])}
    BY Zenon DEF Touching, Touches
  <1>2. j \in Nat /\ j + 1 \in Nat /\ (j + 1) - 1 = j
    OBVIOUS
  <1>3. /\ Touching(p, j) = {k \in 1 .. j - 1 : Touches(p[k])}
        /\ Touching(p, j + 1) = {k \in 1 .. j : Touches(p[k])}
    BY <1>1, <1>2
  <1>4. CASE ~Touches(p[j])
    <2>1. \A k \in 1 .. j : Touches(p[k]) => k \in 1 .. j - 1
      BY <1>4
    <2>2. Touching(p, j + 1) = Touching(p, j)
      BY <1>3, <2>1
    <2> QED
      BY <1>4, <2>2 DEF FlagKinds
  <1>5. CASE Touches(p[j])
    <2> DEFINE S == Touching(p, j + 1)
    <2>1. j \in S /\ \A k \in S : k \in Int /\ k <= j
      BY <1>3, <1>5
    <2> HIDE DEF S
    <2>2. Max(S) = j
      <3>1. PICK m : m = Max(S)
        OBVIOUS
      <3>2. m = CHOOSE x \in S : \A y \in S : x >= y
        BY <3>1 DEF Max
      <3>3. j \in S /\ \A y \in S : j >= y
        BY <2>1
      <3>4. m \in S /\ \A y \in S : m >= y
        BY <3>2, <3>3
      <3>5. m \in Int /\ m <= j /\ m >= j
        BY <2>1, <3>4
      <3> QED
        BY <3>1, <3>5
    <2>3. FlagKinds(p, j + 1) = KindsAfter(p[Max(S)])
      BY <2>1 DEF FlagKinds, S
    <2> QED
      BY <1>5, <2>2, <2>3
  <1> QED
    BY <1>4, <1>5

------------------------------------------------------------------------------
(* The two processors of world w agree before instruction j of p, and the  *)
(* native flags stand for the guest's.                                     *)
FlagsStand(w, p, j) == \E kind \in FlagKinds(p, j) : Stand(kind, w.arm.flags, w.native.flags)
World(w, p, j) == w.native.fault \/ (Agree(w.arm, w.native) /\ (w.native.taken \/ FlagsStand(w, p, j)))

LEMMA WorldReads ==
    ASSUME NEW w, NEW p, NEW j, FlagsStand(w, p, j), ~Misreads(p, j), "cond" \in DOMAIN p[j]
    PROVE  Reads(p[j], w.arm.flags, w.native.flags)
  BY KindsAreKinds DEF FlagsStand, Misreads, Reads

LEMMA WorldStep ==
    ASSUME NEW p, NEW j \in Nat \ {0}, IsInstruction(p[j]), ~Stops(p[j]), ~Wrong(p, j), ~Refused(Compile(p[j])),
           NEW w, w.arm \in ArmState, Rest(w.native, Cells), World(w, p, j),
           NEW u, u.arm = ArmRun(w.arm, p[j]), u.native = Run(w.native, Compile(p[j]))
    PROVE  World(u, p, j + 1)
  <1>1. PICK i : i = p[j]
    OBVIOUS
  <1>2. Fine(i) /\ ~Misreads(p, j)
    BY <1>1 DEF Fine, Wrong
  <1>3. PICK a, s : a = w.arm /\ s = w.native
    OBVIOUS
  <1>4. IsCode(Compile(i))
    BY <1>1, CompileCode
  <1>5. CASE s.fault
    BY <1>1, <1>3, <1>4, <1>5, RunStopped DEF World
  <1>6. CASE s.taken /\ ~s.fault
    <2>1. Agree(a, s) /\ a.taken
      BY <1>3, <1>6 DEF World, Agree
    <2>2. u.arm = a /\ u.native = s
      BY <1>1, <1>3, <1>4, <1>6, <2>1, RunStopped DEF ArmRun
    <2> QED
      BY <1>6, <2>1, <2>2 DEF World
  <1>7. CASE ~s.fault /\ ~s.taken
    <2>1. Agree(a, s) /\ FlagsStand(w, p, j) /\ a.taken = s.taken
      BY <1>3, <1>7 DEF World, Agree
    <2>2. Sim(a, s)
      BY <1>3, <1>7, <2>1 DEF Sim, Active, Agree
    <2>3. "cond" \in DOMAIN i => Reads(i, a.flags, s.flags)
      BY <1>1, <1>2, <1>3, <2>1, WorldReads
    <2>4. Done(i, a, s)
      BY <1>1, <1>2, <2>2, <2>3, StepDone
    <2>5. PICK b, t : b = u.arm /\ t = u.native
      OBVIOUS
    <2>6. b = ArmStep(a, i) /\ t = Run(s, Compile(i))
      BY <1>1, <1>3, <1>7, <2>1, <2>5 DEF ArmRun
    <2>7. t.fault \/ (Agree(b, t) /\ (t.taken \/ Follow(i, a, s, b, t)))
      BY <2>4, <2>6 DEF Done, Does
    <2>8. ASSUME Follow(i, a, s, b, t) PROVE FlagsStand(u, p, j + 1)
      <3>1. CASE Touches(i)
        <4>1. \E kind \in KindsAfter(i) : Stand(kind, b.flags, t.flags)
          BY <2>8, <3>1 DEF Follow, Touches
        <4>2. FlagKinds(p, j + 1) = KindsAfter(i)
          BY <1>1, <3>1, KindsNext
        <4> QED
          BY <2>5, <4>1, <4>2 DEF FlagsStand
      <3>2. CASE ~Touches(i)
        <4>1. b.flags = a.flags /\ t.flags = s.flags
          BY <2>8, <3>2 DEF Follow, Touches
        <4>2. FlagKinds(p, j + 1) = FlagKinds(p, j)
          BY <1>1, <3>2, KindsNext
        <4> QED
          BY <1>3, <2>1, <2>5, <4>1, <4>2 DEF FlagsStand
      <3> QED
        BY <3>1, <3>2
    <2> QED
      BY <2>5, <2>7, <2>8 DEF World
  <1> QED
    BY <1>5, <1>6, <1>7

(* Every program runs as on ARM64 as long as its instructions are right. *)
Tracks ==
    /\ Typed
    /\ Right => \A v \in Valuations : World(worlds[v], program, pos)

LEMMA StartAgrees ==
    ASSUME NEW v \in Valuations
    PROVE  Agree(ArmStart(v), NativeStart(v)) /\ NativeStart(v).flags = ArmStart(v).flags
  <1> DEFINE Guest(n) == {r \in Guests \cap DOMAIN Direct : Direct[r] = n}
             f == [n \in Range(Direct) \cup {"rax"} |-> IF Guest(n) = {} THEN 1 ELSE v.reg[CHOOSE r \in Guest(n) : TRUE]]
             g == [r \in Guests \ DOMAIN Direct |-> v.reg[r]]
  <1>1. NativeStart(v) = [reg |-> f, cell |-> g, flags |-> v.flags, mem |-> <<>>, stack |-> <<>>, skip |-> 0,
                          fault |-> FALSE, taken |-> FALSE]
    BY DEF NativeStart
  <1>2. ASSUME NEW q \in Guests \cap DOMAIN Direct PROVE f[Direct[q]] = v.reg[q]
    <2>1. Guest(Direct[q]) = {q}
      BY DirectInjective
    <2>2. Guest(Direct[q]) # {} /\ (CHOOSE r \in Guest(Direct[q]) : TRUE) = q
      BY <2>1
    <2>3. Direct[q] \in Range(Direct) \cup {"rax"}
      BY DEF Range
    <2> QED
      BY <2>2, <2>3
  <1>3. ASSUME NEW q \in Guests PROVE Full(NativeStart(v), translate_reg(q)) = v.reg[q]
    <2> HIDE DEF f, g
    <2>1. CASE q \in DOMAIN Direct
      <3>1. translate_reg(q) = R(Direct[q])
        BY <2>1 DEF translate_reg
      <3> QED
        BY <1>1, <1>2, <2>1, <3>1 DEF Full, R
    <2>2. CASE q \notin DOMAIN Direct
      <3>1. translate_reg(q) = Cell(q)
        BY <2>2, GuestAssumption DEF translate_reg
      <3>2. g[q] = v.reg[q]
        BY <2>2 DEF g
      <3> QED
        BY <1>1, <3>1, <3>2 DEF Full, Cell
    <2> QED
      BY <2>1, <2>2
  <1> HIDE DEF f, g
  <1>4. ArmStart(v) = [reg |-> v.reg, flags |-> v.flags, mem |-> <<>>, taken |-> FALSE]
    BY DEF ArmStart
  <1>5. ArmStart(v).reg = v.reg /\ ArmStart(v).mem = <<>> /\ ArmStart(v).taken = FALSE /\ ArmStart(v).flags = v.flags
    BY <1>4
  <1>6. NativeStart(v).mem = <<>> /\ NativeStart(v).taken = FALSE /\ NativeStart(v).flags = v.flags
    BY <1>1
  <1>7. Same(ArmStart(v), NativeStart(v))
    BY <1>3, <1>5, Zenon DEF Same
  <1> QED
    BY <1>5, <1>6, <1>7 DEF Agree

LEMMA TracksInit == Init => Tracks
  <1> SUFFICES ASSUME Init PROVE Tracks
    OBVIOUS
  <1>1. FlagKinds(program, pos) = {"sum"}
    <2>1. pos = 1
      BY DEF Init
    <2>2. Touching(program, pos) = {}
      BY <2>1 DEF Touching
    <2> QED
      BY <2>2 DEF FlagKinds
  <1>2. ASSUME NEW v \in Valuations PROVE World(worlds[v], program, pos)
    <2>1. worlds[v].arm = ArmStart(v) /\ worlds[v].native = NativeStart(v)
      BY DEF Init, Start
    <2>2. Agree(ArmStart(v), NativeStart(v)) /\ NativeStart(v).flags = ArmStart(v).flags
      BY StartAgrees
    <2>3. Stand("sum", worlds[v].arm.flags, worlds[v].native.flags)
      BY <2>1, <2>2 DEF Stand
    <2> QED
      BY <1>1, <2>1, <2>2, <2>3 DEF World, FlagsStand
  <1> QED
    BY <1>2, TypedInit DEF Tracks

LEMMA TracksStep == Tracks /\ [Next]_vars => Tracks'
  <1> SUFFICES ASSUME Tracks, [Next]_vars PROVE Tracks'
    OBVIOUS
  <1>1. Typed'
    BY TypedStep DEF Tracks
  <1>2. program' = program
    BY DEF Next, Translate, Execute, vars
  <1>3. CASE pos' = pos /\ worlds' = worlds
    BY <1>1, <1>2, <1>3 DEF Tracks, Right
  <1>4. CASE Execute /\ ~Refused(Compile(program[pos]))
    <2> SUFFICES ASSUME Right', NEW v \in Valuations PROVE World(worlds'[v], program', pos')
      BY <1>1, Zenon DEF Tracks
    <2>1. phase = "translated" /\ pos <= Len(program) /\ pos' = pos + 1
      BY <1>4 DEF Execute
    <2>2. /\ worlds'[v].arm = ArmRun(worlds[v].arm, program[pos])
          /\ worlds'[v].native = Run(worlds[v].native, Compile(program[pos]))
      BY <1>4 DEF Execute
    <2>3. Len(program) \in Nat /\ pos \in DOMAIN program /\ IsInstruction(program[pos]) /\ pos \in Nat \ {0}
      BY <2>1, ProgramAssumption DEF Tracks, Typed, Decided
    <2>4. ~Stops(program[pos])
      BY <2>1, <2>3 DEF Tracks, Typed, Decided
    <2>5. \A j \in 1 .. pos : ~Wrong(program, j)
      BY <1>2, <2>1, <2>3 DEF Right
    <2>6. Right /\ ~Wrong(program, pos)
      BY <2>3, <2>5 DEF Right
    <2>7. World(worlds[v], program, pos) /\ worlds[v].arm \in ArmState /\ Rest(worlds[v].native, Cells)
      BY <2>6 DEF Tracks, Typed
    <2>8. World(worlds'[v], program, pos + 1)
      BY <1>4, <2>2, <2>3, <2>4, <2>6, <2>7, WorldStep
    <2> QED
      BY <1>2, <2>1, <2>8
  <1> QED
    BY <1>3, <1>4 DEF Next, Translate, Execute, vars

LEMMA TracksAlways == Spec => []Tracks
  BY TracksInit, TracksStep, PTL DEF Spec

(* A program of any length, from any start, for every width of a byte,     *)
(* leaves all guest registers and memory, and takes its branch, as on      *)
(* ARM64, unless an instruction before has a form of Miscompiled or tests  *)
(* flags that do not stand for the guest's (arith.rs, load_store.rs,       *)
(* instr_utils.rs, branch.rs).                                             *)
THEOREM ProgramsExact == Spec => []ResultsExact
  <1>1. Tracks => ResultsExact
    <2> SUFFICES ASSUME Tracks, Right, NEW v \in Valuations, ~Native(v).fault PROVE Agrees(v)
      BY DEF ResultsExact
    <2>1. Agree(Arm(v), Native(v))
      BY DEF Tracks, World, Arm, Native
    <2>2. ASSUME NEW r \in Guests PROVE HomeValue(Native(v), r) = Full(Native(v), translate_reg(r))
      <3>1. CASE r \in DOMAIN Direct
        BY <3>1 DEF HomeValue, Full, translate_reg, R
      <3>2. CASE r \notin DOMAIN Direct
        BY <3>2, GuestAssumption DEF HomeValue, Full, translate_reg, Cell
      <3> QED
        BY <3>1, <3>2
    <2> QED
      BY <2>1, <2>2 DEF Agrees, Agree, Same
  <1> QED
    BY <1>1, TracksAlways, PTL

(* Under the same condition the native flags stand for the guest's as the  *)
(* last instruction that touched them determines (the TODO and FIXME of    *)
(* arith.rs, and write-back in load_store.rs).                             *)
THEOREM FlagsTracked == Spec => []FlagsExact
  <1>1. Tracks => FlagsExact
    BY DEF Tracks, FlagsExact, World, FlagsStand, Arm, Native
  <1> QED
    BY <1>1, TracksAlways, PTL

------------------------------------------------------------------------------
(* Traps                                                                    *)
------------------------------------------------------------------------------
(* Only the translation of a division divides. *)

LEMMA AddSubCalm ==
    ASSUME NEW i, i.m.k \in {"reg", "imm", "shift"}, NEW sets \in BOOLEAN
    PROVE  Calm(translate_add_sub(i, sets))
  <1> DEFINE d == translate_reg(i.d)
             s1 == translate_reg(i.n)
             s2 == translate_reg(i.m.r)
             op == IF i.op \in {"SUB", "SUBS"} THEN "sub" ELSE "add"
  <1>1. op \in Writers /\ "lea" \in Writers
    BY DEF Writers, AluOps
  <1>2. Written(d) /\ Written(reg_operand(d)) /\ s1.k \in {"reg", "cell", "zero"} /\ s2.k \in {"reg", "cell", "zero"}
    BY WrittenPlaces
  <1>3. CASE i.m.k = "shift"
    <2>1. translate_add_sub(i, sets) = load_shifted(reg_operand(d), i.c, s2, i.c, i.m) \o make_rr(op, i.c, reg_operand(d), s1) \o post_write(d, i.c)
      BY <1>3, Zenon DEF translate_add_sub
    <2> HIDE DEF d, s1, s2, op
    <2> QED
      BY <1>1, <1>2, <2>1, ShiftedCalm, MovesCalm, PostWriteCalm, CalmConcat
  <1>4. CASE i.m.k = "reg"
    <2>1. \/ translate_add_sub(i, sets) = make_rrr(op, i.c, d, s1, s2)
          \/ translate_add_sub(i, sets) = pre_read(s1, i.c) \o pre_read(s2, i.c)
                                            \o <<I3("lea", i.c, reg_operand(d), reg_operand(s1), reg_operand(s2))>> \o post_write(d, i.c)
      BY <1>4 DEF translate_add_sub
    <2> HIDE DEF d, s1, s2, op
    <2>2. Calm(<<I3("lea", i.c, reg_operand(d), reg_operand(s1), reg_operand(s2))>>)
      BY <1>1, <1>2, TameOps, OneCalm
    <2>3. Calm(make_rrr(op, i.c, d, s1, s2))
      BY <1>1, <1>2, ThreesCalm
    <2>4. Calm(pre_read(s1, i.c)) /\ Calm(pre_read(s2, i.c)) /\ Calm(post_write(d, i.c))
      BY <1>2, PreReadCalm, PostWriteCalm
    <2> QED
      BY <2>1, <2>2, <2>3, <2>4, CalmConcat
  <1>5. CASE i.m.k = "imm"
    <2>1. \/ translate_add_sub(i, sets) = refuse
          \/ translate_add_sub(i, sets) = make_rri(op, i.c, d, s1, i.m.v)
          \/ translate_add_sub(i, sets) = pre_read(s1, i.c) \o <<I3("lea", i.c, reg_operand(d), reg_operand(s1), N(i.m.v))>> \o post_write(d, i.c)
      BY <1>5 DEF translate_add_sub
    <2> HIDE DEF d, s1, s2, op
    <2>2. Calm(<<I3("lea", i.c, reg_operand(d), reg_operand(s1), N(i.m.v))>>)
      BY <1>1, <1>2, TameOps, OneCalm
    <2>3. Calm(make_rri(op, i.c, d, s1, i.m.v)) /\ Calm(refuse)
      BY <1>1, <1>2, ThreesCalm, StopCalm
    <2>4. Calm(pre_read(s1, i.c)) /\ Calm(post_write(d, i.c))
      BY <1>2, PreReadCalm, PostWriteCalm
    <2> QED
      BY <2>1, <2>2, <2>3, <2>4, CalmConcat
  <1> QED
    BY <1>3, <1>4, <1>5

LEMMA ShiftCalm ==
    ASSUME NEW i, i.op \in {"LSL", "LSR", "ASR"}, i.m.k \in {"reg", "imm"}
    PROVE  Calm(translate_shift(i))
  <1> DEFINE d == translate_reg(i.d)
             s2 == translate_reg(i.m.r)
  <1>1. {"shl", "shr", "sar", "shlx", "shrx", "sarx"} \subseteq Writers
    BY DEF Writers
  <1>2. Written(d) /\ Written(reg_operand(d)) /\ s2.k \in {"reg", "cell", "zero"}
    BY WrittenPlaces
  <1>3. CASE i.m.k = "reg"
    <2>1. \E op \in {"shlx", "shrx", "sarx"} :
             translate_shift(i) = pre_read(s2, i.c) \o <<I3(op, i.c, reg_operand(d), translate_reg(i.n), reg_operand(s2))>> \o post_write(d, i.c)
      BY <1>3 DEF translate_shift
    <2> HIDE DEF d, s2
    <2>2. \A op \in {"shlx", "shrx", "sarx"} : Calm(<<I3(op, i.c, reg_operand(d), translate_reg(i.n), reg_operand(s2))>>)
      BY <1>1, <1>2, TameOps, OneCalm
    <2> QED
      BY <1>2, <2>1, <2>2, PreReadCalm, PostWriteCalm, CalmConcat
  <1>4. CASE i.m.k = "imm"
    <2>1. \E op \in {"shl", "shr", "sar"} : translate_shift(i) = <<I(op, i.c, d, N(i.m.v))>>
      BY <1>4 DEF translate_shift
    <2> HIDE DEF d, s2
    <2> QED
      BY <1>1, <1>2, <2>1, TameOps, OneCalm
  <1> QED
    BY <1>3, <1>4

LEMMA LogicCalm ==
    ASSUME NEW i, i.m.k \in {"reg", "imm", "shift"}, NEW op \in {"and", "or", "xor"}
    PROVE  Calm(translate_logical(i, op))
  <1> DEFINE d == translate_reg(i.d)
             s1 == translate_reg(i.n)
             a == IF d # s1 THEN make_mov_rr(i.c, d, s1) ELSE <<>>
  <1>1. op \in Writers /\ "mov" \in Writers
    BY DEF Writers, AluOps
  <1>2. Written(d) /\ Written(RAX)
    BY WrittenPlaces
  <1>3. CASE i.m.k = "reg"
    BY <1>1, <1>2, <1>3, ThreesCalm DEF translate_logical
  <1>4. CASE i.m.k = "imm"
    <2>1. translate_logical(i, op) = a \o <<I("mov", "x", RAX, N(i.m.v))>> \o make_rr(op, i.c, d, RAX)
      BY <1>4, Zenon DEF translate_logical
    <2>2. Calm(a) /\ Calm(<<I("mov", "x", RAX, N(i.m.v))>>) /\ Calm(make_rr(op, i.c, d, RAX))
      BY <1>1, <1>2, MovesCalm, EmptyCalm, TameOps, OneCalm
    <2> HIDE DEF a
    <2> QED
      BY <2>1, <2>2, CalmConcat
  <1>5. CASE i.m.k = "shift"
    BY <1>5, StopCalm DEF translate_logical
  <1> QED
    BY <1>3, <1>4, <1>5

LEMMA ExtendCalm ==
    ASSUME NEW i
    PROVE  Calm(translate_extend(i))
  <1> DEFINE d == translate_reg(i.d)
             sh == [by |-> i.op, n |-> 0]
  <1>1. Written(d) /\ Written(RAX) /\ d.k \in {"reg", "cell", "zero"}
    BY WrittenPlaces
  <1>2. \/ translate_extend(i) = load_shifted(d, i.c, translate_reg(i.n), i.c, sh)
        \/ translate_extend(i) = load_shifted(RAX, i.c, translate_reg(i.n), i.c, sh) \o make_mov_rr(i.c, d, RAX)
        \/ translate_extend(i) = panic
    BY <1>1 DEF translate_extend
  <1> HIDE DEF d, sh
  <1> QED
    BY <1>1, <1>2, ShiftedCalm, MovesCalm, StopCalm, CalmConcat

LEMMA CompareCalm ==
    ASSUME NEW i, i.m.k \in {"reg", "imm", "shift"}
    PROVE  Calm(translate_cmp_cmn(i))
  <1> DEFINE s1 == translate_reg(i.n)
             s2 == translate_reg(i.m.r)
  <1>1. Written(s1) /\ Written(RAX) /\ "add" \in Writers /\ "cmp" \in Silent
    BY WrittenPlaces DEF Writers, AluOps, Silent
  <1>2. \/ translate_cmp_cmn(i) = make_cmp_rr(i.c, s1, s2)
        \/ translate_cmp_cmn(i) = make_mov_rr(i.c, RAX, s1) \o make_rr("add", i.c, RAX, s2)
        \/ translate_cmp_cmn(i) = make_ri("cmp", i.c, s1, i.m.v)
        \/ translate_cmp_cmn(i) = make_mov_rr(i.c, RAX, s1) \o make_ri("add", i.c, RAX, i.m.v)
        \/ translate_cmp_cmn(i) = panic
    BY DEF translate_cmp_cmn
  <1> HIDE DEF s1, s2
  <1> QED
    BY <1>1, <1>2, MovesCalm, StopCalm, CalmConcat

LEMMA MaddCalm == \A i : Calm(translate_madd(i))
  <1> TAKE i
  <1>1. Written(RAX) /\ Written(RDX) /\ Written(translate_reg(i.d)) /\ {"add", "pop"} \subseteq Writers /\ {"mul", "push"} \subseteq Silent
    BY WrittenPlaces DEF Writers, AluOps, Silent
  <1>2. Calm(<<I("push", "x", RSP, RDX)>>) /\ Calm(<<I("pop", "x", RDX, RSP)>>)
    BY <1>1, TameOps, OneCalm
  <1>3. Calm(<<I("mul", i.c, RAX, translate_reg(i.m.r)), I("add", i.c, RAX, translate_reg(i.m.r))>>)
    BY <1>1, TameOps, TwoCalm
  <1>4. Calm(make_mov_rr(i.c, RAX, translate_reg(i.n))) /\ Calm(make_mov_rr(i.c, translate_reg(i.d), RAX))
    BY <1>1, MovesCalm
  <1> QED
    BY <1>2, <1>3, <1>4, CalmConcat DEF translate_madd

LEMMA SelectCalm == \A i : Calm(translate_csel(i))
  <1> TAKE i
  <1>1. Written(RAX) /\ Written(translate_reg(i.d)) /\ "cmov" \in Writers
    BY WrittenPlaces DEF Writers
  <1>2. Calm(<<Iw("cmov", i.c, RAX, translate_reg(i.n), cmov_cc[i.cond])>>)
    BY <1>1, TameOps, OneCalm
  <1>3. Calm(make_mov_rr(i.c, RAX, translate_reg(i.m.r))) /\ Calm(make_mov_rr(i.c, translate_reg(i.d), RAX))
    BY <1>1, MovesCalm
  <1> QED
    BY <1>2, <1>3, CalmConcat DEF translate_csel

LEMMA ChooseCalm == \A i : Calm(translate_ccmp(i))
  <1> TAKE i
  <1> DEFINE otherwise == set_flags(i.nzcv)
             compare == IF i.m.k = "reg" THEN make_cmp_rr(i.c, translate_reg(i.n), translate_reg(i.m.r))
                        ELSE make_ri("cmp", i.c, translate_reg(i.n), i.m.v)
  <1>1. Written(RAX) /\ Written(translate_reg(i.n)) /\ {"mov", "add"} \subseteq Writers /\ {"skip", "popf", "cmp"} \subseteq Silent
    BY WrittenPlaces DEF Writers, AluOps, Silent
  <1>2. Calm(compare)
    BY <1>1, MovesCalm
  <1>3. Calm(otherwise)
    <2>1. Calm(<<I("mov", "w", RAX, N(0)), I("add", "w", RAX, N(1))>>) /\ Calm(<<Iw("popf", "x", RAX, RAX, i.nzcv)>>)
      BY <1>1, TameOps, OneCalm, TwoCalm
    <2> QED
      BY <2>1 DEF set_flags
  <1>4. \A n, cc : Calm(<<Iw("skip", "x", RAX, n, cc)>>)
    BY <1>1, TameOps, OneCalm
  <1>5. translate_ccmp(i) = <<Iw("skip", "x", RAX, N(Len(otherwise) + 1), jcc_cc[i.cond])>> \o otherwise
                              \o <<Iw("skip", "x", RAX, N(Len(compare)), "always")>> \o compare
    BY Zenon DEF translate_ccmp, make_jcc
  <1> HIDE DEF otherwise, compare
  <1> QED
    BY <1>2, <1>3, <1>4, <1>5, CalmConcat

LEMMA SetCalm ==
    ASSUME NEW cond, NEW d, d.k \in {"reg", "cell", "zero"}, Written(d)
    PROVE  Calm(make_setcc(cond, d))
  <1> DEFINE al == IF cond \in {"AL", "NV"} THEN I("mov", "b", RAX, N(1)) ELSE Iw("setcc", "b", RAX, RAX, jcc_cc[cond])
             w  == CASE d.k = "reg"  -> <<Iw("movzx", "w", d, RAX, "b")>>
                     [] d.k = "cell" -> <<Iw("movzx", "w", RAX, RAX, "b"), I("mov", "w", d, RAX)>>
                     [] d.k = "zero" -> panic
  <1>1. Written(RAX) /\ {"mov", "setcc", "movzx"} \subseteq Writers
    BY WrittenPlaces DEF Writers
  <1>2. Calm(<<al>>)
    BY <1>1, TameOps, OneCalm
  <1>3. Calm(w)
    <2>1. Calm(<<Iw("movzx", "w", d, RAX, "b")>>) /\ Calm(<<Iw("movzx", "w", RAX, RAX, "b"), I("mov", "w", d, RAX)>>)
      BY <1>1, TameOps, OneCalm, TwoCalm
    <2> QED
      BY <2>1, StopCalm
  <1>4. make_setcc(cond, d) = <<al>> \o w
    BY Zenon DEF make_setcc
  <1> HIDE DEF al, w
  <1> QED
    BY <1>2, <1>3, <1>4, CalmConcat

LEMMA FieldCalm == \A i : Calm(translate_ubfiz(i))
  <1> TAKE i
  <1> DEFINE d == translate_reg(i.d)
             x == I("mov", "w", RAX, N(i.width))
             y == I3("bzhi", i.c, reg_operand(d), translate_reg(i.n), RAX)
             z == I("shl", i.c, reg_operand(d), N(i.lsb))
  <1>1. Written(RAX) /\ Written(reg_operand(d)) /\ {"mov", "bzhi", "shl"} \subseteq Writers
    BY WrittenPlaces DEF Writers
  <1>2. Tame(x) /\ Tame(y) /\ Tame(z)
    BY <1>1, TameOps
  <1>3. translate_ubfiz(i) = <<x, y, z>> \o post_write(d, i.c)
    BY Zenon DEF translate_ubfiz
  <1> HIDE DEF x, y, z, d
  <1>4. Calm(<<x, y, z>>)
    <2>1. <<x, y, z>> \in Seq({x, y, z}) /\ Len(<<x, y, z>>) = 3
      OBVIOUS
    <2>2. IsCode(<<x, y, z>>)
      BY <2>1 DEF IsCode
    <2>3. \A k \in 1 .. Len(<<x, y, z>>) : <<x, y, z>>[k] \in {x, y, z}
      BY <2>1
    <2> QED
      BY <1>2, <2>2, <2>3 DEF Calm
  <1> QED
    BY <1>3, <1>4, PostWriteCalm, CalmConcat

LEMMA MovCalm ==
    ASSUME NEW i
    PROVE  Calm(translate_mov(i))
  <1>1. Written(translate_reg(i.d)) /\ "mov" \in Writers
    BY WrittenPlaces DEF Writers
  <1> QED
    BY <1>1, MovesCalm DEF translate_mov

LEMMA MovkCalm == \A i : Calm(translate_movk(i))
  <1> TAKE i
  <1> DEFINE imm  == i.m.v * Pow2(i.m.lsl)
             mask == Complement("x", (Pow2(Bits["h"]) - 1) * Pow2(i.m.lsl))
             d    == translate_reg(i.d)
             b    == I("mov", "x", RAX, N(mask))
             e    == I("and", "x", d, RAX)
             f    == I("mov", "x", RAX, N(imm))
             g    == I("or", "x", d, RAX)
  <1>1. Written(RAX) /\ Written(d) /\ {"mov", "and", "or"} \subseteq Writers
    BY WrittenPlaces DEF Writers, AluOps
  <1>2. Tame(b) /\ Tame(e) /\ Tame(f) /\ Tame(g)
    BY <1>1, TameOps
  <1>3. translate_movk(i) = IF i.m.lsl > Bits["h"] THEN <<b, e, f, g>> ELSE make_ri("and", i.c, d, mask) \o make_ri("or", i.c, d, imm)
    BY Zenon DEF translate_movk
  <1>4. Calm(make_ri("and", i.c, d, mask)) /\ Calm(make_ri("or", i.c, d, imm))
    BY <1>1, MovesCalm
  <1> HIDE DEF b, e, f, g, imm, mask, d
  <1>5. Calm(<<b, e, f, g>>)
    <2>1. <<b, e, f, g>> \in Seq({b, e, f, g}) /\ Len(<<b, e, f, g>>) = 4
      OBVIOUS
    <2>2. IsCode(<<b, e, f, g>>)
      BY <2>1 DEF IsCode
    <2>3. \A k \in 1 .. Len(<<b, e, f, g>>) : <<b, e, f, g>>[k] \in {b, e, f, g}
      BY <2>1
    <2> QED
      BY <1>2, <2>2, <2>3 DEF Calm
  <1> QED
    BY <1>3, <1>4, <1>5, CalmConcat

LEMMA ClearCalm ==
    ASSUME NEW i
    PROVE  Calm(translate_bic(i))
  <1> DEFINE d  == translate_reg(i.d)
             s2 == translate_reg(i.m.r)
             x  == I3("andn", i.c, reg_operand(d), reg_operand(s2), translate_reg(i.n))
  <1>1. Written(reg_operand(d)) /\ s2.k \in {"reg", "cell", "zero"} /\ "andn" \in Writers
    BY WrittenPlaces DEF Writers
  <1>2. Calm(<<x>>) /\ Calm(pre_read(s2, i.c)) /\ Calm(post_write(d, i.c))
    BY <1>1, TameOps, OneCalm, PreReadCalm, PostWriteCalm
  <1>3. translate_bic(i) = IF i.m.k # "reg" THEN panic ELSE pre_read(s2, i.c) \o <<x>> \o post_write(d, i.c)
    BY Zenon DEF translate_bic
  <1> HIDE DEF d, s2, x
  <1> QED
    BY <1>2, <1>3, StopCalm, CalmConcat

LEMMA BranchesCalm ==
    /\ \A cond : Calm(make_branch_to_label(cond))
    /\ \A i : Calm(handle_cbz_cbnz(i)) /\ Calm(handle_tbz_tbnz(i))
  <1>1. {"skip", "leave", "cmp", "bt"} \subseteq Silent
    BY DEF Silent
  <1>2. ASSUME NEW cond PROVE Calm(make_branch_to_label(cond))
    <2>1. Tame([op |-> "leave"]) /\ Tame(Iw("skip", "x", RAX, N(1), jcc_cc[inverse_condition[cond]]))
      BY <1>1, TameOps
    <2> QED
      BY <2>1, OneCalm, CalmConcat DEF make_branch_to_label, make_jcc
  <1>3. ASSUME NEW i PROVE Calm(handle_cbz_cbnz(i)) /\ Calm(handle_tbz_tbnz(i))
    <2>1. Tame(I("cmp", i.c, translate_reg(i.n), N(0))) /\ Tame(I("bt", i.c, translate_reg(i.n), N(i.bit)))
      BY <1>1, TameOps
    <2> QED
      BY <1>2, <2>1, OneCalm, CalmConcat DEF handle_cbz_cbnz, handle_tbz_tbnz
  <1> QED
    BY <1>2, <1>3

------------------------------------------------------------------------------
(* Loads and stores *)

LEMMA AddressCalm ==
    ASSUME NEW m, NEW c, NEW data, NEW a, a = process_addr_mode(m, c, data)
    PROVE  Calm(a.code) /\ Calm(finalize_addr_mode(a))
  <1> DEFINE base      == translate_reg(m.base)
             ext       == m.k = "ext"
             scratch   == ext \/ is_indirect(base)
             alternate == \E t \in data : is_indirect(t)
             pop       == scratch /\ alternate
             new == IF pop THEN get_alt_reg(data, c) ELSE IF scratch THEN RAX ELSE base
             pushed == IF pop THEN <<I("push", "x", RSP, new)>> ELSE <<>>
             formed == CASE ext /\ m.by # "none" -> load_shifted(new, "x", translate_reg(m.r), "x", m) \o make_rr("add", "x", new, base)
                         [] ext /\ m.by = "none" -> make_mov_rr("x", new, translate_reg(m.r)) \o make_rr("add", "x", new, base)
                         [] ~ext /\ is_indirect(base) -> make_mov_rr("x", new, base)
                         [] OTHER -> <<>>
             moved  == IF m.k = "pre" THEN <<I("add", "x", new, N(m.imm))>> ELSE <<>>
             post   == IF m.k = "post" THEN <<I("add", "x", new, N(m.imm))>> ELSE <<>>
  <1>1. a = [code |-> pushed \o formed \o moved, base |-> new, home |-> base, offset |-> IF m.k = "off" THEN m.imm ELSE 0,
             post |-> post, write_back |-> m.k \in {"pre", "post"}, pop |-> pop]
    BY Zenon DEF process_addr_mode
  <1>2. Written(new)
    <2>1. \E n : get_alt_reg(data, c) = R(n)
      BY DEF get_alt_reg
    <2>2. Written(get_alt_reg(data, c))
      BY <2>1, OperandKinds DEF Written
    <2> QED
      BY <2>2, WrittenPlaces
  <1>3. a.code = pushed \o formed \o moved /\ a.base = new /\ a.home = base /\ a.post = post
    <2> HIDE DEF pushed, formed, moved, post, new, base, pop
    <2> QED
      BY <1>1
  <1>4. {"add", "mov", "pop"} \subseteq Writers /\ "push" \in Silent
    BY DEF Writers, AluOps, Silent
  <1> HIDE DEF new, pop
  <1>5. Calm(pushed) /\ Calm(moved) /\ Calm(post)
    BY <1>2, <1>4, TameOps, OneCalm, EmptyCalm
  <1>6. Calm(formed)
    <2>1. Calm(load_shifted(new, "x", translate_reg(m.r), "x", m)) /\ Calm(make_rr("add", "x", new, base))
          /\ Calm(make_mov_rr("x", new, translate_reg(m.r))) /\ Calm(make_mov_rr("x", new, base))
      BY <1>2, <1>4, ShiftedCalm, MovesCalm
    <2> QED
      BY <2>1, EmptyCalm, CalmConcat
  <1> HIDE DEF pushed, formed, moved, post
  <1>7. Calm(a.code) /\ Calm(a.post)
    BY <1>3, <1>5, <1>6, CalmConcat
  <1>8. Calm(IF a.write_back /\ a.home.k = "cell" THEN <<I("mov", "x", a.home, a.base)>> ELSE <<>>)
    <2>1. Tame(I("mov", "x", a.home, a.base))
      BY <1>3, <1>4, TameOps, WrittenPlaces
    <2> QED
      BY <2>1, OneCalm, EmptyCalm
  <1>9. Calm(IF a.pop THEN <<I("pop", "x", a.base, RSP)>> ELSE <<>>)
    <2>1. Tame(I("pop", "x", a.base, RSP))
      BY <1>2, <1>3, <1>4, TameOps
    <2> QED
      BY <2>1, OneCalm, EmptyCalm
  <1> QED
    BY <1>7, <1>8, <1>9, CalmConcat DEF finalize_addr_mode

LEMMA TransfersCalm ==
    ASSUME NEW t, t.k \in {"reg", "cell", "zero"}, NEW c \in {"w", "x"}, NEW size \in {"b", "h", "w", c}, NEW a, NEW extra
    PROVE  /\ \A signed \in BOOLEAN : Calm(make_load(t, c, size, signed, a, extra))
           /\ Calm(make_store(t, c, size, a, extra))
  <1>1. Written(reg_operand(t)) /\ Written(memory_operand(a, extra)) /\ {"mov", "movsx", "movzx"} \subseteq Writers
    BY WrittenPlaces DEF Writers, memory_operand
  <1>2. Calm(make_store(t, c, size, a, extra))
    <2>1. Calm(<<I("mov", size, memory_operand(a, extra), reg_operand(t))>>)
      BY <1>1, TameOps, OneCalm
    <2> QED
      BY <2>1, PreReadCalm, CalmConcat DEF make_store
  <1>3. ASSUME NEW signed \in BOOLEAN PROVE Calm(make_load(t, c, size, signed, a, extra))
    <2> DEFINE mem == memory_operand(a, extra)
               to  == reg_operand(t)
               b   == CASE size = c                    -> <<I("mov", c, to, mem)>>
                        [] size = "w" /\ c = "x"       -> <<Iw("movsx", "x", to, mem, "w")>>
                        [] size \in {"b", "h"} /\ c = "w" -> <<Iw(IF signed THEN "movsx" ELSE "movzx", "w", to, mem, size)>>
                        [] size \in {"b", "h"} /\ c = "x" -> panic
    <2>1. make_load(t, c, size, signed, a, extra) = b \o post_write(t, c)
      BY Zenon DEF make_load
    <2>2. Calm(b)
      <3> HIDE DEF mem, to
      <3>1. /\ Calm(<<I("mov", c, to, mem)>>) /\ Calm(<<Iw("movsx", "x", to, mem, "w")>>)
            /\ Calm(<<Iw(IF signed THEN "movsx" ELSE "movzx", "w", to, mem, size)>>)
        BY <1>1, TameOps, OneCalm DEF to
      <3> QED
        BY <3>1, StopCalm
    <2> HIDE DEF b
    <2> QED
      BY <2>1, <2>2, PostWriteCalm, CalmConcat
  <1> QED
    BY <1>2, <1>3

LEMMA TransferCalm ==
    ASSUME NEW i, IsTransfer(i)
    PROVE  Calm(compile_load_store(i))
  <1>1. i.c \in {"w", "x"} /\ i.op \in Loads \cup Stores \cup {"LDP", "STP"}
    BY DEF IsTransfer, Widths
  <1>2. \A r : translate_reg(r).k \in {"reg", "cell", "zero"}
    BY WrittenPlaces
  <1>3. ASSUME NEW load \in BOOLEAN, NEW size \in {"b", "h", "w", i.c}, NEW signed \in BOOLEAN
        PROVE  Calm(load_store(i, load, size, signed))
    <2>1. PICK a : a = process_addr_mode(i.m, i.c, {translate_reg(i.d)})
      OBVIOUS
    <2>2. Calm(a.code) /\ Calm(finalize_addr_mode(a))
      BY <2>1, AddressCalm
    <2>3. Calm(make_load(translate_reg(i.d), i.c, size, signed, a, 0)) /\ Calm(make_store(translate_reg(i.d), i.c, size, a, 0))
      BY <1>1, <1>2, TransfersCalm
    <2>4. load_store(i, load, size, signed) =
            a.code \o (IF load THEN make_load(translate_reg(i.d), i.c, size, signed, a, 0)
                              ELSE make_store(translate_reg(i.d), i.c, size, a, 0)) \o finalize_addr_mode(a)
      BY <2>1, Zenon DEF load_store
    <2> QED
      BY <2>2, <2>3, <2>4, CalmConcat
  <1>4. Calm(load_store_pair(i))
    <2>1. PICK a : a = process_addr_mode(i.m, i.c, {translate_reg(i.d), translate_reg(i.d2)})
      OBVIOUS
    <2>2. Calm(a.code) /\ Calm(finalize_addr_mode(a))
      BY <2>1, AddressCalm
    <2>3. PICK no \in BOOLEAN : ~no
      OBVIOUS
    <2> DEFINE gen(r, extra) == IF i.op = "LDP" THEN make_load(translate_reg(r), i.c, i.c, no, a, extra)
                                ELSE make_store(translate_reg(r), i.c, i.c, a, extra)
    <2>4. ASSUME NEW r, NEW extra PROVE Calm(gen(r, extra))
      <3>1. Calm(make_load(translate_reg(r), i.c, i.c, no, a, extra)) /\ Calm(make_store(translate_reg(r), i.c, i.c, a, extra))
        BY <1>1, <1>2, TransfersCalm
      <3> QED
        BY <3>1
    <2>5. load_store_pair(i) = a.code \o gen(i.d, 0) \o gen(i.d2, Bytes[i.c]) \o finalize_addr_mode(a)
      <3>1. no = FALSE
        BY <2>3
      <3> QED
        BY <2>1, <3>1, Zenon DEF load_store_pair
    <2> HIDE DEF gen
    <2> QED
      BY <2>2, <2>4, <2>5, CalmConcat
  <1>5. TRUE \in BOOLEAN /\ FALSE \in BOOLEAN
    OBVIOUS
  <1>6. \/ compile_load_store(i) = panic
        \/ compile_load_store(i) = load_store_pair(i)
        \/ \E load \in BOOLEAN, size \in {"b", "h", "w", i.c}, signed \in BOOLEAN : compile_load_store(i) = load_store(i, load, size, signed)
    BY <1>1, <1>5, Zenon DEF compile_load_store, Loads, Stores
  <1> QED
    BY <1>3, <1>4, <1>6, StopCalm

LEMMA CompileCalm ==
    ASSUME NEW i, IsInstruction(i), i.op \notin {"UDIV", "SDIV"}
    PROVE  Calm(Compile(i))
  <1>1. CASE IsTransfer(i)
    <2>1. i.op \in MemoryOps
      BY <1>1 DEF IsTransfer, MemoryOps
    <2> QED
      BY <1>1, <2>1, TransferCalm DEF Compile
  <1>2. ASSUME i.op \in Branches PROVE Calm(Compile(i))
    BY <1>2, BranchesCalm DEF Compile, compile_branch, Branches, MemoryOps, Loads, Stores
  <1>3. ASSUME i.op \in {"AND", "ORR", "EOR", "ADD", "SUB", "ADDS", "SUBS", "CMP", "CMN"}, i.m.k \in {"reg", "imm", "shift"}
        PROVE  Calm(Compile(i))
    <2>1. Compile(i) = compile_arith(i)
      BY <1>3 DEF Compile, Branches, MemoryOps, Loads, Stores
    <2>2. \A sets \in BOOLEAN : Calm(translate_add_sub(i, sets))
      BY <1>3, AddSubCalm
    <2>3. \A op \in {"and", "or", "xor"} : Calm(translate_logical(i, op))
      BY <1>3, LogicCalm
    <2>4. Calm(translate_cmp_cmn(i))
      BY <1>3, CompareCalm
    <2>5. \/ compile_arith(i) = translate_cmp_cmn(i)
          \/ \E sets \in BOOLEAN : compile_arith(i) = translate_add_sub(i, sets)
          \/ \E op \in {"and", "or", "xor"} : compile_arith(i) = translate_logical(i, op)
      BY <1>3 DEF compile_arith
    <2> QED
      BY <2>1, <2>2, <2>3, <2>4, <2>5, Zenon
  <1>4. ASSUME i.op \in {"LSL", "LSR", "ASR"}, i.m.k \in {"reg", "imm"} PROVE Calm(Compile(i))
    BY <1>4, ShiftCalm DEF Compile, compile_arith, Branches, MemoryOps, Loads, Stores
  <1>5. ASSUME i.op \in {"MOV", "MOVK", "ADRP", "SXTB", "SXTH", "SXTW", "UXTB", "UXTH", "MADD", "CSEL", "CCMP", "CSET", "BIC", "UBFIZ"}
        PROVE  Calm(Compile(i))
    <2>1. Compile(i) = compile_arith(i)
      BY <1>5 DEF Compile, Branches, MemoryOps, Loads, Stores
    <2>2. Written(translate_reg(i.d)) /\ translate_reg(i.d).k \in {"reg", "cell", "zero"}
      BY WrittenPlaces
    <2>3. /\ Calm(translate_mov(i)) /\ Calm(translate_movk(i)) /\ Calm(translate_extend(i)) /\ Calm(translate_madd(i))
          /\ Calm(translate_csel(i)) /\ Calm(translate_ccmp(i)) /\ Calm(translate_bic(i)) /\ Calm(translate_ubfiz(i))
      BY MovCalm, MovkCalm, ExtendCalm, MaddCalm, SelectCalm, ChooseCalm, ClearCalm, FieldCalm
    <2>4. Calm(make_mov_ri64(translate_reg(i.d), i.m.v)) /\ Calm(make_setcc(i.cond, translate_reg(i.d)))
      BY <2>2, MovesCalm, SetCalm
    <2> QED
      BY <1>5, <2>1, <2>3, <2>4 DEF compile_arith
  <1>6. CASE IsArithmetic(i)
    <2>1. \/ i.op \in {"AND", "ORR", "EOR", "ADD", "SUB", "ADDS", "SUBS"} /\ i.m.k \in {"reg", "imm", "shift"}
          \/ i.op \in {"LSL", "LSR", "ASR"} /\ i.m.k \in {"reg", "imm"}
          \/ i.op \in {"UDIV", "SDIV", "MADD", "UBFIZ", "BIC"}
      BY <1>6 DEF IsArithmetic, Operands3, Register, Shifted, Constant
    <2> QED
      BY <1>3, <1>4, <1>5, <2>1
  <1>7. CASE IsMove(i)
    <2>1. i.op \in {"MOV", "MOVK", "ADRP", "SXTB", "SXTH", "SXTW", "UXTB", "UXTH"}
      BY <1>7 DEF IsMove, Operands3
    <2> QED
      BY <1>5, <2>1
  <1>8. CASE IsConditional(i)
    <2>1. \/ i.op \in {"CMP", "CMN"} /\ i.m.k \in {"reg", "imm", "shift"}
          \/ i.op \in {"CCMP", "CSEL", "CSET"}
          \/ i.op \in Branches
      BY <1>8 DEF IsConditional, Operands2, Register, Shifted, Constant, Branches
    <2> QED
      BY <1>2, <1>3, <1>5, <2>1
  <1> QED
    BY <1>1, <1>6, <1>7, <1>8 DEF IsInstruction

(* The native code of all instructions but a division never traps. *)
LEMMA CalmStep ==
    ASSUME NEW i, IsInstruction(i), ~Stops(i), ~Refused(Compile(i)), i.op \notin {"UDIV", "SDIV"}, NEW s \in State(Cells), ~s.fault
    PROVE  ~Run(s, Compile(i)).fault
  <1>1. Calm(Compile(i)) /\ DOMAIN s = Fields
    BY CompileCalm DEF State, Fields
  <1>2. Compile(i) # refuse
    <2>1. Refused(refuse)
      <3>1. DOMAIN refuse = {1} /\ refuse[1].op = "refuse"
        BY DEF refuse
      <3> QED
        BY <3>1 DEF Refused
    <2> QED
      BY <2>1
  <1>3. Sound(Compile(i), IF Stops(i) THEN {Zero} ELSE {}, Cells)
    BY <1>2, CompileVerdict DEF Verdict
  <1>4. NoRefusal(Compile(i)) /\ Encodable(Compile(i))
    BY <1>3 DEF Sound, Encodes
  <1>5. Run(s, Compile(i)).fault = s.fault
    BY <1>1, <1>4, RunSolid
  <1> QED
    BY <1>5

(* A division traps on the host exactly when the divisor is zero or the    *)
(* quotient overflows, where ARM64 has a result, and nothing else traps,   *)
(* in every program (translate_div); the two forms TrapsExact sets aside   *)
(* trap at random.                                                         *)
THEOREM DivisionTraps == Spec => TrapsExact
  <1> DEFINE Traps == Execute /\ phase' = "translated" /\ Right /\ ~UsesX2(program[pos]) /\ ~HalfSignExtends(program[pos]) =>
                        \A v \in Valuations :
                           ~Native(v).fault /\ ~Native(v).taken => (Native(v)'.fault <=> Untranslatable(program[pos], Arm(v)))
  <1>1. Tracks /\ [Next]_vars => [Traps]_vars
    <2> SUFFICES ASSUME Tracks, Execute, phase' = "translated", Right, ~UsesX2(program[pos]), ~HalfSignExtends(program[pos]),
                        NEW v \in Valuations, ~Native(v).fault, ~Native(v).taken
                 PROVE  Native(v)'.fault <=> Untranslatable(program[pos], Arm(v))
      OBVIOUS
    <2>1. PICK i : i = program[pos]
      OBVIOUS
    <2>2. phase = "translated" /\ pos <= Len(program) /\ ~Refused(Compile(i))
      BY <2>1 DEF Execute
    <2>3. IsInstruction(i) /\ pos \in DOMAIN program
      BY <2>1, <2>2, ProgramAssumption DEF Tracks, Typed, Decided
    <2>4. ~Stops(i)
      BY <2>1, <2>2, <2>3 DEF Tracks, Typed, Decided
    <2>5. PICK a, s : a = Arm(v) /\ s = Native(v)
      OBVIOUS
    <2>6. Native(v)' = Run(s, Compile(i))
      BY <2>1, <2>2, <2>5 DEF Execute, Native
    <2>7. a \in ArmState /\ Rest(s, Cells) /\ Agree(a, s) /\ ~s.fault /\ ~s.taken
      BY <2>5 DEF Tracks, Typed, World, Arm, Native
    <2>8. Sim(a, s)
      BY <2>7 DEF Sim, Active, Agree
    <2>9. CASE i.op \in {"UDIV", "SDIV"}
      <3>1. i \in Operands3({"UDIV", "SDIV"}, Gprs, Gprs, Register)
        BY <2>3, <2>9 DEF IsInstruction, IsArithmetic, IsMove, IsConditional, IsTransfer, Operands2, Operands3, Loads, Stores
      <3> QED
        BY <2>1, <2>4, <2>5, <2>6, <2>8, <3>1, DivDone
    <2>10. CASE i.op \notin {"UDIV", "SDIV"}
      <3>1. s \in State(Cells)
        BY <2>7 DEF Rest
      <3>2. ~Run(s, Compile(i)).fault
        BY <2>2, <2>3, <2>4, <2>7, <2>10, <3>1, CalmStep
      <3> QED
        BY <2>1, <2>6, <2>10, <3>2 DEF Untranslatable
    <2> QED
      BY <2>9, <2>10
  <1>2. Spec => [][Traps]_vars
    BY <1>1, TracksAlways, PTL DEF Spec
  <1> QED
    BY <1>2 DEF TrapsExact
==============================================================================
