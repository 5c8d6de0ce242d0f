---------------------------- MODULE Instructions ----------------------------
(***************************************************************************)
(* A guest program of data instructions, translated as a whole and then    *)
(* run instruction by instruction beside the ARM64 processor it was        *)
(* written for, from every start state at once: worlds[v] holds the two    *)
(* processors that started from valuation v, so that a property can say    *)
(* what a translation does for all inputs, and for some.                   *)
(***************************************************************************)
EXTENDS ArmData, Arith, LoadStore, Functions

CONSTANTS Programs,     \* sequences of instructions
          Guests,       \* the guest registers that are followed
          Valuations    \* start states: [reg : [Guests -> values], flags]

ASSUME GuestAssumption == "xzr" \notin Guests

ASSUME ValuationAssumption ==
    \A v \in Valuations : v \in [reg : [Guests -> Words("x")], flags : ArmFlags]

(* The instructions there are, as the decoder presents them. *)
Gprs      == (Guests \ {"sp"}) \cup {"xzr"}
Addresses == (Gprs \ {"xzr"}) \cup ({"sp"} \cap Guests)
Short     == 0 .. Mod["w"] \div 2 - 1
Register  == [k : {"reg"}, r : Gprs]
Constant(S)    == [k : {"imm"}, v : S, lsl : {0}]
Shifted(B)     == [k : {"shift"}, r : Gprs, by : B, n : Nat]
Shifts         == {"LSL", "LSR", "ASR"}
Extensions     == DOMAIN Narrow \cup {"UXTX", "SXTX"}
Operands2(ops, n, m)    == [op : ops, c : Widths, n : n, m : m]
Operands3(ops, d, n, m) == [op : ops, c : Widths, d : d, n : n, m : m]

IsArithmetic(i) ==
    \/ i \in Operands3({"ADD", "ADDS", "SUB", "SUBS"}, Gprs, Gprs, Register \cup Shifted(Shifts \cup Extensions))
    \/ i \in Operands3({"ADD", "ADDS", "SUB", "SUBS"}, Addresses, Addresses, [k : {"imm"}, v : Short, lsl : Nat])
    \/ i \in Operands3({"AND", "ORR", "EOR", "BIC"}, Gprs, Gprs, Register \cup Shifted(Shifts \cup {"ROR"}))
    \/ i \in Operands3({"AND", "ORR", "EOR"}, Addresses, Gprs, Constant(Words(i.c)))
    \/ i \in Operands3({"LSL", "LSR", "ASR"}, Gprs, Gprs, Register \cup Constant(0 .. Bits[i.c] - 1))
    \/ i \in Operands3({"UDIV", "SDIV"}, Gprs, Gprs, Register)
    \/ i \in [op : {"MADD"}, c : Widths, d : Gprs, n : Gprs, m : Register, a : Gprs]
    \/ i \in [op : {"UBFIZ"}, c : Widths, d : Gprs, n : Gprs, m : Constant({0}), lsb : Nat, width : 1 .. Bits[i.c]]

IsMove(i) ==
    \/ i \in Operands3({"MOV"}, Gprs \cup Addresses, {"xzr"}, [k : {"reg"}, r : Gprs \cup Addresses] \cup Constant(Words(i.c)))
    \/ i \in Operands3({"MOVK"}, Gprs, {"xzr"}, [k : {"imm"}, v : Words("h"), lsl : {Bits["h"] * k : k \in 0 .. Bytes[i.c] \div 2 - 1}])
    \/ i \in [op : {"ADRP"}, c : {"x"}, d : Gprs, n : {"xzr"}, m : Constant(Words("x"))]
    \/ i \in Operands3({"SXTB", "SXTH"}, Gprs, Gprs, Constant({0}))
    \/ i \in [op : {"SXTW"}, c : {"x"}, d : Gprs, n : Gprs, m : Constant({0})]
    \/ i \in [op : {"UXTB", "UXTH"}, c : {"w"}, d : Gprs, n : Gprs, m : Constant({0})]

Conditions == DOMAIN jcc_cc

IsConditional(i) ==
    \/ i \in Operands2({"CMP", "CMN"}, Gprs, Register \cup Shifted(Shifts \cup Extensions))
    \/ i \in Operands2({"CMP", "CMN"}, Addresses, [k : {"imm"}, v : Short, lsl : Nat])
    \/ i \in [op : {"CCMP"}, c : Widths, n : Gprs, m : Register \cup Constant(Short), cond : Conditions, nzcv : ArmFlags]
    \/ i \in [op : {"CSEL"}, c : Widths, d : Gprs, n : Gprs, m : Register, cond : Conditions]
    \/ i \in [op : {"CSET"}, c : Widths, d : Gprs, n : {"xzr"}, m : Constant({0}), cond : Conditions]
    \/ i \in [op : {"B.cond"}, c : {"x"}, n : {"xzr"}, m : Constant({0}), cond : Conditions]
    \/ i \in Operands2({"CBZ", "CBNZ"}, Gprs, Constant({0}))
    \/ i \in [op : {"TBZ", "TBNZ"}, c : Widths, n : Gprs, m : Constant({0}), bit : 0 .. Bits[i.c] - 1]

Offset  == [k : {"off", "pre", "post"}, base : Addresses, imm : Int]
Indexed == {m \in [k : {"ext"}, base : Addresses, r : Gprs, by : {"none", "LSL", "UXTW", "SXTW", "SXTX"}, n : Nat] :
              m.by = "none" => m.n = 0}

(* Writing back to a register that is also transferred is unpredictable, *)
(* as is loading one register twice.                                     *)
IsTransfer(i) ==
    \/ /\ i \in [op : Loads \cup Stores, c : Widths, d : Gprs, m : Offset \cup Indexed \cup [k : {"literal"}]]
       /\ i.op = "LDRSW" => i.c = "x"
       /\ i.m.k \in {"pre", "post"} => i.m.base # i.d
    \/ /\ i \in [op : {"LDP", "STP"}, c : Widths, d : Gprs, d2 : Gprs, m : Offset]
       /\ i.m.k \in {"pre", "post"} => i.m.base \notin {i.d, i.d2}
       /\ i.op = "LDP" => i.d # i.d2

IsInstruction(i) == IsArithmetic(i) \/ IsMove(i) \/ IsConditional(i) \/ IsTransfer(i)

ASSUME ProgramAssumption ==
    \A p \in Programs : Len(p) \in Nat /\ DOMAIN p = 1 .. Len(p) /\ \A j \in DOMAIN p : IsInstruction(p[j])

VARIABLES program,   \* the guest's instructions
          phase,     \* "arm", "translated", "refused" or "aborted"
          pos,       \* the next instruction to run
          worlds     \* [Valuations -> [arm, native]]

vars == <<program, phase, pos, worlds>>

Compile(i) == IF i.op \in MemoryOps THEN compile_load_store(i)
              ELSE IF i.op \in Branches THEN compile_branch(i)
              ELSE compile_arith(i)

ArmStart(v) == [reg |-> v.reg, flags |-> v.flags, mem |-> <<>>, taken |-> FALSE]

(* The scratch registers hold leftovers. *)
NativeStart(v) ==
    LET Guest(n) == {r \in Guests \cap DOMAIN Direct : Direct[r] = n}
    IN  [reg   |-> [n \in Range(Direct) \cup {"rax"} |->
                      IF Guest(n) = {} THEN 1 ELSE v.reg[CHOOSE r \in Guest(n) : TRUE]],
         cell  |-> [r \in Guests \ DOMAIN Direct |-> v.reg[r]],
         flags |-> v.flags, mem |-> <<>>, stack |-> <<>>, skip |-> 0, fault |-> FALSE, taken |-> FALSE]

Start == [v \in Valuations |-> [arm |-> ArmStart(v), native |-> NativeStart(v)]]

(* A branch that is taken leaves the program. *)
ArmRun(a, i) == IF a.taken THEN a ELSE ArmStep(a, i)

Init ==
    /\ program \in Programs
    /\ phase = "arm"
    /\ pos = 1
    /\ worlds = Start

(* compile_chunk translates everything before anything runs. *)
Translate ==
    /\ phase = "arm"
    /\ phase' = IF \E j \in DOMAIN program : Panics(Compile(program[j])) THEN "aborted" ELSE "translated"
    /\ UNCHANGED <<program, pos, worlds>>

Execute ==
    /\ phase = "translated"
    /\ pos <= Len(program)
    /\ LET i    == program[pos]
           code == Compile(i)
       IN  IF Refused(code)
             THEN phase' = "refused" /\ UNCHANGED <<pos, worlds>>
             ELSE /\ worlds' = [v \in Valuations |-> [arm    |-> ArmRun(worlds[v].arm, i),
                                                      native |-> Run(worlds[v].native, code)]]
                  /\ pos' = pos + 1
                  /\ UNCHANGED phase
    /\ UNCHANGED program

Next == Translate \/ Execute
Spec == Init /\ [][Next]_vars

------------------------------------------------------------------------------
(* Types *)

(* Registers hold words, and between two instructions nothing that a       *)
(* sequence pushed is left on the stack (push and pop of load_store.rs and *)
(* arith.rs).                                                              *)
InstrTypeOK ==
    /\ phase \in {"arm", "translated", "refused", "aborted"}
    /\ pos \in 1 .. Len(program) + 1
    /\ \A v \in Valuations :
         /\ \A r \in Guests : worlds[v].arm.reg[r] \in Words("x")
         /\ \A n \in DOMAIN worlds[v].native.reg : worlds[v].native.reg[n] \in Words("x")
         /\ worlds[v].native.fault \/ worlds[v].native.stack = <<>>

------------------------------------------------------------------------------
(* Where a translation is wrong.  Each predicate names the forms of one    *)
(* mistake in the code; the properties below say that these forms, and no  *)
(* others, go wrong.                                                       *)

HasCell(r) == translate_reg(r).k = "cell"
Destinations(i) ==
    CASE i.op \in {"CMP", "CMN", "CCMP", "STP"} \cup Stores \cup Branches -> {}
      [] i.op = "LDP" -> {i.d, i.d2}
      [] OTHER -> {i.d}

(* A 32-bit result in ExecCtx leaves the upper half of the cell as it was. *)
StaleUpperHalf(i) ==
    /\ \E r \in Destinations(i) : HasCell(r)
    /\ i.c = "w" \/ i.op = "CSET"

Is(i, ops, kind) == i.op \in ops /\ i.m.k = kind

(* make_rrr writes dest before it reads src2. *)
OverwritesSecond(i) ==
    /\ Is(i, {"AND", "ORR", "EOR", "SUB", "SUBS", "ADDS"}, "reg")
    /\ i.d \in DOMAIN Direct /\ i.d = i.m.r /\ i.d # i.n

(* The shifted operand is put into dest, which is then added to the first. *)
OverwritesFirst(i) == Is(i, {"ADD", "ADDS"}, "shift") /\ i.d \in DOMAIN Direct /\ i.d = i.n

(* ... and the first is subtracted from the second. *)
SubtractsBackwards(i) == Is(i, {"SUB", "SUBS"}, "shift")

(* A shift by a constant shifts dest. *)
IgnoresSource(i) == Is(i, {"LSL", "LSR", "ASR"}, "imm") /\ i.d # i.n

(* MOV sign-extends the low half of its constant. *)
TruncatesConstant(i) == Is(i, {"MOV"}, "imm") /\ i.c = "x" /\ Low("x", Signed("w", i.m.v)) # i.m.v

(* MOVK at bit 16 uses sign-extended 32-bit constants. *)
ClearsUpperHalf(i) == i.op = "MOVK" /\ i.c = "x" /\ i.m.lsl = Bits.h

(* Sequences around mul and div restore x2 after the result is written. *)
UsesX2(i) == i.op \in {"UDIV", "SDIV", "MADD"} /\ "x2" \in {i.d, i.m.r}

(* cdq fills the low half of rdx only. *)
HalfSignExtends(i) == i.op = "SDIV" /\ i.c = "x"

(* Loading zero as the second choice overwrites the flags that choose. *)
ChoosesAfterXor(i) == i.op = "CSEL" /\ i.m.r = "xzr" /\ i.cond \notin {"AL", "NV"}

(* The inverse of "always" is "always". *)
NeverJumps(i) == i.op = "B.cond" /\ i.cond \in {"AL", "NV"}

AddsMultiplier(i) == i.op = "MADD" /\ i.a # i.m.r

(* The second address is formed after the first register is loaded. *)
LosesBase(i) == i.op = "LDP" /\ i.d = i.m.base /\ i.d \in DOMAIN Direct /\ i.d2 # "xzr"

Borrows(i) ==
    /\ i.op \in MemoryOps
    /\ i.m.k = "ext" \/ HasCell(i.m.base)
    /\ is_indirect(translate_reg(i.d)) \/ (i.op \in {"LDP", "STP"} /\ is_indirect(translate_reg(i.d2)))

(* Pushing the borrowed register moves sp, and it may hold the base, ... *)
BorrowsBase(i) == Borrows(i) /\ i.m.k = "ext" /\ i.m.base \in {"sp", "x23"} /\ ~(i.op \in Loads /\ i.d = "xzr")

(* ... or, 32 bits wide, the data. *)
BorrowsData(i) == Borrows(i) /\ i.op \in {"LDP", "STP"} /\ i.c = "w" /\ "x23" \in {i.d, i.d2}

Miscompiled(i) ==
    \/ StaleUpperHalf(i)     \/ OverwritesSecond(i)  \/ OverwritesFirst(i) \/ SubtractsBackwards(i)
    \/ IgnoresSource(i)      \/ TruncatesConstant(i) \/ ClearsUpperHalf(i) \/ UsesX2(i)
    \/ HalfSignExtends(i)    \/ AddsMultiplier(i)    \/ LosesBase(i)
    \/ BorrowsBase(i)        \/ BorrowsData(i)       \/ ChoosesAfterXor(i)  \/ NeverJumps(i)

------------------------------------------------------------------------------
(* Where the flags are wrong *)

ClobbersFlags(i) ==
    \/ i.op \in {"AND", "ORR", "EOR", "BIC", "SUB", "MOVK", "UDIV", "MADD", "UBFIZ", "CBZ", "CBNZ", "TBZ", "TBNZ"}
    \/ i.op = "SDIV" /\ ~(i.c = "x" /\ i.m.r = "x2")      \* which always traps
    \/ Is(i, {"ADD"}, "shift")
    \/ Is(i, {"ADD"}, "reg") /\ ("xzr" \in {i.n, i.m.r} \/ (HasCell(i.n) /\ HasCell(i.m.r)))
    \/ Is(i, {"LSL", "LSR", "ASR"}, "imm")
    \/ Is(i, {"LSL", "LSR", "ASR", "MOV", "CSEL"}, "reg") /\ i.m.r = "xzr"
    \/ i.op \in MemoryOps /\ i.m.k # "off"
    \/ i.op \in Stores /\ i.d = "xzr"
    \/ i.op = "STP" /\ "xzr" \in {i.d, i.d2}

SetsWrongFlags(i) ==
    \/ OverwritesSecond(i) \/ OverwritesFirst(i) \/ SubtractsBackwards(i)
    \/ Is(i, {"CMP", "CMN"}, "imm") /\ i.m.lsl # 0

WrongFlags(i) == IF i.op \in FlagSetters THEN SetsWrongFlags(i) ELSE ClobbersFlags(i)

(* How the native flags stand for the guest's: "sum" as they are, "borrow" *)
(* with the carry inverted, as x86 leaves it after a subtraction, "zero"   *)
(* as they are and Z is set, "lost" not at all.                            *)
Stand(kind, arm, native) ==
    CASE kind = "sum"    -> native = arm
      [] kind = "borrow" -> native = [arm EXCEPT !.c = 1 - @]
      [] kind = "zero"   -> native = arm /\ arm.z = 1
      [] kind = "lost"   -> TRUE

Always(i) == i.cond \in {"AL", "NV"}

KindsAfter(i) ==
    IF WrongFlags(i) THEN {"lost"}
    ELSE CASE i.op \in {"CMP", "SUBS"}      -> {"borrow"}
           [] i.op = "CCMP" /\ Always(i)    -> {"borrow"}
           [] i.op = "CCMP" /\ ~Always(i)   -> {"borrow", IF i.nzcv.z = 1 THEN "zero" ELSE "sum"}
           [] OTHER                         -> {"sum"}

Touching(p, j) == {k \in 1 .. j - 1 : p[k].op \in FlagSetters \/ ClobbersFlags(p[k])}
FlagKinds(p, j) == IF Touching(p, j) = {} THEN {"sum"} ELSE KindsAfter(p[Max(Touching(p, j))])

(* jcc reads the carry as a sum's, "above" as a comparison's, and cmov's   *)
(* table is the other way round.                                           *)
Misread(kind, i) ==
    \/ kind = "lost"
    \/ i.cond \in {"CS", "CC"} /\ ((kind # "borrow") <=> i.op = "CSEL")
    \/ i.cond \in {"HI", "LS"} /\ kind = "sum"

Misreads(p, j) == "cond" \in DOMAIN p[j] /\ ~Always(p[j]) /\ \E kind \in FlagKinds(p, j) : Misread(kind, p[j])

(* Instruction j of p goes wrong. *)
Wrong(p, j) == Miscompiled(p[j]) \/ Misreads(p, j)
Right       == \A j \in 1 .. pos - 1 : ~Wrong(program, j)

------------------------------------------------------------------------------
(* Results *)

Arm(v)    == worlds[v].arm
Native(v) == worlds[v].native

HomeValue(s, r) == IF r \in DOMAIN Direct THEN s.reg[Direct[r]] ELSE s.cell[r]

Agrees(v) ==
    /\ \A r \in Guests : HomeValue(Native(v), r) = Arm(v).reg[r]
    /\ Native(v).mem = Arm(v).mem
    /\ Native(v).taken = Arm(v).taken
    /\ ~Native(v).fault

(* Division that the guest may do and the host cannot. *)
Untranslatable(i, arm) ==
    /\ i.op \in {"UDIV", "SDIV"}
    /\ LET a == Read(arm, i.c, i.n)
           b == Read(arm, i.c, i.m.r)
       IN  b = 0 \/ (i.op = "SDIV" /\ Signed(i.c, a) = -(Mod[i.c] \div 2) /\ Signed(i.c, b) = -1)

(* A program of any length, from any start, leaves all guest registers and *)
(* memory, and takes its branch, as on ARM64, as long as none of its       *)
(* instructions has a form of Miscompiled or tests flags that do not stand *)
(* for the guest's (arith.rs, load_store.rs, instr_utils.rs, branch.rs).   *)
ResultsExact ==
    phase = "translated" /\ Right => \A v \in Valuations : Native(v).fault \/ Agrees(v)

(* The native flags stand for the guest's in a way that the last           *)
(* instruction that touched them determines (the TODO and FIXME of         *)
(* arith.rs, and write-back in load_store.rs).                             *)
FlagsExact ==
    phase = "translated" /\ Right =>
        \A v \in Valuations :
            \/ Native(v).fault \/ Native(v).taken
            \/ \E kind \in FlagKinds(program, pos) : Stand(kind, Arm(v).flags, Native(v).flags)

(* A division traps on the host exactly when the divisor is zero or the    *)
(* quotient overflows, where ARM64 has a result, and nothing else traps    *)
(* (translate_div); two forms that trap at random are set aside.           *)
TrapsExact ==
    [][Execute /\ phase' = "translated" /\ Right /\ ~UsesX2(program[pos]) /\ ~HalfSignExtends(program[pos]) =>
         \A v \in Valuations :
            ~Native(v).fault /\ ~Native(v).taken => (Native(v)'.fault <=> Untranslatable(program[pos], Arm(v)))]_vars

(* Every form of Miscompiled, every condition that is misread and every    *)
(* form that disturbs the flags really fails for some input.               *)
Ran    == phase = "translated" /\ pos = Len(program) + 1
Single == Ran /\ Len(program) = 1
Only   == program[1]
Expected(i, v) ==
    IF i.op \in {"CMP", "SUBS"} \/ (i.op = "CCMP" /\ Condition(i.cond, v.flags))
      THEN [Arm(v).flags EXCEPT !.c = 1 - @]
      ELSE Arm(v).flags

MistakesReal ==
    /\ Ran /\ ~Right /\ (\A j \in DOMAIN program : FlagKinds(program, j) # {"lost"}) =>
         \E v \in Valuations : ~Agrees(v) /\ ~(Len(program) = 1 /\ Untranslatable(Only, ArmStart(v)))
    /\ Single /\ WrongFlags(Only) => \E v \in Valuations : Native(v).flags # Expected(Only, v)

------------------------------------------------------------------------------
(* What cannot be translated at all *)

XzrOperands(i) ==
    {f \in {"d", "n"} \cap DOMAIN i : i[f] = "xzr"}
      \cup (IF i.m.k \in {"reg", "shift", "ext"} /\ i.m.r = "xzr" THEN {"m"} ELSE {})

XzrPanics(i) ==
    CASE Is(i, {"AND", "ORR", "EOR", "SUB", "SUBS", "ADDS"}, "reg") -> {"n", "m"}
      [] Is(i, {"ADD", "ADDS", "SUB", "SUBS"}, "shift") -> {"n", "m"}
      [] Is(i, {"ADD"}, "reg") ->
            IF is_indirect(translate_reg(i.n)) /\ is_indirect(translate_reg(i.m.r)) THEN {"n", "m"} ELSE {}
      [] Is(i, {"LSL", "LSR", "ASR"}, "reg") \/ i.op = "BIC" -> {"n"}
      [] Is(i, {"LSL", "LSR", "ASR"}, "imm") -> {"d"}
      [] i.op \in {"CMP", "CCMP"} -> {"n", "m"}
      [] i.op = "CMN" -> {"m"}
      [] i.op \in {"MOV", "MOVK", "CSET"} -> {"d"}
      [] i.op \in {"SXTB", "SXTH", "SXTW", "UXTB", "UXTH", "CSEL"} -> {"d", "n"}
      [] i.op \in {"UDIV", "SDIV", "MADD"} -> {"d", "m"}
      [] i.op \in {"UBFIZ", "CBZ", "CBNZ", "TBZ", "TBNZ"} -> {"n"}
      [] Is(i, MemoryOps, "ext") -> IF i.m.by = "none" THEN {} ELSE {"m"}
      [] OTHER -> {}

HasNoForm(i) ==
    \/ Is(i, {"AND", "ORR", "EOR", "BIC", "CMP", "CMN"}, "shift")
    \/ i.op \in {"LDRB", "LDRSB", "LDRH", "LDRSH"} /\ i.c = "x"
    \/ i.m.k = "literal"

(* The forms that stop the translator, and with it the process, although   *)
(* they are valid instructions that the guest may never reach: a panic     *)
(* instead of CompileError::UnsupportedInstruction.                        *)
AbortsExact ==
    phase # "arm" =>
        (phase = "aborted" <=>
            \E j \in DOMAIN program : HasNoForm(program[j]) \/ XzrOperands(program[j]) \cap XzrPanics(program[j]) # {})
==============================================================================
