-------------------------------- MODULE ArmData --------------------------------
(***************************************************************************)
(* What ARM64's data instructions do, from the instruction set's manual:   *)
(* the reference the translation is compared with.                         *)
(*                                                                         *)
(* A state is [reg, flags, mem, taken].  An instruction is a record with   *)
(* op and width c, destination d, first operand n and second operand m     *)
(*    [k |-> "reg", r], [k |-> "imm", v, lsl], [k |-> "shift", r, by, n]   *)
(* or, for a load or store, a width, an extension and an address           *)
(*    [k |-> "off" | "pre" | "post", base, imm], [k |-> "ext", base, r,    *)
(*    by, n], [k |-> "literal"].                                           *)
(***************************************************************************)
EXTENDS Words

Rg(r)        == [k |-> "reg", r |-> r]
Im(v)        == [k |-> "imm", v |-> v, lsl |-> 0]
Sh(r, by, n) == [k |-> "shift", r |-> r, by |-> by, n |-> n]

Read(s, c, r)     == IF r = "xzr" THEN 0 ELSE Low(c, s.reg[r])
Write(s, c, r, v) == IF r = "xzr" THEN s ELSE [s EXCEPT !.reg[r] = Low(c, v)]

Extended(s, c, r, by, n) ==
    LET v(w) == Read(s, w, r)
    IN  CASE by \in {"LSL", "none"} -> v(c) * Pow2(n)
          [] by = "LSR"  -> Shift("shr", c, v(c), n)
          [] by = "ASR"  -> Shift("sar", c, v(c), n)
          [] by = "UXTB" -> v("b") * Pow2(n)              [] by = "SXTB" -> Signed("b", v("b")) * Pow2(n)
          [] by = "UXTH" -> v("h") * Pow2(n)              [] by = "SXTH" -> Signed("h", v("h")) * Pow2(n)
          [] by = "UXTW" -> v("w") * Pow2(n)              [] by = "SXTW" -> Signed("w", v("w")) * Pow2(n)
          [] by \in {"UXTX", "SXTX"} -> v(c) * Pow2(n)

Second(s, c, m) ==
    Low(c, CASE m.k = "reg"   -> Read(s, c, m.r)
             [] m.k = "imm"   -> m.v * Pow2(m.lsl)
             [] m.k = "shift" -> Extended(s, c, m.r, m.by, m.n))

(* ARM's carry after a subtraction says that nothing was borrowed. *)
ArmSubFlags(c, a, b) == [SubFlags(c, a, b) EXCEPT !.c = 1 - @]

Condition(cc, f) ==
    CASE cc = "EQ" -> f.z = 1    [] cc = "NE" -> f.z = 0
      [] cc = "CS" -> f.c = 1    [] cc = "CC" -> f.c = 0
      [] cc = "MI" -> f.n = 1    [] cc = "PL" -> f.n = 0
      [] cc = "VS" -> f.v = 1    [] cc = "VC" -> f.v = 0
      [] cc = "HI" -> f.c = 1 /\ f.z = 0
      [] cc = "LS" -> f.c = 0 \/ f.z = 1
      [] cc = "GE" -> f.n = f.v  [] cc = "LT" -> f.n # f.v
      [] cc = "GT" -> f.z = 0 /\ f.n = f.v
      [] cc = "LE" -> f.z = 1 \/ f.n # f.v
      [] cc \in {"AL", "NV"} -> TRUE

(* Rounded towards zero; division by zero gives zero. *)
ArmQuotient(a, b) ==
    LET abs(v) == IF v < 0 THEN -v ELSE v
        q == abs(a) \div abs(b)
    IN  IF b = 0 THEN 0 ELSE IF (a < 0) = (b < 0) THEN q ELSE -q

Adding      == {"ADD", "ADDS", "CMN"}
FlagSetters == {"ADDS", "SUBS", "CMP", "CMN", "CCMP"}
Loads  == {"LDR", "LDRB", "LDRSB", "LDRH", "LDRSH", "LDRSW"}
Stores == {"STR", "STRB", "STRH"}
MemoryOps == Loads \cup Stores \cup {"LDP", "STP"}
Branches == {"B.cond", "CBZ", "CBNZ", "TBZ", "TBNZ"}

(* The value an arithmetic or logic instruction writes. *)
Result(s, i) ==
    LET c == i.c
        a == Read(s, c, i.n)
        b == Second(s, c, i.m)
    IN
    CASE i.op \in {"ADD", "ADDS"} -> a + b
      [] i.op \in {"SUB", "SUBS"} -> a - b
      [] i.op = "AND"  -> Combine("and", a, b)
      [] i.op = "ORR"  -> Combine("or", a, b)
      [] i.op = "EOR"  -> Combine("xor", a, b)
      [] i.op = "BIC"  -> Combine("and", a, Complement(c, b))
      [] i.op = "LSL"  -> Shift("shl", c, a, b % Bits[c])
      [] i.op = "LSR"  -> Shift("shr", c, a, b % Bits[c])
      [] i.op = "ASR"  -> Shift("sar", c, a, b % Bits[c])
      [] i.op \in {"MOV", "ADRP"} -> b
      [] i.op = "MOVK" -> LET field == (Pow2(Bits["h"]) - 1) * Pow2(i.m.lsl)
                          IN  Combine("and", Read(s, c, i.d), Complement(c, field)) + b
      [] i.op \in {"SXTB", "SXTH", "SXTW", "UXTB", "UXTH"} -> Extended(s, c, i.n, i.op, 0)
      [] i.op = "UDIV" -> ArmQuotient(a, b)
      [] i.op = "SDIV" -> ArmQuotient(Signed(c, a), Signed(c, b))
      [] i.op = "MADD" -> a * b + Read(s, c, i.a)
      [] i.op = "UBFIZ" -> (a % Pow2(i.width)) * Pow2(i.lsb)
      [] i.op = "CSEL" -> IF Condition(i.cond, s.flags) THEN a ELSE b
      [] i.op = "CSET" -> Bit(Condition(i.cond, s.flags))

Compare(s, i, op) ==
    LET a == Read(s, i.c, i.n)
        b == Second(s, i.c, i.m)
    IN  IF op \in Adding THEN AddFlags(i.c, a, b) ELSE ArmSubFlags(i.c, a, b)

------------------------------------------------------------------------------
(* Loads and stores *)

Size(i) == CASE i.op \in {"LDRB", "LDRSB", "STRB"} -> "b"
             [] i.op \in {"LDRH", "LDRSH", "STRH"} -> "h"
             [] i.op = "LDRSW" -> "w"
             [] OTHER -> i.c

ArmAddress(s, m) ==
    Low("x", s.reg[m.base] + CASE m.k = "off"  -> m.imm
                               [] m.k = "pre"  -> m.imm
                               [] m.k = "post" -> 0
                               [] m.k = "ext"  -> Extended(s, "x", m.r, m.by, m.n))

Loaded(s, i, a) ==
    LET v == Low(Size(i), Load(s.mem, a))
    IN  IF i.op \in {"LDRSB", "LDRSH", "LDRSW"} THEN Signed(Size(i), v) ELSE v

WriteBack(s, m) ==
    IF m.k \in {"pre", "post"} THEN [s EXCEPT !.reg[m.base] = Low("x", @ + m.imm)] ELSE s

Transfer(s, i) ==
    LET a == ArmAddress(s, i.m)
        b == Low("x", a + Bytes[i.c])
        src(r) == Read(s, i.c, r)
    IN
    CASE i.op \in Loads  -> Write(WriteBack(s, i.m), i.c, i.d, Loaded(s, i, a))
      [] i.op \in Stores -> [WriteBack(s, i.m) EXCEPT !.mem = Store(@, a, Size(i), src(i.d))]
      [] i.op = "LDP"    -> Write(Write(WriteBack(s, i.m), i.c, i.d, Load(s.mem, a)), i.c, i.d2, Load(s.mem, b))
      [] i.op = "STP"    -> [WriteBack(s, i.m) EXCEPT
                               !.mem = Store(Store(@, a, i.c, src(i.d)), b, i.c, src(i.d2))]

ArmStep(s, i) ==
    CASE i.op \in MemoryOps -> Transfer(s, i)
      [] i.op \in {"CMP", "CMN"} -> [s EXCEPT !.flags = Compare(s, i, i.op)]
      [] i.op = "CCMP" -> [s EXCEPT !.flags = IF Condition(i.cond, s.flags) THEN Compare(s, i, "CMP") ELSE i.nzcv]
      [] i.op \in {"ADDS", "SUBS"} -> [Write(s, i.c, i.d, Result(s, i)) EXCEPT !.flags = Compare(s, i, i.op)]
      [] i.op = "B.cond" -> [s EXCEPT !.taken = Condition(i.cond, s.flags)]
      [] i.op \in {"CBZ", "CBNZ"} -> [s EXCEPT !.taken = (Read(s, i.c, i.n) = 0) = (i.op = "CBZ")]
      [] i.op \in {"TBZ", "TBNZ"} ->
            [s EXCEPT !.taken = ((Read(s, i.c, i.n) \div Pow2(i.bit)) % 2 = 0) = (i.op = "TBZ")]
      [] OTHER -> Write(s, i.c, i.d, Result(s, i))
==============================================================================
