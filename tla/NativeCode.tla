------------------------------ MODULE NativeCode ------------------------------
(***************************************************************************)
(* The x86-64 processor, as far as translated data instructions use it.    *)
(*                                                                         *)
(* A state is [reg, cell, mem, flags, stack, skip, fault, taken]: the      *)
(* registers, the cells of ExecCtx (at r15), memory, the flags, what the   *)
(* sequence pushed, the instructions a short jump still passes over,       *)
(* whether the processor trapped, and whether control left for the target  *)
(* of the guest's branch.                                                  *)
(***************************************************************************)
EXTENDS Words

R(r)    == [k |-> "reg", at |-> r]                     \* a register
Cell(r) == [k |-> "cell", at |-> r]                    \* guest register r in ExecCtx
N(n)    == [k |-> "imm", at |-> n]                     \* a constant, sign-extended
M(r, d) == [k |-> "mem", at |-> r, disp |-> d]         \* memory at r + d

I(op, c, to, from)      == [op |-> op, c |-> c, to |-> to, from |-> from]
I3(op, c, to, from, by) == [op |-> op, c |-> c, to |-> to, from |-> from, by |-> by]

(* ... with the width of the operand, a condition, or flags. *)
Iw(op, c, to, from, arg) == [op |-> op, c |-> c, to |-> to, from |-> from, arg |-> arg]

RAX == R("rax")
RDX == R("rdx")
RSP == R("rsp")

Address(s, o) == Low("x", s.reg[o.at] + o.disp)

Get(s, c, o) ==
    Low(c, CASE o.k = "reg"  -> s.reg[o.at]
             [] o.k = "cell" -> s.cell[o.at]
             [] o.k = "imm"  -> o.at
             [] o.k = "mem"  -> Load(s.mem, Address(s, o)))

(* A 32-bit write clears the upper half of a register, but not of a cell. *)
Insert(c, old, v) == old - Low(c, old) + Low(c, v)

Put(s, c, o, v) ==
    CASE o.k = "reg"  -> [s EXCEPT !.reg[o.at] = IF c \in {"w", "x"} THEN Low(c, v) ELSE Insert(c, @, v)]
      [] o.k = "cell" -> [s EXCEPT !.cell[o.at] = Insert(c, @, v)]
      [] o.k = "mem"  -> [s EXCEPT !.mem = Store(@, Address(s, o), c, v)]

AluOps == {"add", "sub", "and", "or", "xor"}

Alu(op, a, b) ==
    CASE op = "add" -> a + b
      [] op = "sub" -> a - b
      [] OTHER      -> Combine(op, a, b)

AluFlags(op, c, a, b) ==
    CASE op = "add" -> AddFlags(c, a, b)
      [] op = "sub" -> SubFlags(c, a, b)
      [] OTHER      -> Flags(c, Alu(op, a, b), 0, 0)

NoFlags == [z |-> Undef, n |-> Undef, c |-> Undef, v |-> Undef]

Holds(cc, f) ==
    CASE cc = "e"  -> f.z = 1    [] cc = "ne" -> f.z = 0
      [] cc = "s"  -> f.n = 1    [] cc = "ns" -> f.n = 0
      [] cc = "o"  -> f.v = 1    [] cc = "no" -> f.v = 0
      [] cc = "b"  -> f.c = 1    [] cc = "ae" -> f.c = 0
      [] cc = "be" -> f.c = 1 \/ f.z = 1
      [] cc = "a"  -> f.c = 0 /\ f.z = 0
      [] cc = "l"  -> f.n # f.v  [] cc = "ge" -> f.n = f.v
      [] cc = "le" -> f.z = 1 \/ f.n # f.v
      [] cc = "g"  -> f.z = 0 /\ f.n = f.v
      [] cc = "always" -> TRUE

(* Division of rdx:rax; a quotient that does not fit traps. *)
Quotient(signed, c, hi, lo, by) ==
    LET wide == hi * Mod[c] + lo
        n    == IF signed /\ hi >= Mod[c] \div 2 THEN wide - Mod[c] * Mod[c] ELSE wide
        d    == IF signed THEN Signed(c, by) ELSE by
        abs(v) == IF v < 0 THEN -v ELSE v
        q    == abs(n) \div abs(d)
    IN  IF (n < 0) = (d < 0) THEN q ELSE -q

Fits(signed, c, q) ==
    IF signed THEN -(Mod[c] \div 2) <= q /\ q < Mod[c] \div 2 ELSE 0 <= q /\ q < Mod[c]

Divide(s, signed, c, by) ==
    LET q == Quotient(signed, c, Get(s, c, RDX), Get(s, c, RAX), by)
    IN  IF by = 0 \/ ~Fits(signed, c, q) THEN [s EXCEPT !.fault = TRUE]
        ELSE [Put(s, c, RAX, q) EXCEPT !.flags = NoFlags]

Multiply(s, c, by) ==
    LET p == Get(s, c, RAX) * by
    IN  [Put(Put(s, c, RAX, p), c, RDX, p \div Mod[c]) EXCEPT !.flags = NoFlags]

(* The effect of one instruction. *)
Effect(s, i) ==
    LET a   == Get(s, i.c, i.to)
        b   == Get(s, i.c, i.from)
        by  == Get(s, i.c, i.by)
        top == Len(s.stack)
    IN
    CASE i.op = "mov"    -> Put(s, i.c, i.to, b)
      [] i.op \in AluOps -> [Put(s, i.c, i.to, Alu(i.op, a, b)) EXCEPT !.flags = AluFlags(i.op, i.c, a, b)]
      [] i.op = "cmp"    -> [s EXCEPT !.flags = SubFlags(i.c, a, b)]
      [] i.op = "bt"     -> [s EXCEPT !.flags = [@ EXCEPT !.c = (a \div Pow2(i.from.at)) % 2, !.n = Undef, !.v = Undef]]
      [] i.op = "movzx"  -> Put(s, i.c, i.to, Get(s, i.arg, i.from))
      [] i.op = "movsx"  -> Put(s, i.c, i.to, Signed(i.arg, Get(s, i.arg, i.from)))
      [] i.op = "lea"    -> Put(s, i.c, i.to, b + by)
      [] i.op \in {"shl", "shr", "sar"} ->      \* by zero: keeps the flags
            LET v == Shift(i.op, i.c, a, i.from.at)
            IN  [Put(s, i.c, i.to, v) EXCEPT !.flags = IF i.from.at = 0 THEN @ ELSE Flags(i.c, v, Undef, Undef)]
      [] i.op = "shlx"   -> Put(s, i.c, i.to, Shift("shl", i.c, b, by % Bits[i.c]))
      [] i.op = "shrx"   -> Put(s, i.c, i.to, Shift("shr", i.c, b, by % Bits[i.c]))
      [] i.op = "sarx"   -> Put(s, i.c, i.to, Shift("sar", i.c, b, by % Bits[i.c]))
      [] i.op = "andn"   -> LET v == Combine("and", Complement(i.c, b), by)
                            IN  [Put(s, i.c, i.to, v) EXCEPT !.flags = Flags(i.c, v, 0, 0)]
      [] i.op = "bzhi"   -> LET v == b % Pow2(by)
                            IN  [Put(s, i.c, i.to, v) EXCEPT !.flags = Flags(i.c, v, Undef, 0)]
      [] i.op = "cmov"   -> Put(s, i.c, i.to, IF Holds(i.arg, s.flags) THEN b ELSE Get(s, i.c, i.to))
      [] i.op = "setcc"  -> Put(s, "b", i.to, Bit(Holds(i.arg, s.flags)))
      [] i.op = "skip"   -> [s EXCEPT !.skip = IF Holds(i.arg, s.flags) THEN i.from.at ELSE 0]
      [] i.op = "leave"  -> [s EXCEPT !.taken = TRUE]
      [] i.op = "popf"   -> [s EXCEPT !.flags = i.arg]
      [] i.op = "push"   -> [s EXCEPT !.stack = Append(@, b), !.reg["rsp"] = Low("x", @ - Bytes["x"])]
      [] i.op = "pop"    -> [Put(s, "x", i.to, s.stack[top])
                               EXCEPT !.stack = SubSeq(@, 1, top - 1), !.reg["rsp"] = Low("x", @ + Bytes["x"])]
      [] i.op = "cdq"    -> Put(s, "w", RDX, IF Signed("w", s.reg["rax"]) < 0 THEN -1 ELSE 0)
      [] i.op = "mul"    -> Multiply(s, i.c, b)
      [] i.op = "div"    -> Divide(s, FALSE, i.c, b)
      [] i.op = "idiv"   -> Divide(s, TRUE, i.c, b)

Exec(s, i) ==
    IF s.fault \/ s.taken THEN s
    ELSE IF s.skip > 0 THEN [s EXCEPT !.skip = @ - 1]
    ELSE Effect(s, i)

Run(s, code) ==
    LET after[n \in 0 .. Len(code)] == IF n = 0 THEN s ELSE Exec(after[n - 1], code[n])
    IN  after[Len(code)]
==============================================================================
