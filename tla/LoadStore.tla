------------------------------ MODULE LoadStore ------------------------------
(***************************************************************************)
(* The translation of loads and stores of integer registers                *)
(* (load_store.rs): the address goes into the base's own register, into    *)
(* rax, or, when rax is taken by the data, into a borrowed register that   *)
(* is pushed before and popped after.                                      *)
(***************************************************************************)
EXTENDS Operands

LOCAL T(r) == translate_reg(r)

(* code: what is emitted before the transfer; the rest is AddrModeInfo. *)
process_addr_mode(m, c, data) ==
    LET base      == T(m.base)
        ext       == m.k = "ext"
        scratch   == ext \/ is_indirect(base)
        alternate == \E t \in data : is_indirect(t)
        pop       == scratch /\ alternate
        new == IF pop THEN get_alt_reg(data, c) ELSE IF scratch THEN RAX ELSE base
        pushed == IF pop THEN <<I("push", "x", RSP, new)>> ELSE <<>>
        formed == CASE ext /\ m.by # "none" -> load_shifted(new, "x", T(m.r), "x", m) \o make_rr("add", "x", new, base)
                    [] ext /\ m.by = "none" -> make_mov_rr("x", new, T(m.r)) \o make_rr("add", "x", new, base)
                    [] ~ext /\ is_indirect(base) -> make_mov_rr("x", new, base)
                    [] OTHER -> <<>>
        moved  == IF m.k = "pre" THEN <<I("add", "x", new, N(m.imm))>> ELSE <<>>
    IN  [code |-> pushed \o formed \o moved,
         base |-> new,
         home |-> base,
         offset |-> IF m.k = "off" THEN m.imm ELSE 0,
         post |-> IF m.k = "post" THEN <<I("add", "x", new, N(m.imm))>> ELSE <<>>,
         write_back |-> m.k \in {"pre", "post"},
         pop |-> pop]

memory_operand(a, extra) == M(a.base.at, a.offset + extra)

(* Faulty: leaves the borrowed register on the stack. *)
FinalizeUnpopped(a) ==
    a.post \o (IF a.write_back /\ a.home.k = "cell" THEN <<I("mov", "x", a.home, a.base)>> ELSE <<>>)

(* Faulty: saves the base before a post-index is added. *)
FinalizeEarly(a) ==
    (IF a.write_back /\ a.home.k = "cell" THEN <<I("mov", "x", a.home, a.base)>> ELSE <<>>) \o a.post
           \o (IF a.pop THEN <<I("pop", "x", a.base, RSP)>> ELSE <<>>)

finalize_addr_mode(a) ==
    a.post \o (IF a.write_back /\ a.home.k = "cell" THEN <<I("mov", "x", a.home, a.base)>> ELSE <<>>)
           \o (IF a.pop THEN <<I("pop", "x", a.base, RSP)>> ELSE <<>>)

make_store(src, c, size, a, extra) ==
    pre_read(src, c) \o <<I("mov", size, memory_operand(a, extra), reg_operand(src))>>

(* Narrow loads extend to 32 bits; the encoder refuses a 64-bit register. *)
make_load(dest, c, size, signed, a, extra) ==
    LET mem == memory_operand(a, extra)
        to  == reg_operand(dest)
    IN  (CASE size = c                    -> <<I("mov", c, to, mem)>>
           [] size = "w" /\ c = "x"       -> <<Iw("movsx", "x", to, mem, "w")>>
           [] size \in {"b", "h"} /\ c = "w" -> <<Iw(IF signed THEN "movsx" ELSE "movzx", "w", to, mem, size)>>
           [] size \in {"b", "h"} /\ c = "x" -> panic)
          \o post_write(dest, c)

load_store_pair(i) ==
    LET a == process_addr_mode(i.m, i.c, {T(i.d), T(i.d2)})
        gen(r, extra) == IF i.op = "LDP" THEN make_load(T(r), i.c, i.c, FALSE, a, extra)
                         ELSE make_store(T(r), i.c, i.c, a, extra)
    IN  a.code \o gen(i.d, 0) \o gen(i.d2, Bytes[i.c]) \o finalize_addr_mode(a)

load_store(i, load, size, signed) ==
    LET a == process_addr_mode(i.m, i.c, {T(i.d)})
    IN  a.code
          \o (IF load THEN make_load(T(i.d), i.c, size, signed, a, 0) ELSE make_store(T(i.d), i.c, size, a, 0))
          \o finalize_addr_mode(a)

compile_load_store(i) ==
    IF i.m.k = "literal" THEN panic
    ELSE CASE i.op \in {"LDP", "STP"} -> load_store_pair(i)
           [] i.op = "LDR"   -> load_store(i, TRUE, i.c, FALSE)
           [] i.op = "LDRB"  -> load_store(i, TRUE, "b", FALSE)
           [] i.op = "LDRSB" -> load_store(i, TRUE, "b", TRUE)
           [] i.op = "LDRH"  -> load_store(i, TRUE, "h", FALSE)
           [] i.op = "LDRSH" -> load_store(i, TRUE, "h", TRUE)
           [] i.op = "LDRSW" -> load_store(i, TRUE, "w", TRUE)
           [] i.op = "STR"   -> load_store(i, FALSE, i.c, FALSE)
           [] i.op = "STRB"  -> load_store(i, FALSE, "b", FALSE)
           [] i.op = "STRH"  -> load_store(i, FALSE, "h", FALSE)
==============================================================================
