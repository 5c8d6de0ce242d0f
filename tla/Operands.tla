------------------------------- MODULE Operands -------------------------------
(***************************************************************************)
(* How translated instructions name guest registers (register.rs), and the *)
(* sequences every translation is put together from (instr_utils.rs).      *)
(*                                                                         *)
(* A guest register has a home: a native register, a cell of ExecCtx, or,  *)
(* for xzr, nothing.  A sequence that puts xzr into an instruction as an   *)
(* operand, or needs a width the encoder has no form for, panics: the      *)
(* translator stops the process, whether or not the guest would have       *)
(* reached the instruction.                                                *)
(***************************************************************************)
EXTENDS NativeCode, SequencesExt

Direct == [x0 |-> "rdi", x1 |-> "rsi", x2 |-> "rdx", x3 |-> "rcx", x4 |-> "r8", x5 |-> "r9",
           x19 |-> "rbx", x20 |-> "r12", x21 |-> "r13", x22 |-> "r14", x23 |-> "r10",
           x29 |-> "rbp", x30 |-> "r11", sp |-> "rsp"]

translate_reg(r) == IF r \in DOMAIN Direct THEN R(Direct[r])
                    ELSE IF r = "xzr" THEN [k |-> "zero"] ELSE Cell(r)

is_indirect(t) == t.k \in {"cell", "zero"}

reg_operand(t) == IF t.k = "reg" THEN t ELSE RAX

pre_read(t, c) == CASE t.k = "reg"  -> <<>>
                    [] t.k = "cell" -> <<I("mov", c, RAX, t)>>
                    [] t.k = "zero" -> <<I("xor", "w", RAX, RAX)>>

post_write(t, c) == IF t.k = "cell" THEN <<I("mov", c, t, RAX)>> ELSE <<>>

(* Sequences that stop translating: the process, or this instruction. *)
panic  == <<[op |-> "panic"]>>
refuse == <<[op |-> "refuse"]>>

(* set_operand has no form for xzr. *)
Unencodable(i) == \/ i.op = "panic"
                  \/ \E f \in {"to", "from", "by"} \cap DOMAIN i : i[f] = [k |-> "zero"]

Refused(code) == \E j \in DOMAIN code : code[j].op = "refuse"
Panics(code)  == \E j \in DOMAIN code : Unencodable(code[j]) /\ ~Refused(SubSeq(code, 1, j))

------------------------------------------------------------------------------
(* Two-operand sequences *)

make_rr_impl(op, c, dest, src, reads, writes) ==
    IF dest.k = "cell" /\ src.k = "cell"
      THEN (IF reads THEN pre_read(dest, c) ELSE <<>>)
             \o <<I(op, c, RAX, src)>>
             \o (IF writes THEN post_write(dest, c) ELSE <<>>)
      ELSE <<I(op, c, dest, src)>>

make_rr(op, c, dest, src) == make_rr_impl(op, c, dest, src, TRUE, TRUE)

(* Faulty: has no case for xzr. *)
MovWithoutZero(c, dest, src) == make_rr_impl("mov", c, dest, src, FALSE, TRUE)

make_mov_rr(c, dest, src) ==
    IF src.k = "zero" THEN make_rr("xor", c, dest, dest)
    ELSE make_rr_impl("mov", c, dest, src, FALSE, TRUE)

(* Faulty: compares the other way round. *)
CmpSwapped(c, a, b) == make_rr_impl("cmp", c, b, a, TRUE, FALSE)

make_cmp_rr(c, a, b) == make_rr_impl("cmp", c, a, b, TRUE, FALSE)

(* The immediate has 32 bits and is sign-extended. *)
make_ri(op, c, reg, imm) == <<I(op, c, reg, N(Signed("w", imm)))>>

make_mov_ri64(dest, imm) == <<I("mov", "x", reg_operand(dest), N(imm))>> \o post_write(dest, "x")

------------------------------------------------------------------------------
(* Three-operand sequences *)

make_rrr(op, c, dest, src1, src2) ==
    IF dest = src1 THEN make_rr(op, c, dest, src2)
    ELSE <<I("mov", c, reg_operand(dest), src1), I(op, c, reg_operand(dest), src2)>> \o post_write(dest, c)

make_rri(op, c, dest, src, imm) ==
    IF dest = src THEN make_ri(op, c, dest, imm)
    ELSE <<I("mov", c, reg_operand(dest), src)>> \o make_ri(op, c, reg_operand(dest), imm) \o post_write(dest, c)

(* The second operand's extension or shift; sh is [by, n]. *)
Narrow   == [UXTB |-> "b", SXTB |-> "b", UXTH |-> "h", SXTH |-> "h", UXTW |-> "w", SXTW |-> "w"]
SignKind == {"SXTB", "SXTH", "SXTW", "SXTX"}

load_shifted(dest, c, src, src_c, sh) ==
    LET from == IF sh.by \in DOMAIN Narrow THEN Narrow[sh.by] ELSE src_c
        mov  == Iw(IF sh.by \in SignKind THEN "movsx" ELSE "movzx", c, dest, src, from)
        shl  == CASE sh.by = "LSR" -> "shr" [] sh.by = "ASR" -> "sar" [] OTHER -> "shl"
    IN  IF sh.by \in {"ROR", "MSL"} THEN refuse
        ELSE IF sh.n = 0 THEN <<mov>> ELSE <<mov, I(shl, c, dest, N(sh.n))>>

(* A register to borrow.  The blockers are compared with their width, and  *)
(* the candidates are 64 bits wide.                                        *)
get_alt_reg(blockers, c) ==
    LET blocked == {r \in {"r10", "r9", "r14"} : c = "x" /\ R(r) \in blockers}
    IN  R(CHOOSE r \in {"r10", "r9", "r14"} \ blocked :
            r = "r10" \/ ("r10" \in blocked /\ (r = "r9" \/ "r9" \in blocked)))
==============================================================================
