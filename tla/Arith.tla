-------------------------------- MODULE Arith --------------------------------
(***************************************************************************)
(* The translation of arithmetic and logic instructions (arith.rs), and of *)
(* the conditions of branches (branch.rs), as sequences of NativeCode.     *)
(* Instructions are the records of ArmData.                                *)
(***************************************************************************)
EXTENDS Operands

LOCAL T(r) == translate_reg(r)

(* A condition as the x86 condition of jcc and setcc, and of cmov. *)
jcc_cc == [EQ |-> "e", NE |-> "ne", LT |-> "l", GE |-> "ge", GT |-> "g", LE |-> "le",
           CC |-> "ae", CS |-> "b", HI |-> "a", LS |-> "be", VC |-> "no", VS |-> "o",
           MI |-> "s", PL |-> "ns", AL |-> "always", NV |-> "always"]

cmov_cc == [jcc_cc EXCEPT !.CS = "ae", !.CC = "b"]

inverse_condition ==
    [MI |-> "PL", PL |-> "MI", EQ |-> "NE", NE |-> "EQ", VS |-> "VC", VC |-> "VS",
     CS |-> "CC", CC |-> "CS", HI |-> "LS", LS |-> "HI", GE |-> "LT", LT |-> "GE",
     GT |-> "LE", LE |-> "GT", AL |-> "NV", NV |-> "AL"]

(* Jump over n instructions if cond holds. *)
make_jcc(cond, n) == <<Iw("skip", "x", RAX, N(n), jcc_cc[cond])>>

(* The far jump of a branch, jumped over when its condition does not hold. *)
make_branch_to_label(cond) == make_jcc(inverse_condition[cond], 1) \o <<[op |-> "leave"]>>

------------------------------------------------------------------------------

translate_add_sub(i, sets) ==
    LET c    == i.c
        d    == T(i.d)
        s1   == T(i.n)
        sub  == i.op \in {"SUB", "SUBS"}
        op   == IF sub THEN "sub" ELSE "add"
        dest == reg_operand(d)
    IN
    CASE i.m.k = "shift" ->
            load_shifted(dest, c, T(i.m.r), c, i.m) \o make_rr(op, c, dest, s1) \o post_write(d, c)
      [] i.m.k = "reg" ->
            LET s2 == T(i.m.r)
            IN  IF sub \/ sets \/ (is_indirect(s1) /\ is_indirect(s2))
                  THEN make_rrr(op, c, d, s1, s2)
                  ELSE pre_read(s1, c) \o pre_read(s2, c)
                         \o <<I3("lea", c, dest, reg_operand(s1), reg_operand(s2))>> \o post_write(d, c)
      [] i.m.k = "imm" ->
            IF i.m.lsl # 0 THEN refuse
            ELSE IF sub \/ sets THEN make_rri(op, c, d, s1, i.m.v)
            ELSE pre_read(s1, c) \o <<I3("lea", c, dest, reg_operand(s1), N(i.m.v))>> \o post_write(d, c)

translate_shift(i) ==
    LET c  == i.c
        d  == T(i.d)
        op == CASE i.op = "ASR" -> "sar" [] i.op = "LSL" -> "shl" [] i.op = "LSR" -> "shr"
        vex == [sar |-> "sarx", shl |-> "shlx", shr |-> "shrx"]
    IN
    CASE i.m.k = "reg" ->
            pre_read(T(i.m.r), c)
              \o <<I3(vex[op], c, reg_operand(d), T(i.n), reg_operand(T(i.m.r)))>> \o post_write(d, c)
      [] i.m.k = "imm" -> <<I(op, c, d, N(i.m.v))>>

translate_cmp_cmn(i) ==
    LET c  == i.c
        s1 == T(i.n)
    IN
    CASE i.m.k = "reg" ->
            IF i.op = "CMP" THEN make_cmp_rr(c, s1, T(i.m.r))
            ELSE make_mov_rr(c, RAX, s1) \o make_rr("add", c, RAX, T(i.m.r))
      [] i.m.k = "imm" ->
            IF i.op = "CMP" THEN make_ri("cmp", c, s1, i.m.v)
            ELSE make_mov_rr(c, RAX, s1) \o make_ri("add", c, RAX, i.m.v)
      [] i.m.k = "shift" -> panic

(* Faulty: leaves what rdx held above an unsigned dividend. *)
DivWithoutClear(i) ==
    LET c == i.c
        signed == i.op = "SDIV"
    IN  <<I("push", "x", RSP, RDX)>> \o make_mov_rr(c, RAX, T(i.n))
          \o (IF signed THEN <<[op |-> "cdq", c |-> "w"]>> ELSE <<>>)
          \o <<I(IF signed THEN "idiv" ELSE "div", c, RAX, T(i.m.r))>>
          \o make_mov_rr(c, T(i.d), RAX) \o <<I("pop", "x", RDX, RSP)>>

translate_div(i) ==
    LET c == i.c
        signed == i.op = "SDIV"
    IN  <<I("push", "x", RSP, RDX)>>
          \o make_mov_rr(c, RAX, T(i.n))
          \o (IF signed THEN <<[op |-> "cdq", c |-> "w"]>> ELSE <<I("xor", "w", RDX, RDX)>>)
          \o <<I(IF signed THEN "idiv" ELSE "div", c, RAX, T(i.m.r))>>
          \o make_mov_rr(c, T(i.d), RAX)
          \o <<I("pop", "x", RDX, RSP)>>

(* Different: adds the addend. *)
MaddAddend(i) ==
    LET c == i.c
    IN  <<I("push", "x", RSP, RDX)>>
          \o make_mov_rr(c, RAX, T(i.n))
          \o <<I("mul", c, RAX, T(i.m.r))>> \o make_rr("add", c, RAX, T(i.a))
          \o make_mov_rr(c, T(i.d), RAX)
          \o <<I("pop", "x", RDX, RSP)>>

(* The addend is read from operand 2, which is the multiplier. *)
translate_madd(i) ==
    LET c == i.c
    IN  <<I("push", "x", RSP, RDX)>>
          \o make_mov_rr(c, RAX, T(i.n))
          \o <<I("mul", c, RAX, T(i.m.r)), I("add", c, RAX, T(i.m.r))>>
          \o make_mov_rr(c, T(i.d), RAX)
          \o <<I("pop", "x", RDX, RSP)>>

translate_csel(i) ==
    make_mov_rr(i.c, RAX, T(i.m.r))
      \o <<Iw("cmov", i.c, RAX, T(i.n), cmov_cc[i.cond])>>
      \o make_mov_rr(i.c, T(i.d), RAX)

(* nzcv goes into the flags of the same names; zero by adding 1 to 0. *)
set_flags(nzcv) ==
    IF nzcv = [n |-> 0, z |-> 0, c |-> 0, v |-> 0]
      THEN <<I("mov", "w", RAX, N(0)), I("add", "w", RAX, N(1))>>
      ELSE <<Iw("popf", "x", RAX, RAX, nzcv)>>

translate_ccmp(i) ==
    LET otherwise == set_flags(i.nzcv)
        compare   == IF i.m.k = "reg" THEN make_cmp_rr(i.c, T(i.n), T(i.m.r))
                     ELSE make_ri("cmp", i.c, T(i.n), i.m.v)
    IN  make_jcc(i.cond, Len(otherwise) + 1) \o otherwise
          \o <<Iw("skip", "x", RAX, N(Len(compare)), "always")>> \o compare

(* Writes 32 bits, whatever the width of the register. *)
make_setcc(cond, d) ==
    LET al == IF cond \in {"AL", "NV"} THEN I("mov", "b", RAX, N(1))
              ELSE Iw("setcc", "b", RAX, RAX, jcc_cc[cond])
    IN  <<al>> \o CASE d.k = "reg"  -> <<Iw("movzx", "w", d, RAX, "b")>>
                    [] d.k = "cell" -> <<Iw("movzx", "w", RAX, RAX, "b"), I("mov", "w", d, RAX)>>
                    [] d.k = "zero" -> panic

translate_logical(i, op) ==
    LET d  == T(i.d)
        s1 == T(i.n)
    IN
    CASE i.m.k = "reg" -> make_rrr(op, i.c, d, s1, T(i.m.r))
      [] i.m.k = "imm" ->
            (IF d # s1 THEN make_mov_rr(i.c, d, s1) ELSE <<>>)
              \o <<I("mov", "x", RAX, N(i.m.v))>> \o make_rr(op, i.c, d, RAX)
      [] i.m.k = "shift" -> panic

translate_ubfiz(i) ==
    LET d == T(i.d)
    IN  <<I("mov", "w", RAX, N(i.width)),
          I3("bzhi", i.c, reg_operand(d), T(i.n), RAX),
          I("shl", i.c, reg_operand(d), N(i.lsb))>> \o post_write(d, i.c)

translate_mov(i) ==
    IF i.m.k = "reg" THEN make_mov_rr(i.c, T(i.d), T(i.m.r)) ELSE make_ri("mov", i.c, T(i.d), i.m.v)

(* Clear 16 bits and put others there; beyond bit 16 through 64-bit constants. *)
translate_movk(i) ==
    LET imm  == i.m.v * Pow2(i.m.lsl)
        mask == Complement("x", (Pow2(Bits["h"]) - 1) * Pow2(i.m.lsl))
        d    == T(i.d)
    IN  IF i.m.lsl > Bits["h"]
          THEN <<I("mov", "x", RAX, N(mask)), I("and", "x", d, RAX),
                 I("mov", "x", RAX, N(imm)),  I("or", "x", d, RAX)>>
          ELSE make_ri("and", i.c, d, mask) \o make_ri("or", i.c, d, imm)

translate_extend(i) ==
    LET d  == T(i.d)
        sh == [by |-> i.op, n |-> 0]
    IN  CASE d.k = "reg"  -> load_shifted(d, i.c, T(i.n), i.c, sh)
          [] d.k = "cell" -> load_shifted(RAX, i.c, T(i.n), i.c, sh) \o make_mov_rr(i.c, d, RAX)
          [] d.k = "zero" -> panic

translate_bic(i) ==
    LET d  == T(i.d)
        s2 == T(i.m.r)
    IN  IF i.m.k # "reg" THEN panic
        ELSE pre_read(s2, i.c) \o <<I3("andn", i.c, reg_operand(d), reg_operand(s2), T(i.n))>> \o post_write(d, i.c)

handle_cbz_cbnz(i) ==
    <<I("cmp", i.c, T(i.n), N(0))>> \o make_branch_to_label(IF i.op = "CBZ" THEN "EQ" ELSE "NE")

(* bt copies the bit to the carry. *)
handle_tbz_tbnz(i) ==
    <<I("bt", i.c, T(i.n), N(i.bit))>> \o make_branch_to_label(IF i.op = "TBZ" THEN "CC" ELSE "CS")

compile_arith(i) ==
    CASE i.op \in {"CMP", "CMN"}        -> translate_cmp_cmn(i)
      [] i.op = "MOV"                   -> translate_mov(i)
      [] i.op = "AND"                   -> translate_logical(i, "and")
      [] i.op = "ORR"                   -> translate_logical(i, "or")
      [] i.op = "EOR"                   -> translate_logical(i, "xor")
      [] i.op = "MOVK"                  -> translate_movk(i)
      [] i.op = "ADRP"                  -> make_mov_ri64(T(i.d), i.m.v)
      [] i.op \in {"ADD", "SUB"}        -> translate_add_sub(i, FALSE)
      [] i.op \in {"ADDS", "SUBS"}      -> translate_add_sub(i, TRUE)
      [] i.op \in {"ASR", "LSR", "LSL"} -> translate_shift(i)
      [] i.op \in {"SXTW", "SXTH", "SXTB", "UXTH", "UXTB"} -> translate_extend(i)
      [] i.op \in {"UDIV", "SDIV"}      -> translate_div(i)
      [] i.op = "MADD"                  -> translate_madd(i)
      [] i.op = "CSEL"                  -> translate_csel(i)
      [] i.op = "CCMP"                  -> translate_ccmp(i)
      [] i.op = "CSET"                  -> make_setcc(i.cond, T(i.d))
      [] i.op = "BIC"                   -> translate_bic(i)
      [] i.op = "UBFIZ"                 -> translate_ubfiz(i)

compile_branch(i) ==
    CASE i.op = "B.cond"           -> make_branch_to_label(i.cond)
      [] i.op \in {"CBZ", "CBNZ"}  -> handle_cbz_cbnz(i)
      [] i.op \in {"TBZ", "TBNZ"}  -> handle_tbz_tbnz(i)
==============================================================================
