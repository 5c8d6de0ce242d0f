---------------------------- MODULE MCInstructions ----------------------------
(* Instances of Instructions: every instruction over registers with and      *)
(* without a native home, and sequences that set, test and consume flags.    *)
EXTENDS Instructions

MCContent(a) == (a * 37 + 11) % 256

MCGuests == {"x0", "x1", "x2", "x5", "x6", "x7", "x22", "x23", "sp"}

(* x0, x1, x2, x6, x7, then flags n, z, c, v. *)
Rows == {
    << 97,  29, 140, 211,  54,  0, 0, 0, 0>>, << 29,  97, 250, 107, 166,  1, 0, 1, 0>>,
    <<200, 200,  73,  88, 189,  0, 1, 1, 0>>, <<127, 255,   3, 129, 240,  1, 0, 0, 1>>,
    <<128, 255,  18, 136, 255,  0, 0, 1, 1>>, <<136, 239,   5,  66,   2,  1, 1, 0, 0>>,
    <<240,   2,  24, 252,   0,  0, 0, 0, 1>>, <<  5,   0, 161,  15, 120,  0, 1, 0, 1>>,
    << 71,  15,  85,   5, 178,  1, 0, 0, 0>>, <<  2,  90,  90, 103,  68,  0, 0, 1, 0>>,
    <<190,   4,   4,   3,   5,  1, 1, 1, 1>>, <<250, 251,   7, 250, 252,  0, 0, 0, 0>>}

MCValuations == {
    [reg   |-> [x0 |-> r[1], x1 |-> r[2], x2 |-> r[3], x6 |-> r[4], x7 |-> r[5],
                x5 |-> 19, x22 |-> 155, x23 |-> 230, sp |-> 64],
     flags |-> [n |-> r[6], z |-> r[7], c |-> r[8], v |-> r[9]]] : r \in Rows}

Some   == {"x0", "x1", "x6", "x7", "xzr"}     \* two homes, two cells, none
WithX2 == {"x0", "x1", "x2", "x6", "xzr"}
Named(S) == S \ {"xzr"}
Conds  == DOMAIN jcc_cc

Op2(op, c, n, m)       == [op |-> op, c |-> c, n |-> n, m |-> m]
Op3(op, c, d, n, m)    == [op |-> op, c |-> c, d |-> d, n |-> n, m |-> m]

(* The assembler has other names for these; the decoder uses those names. *)
Alias(i) == \/ i.op \in {"ADDS", "SUBS"} /\ i.d = "xzr"
            \/ i.op \in {"SUB", "SUBS", "ORR"} /\ i.n = "xzr"
            \/ i.m.k = "imm" /\ "xzr" \in {i.d, i.n}

ThreeRegs ==
    {i \in {Op3(op, c, d, n, Rg(m)) : op \in {"ADD", "ADDS", "SUB", "SUBS", "AND", "ORR", "EOR", "BIC",
                                              "LSL", "LSR", "ASR"},
                                      c \in Widths, d \in Some, n \in Some, m \in Some} : ~Alias(i)}
ShiftedRegs ==
    {i \in {Op3(op, c, d, n, Sh(m, sh[1], sh[2])) :
               op \in {"ADD", "ADDS", "SUB", "SUBS"}, c \in Widths,
               d \in {"x0", "x6"}, n \in {"x0", "x1", "x6"}, m \in {"x0", "x2", "x7", "xzr"},
               sh \in {<<"LSL", 2>>, <<"LSR", 2>>, <<"ASR", 1>>, <<"UXTB", 2>>, <<"SXTH", 0>>, <<"UXTW", 0>>,
                       <<"SXTX", 1>>}} : i.n # i.m.r}
Consts ==
    {Op3(op, c, d, n, [k |-> "imm", v |-> v, lsl |-> l]) :
        op \in {"ADD", "ADDS", "SUB", "SUBS"}, c \in Widths, d \in Named(Some), n \in Named(Some), v \in {0, 3}, l \in {0, 1}}
    \cup {Op3(op, c, d, n, Im(v)) : op \in {"AND", "ORR", "EOR"}, c \in Widths, d \in Named(Some), n \in Named(Some), v \in {6, 14}}
    \cup {Op3(op, c, d, n, Im(v)) : op \in {"LSL", "LSR", "ASR"}, c \in Widths, d \in Some, n \in Named(Some), v \in {1, 3}}
WithSp ==
    {Op3(op, "x", d, n, Im(3)) : op \in {"ADD", "ADDS", "SUB", "SUBS"}, d \in {"x0", "x6", "sp"}, n \in {"x0", "x6", "sp"}}
    \cup {Op3("AND", "x", "sp", n, Im(14)) : n \in Some} \cup {Op2(op, "x", "sp", Im(3)) : op \in {"CMP", "CMN"}}
    \cup {Op3("MOV", "x", d, "xzr", Rg("sp")) : d \in {"x0", "x6"}} \cup {Op3("MOV", "x", "sp", "xzr", Rg(r)) : r \in Some}
Moves ==
    {Op3("MOV", c, d, "xzr", Rg(m)) : c \in Widths, d \in Some, m \in Some}
    \cup {Op3("MOV", "x", d, "xzr", Im(v)) : d \in Some, v \in {5, 12, 48, 192, 250}}
    \cup {Op3("MOV", "w", d, "xzr", Im(v)) : d \in Some, v \in {5, 12}}
    \cup {Op3("MOVK", "x", d, "xzr", [k |-> "imm", v |-> v, lsl |-> l]) : d \in Some, v \in {1, 2}, l \in {0, 2, 4, 6}}
    \cup {Op3("MOVK", "w", d, "xzr", [k |-> "imm", v |-> v, lsl |-> l]) : d \in Some, v \in {1, 2}, l \in {0, 2}}
    \cup {Op3("ADRP", "x", d, "xzr", Im(200)) : d \in Some}
    \cup {Op3(op, "x", d, n, Im(0)) : op \in {"SXTB", "SXTH", "SXTW"}, d \in Some, n \in Some}
    \cup {Op3(op, "w", d, n, Im(0)) : op \in {"SXTB", "SXTH", "UXTB", "UXTH"}, d \in Some, n \in Some}
Products ==
    {Op3(op, c, d, n, Rg(m)) : op \in {"UDIV", "SDIV"}, c \in Widths, d \in WithX2, n \in Named(WithX2), m \in WithX2}
    \cup {Op3("MADD", c, d, n, Rg(m)) @@ [a |-> a] :
            c \in Widths, d \in {"x0", "x2", "x6", "xzr"}, n \in {"x0", "x2"}, m \in {"x1", "x2", "x6", "xzr"},
            a \in {"x1", "x2", "x6", "x7"}}
    \cup {Op3("UBFIZ", c, d, n, Im(0)) @@ [lsb |-> 1, width |-> 2] : c \in Widths, d \in Some, n \in Some}
Compares ==
    {Op2(op, c, n, Rg(m)) : op \in {"CMP", "CMN"}, c \in Widths, n \in Some, m \in Some}
    \cup {Op2(op, c, n, m) : op \in {"CMP", "CMN"}, c \in Widths, n \in Named(Some),
                             m \in {Im(3), [k |-> "imm", v |-> 3, lsl |-> 1], Sh("x1", "LSL", 1)}}
Shiftless == {Op3(op, "x", "x0", "x1", Sh("x6", "LSL", 1)) : op \in {"AND", "ORR", "EOR", "BIC"}}
OnEqual ==
    {Op3("CSEL", c, d, n, Rg(m)) @@ [cond |-> "EQ"] : c \in Widths, d \in Some, n \in {"x1", "x7", "xzr"}, m \in Some}
    \cup {Op3("CSET", c, d, "xzr", Im(0)) @@ [cond |-> "EQ"] : c \in Widths, d \in Some}
    \cup {Op2("CCMP", c, n, m) @@ [cond |-> "EQ", nzcv |-> [n |-> 1, z |-> 0, c |-> 1, v |-> 0]] :
             c \in Widths, n \in {"x0", "x6"}, m \in {Rg(r) : r \in Some} \cup {Im(3)}}
Tests ==
    {[op |-> op, c |-> c, n |-> n, m |-> Im(0)] : op \in {"CBZ", "CBNZ"}, c \in Widths, n \in Some}
    \cup {[op |-> op, c |-> c, n |-> n, m |-> Im(0), bit |-> b] : op \in {"TBZ", "TBNZ"}, c \in Widths, n \in Some, b \in {0, 3}}

(* Addresses.  Writing back to a register that is also loaded or stored is unpredictable. *)
Bases == {"x0", "x6", "x23", "sp"}
Modes == {[k |-> m, base |-> b, imm |-> 8] : m \in {"off", "pre", "post"}, b \in Bases}
         \cup {[k |-> "off", base |-> b, imm |-> -3] : b \in Bases}
IndexedModes == {[k |-> "ext", base |-> b, r |-> r, by |-> x[1], n |-> x[2]] :
              b \in Bases \ {"x0"}, r \in {"x0", "x7", "xzr"}, x \in {<<"none", 0>>, <<"LSL", 1>>, <<"SXTW", 0>>}}
Predictable(i) == i.m.k \notin {"pre", "post"} \/ i.m.base \notin {i.d, IF "d2" \in DOMAIN i THEN i.d2 ELSE "xzr"}
Data == {"x0", "x1", "x6", "x23", "xzr"}
Transfers ==
    {i \in {[op |-> o[1], c |-> o[2], d |-> d, m |-> m] :
              o \in {<<"LDR", "x">>, <<"LDR", "w">>, <<"LDRB", "w">>, <<"LDRSH", "w">>, <<"LDRSW", "x">>, <<"LDRSB", "x">>,
                     <<"STR", "x">>, <<"STR", "w">>, <<"STRB", "w">>, <<"STRH", "w">>},
              d \in Data, m \in Modes \cup IndexedModes} : Predictable(i)}
    \cup {[op |-> "LDR", c |-> "x", d |-> "x0", m |-> [k |-> "literal"]]}
Pairs ==
    {i \in {[op |-> op, c |-> c, d |-> d, d2 |-> e, m |-> m] :
              op \in {"LDP", "STP"}, c \in Widths, d \in Data, e \in Data, m \in {x \in Modes : x.imm = 8}} :
        Predictable(i) /\ (i.op = "LDP" => i.d # i.d2)}

(* Flags set, tested and used. *)
Fl(n, z, c, v) == [n |-> n, z |-> z, c |-> c, v |-> v]
Setters == {Op2("CMP", c, "x0", Rg("x1")) : c \in Widths} \cup {Op2("CMN", "x", "x0", Rg("x1")), Op2("CMP", "x", "x0", Im(3)),
            Op3("ADDS", "x", "x2", "x0", Rg("x1")), Op3("SUBS", "w", "x2", "x0", Rg("x1"))}
Jumps   == {[op |-> "B.cond", c |-> "x", n |-> "xzr", m |-> Im(0), cond |-> cc] : cc \in Conds}
Selects == {Op3("CSEL", "x", r[1], r[2], Rg(r[3])) @@ [cond |-> cc] :
              r \in {<<"x0", "x2", "x5">>, <<"x6", "x7", "x6">>, <<"x0", "x2", "xzr">>}, cc \in Conds}
           \cup {Op3("CSET", "x", "x0", "xzr", Im(0)) @@ [cond |-> cc] : cc \in Conds}
           \cup Jumps
Ccmps == {Op2("CCMP", "x", "x1", Rg("x2")) @@ [cond |-> cc, nzcv |-> f] :
            cc \in Conds, f \in {Fl(0, 0, 0, 0), Fl(0, 1, 0, 0), Fl(0, 0, 1, 0)}}
(* What compilers put between a comparison and its branch. *)
Between == {Op3("MOV", "x", "x6", "xzr", Rg("x2")), Op3("ADD", "x", "x2", "x2", Im(3)),
            Op3("SUB", "x", "sp", "sp", Im(3)), [op |-> "LDR", c |-> "x", d |-> "x2", m |-> [k |-> "off", base |-> "x6", imm |-> 8]],
            [op |-> "STR", c |-> "x", d |-> "x2", m |-> [k |-> "pre", base |-> "sp", imm |-> -3]]}
MCPrograms ==
    {<<i>> : i \in ThreeRegs \cup ShiftedRegs \cup Consts \cup Moves \cup Products \cup Compares \cup Shiftless \cup OnEqual \cup Tests \cup WithSp
                     \cup Transfers \cup Pairs}
    \cup {<<s, u>> : s \in Setters, u \in Selects}
    \cup {<<Op2("CMP", "x", "x0", Rg("x1")), u, j>> : u \in Ccmps, j \in Jumps}
    \cup {<<s, b, j>> : s \in Setters, b \in Between, j \in Jumps}
    \cup {<<Op2("CMP", "x", "x0", Rg("x1")), j, Op2("CMN", "x", "x0", Rg("x1"))>> : j \in Jumps}
==============================================================================
