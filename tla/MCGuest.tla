------------------------------- MODULE MCGuest -------------------------------
(***************************************************************************)
(* Constants shared by the model-checking modules: byte lengths, what the  *)
(* encoder returns for them, and abbreviations to write programs with.     *)
(* Lengths are scaled down but keep what matters: a body of no bytes       *)
(* ("b"), calls and jumps of different length, and a patched call as long  *)
(* as the jump written over it.                                            *)
(***************************************************************************)
EXTENDS GuestCode

MCBodyLen ==
    [op \in {"nop", "op", "stop", "undef", "adr", "got", "push", "pop",
             "b", "b_cond", "bl", "br", "blr", "ret"} |->
        CASE op \in {"nop", "b", "undef"} -> 0
          [] op \in {"op", "stop", "adr", "got", "push", "pop", "b_cond", "br"} -> 1
          [] OTHER -> 2]

(* The offsets of a chunk's instructions, laid out one after another. *)
MCInstrMap(prog, c) ==
    LET off[i \in 0 .. ChunkInstrs] ==
            IF i = 0 THEN 0 ELSE off[i - 1] + EmitLen(prog, c + i - 1)
    IN  off

Nop      == [op |-> "nop"]
Op       == [op |-> "op"]
Stop     == [op |-> "stop"]
Undef    == [op |-> "undef"]
Push     == [op |-> "push"]
Pop      == [op |-> "pop"]
Adr(a)   == [op |-> "adr", to |-> a]
Got(f)   == [op |-> "got", fn |-> f]
B(a)     == [op |-> "b", to |-> a]
BCond(a) == [op |-> "b_cond", to |-> a]
BL(a)    == [op |-> "bl", to |-> a]
BR(r)    == [op |-> "br", reg |-> r]
BLR(r)   == [op |-> "blr", reg |-> r]
RET(r)   == [op |-> "ret", reg |-> r]

(* A program from a sequence of instructions. *)
Prog(s) == [a \in 0 .. Len(s) - 1 |-> s[a + 1]]
==============================================================================
