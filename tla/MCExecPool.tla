----------------------------- MODULE MCExecPool ------------------------------
(***************************************************************************)
(* The pool on its own: three chunks of two instructions, the last of      *)
(* which is mapped but not executable, one import, and regions that hold   *)
(* one chunk or two.                                                       *)
(***************************************************************************)
EXTENDS ExecPool, MCGuest

CONSTANT puts

MCHostFns   == {puts}
MCRanges    == {<<0, 2>>, <<2, 4>>}
MCMmapBases == {20, 60, 100}

(* Every pair of an instruction of the first chunk and one of the second,  *)
(* with a neighbour that emits bytes or none.                              *)
Leavers == {B(0), B(3), B(4), B(6), BCond(1), BCond(2), BL(2), RET("x30"), Undef, Op, Nop, Stop}
MCPrograms ==
    {Prog(<<x, n, m, y, Op, Op>>) : x \in Leavers, y \in Leavers, n \in {Nop, Op}, m \in {Nop, B(5)}}
==============================================================================
