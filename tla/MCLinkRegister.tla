---------------------------- MODULE MCLinkRegister ---------------------------
(***************************************************************************)
(* Calls through the link register itself, which the architecture allows:  *)
(* BLR reads its operand before it writes x30.                             *)
(***************************************************************************)
EXTENDS Dispatch, MCGuest

MCRanges    == {<<0, 4>>}
MCMmapBases == {20}
MCPrograms  == {Prog(<<x, BLR("x30"), y, RET("x30")>>) : x \in {Nop, Op}, y \in {Nop, Op, Undef}}
==============================================================================
