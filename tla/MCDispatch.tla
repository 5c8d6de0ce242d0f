----------------------------- MODULE MCDispatch ------------------------------
(***************************************************************************)
(* Every program of four instructions, two chunks of two, over an alphabet *)
(* of control transfers into, across and out of the chunks, whether they   *)
(* obey a calling convention or not.                                       *)
(***************************************************************************)
EXTENDS Dispatch, MCGuest

CONSTANT puts

MCHostFns   == {puts}
MCRanges    == {<<0, 4>>}
MCMmapBases == {20}

(* The first instruction gives the second a code pointer to work with. *)
Firsts  == {Nop, Op, Push, B(3), BCond(2), BL(1), BL(2), Adr(1), Adr(4), Got(puts), Got(StartMainFn)}
Seconds == {Nop, B(2), BCond(0), BL(3), BR("x17"), BLR("x17"), BR("x30"), RET("x30")}
Thirds  == {Nop, Op, Pop, B(1), BCond(2), BL(0), Undef}
Fourths == {Nop, Stop, Pop, B(0), B(4), BL(2), RET("x30")}
MCPrograms ==
    {Prog(<<w, x, y, z>>) : w \in Firsts, x \in Seconds, y \in Thirds, z \in Fourths}
==============================================================================
