---------------------------- MODULE MCGuestContext ---------------------------
(***************************************************************************)
(* Choices of registers: one of each kind of home, no two of which overlap *)
(* and none of which is a vector register or the flags; a pair of integer  *)
(* registers kept in ExecCtx; a vector register kept in an x86-64 one.     *)
(***************************************************************************)
EXTENDS GuestContext

Disjoint     == {<<"x", 2>>, <<"x", 6>>, <<"x", 23>>, <<"x", 28>>, <<"x", 30>>,
                 <<"v", 8>>, <<"v", 31>>}
IndirectPair == {<<"x", 13>>, <<"x", 24>>}
Vector       == {<<"v", 0>>}
==============================================================================
