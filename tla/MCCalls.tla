------------------------------- MODULE MCCalls -------------------------------
(***************************************************************************)
(* Programs that follow the calling convention, as a compiler writes them: *)
(* a function saves x30 before it calls, restores it, and returns to it or *)
(* tail-calls.  Every one is entered at 0 (which may be _start) and at 4   *)
(* (main), with and without the other chunks translated already, and the   *)
(* kernel spreads the chunks over several regions.                         *)
(***************************************************************************)
EXTENDS Dispatch, MCGuest

CONSTANT puts

MCHostFns   == {puts}
MCRanges    == {<<0, 8>>, <<8, 10>>}
MCMmapBases == {20, 60, 100, 140}

Ret == RET("x30")

(* Recursion of any depth, and a leaf called across a chunk boundary. *)
Recursion == Prog(<<Push, BCond(3), BL(0), Pop, Push, BL(8), BL(0), Pop, Nop, Ret>>)
(* Mutual recursion; library calls, through a pointer and by a tail call   *)
(* that the PLT's br makes.                                                *)
Mutual    == Prog(<<Push, BL(4), Pop, Ret, BCond(9), Push, BL(0), Pop, Ret, Ret>>)
Library   == Prog(<<Push, BL(8), Pop, Ret, Push, Got(puts), BLR("x17"), B(2), Got(puts), BR("x17")>>)
(* A function pointer, and code that falls through chunk ends. *)
Pointer   == Prog(<<Push, Adr(4), BLR("x17"), Pop, Nop, Nop, Op, BCond(9), Nop, Ret>>)
(* _start calls __libc_start_main, which calls main. *)
Start     == Prog(<<Op, Got(StartMainFn), BLR("x17"), Undef, Push, BL(8), Pop, Ret, Got(puts), BR("x17")>>)
MCPrograms ==
    {[Recursion EXCEPT ![7] = i] : i \in {Pop, B(3)}}
        \cup {Mutual, Library, Pointer, Start}

(* All of them have the form that the theorems about such programs need. *)
ASSUME ConventionFollowed ==
    \A prog \in MCPrograms : \E frame \in [0 .. GuestEnd -> FrameKinds] : Convention(prog, frame)
==============================================================================
