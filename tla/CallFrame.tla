------------------------------ MODULE CallFrame ------------------------------
(***************************************************************************)
(* The machine stack around a call into the guest: the asm block of        *)
(* runner::call builds the frame a process finds at its entry point, jumps *)
(* to the guest, and takes the frame down when the guest returns.          *)
(*                                                                         *)
(* Addresses are counted in 8-byte words; rsp is 0 when the block starts   *)
(* and that is a multiple of 16 bytes, as inline assembly may assume.      *)
(* Memory below rsp holds whatever earlier calls left there: a word that   *)
(* is zero or one (Junk) that is not.                                      *)
(***************************************************************************)
EXTENDS Integers, Sequences

CONSTANTS
    MaxArgs,    \* bound: program arguments
    Args,       \* argument pointers
    Junk        \* a non-zero word left on the stack

ASSUME ArgAssumption ==
    /\ MaxArgs \in Nat
    /\ Args \cap 0 .. MaxArgs = {}
    /\ Junk \notin Args /\ Junk \notin 0 .. MaxArgs

VARIABLES
    argv,         \* the arguments passed to call
    mem, rsp,     \* the machine stack
    argc,         \* register operand {argc}, counted down while copying
    add_align,    \* register operand {add_align}
    rax,
    at            \* where in the block control is

fvars == <<argv, mem, rsp, argc, add_align, rax, at>>

(* The largest frame: two words of alignment, two terminators, argv, argc. *)
Depth == MaxArgs + 5

Init ==
    /\ argv \in UNION {[1 .. n -> Args] : n \in 0 .. MaxArgs}
    /\ mem \in [-Depth .. -1 -> {0, Junk}]
    /\ rsp = 0
    /\ argc = Len(argv)
    /\ add_align = Len(argv) % 2
    /\ rax = Junk
    /\ at = "align"

Push(m, sp, w) == [m EXCEPT ![sp - 1] = w]

(* The words from 0 up are the caller's, and not zero. *)
Word(sp) == IF sp < 0 THEN mem[sp] ELSE Junk

(* Faulty: pushes the flag and no padding word. *)
AlignStackWithoutPad ==
    /\ at = "align"
    /\ mem' = Push(mem, rsp, add_align)
    /\ rsp' = rsp - 1
    /\ at' = "terminate"
    /\ UNCHANGED <<argv, argc, add_align, rax>>

AlignStack ==
    /\ at = "align"
    /\ mem' = Push(mem, rsp, add_align)
    /\ rsp' = IF add_align = 0 THEN rsp - 1 ELSE rsp - 2
    /\ at' = "terminate"
    /\ UNCHANGED <<argv, argc, add_align, rax>>

PushTerminators ==
    /\ at = "terminate"
    /\ mem' = Push(Push(mem, rsp, 0), rsp - 1, 0)
    /\ rsp' = rsp - 2
    /\ at' = "reserve"
    /\ UNCHANGED <<argv, argc, add_align, rax>>

(* Faulty: pushes argc without making room for argv. *)
ReserveArgvNot ==
    /\ at = "reserve"
    /\ add_align' = argc
    /\ mem' = Push(mem, rsp, argc)
    /\ rsp' = rsp - 1
    /\ at' = "copy"
    /\ UNCHANGED <<argv, argc, rax>>

(* Room for argv, then argc; {add_align} is reused as a scratch register. *)
ReserveArgv ==
    /\ at = "reserve"
    /\ add_align' = argc
    /\ mem' = Push(mem, rsp - argc, argc)
    /\ rsp' = rsp - argc - 1
    /\ at' = "copy"
    /\ UNCHANGED <<argv, argc, rax>>

(* Faulty: forgets that argc lies below argv. *)
CopyArgOverArgc ==
    /\ at = "copy" /\ argc # 0
    /\ argc' = argc - 1
    /\ mem' = [mem EXCEPT ![rsp + argc'] = argv[argc' + 1]]
    /\ UNCHANGED <<argv, rsp, add_align, rax, at>>

CopyArg ==
    /\ at = "copy" /\ argc # 0
    /\ argc' = argc - 1
    /\ mem' = [mem EXCEPT ![rsp + argc' + 1] = argv[argc' + 1]]
    /\ UNCHANGED <<argv, rsp, add_align, rax, at>>

JumpToGuest ==
    /\ at = "copy" /\ argc = 0
    /\ at' = "guest"
    /\ UNCHANGED <<argv, mem, rsp, argc, add_align, rax>>

(* The guest returns with the stack pointer it was given; below that it    *)
(* may have left anything, and rax is scratch.                             *)
GuestReturns ==
    /\ at = "guest"
    /\ \E below \in {0, Junk} :
          mem' = [a \in DOMAIN mem |-> IF a < rsp THEN below ELSE mem[a]]
    /\ rax' \in {0, Junk}
    /\ at' = "popArgs"
    /\ UNCHANGED <<argv, rsp, argc, add_align>>

PopArgs ==
    /\ at = "popArgs"
    /\ rax' = Word(rsp)
    /\ rsp' = rsp + 1 + rax' + 2
    /\ at' = "popAlign"
    /\ UNCHANGED <<argv, mem, argc, add_align>>

(* One word is popped, and a second one if it was not zero. *)
PopAlign ==
    /\ at = "popAlign"
    /\ rax' = IF Word(rsp) = 0 THEN 0 ELSE Word(rsp + 1)
    /\ rsp' = IF Word(rsp) = 0 THEN rsp + 1 ELSE rsp + 2
    /\ at' = "done"
    /\ UNCHANGED <<argv, mem, argc, add_align>>

Done == at = "done" /\ UNCHANGED fvars

Next ==
    \/ AlignStack \/ PushTerminators \/ ReserveArgv \/ CopyArg \/ JumpToGuest
    \/ GuestReturns \/ PopArgs \/ PopAlign \/ Done

FrameSpec == Init /\ [][Next]_fvars

------------------------------------------------------------------------------
(* Properties *)

(* At the guest's entry point the stack pointer is a multiple of 16 bytes, *)
(* for an even and for an odd number of arguments.                         *)
EntryAligned == at = "guest" => rsp % 2 = 0

(* There the guest finds argc, argv and a null word to end each of argv    *)
(* and envp, laid out as a process's initial stack is.                     *)
EntryFrame ==
    at = "guest" =>
        /\ mem[rsp] = Len(argv)
        /\ \A i \in 1 .. Len(argv) : mem[rsp + i] = argv[i]
        /\ mem[rsp + Len(argv) + 1] = 0
        /\ mem[rsp + Len(argv) + 2] = 0

(* Nothing above the block's own frame is read or written, and the pops    *)
(* never release more than was pushed.                                     *)
FrameBounded == rsp \in -Depth .. 0

(* After the block the stack pointer is what it was before it, as the      *)
(* compiled code around it assumes.                                        *)
StackRestored == at = "done" => rsp = 0
==============================================================================
