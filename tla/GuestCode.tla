------------------------------ MODULE GuestCode ------------------------------
(***************************************************************************)
(* The ARM64 program that xob64 translates, as the translator sees it: a   *)
(* word-addressed code segment 0 .. GuestEnd-1, cut into chunks of         *)
(* ChunkInstrs instructions (CHUNK_SIZE / 4 in the source), and the number *)
(* of x86-64 bytes each instruction becomes.                               *)
(*                                                                         *)
(* An instruction is a record.  Only control flow and the registers that   *)
(* hold code pointers are kept; everything else is "op".                   *)
(*    [op |-> "nop"]             BTI and pointer authentication: no bytes  *)
(*    [op |-> "op"]              any other translated instruction          *)
(*    [op |-> "undef"]           undecodable or not translated             *)
(*    [op |-> "stop"]            the translator panics when it meets it    *)
(*    [op |-> "adr", to |-> a]   x17 := address of guest code              *)
(*    [op |-> "got", fn |-> f]   x17 := a pointer the loader relocated     *)
(*    [op |-> "push"]            store x30 on the stack                    *)
(*    [op |-> "pop"]             reload x30 from the stack                 *)
(*    [op |-> "b" | "b_cond" | "bl", to |-> a]                             *)
(*    [op |-> "br" | "blr" | "ret", reg |-> r]                             *)
(* A conditional branch stands for B.cond, CBZ/CBNZ and TBZ/TBNZ.          *)
(***************************************************************************)
EXTENDS Integers, Sequences

CONSTANTS
    GuestEnd,      \* number of instructions in the guest's code segment
    ChunkInstrs,   \* CHUNK_SIZE / 4
    BodyLen,       \* bytes emitted for an opcode before its jump or call
    CallLen,       \* "mov rax, imm64; call rax" (12), also "...; jmp rax"
    JmpLen,        \* "jmp rel32" (5)
    HostFns,       \* library functions the program imports
    StartMainFn,   \* the import __libc_start_main
    StartMain,     \* address of its landing pad
    ExitLabel,     \* address of label 2 in the asm block of runner::call
    MainExit       \* address of label 2 in __libc_start_main_impl

DirectOps   == {"b", "b_cond", "bl"}
IndirectOps == {"br", "blr", "ret"}
DataOps     == {"nop", "op", "stop", "adr", "got", "push", "pop"}
Ops         == DataOps \cup DirectOps \cup IndirectOps \cup {"undef"}
Regs        == {"x30", "x17"}

GuestAddrs == 0 .. GuestEnd - 1
Labels     == {StartMain, ExitLabel, MainExit}

ASSUME SizeAssumption ==
    /\ ChunkInstrs \in Nat \ {0}
    /\ GuestEnd \in Nat
    /\ CallLen \in Nat \ {0}
    /\ JmpLen \in Nat \ {0}
    /\ BodyLen \in [Ops -> Nat]
    /\ \A op \in DataOps : BodyLen[op] = 0 <=> op = "nop"

(* The host's own code is outside the guest's image. *)
ASSUME LabelAssumption ==
    /\ Labels \subseteq Nat
    /\ \A l \in Labels : l > GuestEnd
    /\ StartMain \notin {ExitLabel, MainExit}
    /\ HostFns \cap Nat = {}
    /\ StartMainFn \notin HostFns

ChunkAddr(a) == a - (a % ChunkInstrs)
Chunks == {ChunkAddr(a) : a \in GuestAddrs}

(* The image is a whole number of chunks: segments end at page boundaries. *)
ASSUME WholeChunksAssumption ==
    \A c \in Chunks : c .. c + ChunkInstrs - 1 \subseteq GuestAddrs

(***************************************************************************)
(* What compile_instr emits.  The jump or call that leaves an instruction  *)
(* is always its last code; its address is the instruction's site.         *)
(***************************************************************************)
TailLen(prog, a) ==
    LET i == prog[a] IN
    CASE i.op \in DirectOps ->
             IF ChunkAddr(i.to) = ChunkAddr(a) THEN JmpLen ELSE CallLen
      [] i.op \in IndirectOps \cup {"undef"} -> CallLen
      [] OTHER -> 0

EmitLen(prog, a) == BodyLen[prog[a].op] + TailLen(prog, a)

(***************************************************************************)
(* The architecture's meaning of the data instructions, on the registers   *)
(* that hold code pointers.  host gives the relocated pointer of each      *)
(* bound import.  A pop with nothing pushed reads a word that is no code   *)
(* address, for which GuestEnd stands.                                     *)
(***************************************************************************)
RegsAfter(i, regs, stack, host) ==
    CASE i.op = "adr"  -> [regs EXCEPT !["x17"] = i.to]
      [] i.op = "got"  -> [regs EXCEPT !["x17"] =
                              IF i.fn = StartMainFn THEN StartMain ELSE host[i.fn]]
      [] i.op = "pop"  -> [regs EXCEPT !["x30"] =
                              IF stack = << >> THEN GuestEnd ELSE Head(stack)]
      [] OTHER -> regs

(* The host calls guest code with a return address in x30 and an ExecCtx   *)
(* of its own; GuestEnd stands for the zero in its cells.                  *)
RegsAtCall(label) == [r \in Regs |-> IF r = "x30" THEN label ELSE GuestEnd]

StackAfter(i, regs, stack) ==
    CASE i.op = "push" -> <<regs["x30"]>> \o stack
      [] i.op = "pop"  -> IF stack = << >> THEN << >> ELSE Tail(stack)
      [] OTHER -> stack

InRange(ranges, a) == \E r \in ranges : r[1] <= a /\ a < r[2]

(* Where control arriving at pointer t first does something: instructions  *)
(* that emit no bytes are passed over.                                     *)
Stops(prog, ranges, a) == ~InRange(ranges, a) \/ prog[a].op # "nop"

Land(prog, ranges, t) ==
    IF t \in GuestAddrs
      THEN CHOOSE a \in t .. GuestEnd :
              /\ Stops(prog, ranges, a)
              /\ \A b \in t .. a - 1 : ~Stops(prog, ranges, b)
      ELSE t
==============================================================================
