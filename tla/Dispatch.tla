------------------------------ MODULE Dispatch -------------------------------
(***************************************************************************)
(* The machine that runs translated code: runner::call, the code that      *)
(* branch.rs emits, the landing pads and callbacks they call, the proxies  *)
(* of library functions, and the shadow stack of an ExecCtx.               *)
(*                                                                         *)
(* One thread runs and no signal handler is installed, so the native code  *)
(* of one ARM64 instruction, with the callback it calls, is one step.  pc  *)
(* is a native address.  A step is named for the source that emits the     *)
(* code it executes.                                                       *)
(***************************************************************************)
EXTENDS ExecPool, SequencesExt

CONSTANTS
    Entries,      \* guest addresses runner::call is given: initialisers, entry
    Mains,        \* guest addresses passed to __libc_start_main
    MaxCalls,     \* bound: calls made by the host
    ShadowCap,    \* SHADOW_STACK_SIZE / 16
    MaxShadow,    \* bound: entries the shadow stack may grow to
    MaxBeyond,    \* bound: entries it may be popped beyond its mapping
    MaxStack      \* bound: the host's stack, on which guest code pushes

ASSUME BoundAssumption ==
    /\ Entries \cup Mains \subseteq GuestAddrs
    /\ MaxCalls \in Nat
    /\ ShadowCap \in Nat \ {0}
    /\ MaxShadow \in Nat /\ MaxShadow >= ShadowCap
    /\ MaxBeyond \in Nat
    /\ MaxStack \in Nat

(* Address arithmetic on code stays in the image, the loader relocates a   *)
(* slot to an import it has bound, and of the registers an indirect branch *)
(* may name, one stands for all but the link register.                     *)
ASSUME PointerAssumption ==
    \A prog \in Programs : \A a \in GuestAddrs :
        /\ prog[a].op = "adr" => prog[a].to \in 0 .. GuestEnd
        /\ prog[a].op = "got" => prog[a].fn \in HostFns \cup {StartMainFn}
        /\ prog[a].op \in IndirectOps => prog[a].reg \in Regs

VARIABLES
    pc,       \* native address about to be executed, or Idle
    regs,     \* r11 (x30) and the register that holds x17
    stack,    \* guest return addresses on the machine stack, newest first
    shadow,   \* shadow stack, newest first: [arm, native]
    beyond,   \* entries that the oldest in shadow lies above the mapping
    calls     \* runner::call invocations so far

cpuvars == <<pc, regs, stack, shadow, beyond, calls>>
vars == <<poolvars, cpuvars>>

Idle == -1
GotPtrs == [f \in DOMAIN proxies |-> proxies[f].addr]

Init ==
    /\ PoolInit
    /\ pc = Idle
    /\ regs = [r \in Regs |-> GuestEnd]
    /\ stack = << >>
    /\ shadow = << >>
    /\ beyond = 0
    /\ calls = 0

Running == status = "run" /\ pc # Idle

(* Instruction a has been translated, and p is where its code starts. *)
Starts(a, p) ==
    /\ ChunkAddr(a) \in DOMAIN executable_map
    /\ Resolve(executable_map, a) = p
    /\ EmitLen(code, a) > 0
StartsAt(p) == {a \in GuestAddrs : Starts(a, p)}
EndSites == {executable_map[c].addr + executable_map[c].len - CallLen :
                c \in DOMAIN executable_map}

At(a, op) == Running /\ code[a].op = op /\ Starts(a, pc)
Site(a)   == pc + BodyLen[code[a].op]
After(a)  == pc + EmitLen(code, a)

------------------------------------------------------------------------------
(* Steps of the jump or call at the end of an instruction.  Each one says  *)
(* where control goes and what becomes of the pool; if the pool panics the *)
(* process is gone and pc no longer matters.                               *)

GoTo(p) == pc' = IF status' = "run" THEN p ELSE pc

(* make_jump's code: a jump, or a call that asks rewrite_branch to turn    *)
(* itself into one.                                                        *)
TakeJump(a) ==
    LET s == Site(a) IN
    IF sites[s].kind = "jmp"
      THEN /\ UNCHANGED poolvars
           /\ pc' = sites[s].to
      ELSE /\ RewriteBranch(s)
           /\ GoTo(sites'[s].to)

(* The indirect_jump callback; param holds guest pointer t. *)
IndirectJump(t) ==
    /\ GetExec(t, Null)
    /\ GoTo(Resolve(executable_map', t))

(* How many entries of the mapping are in use.  It is negative after       *)
(* returns without a call, for which nothing checks: shadow_sp then points *)
(* above the mapping, into whatever the kernel has put there.              *)
Depth == Len(shadow) - beyond

(* The code BL and BLR use to push a return address.  The mapping has room *)
(* for ShadowCap entries; below it the kernel may grow it (MAP_GROWSDOWN)  *)
(* or deliver SIGSEGV.                                                     *)
PushShadowStack(arm, native) ==
    /\ Depth < MaxShadow
    /\ shadow' = <<[arm |-> arm, native |-> native]>> \o shadow
    /\ UNCHANGED beyond

ShadowFull ==
    /\ Running
    /\ Depth >= ShadowCap
    /\ \E a \in StartsAt(pc) : code[a].op \in {"bl", "blr"}
    /\ status' = "overflow"
    /\ UNCHANGED <<code, exec_ranges, executable_map, allocvars, proxies, sites, cpuvars>>

(* The newest entry is popped, whether there is one or not. *)
PopShadowStack ==
    IF shadow = << >>
      THEN /\ beyond < MaxBeyond
           /\ beyond' = beyond + 1
           /\ UNCHANGED shadow
      ELSE /\ shadow' = Tail(shadow)
           /\ UNCHANGED beyond

(* Faulty: jumps to the native address whatever the link register holds. *)
ReturnUnchecked ==
    /\ PopShadowStack
    /\ shadow # << >>
    /\ UNCHANGED poolvars /\ pc' = Head(shadow).native

(* Faulty: leaves the entry on the shadow stack. *)
ReturnWithoutPop ==
    /\ UNCHANGED <<shadow, beyond>>
    /\ \/ /\ shadow # << >>
          /\ regs["x30"] = Head(shadow).arm
          /\ UNCHANGED poolvars /\ pc' = Head(shadow).native
       \/ /\ Depth > 0 => regs["x30"] # Head(shadow).arm
          /\ IndirectJump(regs["x30"])

(* The return sequence of RET and of the proxies: jump to the newest       *)
(* native address if it was pushed for the guest pointer in the link       *)
(* register, else look the link register up.  The entry is popped in       *)
(* either case.  Above the mapping, what was pushed may be overwritten.    *)
ReturnSequence ==
    /\ PopShadowStack
    /\ \/ /\ shadow # << >>
          /\ regs["x30"] = Head(shadow).arm
          /\ UNCHANGED poolvars /\ pc' = Head(shadow).native
       \/ /\ Depth > 0 => regs["x30"] # Head(shadow).arm
          /\ IndirectJump(regs["x30"])

(* Above the mapping a return may also read words that match, and jump to  *)
(* whatever they say; a call overwrites what belongs to others; or nothing *)
(* is mapped there.  From here on anything may happen.                     *)
ShadowBeyond ==
    /\ Running
    /\ \/ /\ Depth <= 0
          /\ \/ \E a \in StartsAt(pc) : code[a].op = "ret"
             \/ pc \in {proxies[f].addr : f \in DOMAIN proxies}
       \/ /\ Depth < 0
          /\ \E a \in StartsAt(pc) : code[a].op \in {"bl", "blr"}
    /\ status' = "lost"
    /\ UNCHANGED <<code, exec_ranges, executable_map, allocvars, proxies, sites, cpuvars>>

------------------------------------------------------------------------------
(* Translated instructions *)

(* Anything that does not branch; control falls into the next code. *)
ExecData(a) ==
    /\ code[a].op \in DataOps
    /\ At(a, code[a].op)
    /\ code[a].op = "push" => Len(stack) < MaxStack
    /\ regs' = RegsAfter(code[a], regs, stack, GotPtrs)
    /\ stack' = StackAfter(code[a], regs, stack)
    /\ pc' = After(a)
    /\ UNCHANGED <<poolvars, shadow, beyond, calls>>

StackFull ==
    /\ Running
    /\ Len(stack) = MaxStack
    /\ \E a \in StartsAt(pc) : code[a].op = "push"
    /\ status' = "overflow"
    /\ UNCHANGED <<code, exec_ranges, executable_map, allocvars, proxies, sites, cpuvars>>

ExecB(a) ==
    /\ At(a, "b")
    /\ TakeJump(a)
    /\ UNCHANGED <<regs, stack, shadow, beyond, calls>>

(* The inverse condition jumps over the jump. *)
ExecBCond(a) ==
    /\ At(a, "b_cond")
    /\ \/ TakeJump(a)
       \/ UNCHANGED poolvars /\ pc' = After(a)
    /\ UNCHANGED <<regs, stack, shadow, beyond, calls>>

(* Faulty: loads the native return address into the link register. *)
ExecBLNative(a) ==
    /\ At(a, "bl")
    /\ regs' = [regs EXCEPT !["x30"] = After(a)]
    /\ PushShadowStack(a + 1, After(a))
    /\ TakeJump(a)
    /\ UNCHANGED <<stack, calls>>

(* Faulty: the return label is placed before the jump. *)
ExecBLEarlyLabel(a) ==
    /\ At(a, "bl")
    /\ regs' = [regs EXCEPT !["x30"] = a + 1]
    /\ PushShadowStack(a + 1, Site(a))
    /\ TakeJump(a)
    /\ UNCHANGED <<stack, calls>>

ExecBL(a) ==
    /\ At(a, "bl")
    /\ regs' = [regs EXCEPT !["x30"] = a + 1]
    /\ PushShadowStack(a + 1, After(a))
    /\ TakeJump(a)
    /\ UNCHANGED <<stack, calls>>

ExecBR(a) ==
    /\ At(a, "br")
    /\ IndirectJump(regs[code[a].reg])
    /\ UNCHANGED <<regs, stack, shadow, beyond, calls>>

(* The link register is loaded first, and the target read after it. *)
ExecBLR(a) ==
    /\ At(a, "blr")
    /\ regs' = [regs EXCEPT !["x30"] = a + 1]
    /\ PushShadowStack(a + 1, After(a))
    /\ IndirectJump(regs'[code[a].reg])
    /\ UNCHANGED <<stack, calls>>

(* Whatever its operand, a RET returns to the link register. *)
ExecRET(a) ==
    /\ At(a, "ret")
    /\ ReturnSequence
    /\ UNCHANGED <<regs, stack, calls>>

(* unimplemented_arm_instr and invalid_arm_instr abort. *)
ExecUndef(a) ==
    /\ At(a, "undef")
    /\ status' = "undef"
    /\ UNCHANGED <<code, exec_ranges, executable_map, allocvars, proxies, sites, cpuvars>>

ExecEnd ==
    /\ Running
    /\ pc \in EndSites
    /\ IF sites[pc].kind = "jmp"
         THEN UNCHANGED poolvars /\ pc' = sites[pc].to
         ELSE EndOfChunk(pc) /\ GoTo(sites'[pc].to)
    /\ UNCHANGED <<regs, stack, shadow, beyond, calls>>

------------------------------------------------------------------------------
(* Host code *)

(* runner::call on a fresh ExecCtx, whose one shadow entry and the link    *)
(* register hold the address of label 2.                                   *)
CallGuest(e) ==
    /\ status = "run" /\ pc = Idle /\ Loaded
    /\ calls < MaxCalls
    /\ calls' = calls + 1
    /\ GetExec(e, Null)
    /\ GoTo(Resolve(executable_map', e))
    /\ regs' = RegsAtCall(ExitLabel)
    /\ shadow' = <<[arm |-> ExitLabel, native |-> ExitLabel]>>
    /\ beyond' = 0
    /\ stack' = << >>

(* Faulty: a proxy returns and does not pop the shadow stack. *)
HostCallWithoutPop ==
    /\ Running
    /\ pc \in {proxies[f].addr : f \in DOMAIN proxies}
    /\ IndirectJump(regs["x30"])
    /\ UNCHANGED <<regs, stack, shadow, beyond, calls>>

(* A proxy: the library function, then the return sequence. *)
HostCall ==
    /\ Running
    /\ pc \in {proxies[f].addr : f \in DOMAIN proxies}
    /\ ReturnSequence
    /\ UNCHANGED <<regs, stack, calls>>

(* Faulty: main runs in the caller's context. *)
LibcStartMainSameContext ==
    /\ Running
    /\ pc = StartMain
    /\ \E m \in Mains : GetExec(m, Null) /\ GoTo(Resolve(executable_map', m))
    /\ regs' = [regs EXCEPT !["x30"] = MainExit]
    /\ shadow' = <<[arm |-> MainExit, native |-> MainExit]>> \o shadow
    /\ UNCHANGED <<stack, beyond, calls>>

(* __libc_start_main_impl runs main in an ExecCtx of its own. *)
LibcStartMain ==
    /\ Running
    /\ pc = StartMain
    /\ \E m \in Mains : GetExec(m, Null) /\ GoTo(Resolve(executable_map', m))
    /\ regs' = RegsAtCall(MainExit)
    /\ shadow' = <<[arm |-> MainExit, native |-> MainExit]>>
    /\ beyond' = 0
    /\ UNCHANGED <<stack, calls>>

(* runner::call's asm block ends, and ctx is dropped. *)
CallReturns ==
    /\ Running
    /\ pc = ExitLabel
    /\ pc' = Idle
    /\ shadow' = << >>
    /\ beyond' = 0
    /\ UNCHANGED <<poolvars, regs, stack, calls>>

MainReturns ==
    /\ Running
    /\ pc = MainExit
    /\ status' = "exit"
    /\ UNCHANGED <<code, exec_ranges, executable_map, allocvars, proxies, sites, cpuvars>>

(* Neither translated nor host code is at pc: SIGSEGV. *)
NativeCode == UNION {StartsAt(pc), EndSites \cap {pc}, Labels \cap {pc},
                     {proxies[f].addr : f \in DOMAIN proxies} \cap {pc}}
Segv ==
    /\ Running
    /\ NativeCode = {}
    /\ status' = "segv"
    /\ UNCHANGED <<code, exec_ranges, executable_map, allocvars, proxies, sites, cpuvars>>

------------------------------------------------------------------------------
Load ==
    /\ status = "run" /\ calls = 0
    /\ \/ \E r \in Ranges \ exec_ranges : DefineExecRange(r)
       \/ /\ exec_ranges = Ranges
          /\ \E f \in HostFns \ DOMAIN proxies : AllocCode(f)
    /\ UNCHANGED cpuvars

Step ==
    \/ \E a \in GuestAddrs :
          \/ ExecData(a) \/ ExecB(a) \/ ExecBCond(a) \/ ExecBL(a)
          \/ ExecBR(a) \/ ExecBLR(a) \/ ExecRET(a) \/ ExecUndef(a)
    \/ ExecEnd \/ HostCall \/ LibcStartMain \/ CallReturns \/ MainReturns
    \/ Segv \/ ShadowFull \/ ShadowBeyond \/ StackFull

(* The process is over, or main has made its last call. *)
Stopped ==
    /\ status # "run" \/ (pc = Idle /\ calls = MaxCalls)
    /\ UNCHANGED vars

Next ==
    \/ Load
    \/ \E e \in Entries : CallGuest(e)
    \/ Step
    \/ Stopped

(* The processor keeps executing. *)
Spec     == Init /\ [][Next]_vars
FairSpec == Spec /\ WF_vars(Step)
------------------------------------------------------------------------------
(* Properties *)

(* The guest pointer that native address p stands for: the instruction     *)
(* translated there; the next chunk, for the call that ends a chunk; else  *)
(* p itself, a pointer to host code or to none.                            *)
ArmOf(p) ==
    IF StartsAt(p) # {} THEN CHOOSE a \in StartsAt(p) : TRUE
    ELSE IF p \in EndSites
      THEN Land(code, exec_ranges,
                (CHOOSE c \in DOMAIN executable_map : Within(p, executable_map[c]))
                    + ChunkInstrs)
    ELSE p

(* Guest code only ever holds pointers of its own and of the host (code it *)
(* may be given, landing pads, proxies, labels), and never an address of   *)
(* translated code, although every call and return passes one along; and   *)
(* the processor only ever executes native code, at the start of an        *)
(* instruction's translation or at the end of a chunk, or else a pointer   *)
(* that the guest itself held.                                             *)
GuestPointers == (0 .. GuestEnd) \cup Labels \cup {proxies[f].addr : f \in DOMAIN proxies}

PointersApart ==
    /\ \A r \in Regs : regs[r] \in GuestPointers
    /\ \A i \in 1 .. Len(stack) : stack[i] \in GuestPointers
    /\ \A i \in 1 .. Len(shadow) : shadow[i].arm \in GuestPointers
    /\ Running => NativeCode # {} \/ pc \in GuestPointers

StatusOf ==
    CASE status \in {"segv", "undef"} -> "fault"
      [] status \in {"abort", "overflow"} -> "crash"
      [] OTHER -> status

Guest == INSTANCE ArmGuest WITH
    host <- GotPtrs, gpc <- ArmOf(pc), gregs <- regs, gstack <- stack,
    gdepth <- Depth, gcalls <- calls, gstatus <- StatusOf

(* The translator implements the processor: every step of translated code  *)
(* and of the callbacks is one step of the ARM64 program or none, however  *)
(* chunks were compiled, linked and patched before, and whether a return   *)
(* is predicted by the shadow stack or not.  Returns without a call are    *)
(* looked up rightly too, unless what lies above the shadow stack's        *)
(* mapping misleads them (LosesControl); and no callback ever panics.      *)
RefinesGuest == Guest!GuestSpec

(* It also keeps going: callbacks and chunk ends never loop without        *)
(* executing a guest instruction.                                          *)
RefinesProgress == Guest!Progress

(* A native return address on the shadow stack is where the guest return   *)
(* address paired with it resumes, now and after any later translation.    *)
ShadowCoherent ==
    \A i \in 1 .. Len(shadow) :
        ArmOf(shadow[i].native) = Land(code, exec_ranges, shadow[i].arm)

------------------------------------------------------------------------------
(* Programs that follow the calling convention                             *)

(* Where the function that runs keeps its return address: in the link      *)
(* register, on the stack, or, being _start, nowhere.                      *)
FrameKinds == {"bare", "saved", "start"}

(* One function for one kind of place: whichever way control reaches an    *)
(* instruction, the return address is at the same one.  A function is      *)
(* entered and left with the address in the link register, and saves it    *)
(* before it calls.                                                        *)
Convention(prog, frame) ==
    /\ frame \in [0 .. GuestEnd -> FrameKinds]
    /\ \A e \in Entries : frame[e] \in {"bare", "start"}
    /\ \A m \in Mains : frame[m] = "bare"
    /\ \A a \in GuestAddrs :
         LET i == prog[a] IN
         /\ i.op \in {"nop", "op", "stop", "adr", "got", "b_cond", "bl", "blr"} => frame[a + 1] = frame[a]
         /\ i.op = "push" => frame[a] = "bare" /\ frame[a + 1] = "saved"
         /\ i.op = "pop" => frame[a] = "saved" /\ frame[a + 1] = "bare"
         /\ i.op \in {"b", "b_cond"} => frame[i.to] = frame[a]
         /\ i.op \in {"bl", "adr"} => frame[i.to] = "bare"
         /\ i.op \in {"bl", "blr"} => frame[a] # "bare"
         /\ i.op \in {"br", "ret"} => frame[a] = "bare"
         /\ i.op \in {"br", "blr"} => i.reg # "x30"
         /\ i.op = "ret" => i.reg = "x30"
FollowsConvention == \E frame \in [0 .. GuestEnd -> FrameKinds] : Convention(code, frame)

(* Their returns are always predicted, whether they return from            *)
(* translated code or from a library function, called or tail-called.      *)
ReturnsPredicted ==
    LET returning == \/ \E a \in StartsAt(pc) : code[a].op = "ret"
                     \/ pc \in {proxies[f].addr : f \in DOMAIN proxies}
    IN  status \in {"run", "lost"} /\ returning =>
            shadow # << >> /\ Head(shadow).arm = regs["x30"]

(* Shadow stack and machine stack agree on who called whom: below the host *)
(* caller's entry at the bottom, the guest addresses on the first are the  *)
(* return addresses saved on the second, with the one that is still in the *)
(* link register before them.                                              *)
ShadowMirrorsStack ==
    status = "run" /\ shadow # << >> =>
        LET arms == [i \in 1 .. Len(shadow) - 1 |-> shadow[i].arm]
        IN  \/ IsPrefix(arms, stack)
            \/ IsPrefix(arms, <<regs["x30"]>> \o stack)

(* Every call the host makes comes back, with its context's shadow stack   *)
(* used up, or ends the process.                                           *)
CallsReturn == Running ~> (pc = Idle \/ status # "run")
Balanced == pc \in {ExitLabel, MainExit} => shadow = << >>
==============================================================================
