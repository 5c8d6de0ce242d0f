----------------------------- MODULE GuestContext ----------------------------
(***************************************************************************)
(* Where the guest's registers live while translated code runs, and what   *)
(* becomes of them when it leaves for host code: register.rs, the layout   *)
(* of ExecCtx, the resumable landing pads and the library proxies.         *)
(*                                                                         *)
(* A guest register is <<"x", n>>, <<"v", n>> or the condition flags.  Its *)
(* home is an x86-64 register or 8-byte cells of the ExecCtx that r15      *)
(* points to.  The stack is counted in 8-byte words, with rsp = 0 when     *)
(* translated code leaves; there it is a multiple of 16 bytes, as the      *)
(* architecture requires of SP.                                            *)
(***************************************************************************)
EXTENDS Integers, Sequences

CONSTANTS
    Tracked,   \* the guest registers the program uses
    Vals,      \* the values it writes
    Junk       \* what host code leaves in registers and memory it may use

Flags == <<"nzcv", 0>>
GuestRegs == ({"x"} \X (0 .. 30)) \cup ({"v"} \X (0 .. 31)) \cup {Flags}

ASSUME ContextAssumption == Tracked \subseteq GuestRegs /\ Junk \notin Vals

VARIABLES
    store,   \* location -> value
    mem,     \* stack word -> value
    rsp,
    file,    \* guest register -> value it should have
    at       \* "guest", or where in a landing pad or a proxy control is

cvars == <<store, mem, rsp, file, at>>

------------------------------------------------------------------------------
(* Register translation *)

(* ExecCtx: indirect_regs [u64; 18], indirect_fp_regs [u128; 17], param,   *)
(* shadow_sp, shadow_stack_alloc.                                          *)
FpCell    == 18
ParamCell == FpCell + 2 * 17
Ctx(i)    == <<"ctx", i>>
Native(r) == <<"reg", r>>
Xmm(n)    == <<"xmm", n>>

DirectX ==
    [n \in {0, 1, 2, 3, 4, 5, 19, 20, 21, 22, 23, 29, 30} |->
        CASE n = 0  -> "rdi" [] n = 1  -> "rsi" [] n = 2  -> "rdx"
          [] n = 3  -> "rcx" [] n = 4  -> "r8"  [] n = 5  -> "r9"
          [] n = 19 -> "rbx" [] n = 20 -> "r12" [] n = 21 -> "r13"
          [] n = 22 -> "r14" [] n = 23 -> "r10" [] n = 29 -> "rbp"
          [] n = 30 -> "r11"]

(* Faulty: one more 128-bit slot is skipped than there are. *)
IndirectShifted(g) ==
    LET n == g[2] IN
    CASE g[1] = "x" /\ n <= 18 -> {n}
      [] g[1] = "x" /\ n >= 24 -> {n - 24 + 13}
      [] g[1] = "v" -> LET k == FpCell + 2 * (IF n <= 15 THEN n - 8 ELSE n - 23 + 9)
                       IN  {k, k + 1}

(* translate_indirect_reg: the cells of a register that has no x86-64 one. *)
Indirect(g) ==
    LET n == g[2] IN
    CASE g[1] = "x" /\ n <= 18 -> {n}
      [] g[1] = "x" /\ n >= 24 -> {n - 24 + 13}
      [] g[1] = "v" -> LET k == FpCell + 2 * (IF n <= 15 THEN n - 8 ELSE n - 23 + 8)
                       IN  {k, k + 1}

(* translate_reg *)
Homes(g) ==
    LET n == g[2] IN
    CASE g = Flags -> {Native("eflags")}
      [] g[1] = "x" /\ n \in DOMAIN DirectX -> {Native(DirectX[n])}
      [] g[1] = "v" /\ n <= 7 -> {Xmm(n)}
      [] g[1] = "v" /\ n \in 16 .. 22 -> {Xmm(n - 8)}
      [] OTHER -> {Ctx(i) : i \in Indirect(g)}

------------------------------------------------------------------------------
(* The System V calling convention, for host code *)

CallerSaved ==
    {Native(r) : r \in {"rax", "rcx", "rdx", "rsi", "rdi", "r8", "r9", "r10",
                        "r11", "eflags"}} \cup {Xmm(n) : n \in 0 .. 15}
CalleeSaved == {Native(r) : r \in {"rbx", "rbp", "r12", "r13", "r14", "r15"}}
Locs == CallerSaved \cup CalleeSaved \cup {Ctx(i) : i \in 0 .. ParamCell + 2}

StackWords == -12 .. -1

(* Host code entered by a call: it keeps the callee-saved registers and    *)
(* what lies above its return address, and may use all the rest, or not.   *)
HostRuns ==
    \E K \in {{}, CallerSaved} :
        /\ store' = [l \in Locs |-> IF l \in K THEN Junk ELSE store[l]]
        /\ mem' = [w \in StackWords |-> IF K # {} /\ w < rsp THEN Junk ELSE mem[w]]

------------------------------------------------------------------------------
Init ==
    /\ store = [l \in Locs |-> Junk]
    /\ mem = [w \in StackWords |-> Junk]
    /\ rsp = 0
    /\ file = [g \in GuestRegs |-> Junk]
    /\ at = "guest"

WriteReg(g, v) ==
    /\ at = "guest"
    /\ store' = [l \in Locs |-> IF l \in Homes(g) THEN v ELSE store[l]]
    /\ file' = [file EXCEPT ![g] = v]
    /\ UNCHANGED <<mem, rsp, at>>

Saved == <<"rcx", "rdx", "rsi", "rdi", "r8", "r9", "r10", "r11">>

(* A resumable landing pad: the site's call has pushed the return address; *)
(* the registers go below it, unannounced, before rsp is moved past them.  *)
PadEnter ==
    /\ at = "guest"
    /\ mem' = [w \in StackWords |->
                  IF \E i \in 1 .. 8 : w = rsp - 1 - i
                    THEN store[Native(Saved[rsp - 1 - w])] ELSE mem[w]]
    /\ rsp' = rsp - 1 - 9
    /\ store' = [store EXCEPT ![Native("rdi")] = Junk, ![Native("rsi")] = Junk]
    /\ at' = "pad"
    /\ UNCHANGED file

PadCallback ==
    /\ at = "pad"
    /\ HostRuns
    /\ at' = "padExit"
    /\ UNCHANGED <<rsp, file>>

(* Faulty: restores with the offsets the registers were saved with. *)
PadExitSameOffsets ==
    /\ at = "padExit"
    /\ rsp' = rsp + 10
    /\ store' = [l \in Locs |->
                    IF \E i \in 1 .. 8 : l = Native(Saved[i])
                      THEN mem[rsp' - (CHOOSE i \in 1 .. 8 : l = Native(Saved[i]))]
                      ELSE store[l]]
    /\ at' = "guest"
    /\ UNCHANGED <<mem, file>>

(* Faulty: leaves the return address on the stack. *)
PadExitKeepsReturn ==
    /\ at = "padExit"
    /\ rsp' = rsp + 9
    /\ store' = [l \in Locs |->
                    IF \E i \in 1 .. 8 : l = Native(Saved[i])
                      THEN mem[rsp' - (CHOOSE i \in 1 .. 8 : l = Native(Saved[i]))]
                      ELSE store[l]]
    /\ at' = "guest"
    /\ UNCHANGED <<mem, file>>

(* The return address is dropped too: the pad jumps to what the callback   *)
(* returned.                                                               *)
PadExit ==
    /\ at = "padExit"
    /\ rsp' = rsp + 10
    /\ store' = [l \in Locs |->
                    IF \E i \in 1 .. 8 : l = Native(Saved[i])
                      THEN mem[rsp' - 1 - (CHOOSE i \in 1 .. 8 : l = Native(Saved[i]))]
                      ELSE store[l]]
    /\ at' = "guest"
    /\ UNCHANGED <<mem, file>>

(* Faulty: makes no room below the saved registers. *)
ProxyEnterUnaligned ==
    /\ at = "guest"
    /\ rsp' = rsp - 1
    /\ mem' = [mem EXCEPT ![rsp - 1] = store[Native("r10")]]
    /\ at' = "proxy"
    /\ UNCHANGED <<store, file>>

(* A proxy: x23 and x30 are kept on the stack around the library call. *)
ProxyEnter ==
    /\ at = "guest"
    /\ rsp' = rsp - 2
    /\ mem' = [mem EXCEPT ![rsp - 2] = store[Native("r10")],
                          ![rsp - 1] = store[Native("r11")]]
    /\ at' = "proxy"
    /\ UNCHANGED <<store, file>>

ProxyCall ==
    /\ at = "proxy"
    /\ HostRuns
    /\ at' = "proxyExit"
    /\ UNCHANGED <<rsp, file>>

(* The result becomes x0, and the return sequence uses rdx, rax and the    *)
(* flags.  A guest program expects of a call that x19-x30 and v8-v15 keep  *)
(* their values; the other registers hold what they hold.                  *)
KeptByCalls == ({"x"} \X (19 .. 30)) \cup ({"v"} \X (8 .. 15))

ProxyExit ==
    /\ at = "proxyExit"
    /\ rsp' = rsp + 2
    /\ store' = [store EXCEPT ![Native("r10")] = mem[rsp], ![Native("r11")] = mem[rsp + 1],
                              ![Native("rdi")] = store[Native("rax")],
                              ![Native("rdx")] = Junk, ![Native("rax")] = Junk,
                              ![Native("eflags")] = Junk]
    /\ file' = [g \in GuestRegs |->
                   IF g \in KeptByCalls THEN file[g]
                   ELSE store'[CHOOSE l \in Homes(g) : TRUE]]
    /\ at' = "guest"
    /\ UNCHANGED mem

Next ==
    \/ \E g \in Tracked, v \in Vals : WriteReg(g, v)
    \/ PadEnter \/ PadCallback \/ PadExit
    \/ ProxyEnter \/ ProxyCall \/ ProxyExit

ContextSpec == Init /\ [][Next]_cvars

------------------------------------------------------------------------------
(* Properties *)

(* Every register the program uses holds what the program last wrote to    *)
(* it: no other register shares its home, and the callbacks entered when a *)
(* branch is patched, a chunk ends or a target is looked up leave it       *)
(* alone, as does a library call if the guest's convention says so.        *)
RegistersKept ==
    at = "guest" =>
        \A g \in Tracked : \A l \in Homes(g) : store[l] = file[g]

(* No write to a guest register reaches the fields of ExecCtx that control *)
(* returns and callbacks.                                                  *)
ControlFieldsKept ==
    \A i \in ParamCell .. ParamCell + 2 : store[Ctx(i)] = Junk

(* Landing pads and proxies call host code with the stack aligned to 16    *)
(* bytes, and leave the stack pointer where translated code had it.        *)
StackKept ==
    /\ at \in {"pad", "proxy"} => rsp % 2 = 0
    /\ at = "guest" => rsp = 0
==============================================================================
