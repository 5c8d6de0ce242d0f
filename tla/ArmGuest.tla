------------------------------ MODULE ArmGuest -------------------------------
(***************************************************************************)
(* What xob64 promises: an ARM64 processor running the guest program, with *)
(* the host's library functions callable through the pointers the loader   *)
(* bound.  There is no cache, no translated code, no shadow stack here; a  *)
(* branch goes where the architecture says.  The emulator may give up      *)
(* ("crash": out of a resource, or a chunk it cannot translate) but it may *)
(* not go somewhere else, as long as the program returns no more often     *)
(* than it was called; after that it may also lose control ("lost").       *)
(***************************************************************************)
EXTENDS GuestCode

CONSTANTS Programs, Ranges, Entries, Mains, MaxCalls

VARIABLES
    code,          \* the program
    exec_ranges,   \* executable segments mapped so far
    host,          \* bound imports: function name -> pointer
    gpc,           \* Idle, or the pointer about to be executed
    gregs,         \* x30 and x17
    gstack,        \* return addresses the program saved, newest first
    gdepth,        \* calls that have not returned, since the host's newest call
    gcalls,        \* calls made by the host so far
    gstatus        \* "run", "exit", "fault", "crash" or "lost"

gvars == <<code, exec_ranges, host, gpc, gregs, gstack, gdepth, gcalls, gstatus>>

Idle == -1
Arrive(t) == Land(code, exec_ranges, t)
Runnable(a) == a \in GuestAddrs /\ InRange(exec_ranges, a)
Fetch(op) == gstatus = "run" /\ Runnable(gpc) /\ code[gpc].op = op
Instr == code[gpc]
HostPtrs == {host[f] : f \in DOMAIN host}

GInit ==
    /\ code \in Programs
    /\ exec_ranges = {}
    /\ host = << >>
    /\ gpc = Idle
    /\ gregs = [r \in Regs |-> GuestEnd]
    /\ gstack = << >>
    /\ gdepth = 0
    /\ gcalls = 0
    /\ gstatus = "run"

(* The loader maps a segment, or binds an import to a pointer. *)
MapSegment(r) ==
    /\ gstatus = "run" /\ gcalls = 0 /\ r \notin exec_ranges
    /\ exec_ranges' = exec_ranges \cup {r}
    /\ UNCHANGED <<code, host, gpc, gregs, gstack, gdepth, gcalls, gstatus>>

BindImport ==
    /\ gstatus = "run" /\ gcalls = 0
    /\ DOMAIN host # DOMAIN host'
    /\ \A f \in DOMAIN host : f \in DOMAIN host' /\ host'[f] = host[f]
    /\ \A f \in DOMAIN host' : host'[f] \notin GuestAddrs
    /\ UNCHANGED <<code, exec_ranges, gpc, gregs, gstack, gdepth, gcalls, gstatus>>

(* The host calls an initialiser or the entry point, one after another. *)
CallGuest(e) ==
    /\ gstatus = "run" /\ gpc = Idle /\ gcalls < MaxCalls
    /\ exec_ranges = Ranges /\ DOMAIN host = HostFns
    /\ gpc' = Arrive(e)
    /\ gregs' = RegsAtCall(ExitLabel)
    /\ gstack' = << >>
    /\ gdepth' = 1
    /\ gcalls' = gcalls + 1
    /\ UNCHANGED <<code, exec_ranges, host, gstatus>>

GoTo(t) ==
    /\ gpc' = Arrive(t)
    /\ UNCHANGED <<code, exec_ranges, host, gstack, gcalls, gstatus>>

Data ==
    /\ \E op \in DataOps : Fetch(op)
    /\ gpc' = Arrive(gpc + 1)
    /\ gregs' = RegsAfter(Instr, gregs, gstack, host)
    /\ gstack' = StackAfter(Instr, gregs, gstack)
    /\ UNCHANGED <<code, exec_ranges, host, gdepth, gcalls, gstatus>>

B == Fetch("b") /\ GoTo(Instr.to) /\ UNCHANGED <<gregs, gdepth>>

BCond ==
    /\ Fetch("b_cond")
    /\ \E t \in {Instr.to, gpc + 1} : GoTo(t)
    /\ UNCHANGED <<gregs, gdepth>>

BL ==
    /\ Fetch("bl")
    /\ GoTo(Instr.to)
    /\ gregs' = [gregs EXCEPT !["x30"] = gpc + 1]
    /\ gdepth' = gdepth + 1

BR == Fetch("br") /\ GoTo(gregs[Instr.reg]) /\ UNCHANGED <<gregs, gdepth>>

(* The target is read before the link register is written. *)
BLR ==
    /\ Fetch("blr")
    /\ GoTo(gregs[Instr.reg])
    /\ gregs' = [gregs EXCEPT !["x30"] = gpc + 1]
    /\ gdepth' = gdepth + 1

RET ==
    /\ Fetch("ret")
    /\ GoTo(gregs[Instr.reg])
    /\ gdepth' = gdepth - 1
    /\ UNCHANGED gregs

(* A library function runs and returns to the link register. *)
HostReturns ==
    /\ gstatus = "run" /\ gpc \in HostPtrs
    /\ GoTo(gregs["x30"])
    /\ gdepth' = gdepth - 1
    /\ UNCHANGED gregs

(* __libc_start_main calls main on a fresh stack of callers. *)
StartsMain ==
    /\ gstatus = "run" /\ gpc = StartMain
    /\ \E m \in Mains : gpc' = Arrive(m)
    /\ gregs' = RegsAtCall(MainExit)
    /\ gdepth' = 1
    /\ UNCHANGED <<code, exec_ranges, host, gstack, gcalls, gstatus>>

(* Back in runner::call. *)
Returned ==
    /\ gstatus = "run" /\ gpc = ExitLabel
    /\ gpc' = Idle
    /\ gdepth' = 0
    /\ UNCHANGED <<code, exec_ranges, host, gregs, gstack, gcalls, gstatus>>

(* main returned to __libc_start_main: the process exits. *)
Exits ==
    /\ gstatus = "run" /\ gpc = MainExit
    /\ gstatus' = "exit"
    /\ UNCHANGED <<code, exec_ranges, host, gpc, gregs, gstack, gdepth, gcalls>>

(* Only an undefined instruction or a pointer to no code may fault. *)
NoCode(p) == ~Runnable(p) /\ p \notin HostPtrs \cup Labels \cup {Idle}
Faults ==
    /\ gstatus = "run"
    /\ NoCode(gpc) \/ Fetch("undef")
    /\ gstatus' = "fault"
    /\ UNCHANGED <<code, exec_ranges, host, gpc, gregs, gstack, gdepth, gcalls>>

(* The emulator gives up; what the registers hold no longer matters. *)
Crashes ==
    /\ gstatus = "run"
    /\ gstatus' = "crash"
    /\ UNCHANGED <<code, exec_ranges, host>>

(* A program that returns to nobody's call is not looked after: it may be  *)
(* killed, or anything else may happen to it, when it returns again or     *)
(* calls before it is back inside its host's call.                         *)
LosesControl ==
    /\ gstatus = "run"
    /\ \/ (Fetch("ret") \/ gpc \in HostPtrs) /\ gdepth <= 0
       \/ (Fetch("bl") \/ Fetch("blr")) /\ gdepth < 0
    /\ gstatus' = "lost"
    /\ UNCHANGED <<code, exec_ranges, host, gpc, gregs, gstack, gdepth, gcalls>>

GuestStep ==
    Data \/ B \/ BCond \/ BL \/ BR \/ BLR \/ RET
         \/ HostReturns \/ StartsMain \/ Returned \/ Exits \/ Faults

GNext ==
    \/ \E r \in Ranges : MapSegment(r)
    \/ BindImport
    \/ \E e \in Entries : CallGuest(e)
    \/ GuestStep
    \/ LosesControl
    \/ Crashes

(* The processor does not stop while it has an instruction to execute. *)
GuestSpec == GInit /\ [][GNext]_gvars
Progress  == WF_gvars(GuestStep)
==============================================================================
