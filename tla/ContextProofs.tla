----------------------------- MODULE ContextProofs -----------------------------
(***************************************************************************)
(* The guest's registers around host code, for every set of registers a    *)
(* program uses: the stack is aligned at every host call and balanced, the *)
(* control fields of ExecCtx are never a register's home, and a program    *)
(* whose registers have homes apart, outside what callbacks do not save,   *)
(* always reads what it wrote.                                             *)
(***************************************************************************)
EXTENDS GuestContext, TLAPS

------------------------------------------------------------------------------
(* Homes *)

Cells == {Ctx(i) : i \in 0 .. ParamCell - 1}

LEMMA NativeX ==
    ASSUME NEW k \in DOMAIN DirectX
    PROVE  DirectX[k] \in {"rdi", "rsi", "rdx", "rcx", "r8", "r9", "rbx", "r12", "r13", "r14", "r10", "rbp", "r11"}
  BY SMT DEF DirectX

LEMMA HomesOfX ==
    ASSUME NEW k \in 0 .. 30
    PROVE  \/ k \in DOMAIN DirectX /\ Homes(<<"x", k>>) = {Native(DirectX[k])}
           \/ k \notin DOMAIN DirectX /\ \E c \in 0 .. 18 : Homes(<<"x", k>>) = {Ctx(c)}
  <1> DEFINE g == <<"x", k>>
  <1>1. g # Flags /\ g[1] = "x" /\ g[2] = k
    BY DEF Flags
  <1>2. CASE k \in DOMAIN DirectX
    BY <1>1, <1>2 DEF Homes
  <1>3. CASE k \notin DOMAIN DirectX
    <2>1. Homes(g) = {Ctx(i) : i \in Indirect(g)}
      BY <1>1, <1>3 DEF Homes
    <2>2. k \in 6 .. 18 \/ k \in 24 .. 28
      BY <1>3, SMT DEF DirectX
    <2>3. \E c \in 0 .. 18 : Indirect(g) = {c}
      <3>1. CASE k \in 6 .. 18
        <4>1. Indirect(g) = {k} /\ k \in 0 .. 18
          BY <1>1, <3>1, SMT DEF Indirect
        <4> QED
          BY <4>1
      <3>2. CASE k \in 24 .. 28
        <4>1. ~(k <= 18) /\ k >= 24 /\ k - 24 + 13 \in 0 .. 18
          BY <3>2, SMT
        <4>2. Indirect(g) = {k - 24 + 13}
          BY <1>1, <4>1 DEF Indirect
        <4> QED
          BY <4>1, <4>2
      <3> QED
        BY <2>2, <3>1, <3>2
    <2> QED
      BY <1>3, <2>1, <2>3
  <1> QED
    BY <1>2, <1>3

LEMMA HomesOfV ==
    ASSUME NEW k \in 0 .. 31
    PROVE  \/ k \notin 8 .. 15 /\ \E c \in 0 .. 15 : Homes(<<"v", k>>) = {Xmm(c)}
           \/ \E c \in 0 .. ParamCell - 2 : Homes(<<"v", k>>) = {Ctx(c), Ctx(c + 1)}
  <1> DEFINE g == <<"v", k>>
  <1>1. g # Flags /\ g[1] = "v" /\ g[1] # "x" /\ g[2] = k
    BY DEF Flags
  <1>2. CASE k <= 7
    <2>1. Homes(g) = {Xmm(k)} /\ k \in 0 .. 15 /\ k \notin 8 .. 15
      BY <1>1, <1>2, SMT DEF Homes
    <2> QED
      BY <2>1
  <1>3. CASE k \in 16 .. 22
    <2>1. ~(k <= 7) /\ k - 8 \in 0 .. 15 /\ k \notin 8 .. 15
      BY <1>3, SMT
    <2>2. Homes(g) = {Xmm(k - 8)}
      BY <1>1, <1>3, <2>1 DEF Homes
    <2> QED
      BY <2>1, <2>2
  <1>4. CASE ~(k <= 7) /\ k \notin 16 .. 22
    <2>1. Homes(g) = {Ctx(i) : i \in Indirect(g)}
      BY <1>1, <1>4 DEF Homes
    <2> DEFINE c == FpCell + 2 * (IF k <= 15 THEN k - 8 ELSE k - 23 + 8)
    <2>2. Indirect(g) = {c, c + 1}
      BY <1>1 DEF Indirect
    <2>3. c \in 0 .. ParamCell - 2
      BY <1>4, SMT DEF FpCell, ParamCell
    <2> HIDE DEF c
    <2>4. Homes(g) = {Ctx(c), Ctx(c + 1)}
      BY <2>1, <2>2
    <2> QED
      BY <2>3, <2>4
  <1> QED
    BY <1>2, <1>3, <1>4

Controls == {Ctx(i) : i \in ParamCell .. ParamCell + 2}

(* No two kinds of location are confused. *)
LEMMA Kinds ==
    /\ \A r, i : Native(r) # Ctx(i) /\ Native(r) # Xmm(i)
    /\ \A i, j : Ctx(i) # Xmm(j) /\ (Ctx(i) = Ctx(j) => i = j)
    /\ \A r, q : Native(r) = Native(q) => r = q
  BY DEF Native, Ctx, Xmm

LEMMA CtxLocs ==
    ASSUME NEW c \in 0 .. ParamCell - 1
    PROVE  Ctx(c) \in Locs /\ Ctx(c) \notin Controls /\ Ctx(c) \notin CallerSaved
  <1>1. c \in 0 .. ParamCell + 2 /\ c \notin ParamCell .. ParamCell + 2
    BY SMT DEF ParamCell, FpCell
  <1> QED
    BY <1>1, Kinds DEF Locs, Controls, CallerSaved

LEMMA XmmLocs ==
    ASSUME NEW c \in 0 .. 15
    PROVE  Xmm(c) \in Locs /\ Xmm(c) \notin Controls /\ Xmm(c) \in CallerSaved
  BY Kinds DEF Locs, Controls, CallerSaved

LEMMA NativeLocs ==
    ASSUME NEW r \in {"rdi", "rsi", "rdx", "rcx", "r8", "r9", "rbx", "r12", "r13", "r14", "r10", "rbp", "r11", "eflags", "rax"}
    PROVE  Native(r) \in Locs /\ Native(r) \notin Controls
  BY Kinds DEF Locs, Controls, CallerSaved, CalleeSaved

(* A register's home is there, and never a control field. *)
LEMMA HomesInLocs ==
    ASSUME NEW g \in GuestRegs
    PROVE  Homes(g) # {} /\ Homes(g) \subseteq Locs \ Controls
  <1>1. CASE g = Flags
    <2>1. Homes(g) = {Native("eflags")}
      <3>1. g[1] # "x" /\ g[1] # "v"
        BY <1>1 DEF Flags
      <3> QED
        BY <1>1, <3>1 DEF Homes
    <2> QED
      BY <2>1, NativeLocs
  <1>2. ASSUME NEW k \in 0 .. 30, g = <<"x", k>>
        PROVE  Homes(g) # {} /\ Homes(g) \subseteq Locs \ Controls
    <2>1. CASE k \in DOMAIN DirectX /\ Homes(g) = {Native(DirectX[k])}
      BY <2>1, NativeX, NativeLocs
    <2>2. CASE \E c \in 0 .. 18 : Homes(g) = {Ctx(c)}
      <3>1. 0 .. 18 \subseteq 0 .. ParamCell - 1
        BY SMT DEF ParamCell, FpCell
      <3> QED
        BY <2>2, <3>1, CtxLocs
    <2> QED
      BY <1>2, <2>1, <2>2, HomesOfX
  <1>3. ASSUME NEW k \in 0 .. 31, g = <<"v", k>>
        PROVE  Homes(g) # {} /\ Homes(g) \subseteq Locs \ Controls
    <2>1. CASE \E c \in 0 .. 15 : Homes(g) = {Xmm(c)}
      BY <2>1, XmmLocs
    <2>2. CASE \E c \in 0 .. ParamCell - 2 : Homes(g) = {Ctx(c), Ctx(c + 1)}
      <3>1. PICK c \in 0 .. ParamCell - 2 : Homes(g) = {Ctx(c), Ctx(c + 1)}
        BY <2>2
      <3>2. c \in 0 .. ParamCell - 1 /\ c + 1 \in 0 .. ParamCell - 1
        BY SMT DEF ParamCell, FpCell
      <3> QED
        BY <3>1, <3>2, CtxLocs
    <2> QED
      BY <1>3, <2>1, <2>2, HomesOfV
  <1> QED
    BY <1>1, <1>2, <1>3 DEF GuestRegs

------------------------------------------------------------------------------
(* The stack and the control fields *)

Values == Vals \cup {Junk}

Kinded ==
    /\ store \in [Locs -> Values] /\ mem \in [StackWords -> Values] /\ file \in [GuestRegs -> Values]
    /\ at \in {"guest", "pad", "padExit", "proxy", "proxyExit"}

RspAt ==
    /\ at = "guest" => rsp = 0
    /\ at \in {"pad", "padExit"} => rsp = -10
    /\ at \in {"proxy", "proxyExit"} => rsp = -2

ControlJunk == \A l \in Controls : store[l] = Junk

CInv == Kinded /\ RspAt /\ ControlJunk

LEMMA ControlsAreLocs == Controls \subseteq Locs /\ Controls \cap (CallerSaved \cup CalleeSaved) = {}
  <1>1. \A i \in ParamCell .. ParamCell + 2 : i \in 0 .. ParamCell + 2
    BY SMT DEF ParamCell, FpCell
  <1> QED
    BY <1>1, Kinds DEF Controls, Locs, CallerSaved, CalleeSaved

LEMMA CStart == Init => CInv
  BY ControlsAreLocs DEF Init, CInv, Kinded, RspAt, ControlJunk, Values

LEMMA HostKeeps ==
    ASSUME Kinded, HostRuns
    PROVE  /\ store' \in [Locs -> Values] /\ mem' \in [StackWords -> Values]
           /\ \A l \in Locs \ CallerSaved : store'[l] = store[l]
           /\ \A w \in StackWords : ~(w < rsp) => mem'[w] = mem[w]
  <1>1. PICK K \in {{}, CallerSaved} :
           /\ store' = [l \in Locs |-> IF l \in K THEN Junk ELSE store[l]]
           /\ mem' = [w \in StackWords |-> IF K # {} /\ w < rsp THEN Junk ELSE mem[w]]
    BY DEF HostRuns
  <1>2. \A l \in Locs : store[l] \in Values
    BY DEF Kinded
  <1>3. \A w \in StackWords : mem[w] \in Values
    BY DEF Kinded
  <1>4. Junk \in Values
    BY DEF Values
  <1>5. store' \in [Locs -> Values]
    BY <1>1, <1>2, <1>4
  <1>6. mem' \in [StackWords -> Values]
    BY <1>1, <1>3, <1>4
  <1>7. \A l \in Locs \ CallerSaved : store'[l] = store[l]
    BY <1>1
  <1>8. \A w \in StackWords : ~(w < rsp) => mem'[w] = mem[w]
    BY <1>1
  <1> QED
    BY <1>5, <1>6, <1>7, <1>8

LEMMA CSteps == CInv /\ [Next]_cvars => CInv'
  <1> SUFFICES ASSUME CInv, [Next]_cvars PROVE CInv'
    OBVIOUS
  <1>k. /\ store \in [Locs -> Values] /\ mem \in [StackWords -> Values] /\ file \in [GuestRegs -> Values]
        /\ Junk \in Values /\ \A l \in Controls : l \in Locs /\ l \notin CallerSaved /\ store[l] = Junk
        /\ \A l \in Controls : \A r : l # Native(r)
    BY ControlsAreLocs, Kinds DEF CInv, Kinded, Values, ControlJunk, Controls
  <1>s. \A i \in 1 .. 8 : Native(Saved[i]) \in Locs
    <2>1. \A i \in 1 .. 8 : Saved[i] \in {"rcx", "rdx", "rsi", "rdi", "r8", "r9", "r10", "r11"}
      BY SMT DEF Saved
    <2> QED
      BY <2>1, NativeLocs
  <1>1. ASSUME NEW g \in Tracked, NEW v \in Vals, WriteReg(g, v) PROVE CInv'
    <2>1. g \in GuestRegs /\ v \in Values
      BY ContextAssumption DEF Values
    <2>2. /\ store' = [l \in Locs |-> IF l \in Homes(g) THEN v ELSE store[l]]
          /\ file' = [file EXCEPT ![g] = v] /\ UNCHANGED <<mem, rsp, at>>
      BY <1>1 DEF WriteReg
    <2>3. store' \in [Locs -> Values] /\ file' \in [GuestRegs -> Values]
      BY <1>k, <2>1, <2>2
    <2>4. ControlJunk'
      BY <1>k, <2>1, <2>2, HomesInLocs DEF ControlJunk
    <2> QED
      BY <2>2, <2>3, <2>4 DEF CInv, Kinded, RspAt
  <1>2. CASE PadEnter
    <2>1. /\ rsp = 0 /\ rsp' = rsp - 1 - 9 /\ at' = "pad" /\ file' = file
          /\ store' = [store EXCEPT ![Native("rdi")] = Junk, ![Native("rsi")] = Junk]
          /\ mem' = [w \in StackWords |-> IF \E i \in 1 .. 8 : w = rsp - 1 - i
                                          THEN store[Native(Saved[rsp - 1 - w])] ELSE mem[w]]
      BY <1>2 DEF PadEnter, CInv, RspAt
    <2>2. rsp' = -10
      BY <2>1, SMT
    <2>3. \A w \in StackWords : \A i \in 1 .. 8 : w = rsp - 1 - i => rsp - 1 - w = i
      BY <2>1, SMT DEF StackWords
    <2>4. ASSUME NEW w \in StackWords PROVE mem'[w] \in Values
      <3>1. CASE \E i \in 1 .. 8 : w = rsp - 1 - i
        <4>1. PICK i \in 1 .. 8 : rsp - 1 - w = i
          BY <3>1, <2>3
        <4>2. mem'[w] = store[Native(Saved[i])]
          BY <2>1, <3>1, <4>1
        <4> QED
          BY <1>k, <1>s, <4>2
      <3>2. CASE ~\E i \in 1 .. 8 : w = rsp - 1 - i
        BY <1>k, <2>1, <3>2
      <3> QED
        BY <3>1, <3>2
    <2>5. mem' \in [StackWords -> Values]
      BY <2>1, <2>4
    <2>6. store' \in [Locs -> Values] /\ ControlJunk'
      BY <1>k, <2>1 DEF ControlJunk
    <2> QED
      BY <1>k, <2>1, <2>2, <2>5, <2>6 DEF CInv, Kinded, RspAt
  <1>3. CASE PadCallback
    <2>1. UNCHANGED <<rsp, file>> /\ rsp = -10 /\ at' = "padExit" /\ HostRuns
      BY <1>3 DEF PadCallback, CInv, RspAt
    <2>2. ControlJunk'
      BY <1>k, <2>1, HostKeeps DEF ControlJunk, CInv
    <2> QED
      BY <2>1, <2>2, HostKeeps DEF CInv, Kinded, RspAt
  <1>4. CASE PadExit
    <2>1. /\ rsp = -10 /\ rsp' = rsp + 10 /\ at' = "guest" /\ UNCHANGED <<mem, file>>
          /\ store' = [l \in Locs |->
                         IF \E i \in 1 .. 8 : l = Native(Saved[i])
                           THEN mem[rsp' - 1 - (CHOOSE i \in 1 .. 8 : l = Native(Saved[i]))]
                           ELSE store[l]]
      BY <1>4 DEF PadExit, CInv, RspAt
    <2>2. rsp' = 0
      BY <2>1, SMT
    <2>3. \A i \in 1 .. 8 : 0 - 1 - i \in StackWords
      BY SMT DEF StackWords
    <2>4. ASSUME NEW l \in Locs PROVE store'[l] \in Values
      <3>1. CASE \E i \in 1 .. 8 : l = Native(Saved[i])
        <4>1. PICK i \in 1 .. 8 : i = CHOOSE j \in 1 .. 8 : l = Native(Saved[j])
          BY <3>1
        <4>2. store'[l] = mem[0 - 1 - i]
          BY <2>1, <2>2, <3>1, <4>1
        <4> QED
          BY <1>k, <2>3, <4>2
      <3>2. CASE ~\E i \in 1 .. 8 : l = Native(Saved[i])
        BY <1>k, <2>1, <3>2
      <3> QED
        BY <3>1, <3>2
    <2>5. store' \in [Locs -> Values]
      BY <2>1, <2>4
    <2>6. ControlJunk'
      BY <1>k, <2>1 DEF ControlJunk
    <2> QED
      BY <1>k, <2>1, <2>2, <2>5, <2>6 DEF CInv, Kinded, RspAt
  <1>5. CASE ProxyEnter
    <2>1. /\ rsp = 0 /\ rsp' = rsp - 2 /\ at' = "proxy" /\ UNCHANGED <<store, file>>
          /\ mem' = [mem EXCEPT ![rsp - 2] = store[Native("r10")], ![rsp - 1] = store[Native("r11")]]
      BY <1>5 DEF ProxyEnter, CInv, RspAt
    <2>2. rsp' = -2
      BY <2>1, SMT
    <2>3. store[Native("r10")] \in Values /\ store[Native("r11")] \in Values
      BY <1>k, NativeLocs
    <2>4. mem' \in [StackWords -> Values]
      BY <1>k, <2>1, <2>3
    <2> QED
      BY <1>k, <2>1, <2>2, <2>4 DEF CInv, Kinded, RspAt, ControlJunk
  <1>6. CASE ProxyCall
    <2>1. UNCHANGED <<rsp, file>> /\ rsp = -2 /\ at' = "proxyExit" /\ HostRuns
      BY <1>6 DEF ProxyCall, CInv, RspAt
    <2>2. ControlJunk'
      BY <1>k, <2>1, HostKeeps DEF ControlJunk, CInv
    <2> QED
      BY <2>1, <2>2, HostKeeps DEF CInv, Kinded, RspAt
  <1>7. CASE ProxyExit
    <2>1. /\ rsp = -2 /\ rsp' = rsp + 2 /\ at' = "guest" /\ mem' = mem
          /\ store' = [store EXCEPT ![Native("r10")] = mem[rsp], ![Native("r11")] = mem[rsp + 1],
                                    ![Native("rdi")] = store[Native("rax")],
                                    ![Native("rdx")] = Junk, ![Native("rax")] = Junk,
                                    ![Native("eflags")] = Junk]
          /\ file' = [g \in GuestRegs |-> IF g \in KeptByCalls THEN file[g]
                                          ELSE store'[CHOOSE l \in Homes(g) : TRUE]]
      BY <1>7 DEF ProxyExit, CInv, RspAt
    <2>2. rsp' = 0 /\ rsp \in StackWords /\ rsp + 1 \in StackWords
      BY <2>1, SMT DEF StackWords
    <2>3. mem[rsp] \in Values /\ mem[rsp + 1] \in Values /\ store[Native("rax")] \in Values
      BY <1>k, <2>2, NativeLocs
    <2>4. store' \in [Locs -> Values]
      BY <1>k, <2>1, <2>3
    <2>5. ControlJunk'
      BY <1>k, <2>1 DEF ControlJunk
    <2>6. \A g \in GuestRegs : (CHOOSE l \in Homes(g) : TRUE) \in Locs
      BY HomesInLocs
    <2>7. file' \in [GuestRegs -> Values]
      BY <1>k, <2>1, <2>4, <2>6
    <2> QED
      BY <1>k, <2>1, <2>2, <2>4, <2>5, <2>7 DEF CInv, Kinded, RspAt
  <1>8. CASE UNCHANGED cvars
    BY <1>8 DEF cvars, CInv, Kinded, RspAt, ControlJunk
  <1> QED
    BY <1>1, <1>2, <1>3, <1>4, <1>5, <1>6, <1>7, <1>8 DEF Next

LEMMA CAlways == ContextSpec => []CInv
  BY CStart, CSteps, PTL DEF ContextSpec

(* Whatever registers a program uses, no write to one of them and no host  *)
(* call reaches the fields of ExecCtx that control returns and callbacks   *)
(* (translate_indirect_reg, the layout of ExecCtx).                        *)
THEOREM ControlFieldsSafe == ContextSpec => []ControlFieldsKept
  <1>1. CInv => ControlFieldsKept
    BY DEF CInv, ControlJunk, Controls, ControlFieldsKept
  <1> QED
    BY <1>1, CAlways, PTL

(* Landing pads and proxies call host code with an aligned stack, and      *)
(* leave the stack pointer where it was (callbacks.rs, the proxies).       *)
THEOREM StackBalanced == ContextSpec => []StackKept
  <1>1. CInv => StackKept
    <2>1. (-10) % 2 = 0 /\ (-2) % 2 = 0
      BY SMT
    <2> QED
      BY <2>1 DEF CInv, RspAt, StackKept
  <1> QED
    BY <1>1, CAlways, PTL

------------------------------------------------------------------------------
(* Registers *)

SavedLocs == {Native(Saved[i]) : i \in 1 .. 8}

(* The program's registers have homes apart from each other, and none that *)
(* host code may use and landing pads do not save: vector registers kept   *)
(* in x86-64 ones and the flags have such homes.                           *)
ApartAndSaved ==
    /\ \A g, h \in Tracked : g # h => Homes(g) \cap Homes(h) = {}
    /\ \A g \in Tracked : Homes(g) \cap CallerSaved \subseteq SavedLocs

LEMMA CalleeKept ==
    ASSUME NEW r \in {"rbx", "rbp", "r12", "r13", "r14", "r15"}
    PROVE  Native(r) \notin CallerSaved
  <1>1. r \notin {"rax", "rcx", "rdx", "rsi", "rdi", "r8", "r9", "r10", "r11", "eflags"}
    OBVIOUS
  <1> QED
    BY <1>1, Kinds DEF CallerSaved

(* A register is one location, or cells of the context. *)
LEMMA HomesShape ==
    ASSUME NEW g \in GuestRegs
    PROVE  (\A l, m \in Homes(g) : l = m) \/ Homes(g) \cap CallerSaved = {}
  <1>1. CASE g = Flags
    <2>1. g[1] # "x" /\ g[1] # "v"
      BY <1>1 DEF Flags
    <2>2. Homes(g) = {Native("eflags")}
      BY <1>1, <2>1 DEF Homes
    <2> QED
      BY <2>2
  <1>2. ASSUME NEW k \in 0 .. 30, g = <<"x", k>> PROVE \A l, m \in Homes(g) : l = m
    BY <1>2, HomesOfX
  <1>3. ASSUME NEW k \in 0 .. 31, g = <<"v", k>>
        PROVE  (\A l, m \in Homes(g) : l = m) \/ Homes(g) \cap CallerSaved = {}
    <2>1. CASE \E c \in 0 .. 15 : Homes(g) = {Xmm(c)}
      BY <2>1
    <2>2. CASE \E c \in 0 .. ParamCell - 2 : Homes(g) = {Ctx(c), Ctx(c + 1)}
      <3>1. PICK c \in 0 .. ParamCell - 2 : Homes(g) = {Ctx(c), Ctx(c + 1)}
        BY <2>2
      <3>2. c \in 0 .. ParamCell - 1 /\ c + 1 \in 0 .. ParamCell - 1
        BY SMT DEF ParamCell, FpCell
      <3> QED
        BY <3>1, <3>2, CtxLocs
    <2> QED
      BY <1>3, <2>1, <2>2, HomesOfV
  <1> QED
    BY <1>1, <1>2, <1>3 DEF GuestRegs

(* The registers a guest expects of a call to be kept: the two whose homes *)
(* host code may use are those a proxy saves.                              *)
LEMMA KeptHomes ==
    ASSUME NEW g \in KeptByCalls, NEW l \in Homes(g)
    PROVE  l \in {Native("r10"), Native("r11")} \/ l \notin CallerSaved
  <1>1. ASSUME NEW k \in 19 .. 30, g = <<"x", k>>
        PROVE  l \in {Native("r10"), Native("r11")} \/ l \notin CallerSaved
    <2>0. k \in 0 .. 30
      BY SMT
    <2>1. CASE k \in DOMAIN DirectX /\ Homes(g) = {Native(DirectX[k])}
      <3>1. DirectX[k] \in {"rbx", "rbp", "r12", "r13", "r14", "r10", "r11"}
        BY <2>1, SMT DEF DirectX
      <3> QED
        BY <2>1, <3>1, CalleeKept
    <2>2. CASE \E c \in 0 .. 18 : Homes(g) = {Ctx(c)}
      <3>1. 0 .. 18 \subseteq 0 .. ParamCell - 1
        BY SMT DEF ParamCell, FpCell
      <3> QED
        BY <2>2, <3>1, CtxLocs
    <2> QED
      BY <1>1, <2>0, <2>1, <2>2, HomesOfX
  <1>2. ASSUME NEW k \in 8 .. 15, g = <<"v", k>> PROVE l \notin CallerSaved
    <2>1. k \in 0 .. 31
      BY SMT
    <2>2. PICK c \in 0 .. ParamCell - 2 : Homes(g) = {Ctx(c), Ctx(c + 1)}
      BY <1>2, <2>1, HomesOfV
    <2>3. c \in 0 .. ParamCell - 1 /\ c + 1 \in 0 .. ParamCell - 1
      BY SMT DEF ParamCell, FpCell
    <2> QED
      BY <2>2, <2>3, CtxLocs
  <1> QED
    BY <1>1, <1>2 DEF KeptByCalls

InGuest == at = "guest" => \A g \in Tracked : \A l \in Homes(g) : store[l] = file[g]

InPad ==
    at \in {"pad", "padExit"} =>
        \A g \in Tracked : \A l \in Homes(g) :
            /\ \A i \in 1 .. 8 : l = Native(Saved[i]) => mem[-1 - i] = file[g]
            /\ l \notin CallerSaved => store[l] = file[g]

InProxy ==
    at \in {"proxy", "proxyExit"} =>
        \A g \in Tracked : \A l \in Homes(g) :
            /\ l = Native("r10") => mem[-2] = file[g]
            /\ l = Native("r11") => mem[-1] = file[g]
            /\ l \notin CallerSaved => store[l] = file[g]

RInv == CInv /\ InGuest /\ InPad /\ InProxy

LEMMA RStart == Init => RInv
  <1> SUFFICES ASSUME Init PROVE RInv
    OBVIOUS
  <1>1. ASSUME NEW g \in Tracked, NEW l \in Homes(g) PROVE store[l] = file[g]
    <2>1. g \in GuestRegs /\ l \in Locs
      BY ContextAssumption, HomesInLocs
    <2> QED
      BY <2>1 DEF Init
  <1> QED
    BY <1>1, CStart DEF Init, RInv, InGuest, InPad, InProxy

LEMMA RSteps == ApartAndSaved /\ RInv /\ [Next]_cvars => RInv'
  <1> SUFFICES ASSUME ApartAndSaved, RInv, [Next]_cvars PROVE RInv'
    OBVIOUS
  <1>c. CInv /\ CInv'
    BY CSteps DEF RInv
  <1>k. /\ store \in [Locs -> Values] /\ mem \in [StackWords -> Values] /\ file \in [GuestRegs -> Values]
        /\ Tracked \subseteq GuestRegs
    BY <1>c, ContextAssumption DEF CInv, Kinded
  <1>h. \A g \in Tracked : Homes(g) \subseteq Locs
    BY <1>k, HomesInLocs
  <1>r. \A r \in {"rdi", "rsi", "rdx", "rax", "eflags", "r10", "r11"} : Native(r) \in CallerSaved /\ Native(r) \in Locs
    BY DEF CallerSaved, Locs
  <1>1. ASSUME NEW g \in Tracked, NEW v \in Vals, WriteReg(g, v) PROVE RInv'
    <2>1. /\ store' = [l \in Locs |-> IF l \in Homes(g) THEN v ELSE store[l]]
          /\ file' = [file EXCEPT ![g] = v] /\ at = "guest" /\ at' = "guest"
      BY <1>1 DEF WriteReg
    <2>2. ASSUME NEW h \in Tracked, NEW l \in Homes(h) PROVE store'[l] = file'[h]
      <3>1. CASE h = g
        BY <1>k, <1>h, <2>1, <3>1
      <3>2. CASE h # g
        <4>1. l \notin Homes(g) /\ store[l] = file[h]
          BY <2>1, <3>2 DEF ApartAndSaved, RInv, InGuest
        <4> QED
          BY <1>k, <1>h, <2>1, <3>2, <4>1
      <3> QED
        BY <3>1, <3>2
    <2> QED
      BY <1>c, <2>1, <2>2 DEF RInv, InGuest, InPad, InProxy
  <1>2. CASE PadEnter
    <2>1. /\ rsp = 0 /\ at = "guest" /\ at' = "pad" /\ file' = file
          /\ store' = [store EXCEPT ![Native("rdi")] = Junk, ![Native("rsi")] = Junk]
          /\ mem' = [w \in StackWords |-> IF \E i \in 1 .. 8 : w = rsp - 1 - i
                                          THEN store[Native(Saved[rsp - 1 - w])] ELSE mem[w]]
      BY <1>2, <1>c DEF PadEnter, CInv, RspAt
    <2>2. ASSUME NEW i \in 1 .. 8 PROVE mem'[-1 - i] = store[Native(Saved[i])]
      <3>1. -1 - i \in StackWords /\ -1 - i = rsp - 1 - i /\ rsp - 1 - (-1 - i) = i
        BY <2>1, SMT DEF StackWords
      <3> QED
        BY <2>1, <3>1
    <2>3. ASSUME NEW g \in Tracked, NEW l \in Homes(g) PROVE store[l] = file'[g] /\ (l \notin CallerSaved => store'[l] = store[l])
      BY <1>k, <1>h, <1>r, <2>1 DEF RInv, InGuest
    <2>4. ASSUME NEW g \in Tracked, NEW l \in Homes(g)
          PROVE  /\ \A i \in 1 .. 8 : l = Native(Saved[i]) => mem'[-1 - i] = file'[g]
                 /\ l \notin CallerSaved => store'[l] = file'[g]
      <3>1. store[l] = file'[g]
        BY <2>3
      <3>2. ASSUME NEW i \in 1 .. 8, l = Native(Saved[i]) PROVE mem'[-1 - i] = file'[g]
        BY <2>2, <3>1, <3>2
      <3> QED
        BY <2>3, <3>1, <3>2
    <2>5. InPad'
      BY <2>4 DEF InPad
    <2> QED
      BY <1>c, <2>1, <2>5 DEF RInv, InGuest, InProxy
  <1>3. CASE PadCallback
    <2>1. UNCHANGED <<rsp, file>> /\ rsp = -10 /\ at = "pad" /\ at' = "padExit" /\ HostRuns
      BY <1>3, <1>c DEF PadCallback, CInv, RspAt
    <2>2. \A i \in 1 .. 8 : -1 - i \in StackWords /\ ~(-1 - i < rsp)
      BY <2>1, SMT DEF StackWords
    <2>3. ASSUME NEW i \in 1 .. 8 PROVE mem'[-1 - i] = mem[-1 - i]
      BY <2>1, <2>2, <1>c, HostKeeps DEF CInv
    <2>4. \A l \in Locs \ CallerSaved : store'[l] = store[l]
      BY <2>1, <1>c, HostKeeps DEF CInv
    <2> QED
      BY <1>c, <1>h, <2>1, <2>3, <2>4 DEF RInv, InGuest, InPad, InProxy
  <1>4. CASE PadExit
    <2>1. /\ rsp = -10 /\ rsp' = rsp + 10 /\ at = "padExit" /\ at' = "guest" /\ UNCHANGED <<mem, file>>
          /\ store' = [l \in Locs |->
                         IF \E i \in 1 .. 8 : l = Native(Saved[i])
                           THEN mem[rsp' - 1 - (CHOOSE i \in 1 .. 8 : l = Native(Saved[i]))]
                           ELSE store[l]]
      BY <1>4, <1>c DEF PadExit, CInv, RspAt
    <2>2. rsp' = 0
      BY <2>1, SMT
    <2>3. ASSUME NEW g \in Tracked, NEW l \in Homes(g) PROVE store'[l] = file'[g]
      <3>1. CASE \E i \in 1 .. 8 : l = Native(Saved[i])
        <4> DEFINE i == CHOOSE j \in 1 .. 8 : l = Native(Saved[j])
        <4>1. i \in 1 .. 8 /\ l = Native(Saved[i])
          BY <3>1
        <4>2. store'[l] = mem[rsp' - 1 - i]
          BY <1>h, <2>1, <3>1
        <4> HIDE DEF i
        <4>3. rsp' - 1 - i = -1 - i
          BY <2>2, <4>1, SMT
        <4>4. mem[-1 - i] = file[g]
          BY <2>1, <4>1 DEF RInv, InPad
        <4> QED
          BY <2>1, <4>2, <4>3, <4>4
      <3>2. CASE ~\E i \in 1 .. 8 : l = Native(Saved[i])
        <4>1. l \notin CallerSaved
          BY <3>2 DEF ApartAndSaved, SavedLocs
        <4>2. store[l] = file[g]
          BY <2>1, <4>1 DEF RInv, InPad
        <4> QED
          BY <1>h, <2>1, <3>2, <4>2
      <3> QED
        BY <3>1, <3>2
    <2> QED
      BY <1>c, <2>1, <2>3 DEF RInv, InGuest, InPad, InProxy
  <1>5. CASE ProxyEnter
    <2>1. /\ rsp = 0 /\ at = "guest" /\ at' = "proxy" /\ UNCHANGED <<store, file>>
          /\ mem' = [mem EXCEPT ![rsp - 2] = store[Native("r10")], ![rsp - 1] = store[Native("r11")]]
      BY <1>5, <1>c DEF ProxyEnter, CInv, RspAt
    <2>2. rsp - 2 = -2 /\ rsp - 1 = -1 /\ -2 \in StackWords /\ -1 \in StackWords /\ -1 # -2
      BY <2>1, SMT DEF StackWords
    <2>3. mem'[-2] = store[Native("r10")] /\ mem'[-1] = store[Native("r11")]
      BY <1>k, <2>1, <2>2
    <2>4. ASSUME NEW g \in Tracked, NEW l \in Homes(g)
          PROVE  /\ l = Native("r10") => mem'[-2] = file'[g]
                 /\ l = Native("r11") => mem'[-1] = file'[g]
                 /\ l \notin CallerSaved => store'[l] = file'[g]
      <3>1. store[l] = file[g]
        BY <2>1 DEF RInv, InGuest
      <3> QED
        BY <2>1, <2>3, <3>1
    <2>5. InProxy'
      BY <2>4 DEF InProxy
    <2> QED
      BY <1>c, <2>1, <2>5 DEF RInv, InGuest, InPad
  <1>6. CASE ProxyCall
    <2>1. UNCHANGED <<rsp, file>> /\ rsp = -2 /\ at = "proxy" /\ at' = "proxyExit" /\ HostRuns
      BY <1>6, <1>c DEF ProxyCall, CInv, RspAt
    <2>2. -2 \in StackWords /\ -1 \in StackWords /\ ~(-2 < rsp) /\ ~(-1 < rsp)
      BY <2>1, SMT DEF StackWords
    <2>3. mem'[-2] = mem[-2] /\ mem'[-1] = mem[-1]
      BY <2>1, <2>2, <1>c, HostKeeps DEF CInv
    <2>4. \A l \in Locs \ CallerSaved : store'[l] = store[l]
      BY <2>1, <1>c, HostKeeps DEF CInv
    <2> QED
      BY <1>c, <1>h, <2>1, <2>3, <2>4 DEF RInv, InGuest, InPad, InProxy
  <1>7. CASE ProxyExit
    <2>1. /\ rsp = -2 /\ at = "proxyExit" /\ at' = "guest" /\ mem' = mem
          /\ store' = [store EXCEPT ![Native("r10")] = mem[rsp], ![Native("r11")] = mem[rsp + 1],
                                    ![Native("rdi")] = store[Native("rax")],
                                    ![Native("rdx")] = Junk, ![Native("rax")] = Junk,
                                    ![Native("eflags")] = Junk]
          /\ file' = [g \in GuestRegs |-> IF g \in KeptByCalls THEN file[g]
                                          ELSE store'[CHOOSE l \in Homes(g) : TRUE]]
      BY <1>7, <1>c DEF ProxyExit, CInv, RspAt
    <2>2. \A l \in Locs \ CallerSaved : store'[l] = store[l]
      BY <1>k, <1>r, <2>1
    <2>3. store'[Native("r10")] = mem[-2] /\ store'[Native("r11")] = mem[-1]
      <3>1. rsp + 1 = -1
        BY <2>1, SMT
      <3>2. \A r \in {"rdi", "rdx", "rax", "eflags"} : Native("r10") # Native(r) /\ Native("r11") # Native(r)
        BY Kinds
      <3>3. Native("r10") # Native("r11")
        BY Kinds
      <3> QED
        BY <1>k, <1>r, <2>1, <3>1, <3>2, <3>3
    <2>4. ASSUME NEW g \in Tracked, NEW l \in Homes(g) PROVE store'[l] = file'[g]
      <3>1. CASE g \in KeptByCalls
        <4>1. file'[g] = file[g]
          BY <1>k, <2>1, <3>1
        <4>2. CASE l \in {Native("r10"), Native("r11")}
          BY <2>1, <2>3, <4>1, <4>2 DEF RInv, InProxy
        <4>3. CASE l \notin CallerSaved
          <5>1. store[l] = file[g]
            BY <2>1, <4>3 DEF RInv, InProxy
          <5> QED
            BY <1>h, <2>2, <4>1, <4>3, <5>1
        <4> QED
          BY <3>1, <4>2, <4>3, KeptHomes
      <3>2. CASE g \notin KeptByCalls
        <4> DEFINE c == CHOOSE m \in Homes(g) : TRUE
        <4>1. c \in Homes(g)
          OBVIOUS
        <4>2. file'[g] = store'[c]
          BY <1>k, <2>1, <3>2
        <4> HIDE DEF c
        <4>3. CASE \A k, m \in Homes(g) : k = m
          <5>1. l = c
            BY <4>1, <4>3
          <5> QED
            BY <4>2, <5>1
        <4>4. CASE Homes(g) \cap CallerSaved = {}
          <5>1. store[l] = file[g] /\ store[c] = file[g]
            BY <2>1, <4>1, <4>4 DEF RInv, InProxy
          <5> QED
            BY <1>h, <2>2, <4>1, <4>2, <4>4, <5>1
        <4> QED
          BY <1>k, <4>3, <4>4, HomesShape
      <3> QED
        BY <3>1, <3>2
    <2> QED
      BY <1>c, <2>1, <2>4 DEF RInv, InGuest, InPad, InProxy
  <1>8. CASE UNCHANGED cvars
    BY <1>8, <1>c DEF cvars, RInv, InGuest, InPad, InProxy
  <1> QED
    BY <1>1, <1>2, <1>3, <1>4, <1>5, <1>6, <1>7, <1>8 DEF Next

(* A program that uses any registers whose homes are apart, and none that  *)
(* callbacks lose, always reads from a register what it wrote last: the    *)
(* callbacks never disturb it and library calls keep what the guest's      *)
(* convention says (resumable_landing_pad, create_proxy).                  *)
THEOREM RegistersSafe == ASSUME ApartAndSaved PROVE ContextSpec => []RegistersKept
  <1>1. Init => RInv
    BY RStart
  <1>2. RInv /\ [Next]_cvars => RInv'
    BY RSteps
  <1>3. RInv => RegistersKept
    BY DEF RInv, InGuest, RegistersKept
  <1> QED
    BY <1>1, <1>2, <1>3, PTL DEF ContextSpec
==============================================================================
