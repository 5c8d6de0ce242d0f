------------------------------ MODULE ExecPool -------------------------------
(***************************************************************************)
(* The pool of translated code (runner.rs, runner/compiler.rs).            *)
(*                                                                         *)
(* A chunk of ARM64 code is translated as a whole the first time one of    *)
(* its addresses is wanted.  Translations and proxies for library          *)
(* functions are copied, one after another, into executable regions that   *)
(* are mapped as they fill up.  Translated code is patched while it runs:  *)
(* a call to a landing pad becomes a jump once its target is translated.   *)
(*                                                                         *)
(* Guest addresses are counted in instructions, native ones in bytes; the  *)
(* regions lie above the guest's image.  The pool's mutex is left out: one *)
(* thread exists, and no pool function calls back into guest code.         *)
(***************************************************************************)
EXTENDS GuestCode

CONSTANTS
    Programs,         \* the guest programs considered
    Ranges,           \* <<start, end>> of each executable segment
    AllocSize,        \* EXECUTABLE_ALLOC_SIZE
    MmapBases,        \* addresses mmap may return for a region
    ProxyLen,         \* bytes of a library proxy
    InstrMap(_, _)    \* BlockEncoder's offsets: (program, chunk) -> function

VARIABLES
    code,                       \* the guest program (never changes)
    exec_ranges,
    executable_map,             \* chunk address -> [instr_map, addr, len]
    fully_used_allocs,
    current_alloc,              \* Null before the first region
    current_alloc_utilization,
    proxies,                    \* import -> [addr, len] of its proxy
    sites,                      \* patchable native code: address -> Cell
    status                      \* "run", "abort", "panic", ...: how the process fares

allocvars == <<fully_used_allocs, current_alloc, current_alloc_utilization>>
poolvars  == <<code, exec_ranges, executable_map, allocvars, proxies, sites, status>>

Null == 0
Index == 0 .. ChunkInstrs - 1
ChunkLen(prog, c) == InstrMap(prog, c)[ChunkInstrs] + CallLen

(* Any two regions the kernel hands out are apart, and above the guest. *)
ASSUME MmapAssumption ==
    /\ MmapBases \subseteq Nat
    /\ \A x \in MmapBases : x > GuestEnd
    /\ \A x, y \in MmapBases : x < y => x + AllocSize <= y
    /\ \A x \in MmapBases, l \in Labels : ~(x <= l /\ l < x + AllocSize)
    /\ AllocSize \in Nat

ASSUME RangeAssumption ==
    \A r \in Ranges : r \in Chunks \X (Chunks \cup {GuestEnd}) /\ r[1] < r[2]

(* The encoder lays instructions out in order, each right after the last;  *)
(* entry ChunkInstrs is the offset of the call that ends the chunk.  An    *)
(* ARM64 instruction becomes at most some 60 bytes, so a block always fits *)
(* in an empty region.                                                     *)
ASSUME EncoderAssumption ==
    \A prog \in Programs, c \in Chunks :
        LET m == InstrMap(prog, c) IN
        /\ m \in [0 .. ChunkInstrs -> Nat]
        /\ m[0] = 0
        /\ \A i \in Index : m[i + 1] = m[i] + EmitLen(prog, c + i)
        /\ \A i, j \in 0 .. ChunkInstrs : i < j => m[i] <= m[j]
        /\ ChunkLen(prog, c) <= AllocSize

ASSUME ProxyAssumption == ProxyLen \in Nat \ {0} /\ ProxyLen <= AllocSize

ASSUME ProgramAssumption ==
    \A prog \in Programs :
        /\ DOMAIN prog = GuestAddrs
        /\ \A a \in GuestAddrs :
              /\ prog[a].op \in Ops
              /\ prog[a].op \in DirectOps => prog[a].to \in 0 .. GuestEnd

------------------------------------------------------------------------------
(* Lookups *)

is_executable(p) == InRange(exec_ranges, p)

(* The native address of a translated guest address, others unchanged. *)
Resolve(map, p) ==
    IF is_executable(p)
      THEN LET chunk == map[ChunkAddr(p)]
           IN  chunk.addr + chunk.instr_map[p % ChunkInstrs]
      ELSE p

(* Faulty: leaves out the call that ends a chunk. *)
WithinBody(p, block) == block.addr <= p /\ p < block.addr + block.len - CallLen

Within(p, block) == block.addr <= p /\ p < block.addr + block.len

(* Faulty: scans from the first instruction up. *)
FirstAtOrBefore(chunk, p) ==
    CHOOSE i \in Index :
        /\ chunk.instr_map[i] <= p - chunk.addr
        /\ \A j \in 0 .. i - 1 : chunk.instr_map[j] > p - chunk.addr

(* The guest addresses from_exec may return for native address p: one for  *)
(* each chunk that holds p.  With none it panics.  The scan runs from the  *)
(* last instruction down to the first whose code starts at or before p.    *)
LastAtOrBefore(chunk, p) ==
    CHOOSE i \in Index :
        /\ chunk.instr_map[i] <= p - chunk.addr
        /\ \A j \in i + 1 .. ChunkInstrs - 1 : chunk.instr_map[j] > p - chunk.addr
FromExec(p) ==
    {c + LastAtOrBefore(executable_map[c], p) :
        c \in {d \in DOMAIN executable_map : Within(p, executable_map[d])}}

------------------------------------------------------------------------------
(* Region allocation *)

Regions == (fully_used_allocs \cup {current_alloc}) \ {Null}

(* Faulty: compares the block alone with the region. *)
FitsAlone(len) == current_alloc # Null /\ len <= AllocSize

Fits(len) ==
    /\ current_alloc # Null
    /\ len + current_alloc_utilization <= AllocSize

(* Where finalize_ass may put len bytes: behind the last block, or at the  *)
(* start of a new region wherever the kernel maps it.                      *)
Targets(len) ==
    IF Fits(len) THEN {current_alloc + current_alloc_utilization}
                 ELSE MmapBases \ Regions

(* Faulty: records the null pointer as the first full region. *)
AllocNewRegionAlways(base) ==
    /\ fully_used_allocs' = fully_used_allocs \cup {current_alloc}
    /\ current_alloc' = base

AllocNewRegion(base) ==
    /\ fully_used_allocs' = fully_used_allocs \cup ({current_alloc} \ {Null})
    /\ current_alloc' = base

(* Faulty: a new region's first block is not accounted for. *)
FinalizeAssUncounted(len, target) ==
    IF Fits(len)
      THEN /\ current_alloc_utilization' = current_alloc_utilization + len
           /\ UNCHANGED <<fully_used_allocs, current_alloc>>
      ELSE /\ AllocNewRegion(target)
           /\ current_alloc_utilization' = 0

FinalizeAss(len, target) ==
    IF Fits(len)
      THEN /\ current_alloc_utilization' = current_alloc_utilization + len
           /\ UNCHANGED <<fully_used_allocs, current_alloc>>
      ELSE /\ AllocNewRegion(target)
           /\ current_alloc_utilization' = len

(* The panics that end the process for want of something: of memory, when  *)
(* mmap fails; *)
GiveUp ==
    /\ status' = "abort"
    /\ UNCHANGED <<exec_ranges, executable_map, allocvars, proxies, sites>>
MmapFails(len) == ~Fits(len) /\ GiveUp

(* or of a translation: compile_chunk translates all instructions of the   *)
(* chunk, those that will not be executed too, and unwraps each result and *)
(* the encoder's.                                                          *)
CompilePanics(c) == (\E a \in c .. c + ChunkInstrs - 1 : code[a].op = "stop") /\ GiveUp

------------------------------------------------------------------------------
(* Translation of a chunk *)

Jmp(p)     == [kind |-> "jmp", to |-> p]
Call(kind) == [kind |-> kind, to |-> Null]   \* into a landing pad
CellKinds  == {"jmp", "rewrite", "indirect", "undef", "end"}

(* The code at the site of instruction a, when its chunk is placed at addr *)
(* with offsets m: a branch into an already translated chunk is linked.    *)
SiteCell(a, m, addr) ==
    LET i == code[a] IN
    CASE i.op \in DirectOps ->
             IF ChunkAddr(i.to) = ChunkAddr(a)
               THEN Jmp(addr + m[i.to % ChunkInstrs])
             ELSE IF ChunkAddr(i.to) \in DOMAIN executable_map
               THEN LET chunk == executable_map[ChunkAddr(i.to)]
                    IN  Jmp(chunk.addr + chunk.instr_map[i.to % ChunkInstrs])
             ELSE Call("rewrite")
      [] i.op \in IndirectOps -> Call("indirect")
      [] i.op = "undef" -> Call("undef")

SiteOffset(a, m) == m[a % ChunkInstrs] + BodyLen[code[a].op]
Leaving(c) == {a \in c .. c + ChunkInstrs - 1 : TailLen(code, a) > 0}

ChunkSites(c, m, addr) ==
    LET end   == addr + m[ChunkInstrs]
        at(a) == addr + SiteOffset(a, m)
    IN  [s \in {end} \cup {at(a) : a \in Leaving(c)} |->
            IF s = end THEN Call("end")
                       ELSE SiteCell(CHOOSE a \in Leaving(c) : at(a) = s, m, addr)]

Extend(f, g) == [x \in DOMAIN f \cup DOMAIN g |-> IF x \in DOMAIN g THEN g[x] ELSE f[x]]

(* write_jump, at no address when patch is Null. *)
WriteJump(cells, patch, p) ==
    IF patch = Null THEN cells ELSE [cells EXCEPT ![patch] = Jmp(p)]

(* Faulty: the map is not consulted. *)
MissingAlways(ptr) == is_executable(ptr)

(* get_exec(ptr), after which the caller writes a jump to the result at    *)
(* patch, if any.  The result is Resolve(executable_map', ptr).            *)
Missing(ptr) == is_executable(ptr) /\ ChunkAddr(ptr) \notin DOMAIN executable_map

Found(ptr, patch) ==
    /\ ~Missing(ptr)
    /\ sites' = WriteJump(sites, patch, Resolve(executable_map, ptr))
    /\ UNCHANGED <<exec_ranges, executable_map, allocvars, proxies, status>>

CompileChunk(ptr, patch) ==
    LET c == ChunkAddr(ptr)
        m == InstrMap(code, c)
    IN  /\ Missing(ptr)
        /\ \A a \in c .. c + ChunkInstrs - 1 : code[a].op # "stop"
        /\ \E addr \in Targets(ChunkLen(code, c)) :
              /\ FinalizeAss(ChunkLen(code, c), addr)
              /\ executable_map' = Extend(executable_map,
                    [x \in {c} |-> [instr_map |-> [i \in Index |-> m[i]],
                                    addr |-> addr, len |-> ChunkLen(code, c)]])
              /\ sites' = WriteJump(Extend(sites, ChunkSites(c, m, addr)),
                                    patch, Resolve(executable_map', ptr))
        /\ UNCHANGED <<exec_ranges, proxies, status>>

GetExec(ptr, patch) ==
    /\ \/ Found(ptr, patch)
       \/ CompileChunk(ptr, patch)
       \/ Missing(ptr) /\ CompilePanics(ChunkAddr(ptr))
       \/ Missing(ptr) /\ MmapFails(ChunkLen(code, ChunkAddr(ptr)))
    /\ UNCHANGED code

------------------------------------------------------------------------------
(* Operations *)

(* A callback panics because it cannot make out where it was called from:  *)
(* from_exec finds nothing, or nothing that rewrite_branch can decode.     *)
Panic ==
    /\ status' = "panic"
    /\ UNCHANGED <<code, exec_ranges, executable_map, allocvars, proxies, sites>>

DefineExecRange(r) ==
    /\ exec_ranges' = exec_ranges \cup {r}
    /\ UNCHANGED <<code, executable_map, allocvars, proxies, sites, status>>

(* create_lib_proxy: alloc_code of the proxy's code. *)
AllocCode(f) ==
    /\ \/ /\ \E addr \in Targets(ProxyLen) :
                /\ FinalizeAss(ProxyLen, addr)
                /\ proxies' = Extend(proxies,
                                [x \in {f} |-> [addr |-> addr, len |-> ProxyLen]])
          /\ UNCHANGED <<exec_ranges, executable_map, sites, status>>
       \/ MmapFails(ProxyLen)
    /\ UNCHANGED code

(* Faulty: takes the return address for the call's. *)
RewriteBranchAtReturn(site) ==
    \/ FromExec(site + CallLen) = {} /\ Panic
    \/ \E a \in FromExec(site + CallLen) :
          IF code[a].op \in DirectOps THEN GetExec(code[a].to, site) ELSE Panic

(* The callbacks that patch the call they were entered by.  The call sits  *)
(* CallLen bytes before the return address they find on the stack.         *)
RewriteBranch(site) ==
    \/ FromExec(site) = {} /\ Panic
    \/ \E a \in FromExec(site) :
          IF code[a].op \in DirectOps THEN GetExec(code[a].to, site) ELSE Panic

(* Faulty: continues with the chunk's last instruction. *)
EndOfChunkAgain(site) ==
    \/ FromExec(site) = {} /\ Panic
    \/ \E a \in FromExec(site) : GetExec(a, site)

EndOfChunk(site) ==
    \/ FromExec(site) = {} /\ Panic
    \/ \E a \in FromExec(site) : GetExec(a + 1, site)

SitesOf(kind) == {s \in DOMAIN sites : sites[s].kind = kind}

PoolInit ==
    /\ code \in Programs
    /\ exec_ranges = {}
    /\ executable_map = << >>
    /\ fully_used_allocs = {}
    /\ current_alloc = Null
    /\ current_alloc_utilization = 0
    /\ proxies = << >>
    /\ sites = << >>
    /\ status = "run"

(* load_object maps every segment, then binds every import, and only then  *)
(* lets the guest run; the requests of running code come in any order.     *)
Loaded == exec_ranges = Ranges /\ DOMAIN proxies = HostFns

PoolNext ==
    /\ status = "run"
    /\ \/ \E r \in Ranges \ exec_ranges : DefineExecRange(r)
       \/ /\ exec_ranges = Ranges
          /\ \E f \in HostFns \ DOMAIN proxies : AllocCode(f)
       \/ /\ Loaded
          /\ \/ \E p \in 0 .. GuestEnd : GetExec(p, Null)
             \/ \E s \in SitesOf("rewrite") : RewriteBranch(s)
             \/ \E s \in SitesOf("end") : EndOfChunk(s)

PoolSpec == PoolInit /\ [][PoolNext]_poolvars

------------------------------------------------------------------------------
(* Properties *)

Chunk == [instr_map : [Index -> Nat], addr : Nat, len : Nat]
Block == [addr : Nat, len : Nat]
Cell  == [kind : CellKinds, to : Nat]

(* Every variable of the pool has the shape the code gives it. *)
PoolDataOK ==
    /\ code \in Programs
    /\ exec_ranges \subseteq Ranges
    /\ DOMAIN executable_map \subseteq Chunks
    /\ \A c \in DOMAIN executable_map : executable_map[c] \in Chunk
    /\ fully_used_allocs \subseteq MmapBases
    /\ current_alloc \in MmapBases \cup {Null}
    /\ current_alloc_utilization \in 0 .. AllocSize
    /\ DOMAIN proxies \subseteq HostFns
    /\ \A f \in DOMAIN proxies : proxies[f] \in Block
    /\ DOMAIN sites \subseteq Nat
    /\ \A s \in DOMAIN sites : sites[s] \in Cell

(* ... and the pool itself ends the process by a panic only. *)
PoolTypeOK == PoolDataOK /\ status \in {"run", "abort", "panic"}

Owners == DOMAIN executable_map \cup DOMAIN proxies
BlockOf(o) == IF o \in DOMAIN executable_map THEN executable_map[o] ELSE proxies[o]

(* No block sticks out of the mapped region it was copied into, nor past   *)
(* the bytes finalize_ass has accounted for.                               *)
BlocksInRegions ==
    \A o \in Owners : \E base \in Regions :
        /\ base <= BlockOf(o).addr
        /\ BlockOf(o).addr + BlockOf(o).len <= base + AllocSize
        /\ base = current_alloc =>
              BlockOf(o).addr + BlockOf(o).len <= base + current_alloc_utilization

(* No block is copied over another: two translations, two proxies, or a    *)
(* translation and a proxy never share a byte, whatever regions the        *)
(* kernel returned and whichever block made alloc_new_region run.          *)
BlocksApart ==
    \A o, q \in Owners : o # q =>
        \/ BlockOf(o).addr + BlockOf(o).len <= BlockOf(q).addr
        \/ BlockOf(q).addr + BlockOf(q).len <= BlockOf(o).addr

(* from_exec is the inverse of the translation, on every byte: whichever   *)
(* byte of an instruction's code a callback asks about, it finds that      *)
(* instruction and no other chunk, even next to instructions that emit     *)
(* nothing and share their offset; the call that ends a chunk is           *)
(* attributed to the chunk's last instruction, which end_of_chunk relies   *)
(* on to find the next chunk.                                              *)
Attribution ==
    \A c \in DOMAIN executable_map :
        LET chunk == executable_map[c] IN
        /\ \A i \in Index : \A k \in 0 .. EmitLen(code, c + i) - 1 :
              FromExec(chunk.addr + chunk.instr_map[i] + k) = {c + i}
        /\ \A k \in chunk.len - CallLen .. chunk.len - 1 :
              FromExec(chunk.addr + k) = {c + ChunkInstrs - 1}

(* Every jump in translated code, whether emitted, linked at compile time  *)
(* or patched by a callback, leads to the translation of the branch's      *)
(* target (to the next chunk's, at the end of a chunk), or to the target   *)
(* itself if that is not executable.                                       *)
Leads(s, target) ==
    /\ s \in DOMAIN sites
    /\ sites[s].kind = "jmp" =>
          /\ is_executable(target) => ChunkAddr(target) \in DOMAIN executable_map
          /\ sites[s].to = Resolve(executable_map, target)

LinksCoherent ==
    \A c \in DOMAIN executable_map :
        LET chunk == executable_map[c] IN
        /\ \A a \in Leaving(c) : code[a].op \in DirectOps =>
              Leads(chunk.addr + SiteOffset(a, chunk.instr_map), code[a].to)
        /\ Leads(chunk.addr + chunk.len - CallLen, c + ChunkInstrs)

(* A translation is final: native addresses handed out earlier (in jumps,  *)
(* on shadow stacks, on the machine stack) stay the addresses of the same  *)
(* code, and the only bytes that ever change are a call to the             *)
(* rewrite_branch or end_of_chunk landing pad, once.                       *)
KeepsTranslation ==
    /\ \A c \in DOMAIN executable_map :
          /\ c \in DOMAIN executable_map'
          /\ executable_map'[c] = executable_map[c]
    /\ \A s \in DOMAIN sites :
          /\ s \in DOMAIN sites'
          /\ sites'[s] = sites[s] \/ sites[s].kind \in {"rewrite", "end"}

TranslationFinal == [][KeepsTranslation]_poolvars

(* No callback meets an address that it cannot attribute to an instruction *)
(* or an instruction that it cannot decode as a direct branch, whatever    *)
(* was translated, linked and patched before: what may still end the       *)
(* process is the translation of a chunk that is wanted, or a failed mmap. *)
CallbacksResolve == status # "panic"
==============================================================================
