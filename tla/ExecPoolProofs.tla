---------------------------- MODULE ExecPoolProofs ----------------------------
(***************************************************************************)
(* Proofs about the pool of translated code, for every guest program, every*)
(* choice of executable segments, and every way the kernel places regions: *)
(* the shape of the pool; then the code the callbacks patch, where the     *)
(* patchable sites are, that a translation is never changed but at a       *)
(* pending call, and that rewrite_branch and end_of_chunk never panic; and *)
(* last, that every jump in translated code leads to its target, whichever *)
(* of the three ways it was made: within a chunk, into a chunk translated  *)
(* before, or by a callback that patches the call it came from.            *)
(***************************************************************************)
EXTENDS ExecPool, WellFoundedInduction, TLAPS

------------------------------------------------------------------------------
(* Arithmetic *)

(* A non-empty set of natural numbers has a least element. *)
LEMMA LeastNumber ==
    ASSUME NEW T, T \subseteq Nat, T # {}
    PROVE  \E x \in T : \A y \in T : x <= y
  <1> DEFINE R == OpToRel(<, Nat)
  <1>1. IsWellFoundedOn(R, Nat)
    BY NatLessThanWellFounded
  <1>2. \A x, y \in Nat : x < y => <<x, y>> \in R
    BY DEF OpToRel
  <1> HIDE DEF R
  <1>3. PICK x \in T : \A y \in T : ~ (<<y, x>> \in R)
    BY <1>1, WFMin, Zenon
  <1>4. \A y \in T : ~(y < x)
    BY <1>2, <1>3, Zenon
  <1> QED
    BY <1>4, SMT

(* A non-empty set of chunk indices has a greatest element: what from_exec's scan  *)
(* from the end stops at.                                                  *)
LEMMA LastIndex ==
    ASSUME NEW S, S \subseteq Index, S # {}
    PROVE  \E x \in S : \A y \in S : y <= x
  <1> DEFINE T == {ChunkInstrs - i : i \in S}
  <1>0. \A i \in S : i \in Int /\ ChunkInstrs - i \in Nat
    BY SizeAssumption DEF Index
  <1>1. T \subseteq Nat /\ T # {}
    BY <1>0
  <1>2. PICK t \in T : \A y \in T : t <= y
    BY <1>1, LeastNumber
  <1>3. PICK x \in S : t = ChunkInstrs - x
    BY <1>2
  <1>4. \A y \in S : ChunkInstrs - x <= ChunkInstrs - y
    BY <1>2, <1>3
  <1>5. \A y \in S : y <= x
    BY <1>0, <1>4, SizeAssumption
  <1> QED
    BY <1>5

------------------------------------------------------------------------------
(* Chunks and their translation *)

LEMMA ChunkFacts ==
    /\ Chunks \subseteq GuestAddrs
    /\ GuestAddrs \subseteq Nat
    /\ \A a \in GuestAddrs : ChunkAddr(a) \in Chunks
    /\ \A c \in Chunks : c + ChunkInstrs <= GuestEnd
    /\ \A c \in Chunks, i \in Index : c + i \in GuestAddrs
  <1>1. GuestAddrs \subseteq Nat
    BY SizeAssumption DEF GuestAddrs
  <1>2. \A a \in GuestAddrs : ChunkAddr(a) \in Chunks /\ ChunkAddr(a) \in Int
    BY <1>1, SizeAssumption DEF Chunks, ChunkAddr
  <1>3. \A c \in Chunks : c \in Int
    BY <1>2 DEF Chunks
  <1>4. ASSUME NEW c \in Chunks
        PROVE  /\ c \in GuestAddrs
               /\ c + ChunkInstrs <= GuestEnd
               /\ \A i \in Index : c + i \in GuestAddrs
    <2>1. \A x \in Int : c <= x /\ x <= c + ChunkInstrs - 1 => x \in GuestAddrs
      BY <1>3, <1>4, WholeChunksAssumption, SizeAssumption
    <2>2. c + ChunkInstrs - 1 \in GuestAddrs
      BY <1>3, <2>1, SizeAssumption
    <2> QED
      BY <1>3, <2>1, <2>2, SizeAssumption DEF GuestAddrs, Index
  <1> QED
    BY <1>1, <1>2, <1>4

(* Executable addresses are guest addresses. *)
LEMMA ExecutableFacts ==
    ASSUME exec_ranges \subseteq Ranges, NEW p \in Nat, is_executable(p)
    PROVE  p \in GuestAddrs /\ ChunkAddr(p) \in Chunks
  <1>1. PICK r \in Ranges : r[1] <= p /\ p < r[2]
    BY DEF is_executable, InRange
  <1>2. r \in Chunks \X (Chunks \cup {GuestEnd})
    BY <1>1, RangeAssumption
  <1>3. \A c \in Chunks : c \in Int /\ c <= GuestEnd
    BY ChunkFacts, SizeAssumption DEF GuestAddrs
  <1>3a. r[2] \in Chunks \cup {GuestEnd}
    BY <1>2
  <1>4. p \in GuestAddrs
    BY <1>1, <1>3, <1>3a, SizeAssumption DEF GuestAddrs
  <1> QED
    BY <1>4, ChunkFacts

LEMMA OffsetFacts ==
    ASSUME NEW prog \in Programs, NEW c \in Chunks
    PROVE  /\ \A i \in 0 .. ChunkInstrs : InstrMap(prog, c)[i] \in Nat
           /\ InstrMap(prog, c)[0] = 0
           /\ ChunkLen(prog, c) \in Nat
           /\ ChunkLen(prog, c) = InstrMap(prog, c)[ChunkInstrs] + CallLen
           /\ ChunkLen(prog, c) <= AllocSize
           /\ [i \in Index |-> InstrMap(prog, c)[i]] \in [Index -> Nat]
  <1> DEFINE m == InstrMap(prog, c)
  <1>1. m \in [0 .. ChunkInstrs -> Nat] /\ m[0] = 0 /\ ChunkLen(prog, c) <= AllocSize
    BY EncoderAssumption
  <1>2. ChunkInstrs \in 0 .. ChunkInstrs /\ Index \subseteq 0 .. ChunkInstrs
    BY SizeAssumption DEF Index
  <1>3. ChunkLen(prog, c) = m[ChunkInstrs] + CallLen
    BY DEF ChunkLen
  <1> HIDE DEF m
  <1>4. \A i \in 0 .. ChunkInstrs : m[i] \in Nat
    BY <1>1
  <1>5. ChunkLen(prog, c) \in Nat
    BY <1>2, <1>3, <1>4, SizeAssumption
  <1> QED
    BY <1>1, <1>2, <1>3, <1>4, <1>5 DEF m

------------------------------------------------------------------------------
(* The inductive invariant: types, each chunk's entry in the map is what   *)
(* the encoder made of that chunk, and the layout of blocks.  The layout   *)
(* alone is not inductive: where the next block goes is only safe because  *)
(* the count of the current region covers all blocks in it.                *)
MapShape ==
    \A c \in DOMAIN executable_map :
        /\ executable_map[c].instr_map = [i \in Index |-> InstrMap(code, c)[i]]
        /\ executable_map[c].len = ChunkLen(code, c)

IInv == PoolDataOK /\ MapShape /\ BlocksInRegions /\ BlocksApart

(* What finalize_ass does to the regions. *)
LEMMA FinalizeFacts ==
    ASSUME PoolDataOK, NEW len \in Nat, len <= AllocSize,
           NEW addr \in Targets(len), FinalizeAss(len, addr)
    PROVE  /\ fully_used_allocs' \subseteq MmapBases
           /\ current_alloc' \in MmapBases
           /\ current_alloc_utilization' \in 0 .. AllocSize
           /\ addr \in Nat /\ addr # Null
           /\ current_alloc' <= addr
           /\ addr + len = current_alloc' + current_alloc_utilization'
           /\ Regions' = Regions \cup {current_alloc'}
           /\ \/ /\ current_alloc' = current_alloc
                 /\ addr = current_alloc + current_alloc_utilization
              \/ current_alloc' \notin Regions /\ addr = current_alloc'
  <1>1. /\ fully_used_allocs \subseteq MmapBases
        /\ current_alloc \in MmapBases \cup {Null}
        /\ current_alloc_utilization \in 0 .. AllocSize
    BY DEF PoolDataOK
  <1>2. \A x \in MmapBases : x \in Nat /\ x > 0
    BY MmapAssumption, SizeAssumption
  <1>3. CASE Fits(len)
    <2>1. /\ current_alloc' = current_alloc
          /\ fully_used_allocs' = fully_used_allocs
          /\ current_alloc_utilization' = current_alloc_utilization + len
          /\ addr = current_alloc + current_alloc_utilization
      BY <1>3 DEF FinalizeAss, Targets
    <2>2. /\ current_alloc \in MmapBases
          /\ len + current_alloc_utilization <= AllocSize
      BY <1>1, <1>3 DEF Fits
    <2>3. Regions' = Regions \cup {current_alloc'}
      BY <1>2, <2>1, <2>2 DEF Regions, Null
    <2> QED
      BY <1>1, <1>2, <2>1, <2>2, <2>3, MmapAssumption DEF Null
  <1>4. CASE ~Fits(len)
    <2>1. /\ current_alloc' = addr
          /\ fully_used_allocs' = fully_used_allocs \cup ({current_alloc} \ {Null})
          /\ current_alloc_utilization' = len
          /\ addr \in MmapBases \ Regions
      BY <1>4 DEF FinalizeAss, Targets, AllocNewRegion
    <2>2. Regions' = Regions \cup {current_alloc'}
      BY <1>2, <2>1 DEF Regions, Null
    <2> QED
      BY <1>1, <1>2, <2>1, <2>2, MmapAssumption DEF Null
  <1> QED
    BY <1>3, <1>4

(* A block put where finalize_ass puts it leaves the layout intact. *)
LEMMA NewBlock ==
    ASSUME PoolDataOK, BlocksInRegions, BlocksApart,
           \A q \in Owners : BlockOf(q).addr \in Nat /\ BlockOf(q).len \in Nat,
           NEW len \in Nat, len <= AllocSize,
           NEW addr \in Targets(len), FinalizeAss(len, addr),
           NEW o, Owners' = Owners \cup {o},
           \A q \in Owners : q # o /\ BlockOf(q)' = BlockOf(q),
           BlockOf(o)'.addr = addr, BlockOf(o)'.len = len
    PROVE  BlocksInRegions' /\ BlocksApart'
  <1>1. PICK region \in MmapBases, used \in 0 .. AllocSize :
          /\ region = current_alloc' /\ used = current_alloc_utilization'
          /\ addr \in Nat
          /\ region <= addr
          /\ addr + len = region + used
          /\ Regions' = Regions \cup {region}
          /\ \/ /\ region = current_alloc
                /\ addr = current_alloc + current_alloc_utilization
             \/ region \notin Regions /\ addr = region
    BY FinalizeFacts
  <1>2. /\ MmapBases \subseteq Nat
        /\ AllocSize \in Nat
        /\ \A x, y \in MmapBases : x < y => x + AllocSize <= y
    BY MmapAssumption
  <1>3. Regions \subseteq MmapBases
    BY DEF PoolDataOK, Regions
  <1>4. /\ region \in Nat /\ used \in Nat
        /\ addr <= region + used
        /\ addr + len <= region + used
        /\ addr + len <= region + AllocSize
    <2>1. region \in Nat /\ used \in 0 .. AllocSize /\ addr \in Nat
      BY <1>1, <1>2
    <2>2. addr + len = region + used
      BY <1>1
    <2> QED
      BY <1>2, <2>1, <2>2
  <1>5. ASSUME NEW q \in Owners
        PROVE  \E base \in Regions :
                  /\ base <= BlockOf(q).addr
                  /\ BlockOf(q).addr + BlockOf(q).len <= base + AllocSize
                  /\ base = region =>
                        /\ BlockOf(q).addr + BlockOf(q).len <= addr
                        /\ BlockOf(q).addr + BlockOf(q).len <= base + used
    <2>1. PICK base \in Regions :
             /\ base <= BlockOf(q).addr
             /\ BlockOf(q).addr + BlockOf(q).len <= base + AllocSize
             /\ base = current_alloc =>
                   BlockOf(q).addr + BlockOf(q).len <= base + current_alloc_utilization
      BY DEF BlocksInRegions
    <2>2. base = region =>
             /\ base = current_alloc
             /\ addr = base + current_alloc_utilization
      BY <1>1
    <2>3. PICK a \in Nat, l \in Nat : a = BlockOf(q).addr /\ l = BlockOf(q).len
      OBVIOUS
    <2>4. base = region => a + l <= addr
      BY <2>1, <2>2, <2>3
    <2>5. base = region => a + l <= base + used
      <3>1. addr \in Nat
        BY <1>1
      <3> QED
        BY <1>4, <2>4, <3>1
    <2> QED
      BY <2>1, <2>3, <2>4, <2>5
  <1>6. ASSUME NEW q \in Owners
        PROVE  \/ BlockOf(q).addr + BlockOf(q).len <= addr
               \/ addr + len <= BlockOf(q).addr
    <2>1. PICK base \in Regions :
             /\ base <= BlockOf(q).addr
             /\ BlockOf(q).addr + BlockOf(q).len <= base + AllocSize
             /\ base = region => BlockOf(q).addr + BlockOf(q).len <= addr
      BY <1>5
    <2>2. PICK a \in Nat, l \in Nat : a = BlockOf(q).addr /\ l = BlockOf(q).len
      OBVIOUS
    <2>3. base \in MmapBases /\ base \in Nat
      BY <1>2, <1>3
    <2>4. \/ base = region
          \/ base + AllocSize <= region
          \/ region + AllocSize <= base
      BY <1>2, <1>4, <2>3
    <2>5. addr \in Nat /\ region <= addr
      BY <1>1
    <2>6. base <= a /\ a + l <= base + AllocSize /\ (base = region => a + l <= addr)
      BY <2>1, <2>2
    <2>7. a + l <= addr \/ addr + len <= a
      BY <1>2, <1>4, <2>3, <2>4, <2>5, <2>6
    <2> QED
      BY <2>2, <2>7
  <1>7. BlocksInRegions'
    <2> SUFFICES ASSUME NEW q \in Owners'
                 PROVE  \E base \in Regions' :
                           /\ base <= BlockOf(q)'.addr
                           /\ BlockOf(q)'.addr + BlockOf(q)'.len <= base + AllocSize
                           /\ base = region =>
                                 BlockOf(q)'.addr + BlockOf(q)'.len <= base + used
      BY <1>1 DEF BlocksInRegions
    <2>1. CASE q = o
      <3>1. region \in Regions' /\ addr + len <= region + used
        BY <1>1, <1>4
      <3> QED
        BY <1>1, <1>4, <2>1, <3>1
    <2>2. CASE q \in Owners
      BY <1>1, <1>5, <2>2
    <2> QED
      BY <2>1, <2>2
  <1>8. BlocksApart'
    <2> SUFFICES ASSUME NEW p \in Owners', NEW q \in Owners', p # q
                 PROVE  \/ BlockOf(p)'.addr + BlockOf(p)'.len <= BlockOf(q)'.addr
                        \/ BlockOf(q)'.addr + BlockOf(q)'.len <= BlockOf(p)'.addr
      BY DEF BlocksApart
    <2>1. CASE p \in Owners /\ q \in Owners
      BY <2>1 DEF BlocksApart
    <2>2. CASE p = o /\ q \in Owners
      BY <1>6, <2>2
    <2>3. CASE p \in Owners /\ q = o
      BY <1>6, <2>3
    <2> QED
      BY <2>1, <2>2, <2>3
  <1> QED
    BY <1>7, <1>8

------------------------------------------------------------------------------
(* What the operators of the pool return *)

(* The position of an address in its chunk. *)
LEMMA IndexFacts ==
    ASSUME NEW p \in Nat
    PROVE  p % ChunkInstrs \in Index
  BY SizeAssumption DEF Index

(* Addresses that get_exec finds or has just translated have a code address. *)
LEMMA ResolveType ==
    ASSUME NEW map, NEW p \in Nat,
           is_executable(p) => map[ChunkAddr(p)] \in Chunk
    PROVE  Resolve(map, p) \in Nat
  <1>1. CASE is_executable(p)
    <2>1. PICK chunk \in Chunk : chunk = map[ChunkAddr(p)]
      BY <1>1
    <2>2. chunk.addr \in Nat /\ chunk.instr_map[p % ChunkInstrs] \in Nat
      BY IndexFacts DEF Chunk
    <2>3. Resolve(map, p) = chunk.addr + chunk.instr_map[p % ChunkInstrs]
      BY <1>1, <2>1 DEF Resolve
    <2> QED
      BY <2>2, <2>3
  <1>2. CASE ~is_executable(p)
    BY <1>2 DEF Resolve
  <1> QED
    BY <1>1, <1>2

(* Every address from_exec may return is a guest address. *)
LEMMA FromExecType ==
    ASSUME PoolDataOK, MapShape, NEW p \in Nat, NEW a \in FromExec(p)
    PROVE  a \in GuestAddrs
  <1>1. PICK c \in DOMAIN executable_map :
           /\ Within(p, executable_map[c])
           /\ a = c + LastAtOrBefore(executable_map[c], p)
    BY DEF FromExec
  <1>2. c \in Chunks /\ code \in Programs /\ executable_map[c] \in Chunk
    BY DEF PoolDataOK
  <1> DEFINE m == executable_map[c].instr_map
             offset == p - executable_map[c].addr
             S == {i \in Index : m[i] <= offset}
  <1>3. 0 \in Index
    BY SizeAssumption DEF Index
  <1>4. m[0] = 0
    BY <1>2, <1>3, OffsetFacts DEF MapShape
  <1>5. executable_map[c].addr \in Nat /\ executable_map[c].addr <= p
    BY <1>1, <1>2 DEF Chunk, Within
  <1>6. 0 \in S
    BY <1>3, <1>4, <1>5
  <1>7. PICK i \in S : \A j \in S : j <= i
    BY <1>6, LastIndex
  <1>8. i \in Index /\ m[i] <= offset
    BY <1>7
  <1>9. ASSUME NEW j \in i + 1 .. ChunkInstrs - 1
        PROVE  m[j] > offset
    <2>1. j \in Index /\ j > i
      BY <1>8, SizeAssumption DEF Index
    <2>2. m[j] \in Nat /\ offset \in Int
      BY <1>2, <1>5, <2>1 DEF Chunk
    <2>3. j \notin S
      BY <1>7, <1>8, <2>1, SizeAssumption DEF Index
    <2> QED
      BY <2>1, <2>2, <2>3
  <1>10. LastAtOrBefore(executable_map[c], p) \in Index
    BY <1>8, <1>9 DEF LastAtOrBefore
  <1> QED
    BY <1>1, <1>2, <1>10, ChunkFacts

(* The code at the end of an instruction that leaves its place is a cell. *)
LEMMA SiteCellType ==
    ASSUME PoolDataOK, NEW a \in GuestAddrs, TailLen(code, a) > 0,
           NEW m, \A i \in Index : m[i] \in Nat, NEW addr \in Nat
    PROVE  SiteCell(a, m, addr) \in Cell
  <1> DEFINE i == code[a]
  <1>1. /\ i.op \in Ops
        /\ i.op \in DirectOps => i.to \in Nat
    BY ProgramAssumption, SizeAssumption DEF PoolDataOK
  <1>2. Null \in Nat
    BY DEF Null
  <1>3. ASSUME NEW x \in Nat PROVE Jmp(x) \in Cell
    BY DEF Jmp, Cell, CellKinds
  <1>4. Call("rewrite") \in Cell /\ Call("indirect") \in Cell /\ Call("undef") \in Cell
    BY <1>2 DEF Call, Cell, CellKinds
  <1>5. CASE i.op \in DirectOps
    <2>1. i.to % ChunkInstrs \in Index
      BY <1>1, <1>5, IndexFacts
    <2>2. CASE ChunkAddr(i.to) = ChunkAddr(a)
      <3>1. SiteCell(a, m, addr) = Jmp(addr + m[i.to % ChunkInstrs])
        BY <1>5, <2>2 DEF SiteCell, DirectOps, IndirectOps
      <3>2. addr + m[i.to % ChunkInstrs] \in Nat
        BY <2>1
      <3> QED
        BY <1>3, <3>1, <3>2
    <2>3. CASE /\ ChunkAddr(i.to) # ChunkAddr(a)
               /\ ChunkAddr(i.to) \in DOMAIN executable_map
      <3>1. PICK chunk \in Chunk : chunk = executable_map[ChunkAddr(i.to)]
        BY <2>3 DEF PoolDataOK
      <3>2. SiteCell(a, m, addr) = Jmp(chunk.addr + chunk.instr_map[i.to % ChunkInstrs])
        BY <1>5, <2>3, <3>1 DEF SiteCell, DirectOps, IndirectOps
      <3>3. chunk.addr \in Nat /\ chunk.instr_map[i.to % ChunkInstrs] \in Nat
        BY <2>1 DEF Chunk
      <3> QED
        BY <1>3, <3>2, <3>3
    <2>4. CASE /\ ChunkAddr(i.to) # ChunkAddr(a)
               /\ ChunkAddr(i.to) \notin DOMAIN executable_map
      BY <1>4, <1>5, <2>4 DEF SiteCell
    <2> QED
      BY <2>2, <2>3, <2>4
  <1>6. CASE i.op \in IndirectOps
    BY <1>4, <1>6 DEF SiteCell, DirectOps, IndirectOps
  <1>7. CASE i.op = "undef"
    BY <1>4, <1>7 DEF SiteCell, DirectOps, IndirectOps
  <1>8. i.op \in DirectOps \cup IndirectOps \cup {"undef"}
    BY <1>1 DEF TailLen
  <1> QED
    BY <1>5, <1>6, <1>7, <1>8

(* A chunk's patchable code is at natural addresses and made of cells. *)
LEMMA ChunkSitesType ==
    ASSUME PoolDataOK, NEW c \in Chunks, NEW addr \in Nat
    PROVE  LET new == ChunkSites(c, InstrMap(code, c), addr)
           IN  /\ DOMAIN new \subseteq Nat
               /\ \A s \in DOMAIN new : new[s] \in Cell
  <1> DEFINE m == InstrMap(code, c)
             end == addr + m[ChunkInstrs]
             at(a) == addr + SiteOffset(a, m)
             new == ChunkSites(c, m, addr)
  <1>1. code \in Programs
    BY DEF PoolDataOK
  <1>2. \A i \in 0 .. ChunkInstrs : m[i] \in Nat
    BY <1>1, OffsetFacts
  <1>3. ChunkInstrs \in 0 .. ChunkInstrs /\ Index \subseteq 0 .. ChunkInstrs
    BY SizeAssumption DEF Index
  <1>4. \A a \in Leaving(c) : a \in GuestAddrs /\ TailLen(code, a) > 0
    BY WholeChunksAssumption DEF Leaving
  <1> HIDE DEF m
  <1>5. \A i \in Index : m[i] \in Nat
    BY <1>2, <1>3
  <1>6. ASSUME NEW a \in Leaving(c)
        PROVE  at(a) \in Nat
    <2>1. a \in Nat /\ code[a].op \in Ops
      BY <1>1, <1>4, ChunkFacts, ProgramAssumption
    <2>2. BodyLen[code[a].op] \in Nat
      BY <2>1, SizeAssumption
    <2>3. m[a % ChunkInstrs] \in Nat
      BY <1>5, <2>1, IndexFacts
    <2> QED
      BY <2>2, <2>3 DEF SiteOffset
  <1>7. end \in Nat
    BY <1>2, <1>3
  <1>8. new = [s \in {end} \cup {at(a) : a \in Leaving(c)} |->
                 IF s = end THEN Call("end")
                            ELSE SiteCell(CHOOSE a \in Leaving(c) : at(a) = s, m, addr)]
    BY DEF ChunkSites
  <1>9. DOMAIN new = {end} \cup {at(a) : a \in Leaving(c)}
    BY <1>8
  <1>10. ASSUME NEW s \in DOMAIN new
         PROVE  new[s] \in Cell
    <2>1. CASE s = end
      BY <1>8, <1>9, <2>1 DEF Call, Cell, CellKinds, Null
    <2>2. CASE s # end
      <3> DEFINE a == CHOOSE a \in Leaving(c) : at(a) = s
      <3>1. a \in Leaving(c)
        BY <1>9, <2>2
      <3>2. new[s] = SiteCell(a, m, addr)
        BY <1>8, <1>9, <2>2
      <3> HIDE DEF a
      <3>3. SiteCell(a, m, addr) \in Cell
        BY <1>4, <1>5, <3>1, SiteCellType
      <3> QED
        BY <3>2, <3>3
    <2> QED
      BY <2>1, <2>2
  <1>11. DOMAIN new \subseteq Nat
    BY <1>6, <1>7, <1>9
  <1> QED
    BY <1>10, <1>11 DEF m

(* Patching a known site keeps the sites well formed. *)
LEMMA WriteJumpType ==
    ASSUME NEW cells, DOMAIN cells \subseteq Nat,
           \A s \in DOMAIN cells : cells[s] \in Cell,
           NEW patch, NEW p \in Nat
    PROVE  LET new == WriteJump(cells, patch, p)
           IN  /\ DOMAIN new \subseteq Nat
               /\ \A s \in DOMAIN new : new[s] \in Cell
  BY DEF WriteJump, Jmp, Cell, CellKinds

(* Extending one function by another keeps the range of both. *)
LEMMA ExtendFacts ==
    ASSUME NEW f, NEW g
    PROVE  /\ DOMAIN Extend(f, g) = DOMAIN f \cup DOMAIN g
           /\ \A x \in DOMAIN g : Extend(f, g)[x] = g[x]
           /\ \A x \in DOMAIN f \ DOMAIN g : Extend(f, g)[x] = f[x]
  BY DEF Extend

------------------------------------------------------------------------------
(* The operations preserve the invariant *)

(* Steps that neither translate nor allocate leave map and layout alone. *)
LEMMA SameBlocks ==
    ASSUME IInv, UNCHANGED <<code, executable_map, allocvars, proxies>>
    PROVE  MapShape' /\ BlocksInRegions' /\ BlocksApart'
  BY DEF IInv, MapShape, BlocksInRegions, BlocksApart, Owners, BlockOf, Regions, allocvars

LEMMA BlockTypes ==
    ASSUME PoolDataOK
    PROVE  \A q \in Owners : BlockOf(q).addr \in Nat /\ BlockOf(q).len \in Nat
  BY DEF PoolDataOK, Owners, BlockOf, Chunk, Block

LEMMA FoundInv ==
    ASSUME IInv, UNCHANGED code, NEW ptr \in Nat, NEW patch, Found(ptr, patch)
    PROVE  IInv'
  <1>1. /\ ~Missing(ptr)
        /\ sites' = WriteJump(sites, patch, Resolve(executable_map, ptr))
        /\ UNCHANGED <<exec_ranges, executable_map, allocvars, proxies, status>>
    BY DEF Found
  <1>2. is_executable(ptr) => executable_map[ChunkAddr(ptr)] \in Chunk
    BY <1>1 DEF Missing, IInv, PoolDataOK
  <1>3. Resolve(executable_map, ptr) \in Nat
    BY <1>2, ResolveType
  <1>4. DOMAIN sites' \subseteq Nat /\ \A s \in DOMAIN sites' : sites'[s] \in Cell
    BY <1>1, <1>3, WriteJumpType DEF IInv, PoolDataOK
  <1>5. PoolDataOK'
    BY <1>1, <1>4 DEF IInv, PoolDataOK, allocvars
  <1> QED
    BY <1>1, <1>5, SameBlocks DEF IInv

LEMMA CompileChunkInv ==
    ASSUME IInv, UNCHANGED code, NEW ptr \in Nat, NEW patch, CompileChunk(ptr, patch)
    PROVE  IInv'
  <1> DEFINE c == ChunkAddr(ptr)
             m == InstrMap(code, c)
             len == ChunkLen(code, c)
             entry(addr) == [instr_map |-> [i \in Index |-> m[i]],
                             addr |-> addr, len |-> len]
  <1>1. /\ is_executable(ptr) /\ c \notin DOMAIN executable_map
        /\ UNCHANGED <<exec_ranges, proxies, status>>
    BY DEF CompileChunk, Missing
  <1>2. PICK addr \in Targets(len) :
          /\ FinalizeAss(len, addr)
          /\ executable_map' = Extend(executable_map, [x \in {c} |-> entry(addr)])
          /\ sites' = WriteJump(Extend(sites, ChunkSites(c, m, addr)),
                                patch, Resolve(executable_map', ptr))
    BY DEF CompileChunk
  <1>3. ptr \in GuestAddrs /\ c \in Chunks
    BY <1>1, ExecutableFacts DEF IInv, PoolDataOK
  <1>4. len \in Nat /\ len <= AllocSize /\ [i \in Index |-> m[i]] \in [Index -> Nat]
    BY <1>3, OffsetFacts DEF IInv, PoolDataOK
  <1>5. /\ fully_used_allocs' \subseteq MmapBases
        /\ current_alloc' \in MmapBases
        /\ current_alloc_utilization' \in 0 .. AllocSize
        /\ addr \in Nat
    BY <1>2, <1>4, FinalizeFacts DEF IInv
  <1>6. entry(addr) \in Chunk
    BY <1>4, <1>5 DEF Chunk
  <1>7. /\ DOMAIN executable_map' = DOMAIN executable_map \cup {c}
        /\ executable_map'[c] = entry(addr)
        /\ \A d \in DOMAIN executable_map : executable_map'[d] = executable_map[d]
    <2> DEFINE g == [x \in {c} |-> entry(addr)]
    <2>1. DOMAIN g = {c} /\ g[c] = entry(addr)
      OBVIOUS
    <2>2. executable_map' = Extend(executable_map, g)
      BY <1>2
    <2> HIDE DEF g, c, entry
    <2>3. /\ DOMAIN Extend(executable_map, g) = DOMAIN executable_map \cup DOMAIN g
          /\ \A x \in DOMAIN g : Extend(executable_map, g)[x] = g[x]
          /\ \A x \in DOMAIN executable_map \ DOMAIN g :
                Extend(executable_map, g)[x] = executable_map[x]
      BY ExtendFacts
    <2> QED
      BY <1>1, <2>1, <2>2, <2>3 DEF c
  <1> HIDE DEF c, m, len, entry
  <1>8. MapShape'
    <2> SUFFICES ASSUME NEW d \in DOMAIN executable_map'
                 PROVE  /\ executable_map'[d].instr_map = [i \in Index |-> InstrMap(code, d)[i]]
                        /\ executable_map'[d].len = ChunkLen(code, d)
      BY DEF MapShape
    <2>1. CASE d = c
      BY <1>7, <2>1 DEF entry, m, len
    <2>2. CASE d \in DOMAIN executable_map
      BY <1>7, <2>2 DEF IInv, MapShape
    <2> QED
      BY <1>7, <2>1, <2>2
  <1>9. BlocksInRegions' /\ BlocksApart'
    <2>1. \A q \in Owners : q # c
      BY <1>1, <1>3, ChunkFacts, LabelAssumption DEF IInv, PoolDataOK, Owners
    <2>2. Owners' = Owners \cup {c}
      BY <1>1, <1>7 DEF Owners
    <2>3. \A q \in Owners : BlockOf(q)' = BlockOf(q)
      BY <1>1, <1>7, <2>1 DEF Owners, BlockOf
    <2>4. BlockOf(c)' = entry(addr)
      BY <1>7 DEF BlockOf
    <2>5. BlockOf(c)'.addr = addr /\ BlockOf(c)'.len = len
      BY <2>4 DEF entry
    <2> QED
      BY <1>2, <1>4, <2>1, <2>2, <2>3, <2>5, BlockTypes, NewBlock DEF IInv
  <1>10. DOMAIN sites' \subseteq Nat /\ \A s \in DOMAIN sites' : sites'[s] \in Cell
    <2> DEFINE new == ChunkSites(c, m, addr)
               old == Extend(sites, new)
    <2>1. DOMAIN new \subseteq Nat /\ \A s \in DOMAIN new : new[s] \in Cell
      BY <1>3, <1>5, ChunkSitesType DEF IInv, m
    <2>2. DOMAIN sites \subseteq Nat /\ \A s \in DOMAIN sites : sites[s] \in Cell
      BY DEF IInv, PoolDataOK
    <2> HIDE DEF new
    <2>3. /\ DOMAIN old = DOMAIN sites \cup DOMAIN new
          /\ \A s \in DOMAIN new : old[s] = new[s]
          /\ \A s \in DOMAIN sites \ DOMAIN new : old[s] = sites[s]
      BY ExtendFacts
    <2> HIDE DEF old
    <2>4. DOMAIN old \subseteq Nat /\ \A s \in DOMAIN old : old[s] \in Cell
      BY <2>1, <2>2, <2>3
    <2>5. Resolve(executable_map', ptr) \in Nat
      <3>1. executable_map'[ChunkAddr(ptr)] \in Chunk
        BY <1>6, <1>7 DEF c
      <3> HIDE DEF Chunk
      <3> QED
        BY <3>1, ResolveType
    <2> HIDE DEF old
    <2> QED
      BY <1>2, <2>4, <2>5, WriteJumpType DEF old, new
  <1>11. PoolDataOK'
    <2>1. /\ DOMAIN executable_map' \subseteq Chunks
          /\ \A d \in DOMAIN executable_map' : executable_map'[d] \in Chunk
      BY <1>3, <1>6, <1>7 DEF IInv, PoolDataOK
    <2> QED
      BY <1>1, <1>5, <1>10, <2>1 DEF IInv, PoolDataOK
  <1> QED
    BY <1>8, <1>9, <1>11 DEF IInv

LEMMA GiveUpInv ==
    ASSUME IInv, UNCHANGED code, GiveUp
    PROVE  IInv'
  <1>1. /\ status' = "abort"
        /\ UNCHANGED <<exec_ranges, executable_map, allocvars, proxies, sites>>
    BY DEF GiveUp
  <1>2. PoolDataOK'
    BY <1>1 DEF IInv, PoolDataOK, allocvars
  <1> QED
    BY <1>1, <1>2, SameBlocks DEF IInv

LEMMA GetExecInv ==
    ASSUME IInv, NEW ptr \in Nat, NEW patch, GetExec(ptr, patch)
    PROVE  IInv'
  BY FoundInv, CompileChunkInv, GiveUpInv DEF GetExec, CompilePanics, MmapFails

LEMMA AllocCodeInv ==
    ASSUME IInv, NEW f \in HostFns \ DOMAIN proxies, AllocCode(f)
    PROVE  IInv'
  <1>1. UNCHANGED code
    BY DEF AllocCode
  <1>2. CASE MmapFails(ProxyLen)
    BY <1>1, <1>2, GiveUpInv DEF MmapFails
  <1>3. ASSUME NEW addr \in Targets(ProxyLen),
               FinalizeAss(ProxyLen, addr),
               proxies' = Extend(proxies, [x \in {f} |-> [addr |-> addr, len |-> ProxyLen]]),
               UNCHANGED <<exec_ranges, executable_map, sites, status>>
        PROVE  IInv'
    <2> DEFINE block == [addr |-> addr, len |-> ProxyLen]
               g == [x \in {f} |-> block]
    <2>1. ProxyLen \in Nat /\ ProxyLen <= AllocSize
      BY ProxyAssumption
    <2>2. /\ fully_used_allocs' \subseteq MmapBases
          /\ current_alloc' \in MmapBases
          /\ current_alloc_utilization' \in 0 .. AllocSize
          /\ addr \in Nat
      BY <1>3, <2>1, FinalizeFacts DEF IInv
    <2>3. DOMAIN g = {f} /\ g[f] = block
      OBVIOUS
    <2>4. proxies' = Extend(proxies, g)
      BY <1>3
    <2>5. block \in Block
      BY <2>1, <2>2 DEF Block
    <2>6. block.addr = addr /\ block.len = ProxyLen
      OBVIOUS
    <2> HIDE DEF g, block
    <2>7. /\ DOMAIN proxies' = DOMAIN proxies \cup {f}
          /\ proxies'[f] = block
          /\ \A h \in DOMAIN proxies : proxies'[h] = proxies[h]
      <3>1. /\ DOMAIN Extend(proxies, g) = DOMAIN proxies \cup DOMAIN g
            /\ \A x \in DOMAIN g : Extend(proxies, g)[x] = g[x]
            /\ \A x \in DOMAIN proxies \ DOMAIN g : Extend(proxies, g)[x] = proxies[x]
        BY ExtendFacts
      <3> QED
        BY <2>3, <2>4, <3>1
    <2>8. MapShape'
      BY <1>1, <1>3 DEF IInv, MapShape
    <2>9. BlocksInRegions' /\ BlocksApart'
      <3>1. f \notin DOMAIN executable_map
        BY ChunkFacts, LabelAssumption DEF IInv, PoolDataOK
      <3>2. Owners' = Owners \cup {f} /\ \A q \in Owners : q # f
        BY <1>3, <2>7, <3>1 DEF Owners
      <3>3. \A q \in Owners : BlockOf(q)' = BlockOf(q)
        BY <1>3, <2>7 DEF Owners, BlockOf
      <3>4. BlockOf(f)' = block
        BY <1>3, <2>7, <3>1 DEF BlockOf
      <3> QED
        BY <1>3, <2>1, <2>6, <3>2, <3>3, <3>4, BlockTypes, NewBlock DEF IInv
    <2>10. PoolDataOK'
      BY <1>1, <1>3, <2>2, <2>5, <2>7 DEF IInv, PoolDataOK
    <2> QED
      BY <2>8, <2>9, <2>10 DEF IInv
  <1> QED
    BY <1>2, <1>3 DEF AllocCode

LEMMA DefineExecRangeInv ==
    ASSUME IInv, NEW r \in Ranges, DefineExecRange(r)
    PROVE  IInv'
  <1>1. PoolDataOK'
    BY DEF DefineExecRange, IInv, PoolDataOK, allocvars
  <1> QED
    BY <1>1, SameBlocks DEF DefineExecRange, IInv

LEMMA PanicInv ==
    ASSUME IInv, Panic
    PROVE  IInv'
  <1>1. PoolDataOK'
    BY DEF Panic, IInv, PoolDataOK, allocvars
  <1> QED
    BY <1>1, SameBlocks DEF Panic, IInv

------------------------------------------------------------------------------
(* Attribution of native addresses follows from the layout *)

(* A chunk's translation alone decides which instruction a byte belongs to. *)
LEMMA LastIs ==
    ASSUME PoolDataOK, NEW c \in DOMAIN executable_map, NEW offset \in Nat,
           NEW i \in Index,
           executable_map[c].instr_map[i] <= offset,
           \A j \in Index : j > i => executable_map[c].instr_map[j] > offset
    PROVE  LastAtOrBefore(executable_map[c], executable_map[c].addr + offset) = i
  <1> DEFINE m == executable_map[c].instr_map
             p == executable_map[c].addr + offset
             Last(k) == /\ m[k] <= offset
                        /\ \A j \in k + 1 .. ChunkInstrs - 1 : m[j] > offset
  <1>1. executable_map[c].addr \in Nat /\ \A j \in Index : m[j] \in Nat
    BY DEF PoolDataOK, Chunk
  <1>2. p - executable_map[c].addr = offset
    BY <1>1
  <1>3. \A k \in Index : \A j \in k + 1 .. ChunkInstrs - 1 : j \in Index /\ j > k
    BY SizeAssumption DEF Index
  <1>4. Last(i)
    BY <1>3
  <1>5. ASSUME NEW k \in Index, Last(k)
        PROVE  k = i
    <2>1. i \in Int /\ k \in Int /\ ChunkInstrs \in Int
      BY SizeAssumption DEF Index
    <2>2. ~(k > i)
      BY <1>1, <1>5
    <2>3. ~(k < i)
      <3>1. k < i => i \in k + 1 .. ChunkInstrs - 1
        BY <2>1 DEF Index
      <3> QED
        BY <1>1, <1>5, <3>1
    <2> QED
      BY <2>1, <2>2, <2>3
  <1>6. LastAtOrBefore(executable_map[c], p) = CHOOSE k \in Index : Last(k)
    BY <1>2 DEF LastAtOrBefore
  <1> HIDE DEF Last
  <1> QED
    BY <1>4, <1>5, <1>6

(* Only one block holds a byte. *)
LEMMA OneHolder ==
    ASSUME IInv, NEW c \in DOMAIN executable_map, NEW offset \in Nat,
           offset < executable_map[c].len
    PROVE  FromExec(executable_map[c].addr + offset) =
              {c + LastAtOrBefore(executable_map[c], executable_map[c].addr + offset)}
  <1> DEFINE p == executable_map[c].addr + offset
  <1>1. \A d \in DOMAIN executable_map :
           executable_map[d].addr \in Nat /\ executable_map[d].len \in Nat
    BY DEF IInv, PoolDataOK, Chunk
  <1>2. Within(p, executable_map[c])
    BY <1>1 DEF Within
  <1>3. ASSUME NEW d \in DOMAIN executable_map, Within(p, executable_map[d])
        PROVE  d = c
    <2> SUFFICES ASSUME d # c PROVE FALSE
      OBVIOUS
    <2>1. \/ executable_map[c].addr + executable_map[c].len <= executable_map[d].addr
          \/ executable_map[d].addr + executable_map[d].len <= executable_map[c].addr
      BY DEF IInv, BlocksApart, Owners, BlockOf
    <2> QED
      BY <1>1, <1>3, <2>1 DEF Within
  <1>4. {d \in DOMAIN executable_map : Within(p, executable_map[d])} = {c}
    BY <1>2, <1>3
  <1> QED
    BY <1>4 DEF FromExec

(* from_exec gives the instruction a byte of translated code belongs to. *)
LEMMA AttributionFollows ==
    ASSUME IInv
    PROVE  Attribution
  <1> SUFFICES ASSUME NEW c \in DOMAIN executable_map
               PROVE  LET chunk == executable_map[c] IN
                      /\ \A i \in Index : \A k \in 0 .. EmitLen(code, c + i) - 1 :
                            FromExec(chunk.addr + chunk.instr_map[i] + k) = {c + i}
                      /\ \A k \in chunk.len - CallLen .. chunk.len - 1 :
                            FromExec(chunk.addr + k) = {c + ChunkInstrs - 1}
    BY DEF Attribution
  <1> DEFINE chunk == executable_map[c]
             m == InstrMap(code, c)
  <1>1. c \in Chunks /\ code \in Programs /\ PoolDataOK
    BY DEF IInv, PoolDataOK
  <1>2. c \in Nat /\ CallLen \in Nat \ {0} /\ ChunkInstrs \in Nat \ {0}
    BY <1>1, ChunkFacts, SizeAssumption
  <1>3. chunk.addr \in Nat
    BY DEF IInv, PoolDataOK, Chunk
  <1>4. chunk.len = m[ChunkInstrs] + CallLen
    BY <1>1, OffsetFacts DEF IInv, MapShape
  <1>5. \A i \in Index : chunk.instr_map[i] = m[i]
    BY DEF IInv, MapShape
  <1>6. /\ \A i \in 0 .. ChunkInstrs : m[i] \in Nat
        /\ \A i \in Index : m[i + 1] = m[i] + EmitLen(code, c + i)
        /\ \A i, j \in 0 .. ChunkInstrs : i < j => m[i] <= m[j]
    BY <1>1, OffsetFacts, EncoderAssumption
  <1>7. \A i \in Index : i \in Nat /\ i \in 0 .. ChunkInstrs /\ i + 1 \in 0 .. ChunkInstrs
    BY <1>2 DEF Index
  <1>8. ChunkInstrs \in 0 .. ChunkInstrs /\ ChunkInstrs - 1 \in Index
    BY <1>2 DEF Index
  <1> HIDE DEF m
  <1>9. ASSUME NEW i \in Index, NEW k \in 0 .. EmitLen(code, c + i) - 1
        PROVE  FromExec(chunk.addr + chunk.instr_map[i] + k) = {c + i}
    <2>1. PICK a \in Nat, b \in Nat, e \in Nat :
             a = m[i] /\ b = m[i + 1] /\ e = m[ChunkInstrs]
      BY <1>6, <1>7, <1>8
    <2>2. b = a + EmitLen(code, c + i)
      BY <1>6, <2>1
    <2>3. EmitLen(code, c + i) \in Int
      BY <1>1, <1>7, ChunkFacts, ProgramAssumption, SizeAssumption DEF EmitLen, TailLen
    <2>4. k \in Nat /\ a + k < b
      BY <2>1, <2>2, <2>3
    <2>5. b <= e
      <3>1. i + 1 < ChunkInstrs \/ i + 1 = ChunkInstrs
        BY <1>2, <1>7
      <3> QED
        BY <1>6, <1>7, <1>8, <2>1, <3>1
    <2>6. a + k \in Nat /\ a + k < chunk.len
      BY <1>2, <1>4, <2>1, <2>4, <2>5
    <2>7. chunk.instr_map[i] <= a + k
      BY <1>5, <2>1, <2>4
    <2>8. ASSUME NEW j \in Index, j > i
          PROVE  chunk.instr_map[j] > a + k
      <3>1. PICK n \in Nat : n = m[j]
        BY <1>6, <1>7
      <3>2. i + 1 < j \/ i + 1 = j
        BY <1>7, <2>8
      <3>3. b <= n
        BY <1>6, <1>7, <2>1, <3>1, <3>2
      <3> QED
        BY <1>5, <2>1, <2>4, <3>1, <3>3
    <2>9. FromExec(chunk.addr + (a + k)) = {c + i}
      BY <1>1, <2>6, <2>7, <2>8, LastIs, OneHolder
    <2>10. chunk.addr + chunk.instr_map[i] + k = chunk.addr + (a + k)
      BY <1>3, <1>5, <2>1, <2>4
    <2> QED
      BY <2>9, <2>10
  <1>10. ASSUME NEW k \in chunk.len - CallLen .. chunk.len - 1
         PROVE  FromExec(chunk.addr + k) = {c + ChunkInstrs - 1}
    <2>1. PICK e \in Nat : e = m[ChunkInstrs]
      BY <1>6, <1>8
    <2>2. k \in Nat /\ e <= k /\ k < chunk.len
      BY <1>2, <1>4, <2>1
    <2>3. \A j \in Index : chunk.instr_map[j] <= k
      <3> SUFFICES ASSUME NEW j \in Index PROVE m[j] <= k
        BY <1>5
      <3>1. PICK n \in Nat : n = m[j]
        BY <1>6, <1>7
      <3>2. j < ChunkInstrs
        BY <1>2 DEF Index
      <3>3. n <= e
        BY <1>6, <1>7, <1>8, <2>1, <3>1, <3>2
      <3> QED
        BY <2>1, <2>2, <3>1, <3>3
    <2>4. \A j \in Index : ~(j > ChunkInstrs - 1)
      BY <1>2 DEF Index
    <2> DEFINE last == ChunkInstrs - 1
    <2>5. last \in Index /\ chunk.instr_map[last] <= k
          /\ \A j \in Index : j > last => chunk.instr_map[j] > k
      BY <1>8, <2>3, <2>4
    <2> HIDE DEF last
    <2>6. LastAtOrBefore(chunk, chunk.addr + k) = last
      BY <1>1, <2>2, <2>5, LastIs
    <2>7. FromExec(chunk.addr + k) = {c + last}
      BY <2>2, <2>6, OneHolder
    <2>8. c + last = c + ChunkInstrs - 1
      BY <1>2 DEF last
    <2> QED
      BY <2>7, <2>8
  <1> QED
    BY <1>9, <1>10

------------------------------------------------------------------------------
(* Callbacks and the whole next-state relation *)

(* The callbacks: what they look up are guest addresses, whatever they find. *)
LEMMA CallbackInv ==
    ASSUME IInv, NEW s \in DOMAIN sites, RewriteBranch(s) \/ EndOfChunk(s)
    PROVE  IInv'
  <1>1. PoolDataOK /\ MapShape /\ s \in Nat
    BY DEF IInv, PoolDataOK
  <1>2. \A a \in FromExec(s) : a \in GuestAddrs /\ a \in Nat
    BY <1>1, FromExecType, ChunkFacts
  <1>3. \A a \in GuestAddrs : code[a].op \in DirectOps => code[a].to \in Nat
    BY <1>1, ProgramAssumption, SizeAssumption DEF PoolDataOK
  <1>4. CASE RewriteBranch(s)
    BY <1>2, <1>3, <1>4, PanicInv, GetExecInv DEF RewriteBranch
  <1>5. CASE EndOfChunk(s)
    <2>1. CASE Panic
      BY <2>1, PanicInv
    <2>2. ASSUME NEW a \in FromExec(s), GetExec(a + 1, s)
          PROVE  IInv'
      <3>1. a + 1 \in Nat
        BY <1>2
      <3> QED
        BY <2>2, <3>1, GetExecInv
    <2> QED
      BY <1>5, <2>1, <2>2 DEF EndOfChunk
  <1> QED
    BY <1>4, <1>5

LEMMA InitInv == PoolInit => IInv
  <1> SUFFICES ASSUME PoolInit PROVE IInv
    OBVIOUS
  <1>1. DOMAIN executable_map = {} /\ DOMAIN proxies = {} /\ DOMAIN sites = {}
    BY DEF PoolInit
  <1>2. PoolDataOK
    BY <1>1, MmapAssumption DEF PoolInit, PoolDataOK
  <1> QED
    BY <1>1, <1>2 DEF IInv, MapShape, BlocksInRegions, BlocksApart, Owners

LEMMA NextInv == IInv /\ [PoolNext]_poolvars => IInv'
  <1> SUFFICES ASSUME IInv, [PoolNext]_poolvars PROVE IInv'
    OBVIOUS
  <1>1. ASSUME NEW r \in Ranges \ exec_ranges, DefineExecRange(r)
        PROVE  IInv'
    BY <1>1, DefineExecRangeInv
  <1>2. ASSUME NEW f \in HostFns \ DOMAIN proxies, AllocCode(f)
        PROVE  IInv'
    BY <1>2, AllocCodeInv
  <1>3. ASSUME NEW p \in 0 .. GuestEnd, GetExec(p, Null)
        PROVE  IInv'
    BY <1>3, SizeAssumption, GetExecInv
  <1>4. ASSUME NEW s \in SitesOf("rewrite"), RewriteBranch(s)
        PROVE  IInv'
    BY <1>4, CallbackInv DEF SitesOf
  <1>5. ASSUME NEW s \in SitesOf("end"), EndOfChunk(s)
        PROVE  IInv'
    BY <1>5, CallbackInv DEF SitesOf
  <1>6. CASE UNCHANGED poolvars
    <2>1. PoolDataOK'
      BY <1>6 DEF poolvars, allocvars, IInv, PoolDataOK
    <2> QED
      BY <1>6, <2>1, SameBlocks DEF poolvars, IInv
  <1> QED
    BY <1>1, <1>2, <1>3, <1>4, <1>5, <1>6 DEF PoolNext

(* Only panics end the process from within the pool. *)
StatusOK == status \in {"run", "abort", "panic"}

LEMMA StatusNext ==
    ASSUME StatusOK, [PoolNext]_poolvars
    PROVE  StatusOK'
  <1>1. \A ptr, patch : GetExec(ptr, patch) => status' \in {status, "abort"}
    BY DEF GetExec, Found, CompileChunk, CompilePanics, MmapFails, GiveUp
  <1>2. \A s : RewriteBranch(s) \/ EndOfChunk(s) => status' \in {status, "abort", "panic"}
    BY <1>1 DEF RewriteBranch, EndOfChunk, Panic
  <1>3. \A f : AllocCode(f) => status' \in {status, "abort"}
    BY DEF AllocCode, MmapFails, GiveUp
  <1>4. \A r : DefineExecRange(r) => status' = status
    BY DEF DefineExecRange
  <1> QED
    BY <1>1, <1>2, <1>3, <1>4 DEF PoolNext, poolvars, StatusOK

------------------------------------------------------------------------------
(* Theorems *)

(* The strengthened invariant holds in every reachable state of the pool. *)
THEOREM PoolInvariant == PoolSpec => []IInv
  BY InitInv, NextInv, PTL DEF PoolSpec

(* Every variable of the pool keeps its type. *)
THEOREM TypeCorrect == PoolSpec => []PoolTypeOK
  <1>1. PoolInit => StatusOK
    BY DEF PoolInit, StatusOK
  <1>2. StatusOK /\ [PoolNext]_poolvars => StatusOK'
    BY StatusNext
  <1>3. IInv /\ StatusOK => PoolTypeOK
    BY DEF IInv, StatusOK, PoolTypeOK
  <1> QED
    BY PoolInvariant, <1>1, <1>2, <1>3, PTL DEF PoolSpec

(* No block sticks out of its region or past the bytes accounted for. *)
THEOREM LayoutInRegions == PoolSpec => []BlocksInRegions
  BY PoolInvariant, PTL DEF IInv

(* No translation or proxy is ever copied over another. *)
THEOREM LayoutApart == PoolSpec => []BlocksApart
  BY PoolInvariant, PTL DEF IInv

(* A callback always finds the instruction whose code called it. *)
THEOREM AttributionCorrect == PoolSpec => []Attribution
  BY PoolInvariant, AttributionFollows, PTL

------------------------------------------------------------------------------
(* Positions in a chunk *)

(* The chunk address is a multiple of the chunk's size. *)
LEMMA ModFacts ==
    ASSUME NEW n \in Nat \ {0}, NEW x \in Nat, NEW i \in 0 .. n - 1
    PROVE  (x - (x % n) + i) % n = i
  <1> DEFINE q == x \div n
  <1>1. x = n * q + (x % n) /\ q \in Nat /\ x % n \in Nat
    OBVIOUS
  <1> HIDE DEF q
  <1>2. x - (x % n) = n * q /\ n * q \in Nat
    BY <1>1
  <1>3. (n * q + i) % n = i
    BY <1>1
  <1> QED
    BY <1>2, <1>3

(* The instructions of a chunk are numbered from its address. *)
LEMMA PositionFacts ==
    ASSUME NEW c \in Chunks, NEW a \in c .. c + ChunkInstrs - 1
    PROVE  /\ a % ChunkInstrs \in Index
           /\ a = c + (a % ChunkInstrs)
           /\ a \in GuestAddrs
  <1>1. c \in Nat /\ ChunkInstrs \in Nat \ {0} /\ a \in Nat
    BY ChunkFacts, SizeAssumption
  <1>2. PICK x \in Nat : c = x - (x % ChunkInstrs)
    BY ChunkFacts DEF Chunks, ChunkAddr
  <1> DEFINE i == a - c
  <1>3. i \in 0 .. ChunkInstrs - 1 /\ a = c + i
    BY <1>1
  <1> HIDE DEF i
  <1>4. a % ChunkInstrs = i
    BY <1>1, <1>2, <1>3, ModFacts
  <1> QED
    BY <1>1, <1>3, <1>4, WholeChunksAssumption DEF Index

------------------------------------------------------------------------------
(* Where the sites of a chunk are *)

(* Every site lies in the code of the chunk it belongs to, and a pending   *)
(* call to rewrite_branch is at the end of a direct branch.                *)
SiteIn(s, cell, c) ==
    LET chunk == executable_map[c] IN
    /\ chunk.addr <= s /\ s < chunk.addr + chunk.len
    /\ cell.kind = "rewrite" =>
          \E a \in Leaving(c) :
              /\ code[a].op \in DirectOps
              /\ s = chunk.addr + SiteOffset(a, chunk.instr_map)

SitesShape ==
    \A s \in DOMAIN sites : \E c \in DOMAIN executable_map : SiteIn(s, sites[s], c)

(* What ChunkSites makes is of that shape. *)
LEMMA NewSites ==
    ASSUME PoolDataOK, NEW c \in Chunks, NEW addr \in Nat,
           NEW s \in DOMAIN ChunkSites(c, InstrMap(code, c), addr)
    PROVE  /\ addr <= s /\ s < addr + ChunkLen(code, c)
           /\ ChunkSites(c, InstrMap(code, c), addr)[s].kind = "rewrite" =>
                 \E a \in Leaving(c) :
                     /\ code[a].op \in DirectOps
                     /\ s = addr + SiteOffset(a, InstrMap(code, c))
  <1> DEFINE m == InstrMap(code, c)
             end == addr + m[ChunkInstrs]
             at(a) == addr + SiteOffset(a, m)
             new == ChunkSites(c, m, addr)
  <1>1. code \in Programs
    BY DEF PoolDataOK
  <1>2. /\ \A i \in 0 .. ChunkInstrs : m[i] \in Nat
        /\ \A i \in Index : m[i + 1] = m[i] + EmitLen(code, c + i)
        /\ \A i, j \in 0 .. ChunkInstrs : i < j => m[i] <= m[j]
        /\ ChunkLen(code, c) = m[ChunkInstrs] + CallLen
    BY <1>1, OffsetFacts, EncoderAssumption
  <1>3. /\ CallLen \in Nat \ {0} /\ ChunkInstrs \in Nat \ {0}
        /\ ChunkInstrs \in 0 .. ChunkInstrs
        /\ \A i \in Index : i \in Nat /\ i \in 0 .. ChunkInstrs /\ i + 1 \in 0 .. ChunkInstrs
    BY SizeAssumption DEF Index
  <1>4. new = [t \in {end} \cup {at(a) : a \in Leaving(c)} |->
                 IF t = end THEN Call("end")
                            ELSE SiteCell(CHOOSE a \in Leaving(c) : at(a) = t, m, addr)]
    BY DEF ChunkSites
  <1>5. s = end \/ \E a \in Leaving(c) : s = at(a)
    BY <1>4
  <1> HIDE DEF m, new
  <1>6. ASSUME NEW a \in Leaving(c)
        PROVE  at(a) \in Nat /\ addr <= at(a) /\ at(a) < end
    <2>1. /\ a % ChunkInstrs \in Index /\ a = c + (a % ChunkInstrs)
          /\ a \in GuestAddrs
      BY PositionFacts DEF Leaving
    <2>2. TailLen(code, a) > 0
      BY DEF Leaving
    <2>3. code[a].op \in Ops
      BY <1>1, <2>1, ProgramAssumption
    <2>4. TailLen(code, a) \in Nat
      BY <2>3, SizeAssumption DEF TailLen
    <2>5. PICK body \in Nat : body = BodyLen[code[a].op]
      BY <2>3, SizeAssumption
    <2>6. PICK f \in Nat, b \in Nat, e \in Nat :
             /\ f = m[a % ChunkInstrs] /\ b = m[(a % ChunkInstrs) + 1]
             /\ e = m[ChunkInstrs]
      BY <1>2, <1>3, <2>1
    <2>7. b = f + body + TailLen(code, a)
      <3>1. b = f + EmitLen(code, a)
        BY <1>2, <2>1, <2>6
      <3> QED
        BY <2>4, <2>5, <3>1 DEF EmitLen
    <2>8. b <= e
      <3>1. (a % ChunkInstrs) + 1 < ChunkInstrs \/ (a % ChunkInstrs) + 1 = ChunkInstrs
        BY <1>3, <2>1
      <3> QED
        BY <1>2, <1>3, <2>1, <2>6, <3>1
    <2>9. SiteOffset(a, m) = f + body
      BY <2>5, <2>6 DEF SiteOffset
    <2> QED
      BY <2>2, <2>4, <2>6, <2>7, <2>8, <2>9
  <1>7. end \in Nat /\ addr <= end /\ addr + ChunkLen(code, c) = end + CallLen
    BY <1>2, <1>3
  <1>8. addr <= s /\ s < addr + ChunkLen(code, c)
    <2>1. CASE s = end
      BY <1>3, <1>7, <2>1
    <2>2. CASE \E a \in Leaving(c) : s = at(a)
      BY <1>3, <1>6, <1>7, <2>2
    <2> QED
      BY <1>5, <2>1, <2>2
  <1>9. ASSUME new[s].kind = "rewrite"
        PROVE  \E a \in Leaving(c) : code[a].op \in DirectOps /\ s = at(a)
    <2>1. s # end
      BY <1>4, <1>9 DEF Call
    <2> DEFINE a == CHOOSE a \in Leaving(c) : at(a) = s
    <2>2. a \in Leaving(c) /\ s = at(a)
      BY <1>5, <2>1
    <2>3. new[s] = SiteCell(a, m, addr)
      BY <1>4, <1>5, <2>1
    <2> HIDE DEF a
    <2>4. TailLen(code, a) > 0 /\ a \in GuestAddrs
      BY <2>2, WholeChunksAssumption DEF Leaving
    <2>5. code[a].op \in DirectOps \cup IndirectOps \cup {"undef"}
      BY <1>1, <2>4, ProgramAssumption DEF TailLen
    <2>6. code[a].op \in IndirectOps => new[s] = Call("indirect")
      BY <2>3 DEF SiteCell, DirectOps, IndirectOps
    <2>7. code[a].op = "undef" => new[s] = Call("undef")
      BY <2>3 DEF SiteCell, DirectOps, IndirectOps
    <2>8. code[a].op \in DirectOps
      BY <1>9, <2>5, <2>6, <2>7 DEF Call
    <2> QED
      BY <2>2, <2>8
  <1> QED
    BY <1>8, <1>9 DEF m, new

------------------------------------------------------------------------------
(* Steps *)

(* A patch turns a site into a jump and leaves every other site alone. *)
LEMMA WriteJumpFacts ==
    ASSUME NEW cells, NEW patch, NEW p
    PROVE  /\ DOMAIN WriteJump(cells, patch, p) = DOMAIN cells
           /\ \A s \in DOMAIN cells :
                 \/ WriteJump(cells, patch, p)[s] = cells[s]
                 \/ /\ patch # Null /\ s = patch
                    /\ WriteJump(cells, patch, p)[s].kind = "jmp"
  BY DEF WriteJump, Jmp

(* The pool's data when get_exec translates a chunk. *)
LEMMA CompileFacts ==
    ASSUME IInv, NEW ptr \in Nat, NEW patch, CompileChunk(ptr, patch)
    PROVE  LET c == ChunkAddr(ptr) IN
           /\ c \in Chunks /\ c \notin DOMAIN executable_map
           /\ DOMAIN executable_map' = DOMAIN executable_map \cup {c}
           /\ \A d \in DOMAIN executable_map : executable_map'[d] = executable_map[d]
           /\ \E addr \in Nat :
                 /\ executable_map'[c] = [instr_map |-> [i \in Index |-> InstrMap(code, c)[i]],
                                          addr |-> addr, len |-> ChunkLen(code, c)]
                 /\ sites' = WriteJump(Extend(sites, ChunkSites(c, InstrMap(code, c), addr)),
                                       patch, Resolve(executable_map', ptr))
           /\ status' = status
  <1> DEFINE c == ChunkAddr(ptr)
             len == ChunkLen(code, c)
             entry(addr) == [instr_map |-> [i \in Index |-> InstrMap(code, c)[i]],
                             addr |-> addr, len |-> len]
  <1>1. is_executable(ptr) /\ c \notin DOMAIN executable_map /\ status' = status
    BY DEF CompileChunk, Missing
  <1>2. PICK addr \in Targets(len) :
          /\ FinalizeAss(len, addr)
          /\ executable_map' = Extend(executable_map, [x \in {c} |-> entry(addr)])
          /\ sites' = WriteJump(Extend(sites, ChunkSites(c, InstrMap(code, c), addr)),
                                patch, Resolve(executable_map', ptr))
    BY DEF CompileChunk
  <1>3. c \in Chunks
    BY <1>1, ExecutableFacts DEF IInv, PoolDataOK
  <1>4. len \in Nat /\ len <= AllocSize
    BY <1>3, OffsetFacts DEF IInv, PoolDataOK
  <1>5. addr \in Nat
    BY <1>2, <1>4, FinalizeFacts DEF IInv
  <1>6. /\ DOMAIN executable_map' = DOMAIN executable_map \cup {c}
        /\ executable_map'[c] = entry(addr)
        /\ \A d \in DOMAIN executable_map : executable_map'[d] = executable_map[d]
    <2> DEFINE g == [x \in {c} |-> entry(addr)]
    <2>1. DOMAIN g = {c} /\ g[c] = entry(addr)
      OBVIOUS
    <2>2. executable_map' = Extend(executable_map, g)
      BY <1>2
    <2> HIDE DEF g, c, entry
    <2>3. /\ DOMAIN Extend(executable_map, g) = DOMAIN executable_map \cup DOMAIN g
          /\ \A x \in DOMAIN g : Extend(executable_map, g)[x] = g[x]
          /\ \A x \in DOMAIN executable_map \ DOMAIN g :
                Extend(executable_map, g)[x] = executable_map[x]
      BY ExtendFacts
    <2> QED
      BY <1>1, <2>1, <2>2, <2>3 DEF c
  <1> QED
    BY <1>1, <1>2, <1>3, <1>5, <1>6

(* The sites of a new translation are not those of an earlier one: its     *)
(* block is apart from theirs.                                             *)
LEMMA FreshSites ==
    ASSUME IInv, IInv', SitesShape, code' = code,
           NEW c \in Chunks, c \notin DOMAIN executable_map,
           DOMAIN executable_map' = DOMAIN executable_map \cup {c},
           \A d \in DOMAIN executable_map : executable_map'[d] = executable_map[d],
           NEW addr \in Nat, executable_map'[c].addr = addr,
           executable_map'[c].len = ChunkLen(code, c),
           NEW s \in DOMAIN sites
    PROVE  s \notin DOMAIN ChunkSites(c, InstrMap(code, c), addr)
  <1> SUFFICES ASSUME s \in DOMAIN ChunkSites(c, InstrMap(code, c), addr)
               PROVE  FALSE
    OBVIOUS
  <1>1. PICK d \in DOMAIN executable_map :
           executable_map[d].addr <= s /\ s < executable_map[d].addr + executable_map[d].len
    BY DEF SitesShape, SiteIn
  <1>2. addr <= s /\ s < addr + ChunkLen(code, c)
    BY NewSites DEF IInv
  <1>3. PICK e \in Nat, n \in Nat : e = executable_map[d].addr /\ n = executable_map[d].len
    BY DEF IInv, PoolDataOK, Chunk
  <1>4. PICK len \in Nat : len = ChunkLen(code, c)
    BY OffsetFacts DEF IInv, PoolDataOK
  <1>5. s \in Nat
    BY DEF IInv, PoolDataOK
  <1>6. e + n <= addr \/ addr + len <= e
    <2>1. c # d /\ c \in Owners' /\ d \in Owners'
      BY <1>1 DEF Owners
    <2>2. BlockOf(c)' = executable_map'[c] /\ BlockOf(d)' = executable_map[d]
      BY <1>1 DEF BlockOf
    <2>3. \/ BlockOf(c)'.addr + BlockOf(c)'.len <= BlockOf(d)'.addr
          \/ BlockOf(d)'.addr + BlockOf(d)'.len <= BlockOf(c)'.addr
      BY <2>1 DEF IInv, BlocksApart
    <2> QED
      BY <1>3, <1>4, <2>2, <2>3
  <1> QED
    BY <1>1, <1>2, <1>3, <1>4, <1>5, <1>6

(* get_exec, called with no patch or to patch a pending call, leaves every *)
(* translation alone but that call, and puts sites where they belong.      *)
LEMMA CompileSites ==
    ASSUME IInv, IInv', SitesShape, code' = code, NEW ptr \in Nat, NEW patch,
           patch # Null => patch \in SitesOf("rewrite") \cup SitesOf("end"),
           CompileChunk(ptr, patch)
    PROVE  SitesShape' /\ KeepsTranslation
  <1> DEFINE c == ChunkAddr(ptr)
             m == InstrMap(code, c)
  <1>1. /\ c \in Chunks /\ c \notin DOMAIN executable_map
        /\ DOMAIN executable_map' = DOMAIN executable_map \cup {c}
        /\ \A d \in DOMAIN executable_map : executable_map'[d] = executable_map[d]
    BY CompileFacts
  <1>2. PICK addr \in Nat :
          /\ executable_map'[c] = [instr_map |-> [i \in Index |-> m[i]],
                                   addr |-> addr, len |-> ChunkLen(code, c)]
          /\ sites' = WriteJump(Extend(sites, ChunkSites(c, m, addr)),
                                patch, Resolve(executable_map', ptr))
    BY CompileFacts
  <1> DEFINE new == ChunkSites(c, m, addr)
             all == Extend(sites, new)
             target == Resolve(executable_map', ptr)
  <1>3. /\ executable_map'[c].addr = addr
        /\ executable_map'[c].len = ChunkLen(code, c)
        /\ executable_map'[c].instr_map = [i \in Index |-> m[i]]
    BY <1>2
  <1>4. \A s \in DOMAIN sites : s \notin DOMAIN new
    BY <1>1, <1>3, FreshSites
  <1>5. ASSUME NEW s \in DOMAIN new
        PROVE  /\ addr <= s /\ s < addr + ChunkLen(code, c)
               /\ new[s].kind = "rewrite" =>
                     \E a \in Leaving(c) :
                        code[a].op \in DirectOps /\ s = addr + SiteOffset(a, m)
    BY <1>1, NewSites DEF IInv
  <1>6. \A a \in Leaving(c) :
           SiteOffset(a, executable_map'[c].instr_map) = SiteOffset(a, m)
    BY <1>1, <1>3, PositionFacts DEF SiteOffset, Leaving
  <1> HIDE DEF c, m, new, target
  <1>7. /\ DOMAIN all = DOMAIN sites \cup DOMAIN new
        /\ \A s \in DOMAIN new : all[s] = new[s]
        /\ \A s \in DOMAIN sites : all[s] = sites[s]
    BY <1>4, ExtendFacts
  <1>8. sites' = WriteJump(all, patch, target)
    BY <1>2 DEF new, target
  <1> HIDE DEF all
  <1>9. /\ DOMAIN sites' = DOMAIN all
        /\ \A s \in DOMAIN all :
              \/ sites'[s] = all[s]
              \/ patch # Null /\ s = patch /\ sites'[s].kind = "jmp"
    BY <1>8, WriteJumpFacts
  <1>10. SitesShape'
    <2> SUFFICES ASSUME NEW s \in DOMAIN sites'
                 PROVE  \E d \in DOMAIN executable_map' : SiteIn(s, sites[s], d)'
      BY DEF SitesShape
    <2>1. CASE s \in DOMAIN sites
      <3>1. PICK d \in DOMAIN executable_map : SiteIn(s, sites[s], d)
        BY <2>1 DEF SitesShape
      <3>2. sites'[s].kind = "rewrite" => sites'[s] = sites[s]
        BY <1>7, <1>9, <2>1
      <3>3. d \in DOMAIN executable_map' /\ executable_map'[d] = executable_map[d]
        BY <1>1
      <3>4. Leaving(d)' = Leaving(d)
        BY DEF Leaving, TailLen
      <3>5. SiteIn(s, sites[s], d)'
        BY <3>1, <3>2, <3>3, <3>4 DEF SiteIn, SiteOffset
      <3> QED
        BY <3>3, <3>5
    <2>2. CASE s \in DOMAIN new
      <3>1. sites'[s].kind = "rewrite" => sites'[s] = new[s]
        BY <1>7, <1>9, <2>2
      <3>2. Leaving(c)' = Leaving(c)
        BY <1>1 DEF Leaving, TailLen, c
      <3>3. \A a \in Leaving(c) :
               SiteOffset(a, executable_map[c].instr_map)' = SiteOffset(a, m)
        BY <1>6 DEF SiteOffset, c
      <3>4. SiteIn(s, sites[s], c)'
        BY <1>3, <1>5, <2>2, <3>1, <3>2, <3>3 DEF SiteIn, c
      <3> QED
        BY <1>1, <3>4
    <2> QED
      BY <1>7, <1>9, <2>1, <2>2
  <1>11. KeepsTranslation
    <2>1. ASSUME NEW s \in DOMAIN sites
          PROVE  /\ s \in DOMAIN sites'
                 /\ sites'[s] = sites[s] \/ sites[s].kind \in {"rewrite", "end"}
      BY <1>7, <1>9 DEF SitesOf
    <2> QED
      BY <1>1, <2>1 DEF KeepsTranslation
  <1> QED
    BY <1>10, <1>11

(* Steps that leave the map and the sites alone keep them so. *)
LEMMA SameSites ==
    ASSUME SitesShape, UNCHANGED <<code, executable_map, sites>>
    PROVE  SitesShape' /\ KeepsTranslation
  <1>1. SitesShape'
    BY DEF SitesShape, SiteIn, Leaving, TailLen, SiteOffset
  <1> QED
    BY <1>1 DEF KeepsTranslation

LEMMA FoundSites ==
    ASSUME SitesShape, code' = code, NEW ptr, NEW patch,
           patch # Null => patch \in SitesOf("rewrite") \cup SitesOf("end"),
           Found(ptr, patch)
    PROVE  SitesShape' /\ KeepsTranslation
  <1>1. executable_map' = executable_map
    BY DEF Found
  <1>2. /\ DOMAIN sites' = DOMAIN sites
        /\ \A s \in DOMAIN sites :
              \/ sites'[s] = sites[s]
              \/ patch # Null /\ s = patch /\ sites'[s].kind = "jmp"
    BY WriteJumpFacts DEF Found
  <1>3. SitesShape'
    <2> SUFFICES ASSUME NEW s \in DOMAIN sites
                 PROVE  \E d \in DOMAIN executable_map : SiteIn(s, sites[s], d)'
      BY <1>1, <1>2 DEF SitesShape
    <2>1. PICK d \in DOMAIN executable_map : SiteIn(s, sites[s], d)
      BY DEF SitesShape
    <2>2. sites'[s].kind = "rewrite" => sites'[s] = sites[s]
      BY <1>2
    <2>3. Leaving(d)' = Leaving(d)
      BY DEF Leaving, TailLen
    <2> QED
      BY <1>1, <2>1, <2>2, <2>3 DEF SiteIn, SiteOffset
  <1>4. KeepsTranslation
    BY <1>1, <1>2 DEF KeepsTranslation, SitesOf
  <1> QED
    BY <1>3, <1>4

(* get_exec with a pending call to patch, or none. *)
LEMMA GetExecSites ==
    ASSUME IInv, IInv', SitesShape, status = "run", NEW ptr \in Nat, NEW patch,
           patch # Null => patch \in SitesOf("rewrite") \cup SitesOf("end"),
           GetExec(ptr, patch)
    PROVE  SitesShape' /\ KeepsTranslation /\ status' # "panic"
  <1>1. code' = code
    BY DEF GetExec
  <1>2. CASE Found(ptr, patch)
    <2>1. status' = "run"
      BY <1>2 DEF Found
    <2> QED
      BY <1>1, <1>2, <2>1, FoundSites
  <1>3. CASE CompileChunk(ptr, patch)
    <2>1. status' = "run"
      BY <1>3 DEF CompileChunk
    <2> QED
      BY <1>1, <1>3, <2>1, CompileSites
  <1>4. CASE GiveUp
    <2>1. UNCHANGED <<code, executable_map, sites>> /\ status' = "abort"
      BY <1>1, <1>4 DEF GiveUp
    <2> QED
      BY <2>1, SameSites
  <1> QED
    BY <1>2, <1>3, <1>4 DEF GetExec, CompilePanics, MmapFails

(* from_exec finds a chunk for every site. *)
LEMMA SiteFound ==
    ASSUME SitesShape, NEW s \in DOMAIN sites
    PROVE  FromExec(s) # {}
  BY DEF SitesShape, SiteIn, FromExec, Within

(* ... and for a pending call to rewrite_branch the branch that needs it. *)
LEMMA RewriteFound ==
    ASSUME IInv, SitesShape, NEW s \in SitesOf("rewrite"), NEW b \in FromExec(s)
    PROVE  code[b].op \in DirectOps /\ code[b].to \in Nat
  <1>0. PICK c \in DOMAIN executable_map : SiteIn(s, sites[s], c)
    BY DEF SitesOf, SitesShape
  <1>1. PICK a \in Leaving(c) :
           /\ code[a].op \in DirectOps
           /\ s = executable_map[c].addr + SiteOffset(a, executable_map[c].instr_map)
    BY <1>0 DEF SitesOf, SiteIn
  <1> DEFINE chunk == executable_map[c]
             i == a % ChunkInstrs
             body == BodyLen[code[a].op]
  <1>2. c \in Chunks /\ code \in Programs /\ chunk \in Chunk
    BY DEF IInv, PoolDataOK
  <1>3. i \in Index /\ a = c + i /\ a \in GuestAddrs /\ TailLen(code, a) > 0
    BY <1>2, PositionFacts DEF Leaving
  <1>4. code[a].op \in Ops /\ code[a].to \in Nat
    BY <1>1, <1>2, <1>3, ProgramAssumption, SizeAssumption
  <1>5. body \in Nat
    BY <1>4, SizeAssumption
  <1>6. TailLen(code, a) \in Nat
    BY <1>4, SizeAssumption DEF TailLen
  <1>7. body \in 0 .. EmitLen(code, c + i) - 1
    BY <1>3, <1>5, <1>6 DEF EmitLen
  <1>8. FromExec(chunk.addr + chunk.instr_map[i] + body) = {c + i}
    BY <1>3, <1>7, AttributionFollows DEF Attribution
  <1>9. s = chunk.addr + chunk.instr_map[i] + body
    <2>1. chunk.addr \in Nat /\ chunk.instr_map[i] \in Nat
      BY <1>2, <1>3 DEF Chunk
    <2>2. s = chunk.addr + (chunk.instr_map[i] + body)
      BY <1>1 DEF SiteOffset
    <2> QED
      BY <1>5, <2>1, <2>2
  <1> QED
    BY <1>1, <1>3, <1>4, <1>8, <1>9

LEMMA AllocCodeSites ==
    ASSUME SitesShape, status = "run", NEW f, AllocCode(f)
    PROVE  SitesShape' /\ KeepsTranslation /\ status' # "panic"
  <1>1. UNCHANGED <<code, executable_map, sites>> /\ status' # "panic"
    BY DEF AllocCode, MmapFails, GiveUp
  <1> QED
    BY <1>1, SameSites

LEMMA CallbackSites ==
    ASSUME IInv, IInv', SitesShape, status = "run", NEW s,
           \/ s \in SitesOf("rewrite") /\ RewriteBranch(s)
           \/ s \in SitesOf("end") /\ EndOfChunk(s)
    PROVE  SitesShape' /\ KeepsTranslation /\ status' # "panic"
  <1>1. s \in DOMAIN sites /\ s \in SitesOf("rewrite") \cup SitesOf("end")
    BY DEF SitesOf
  <1>2. FromExec(s) # {}
    BY <1>1, SiteFound
  <1>3. CASE s \in SitesOf("rewrite") /\ RewriteBranch(s)
    <2>1. PICK b \in FromExec(s) : code[b].op \in DirectOps /\ GetExec(code[b].to, s)
      BY <1>2, <1>3, RewriteFound DEF RewriteBranch
    <2>2. code[b].to \in Nat
      BY <1>3, RewriteFound
    <2> QED
      BY <1>1, <2>1, <2>2, GetExecSites
  <1>4. CASE s \in SitesOf("end") /\ EndOfChunk(s)
    <2>1. PICK b \in FromExec(s) : GetExec(b + 1, s)
      BY <1>2, <1>4 DEF EndOfChunk
    <2>2. s \in Nat
      BY <1>1 DEF IInv, PoolDataOK
    <2>3. b \in Nat
      BY <2>2, FromExecType, ChunkFacts DEF IInv
    <2>4. b + 1 \in Nat
      BY <2>3
    <2> QED
      BY <1>1, <2>1, <2>4, GetExecSites
  <1> QED
    BY <1>3, <1>4

(* The invariant of patching, and what a step may do under it. *)
SitesInv == IInv /\ SitesShape

LEMMA SitesInit == PoolInit => SitesInv
  BY InitInv DEF PoolInit, SitesInv, SitesShape

LEMMA SitesNext ==
    ASSUME SitesInv, [PoolNext]_poolvars
    PROVE  SitesInv' /\ [KeepsTranslation]_poolvars /\ (CallbacksResolve => CallbacksResolve')
  <1>1. IInv /\ IInv' /\ SitesShape
    BY NextInv DEF SitesInv
  <1>2. CASE UNCHANGED poolvars
    <2>1. UNCHANGED <<code, executable_map, sites>>
      BY <1>2 DEF poolvars
    <2> QED
      BY <1>1, <1>2, <2>1, SameSites DEF SitesInv, CallbacksResolve, poolvars
  <1>3. CASE PoolNext
    <2>1. status = "run"
      BY <1>3 DEF PoolNext
    <2>2. ASSUME NEW r \in Ranges \ exec_ranges, DefineExecRange(r)
          PROVE  SitesShape' /\ KeepsTranslation /\ status' # "panic"
      <3>1. UNCHANGED <<code, executable_map, sites>> /\ status' = "run"
        BY <2>1, <2>2 DEF DefineExecRange
      <3> QED
        BY <1>1, <3>1, SameSites
    <2>3. ASSUME NEW f \in HostFns \ DOMAIN proxies, AllocCode(f)
          PROVE  SitesShape' /\ KeepsTranslation /\ status' # "panic"
      BY <1>1, <2>1, <2>3, AllocCodeSites
    <2>4. ASSUME NEW p \in 0 .. GuestEnd, GetExec(p, Null)
          PROVE  SitesShape' /\ KeepsTranslation /\ status' # "panic"
      BY <1>1, <2>1, <2>4, SizeAssumption, GetExecSites
    <2>5. ASSUME NEW s \in SitesOf("rewrite"), RewriteBranch(s)
          PROVE  SitesShape' /\ KeepsTranslation /\ status' # "panic"
      BY <1>1, <2>1, <2>5, CallbackSites
    <2>6. ASSUME NEW s \in SitesOf("end"), EndOfChunk(s)
          PROVE  SitesShape' /\ KeepsTranslation /\ status' # "panic"
      BY <1>1, <2>1, <2>6, CallbackSites
    <2> QED
      BY <1>1, <1>3, <2>2, <2>3, <2>4, <2>5, <2>6 DEF PoolNext, SitesInv, CallbacksResolve
  <1> QED
    BY <1>2, <1>3

------------------------------------------------------------------------------
(* Theorems *)

(* Every patchable site lies in the translation it belongs to, and every   *)
(* pending call to rewrite_branch is at the end of a direct branch.        *)
THEOREM SitesInvariant == PoolSpec => []SitesInv
  BY SitesInit, SitesNext, PTL DEF PoolSpec

(* No step changes a translation that exists, but for one pending call.    *)
THEOREM TranslationsFinal == PoolSpec => TranslationFinal
  BY SitesInvariant, SitesNext, PTL DEF PoolSpec, TranslationFinal

(* No callback panics for want of an answer, whatever was translated,      *)
(* linked and patched before it and however the regions were filled:       *)
(* from_exec finds the chunk and the instruction that every pending call   *)
(* belongs to, and a direct branch where rewrite_branch needs one.  (The   *)
(* translation of the next chunk may still panic, and mmap may fail.)      *)
THEOREM CallbacksNeverPanic == PoolSpec => []CallbacksResolve
  <1>1. PoolInit => CallbacksResolve
    BY DEF PoolInit, CallbacksResolve
  <1> QED
    BY <1>1, SitesInit, SitesNext, PTL DEF PoolSpec

------------------------------------------------------------------------------
(* Executable segments are whole chunks *)

(* If one address of a chunk is executable, all are. *)
LEMMA WholeChunk ==
    ASSUME exec_ranges \subseteq Ranges, NEW p \in Nat, is_executable(p),
           NEW q \in Nat, ChunkAddr(q) = ChunkAddr(p)
    PROVE  is_executable(q)
  <1> DEFINE n == ChunkInstrs
  <1>n. n \in Nat \ {0}
    BY SizeAssumption
  <1>1. PICK r \in exec_ranges : r[1] <= p /\ p < r[2]
    BY DEF is_executable, InRange
  <1>2. r[1] \in Chunks /\ (r[2] \in Chunks \/ r[2] = GuestEnd)
    BY <1>1, RangeAssumption
  <1>3. p \in GuestAddrs /\ ChunkAddr(p) \in Chunks
    BY ExecutableFacts
  <1>4. PICK c \in Nat : c = ChunkAddr(p)
    BY <1>3, ChunkFacts
  <1> HIDE DEF n
  <1>5. \A x \in Nat : \E k \in Nat : x - (x % n) = n * k /\ n * k <= x /\ x < n * k + n
    <2> TAKE x \in Nat
    <2>1. x = n * (x \div n) + (x % n) /\ x \div n \in Nat /\ x % n \in 0 .. n - 1
      BY <1>n
    <2>2. n * (x \div n) \in Nat
      BY <1>n, <2>1
    <2>3. PICK k \in Nat : k = x \div n
      BY <2>1
    <2>4. x - (x % n) = n * k /\ n * k <= x /\ x < n * k + n
      BY <1>n, <2>1, <2>2, <2>3
    <2> QED
      BY <2>4
  <1>6. PICK k \in Nat : c = n * k /\ c <= p /\ p < c + n
    BY <1>4, <1>5 DEF ChunkAddr, n
  <1>7. c <= q /\ q < c + n
    <2>1. PICK l \in Nat : c = n * l /\ n * l <= q /\ q < n * l + n
      BY <1>4, <1>5 DEF ChunkAddr, n
    <2> QED
      BY <2>1
  <1>8. \A x \in Chunks : \E l \in Nat : x = n * l
    BY <1>5, ChunkFacts DEF Chunks, ChunkAddr, n
  <1>9. \A i, j \in Nat : n * i < n * j + n => n * i <= n * j
    <2> TAKE i, j \in Nat
    <2>1. n * j + n = n * (j + 1)
      BY <1>n
    <2>2. i >= j + 1 => n * i >= n * (j + 1)
      <3> SUFFICES ASSUME i >= j + 1 PROVE n * i >= n * (j + 1)
        OBVIOUS
      <3> DEFINE d == i - (j + 1)
      <3>1. d \in Nat /\ i = (j + 1) + d
        OBVIOUS
      <3> HIDE DEF d
      <3>2. n * i = n * (j + 1) + n * d /\ n * d \in Nat
        BY <1>n, <3>1
      <3> QED
        BY <1>n, <3>2
    <2>3. i <= j => n * i <= n * j
      <3> SUFFICES ASSUME i <= j PROVE n * i <= n * j
        OBVIOUS
      <3> DEFINE d == j - i
      <3>1. d \in Nat /\ j = i + d
        OBVIOUS
      <3> HIDE DEF d
      <3>2. n * j = n * i + n * d /\ n * d \in Nat
        BY <1>n, <3>1
      <3> QED
        BY <1>n, <3>2
    <2> QED
      BY <1>n, <2>1, <2>2, <2>3
  <1>10. r[1] <= q
    <2>1. PICK l \in Nat : r[1] = n * l
      BY <1>2, <1>8
    <2>2. n * l < n * k + n
      BY <1>1, <1>6, <1>n, <2>1
    <2>3. n * l <= n * k
      BY <1>9, <2>2
    <2> QED
      BY <1>6, <1>7, <1>n, <2>1, <2>3
  <1>11. c + n <= r[2]
    <2>1. CASE r[2] = GuestEnd
      BY <1>3, <1>4, <2>1, ChunkFacts DEF n
    <2>2. CASE r[2] \in Chunks
      <3>1. PICK l \in Nat : r[2] = n * l
        BY <1>8, <2>2
      <3>2. ~(n * l <= n * k)
        BY <1>1, <1>6, <1>n, <3>1
      <3>3. ~(n * l < n * k + n)
        BY <1>9, <3>2
      <3> QED
        BY <1>6, <1>n, <3>1, <3>3
    <2> QED
      BY <1>2, <2>1, <2>2
  <1>12. q < r[2]
    <2>1. r[2] \in Nat
      BY <1>2, ChunkFacts, SizeAssumption
    <2> QED
      BY <1>7, <1>11, <1>n, <2>1
  <1> QED
    BY <1>1, <1>10, <1>12 DEF is_executable, InRange

------------------------------------------------------------------------------
(* The sites of a chunk *)

Directs(c) == {a \in Leaving(c) : code[a].op \in DirectOps}

(* Each instruction's site is its own, and none is the call at the end.    *)
LEMMA SiteOrder ==
    ASSUME PoolDataOK, NEW c \in Chunks
    PROVE  LET m == InstrMap(code, c) IN
           /\ m[ChunkInstrs] \in Nat
           /\ \A a \in Leaving(c) : SiteOffset(a, m) \in Nat /\ SiteOffset(a, m) < m[ChunkInstrs]
           /\ \A a, b \in Leaving(c) : a < b => SiteOffset(a, m) < SiteOffset(b, m)
  <1> DEFINE m == InstrMap(code, c)
  <1>1. code \in Programs
    BY DEF PoolDataOK
  <1>2. /\ \A i \in 0 .. ChunkInstrs : m[i] \in Nat
        /\ \A i \in Index : m[i + 1] = m[i] + EmitLen(code, c + i)
        /\ \A i, j \in 0 .. ChunkInstrs : i < j => m[i] <= m[j]
    BY <1>1, OffsetFacts, EncoderAssumption
  <1>3. /\ ChunkInstrs \in Nat \ {0} /\ ChunkInstrs \in 0 .. ChunkInstrs
        /\ \A i \in Index : i \in Nat /\ i \in 0 .. ChunkInstrs /\ i + 1 \in 0 .. ChunkInstrs
    BY SizeAssumption DEF Index
  <1> HIDE DEF m
  <1>4. ASSUME NEW a \in Leaving(c), NEW j \in 0 .. ChunkInstrs, a % ChunkInstrs < j
        PROVE  /\ SiteOffset(a, m) \in Nat
               /\ SiteOffset(a, m) < m[j]
               /\ m[a % ChunkInstrs] <= SiteOffset(a, m)
    <2>1. a % ChunkInstrs \in Index /\ a = c + (a % ChunkInstrs) /\ a \in GuestAddrs
      BY PositionFacts DEF Leaving
    <2>2. code[a].op \in Ops /\ TailLen(code, a) > 0
      BY <1>1, <2>1, ProgramAssumption DEF Leaving
    <2>3. TailLen(code, a) \in Nat /\ BodyLen[code[a].op] \in Nat
      BY <2>2, SizeAssumption DEF TailLen
    <2>4. PICK f \in Nat, g \in Nat, h \in Nat, body \in Nat, tail \in Nat :
             /\ f = m[a % ChunkInstrs] /\ g = m[(a % ChunkInstrs) + 1] /\ h = m[j]
             /\ body = BodyLen[code[a].op] /\ tail = TailLen(code, a)
      BY <1>2, <1>3, <2>1, <2>3
    <2>5. g = f + (body + tail)
      <3>1. g = f + EmitLen(code, a)
        BY <1>2, <2>1, <2>4
      <3> QED
        BY <2>4, <3>1 DEF EmitLen
    <2>6. g <= h
      <3>1. (a % ChunkInstrs) + 1 < j \/ (a % ChunkInstrs) + 1 = j
        BY <1>3, <1>4, <2>1
      <3> QED
        BY <1>2, <1>3, <2>1, <2>4, <3>1
    <2>7. SiteOffset(a, m) = f + body
      BY <2>4 DEF SiteOffset
    <2>8. tail > 0
      BY <2>2, <2>4
    <2>9. f + body < h /\ f <= f + body
      BY <2>5, <2>6, <2>8
    <2> QED
      BY <2>4, <2>7, <2>9
  <1>5. ASSUME NEW a \in Leaving(c)
        PROVE  SiteOffset(a, m) \in Nat /\ SiteOffset(a, m) < m[ChunkInstrs]
    <2>1. a % ChunkInstrs < ChunkInstrs
      BY <1>3, PositionFacts DEF Leaving, Index
    <2> QED
      BY <1>3, <1>4, <2>1
  <1>6. ASSUME NEW a \in Leaving(c), NEW b \in Leaving(c), a < b
        PROVE  SiteOffset(a, m) < SiteOffset(b, m)
    <2>1. /\ a % ChunkInstrs \in Index /\ a = c + (a % ChunkInstrs)
          /\ b % ChunkInstrs \in Index /\ b = c + (b % ChunkInstrs)
      BY PositionFacts DEF Leaving
    <2>2. PICK i \in Index, j \in Index : i = a % ChunkInstrs /\ j = b % ChunkInstrs
      BY <2>1
    <2>3. i < j
      <3>1. c \in Nat /\ i \in Nat /\ j \in Nat
        BY <1>3, ChunkFacts
      <3>2. a = c + i /\ b = c + j
        BY <2>1, <2>2
      <3> QED
        BY <1>6, <3>1, <3>2
    <2>4. j \in 0 .. ChunkInstrs /\ j + 1 \in 0 .. ChunkInstrs /\ j < j + 1
      BY <1>3
    <2>5. SiteOffset(a, m) \in Nat /\ SiteOffset(a, m) < m[j]
      BY <1>4, <2>2, <2>3, <2>4
    <2>6. m[j] <= SiteOffset(b, m) /\ SiteOffset(b, m) \in Nat
      BY <1>4, <2>2, <2>4
    <2>7. m[j] \in Nat
      BY <1>2, <2>4
    <2> QED
      BY <2>5, <2>6, <2>7
  <1> QED
    BY <1>2, <1>3, <1>5, <1>6 DEF m

(* What ChunkSites puts where. *)
LEMMA ChunkSitesAre ==
    ASSUME PoolDataOK, NEW c \in Chunks, NEW addr \in Nat
    PROVE  LET m   == InstrMap(code, c)
               new == ChunkSites(c, m, addr)
           IN  /\ addr + m[ChunkInstrs] \in DOMAIN new
               /\ new[addr + m[ChunkInstrs]] = Call("end")
               /\ \A a \in Leaving(c) : /\ addr + SiteOffset(a, m) \in DOMAIN new
                                         /\ new[addr + SiteOffset(a, m)] = SiteCell(a, m, addr)
  <1> DEFINE m == InstrMap(code, c)
             end == addr + m[ChunkInstrs]
             at(a) == addr + SiteOffset(a, m)
             new == ChunkSites(c, m, addr)
  <1>1. /\ m[ChunkInstrs] \in Nat
        /\ \A a \in Leaving(c) : SiteOffset(a, m) \in Nat /\ SiteOffset(a, m) < m[ChunkInstrs]
        /\ \A a, b \in Leaving(c) : a < b => SiteOffset(a, m) < SiteOffset(b, m)
    BY SiteOrder
  <1>2. new = [t \in {end} \cup {at(a) : a \in Leaving(c)} |->
                 IF t = end THEN Call("end")
                            ELSE SiteCell(CHOOSE a \in Leaving(c) : at(a) = t, m, addr)]
    BY DEF ChunkSites
  <1>3. \A a \in Leaving(c) : a \in Int
    BY ChunkFacts, PositionFacts DEF Leaving
  <1> HIDE DEF m, new
  <1>4. ASSUME NEW a \in Leaving(c) PROVE at(a) # end
    BY <1>1
  <1>5. ASSUME NEW a \in Leaving(c), NEW b \in Leaving(c), at(a) = at(b) PROVE a = b
    <2>1. SiteOffset(a, m) = SiteOffset(b, m)
      BY <1>1, <1>5
    <2>2. ~(a < b) /\ ~(b < a)
      BY <1>1, <2>1
    <2> QED
      BY <1>3, <2>2
  <1>6. ASSUME NEW a \in Leaving(c)
        PROVE  at(a) \in DOMAIN new /\ new[at(a)] = SiteCell(a, m, addr)
    <2> DEFINE b == CHOOSE b \in Leaving(c) : at(b) = at(a)
    <2>1. b \in Leaving(c) /\ at(b) = at(a)
      OBVIOUS
    <2>2. b = a
      BY <1>5, <2>1
    <2>3. at(a) \in DOMAIN new /\ new[at(a)] = SiteCell(b, m, addr)
      BY <1>2, <1>4
    <2> QED
      BY <2>2, <2>3
  <1> QED
    BY <1>2, <1>6 DEF m, new

------------------------------------------------------------------------------
(* The invariant *)

DirectSite(c, a) == executable_map[c].addr + SiteOffset(a, executable_map[c].instr_map)
EndSite(c)       == executable_map[c].addr + executable_map[c].len - CallLen

(* A site that is a jump to target's translation, or still a call of kind. *)
Linked(s, target, kind) == Leads(s, target) /\ sites[s].kind \in {kind, "jmp"}

AllLinked ==
    \A c \in DOMAIN executable_map :
        /\ \A a \in Directs(c) : Linked(DirectSite(c, a), code[a].to, "rewrite")
        /\ Linked(EndSite(c), c + ChunkInstrs, "end")

(* Nothing is translated before every segment is known ... *)
AllMapped == DOMAIN executable_map # {} => exec_ranges = Ranges

(* ... and only executable chunks are. *)
MapExecutable == \A p \in Nat : ChunkAddr(p) \in DOMAIN executable_map => is_executable(p)

LinksInv == SitesInv /\ AllMapped /\ MapExecutable /\ AllLinked

LEMMA LinksFollow == LinksInv => LinksCoherent
  BY DEF LinksInv, AllLinked, LinksCoherent, Linked, DirectSite, EndSite, Directs

(* A site stays linked while the map grows, patched to its target or not.  *)
LEMMA StaysLinked ==
    ASSUME NEW s, NEW target \in Nat, NEW kind, Linked(s, target, kind),
           exec_ranges' = exec_ranges,
           \A d \in DOMAIN executable_map :
              d \in DOMAIN executable_map' /\ executable_map'[d] = executable_map[d],
           s \in DOMAIN sites',
           \/ sites'[s] = sites[s]
           \/ /\ sites'[s] = Jmp(Resolve(executable_map, target)')
              /\ is_executable(target) => ChunkAddr(target) \in DOMAIN executable_map'
    PROVE  Linked(s, target, kind)'
  <1>1. is_executable(target)' <=> is_executable(target)
    BY DEF is_executable
  <1>2. Leads(s, target) /\ sites[s].kind \in {kind, "jmp"}
    BY DEF Linked
  <1>3. CASE sites'[s] = sites[s]
    <2>1. sites[s].kind = "jmp" =>
             /\ is_executable(target) => ChunkAddr(target) \in DOMAIN executable_map
             /\ sites[s].to = Resolve(executable_map, target)
      BY <1>2 DEF Leads
    <2>2. (is_executable(target) => ChunkAddr(target) \in DOMAIN executable_map) =>
             Resolve(executable_map, target)' = Resolve(executable_map, target)
      BY <1>1 DEF Resolve
    <2>3. Leads(s, target)'
      BY <1>1, <1>3, <2>1, <2>2 DEF Leads
    <2> QED
      BY <1>2, <1>3, <2>3 DEF Linked
  <1>4. CASE /\ sites'[s] = Jmp(Resolve(executable_map, target)')
             /\ is_executable(target) => ChunkAddr(target) \in DOMAIN executable_map'
    <2>1. sites'[s].kind = "jmp" /\ sites'[s].to = Resolve(executable_map, target)'
      BY <1>4 DEF Jmp
    <2>2. Leads(s, target)'
      BY <1>1, <1>4, <2>1 DEF Leads
    <2> QED
      BY <2>1, <2>2 DEF Linked
  <1> QED
    BY <1>3, <1>4

(* Every target of a direct branch and every next chunk is an address. *)
LEMMA TargetTypes ==
    ASSUME PoolDataOK, NEW c \in Chunks
    PROVE  /\ c + ChunkInstrs \in Nat
           /\ \A a \in Directs(c) : code[a].to \in Nat /\ a \in Leaving(c) /\ a \in GuestAddrs
  <1>1. code \in Programs
    BY DEF PoolDataOK
  <1>2. \A a \in Leaving(c) : a \in GuestAddrs
    BY PositionFacts DEF Leaving
  <1>3. c + ChunkInstrs \in Nat
    <2>1. c \in Nat /\ ChunkInstrs \in Nat
      BY ChunkFacts, SizeAssumption
    <2> QED
      BY <2>1
  <1>4. ASSUME NEW a \in Directs(c)
        PROVE  code[a].to \in Nat /\ a \in Leaving(c) /\ a \in GuestAddrs
    <2>1. a \in Leaving(c) /\ a \in GuestAddrs /\ code[a].op \in DirectOps
      BY <1>2 DEF Directs
    <2>2. code[a].to \in 0 .. GuestEnd
      BY <1>1, <2>1, ProgramAssumption
    <2> QED
      BY <2>1, <2>2, SizeAssumption
  <1> QED
    BY <1>3, <1>4

(* The patch, if any, is a pending call whose target is ptr. *)
PatchFor(ptr, patch) ==
    patch # Null =>
        /\ patch \in SitesOf("rewrite") \cup SitesOf("end")
        /\ \A c \in DOMAIN executable_map :
              /\ \A a \in Directs(c) : patch = DirectSite(c, a) => code[a].to = ptr
              /\ patch = EndSite(c) => c + ChunkInstrs = ptr

(* The links of chunks that were there survive a call of get_exec. *)
LEMMA OldLinks ==
    ASSUME IInv, AllLinked, code' = code, exec_ranges' = exec_ranges,
           NEW ptr \in Nat, NEW patch, PatchFor(ptr, patch),
           \A d \in DOMAIN executable_map :
              d \in DOMAIN executable_map' /\ executable_map'[d] = executable_map[d],
           is_executable(ptr) => ChunkAddr(ptr) \in DOMAIN executable_map',
           \A s \in DOMAIN sites :
              /\ s \in DOMAIN sites'
              /\ \/ sites'[s] = sites[s]
                 \/ patch # Null /\ s = patch /\ sites'[s] = Jmp(Resolve(executable_map, ptr)'),
           NEW c \in DOMAIN executable_map
    PROVE  /\ (\A a \in Directs(c) : Linked(DirectSite(c, a), code[a].to, "rewrite"))'
           /\ Linked(EndSite(c), c + ChunkInstrs, "end")'
  <1>1. c \in Chunks /\ PoolDataOK
    BY DEF IInv, PoolDataOK
  <1>2. Directs(c)' = Directs(c)
    BY DEF Directs, Leaving, TailLen
  <1>3. ASSUME NEW a \in Directs(c) PROVE Linked(DirectSite(c, a), code[a].to, "rewrite")'
    <2>0. PICK s : s = DirectSite(c, a)
      OBVIOUS
    <2>a. PICK target \in Nat : target = code[a].to
      BY <1>1, TargetTypes
    <2>1. s = DirectSite(c, a) /\ target = code[a].to
      BY <2>0, <2>a
    <2>2. Linked(s, target, "rewrite")
      BY <2>1 DEF AllLinked
    <2>3. s \in DOMAIN sites
      BY <2>2 DEF Linked, Leads
    <2>4. s = patch /\ patch # Null => target = ptr
      BY <2>1 DEF PatchFor
    <2>5. Linked(s, target, "rewrite")'
      BY <2>2, <2>3, <2>4, StaysLinked
    <2>6. DirectSite(c, a)' = s /\ code'[a].to = target
      BY <2>1 DEF DirectSite, SiteOffset
    <2> QED
      BY <2>5, <2>6
  <1>4. Linked(EndSite(c), c + ChunkInstrs, "end")'
    <2>0. PICK s : s = EndSite(c)
      OBVIOUS
    <2>a. PICK target \in Nat : target = c + ChunkInstrs
      BY <1>1, TargetTypes
    <2>1. s = EndSite(c) /\ target = c + ChunkInstrs
      BY <2>0, <2>a
    <2>2. Linked(s, target, "end")
      BY <2>1 DEF AllLinked
    <2>3. s \in DOMAIN sites
      BY <2>2 DEF Linked, Leads
    <2>4. s = patch /\ patch # Null => target = ptr
      BY <2>1 DEF PatchFor
    <2>5. Linked(s, target, "end")'
      BY <2>2, <2>3, <2>4, StaysLinked
    <2>6. EndSite(c)' = s
      BY <2>1 DEF EndSite
    <2> QED
      BY <2>1, <2>5, <2>6
  <1> QED
    BY <1>2, <1>3, <1>4

(* The links of the chunk get_exec translates: a branch within the chunk,  *)
(* one into a chunk translated before, or a call that waits for the patch. *)
LEMMA NewLinks ==
    ASSUME IInv, IInv', SitesShape, MapExecutable, UNCHANGED <<code, exec_ranges>>,
           NEW ptr \in Nat, NEW patch, patch # Null => patch \in DOMAIN sites,
           CompileChunk(ptr, patch),
           NEW c, c = ChunkAddr(ptr)
    PROVE  /\ (\A a \in Directs(c) : Linked(DirectSite(c, a), code[a].to, "rewrite"))'
           /\ Linked(EndSite(c), c + ChunkInstrs, "end")'
  <1> DEFINE m == InstrMap(code, c)
  <1>1. /\ c \in Chunks /\ c \notin DOMAIN executable_map
        /\ DOMAIN executable_map' = DOMAIN executable_map \cup {c}
        /\ \A d \in DOMAIN executable_map : executable_map'[d] = executable_map[d]
    BY CompileFacts
  <1>2. PICK addr \in Nat :
          /\ executable_map'[c] = [instr_map |-> [i \in Index |-> m[i]],
                                   addr |-> addr, len |-> ChunkLen(code, c)]
          /\ sites' = WriteJump(Extend(sites, ChunkSites(c, m, addr)),
                                patch, Resolve(executable_map', ptr))
    BY CompileFacts
  <1> DEFINE new == ChunkSites(c, m, addr)
             all == Extend(sites, new)
             to  == Resolve(executable_map', ptr)
  <1>3. /\ executable_map'[c].addr = addr
        /\ executable_map'[c].len = ChunkLen(code, c)
        /\ \A i \in Index : executable_map'[c].instr_map[i] = m[i]
    BY <1>2
  <1>4. \A s \in DOMAIN sites : s \notin DOMAIN new
    BY <1>1, <1>3, FreshSites
  <1>5. PoolDataOK
    BY DEF IInv
  <1>6. /\ addr + m[ChunkInstrs] \in DOMAIN new
        /\ new[addr + m[ChunkInstrs]] = Call("end")
        /\ \A a \in Leaving(c) : /\ addr + SiteOffset(a, m) \in DOMAIN new
                                  /\ new[addr + SiteOffset(a, m)] = SiteCell(a, m, addr)
    BY <1>1, <1>5, ChunkSitesAre
  <1>7. is_executable(ptr) /\ exec_ranges \subseteq Ranges
    BY <1>5 DEF CompileChunk, Missing, PoolDataOK
  <1>8. ASSUME NEW a \in Leaving(c)
        PROVE  /\ a % ChunkInstrs \in Index /\ ChunkAddr(a) = c /\ a \in GuestAddrs
               /\ SiteOffset(a, executable_map'[c].instr_map) = SiteOffset(a, m)
    <2>1. a % ChunkInstrs \in Index /\ a = c + (a % ChunkInstrs) /\ a \in GuestAddrs
      BY <1>1, PositionFacts DEF Leaving
    <2>2. PICK i \in Nat : i = a % ChunkInstrs
      BY <2>1, SizeAssumption DEF Index
    <2>3. c \in Nat /\ a = c + i
      BY <1>1, <2>1, <2>2, ChunkFacts
    <2>4. ChunkAddr(a) = c
      BY <2>2, <2>3 DEF ChunkAddr
    <2> QED
      BY <1>3, <2>1, <2>4 DEF SiteOffset
  <1>9. c \in Nat /\ m[ChunkInstrs] \in Nat /\ CallLen \in Nat
        /\ ChunkLen(code, c) = m[ChunkInstrs] + CallLen
    BY <1>1, <1>5, SiteOrder, ChunkFacts, SizeAssumption DEF ChunkLen
  <1> HIDE DEF m, new, to
  <1>10. /\ DOMAIN all = DOMAIN sites \cup DOMAIN new
         /\ \A s \in DOMAIN new : all[s] = new[s]
    BY ExtendFacts
  <1>11. sites' = WriteJump(all, patch, to)
    BY <1>2 DEF new, to
  <1> HIDE DEF all
  <1>12. ASSUME NEW s \in DOMAIN new
         PROVE  s \in DOMAIN sites' /\ sites'[s] = new[s]
    <2>1. /\ DOMAIN sites' = DOMAIN all
          /\ sites'[s] = all[s] \/ (patch # Null /\ s = patch)
      BY <1>10, <1>11, WriteJumpFacts
    <2> QED
      BY <1>4, <1>10, <2>1
  <1>13. ASSUME NEW a \in Directs(c)
         PROVE  Linked(DirectSite(c, a), code[a].to, "rewrite")'
    <2>0. PICK target \in Nat : target = code[a].to
      BY <1>1, <1>5, TargetTypes
    <2>1. a \in Leaving(c) /\ code[a].op \in DirectOps
      BY DEF Directs
    <2> DEFINE s == addr + SiteOffset(a, m)
    <2>2. DirectSite(c, a)' = s
      BY <1>3, <1>8, <2>1 DEF DirectSite, SiteOffset
    <2>3. s \in DOMAIN sites' /\ sites'[s] = SiteCell(a, m, addr)
      BY <1>6, <1>12, <2>1 DEF m
    <2> HIDE DEF s
    <2>4. SiteCell(a, m, addr) =
             IF ChunkAddr(target) = c
               THEN Jmp(addr + m[target % ChunkInstrs])
             ELSE IF ChunkAddr(target) \in DOMAIN executable_map
               THEN Jmp(executable_map[ChunkAddr(target)].addr
                          + executable_map[ChunkAddr(target)].instr_map[target % ChunkInstrs])
             ELSE Call("rewrite")
      <3> DEFINE other(i) == executable_map[ChunkAddr(i)]
                 direct(i) == IF ChunkAddr(i) = ChunkAddr(a) THEN Jmp(addr + m[i % ChunkInstrs])
                              ELSE IF ChunkAddr(i) \in DOMAIN executable_map
                                THEN Jmp(other(i).addr + other(i).instr_map[i % ChunkInstrs])
                              ELSE Call("rewrite")
      <3>1. SiteCell(a, m, addr) =
               CASE code[a].op \in DirectOps -> direct(code[a].to)
                 [] code[a].op \in IndirectOps -> Call("indirect")
                 [] code[a].op = "undef" -> Call("undef")
        BY DEF SiteCell
      <3>2. code[a].op \notin IndirectOps /\ code[a].op # "undef"
        BY <2>1 DEF DirectOps, IndirectOps
      <3> HIDE DEF direct
      <3>3. SiteCell(a, m, addr) = direct(code[a].to)
        BY <2>1, <3>1, <3>2
      <3> QED
        BY <1>8, <2>0, <2>1, <3>3 DEF direct
    <2>5. is_executable(target)' <=> is_executable(target)
      BY DEF is_executable
    <2>6. target % ChunkInstrs \in Index
      BY SizeAssumption DEF Index
    <2>7. CASE ChunkAddr(target) = c
      <3>1. is_executable(target)
        BY <1>7, <2>7, WholeChunk
      <3>2. Resolve(executable_map, target)' = addr + m[target % ChunkInstrs]
        BY <1>3, <2>5, <2>6, <2>7, <3>1 DEF Resolve
      <3>3. sites'[s] = Jmp(addr + m[target % ChunkInstrs])
        BY <2>3, <2>4, <2>7
      <3> QED
        BY <1>1, <2>0, <2>2, <2>3, <2>7, <3>2, <3>3 DEF Linked, Leads, Jmp
    <2>8. CASE ChunkAddr(target) # c /\ ChunkAddr(target) \in DOMAIN executable_map
      <3>1. is_executable(target)
        BY <2>8 DEF MapExecutable
      <3>2. Resolve(executable_map, target)'
               = executable_map[ChunkAddr(target)].addr
                   + executable_map[ChunkAddr(target)].instr_map[target % ChunkInstrs]
        BY <1>1, <2>5, <2>8, <3>1 DEF Resolve
      <3>3. sites'[s] = Jmp(Resolve(executable_map, target)')
        BY <2>3, <2>4, <2>8, <3>2
      <3> QED
        BY <1>1, <2>0, <2>2, <2>3, <2>8, <3>3 DEF Linked, Leads, Jmp
    <2>9. CASE ChunkAddr(target) # c /\ ChunkAddr(target) \notin DOMAIN executable_map
      <3>1. sites'[s] = Call("rewrite")
        BY <2>3, <2>4, <2>9
      <3> QED
        BY <2>2, <2>3, <3>1 DEF Linked, Leads, Call
    <2> QED
      BY <2>7, <2>8, <2>9
  <1>14. Linked(EndSite(c), c + ChunkInstrs, "end")'
    <2>1. EndSite(c)' = addr + m[ChunkInstrs]
      BY <1>3, <1>9 DEF EndSite
    <2>2. /\ addr + m[ChunkInstrs] \in DOMAIN sites'
          /\ sites'[addr + m[ChunkInstrs]] = Call("end")
      BY <1>6, <1>12 DEF m
    <2> QED
      BY <2>1, <2>2 DEF Linked, Leads, Call
  <1>15. Directs(c)' = Directs(c)
    BY <1>1 DEF Directs, Leaving, TailLen
  <1> QED
    BY <1>13, <1>14, <1>15

------------------------------------------------------------------------------
(* Steps *)

(* Steps that leave the map and the sites alone keep every link. *)
LEMMA SameLinks ==
    ASSUME UNCHANGED <<code, exec_ranges, executable_map, sites>>,
           MapExecutable, AllLinked
    PROVE  MapExecutable' /\ AllLinked'
  <1>1. \A p : is_executable(p)' <=> is_executable(p)
    BY DEF is_executable
  <1>2. \A s, target : Leads(s, target)' <=> Leads(s, target)
    BY <1>1 DEF Leads, Resolve
  <1>3. \A c : Directs(c)' = Directs(c)
    BY DEF Directs, Leaving, TailLen
  <1> QED
    BY <1>1, <1>2, <1>3 DEF MapExecutable, AllLinked, Linked, DirectSite, EndSite, SiteOffset

(* get_exec, called with no patch or to patch a pending call of its own.   *)
LEMMA GetExecLinks ==
    ASSUME LinksInv, IInv', Loaded, NEW ptr \in Nat, NEW patch, PatchFor(ptr, patch),
           GetExec(ptr, patch)
    PROVE  AllMapped' /\ MapExecutable' /\ AllLinked'
  <1>1. /\ IInv /\ SitesShape /\ MapExecutable /\ AllLinked /\ PoolDataOK
        /\ code' = code /\ exec_ranges' = exec_ranges /\ exec_ranges = Ranges
    BY DEF LinksInv, SitesInv, IInv, GetExec, Found, CompileChunk, CompilePanics, MmapFails, GiveUp, Loaded
  <1>2. AllMapped'
    BY <1>1 DEF AllMapped
  <1>3. \A p : is_executable(p)' <=> is_executable(p)
    BY <1>1 DEF is_executable
  <1>4. patch # Null => patch \in DOMAIN sites
    BY DEF PatchFor, SitesOf
  <1>5. CASE Found(ptr, patch)
    <2>1. /\ executable_map' = executable_map
          /\ sites' = WriteJump(sites, patch, Resolve(executable_map, ptr))
          /\ is_executable(ptr) => ChunkAddr(ptr) \in DOMAIN executable_map
      BY <1>5 DEF Found, Missing
    <2>2. Resolve(executable_map, ptr)' = Resolve(executable_map, ptr)
      BY <1>3, <2>1 DEF Resolve
    <2>3. \A s \in DOMAIN sites :
             /\ s \in DOMAIN sites'
             /\ \/ sites'[s] = sites[s]
                \/ patch # Null /\ s = patch /\ sites'[s] = Jmp(Resolve(executable_map, ptr)')
      BY <2>1, <2>2 DEF WriteJump
    <2>4. ASSUME NEW c \in DOMAIN executable_map
          PROVE  /\ (\A a \in Directs(c) : Linked(DirectSite(c, a), code[a].to, "rewrite"))'
                 /\ Linked(EndSite(c), c + ChunkInstrs, "end")'
      BY <1>1, <2>1, <2>3, OldLinks
    <2> QED
      BY <1>1, <1>2, <1>3, <2>1, <2>4 DEF AllLinked, MapExecutable
  <1>6. CASE CompileChunk(ptr, patch)
    <2>1. PICK c : c = ChunkAddr(ptr)
      OBVIOUS
    <2>2. /\ c \in Chunks /\ c \notin DOMAIN executable_map
          /\ DOMAIN executable_map' = DOMAIN executable_map \cup {c}
          /\ \A d \in DOMAIN executable_map : executable_map'[d] = executable_map[d]
      BY <1>1, <1>6, <2>1, CompileFacts
    <2>3. PICK addr \in Nat :
             sites' = WriteJump(Extend(sites, ChunkSites(c, InstrMap(code, c), addr)),
                                patch, Resolve(executable_map', ptr))
             /\ executable_map'[c].addr = addr
             /\ executable_map'[c].len = ChunkLen(code, c)
      <3>1. PICK addr \in Nat :
               /\ executable_map'[c] = [instr_map |-> [i \in Index |-> InstrMap(code, c)[i]],
                                        addr |-> addr, len |-> ChunkLen(code, c)]
               /\ sites' = WriteJump(Extend(sites, ChunkSites(c, InstrMap(code, c), addr)),
                                     patch, Resolve(executable_map', ptr))
        BY <1>1, <1>6, <2>1, CompileFacts
      <3>2. executable_map'[c].addr = addr /\ executable_map'[c].len = ChunkLen(code, c)
        BY <3>1
      <3> QED
        BY <3>1, <3>2
    <2> DEFINE new == ChunkSites(c, InstrMap(code, c), addr)
               all == Extend(sites, new)
    <2>4. \A s \in DOMAIN sites : s \notin DOMAIN new
      BY <1>1, <2>2, <2>3, FreshSites
    <2>5. Resolve(executable_map, ptr)' = Resolve(executable_map', ptr)
      BY <1>3 DEF Resolve
    <2> HIDE DEF new
    <2>6. /\ DOMAIN all = DOMAIN sites \cup DOMAIN new
          /\ \A s \in DOMAIN sites : all[s] = sites[s]
      BY <2>4, ExtendFacts
    <2>7. sites' = WriteJump(all, patch, Resolve(executable_map, ptr)')
      BY <2>3, <2>5 DEF new
    <2> HIDE DEF all
    <2>8. \A s \in DOMAIN sites :
             /\ s \in DOMAIN sites'
             /\ \/ sites'[s] = sites[s]
                \/ patch # Null /\ s = patch /\ sites'[s] = Jmp(Resolve(executable_map, ptr)')
      BY <2>6, <2>7 DEF WriteJump
    <2>9. ASSUME NEW d \in DOMAIN executable_map
          PROVE  /\ (\A a \in Directs(d) : Linked(DirectSite(d, a), code[a].to, "rewrite"))'
                 /\ Linked(EndSite(d), d + ChunkInstrs, "end")'
      BY <1>1, <2>1, <2>2, <2>8, OldLinks
    <2>10. /\ (\A a \in Directs(c) : Linked(DirectSite(c, a), code[a].to, "rewrite"))'
           /\ Linked(EndSite(c), c + ChunkInstrs, "end")'
      BY <1>1, <1>4, <1>6, <2>1, NewLinks
    <2>11. AllLinked'
      BY <2>2, <2>9, <2>10 DEF AllLinked
    <2>12. ASSUME NEW p \in Nat, ChunkAddr(p) \in DOMAIN executable_map'
           PROVE  is_executable(p)
      <3>1. CASE ChunkAddr(p) \in DOMAIN executable_map
        BY <1>1, <3>1 DEF MapExecutable
      <3>2. CASE ChunkAddr(p) = c
        <4>1. is_executable(ptr) /\ exec_ranges \subseteq Ranges
          BY <1>1, <1>6 DEF CompileChunk, Missing
        <4> QED
          BY <2>1, <3>2, <4>1, WholeChunk
      <3> QED
        BY <2>2, <2>12, <3>1, <3>2
    <2>13. MapExecutable'
      BY <1>3, <2>12 DEF MapExecutable
    <2> QED
      BY <1>2, <2>11, <2>13
  <1>7. CASE GiveUp
    <2>1. UNCHANGED <<code, exec_ranges, executable_map, sites>>
      BY <1>1, <1>7 DEF GiveUp
    <2> QED
      BY <1>1, <1>2, <2>1, SameLinks
  <1> QED
    BY <1>5, <1>6, <1>7 DEF GetExec, CompilePanics, MmapFails

(* from_exec finds the instruction a site belongs to. *)
LEMMA SiteAttribution ==
    ASSUME IInv, NEW c \in DOMAIN executable_map
    PROVE  /\ \A a \in Directs(c) : FromExec(DirectSite(c, a)) = {a}
           /\ FromExec(EndSite(c)) = {c + ChunkInstrs - 1}
  <1> DEFINE chunk == executable_map[c]
  <1>1. c \in Chunks /\ code \in Programs /\ chunk \in Chunk /\ PoolDataOK
    BY DEF IInv, PoolDataOK
  <1>2. ASSUME NEW a \in Directs(c) PROVE FromExec(DirectSite(c, a)) = {a}
    <2> DEFINE i == a % ChunkInstrs
               body == BodyLen[code[a].op]
    <2>1. i \in Index /\ a = c + i /\ a \in GuestAddrs /\ TailLen(code, a) > 0
      BY <1>1, PositionFacts DEF Directs, Leaving
    <2>2. code[a].op \in Ops
      BY <1>1, <2>1, ProgramAssumption
    <2>3. body \in Nat /\ TailLen(code, a) \in Nat
      BY <2>2, SizeAssumption DEF TailLen
    <2>4. body \in 0 .. EmitLen(code, c + i) - 1
      BY <2>1, <2>3 DEF EmitLen
    <2>5. FromExec(chunk.addr + chunk.instr_map[i] + body) = {c + i}
      BY <2>1, <2>4, AttributionFollows DEF Attribution
    <2>6. DirectSite(c, a) = chunk.addr + chunk.instr_map[i] + body
      <3>1. chunk.addr \in Nat /\ chunk.instr_map[i] \in Nat
        BY <1>1, <2>1 DEF Chunk
      <3>2. DirectSite(c, a) = chunk.addr + (chunk.instr_map[i] + body)
        BY DEF DirectSite, SiteOffset
      <3> QED
        BY <2>3, <3>1, <3>2
    <2> QED
      BY <2>1, <2>5, <2>6
  <1>3. FromExec(EndSite(c)) = {c + ChunkInstrs - 1}
    <2>1. chunk.addr \in Nat /\ chunk.len \in Nat
      BY <1>1 DEF Chunk
    <2>2. CallLen \in Nat \ {0}
      BY SizeAssumption
    <2>3. PICK k \in Int : k = chunk.len - CallLen
      BY <2>1, <2>2
    <2>4. k \in chunk.len - CallLen .. chunk.len - 1
      BY <2>1, <2>2, <2>3
    <2>5. FromExec(chunk.addr + k) = {c + ChunkInstrs - 1}
      BY <2>4, AttributionFollows DEF Attribution
    <2>6. EndSite(c) = chunk.addr + k
      BY <2>1, <2>2, <2>3 DEF EndSite
    <2> QED
      BY <2>5, <2>6
  <1> QED
    BY <1>2, <1>3

(* A callback patches the call that is waiting for exactly its target: the *)
(* kinds of call keep branches and chunk ends apart, from_exec the rest.   *)
LEMMA RewriteTarget ==
    ASSUME LinksInv, NEW s \in SitesOf("rewrite"), NEW b \in FromExec(s)
    PROVE  PatchFor(code[b].to, s)
  <1>1. IInv /\ AllLinked /\ sites[s].kind = "rewrite"
    BY DEF LinksInv, SitesInv, SitesOf
  <1>2. ASSUME NEW c \in DOMAIN executable_map, NEW a \in Directs(c), s = DirectSite(c, a)
        PROVE  code[a].to = code[b].to
    BY <1>1, <1>2, SiteAttribution
  <1>3. ASSUME NEW c \in DOMAIN executable_map, s = EndSite(c)
        PROVE  FALSE
    BY <1>1, <1>3 DEF AllLinked, Linked
  <1> QED
    BY <1>2, <1>3 DEF PatchFor

LEMMA EndTarget ==
    ASSUME LinksInv, NEW s \in SitesOf("end"), NEW b \in FromExec(s)
    PROVE  PatchFor(b + 1, s)
  <1>1. IInv /\ AllLinked /\ sites[s].kind = "end" /\ PoolDataOK
    BY DEF LinksInv, SitesInv, IInv, SitesOf
  <1>2. ASSUME NEW c \in DOMAIN executable_map, NEW a \in Directs(c), s = DirectSite(c, a)
        PROVE  FALSE
    BY <1>1, <1>2 DEF AllLinked, Linked
  <1>3. ASSUME NEW c \in DOMAIN executable_map, s = EndSite(c)
        PROVE  c + ChunkInstrs = b + 1
    <2>1. b = c + ChunkInstrs - 1
      BY <1>1, <1>3, SiteAttribution
    <2>2. c \in Nat /\ ChunkInstrs \in Nat
      BY <1>1, ChunkFacts, SizeAssumption DEF PoolDataOK
    <2> QED
      BY <2>1, <2>2
  <1> QED
    BY <1>2, <1>3 DEF PatchFor

LEMMA LinksNext ==
    ASSUME LinksInv, [PoolNext]_poolvars
    PROVE  LinksInv'
  <1>1. /\ SitesInv /\ SitesInv' /\ IInv /\ IInv' /\ SitesShape
        /\ AllMapped /\ MapExecutable /\ AllLinked
    BY SitesNext DEF LinksInv, SitesInv
  <1>2. ASSUME UNCHANGED <<code, exec_ranges, executable_map, sites>>
        PROVE  AllMapped' /\ MapExecutable' /\ AllLinked'
    <2>1. AllMapped'
      BY <1>1, <1>2 DEF AllMapped
    <2> QED
      BY <1>1, <1>2, <2>1, SameLinks
  <1>3. CASE UNCHANGED poolvars
    BY <1>1, <1>2, <1>3 DEF poolvars, LinksInv
  <1>4. ASSUME NEW r \in Ranges \ exec_ranges, DefineExecRange(r)
        PROVE  AllMapped' /\ MapExecutable' /\ AllLinked'
    <2>1. DOMAIN executable_map = {} /\ executable_map' = executable_map
      BY <1>1, <1>4 DEF AllMapped, DefineExecRange
    <2> QED
      BY <2>1 DEF AllMapped, MapExecutable, AllLinked
  <1>5. ASSUME NEW f \in HostFns \ DOMAIN proxies, AllocCode(f)
        PROVE  AllMapped' /\ MapExecutable' /\ AllLinked'
    BY <1>2, <1>5 DEF AllocCode, MmapFails, GiveUp
  <1>6. ASSUME Loaded, NEW p \in 0 .. GuestEnd, GetExec(p, Null)
        PROVE  AllMapped' /\ MapExecutable' /\ AllLinked'
    <2>1. PatchFor(p, Null) /\ p \in Nat
      BY SizeAssumption DEF PatchFor
    <2> QED
      BY <1>1, <1>6, <2>1, GetExecLinks
  <1>7. ASSUME Loaded, NEW s \in SitesOf("rewrite"), RewriteBranch(s)
        PROVE  AllMapped' /\ MapExecutable' /\ AllLinked'
    <2>1. CASE Panic
      BY <1>2, <2>1 DEF Panic
    <2>2. CASE \E b \in FromExec(s) : code[b].op \in DirectOps /\ GetExec(code[b].to, s)
      <3>1. PICK b \in FromExec(s) : GetExec(code[b].to, s)
        BY <2>2
      <3>2. code[b].to \in Nat
        BY <1>1, <1>7, RewriteFound
      <3> QED
        BY <1>1, <1>7, <3>1, <3>2, RewriteTarget, GetExecLinks
    <2> QED
      BY <1>7, <2>1, <2>2 DEF RewriteBranch
  <1>8. ASSUME Loaded, NEW s \in SitesOf("end"), EndOfChunk(s)
        PROVE  AllMapped' /\ MapExecutable' /\ AllLinked'
    <2>1. CASE Panic
      BY <1>2, <2>1 DEF Panic
    <2>2. CASE \E b \in FromExec(s) : GetExec(b + 1, s)
      <3>1. PICK b \in FromExec(s) : GetExec(b + 1, s)
        BY <2>2
      <3>2. s \in Nat
        BY <1>1, <1>8 DEF IInv, PoolDataOK, SitesOf
      <3>3. b \in Nat
        BY <1>1, <3>2, FromExecType, ChunkFacts DEF IInv
      <3>4. b + 1 \in Nat
        BY <3>3
      <3> QED
        BY <1>1, <1>8, <3>1, <3>4, EndTarget, GetExecLinks
    <2> QED
      BY <1>8, <2>1, <2>2 DEF EndOfChunk
  <1>9. CASE PoolNext
    BY <1>1, <1>4, <1>5, <1>6, <1>7, <1>8, <1>9 DEF PoolNext, LinksInv
  <1> QED
    BY <1>3, <1>9

LEMMA LinksInit == PoolInit => LinksInv
  BY SitesInit DEF PoolInit, LinksInv, AllMapped, MapExecutable, AllLinked

------------------------------------------------------------------------------
(* Theorem *)

(* Every jump of translated code leads to the translation of the branch's  *)
(* target, or to the target if no translation of it can exist: whether the *)
(* jump was emitted (within a chunk), linked while its chunk was compiled, *)
(* or patched in later by rewrite_branch or end_of_chunk, and in whichever *)
(* order chunks are translated and calls patched.                          *)
THEOREM LinksAreCoherent == PoolSpec => []LinksCoherent
  <1>1. PoolSpec => []LinksInv
    BY LinksInit, LinksNext, PTL DEF PoolSpec
  <1> QED
    BY <1>1, LinksFollow, PTL
===============================================================================
