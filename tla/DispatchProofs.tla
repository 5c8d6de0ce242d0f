--------------------------- MODULE DispatchProofs ----------------------------
(***************************************************************************)
(* Proofs about the machine of Dispatch, for every size, program, segment  *)
(* layout and order of calls.                                              *)
(*                                                                         *)
(* The pool's invariant LinksInv says that every jump of translated code   *)
(* leads to the translation of its target.  Here it is carried to the      *)
(* processor: every native address that is ever about to be executed, or   *)
(* waits on the shadow stack, is the translation of a guest pointer, so    *)
(* each step is the step the ARM64 program makes at that pointer.          *)
(***************************************************************************)
EXTENDS Dispatch, ExecPoolProofs, SequenceTheorems

------------------------------------------------------------------------------
(* Where control lands *)

Passed(a) == ~Stops(code, exec_ranges, a)
LandAt(t) == Land(code, exec_ranges, t)

(* Past the last instruction there is nothing to pass over. *)
LEMMA EndStops ==
    ASSUME exec_ranges \subseteq Ranges
    PROVE  ~Passed(GuestEnd)
  <1>1. ASSUME NEW r \in exec_ranges PROVE ~(r[1] <= GuestEnd /\ GuestEnd < r[2])
    <2>1. r \in Chunks \X (Chunks \cup {GuestEnd})
      BY RangeAssumption
    <2>2. r[2] \in Chunks \cup {GuestEnd}
      BY <2>1
    <2>3. r[2] <= GuestEnd
      <3>1. \A c \in Chunks : c \in 0 .. GuestEnd - 1
        BY ChunkFacts DEF GuestAddrs
      <3> QED
        BY <2>2, <3>1, SizeAssumption
    <2>4. r[2] \in Nat
      BY <2>2, ChunkFacts, SizeAssumption
    <2> QED
      BY <2>3, <2>4, SizeAssumption
  <1> QED
    BY <1>1 DEF Passed, Stops, InRange

(* Land finds the first address that is not passed over. *)
LEMMA LandIs ==
    ASSUME NEW t \in GuestAddrs, NEW a \in t .. GuestEnd,
           ~Passed(a), \A b \in t .. a - 1 : Passed(b)
    PROVE  LandAt(t) = a
  <1> DEFINE P(x) == ~Passed(x) /\ \A b \in t .. x - 1 : Passed(b)
  <1>1. t \in Nat /\ GuestEnd \in Nat
    BY ChunkFacts, SizeAssumption
  <1>2. LandAt(t) = CHOOSE x \in t .. GuestEnd : P(x)
    BY DEF LandAt, Land, Passed
  <1>3. ASSUME NEW x \in t .. GuestEnd, P(x) PROVE x = a
    <2>1. ~(x < a)
      BY <1>1, <1>3
    <2>2. ~(a < x)
      BY <1>1, <1>3
    <2> QED
      BY <1>1, <2>1, <2>2
  <1>4. P(a)
    OBVIOUS
  <1> HIDE DEF P
  <1> QED
    BY <1>2, <1>3, <1>4

(* Somewhere control always lands. *)
LEMMA LandExists ==
    ASSUME exec_ranges \subseteq Ranges, NEW t \in GuestAddrs
    PROVE  /\ LandAt(t) \in t .. GuestEnd
           /\ ~Passed(LandAt(t))
           /\ \A b \in t .. LandAt(t) - 1 : Passed(b)
  <1> DEFINE S == {x \in t .. GuestEnd : ~Passed(x)}
  <1>1. t \in Nat /\ GuestEnd \in Nat /\ t <= GuestEnd
    BY SizeAssumption DEF GuestAddrs
  <1>2. GuestEnd \in S /\ S \subseteq Nat
    BY <1>1, EndStops
  <1>3. PICK a \in S : \A y \in S : a <= y
    BY <1>2, LeastNumber
  <1>4. \A b \in t .. a - 1 : Passed(b)
    BY <1>1, <1>3
  <1>5. LandAt(t) = a
    BY <1>3, <1>4, LandIs
  <1> QED
    BY <1>3, <1>4, <1>5

(* What is not passed over is where control lands. *)
LEMMA LandStop ==
    ASSUME NEW t, ~Passed(t)
    PROVE  LandAt(t) = t
  <1>1. CASE t \in GuestAddrs
    <2>1. t \in Nat /\ t \in t .. GuestEnd
      BY <1>1, SizeAssumption DEF GuestAddrs
    <2>2. \A b \in t .. t - 1 : Passed(b)
      BY <2>1
    <2> QED
      BY <1>1, <2>1, <2>2, LandIs
  <1>2. CASE t \notin GuestAddrs
    BY <1>2 DEF LandAt, Land
  <1> QED
    BY <1>1, <1>2

(* Passing over instructions does not change where control lands. *)
LEMMA LandSkip ==
    ASSUME exec_ranges \subseteq Ranges, NEW t \in Nat, NEW u \in 0 .. GuestEnd,
           t <= u, \A b \in t .. u - 1 : Passed(b)
    PROVE  LandAt(t) = LandAt(u)
  <1>1. GuestEnd \in Nat
    BY SizeAssumption
  <1>2. CASE t = u
    BY <1>2
  <1>3. CASE t < u
    <2>1. t \in GuestAddrs
      BY <1>1, <1>3 DEF GuestAddrs
    <2>2. PICK a \in u .. GuestEnd : /\ LandAt(u) = a /\ ~Passed(a)
                                     /\ \A b \in u .. a - 1 : Passed(b)
      <3>1. CASE u \in GuestAddrs
        BY <3>1, LandExists
      <3>2. CASE u \notin GuestAddrs
        <4>1. u = GuestEnd
          BY <1>1, <3>2 DEF GuestAddrs
        <4>2. ~Passed(u)
          BY <4>1, EndStops
        <4>3. LandAt(u) = u
          BY <4>2, LandStop
        <4> QED
          BY <1>1, <4>2, <4>3
      <3> QED
        BY <3>1, <3>2
    <2>3. \A b \in t .. a - 1 : Passed(b)
      BY <1>1, <2>2
    <2>4. a \in t .. GuestEnd
      BY <1>1, <2>2
    <2> QED
      BY <2>1, <2>2, <2>3, <2>4, LandIs
  <1> QED
    BY <1>1, <1>2, <1>3

------------------------------------------------------------------------------
(* What a native address stands for *)

(* Exactly the instructions that emit nothing are passed over.             *)
LEMMA EmitFacts ==
    ASSUME PoolDataOK, NEW a \in GuestAddrs
    PROVE  EmitLen(code, a) \in Nat /\ (EmitLen(code, a) = 0 <=> code[a].op = "nop")
  <1>1. code[a].op \in Ops
    BY ProgramAssumption DEF PoolDataOK
  <1>2. BodyLen[code[a].op] \in Nat
    BY <1>1, SizeAssumption
  <1>3. CallLen \in Nat \ {0} /\ JmpLen \in Nat \ {0}
    BY SizeAssumption
  <1>4. CASE code[a].op \in DataOps
    <2>1. TailLen(code, a) = 0
      BY <1>4, Zenon DEF TailLen, DataOps, DirectOps, IndirectOps
    <2>2. BodyLen[code[a].op] = 0 <=> code[a].op = "nop"
      BY <1>4, SizeAssumption
    <2> QED
      BY <1>2, <2>1, <2>2 DEF EmitLen
  <1>5. CASE code[a].op \notin DataOps
    <2>1. TailLen(code, a) \in {JmpLen, CallLen}
      BY <1>1, <1>5, Zenon DEF TailLen, Ops
    <2>2. code[a].op # "nop"
      BY <1>5 DEF DataOps
    <2> QED
      BY <1>2, <1>3, <2>1, <2>2 DEF EmitLen
  <1> QED
    BY <1>4, <1>5

(* The offsets of a translated chunk.                                      *)
LEMMA MapFacts ==
    ASSUME LinksInv, NEW c \in DOMAIN executable_map
    PROVE  LET m == InstrMap(code, c) IN
           /\ c \in Chunks /\ c \in Nat /\ c + ChunkInstrs \in 0 .. GuestEnd
           /\ executable_map[c].addr \in Nat /\ executable_map[c].addr > GuestEnd
           /\ executable_map[c].len = m[ChunkInstrs] + CallLen
           /\ \A i \in 0 .. ChunkInstrs : m[i] \in Nat /\ m[i] <= m[ChunkInstrs]
           /\ \A i \in Index : /\ executable_map[c].instr_map[i] = m[i]
                               /\ m[i + 1] = m[i] + EmitLen(code, c + i)
                               /\ c + i \in GuestAddrs /\ EmitLen(code, c + i) \in Nat
                               /\ is_executable(c + i)
                               /\ (EmitLen(code, c + i) = 0 <=> Passed(c + i))
           /\ EndSite(c) = executable_map[c].addr + m[ChunkInstrs]
  <1> DEFINE m == InstrMap(code, c)
  <1>1. /\ IInv /\ PoolDataOK /\ MapShape /\ code \in Programs /\ exec_ranges \subseteq Ranges
        /\ MapExecutable /\ BlocksInRegions
    BY DEF LinksInv, SitesInv, IInv, PoolDataOK
  <1>2. c \in Chunks /\ executable_map[c] \in Chunk
    BY <1>1 DEF PoolDataOK
  <1>3. /\ ChunkInstrs \in Nat \ {0} /\ GuestEnd \in Nat /\ CallLen \in Nat \ {0}
        /\ c \in Nat /\ c \in GuestAddrs /\ c + ChunkInstrs <= GuestEnd
        /\ \A i \in Index : c + i \in GuestAddrs
    BY <1>2, ChunkFacts, SizeAssumption
  <1>4. executable_map[c].addr \in Nat /\ executable_map[c].addr > GuestEnd
    <2>1. PICK base \in Regions : base <= BlockOf(c).addr
      BY <1>1 DEF BlocksInRegions, Owners
    <2>2. base \in MmapBases
      BY <1>1, <2>1 DEF Regions, PoolDataOK
    <2>3. base \in Nat /\ base > GuestEnd
      BY <2>2, MmapAssumption
    <2>4. executable_map[c].addr \in Nat /\ BlockOf(c).addr = executable_map[c].addr
      BY <1>2 DEF Chunk, BlockOf
    <2> QED
      BY <1>3, <2>1, <2>3, <2>4
  <1>5. executable_map[c].len = m[ChunkInstrs] + CallLen
    BY <1>1, <1>2, OffsetFacts DEF MapShape
  <1>6. /\ \A i \in 0 .. ChunkInstrs : m[i] \in Nat
        /\ \A i \in Index : m[i + 1] = m[i] + EmitLen(code, c + i)
        /\ \A i, j \in 0 .. ChunkInstrs : i < j => m[i] <= m[j]
    BY <1>1, <1>2, OffsetFacts, EncoderAssumption
  <1>7. \A i \in Index : executable_map[c].instr_map[i] = m[i]
    BY <1>1 DEF MapShape
  <1> HIDE DEF m
  <1>8. \A i \in 0 .. ChunkInstrs : m[i] \in Nat /\ m[i] <= m[ChunkInstrs]
    BY <1>3, <1>6
  <1>9. ASSUME NEW i \in Index
        PROVE  /\ EmitLen(code, c + i) \in Nat /\ is_executable(c + i)
               /\ (EmitLen(code, c + i) = 0 <=> Passed(c + i))
    <2>1. c + i \in c .. c + ChunkInstrs - 1
      BY <1>3 DEF Index
    <2>2. ChunkAddr(c + i) = c
      <3>1. c + i = c + ((c + i) % ChunkInstrs)
        BY <1>2, <2>1, PositionFacts
      <3>2. (c + i) % ChunkInstrs \in Int /\ c + i \in Int
        BY <1>3, ChunkFacts, IndexFacts
      <3>3. PICK x \in Int, y \in Int : x = c + i /\ y = (c + i) % ChunkInstrs
        BY <3>2
      <3>4. x = c + y
        BY <3>1, <3>3
      <3> QED
        BY <1>3, <3>3, <3>4 DEF ChunkAddr
    <2>3. is_executable(c + i)
      BY <1>1, <1>3, <2>2, ChunkFacts DEF MapExecutable
    <2>4. EmitLen(code, c + i) \in Nat /\ (EmitLen(code, c + i) = 0 <=> code[c + i].op = "nop")
      BY <1>1, <1>3, EmitFacts
    <2> QED
      BY <2>3, <2>4 DEF Passed, Stops, is_executable
  <1>10. EndSite(c) = executable_map[c].addr + m[ChunkInstrs]
    BY <1>3, <1>4, <1>5, <1>8 DEF EndSite
  <1> QED
    BY <1>2, <1>3, <1>4, <1>5, <1>6, <1>7, <1>8, <1>9, <1>10 DEF m

LEMMA InChunk ==
    ASSUME NEW c \in Chunks, NEW i \in Index
    PROVE  ChunkAddr(c + i) = c /\ (c + i) % ChunkInstrs = i
  <1>1. c \in Nat /\ ChunkInstrs \in Nat \ {0} /\ i \in Nat /\ i < ChunkInstrs
    BY ChunkFacts, SizeAssumption DEF Index
  <1>2. c + i \in c .. c + ChunkInstrs - 1
    BY <1>1
  <1>3. (c + i) % ChunkInstrs \in Index /\ c + i = c + ((c + i) % ChunkInstrs)
    BY <1>2, PositionFacts
  <1>4. PICK y \in Index : y = (c + i) % ChunkInstrs
    BY <1>3
  <1>5. y \in Nat /\ c + i = c + y
    BY <1>3, <1>4 DEF Index
  <1>6. y = i /\ (c + i) - y = c
    BY <1>1, <1>5
  <1> QED
    BY <1>4, <1>6 DEF ChunkAddr

(* The instruction that starts at a native address.                        *)
LEMMA StartsIs ==
    ASSUME LinksInv, NEW a \in GuestAddrs, NEW p, Starts(a, p)
    PROVE  /\ \E c \in DOMAIN executable_map, i \in Index :
                 /\ a = c + i
                 /\ p = executable_map[c].addr + InstrMap(code, c)[i]
           /\ EmitLen(code, a) > 0
           /\ is_executable(a) /\ ~Passed(a)
           /\ p \in Nat /\ FromExec(p) = {a}
  <1> DEFINE c == ChunkAddr(a)
             i == a % ChunkInstrs
             m == InstrMap(code, c)
  <1>1. c \in DOMAIN executable_map /\ Resolve(executable_map, a) = p /\ EmitLen(code, a) > 0
    BY DEF Starts
  <1>2. a \in Nat /\ i \in Index
    BY ChunkFacts, IndexFacts
  <1>3. a = c + i
    <2>1. PICK y \in Nat : y = i
      BY <1>2 DEF Index
    <2> HIDE DEF i
    <2>2. c = a - y
      BY <2>1 DEF ChunkAddr, i
    <2> QED
      BY <1>2, <2>1, <2>2
  <1>4. is_executable(a) /\ IInv
    BY <1>1, <1>2 DEF LinksInv, SitesInv, MapExecutable
  <1>5. p = executable_map[c].addr + executable_map[c].instr_map[i]
    BY <1>1, <1>4 DEF Resolve
  <1> HIDE DEF c, i
  <1>6. /\ executable_map[c].instr_map[i] = m[i] /\ m[i] \in Nat
        /\ executable_map[c].addr \in Nat /\ EmitLen(code, a) \in Nat
        /\ (EmitLen(code, a) = 0 <=> Passed(a))
    <2>1. i \in 0 .. ChunkInstrs
      BY <1>2, SizeAssumption DEF Index
    <2> HIDE DEF m
    <2> QED
      BY <1>1, <1>2, <1>3, <2>1, MapFacts DEF m
  <1>7. p = executable_map[c].addr + m[i] /\ p \in Nat
    BY <1>5, <1>6
  <1>8. FromExec(p) = {a}
    <2>1. 0 \in 0 .. EmitLen(code, c + i) - 1
      BY <1>1, <1>3, <1>6
    <2>2. FromExec(executable_map[c].addr + executable_map[c].instr_map[i] + 0) = {c + i}
      BY <1>1, <1>2, <1>4, <2>1, AttributionFollows DEF Attribution
    <2>3. executable_map[c].addr + executable_map[c].instr_map[i] + 0 = p
      BY <1>5, <1>6
    <2> QED
      BY <1>3, <2>2, <2>3
  <1>9. ~Passed(a)
    BY <1>1, <1>6
  <1> QED
    BY <1>1, <1>2, <1>3, <1>4, <1>7, <1>8, <1>9 DEF m

LEMMA StartsUnique ==
    ASSUME LinksInv, NEW a \in GuestAddrs, NEW p, Starts(a, p)
    PROVE  StartsAt(p) = {a} /\ ArmOf(p) = a
  <1>1. FromExec(p) = {a}
    BY StartsIs
  <1>2. ASSUME NEW b \in GuestAddrs, Starts(b, p) PROVE b = a
    <2>1. FromExec(p) = {b}
      BY <1>2, StartsIs
    <2> QED
      BY <1>1, <2>1
  <1>3. StartsAt(p) = {a}
    BY <1>2 DEF StartsAt
  <1> QED
    BY <1>3 DEF ArmOf

LEMMA StartsOfOffset ==
    ASSUME LinksInv, NEW c \in DOMAIN executable_map, NEW i \in Index,
           EmitLen(code, c + i) > 0
    PROVE  Starts(c + i, executable_map[c].addr + InstrMap(code, c)[i])
  <1>1. /\ c \in Chunks /\ is_executable(c + i)
        /\ executable_map[c].instr_map[i] = InstrMap(code, c)[i]
    BY MapFacts
  <1>2. ChunkAddr(c + i) = c /\ (c + i) % ChunkInstrs = i
    BY <1>1, InChunk
  <1> QED
    BY <1>1, <1>2 DEF Starts, Resolve

(* Nothing but the call that ends the chunk starts where it does.          *)
LEMMA AtEnd ==
    ASSUME LinksInv, NEW c \in DOMAIN executable_map
    PROVE  /\ EndSite(c) \in EndSites /\ StartsAt(EndSite(c)) = {}
           /\ ArmOf(EndSite(c)) = LandAt(c + ChunkInstrs)
           /\ \A d \in DOMAIN executable_map : Within(EndSite(c), executable_map[d]) => d = c
  <1> DEFINE p == EndSite(c)
             m == InstrMap(code, c)
             N == ChunkInstrs
  <1>1. /\ c \in Chunks /\ c \in Nat /\ executable_map[c].addr \in Nat
        /\ executable_map[c].len = m[N] + CallLen
        /\ \A i \in 0 .. N : m[i] \in Nat /\ m[i] <= m[N]
        /\ \A i \in Index : m[i + 1] = m[i] + EmitLen(code, c + i)
        /\ p = executable_map[c].addr + m[N]
    BY MapFacts
  <1>2. N \in Nat \ {0} /\ CallLen \in Nat \ {0} /\ IInv
    BY SizeAssumption DEF LinksInv, SitesInv
  <1>3. FromExec(p) = {c + N - 1}
    BY <1>2, SiteAttribution
  <1>4. \A d \in DOMAIN executable_map : d \in Nat
    BY MapFacts
  <1>5. p \in EndSites
    BY DEF EndSites, EndSite
  <1> HIDE DEF p, m
  <1>6. m[N] \in Nat
    BY <1>1, <1>2
  <1>7. StartsAt(p) = {}
    <2> SUFFICES ASSUME NEW a \in GuestAddrs, Starts(a, p) PROVE FALSE
      BY DEF StartsAt
    <2>1. FromExec(p) = {a} /\ EmitLen(code, a) > 0
      BY StartsIs
    <2>2. PICK d \in DOMAIN executable_map, i \in Index :
             a = d + i /\ p = executable_map[d].addr + InstrMap(code, d)[i]
      BY StartsIs
    <2>3. a = c + (N - 1) /\ N - 1 \in Index
      BY <1>1, <1>2, <1>3, <2>1 DEF Index
    <2>4. ChunkAddr(a) = c /\ a % N = N - 1 /\ ChunkAddr(a) = d /\ a % N = i
      <3>1. d \in Chunks
        BY MapFacts
      <3> QED
        BY <1>1, <2>2, <2>3, <3>1, InChunk
    <2>5. p = executable_map[c].addr + m[N - 1]
      BY <2>2, <2>4 DEF m
    <2>6. m[N] = m[N - 1] + EmitLen(code, a) /\ m[N - 1] \in Nat /\ EmitLen(code, a) \in Nat
      <3>1. (N - 1) + 1 = N /\ N - 1 \in 0 .. N
        BY <1>2
      <3>2. m[(N - 1) + 1] = m[N - 1] + EmitLen(code, c + (N - 1))
        BY <1>1, <2>3
      <3>3. EmitLen(code, c + (N - 1)) \in Nat
        BY <2>3, MapFacts
      <3> QED
        BY <1>1, <2>3, <3>1, <3>2, <3>3
    <2> QED
      BY <1>1, <1>6, <2>1, <2>5, <2>6
  <1>8. ASSUME NEW d \in DOMAIN executable_map, Within(p, executable_map[d])
        PROVE  d = c
    <2>1. d + LastAtOrBefore(executable_map[d], p) = c + (N - 1)
      <3>1. d + LastAtOrBefore(executable_map[d], p) \in FromExec(p)
        BY <1>8 DEF FromExec
      <3>2. c + N - 1 = c + (N - 1)
        BY <1>1, <1>2
      <3> QED
        BY <1>3, <3>1, <3>2
    <2> DEFINE o == p - executable_map[d].addr
    <2>2. d \in Chunks /\ executable_map[d].addr \in Nat /\ p \in Nat
      BY <1>1, <1>6, MapFacts
    <2>3. o \in Nat /\ o < executable_map[d].len /\ p = executable_map[d].addr + o
      <3>1. executable_map[d].len \in Nat
        BY <1>2, MapFacts DEF IInv, PoolDataOK, Chunk
      <3> QED
        BY <1>8, <2>2, <3>1 DEF Within
    <2>4. LastAtOrBefore(executable_map[d], p) \in Index
      <3>1. DOMAIN executable_map \subseteq Chunks /\ executable_map[d] \in Chunk /\ PoolDataOK /\ MapShape
        BY <1>2 DEF IInv, PoolDataOK
      <3> DEFINE S == {j \in Index : executable_map[d].instr_map[j] <= o}
      <3>2. 0 \in S
        <4>1. 0 \in Index
          BY <1>2 DEF Index
        <4>2. executable_map[d].instr_map[0] = InstrMap(code, d)[0]
          BY <4>1, MapFacts
        <4>3. InstrMap(code, d)[0] = 0
          BY <2>2, <3>1, OffsetFacts DEF PoolDataOK
        <4> QED
          BY <2>3, <4>1, <4>2, <4>3
      <3>3. PICK x \in S : \A y \in S : y <= x
        BY <3>2, LastIndex
      <3>4. \A j \in Index : executable_map[d].instr_map[j] \in Nat
        BY <3>1 DEF Chunk
      <3>5. \A j \in Index : j > x => executable_map[d].instr_map[j] > o
        BY <2>3, <3>3, <3>4 DEF Index
      <3>6. LastAtOrBefore(executable_map[d], executable_map[d].addr + o) = x
        BY <2>3, <3>1, <3>3, <3>5, LastIs
      <3> QED
        BY <2>3, <3>3, <3>6
    <2>5. PICK x \in Index : x = LastAtOrBefore(executable_map[d], p)
      BY <2>4
    <2>6. ChunkAddr(d + x) = d /\ ChunkAddr(c + (N - 1)) = c
      <3>1. N - 1 \in Index
        BY <1>2 DEF Index
      <3> QED
        BY <1>1, <2>2, <3>1, InChunk
    <2> QED
      BY <2>1, <2>5, <2>6
  <1>9. Within(p, executable_map[c])
    BY <1>1, <1>2, <1>6 DEF Within
  <1>10. (CHOOSE d \in DOMAIN executable_map : Within(p, executable_map[d])) = c
    BY <1>8, <1>9
  <1>11. ArmOf(p) = LandAt(c + N)
    BY <1>5, <1>7, <1>10 DEF ArmOf, LandAt
  <1> QED
    BY <1>5, <1>7, <1>8, <1>11 DEF p

(* Instructions that emit nothing share their offset with the next.        *)
LEMMA SameOffset ==
    ASSUME LinksInv, NEW c \in DOMAIN executable_map,
           NEW i \in 0 .. ChunkInstrs, NEW j \in 0 .. ChunkInstrs, i <= j,
           \A k \in Index : i <= k /\ k < j => EmitLen(code, c + k) = 0
    PROVE  InstrMap(code, c)[j] = InstrMap(code, c)[i]
  <1> DEFINE m == InstrMap(code, c)
             S == {k \in 0 .. ChunkInstrs : i <= k /\ k <= j /\ m[k] # m[i]}
  <1>1. ChunkInstrs \in Nat
    BY SizeAssumption
  <1>2. /\ \A k \in 0 .. ChunkInstrs : m[k] \in Nat
        /\ \A k \in Index : m[k + 1] = m[k] + EmitLen(code, c + k)
    BY MapFacts
  <1> HIDE DEF m
  <1>3. S = {}
    <2> SUFFICES ASSUME S # {} PROVE FALSE
      OBVIOUS
    <2>1. S \subseteq Nat
      BY <1>1
    <2>2. PICK k \in S : \A y \in S : k <= y
      BY <2>1, LeastNumber
    <2>3. k \in Nat /\ i < k /\ k <= j /\ k <= ChunkInstrs
      BY <1>1, <2>2
    <2>4. k - 1 \in Index /\ k - 1 \in 0 .. ChunkInstrs /\ i <= k - 1 /\ k - 1 < j
      BY <1>1, <2>3 DEF Index
    <2>5. k - 1 \notin S
      BY <2>2, <2>3
    <2>6. m[k - 1] = m[i]
      BY <2>3, <2>4, <2>5
    <2>7. m[(k - 1) + 1] = m[k - 1] + 0 /\ (k - 1) + 1 = k
      BY <1>2, <2>3, <2>4
    <2>8. m[k] = m[i]
      BY <1>2, <2>4, <2>6, <2>7
    <2> QED
      BY <2>2, <2>8
  <1>4. j \notin S
    BY <1>3
  <1> QED
    BY <1>1, <1>4 DEF m

(* The native address at an offset stands for the place where control      *)
(* lands from there, whether that is in the same chunk or beyond its end.  *)
LEMMA ArmOfOffset ==
    ASSUME LinksInv, NEW c \in DOMAIN executable_map, NEW i \in 0 .. ChunkInstrs
    PROVE  ArmOf(executable_map[c].addr + InstrMap(code, c)[i]) = LandAt(c + i)
  <1> DEFINE m == InstrMap(code, c)
             p == executable_map[c].addr + m[i]
             S == {j \in Index : i <= j /\ EmitLen(code, c + j) > 0}
  <1>1. /\ c \in Nat /\ c + ChunkInstrs <= GuestEnd
        /\ \A j \in Index : /\ c + j \in GuestAddrs /\ EmitLen(code, c + j) \in Nat
                            /\ (EmitLen(code, c + j) = 0 <=> Passed(c + j))
        /\ EndSite(c) = executable_map[c].addr + m[ChunkInstrs]
    BY MapFacts
  <1>2. ChunkInstrs \in Nat \ {0} /\ GuestEnd \in Nat /\ exec_ranges \subseteq Ranges
    BY SizeAssumption DEF LinksInv, SitesInv, IInv, PoolDataOK
  <1>3. S \subseteq Nat
    BY DEF Index
  <1> HIDE DEF m
  <1>4. ASSUME NEW j \in 0 .. ChunkInstrs, i <= j,
               \A k \in Index : i <= k /\ k < j => EmitLen(code, c + k) = 0
        PROVE  m[j] = m[i] /\ LandAt(c + i) = LandAt(c + j)
    <2>1. m[j] = m[i]
      BY <1>4, SameOffset DEF m
    <2>2. \A b \in c + i .. (c + j) - 1 : Passed(b)
      <3> SUFFICES ASSUME NEW b \in c + i .. (c + j) - 1 PROVE Passed(b)
        OBVIOUS
      <3>1. PICK k \in Int : k = b - c
        BY <1>1
      <3>2. k \in Index /\ i <= k /\ k < j /\ b = c + k
        BY <1>1, <1>2, <3>1 DEF Index
      <3> QED
        BY <1>1, <1>4, <3>2
    <2>3. c + i \in Nat /\ c + j \in 0 .. GuestEnd /\ c + i <= c + j
      BY <1>1, <1>2, <1>4
    <2>4. LandAt(c + i) = LandAt(c + j)
      BY <1>2, <2>2, <2>3, LandSkip
    <2> QED
      BY <2>1, <2>4
  <1>5. CASE S # {}
    <2>1. PICK j \in S : \A y \in S : j <= y
      BY <1>3, <1>5, LeastNumber
    <2>2. \A k \in Index : i <= k /\ k < j => EmitLen(code, c + k) = 0
      <3> SUFFICES ASSUME NEW k \in Index, i <= k, k < j PROVE EmitLen(code, c + k) = 0
        OBVIOUS
      <3>1. k \notin S
        BY <1>2, <2>1 DEF Index
      <3> QED
        BY <1>1, <3>1
    <2>3. j \in Index /\ j \in 0 .. ChunkInstrs /\ i <= j /\ EmitLen(code, c + j) > 0
      BY <1>2, <2>1 DEF Index
    <2>4. m[j] = m[i] /\ LandAt(c + i) = LandAt(c + j)
      BY <1>4, <2>2, <2>3
    <2>5. Starts(c + j, p)
      BY <2>3, <2>4, StartsOfOffset DEF m
    <2>6. ArmOf(p) = c + j
      BY <1>1, <2>3, <2>5, StartsUnique
    <2>7. ~Passed(c + j)
      BY <1>1, <2>3
    <2>8. LandAt(c + j) = c + j
      BY <2>7, LandStop
    <2> QED
      BY <2>4, <2>6, <2>8 DEF m
  <1>6. CASE S = {}
    <2>1. \A k \in Index : i <= k /\ k < ChunkInstrs => EmitLen(code, c + k) = 0
      BY <1>1, <1>6
    <2>2. ChunkInstrs \in 0 .. ChunkInstrs /\ i <= ChunkInstrs
      BY <1>2
    <2>3. m[ChunkInstrs] = m[i] /\ LandAt(c + i) = LandAt(c + ChunkInstrs)
      BY <1>4, <2>1, <2>2
    <2>4. ArmOf(EndSite(c)) = LandAt(c + ChunkInstrs)
      BY AtEnd
    <2> QED
      BY <1>1, <2>3, <2>4 DEF m
  <1> QED
    BY <1>5, <1>6

------------------------------------------------------------------------------
(* Native addresses of guest pointers *)

(* The pointers a guest program can come by: its own code and the address  *)
(* behind it, the host's landing pads, and the bound imports.              *)
ProxyPtrs == {proxies[f].addr : f \in DOMAIN proxies}
GuestPtrs == (0 .. GuestEnd) \cup Labels \cup ProxyPtrs

(* Native address p continues at guest pointer t.                          *)
InMap(p, t) ==
    \E c \in DOMAIN executable_map, i \in 0 .. ChunkInstrs :
        /\ p = executable_map[c].addr + InstrMap(code, c)[i]
        /\ LandAt(t) = LandAt(c + i)
NativeFor(p, t) == InMap(p, t) \/ (p = t /\ ~is_executable(t))

LEMMA PtrTypes ==
    ASSUME LinksInv
    PROVE  GuestPtrs \subseteq Nat /\ \A t \in ProxyPtrs \cup Labels : t > GuestEnd
  <1>1. IInv /\ PoolDataOK /\ BlocksInRegions
    BY DEF LinksInv, SitesInv, IInv
  <1>2. ASSUME NEW f \in DOMAIN proxies
        PROVE  proxies[f].addr \in Nat /\ proxies[f].addr > GuestEnd
    <2>1. HostFns \cap Chunks = {}
      BY ChunkFacts, LabelAssumption
    <2>2. BlockOf(f) = proxies[f] /\ proxies[f] \in Block /\ f \in Owners
      BY <1>1, <2>1 DEF BlockOf, PoolDataOK, Owners
    <2>3. PICK base \in Regions : base <= BlockOf(f).addr
      BY <1>1, <2>2 DEF BlocksInRegions
    <2>4. base \in MmapBases
      BY <1>1, <2>3 DEF Regions, PoolDataOK
    <2>5. base \in Nat /\ base > GuestEnd
      BY <2>4, MmapAssumption
    <2>6. proxies[f].addr \in Nat
      BY <2>2 DEF Block
    <2> QED
      BY <2>2, <2>3, <2>5, <2>6, SizeAssumption
  <1>3. \A l \in Labels : l \in Nat /\ l > GuestEnd
    BY LabelAssumption
  <1> QED
    BY <1>2, <1>3, SizeAssumption DEF GuestPtrs, ProxyPtrs

(* A pointer outside translated code stands for itself.                    *)
LEMMA ArmOfOutside ==
    ASSUME LinksInv, NEW p,
           \A c \in DOMAIN executable_map : ~Within(p, executable_map[c])
    PROVE  StartsAt(p) = {} /\ p \notin EndSites /\ ArmOf(p) = p
  <1>1. StartsAt(p) = {}
    <2> SUFFICES ASSUME NEW a \in GuestAddrs, Starts(a, p) PROVE FALSE
      BY DEF StartsAt
    <2>1. PICK c \in DOMAIN executable_map, i \in Index :
             p = executable_map[c].addr + InstrMap(code, c)[i]
      BY StartsIs
    <2>2. i \in 0 .. ChunkInstrs /\ ChunkInstrs \in 0 .. ChunkInstrs /\ CallLen \in Nat \ {0}
      BY SizeAssumption DEF Index
    <2>3. PICK addr \in Nat, o \in Nat, e \in Nat :
             /\ addr = executable_map[c].addr /\ o = InstrMap(code, c)[i]
             /\ e = InstrMap(code, c)[ChunkInstrs] /\ o <= e
             /\ executable_map[c].len = e + CallLen
      BY <2>2, MapFacts
    <2>4. Within(p, executable_map[c])
      BY <2>1, <2>2, <2>3 DEF Within
    <2> QED
      BY <2>4
  <1>2. p \notin EndSites
    <2> SUFFICES ASSUME NEW c \in DOMAIN executable_map, p = EndSite(c) PROVE FALSE
      BY DEF EndSites, EndSite
    <2>1. ChunkInstrs \in 0 .. ChunkInstrs /\ CallLen \in Nat \ {0}
      BY SizeAssumption
    <2>2. PICK addr \in Nat, e \in Nat :
             /\ addr = executable_map[c].addr /\ e = InstrMap(code, c)[ChunkInstrs]
             /\ executable_map[c].len = e + CallLen /\ p = addr + e
      BY <2>1, MapFacts
    <2>3. Within(p, executable_map[c])
      BY <2>1, <2>2 DEF Within
    <2> QED
      BY <2>3
  <1> QED
    BY <1>1, <1>2 DEF ArmOf

ProxySized == \A f \in DOMAIN proxies : proxies[f].len = ProxyLen

LEMMA PtrOutside ==
    ASSUME LinksInv, ProxySized, NEW t \in GuestPtrs \cup {Idle}
    PROVE  \A c \in DOMAIN executable_map : ~Within(t, executable_map[c])
  <1> SUFFICES ASSUME NEW c \in DOMAIN executable_map, Within(t, executable_map[c])
               PROVE  FALSE
    OBVIOUS
  <1>1. IInv /\ PoolDataOK /\ BlocksInRegions /\ BlocksApart
    BY DEF LinksInv, SitesInv, IInv
  <1>2. PICK addr \in Nat, len \in Nat :
           addr = executable_map[c].addr /\ len = executable_map[c].len /\ addr > GuestEnd
    BY <1>1, MapFacts DEF PoolDataOK, Chunk
  <1>3. t \in Int /\ addr <= t /\ t < addr + len
    BY <1>2, PtrTypes DEF Within, Idle
  <1>4. CASE t \in (0 .. GuestEnd) \cup {Idle}
    BY <1>2, <1>3, <1>4, SizeAssumption DEF Idle
  <1>5. c \in Owners /\ BlockOf(c) = executable_map[c]
    BY DEF Owners, BlockOf
  <1>6. CASE t \in Labels
    <2>1. PICK base \in Regions : /\ base <= BlockOf(c).addr
                                  /\ BlockOf(c).addr + BlockOf(c).len <= base + AllocSize
      BY <1>1, <1>5 DEF BlocksInRegions
    <2>2. base \in MmapBases
      BY <1>1, <2>1 DEF Regions, PoolDataOK
    <2>3. base \in Nat /\ AllocSize \in Nat /\ ~(base <= t /\ t < base + AllocSize)
      BY <1>6, <2>2, MmapAssumption
    <2> QED
      BY <1>2, <1>3, <1>5, <2>1, <2>3
  <1>7. CASE t \in ProxyPtrs
    <2>1. PICK f \in DOMAIN proxies : t = proxies[f].addr
      BY <1>7 DEF ProxyPtrs
    <2>2. HostFns \cap Chunks = {}
      BY ChunkFacts, LabelAssumption
    <2>3. f \in Owners /\ BlockOf(f) = proxies[f] /\ f # c
      BY <1>1, <2>2 DEF BlockOf, PoolDataOK, Owners
    <2>4. proxies[f].len = ProxyLen /\ ProxyLen \in Nat \ {0}
      BY ProxyAssumption DEF ProxySized
    <2>5. \/ BlockOf(f).addr + BlockOf(f).len <= BlockOf(c).addr
          \/ BlockOf(c).addr + BlockOf(c).len <= BlockOf(f).addr
      BY <1>1, <1>5, <2>3 DEF BlocksApart
    <2> QED
      BY <1>2, <1>3, <1>5, <2>1, <2>3, <2>4, <2>5
  <1> QED
    BY <1>4, <1>6, <1>7 DEF GuestPtrs

LEMMA ArmOfPtr ==
    ASSUME LinksInv, ProxySized, NEW t \in GuestPtrs \cup {Idle}
    PROVE  StartsAt(t) = {} /\ t \notin EndSites /\ ArmOf(t) = t
  BY PtrOutside, ArmOfOutside

LEMMA NotExecutable ==
    ASSUME NEW t, ~is_executable(t)
    PROVE  LandAt(t) = t
  <1>1. ~Passed(t)
    BY DEF Passed, Stops, is_executable
  <1> QED
    BY <1>1, LandStop

(* The correspondence is what it says: ArmOf finds it.                     *)
LEMMA NativeArm ==
    ASSUME LinksInv, ProxySized, NEW t \in GuestPtrs, NEW p, NativeFor(p, t)
    PROVE  ArmOf(p) = LandAt(t)
  <1>1. CASE InMap(p, t)
    BY <1>1, ArmOfOffset DEF InMap
  <1>2. CASE p = t /\ ~is_executable(t)
    BY <1>2, ArmOfPtr, NotExecutable
  <1> QED
    BY <1>1, <1>2 DEF NativeFor

LEMMA NativeNat ==
    ASSUME LinksInv, NEW t \in GuestPtrs, NEW p, NativeFor(p, t)
    PROVE  p \in Nat /\ (InMap(p, t) => p > GuestEnd)
  <1>1. ASSUME InMap(p, t) PROVE p \in Nat /\ p > GuestEnd
    <2>1. PICK c \in DOMAIN executable_map, i \in 0 .. ChunkInstrs :
             p = executable_map[c].addr + InstrMap(code, c)[i]
      BY <1>1 DEF InMap
    <2>2. PICK addr \in Nat, o \in Nat :
             addr = executable_map[c].addr /\ o = InstrMap(code, c)[i] /\ addr > GuestEnd
      BY MapFacts
    <2> QED
      BY <2>1, <2>2, SizeAssumption
  <1>2. ASSUME p = t PROVE p \in Nat
    BY <1>2, PtrTypes
  <1> QED
    BY <1>1, <1>2 DEF NativeFor

(* Resolve gives an address for a pointer once its chunk is translated.    *)
Mapped(t) == is_executable(t) => ChunkAddr(t) \in DOMAIN executable_map

LEMMA ResolveNative ==
    ASSUME LinksInv, NEW t \in GuestPtrs, Mapped(t)
    PROVE  NativeFor(Resolve(executable_map, t), t)
  <1>1. CASE is_executable(t)
    <2> DEFINE c == ChunkAddr(t)
               i == t % ChunkInstrs
    <2>1. t \in Nat /\ exec_ranges \subseteq Ranges
      BY PtrTypes DEF LinksInv, SitesInv, IInv, PoolDataOK
    <2>2. c \in DOMAIN executable_map /\ i \in Index
      BY <1>1, <2>1, IndexFacts DEF Mapped
    <2>3. t = c + i
      <3>1. PICK y \in Nat : y = i
        BY <2>2 DEF Index
      <3> HIDE DEF i
      <3>2. c = t - y
        BY <3>1 DEF ChunkAddr, i
      <3> QED
        BY <2>1, <3>1, <3>2
    <2>4. Resolve(executable_map, t) = executable_map[c].addr + executable_map[c].instr_map[i]
      BY <1>1 DEF Resolve
    <2> HIDE DEF c, i
    <2>5. executable_map[c].instr_map[i] = InstrMap(code, c)[i] /\ i \in 0 .. ChunkInstrs
      BY <2>2, MapFacts, SizeAssumption DEF Index
    <2> QED
      BY <2>2, <2>3, <2>4, <2>5 DEF NativeFor, InMap
  <1>2. CASE ~is_executable(t)
    BY <1>2 DEF Resolve, NativeFor
  <1> QED
    BY <1>1, <1>2

(* Where the code of an instruction that does not branch leads.            *)
LEMMA AfterNative ==
    ASSUME LinksInv, NEW a \in GuestAddrs, Starts(a, pc)
    PROVE  a + 1 \in 0 .. GuestEnd /\ NativeFor(After(a), a + 1)
  <1>1. PICK c \in DOMAIN executable_map, i \in Index :
           a = c + i /\ pc = executable_map[c].addr + InstrMap(code, c)[i]
    BY StartsIs
  <1>2. i \in Nat /\ i + 1 \in 0 .. ChunkInstrs /\ i \in 0 .. ChunkInstrs
    BY SizeAssumption DEF Index
  <1>3. PICK addr \in Nat, o \in Nat, n \in Nat, e \in Nat :
           /\ addr = executable_map[c].addr /\ o = InstrMap(code, c)[i]
           /\ n = InstrMap(code, c)[i + 1] /\ e = EmitLen(code, a) /\ n = o + e
    BY <1>1, <1>2, MapFacts
  <1>4. After(a) = addr + n
    BY <1>1, <1>3 DEF After
  <1>5. c \in Nat /\ a + 1 = c + (i + 1)
    BY <1>1, <1>2, MapFacts
  <1>6. a + 1 \in 0 .. GuestEnd
    BY SizeAssumption DEF GuestAddrs
  <1> QED
    BY <1>2, <1>3, <1>4, <1>5, <1>6 DEF NativeFor, InMap

------------------------------------------------------------------------------
(* What a transfer of control to guest pointer t does to the pool, and     *)
(* where it goes unless the process ends                                   *)

Grows ==
    /\ UNCHANGED <<code, exec_ranges, proxies>>
    /\ \A d \in DOMAIN executable_map :
          d \in DOMAIN executable_map' /\ executable_map'[d] = executable_map[d]

Translates(t) ==
    /\ [PoolNext]_poolvars
    /\ Grows
    /\ \/ status' = "run" /\ Mapped(t)'
       \/ status' = "abort" /\ UNCHANGED executable_map

Arrives(t) ==
    /\ Translates(t)
    /\ pc' = IF status' = "run" THEN Resolve(executable_map, t)' ELSE pc

LEMMA GetExecFacts ==
    ASSUME LinksInv, status = "run", NEW t \in Nat, NEW patch, GetExec(t, patch)
    PROVE  /\ Grows
           /\ \/ status' = "run" /\ Mapped(t)'
              \/ status' = "abort" /\ UNCHANGED executable_map
           /\ status' = "run" /\ patch \in DOMAIN sites \ {Null} =>
                 sites'[patch] = Jmp(Resolve(executable_map, t)')
  <1>1. IInv /\ code' = code
    BY DEF LinksInv, SitesInv, GetExec
  <1>2. CASE Found(t, patch)
    <2>1. /\ UNCHANGED <<exec_ranges, executable_map, proxies, status>>
          /\ sites' = WriteJump(sites, patch, Resolve(executable_map, t))
          /\ Mapped(t)
      BY <1>2 DEF Found, Missing, Mapped
    <2>2. Resolve(executable_map, t)' = Resolve(executable_map, t) /\ Mapped(t)'
      BY <2>1 DEF Resolve, Mapped, is_executable
    <2>3. patch \in DOMAIN sites \ {Null} => sites'[patch] = Jmp(Resolve(executable_map, t))
      BY <2>1 DEF WriteJump
    <2> QED
      BY <1>1, <2>1, <2>2, <2>3 DEF Grows
  <1>3. CASE CompileChunk(t, patch)
    <2>1. PICK c : c = ChunkAddr(t)
      OBVIOUS
    <2>2. /\ DOMAIN executable_map' = DOMAIN executable_map \cup {c}
          /\ \A d \in DOMAIN executable_map : executable_map'[d] = executable_map[d]
          /\ status' = status
          /\ \E addr \in Nat :
                sites' = WriteJump(Extend(sites, ChunkSites(c, InstrMap(code, c), addr)),
                                   patch, Resolve(executable_map', t))
      BY <1>1, <1>3, <2>1, CompileFacts
    <2>3. UNCHANGED <<exec_ranges, proxies>>
      BY <1>3 DEF CompileChunk
    <2>4. Resolve(executable_map, t)' = Resolve(executable_map', t)
      BY <2>3 DEF Resolve, is_executable
    <2>5. patch \in DOMAIN sites \ {Null} => sites'[patch] = Jmp(Resolve(executable_map', t))
      <3>1. PICK addr \in Nat :
               sites' = WriteJump(Extend(sites, ChunkSites(c, InstrMap(code, c), addr)),
                                  patch, Resolve(executable_map', t))
        BY <2>2
      <3> DEFINE new == ChunkSites(c, InstrMap(code, c), addr)
                 all == Extend(sites, new)
      <3> HIDE DEF new
      <3>2. DOMAIN all = DOMAIN sites \cup DOMAIN new
        BY ExtendFacts
      <3>3. sites' = WriteJump(all, patch, Resolve(executable_map', t))
        BY <3>1 DEF new
      <3> HIDE DEF all
      <3> QED
        BY <3>2, <3>3 DEF WriteJump
    <2>6. Mapped(t)'
      BY <2>1, <2>2 DEF Mapped
    <2> QED
      BY <1>1, <2>2, <2>3, <2>4, <2>5, <2>6 DEF Grows
  <1>4. CASE GiveUp
    BY <1>1, <1>4 DEF GiveUp, Grows
  <1> QED
    BY <1>2, <1>3, <1>4 DEF GetExec, CompilePanics, MmapFails

(* The callbacks' look-ups are requests the pool's specification allows: a *)
(* pointer beyond the image is in no segment and changes nothing.          *)
LEMMA LookupStep ==
    ASSUME LinksInv, Loaded, status = "run", NEW t \in Nat, GetExec(t, Null)
    PROVE  [PoolNext]_poolvars
  <1>1. CASE t \in 0 .. GuestEnd
    BY <1>1 DEF PoolNext
  <1>2. CASE t \notin 0 .. GuestEnd
    <2>1. exec_ranges \subseteq Ranges
      BY DEF LinksInv, SitesInv, IInv, PoolDataOK
    <2>2. ~is_executable(t)
      BY <1>2, <2>1, ExecutableFacts, SizeAssumption DEF GuestAddrs
    <2>3. Found(t, Null)
      BY <2>2 DEF GetExec, CompileChunk, Missing
    <2>4. UNCHANGED poolvars
      BY <2>3 DEF GetExec, Found, WriteJump, poolvars
    <2> QED
      BY <2>4
  <1> QED
    BY <1>1, <1>2

LEMMA LookupArrives ==
    ASSUME LinksInv, Loaded, status = "run", NEW t \in Nat,
           GetExec(t, Null), pc' = IF status' = "run" THEN Resolve(executable_map', t) ELSE pc
    PROVE  Arrives(t)
  <1>1. [PoolNext]_poolvars /\ Translates(t)
    BY LookupStep, GetExecFacts DEF Translates
  <1>2. Resolve(executable_map, t)' = Resolve(executable_map', t)
    BY <1>1 DEF Resolve, is_executable, Translates, Grows
  <1> QED
    BY <1>1, <1>2 DEF Arrives

LEMMA IndirectArrives ==
    ASSUME LinksInv, Loaded, status = "run", NEW t \in Nat, IndirectJump(t)
    PROVE  Arrives(t)
  BY LookupArrives DEF IndirectJump, GoTo

LEMMA NoChangeTranslates ==
    ASSUME LinksInv, status = "run", NEW t, Mapped(t), UNCHANGED poolvars
    PROVE  Translates(t)
  <1>1. Mapped(t)' /\ status' = "run"
    BY DEF Mapped, is_executable, poolvars
  <1> QED
    BY <1>1 DEF Translates, Grows, poolvars

(* A jump at a linked site, patched before or by this very step.           *)
LEMMA SiteArrives ==
    ASSUME LinksInv, Loaded, status = "run", NEW t \in Nat, NEW s \in DOMAIN sites, s # Null,
           Leads(s, t),
           \/ sites[s].kind = "jmp" /\ UNCHANGED poolvars /\ pc' = sites[s].to
           \/ PoolNext /\ GetExec(t, s) /\ pc' = IF status' = "run" THEN sites'[s].to ELSE pc
    PROVE  Arrives(t)
  <1>1. CASE sites[s].kind = "jmp" /\ UNCHANGED poolvars /\ pc' = sites[s].to
    <2>1. Mapped(t) /\ sites[s].to = Resolve(executable_map, t)
      BY <1>1 DEF Leads, Mapped
    <2>2. Translates(t)
      BY <1>1, <2>1, NoChangeTranslates
    <2>3. Resolve(executable_map, t)' = Resolve(executable_map, t) /\ status' = "run"
      BY <1>1 DEF Resolve, is_executable, poolvars
    <2> QED
      BY <1>1, <2>1, <2>2, <2>3 DEF Arrives
  <1>2. CASE PoolNext /\ GetExec(t, s) /\ pc' = IF status' = "run" THEN sites'[s].to ELSE pc
    <2>1. Translates(t)
      BY <1>2, GetExecFacts DEF Translates
    <2>2. status' = "run" => sites'[s].to = Resolve(executable_map, t)'
      <3>1. status' = "run" => sites'[s] = Jmp(Resolve(executable_map, t)')
        BY <1>2, GetExecFacts
      <3>2. \A p : Jmp(p).to = p
        BY DEF Jmp
      <3>3. PICK q : q = Resolve(executable_map, t)'
        OBVIOUS
      <3>4. status' = "run" => sites'[s] = Jmp(q)
        BY <3>1, <3>3
      <3> QED
        BY <3>2, <3>3, <3>4
    <2> QED
      BY <1>2, <2>1, <2>2 DEF Arrives
  <1> QED
    BY <1>1, <1>2

LEMMA DirectArrives ==
    ASSUME LinksInv, Loaded, status = "run", NEW a \in GuestAddrs, Starts(a, pc),
           code[a].op \in DirectOps, TakeJump(a)
    PROVE  code[a].to \in 0 .. GuestEnd /\ Arrives(code[a].to)
  <1>1. /\ IInv /\ PoolDataOK /\ AllLinked /\ SitesShape /\ code \in Programs
    BY DEF LinksInv, SitesInv, IInv, PoolDataOK
  <1>2. PICK t \in 0 .. GuestEnd : t = code[a].to
    BY <1>1, ProgramAssumption
  <1>3. PICK c \in DOMAIN executable_map, i \in Index :
           a = c + i /\ pc = executable_map[c].addr + InstrMap(code, c)[i]
    BY StartsIs
  <1>4. /\ c \in Chunks /\ c \in Nat /\ executable_map[c].instr_map[i] = InstrMap(code, c)[i]
        /\ executable_map[c].addr \in Nat /\ executable_map[c].addr > GuestEnd
    BY <1>3, MapFacts
  <1>5. a % ChunkInstrs = i
    BY <1>3, <1>4, InChunk
  <1>6. BodyLen[code[a].op] \in Nat /\ CallLen \in Nat \ {0} /\ JmpLen \in Nat \ {0}
    BY <1>1, ProgramAssumption, SizeAssumption
  <1>7. a \in Directs(c)
    <2>1. TailLen(code, a) \in {JmpLen, CallLen}
      BY Zenon DEF TailLen
    <2>2. a \in c .. c + ChunkInstrs - 1
      BY <1>3, <1>4, SizeAssumption DEF Index
    <2> QED
      BY <1>6, <2>1, <2>2 DEF Directs, Leaving
  <1>8. PICK s \in Nat : s = Site(a) /\ s = DirectSite(c, a) /\ s # Null
    <2>1. i \in 0 .. ChunkInstrs
      BY SizeAssumption DEF Index
    <2>2. PICK addr \in Nat, o \in Nat, b \in Nat :
             /\ addr = executable_map[c].addr /\ o = InstrMap(code, c)[i]
             /\ b = BodyLen[code[a].op] /\ addr > GuestEnd
      BY <1>4, <1>6, <2>1, MapFacts
    <2>3. Site(a) = addr + o + b /\ DirectSite(c, a) = addr + (o + b)
      BY <1>3, <1>4, <1>5, <2>2 DEF Site, DirectSite, SiteOffset
    <2> QED
      BY <2>2, <2>3, SizeAssumption DEF Null
  <1>9. Leads(s, t) /\ sites[s].kind \in {"rewrite", "jmp"} /\ s \in DOMAIN sites
    BY <1>1, <1>2, <1>7, <1>8 DEF AllLinked, Linked, Leads
  <1>10. FromExec(s) = {a}
    BY <1>1, <1>7, <1>8, SiteAttribution
  <1>11. CASE sites[s].kind = "jmp"
    <2>1. UNCHANGED poolvars /\ pc' = sites[s].to
      BY <1>8, <1>11 DEF TakeJump
    <2>2. Arrives(t)
      BY <1>2, <1>8, <1>9, <1>11, <2>1, SiteArrives, SizeAssumption
    <2> QED
      BY <1>2, <2>2
  <1>12. CASE sites[s].kind = "rewrite"
    <2>1. RewriteBranch(s) /\ pc' = IF status' = "run" THEN sites'[s].to ELSE pc
      BY <1>8, <1>12 DEF TakeJump, GoTo
    <2>2. GetExec(t, s)
      BY <1>2, <1>10, <2>1 DEF RewriteBranch
    <2>3. PoolNext
      BY <1>9, <1>12, <2>1 DEF PoolNext, SitesOf
    <2>4. Arrives(t)
      BY <1>2, <1>8, <1>9, <2>1, <2>2, <2>3, SiteArrives, SizeAssumption
    <2> QED
      BY <1>2, <2>4
  <1> QED
    BY <1>9, <1>11, <1>12

LEMMA EndArrives ==
    ASSUME LinksInv, Loaded, status = "run", pc \in EndSites,
           IF sites[pc].kind = "jmp"
             THEN UNCHANGED poolvars /\ pc' = sites[pc].to
             ELSE EndOfChunk(pc) /\ GoTo(sites'[pc].to)
    PROVE  \E t \in 0 .. GuestEnd : Arrives(t) /\ ArmOf(pc) = LandAt(t)
  <1>1. IInv /\ PoolDataOK /\ AllLinked
    BY DEF LinksInv, SitesInv, IInv
  <1>2. PICK c \in DOMAIN executable_map : pc = EndSite(c)
    BY DEF EndSites, EndSite
  <1>3. PICK t \in 0 .. GuestEnd : t = c + ChunkInstrs
    BY MapFacts
  <1>4. ArmOf(pc) = LandAt(t)
    BY <1>2, <1>3, AtEnd
  <1>5. PICK s \in Nat : s = pc /\ s # Null
    <2>1. ChunkInstrs \in 0 .. ChunkInstrs
      BY SizeAssumption
    <2>2. PICK addr \in Nat, e \in Nat : pc = addr + e /\ addr > GuestEnd
      BY <1>2, <2>1, MapFacts
    <2> QED
      BY <2>2, SizeAssumption DEF Null
  <1>6. Leads(s, t) /\ sites[s].kind \in {"end", "jmp"} /\ s \in DOMAIN sites
    BY <1>1, <1>2, <1>3, <1>5 DEF AllLinked, Linked, Leads
  <1>7. CASE sites[s].kind = "jmp"
    <2>1. UNCHANGED poolvars /\ pc' = sites[s].to
      BY <1>5, <1>7
    <2>2. Arrives(t)
      BY <1>3, <1>5, <1>6, <1>7, <2>1, SiteArrives, SizeAssumption
    <2> QED
      BY <1>4, <2>2
  <1>8. CASE sites[s].kind = "end"
    <2>1. EndOfChunk(s) /\ pc' = IF status' = "run" THEN sites'[s].to ELSE pc
      BY <1>5, <1>8 DEF GoTo
    <2>2. FromExec(s) = {c + ChunkInstrs - 1}
      BY <1>1, <1>2, <1>5, SiteAttribution
    <2>3. (c + ChunkInstrs - 1) + 1 = t
      <3>1. c \in Nat /\ ChunkInstrs \in Nat
        BY MapFacts, SizeAssumption
      <3> QED
        BY <1>3, <3>1
    <2>4. GetExec(t, s)
      BY <2>1, <2>2, <2>3 DEF EndOfChunk
    <2>5. PoolNext
      BY <1>6, <1>8, <2>1 DEF PoolNext, SitesOf
    <2>6. Arrives(t)
      BY <1>3, <1>5, <1>6, <2>1, <2>4, <2>5, SiteArrives, SizeAssumption
    <2> QED
      BY <1>4, <2>6
  <1> QED
    BY <1>6, <1>7, <1>8

------------------------------------------------------------------------------
(* The inductive invariant of the machine                                  *)

Statuses == {"run", "abort", "overflow", "lost", "undef", "exit", "segv"}
Entry    == [arm : GuestPtrs, native : Nat]

CpuTypeOK ==
    /\ regs \in [Regs -> GuestPtrs]
    /\ stack \in Seq(GuestPtrs) /\ Len(stack) <= MaxStack
    /\ shadow \in Seq(Entry) /\ beyond \in Nat
    /\ calls \in 0 .. MaxCalls
    /\ status \in Statuses

(* The loader has finished before the guest runs for the first time.       *)
Phases ==
    /\ calls = 0 => pc = Idle /\ shadow = << >> /\ beyond = 0
    /\ calls > 0 => Loaded

(* Every native address the machine holds is that of some guest pointer:   *)
(* the one it executes, and those on the shadow stack, each of the guest   *)
(* pointer pushed with it.                                                 *)
PcNative     == pc # Idle => \E t \in GuestPtrs : NativeFor(pc, t)
ShadowNative == \A i \in 1 .. Len(shadow) : NativeFor(shadow[i].native, shadow[i].arm)

MachineInv ==
    /\ LinksInv /\ ProxySized
    /\ CpuTypeOK /\ Phases
    /\ PcNative /\ ShadowNative

LEMMA LinksSame ==
    ASSUME LinksInv,
           UNCHANGED <<code, exec_ranges, executable_map, allocvars, proxies, sites>>
    PROVE  LinksInv'
  <1>1. IInv /\ SitesShape /\ AllMapped /\ MapExecutable /\ AllLinked /\ PoolDataOK
    BY DEF LinksInv, SitesInv, IInv
  <1>2. PoolDataOK'
    BY <1>1 DEF PoolDataOK, allocvars
  <1>3. MapShape' /\ BlocksInRegions' /\ BlocksApart'
    BY <1>1, SameBlocks
  <1>4. SitesShape' /\ AllMapped' /\ MapExecutable' /\ AllLinked'
    BY <1>1, SameSites, SameLinks DEF AllMapped
  <1> QED
    BY <1>2, <1>3, <1>4 DEF LinksInv, SitesInv, IInv

(* As the map grows, a native address stays one of the same pointer.       *)
LEMMA NativeStays ==
    ASSUME Grows, NEW p, NEW t, NativeFor(p, t)
    PROVE  NativeFor(p, t)'
  <1>1. code' = code /\ exec_ranges' = exec_ranges
    BY DEF Grows
  <1>2. CASE InMap(p, t)
    <2>1. PICK c \in DOMAIN executable_map, i \in 0 .. ChunkInstrs :
             /\ p = executable_map[c].addr + InstrMap(code, c)[i]
             /\ LandAt(t) = LandAt(c + i)
      BY <1>2 DEF InMap
    <2>2. c \in DOMAIN executable_map' /\ executable_map'[c] = executable_map[c]
      BY DEF Grows
    <2> QED
      BY <1>1, <2>1, <2>2 DEF NativeFor, InMap, LandAt
  <1>3. CASE p = t /\ ~is_executable(t)
    BY <1>1, <1>3 DEF NativeFor, is_executable
  <1> QED
    BY <1>2, <1>3 DEF NativeFor

LEMMA GrowsPtrs ==
    ASSUME Grows
    PROVE  GuestPtrs' = GuestPtrs /\ Entry' = Entry /\ (Loaded => Loaded')
  <1>1. GuestPtrs' = GuestPtrs
    BY DEF Grows, GuestPtrs, ProxyPtrs
  <1> QED
    BY <1>1 DEF Grows, Entry, Loaded

(* Where a transfer of control arrives.                                    *)
LEMMA ResolvedNext ==
    ASSUME NEW t
    PROVE  (LinksInv /\ t \in GuestPtrs /\ Mapped(t)
               => NativeFor(Resolve(executable_map, t), t))'
  <1>1. LinksInv /\ t \in GuestPtrs /\ Mapped(t)
           => NativeFor(Resolve(executable_map, t), t)
    BY ResolveNative
  <1> QED
    BY <1>1, PTL

LEMMA ArrivesNative ==
    ASSUME LinksInv', NEW t \in GuestPtrs, Arrives(t), status' = "run"
    PROVE  NativeFor(pc, t)'
  <1>1. GuestPtrs' = GuestPtrs /\ Mapped(t)' /\ pc' = Resolve(executable_map, t)'
    BY GrowsPtrs DEF Arrives, Translates
  <1>2. NativeFor(Resolve(executable_map, t), t)'
    BY <1>1, ResolvedNext
  <1>3. PICK q : q = pc'
    OBVIOUS
  <1> QED
    BY <1>1, <1>2 DEF NativeFor, InMap

(* A transfer of control keeps the pool's invariant.                       *)
LEMMA ArrivesPool ==
    ASSUME LinksInv, ProxySized, Loaded, NEW t, Translates(t)
    PROVE  LinksInv' /\ ProxySized' /\ Grows /\ Loaded' /\ status' \in Statuses
  BY LinksNext, GrowsPtrs DEF Translates, Grows, ProxySized, Statuses

(* The shadow stack of the next state, before the map grows.               *)
ShadowStep ==
    /\ shadow' \in Seq(Entry) /\ beyond' \in Nat
    /\ \A i \in 1 .. Len(shadow') : NativeFor(shadow'[i].native, shadow'[i].arm)

LEMMA ShadowKept ==
    ASSUME CpuTypeOK, ShadowNative, UNCHANGED <<shadow, beyond>>
    PROVE  ShadowStep /\ UNCHANGED Depth
  BY DEF CpuTypeOK, ShadowNative, ShadowStep, Depth

LEMMA ShadowPopped ==
    ASSUME CpuTypeOK, ShadowNative, PopShadowStack
    PROVE  /\ ShadowStep /\ Depth' = Depth - 1
           /\ shadow # << >> => NativeFor(Head(shadow).native, Head(shadow).arm)
  <1>1. shadow \in Seq(Entry) /\ beyond \in Nat
    BY DEF CpuTypeOK
  <1>2. CASE shadow = << >>
    <2>1. shadow' = shadow /\ beyond' = beyond + 1 /\ beyond' \in Nat
      BY <1>1, <1>2 DEF PopShadowStack
    <2>2. Len(shadow) = 0
      BY <1>2
    <2>3. ShadowStep
      BY <1>1, <2>1, <2>2 DEF ShadowStep
    <2> QED
      BY <1>1, <1>2, <2>1, <2>2, <2>3 DEF Depth
  <1>3. CASE shadow # << >>
    <2>1. shadow' = Tail(shadow) /\ beyond' = beyond
      BY <1>3 DEF PopShadowStack
    <2>2. /\ Tail(shadow) \in Seq(Entry) /\ Len(Tail(shadow)) = Len(shadow) - 1
          /\ Len(shadow) \in Nat \ {0}
          /\ \A i \in 1 .. Len(Tail(shadow)) : Tail(shadow)[i] = shadow[i + 1]
          /\ Head(shadow) = shadow[1]
      BY <1>1, <1>3
    <2>3. \A i \in 1 .. Len(Tail(shadow)) : i + 1 \in 1 .. Len(shadow)
      BY <2>2
    <2>4. 1 \in 1 .. Len(shadow)
      BY <2>2
    <2>5. ShadowStep
      BY <1>1, <2>1, <2>2, <2>3 DEF ShadowStep, ShadowNative
    <2>6. NativeFor(Head(shadow).native, Head(shadow).arm)
      BY <2>2, <2>4 DEF ShadowNative
    <2>7. Depth' = Depth - 1
      BY <1>1, <2>1, <2>2 DEF Depth
    <2> QED
      BY <2>5, <2>6, <2>7
  <1> QED
    BY <1>2, <1>3

LEMMA ShadowPushed ==
    ASSUME CpuTypeOK, ShadowNative, NEW arm \in GuestPtrs, NEW native \in Nat,
           NativeFor(native, arm), PushShadowStack(arm, native)
    PROVE  ShadowStep /\ Depth' = Depth + 1
  <1> DEFINE e == [arm |-> arm, native |-> native]
             s == <<e>> \o shadow
  <1>1. /\ shadow \in Seq(Entry) /\ beyond \in Nat
        /\ shadow' = s /\ beyond' = beyond
    BY DEF CpuTypeOK, PushShadowStack
  <1>2. e \in Entry /\ e.arm = arm /\ e.native = native
    BY DEF Entry
  <1> HIDE DEF e
  <1>3. <<e>> \in Seq(Entry) /\ Len(<<e>>) = 1 /\ <<e>>[1] = e
    BY <1>2
  <1>4. /\ s \in Seq(Entry) /\ Len(s) = Len(shadow) + 1
        /\ \A i \in 1 .. Len(s) : s[i] = IF i <= 1 THEN <<e>>[i] ELSE shadow[i - 1]
    BY <1>1, <1>3, ConcatProperties
  <1> HIDE DEF s
  <1>5. Len(shadow) \in Nat /\ \A i \in 2 .. Len(s) : i - 1 \in 1 .. Len(shadow) /\ s[i] = shadow[i - 1]
    BY <1>1, <1>4
  <1>6. s[1] = e
    BY <1>3, <1>4, <1>5
  <1>7. \A i \in 1 .. Len(s) : i = 1 \/ i \in 2 .. Len(s)
    BY <1>4, <1>5
  <1>8. \A i \in 1 .. Len(s) : NativeFor(s[i].native, s[i].arm)
    BY <1>2, <1>5, <1>6, <1>7 DEF ShadowNative
  <1>9. Depth' = Depth + 1
    BY <1>1, <1>4, <1>5 DEF Depth
  <1> QED
    BY <1>1, <1>4, <1>8, <1>9 DEF ShadowStep

(* A label is not code.                                                    *)
LEMMA LabelNative ==
    ASSUME LinksInv, NEW l \in Labels
    PROVE  l \in GuestPtrs /\ NativeFor(l, l) /\ ~is_executable(l)
  <1>1. l \in Nat /\ l > GuestEnd /\ exec_ranges \subseteq Ranges
    BY LabelAssumption DEF LinksInv, SitesInv, IInv, PoolDataOK
  <1>2. ~is_executable(l)
    BY <1>1, ExecutableFacts, SizeAssumption DEF GuestAddrs
  <1> QED
    BY <1>2 DEF GuestPtrs, NativeFor

LEMMA ShadowFresh ==
    ASSUME LinksInv, NEW l \in Labels, shadow' = <<[arm |-> l, native |-> l]>>, beyond' = 0
    PROVE  ShadowStep /\ Depth' = 1
  <1> DEFINE e == [arm |-> l, native |-> l]
  <1>1. l \in Nat /\ l \in GuestPtrs /\ NativeFor(l, l)
    BY LabelNative, LabelAssumption
  <1>2. e \in Entry /\ e.arm = l /\ e.native = l
    BY <1>1 DEF Entry
  <1> HIDE DEF e
  <1>4. <<e>> \in Seq(Entry) /\ Len(<<e>>) = 1 /\ <<e>>[1] = e
    BY <1>2
  <1>5. shadow' = <<e>>
    BY DEF e
  <1>6. Depth' = 1
    BY <1>4, <1>5 DEF Depth
  <1> QED
    BY <1>1, <1>2, <1>4, <1>5, <1>6 DEF ShadowStep

(* One step of the machine, in terms of what each part does.               *)
LEMMA MachineStep ==
    ASSUME Grows, LinksInv', ProxySized', Loaded, status' \in Statuses,
           regs' \in [Regs -> GuestPtrs],
           stack' \in Seq(GuestPtrs), Len(stack') <= MaxStack,
           ShadowStep,
           calls' \in 1 .. MaxCalls,
           pc' # Idle => \E t \in GuestPtrs : NativeFor(pc', t) \/ NativeFor(pc, t)'
    PROVE  MachineInv'
  <1>1. GuestPtrs' = GuestPtrs /\ Entry' = Entry /\ Loaded'
    BY GrowsPtrs
  <1>2. CpuTypeOK'
    <2>1. calls' \in 0 .. MaxCalls
      BY BoundAssumption
    <2> QED
      BY <1>1, <2>1 DEF CpuTypeOK, ShadowStep
  <1>3. Phases'
    BY <1>1 DEF Phases
  <1>4. PcNative'
    <2>1. ASSUME NEW t \in GuestPtrs, NativeFor(pc', t) PROVE NativeFor(pc, t)'
      <3>1. PICK p : p = pc'
        OBVIOUS
      <3>2. NativeFor(p, t)'
        BY <2>1, <3>1, NativeStays
      <3> QED
        BY <3>1, <3>2 DEF NativeFor, InMap
    <2> QED
      BY <1>1, <2>1 DEF PcNative
  <1>5. ShadowNative'
    <2> SUFFICES ASSUME NEW i \in 1 .. Len(shadow')
                 PROVE  NativeFor(shadow[i].native, shadow[i].arm)'
      BY DEF ShadowNative
    <2>1. PICK p : p = shadow'[i].native
      OBVIOUS
    <2>2. PICK t : t = shadow'[i].arm
      OBVIOUS
    <2>3. NativeFor(p, t)'
      BY <2>1, <2>2, NativeStays DEF ShadowStep
    <2> QED
      BY <2>1, <2>2, <2>3 DEF NativeFor, InMap, LandAt
  <1> QED
    BY <1>2, <1>3, <1>4, <1>5 DEF MachineInv

------------------------------------------------------------------------------
(* The processor's side                                                    *)

StatusMeaning ==
    /\ status = "run" => StatusOf = "run"
    /\ status = "exit" => StatusOf = "exit"
    /\ status \in {"segv", "undef"} => StatusOf = "fault"
    /\ status \in {"abort", "overflow"} => StatusOf = "crash"
    /\ status = "lost" => StatusOf = "lost"

LEMMA StatusMeant == StatusMeaning
  <1>1. status = "run" => StatusOf = "run"
    BY Zenon DEF StatusOf
  <1>2. status = "exit" => StatusOf = "exit"
    BY Zenon DEF StatusOf
  <1>3. status \in {"segv", "undef"} => StatusOf = "fault"
    BY Zenon DEF StatusOf
  <1>4. status \in {"abort", "overflow"} => StatusOf = "crash"
    BY Zenon DEF StatusOf
  <1>5. status = "lost" => StatusOf = "lost"
    BY Zenon DEF StatusOf
  <1> QED
    BY <1>1, <1>2, <1>3, <1>4, <1>5 DEF StatusMeaning

LEMMA StatusMeantNext == StatusMeaning'
  BY StatusMeant, PTL

(* Both sides mean the same by landing and by the data instructions.       *)
LEMMA GuestArrive ==
    ASSUME NEW t
    PROVE  Guest!Arrive(t) = LandAt(t)
  BY DEF Guest!Arrive, Guest!Land, Guest!GuestAddrs, Guest!Stops, Guest!InRange,
         LandAt, Land, GuestAddrs, Stops, InRange

LEMMA GuestData ==
    ASSUME NEW i
    PROVE  /\ Guest!RegsAfter(i, regs, stack, GotPtrs) = RegsAfter(i, regs, stack, GotPtrs)
           /\ Guest!StackAfter(i, regs, stack) = StackAfter(i, regs, stack)
  BY Zenon DEF Guest!RegsAfter, Guest!StackAfter, RegsAfter, StackAfter

LEMMA GuestCallRegs ==
    ASSUME NEW l
    PROVE  Guest!RegsAtCall(l) = RegsAtCall(l)
  BY DEF Guest!RegsAtCall, RegsAtCall, Guest!Regs, Regs

LEMMA CallRegs ==
    ASSUME NEW l \in Labels
    PROVE  /\ RegsAtCall(l) \in [Regs -> GuestPtrs]
           /\ RegsAtCall(l)["x30"] = l /\ RegsAtCall(l)["x17"] = GuestEnd
  <1>1. l \in GuestPtrs /\ GuestEnd \in GuestPtrs
    BY SizeAssumption DEF GuestPtrs
  <1> QED
    BY <1>1 DEF RegsAtCall, Regs

(* At the start of an instruction's code the processor fetches it.         *)
LEMMA GuestFetch ==
    ASSUME LinksInv, status = "run", NEW a \in GuestAddrs, Starts(a, pc)
    PROVE  /\ ArmOf(pc) = a /\ Guest!Instr = code[a]
           /\ Guest!Fetch(code[a].op)
  <1>1. ArmOf(pc) = a /\ is_executable(a)
    BY StartsIs, StartsUnique
  <1>2. StatusOf = "run"
    BY StatusMeant DEF StatusMeaning
  <1>3. Guest!Instr = code[a]
    BY <1>1 DEF Guest!Instr
  <1>4. Guest!Runnable(ArmOf(pc))
    BY <1>1 DEF Guest!Runnable, Guest!GuestAddrs, Guest!InRange, GuestAddrs, is_executable, InRange
  <1> QED
    BY <1>1, <1>2, <1>3, <1>4 DEF Guest!Fetch

LEMMA GuestCrashes ==
    ASSUME status = "run", status' \in {"abort", "overflow"},
           UNCHANGED <<code, exec_ranges, proxies>>
    PROVE  Guest!Crashes
  <1>1. StatusOf = "run" /\ StatusOf' = "crash"
    BY StatusMeant, StatusMeantNext DEF StatusMeaning
  <1>2. UNCHANGED GotPtrs
    BY DEF GotPtrs
  <1> QED
    BY <1>1, <1>2 DEF Guest!Crashes

LEMMA NativeArmNext ==
    ASSUME NEW t
    PROVE  (LinksInv /\ ProxySized /\ t \in GuestPtrs /\ NativeFor(pc, t)
               => ArmOf(pc) = LandAt(t))'
  <1>1. LinksInv /\ ProxySized /\ t \in GuestPtrs /\ NativeFor(pc, t)
           => ArmOf(pc) = LandAt(t)
    BY NativeArm
  <1> QED
    BY <1>1, PTL

(* A step continues at guest pointer t, unless the process ends.           *)
Continues(t) ==
    /\ UNCHANGED <<code, exec_ranges, proxies>>
    /\ \/ status' = "run" /\ ArmOf(pc)' = LandAt(t)
       \/ status' = "abort" /\ pc' = pc

LEMMA TransferStep ==
    ASSUME MachineInv, Loaded, status = "run", NEW t \in GuestPtrs,
           Arrives(t) \/ (UNCHANGED poolvars /\ NativeFor(pc', t)),
           regs' \in [Regs -> GuestPtrs],
           stack' \in Seq(GuestPtrs), Len(stack') <= MaxStack,
           ShadowStep, calls' \in 1 .. MaxCalls
    PROVE  /\ MachineInv'
           /\ UNCHANGED <<code, exec_ranges, proxies>>
           /\ \/ status' = "run" /\ ArmOf(pc)' = LandAt(t)
              \/ status' = "abort" /\ Guest!Crashes
           /\ Continues(t)
  <1>1. LinksInv /\ ProxySized /\ PcNative
    BY DEF MachineInv
  <1>2. LinksInv' /\ ProxySized' /\ Grows /\ status' \in {"run", "abort"}
    <2>1. CASE Arrives(t)
      BY <1>1, <2>1, ArrivesPool DEF Arrives, Translates
    <2>2. CASE UNCHANGED poolvars
      <3>1. [PoolNext]_poolvars /\ Grows /\ status' = "run"
        BY <2>2 DEF poolvars, Grows
      <3> QED
        BY <1>1, <3>1, LinksNext DEF Grows, ProxySized
    <2> QED
      BY <2>1, <2>2
  <1>3. status' = "run" => NativeFor(pc, t)'
    <2>1. CASE Arrives(t)
      BY <1>2, <2>1, ArrivesNative
    <2>2. CASE UNCHANGED poolvars /\ NativeFor(pc', t)
      <3>1. PICK p : p = pc'
        OBVIOUS
      <3>2. NativeFor(p, t)'
        BY <1>2, <2>2, <3>1, NativeStays
      <3> QED
        BY <3>1, <3>2 DEF NativeFor, InMap
    <2> QED
      BY <2>1, <2>2
  <1>4. status' = "abort" => pc' = pc
    BY <1>2 DEF Arrives, poolvars
  <1>5. pc' # Idle => \E u \in GuestPtrs : NativeFor(pc', u) \/ NativeFor(pc, u)'
    <2>1. CASE status' = "run"
      BY <1>3, <2>1
    <2>2. CASE status' = "abort"
      BY <1>1, <1>4, <2>2 DEF PcNative
    <2> QED
      BY <1>2, <2>1, <2>2
  <1>6. MachineInv'
    BY <1>2, <1>5, MachineStep DEF Statuses
  <1>7. UNCHANGED <<code, exec_ranges, proxies>>
    BY <1>2 DEF Grows
  <1>8. CASE status' = "run"
    <2>1. GuestPtrs' = GuestPtrs
      BY <1>2, GrowsPtrs
    <2>2. ArmOf(pc)' = LandAt(t)'
      BY <1>2, <1>3, <1>8, <2>1, NativeArmNext
    <2>3. LandAt(t)' = LandAt(t)
      BY <1>7 DEF LandAt
    <2> QED
      BY <1>6, <1>7, <1>8, <2>2, <2>3 DEF Continues
  <1>9. CASE status' = "abort"
    BY <1>4, <1>6, <1>7, <1>9, GuestCrashes DEF Continues
  <1> QED
    BY <1>2, <1>8, <1>9

LEMMA GuestMoves ==
    ASSUME NEW t, status = "run", status' = "run", ArmOf(pc)' = LandAt(t),
           UNCHANGED <<code, exec_ranges, proxies, stack, calls>>
    PROVE  Guest!GoTo(t)
  <1>1. StatusOf = "run" /\ StatusOf' = "run"
    BY StatusMeant, StatusMeantNext DEF StatusMeaning
  <1>2. UNCHANGED GotPtrs
    BY DEF GotPtrs
  <1>3. Guest!Arrive(t) = LandAt(t)
    BY GuestArrive
  <1> QED
    BY <1>1, <1>2, <1>3 DEF Guest!GoTo

LEMMA RunningFacts ==
    ASSUME MachineInv, Running
    PROVE  /\ LinksInv /\ ProxySized /\ CpuTypeOK /\ ShadowNative /\ Loaded
           /\ status = "run" /\ calls \in 1 .. MaxCalls
           /\ regs \in [Regs -> GuestPtrs]
           /\ stack \in Seq(GuestPtrs) /\ Len(stack) <= MaxStack
           /\ code \in Programs
           /\ \A a \in GuestAddrs : code[a].op \in IndirectOps => code[a].reg \in Regs
  <1>1. /\ LinksInv /\ ProxySized /\ CpuTypeOK /\ ShadowNative /\ Phases
        /\ status = "run" /\ pc # Idle
    BY DEF MachineInv, Running
  <1>2. calls # 0 /\ calls \in 0 .. MaxCalls /\ MaxCalls \in Nat
    BY <1>1, BoundAssumption DEF Phases, CpuTypeOK
  <1>3. calls \in 1 .. MaxCalls /\ calls > 0
    BY <1>2
  <1>4. code \in Programs
    BY <1>1 DEF LinksInv, SitesInv, IInv, PoolDataOK
  <1> QED
    BY <1>1, <1>3, <1>4, PointerAssumption DEF Phases, CpuTypeOK

------------------------------------------------------------------------------
(* One lemma for each action: it keeps the invariant, and is a step of the *)
(* ARM64 program or none                                                   *)

(* RET and BLR agree with the architecture only if a RET's operand is the  *)
(* link register and a BLR's is not.                                       *)
Conventional ==
    \A a \in GuestAddrs :
        /\ code[a].op = "ret" => code[a].reg = "x30"
        /\ code[a].op = "blr" => code[a].reg # "x30"

GuestMay(A) == A \/ Guest!Crashes

LEMMA DataTypes ==
    ASSUME MachineInv, Running, NEW a \in GuestAddrs, code[a].op \in DataOps,
           code[a].op = "push" => Len(stack) < MaxStack
    PROVE  /\ RegsAfter(code[a], regs, stack, GotPtrs) \in [Regs -> GuestPtrs]
           /\ StackAfter(code[a], regs, stack) \in Seq(GuestPtrs)
           /\ Len(StackAfter(code[a], regs, stack)) <= MaxStack
  <1> DEFINE i == code[a]
  <1>1. /\ regs \in [Regs -> GuestPtrs] /\ stack \in Seq(GuestPtrs) /\ Len(stack) <= MaxStack
        /\ code \in Programs /\ Loaded /\ MaxStack \in Nat
    BY RunningFacts, BoundAssumption
  <1>2. GuestEnd \in GuestPtrs /\ StartMain \in GuestPtrs
    BY SizeAssumption DEF GuestPtrs, Labels
  <1>3. /\ i.op = "adr" => i.to \in GuestPtrs
        /\ i.op = "got" => i.fn \in HostFns \cup {StartMainFn}
    BY <1>1, PointerAssumption DEF GuestPtrs
  <1>4. \A f \in HostFns : GotPtrs[f] \in GuestPtrs
    BY <1>1 DEF Loaded, GotPtrs, GuestPtrs, ProxyPtrs
  <1>5. "x30" \in Regs /\ "x17" \in Regs
    BY DEF Regs
  <1>6. stack # << >> => /\ Head(stack) \in GuestPtrs /\ Tail(stack) \in Seq(GuestPtrs)
                         /\ Len(Tail(stack)) = Len(stack) - 1
    BY <1>1, HeadTailProperties
  <1>7. /\ <<regs["x30"]>> \o stack \in Seq(GuestPtrs)
        /\ Len(<<regs["x30"]>> \o stack) = Len(stack) + 1
    <2>1. <<regs["x30"]>> \in Seq(GuestPtrs) /\ Len(<<regs["x30"]>>) = 1
      BY <1>1, <1>5
    <2>2. Len(<<regs["x30"]>> \o stack) = 1 + Len(stack)
      BY <1>1, <2>1, ConcatProperties
    <2> QED
      BY <1>1, <2>1, <2>2, ConcatProperties
  <1>8. << >> \in Seq(GuestPtrs) /\ Len(<< >>) = 0 /\ Len(stack) \in Nat
    BY <1>1
  <1> HIDE DEF i
  <1>9. CASE i.op = "adr"
    <2>1. /\ RegsAfter(i, regs, stack, GotPtrs) = [regs EXCEPT !["x17"] = i.to]
          /\ StackAfter(i, regs, stack) = stack
      BY <1>9, Zenon DEF RegsAfter, StackAfter
    <2> QED
      BY <1>1, <1>3, <1>5, <1>9, <2>1 DEF i
  <1>10. CASE i.op = "got"
    <2>1. /\ RegsAfter(i, regs, stack, GotPtrs) =
                [regs EXCEPT !["x17"] = IF i.fn = StartMainFn THEN StartMain ELSE GotPtrs[i.fn]]
          /\ StackAfter(i, regs, stack) = stack
      BY <1>10, Zenon DEF RegsAfter, StackAfter
    <2>2. (IF i.fn = StartMainFn THEN StartMain ELSE GotPtrs[i.fn]) \in GuestPtrs
      BY <1>2, <1>3, <1>4, <1>10
    <2> QED
      BY <1>1, <1>5, <2>1, <2>2 DEF i
  <1>11. CASE i.op = "pop"
    <2>1. /\ RegsAfter(i, regs, stack, GotPtrs) =
                [regs EXCEPT !["x30"] = IF stack = << >> THEN GuestEnd ELSE Head(stack)]
          /\ StackAfter(i, regs, stack) = IF stack = << >> THEN << >> ELSE Tail(stack)
      BY <1>11, Zenon DEF RegsAfter, StackAfter
    <2>2. (IF stack = << >> THEN GuestEnd ELSE Head(stack)) \in GuestPtrs
      BY <1>2, <1>6
    <2>3. StackAfter(i, regs, stack) \in Seq(GuestPtrs) /\ Len(StackAfter(i, regs, stack)) <= MaxStack
      BY <1>1, <1>6, <1>8, <2>1
    <2> QED
      BY <1>1, <1>5, <2>1, <2>2, <2>3 DEF i
  <1>12. CASE i.op = "push"
    <2>1. /\ RegsAfter(i, regs, stack, GotPtrs) = regs
          /\ StackAfter(i, regs, stack) = <<regs["x30"]>> \o stack
      BY <1>12, Zenon DEF RegsAfter, StackAfter
    <2>2. Len(stack) < MaxStack
      BY <1>12 DEF i
    <2> QED
      BY <1>1, <1>7, <1>8, <2>1, <2>2 DEF i
  <1>13. CASE i.op \in {"nop", "op", "stop"}
    <2>1. /\ RegsAfter(i, regs, stack, GotPtrs) = regs
          /\ StackAfter(i, regs, stack) = stack
      BY <1>13, Zenon DEF RegsAfter, StackAfter
    <2> QED
      BY <1>1, <2>1 DEF i
  <1> QED
    BY <1>9, <1>10, <1>11, <1>12, <1>13 DEF DataOps, i

LEMMA ExecDataStep ==
    ASSUME MachineInv, NEW a \in GuestAddrs, ExecData(a)
    PROVE  MachineInv' /\ GuestMay(Guest!Data) /\ Continues(a + 1)
  <1>1. /\ Running /\ Starts(a, pc) /\ code[a].op \in DataOps
        /\ code[a].op = "push" => Len(stack) < MaxStack
        /\ regs' = RegsAfter(code[a], regs, stack, GotPtrs)
        /\ stack' = StackAfter(code[a], regs, stack)
        /\ pc' = After(a) /\ UNCHANGED <<poolvars, shadow, beyond, calls>>
    BY DEF ExecData, At
  <1>2. /\ LinksInv /\ CpuTypeOK /\ ShadowNative /\ Loaded /\ status = "run"
        /\ calls \in 1 .. MaxCalls
    BY <1>1, RunningFacts
  <1>3. regs' \in [Regs -> GuestPtrs] /\ stack' \in Seq(GuestPtrs) /\ Len(stack') <= MaxStack
    BY <1>1, DataTypes
  <1>4. PICK t \in 0 .. GuestEnd : t = a + 1 /\ NativeFor(pc', t)
    BY <1>1, <1>2, AfterNative
  <1>5. /\ t \in GuestPtrs /\ ShadowStep /\ UNCHANGED Depth
        /\ calls' \in 1 .. MaxCalls /\ UNCHANGED poolvars
    BY <1>1, <1>2, ShadowKept DEF GuestPtrs
  <1>6. /\ MachineInv' /\ UNCHANGED <<code, exec_ranges, proxies>>
        /\ status' = "run" /\ ArmOf(pc)' = LandAt(t) /\ Continues(t)
    <2>1. status' = "run"
      BY <1>1, <1>2 DEF poolvars
    <2> QED
      BY <1>2, <1>3, <1>4, <1>5, <2>1, TransferStep
  <1>7. ArmOf(pc) = a /\ Guest!Instr = code[a] /\ Guest!Fetch(code[a].op)
    BY <1>1, <1>2, GuestFetch
  <1>8. Guest!Data
    <2>1. StatusOf = "run" /\ StatusOf' = "run"
      BY <1>2, <1>6, StatusMeant, StatusMeantNext DEF StatusMeaning
    <2>2. UNCHANGED GotPtrs
      BY <1>6 DEF GotPtrs
    <2>3. Guest!Arrive(ArmOf(pc) + 1) = LandAt(t)
      BY <1>4, <1>7, GuestArrive
    <2>4. \E op \in Guest!DataOps : Guest!Fetch(op)
      BY <1>1, <1>7 DEF Guest!DataOps, DataOps
    <2>5. /\ regs' = Guest!RegsAfter(Guest!Instr, regs, stack, GotPtrs)
          /\ stack' = Guest!StackAfter(Guest!Instr, regs, stack)
      BY <1>1, <1>7, GuestData
    <2>6. calls' = calls
      BY <1>1
    <2> QED
      BY <1>5, <1>6, <2>1, <2>2, <2>3, <2>4, <2>5, <2>6 DEF Guest!Data
  <1> QED
    BY <1>4, <1>6, <1>8 DEF GuestMay

(* A branch instruction: control continues at t, and the link register and *)
(* the shadow stack are set as the instruction says.                       *)
LEMMA BranchStep ==
    ASSUME MachineInv, Running, NEW t \in GuestPtrs,
           Arrives(t) \/ (UNCHANGED poolvars /\ NativeFor(pc', t)),
           regs' \in [Regs -> GuestPtrs], ShadowStep,
           UNCHANGED <<stack, calls>>
    PROVE  MachineInv' /\ GuestMay(Guest!GoTo(t)) /\ Continues(t)
  <1>1. /\ Loaded /\ status = "run" /\ calls \in 1 .. MaxCalls
        /\ stack \in Seq(GuestPtrs) /\ Len(stack) <= MaxStack
    BY RunningFacts
  <1>2. calls' \in 1 .. MaxCalls /\ stack' \in Seq(GuestPtrs) /\ Len(stack') <= MaxStack
    BY <1>1
  <1>3. /\ MachineInv'
        /\ UNCHANGED <<code, exec_ranges, proxies>>
        /\ \/ status' = "run" /\ ArmOf(pc)' = LandAt(t)
           \/ status' = "abort" /\ Guest!Crashes
        /\ Continues(t)
    BY <1>1, <1>2, TransferStep
  <1>4. CASE status' = "run"
    BY <1>1, <1>3, <1>4, GuestMoves DEF GuestMay
  <1>5. CASE Guest!Crashes
    BY <1>3, <1>5 DEF GuestMay
  <1> QED
    BY <1>3, <1>4, <1>5

LEMMA ImagePtr ==
    ASSUME NEW t \in 0 .. GuestEnd
    PROVE  t \in GuestPtrs
  BY DEF GuestPtrs

LEMMA ExecBStep ==
    ASSUME MachineInv, NEW a \in GuestAddrs, ExecB(a)
    PROVE  MachineInv' /\ GuestMay(Guest!B) /\ Continues(code[a].to)
  <1>1. /\ Running /\ Starts(a, pc) /\ code[a].op = "b" /\ TakeJump(a)
        /\ UNCHANGED <<regs, stack, shadow, beyond, calls>>
    BY DEF ExecB, At
  <1>2. /\ LinksInv /\ CpuTypeOK /\ ShadowNative /\ Loaded /\ status = "run"
        /\ regs \in [Regs -> GuestPtrs]
    BY <1>1, RunningFacts
  <1>3. code[a].to \in 0 .. GuestEnd /\ Arrives(code[a].to)
    BY <1>1, <1>2, DirectArrives DEF DirectOps
  <1>4. PICK t \in GuestPtrs : t = code[a].to /\ Arrives(t)
    BY <1>3, ImagePtr
  <1>5. MachineInv' /\ GuestMay(Guest!GoTo(t)) /\ Continues(t)
    BY <1>1, <1>2, <1>4, ShadowKept, BranchStep
  <1>6. Guest!Instr = code[a] /\ Guest!Fetch("b")
    BY <1>1, <1>2, GuestFetch
  <1>7. Guest!GoTo(t) => Guest!B
    BY <1>1, <1>2, <1>4, <1>6, ShadowKept DEF Guest!B
  <1> QED
    BY <1>4, <1>5, <1>7 DEF GuestMay

LEMMA ExecBCondStep ==
    ASSUME MachineInv, NEW a \in GuestAddrs, ExecBCond(a)
    PROVE  MachineInv' /\ GuestMay(Guest!BCond) /\ \E t \in {code[a].to, a + 1} : Continues(t)
  <1>1. /\ Running /\ Starts(a, pc) /\ code[a].op = "b_cond"
        /\ TakeJump(a) \/ (UNCHANGED poolvars /\ pc' = After(a))
        /\ UNCHANGED <<regs, stack, shadow, beyond, calls>>
    BY DEF ExecBCond, At
  <1>2. /\ LinksInv /\ CpuTypeOK /\ ShadowNative /\ Loaded /\ status = "run"
        /\ regs \in [Regs -> GuestPtrs]
    BY <1>1, RunningFacts
  <1>3. \E t \in GuestPtrs : /\ t \in {code[a].to, a + 1}
                             /\ Arrives(t) \/ (UNCHANGED poolvars /\ NativeFor(pc', t))
    <2>1. CASE TakeJump(a)
      BY <1>1, <1>2, <2>1, DirectArrives, ImagePtr DEF DirectOps
    <2>2. CASE UNCHANGED poolvars /\ pc' = After(a)
      BY <1>1, <1>2, <2>2, AfterNative, ImagePtr
    <2> QED
      BY <1>1, <2>1, <2>2
  <1>4. PICK t \in GuestPtrs : /\ t \in {code[a].to, a + 1}
                               /\ Arrives(t) \/ (UNCHANGED poolvars /\ NativeFor(pc', t))
    BY <1>3
  <1>5. MachineInv' /\ GuestMay(Guest!GoTo(t)) /\ Continues(t)
    BY <1>1, <1>2, <1>4, ShadowKept, BranchStep
  <1>6. ArmOf(pc) = a /\ Guest!Instr = code[a] /\ Guest!Fetch("b_cond")
    BY <1>1, <1>2, GuestFetch
  <1>7. Guest!GoTo(t) => Guest!BCond
    BY <1>1, <1>2, <1>4, <1>6, ShadowKept DEF Guest!BCond
  <1> QED
    BY <1>4, <1>5, <1>7 DEF GuestMay

(* Calls push the pointer behind them with the address where it resumes.   *)
LEMMA CallPushes ==
    ASSUME MachineInv, Running, NEW a \in GuestAddrs, Starts(a, pc),
           regs' = [regs EXCEPT !["x30"] = a + 1], PushShadowStack(a + 1, After(a))
    PROVE  regs' \in [Regs -> GuestPtrs] /\ ShadowStep /\ Depth' = Depth + 1
  <1>1. /\ LinksInv /\ CpuTypeOK /\ ShadowNative /\ regs \in [Regs -> GuestPtrs]
    BY RunningFacts
  <1>2. PICK t \in GuestPtrs : t = a + 1 /\ NativeFor(After(a), t)
    BY <1>1, AfterNative, ImagePtr
  <1>3. PICK p \in Nat : p = After(a)
    BY <1>1, <1>2, NativeNat
  <1> QED
    BY <1>1, <1>2, <1>3, ShadowPushed DEF Regs

LEMMA ExecBLStep ==
    ASSUME MachineInv, NEW a \in GuestAddrs, ExecBL(a)
    PROVE  MachineInv' /\ GuestMay(Guest!BL) /\ Continues(code[a].to)
  <1>1. /\ Running /\ Starts(a, pc) /\ code[a].op = "bl"
        /\ regs' = [regs EXCEPT !["x30"] = a + 1]
        /\ PushShadowStack(a + 1, After(a)) /\ TakeJump(a)
        /\ UNCHANGED <<stack, calls>>
    BY DEF ExecBL, At
  <1>2. LinksInv /\ Loaded /\ status = "run"
    BY <1>1, RunningFacts
  <1>3. PICK t \in GuestPtrs : t = code[a].to /\ Arrives(t)
    BY <1>1, <1>2, DirectArrives, ImagePtr DEF DirectOps
  <1>4. MachineInv' /\ GuestMay(Guest!GoTo(t)) /\ Continues(t)
    BY <1>1, <1>3, CallPushes, BranchStep
  <1>5. ArmOf(pc) = a /\ Guest!Instr = code[a] /\ Guest!Fetch("bl")
    BY <1>1, <1>2, GuestFetch
  <1>6. Guest!GoTo(t) => Guest!BL
    <2>1. Depth' = Depth + 1
      BY <1>1, CallPushes
    <2> QED
      BY <1>1, <1>3, <1>5, <2>1 DEF Guest!BL
  <1> QED
    BY <1>3, <1>4, <1>6 DEF GuestMay

LEMMA ExecBRStep ==
    ASSUME MachineInv, NEW a \in GuestAddrs, ExecBR(a)
    PROVE  MachineInv' /\ GuestMay(Guest!BR) /\ Continues(regs[code[a].reg])
  <1>1. /\ Running /\ Starts(a, pc) /\ code[a].op = "br"
        /\ IndirectJump(regs[code[a].reg])
        /\ UNCHANGED <<regs, stack, shadow, beyond, calls>>
    BY DEF ExecBR, At
  <1>2. /\ LinksInv /\ CpuTypeOK /\ ShadowNative /\ Loaded /\ status = "run"
        /\ regs \in [Regs -> GuestPtrs] /\ code[a].reg \in Regs
    BY <1>1, RunningFacts DEF IndirectOps
  <1>3. PICK t \in GuestPtrs : t = regs[code[a].reg]
    BY <1>2
  <1>4. Arrives(t)
    BY <1>1, <1>2, <1>3, PtrTypes, IndirectArrives
  <1>5. MachineInv' /\ GuestMay(Guest!GoTo(t)) /\ Continues(t)
    BY <1>1, <1>2, <1>4, ShadowKept, BranchStep
  <1>6. Guest!Instr = code[a] /\ Guest!Fetch("br")
    BY <1>1, <1>2, GuestFetch
  <1>7. Guest!GoTo(t) => Guest!BR
    BY <1>1, <1>2, <1>3, <1>6, ShadowKept DEF Guest!BR
  <1> QED
    BY <1>3, <1>5, <1>7 DEF GuestMay

LEMMA ExecBLRStep ==
    ASSUME MachineInv, NEW a \in GuestAddrs, ExecBLR(a)
    PROVE  MachineInv' /\ (Conventional => GuestMay(Guest!BLR)) /\ Continues(regs'[code[a].reg])
  <1>1. /\ Running /\ Starts(a, pc) /\ code[a].op = "blr"
        /\ regs' = [regs EXCEPT !["x30"] = a + 1]
        /\ PushShadowStack(a + 1, After(a)) /\ IndirectJump(regs'[code[a].reg])
        /\ UNCHANGED <<stack, calls>>
    BY DEF ExecBLR, At
  <1>2. /\ LinksInv /\ Loaded /\ status = "run" /\ regs \in [Regs -> GuestPtrs]
        /\ code[a].reg \in Regs
    BY <1>1, RunningFacts DEF IndirectOps
  <1>3. regs' \in [Regs -> GuestPtrs] /\ ShadowStep /\ Depth' = Depth + 1
    BY <1>1, CallPushes
  <1>4. PICK t \in GuestPtrs : t = regs'[code[a].reg]
    BY <1>2, <1>3
  <1>5. Arrives(t)
    BY <1>1, <1>2, <1>4, PtrTypes, IndirectArrives
  <1>6. MachineInv' /\ GuestMay(Guest!GoTo(t)) /\ Continues(t)
    BY <1>1, <1>3, <1>5, BranchStep
  <1>7. ArmOf(pc) = a /\ Guest!Instr = code[a] /\ Guest!Fetch("blr")
    BY <1>1, <1>2, GuestFetch
  <1>8. ASSUME Conventional PROVE t = regs[code[a].reg]
    BY <1>1, <1>2, <1>4, <1>8 DEF Conventional
  <1>9. Conventional /\ Guest!GoTo(t) => Guest!BLR
    BY <1>1, <1>3, <1>7, <1>8 DEF Guest!BLR
  <1> QED
    BY <1>4, <1>6, <1>9 DEF GuestMay

(* Predicted or looked up, a return continues where the link register      *)
(* points.                                                                 *)
LEMMA ReturnStep ==
    ASSUME MachineInv, Running, ReturnSequence, UNCHANGED <<regs, stack, calls>>
    PROVE  /\ MachineInv' /\ GuestMay(Guest!GoTo(regs["x30"])) /\ Continues(regs["x30"])
           /\ Depth' = Depth - 1
  <1>1. /\ LinksInv /\ CpuTypeOK /\ ShadowNative /\ Loaded /\ status = "run"
        /\ regs \in [Regs -> GuestPtrs]
    BY RunningFacts
  <1>2. PICK t \in GuestPtrs : t = regs["x30"]
    BY <1>1 DEF Regs
  <1>3. /\ PopShadowStack
        /\ \/ /\ shadow # << >> /\ t = Head(shadow).arm
              /\ UNCHANGED poolvars /\ pc' = Head(shadow).native
           \/ IndirectJump(t)
    BY <1>2 DEF ReturnSequence
  <1>4. /\ ShadowStep /\ Depth' = Depth - 1
        /\ shadow # << >> => NativeFor(Head(shadow).native, Head(shadow).arm)
    BY <1>1, <1>3, ShadowPopped
  <1>5. Arrives(t) \/ (UNCHANGED poolvars /\ NativeFor(pc', t))
    <2>1. CASE /\ shadow # << >> /\ t = Head(shadow).arm
               /\ UNCHANGED poolvars /\ pc' = Head(shadow).native
      BY <1>4, <2>1
    <2>2. CASE IndirectJump(t)
      BY <1>1, <2>2, PtrTypes, IndirectArrives
    <2> QED
      BY <1>3, <2>1, <2>2
  <1>6. regs' \in [Regs -> GuestPtrs]
    BY <1>1
  <1> QED
    BY <1>2, <1>4, <1>5, <1>6, BranchStep

LEMMA ExecRETStep ==
    ASSUME MachineInv, NEW a \in GuestAddrs, ExecRET(a)
    PROVE  MachineInv' /\ (Conventional => GuestMay(Guest!RET)) /\ Continues(regs["x30"])
  <1>1. /\ Running /\ Starts(a, pc) /\ code[a].op = "ret"
        /\ ReturnSequence /\ UNCHANGED <<regs, stack, calls>>
    BY DEF ExecRET, At
  <1>2. LinksInv /\ status = "run"
    BY <1>1, RunningFacts
  <1>3. /\ MachineInv' /\ GuestMay(Guest!GoTo(regs["x30"])) /\ Continues(regs["x30"])
        /\ Depth' = Depth - 1
    BY <1>1, ReturnStep
  <1>4. Guest!Instr = code[a] /\ Guest!Fetch("ret")
    BY <1>1, <1>2, GuestFetch
  <1>5. Conventional /\ Guest!GoTo(regs["x30"]) => Guest!RET
    BY <1>1, <1>3, <1>4 DEF Guest!RET, Conventional
  <1> QED
    BY <1>3, <1>5 DEF GuestMay

LEMMA HostCallStep ==
    ASSUME MachineInv, HostCall
    PROVE  MachineInv' /\ GuestMay(Guest!HostReturns) /\ Continues(regs["x30"])
  <1>1. /\ Running /\ pc \in ProxyPtrs
        /\ ReturnSequence /\ UNCHANGED <<regs, stack, calls>>
    BY DEF HostCall, ProxyPtrs
  <1>2. LinksInv /\ ProxySized /\ status = "run"
    BY <1>1, RunningFacts
  <1>3. /\ MachineInv' /\ GuestMay(Guest!GoTo(regs["x30"])) /\ Continues(regs["x30"])
        /\ Depth' = Depth - 1
    BY <1>1, ReturnStep
  <1>4. ArmOf(pc) = pc
    BY <1>1, <1>2, ArmOfPtr DEF GuestPtrs
  <1>5. StatusOf = "run"
    BY <1>2, StatusMeant DEF StatusMeaning
  <1>6. Guest!HostPtrs = ProxyPtrs
    BY DEF Guest!HostPtrs, GotPtrs, ProxyPtrs
  <1>7. Guest!GoTo(regs["x30"]) => Guest!HostReturns
    BY <1>1, <1>3, <1>4, <1>5, <1>6 DEF Guest!HostReturns
  <1> QED
    BY <1>3, <1>7 DEF GuestMay

(* The call that ends a chunk is no step of the program.                   *)
LEMMA ExecEndStep ==
    ASSUME MachineInv, ExecEnd
    PROVE  /\ MachineInv' /\ GuestMay(UNCHANGED Guest!gvars)
           /\ \E t \in GuestPtrs : ArmOf(pc) = LandAt(t) /\ Continues(t)
  <1>1. /\ Running /\ pc \in EndSites
        /\ UNCHANGED <<regs, stack, shadow, beyond, calls>>
        /\ IF sites[pc].kind = "jmp"
             THEN UNCHANGED poolvars /\ pc' = sites[pc].to
             ELSE EndOfChunk(pc) /\ GoTo(sites'[pc].to)
    BY DEF ExecEnd
  <1>2. /\ LinksInv /\ CpuTypeOK /\ ShadowNative /\ Loaded /\ status = "run"
        /\ calls \in 1 .. MaxCalls /\ regs \in [Regs -> GuestPtrs]
        /\ stack \in Seq(GuestPtrs) /\ Len(stack) <= MaxStack
    BY <1>1, RunningFacts
  <1>3. PICK t \in GuestPtrs : Arrives(t) /\ ArmOf(pc) = LandAt(t)
    BY <1>1, <1>2, EndArrives, ImagePtr
  <1>4. /\ regs' \in [Regs -> GuestPtrs] /\ calls' \in 1 .. MaxCalls
        /\ stack' \in Seq(GuestPtrs) /\ Len(stack') <= MaxStack
        /\ ShadowStep /\ UNCHANGED Depth
    BY <1>1, <1>2, ShadowKept
  <1>5. /\ MachineInv'
        /\ UNCHANGED <<code, exec_ranges, proxies>>
        /\ \/ status' = "run" /\ ArmOf(pc)' = LandAt(t)
           \/ status' = "abort" /\ Guest!Crashes
        /\ Continues(t)
    BY <1>2, <1>3, <1>4, TransferStep
  <1>6. ASSUME status' = "run", ArmOf(pc)' = LandAt(t) PROVE UNCHANGED Guest!gvars
    <2>1. StatusOf = "run" /\ StatusOf' = "run"
      BY <1>2, <1>6, StatusMeant, StatusMeantNext DEF StatusMeaning
    <2>2. UNCHANGED GotPtrs
      BY <1>5 DEF GotPtrs
    <2> QED
      BY <1>1, <1>3, <1>4, <1>5, <1>6, <2>1, <2>2 DEF Guest!gvars
  <1>7. GuestMay(UNCHANGED Guest!gvars)
    BY <1>5, <1>6 DEF GuestMay
  <1>8. \E u \in GuestPtrs : ArmOf(pc) = LandAt(u) /\ Continues(u)
    BY <1>3, <1>5
  <1> QED
    BY <1>5, <1>7, <1>8 DEF GuestMay

LEMMA LibcStartMainStep ==
    ASSUME MachineInv, LibcStartMain
    PROVE  MachineInv' /\ GuestMay(Guest!StartsMain) /\ \E m \in Mains : Continues(m)
  <1>1. /\ Running /\ pc = StartMain
        /\ \E m \in Mains : GetExec(m, Null) /\ GoTo(Resolve(executable_map', m))
        /\ regs' = RegsAtCall(MainExit)
        /\ shadow' = <<[arm |-> MainExit, native |-> MainExit]>> /\ beyond' = 0
        /\ UNCHANGED <<stack, calls>>
    BY DEF LibcStartMain
  <1>2. /\ LinksInv /\ ProxySized /\ Loaded /\ status = "run"
        /\ calls \in 1 .. MaxCalls /\ regs \in [Regs -> GuestPtrs]
        /\ stack \in Seq(GuestPtrs) /\ Len(stack) <= MaxStack
    BY <1>1, RunningFacts
  <1>3. PICK m \in Mains : GetExec(m, Null) /\ GoTo(Resolve(executable_map', m))
    BY <1>1
  <1>4. m \in Nat /\ m \in GuestPtrs
    BY BoundAssumption, SizeAssumption DEF GuestPtrs, GuestAddrs
  <1>5. Arrives(m)
    BY <1>2, <1>3, <1>4, LookupArrives DEF GoTo
  <1>6. /\ MainExit \in Labels /\ StartMain \in Labels
        /\ MainExit \in GuestPtrs /\ StartMain \in GuestPtrs
    BY DEF Labels, GuestPtrs
  <1>7. ShadowStep /\ Depth' = 1
    BY <1>1, <1>2, <1>6, ShadowFresh
  <1>8. /\ regs' \in [Regs -> GuestPtrs] /\ calls' \in 1 .. MaxCalls
        /\ stack' \in Seq(GuestPtrs) /\ Len(stack') <= MaxStack
    BY <1>1, <1>2, <1>6, CallRegs
  <1>9. /\ MachineInv'
        /\ UNCHANGED <<code, exec_ranges, proxies>>
        /\ \/ status' = "run" /\ ArmOf(pc)' = LandAt(m)
           \/ status' = "abort" /\ Guest!Crashes
        /\ Continues(m)
    BY <1>2, <1>4, <1>5, <1>7, <1>8, TransferStep
  <1>10. CASE status' = "run" /\ ArmOf(pc)' = LandAt(m)
    <2>1. StatusOf = "run" /\ StatusOf' = "run"
      BY <1>2, <1>10, StatusMeant, StatusMeantNext DEF StatusMeaning
    <2>2. UNCHANGED GotPtrs
      BY <1>9 DEF GotPtrs
    <2>3. ArmOf(pc) = StartMain
      BY <1>1, <1>2, <1>6, ArmOfPtr
    <2>4. Guest!Arrive(m) = LandAt(m)
      BY GuestArrive
    <2>5. Guest!StartsMain
      BY <1>1, <1>7, <1>9, <1>10, <2>1, <2>2, <2>3, <2>4, GuestCallRegs DEF Guest!StartsMain
    <2> QED
      BY <1>9, <2>5 DEF GuestMay
  <1> QED
    BY <1>3, <1>9, <1>10 DEF GuestMay

LEMMA CallGuestStep ==
    ASSUME MachineInv, NEW e \in Entries, CallGuest(e)
    PROVE  MachineInv' /\ GuestMay(Guest!CallGuest(e)) /\ Continues(e)
  <1>1. /\ status = "run" /\ pc = Idle /\ Loaded
        /\ calls < MaxCalls /\ calls' = calls + 1
        /\ GetExec(e, Null) /\ GoTo(Resolve(executable_map', e))
        /\ regs' = RegsAtCall(ExitLabel)
        /\ shadow' = <<[arm |-> ExitLabel, native |-> ExitLabel]>> /\ beyond' = 0
        /\ stack' = << >>
    BY DEF CallGuest
  <1>2. /\ LinksInv /\ ProxySized /\ calls \in 0 .. MaxCalls /\ regs \in [Regs -> GuestPtrs]
        /\ MaxCalls \in Nat /\ MaxStack \in Nat
    BY BoundAssumption DEF MachineInv, CpuTypeOK
  <1>3. e \in Nat /\ e \in GuestPtrs
    BY BoundAssumption, SizeAssumption DEF GuestPtrs, GuestAddrs
  <1>4. Arrives(e)
    BY <1>1, <1>2, <1>3, LookupArrives DEF GoTo
  <1>5. ExitLabel \in Labels /\ ExitLabel \in GuestPtrs
    BY DEF Labels, GuestPtrs
  <1>6. ShadowStep /\ Depth' = 1
    BY <1>1, <1>2, <1>5, ShadowFresh
  <1>7. /\ regs' \in [Regs -> GuestPtrs] /\ calls' \in 1 .. MaxCalls
        /\ stack' \in Seq(GuestPtrs) /\ Len(stack') <= MaxStack
    <2>1. regs' \in [Regs -> GuestPtrs]
      BY <1>1, <1>5, CallRegs
    <2>2. calls' \in 1 .. MaxCalls
      BY <1>1, <1>2
    <2>3. << >> \in Seq(GuestPtrs) /\ Len(<< >>) = 0
      OBVIOUS
    <2> QED
      BY <1>1, <1>2, <2>1, <2>2, <2>3
  <1>8. /\ MachineInv'
        /\ UNCHANGED <<code, exec_ranges, proxies>>
        /\ \/ status' = "run" /\ ArmOf(pc)' = LandAt(e)
           \/ status' = "abort" /\ Guest!Crashes
        /\ Continues(e)
    BY <1>1, <1>2, <1>3, <1>4, <1>6, <1>7, TransferStep
  <1>9. CASE status' = "run" /\ ArmOf(pc)' = LandAt(e)
    <2>1. StatusOf = "run" /\ StatusOf' = "run"
      BY <1>1, <1>9, StatusMeant, StatusMeantNext DEF StatusMeaning
    <2>2. UNCHANGED GotPtrs /\ DOMAIN GotPtrs = DOMAIN proxies
      BY <1>8 DEF GotPtrs
    <2>3. ArmOf(pc) = Guest!Idle
      BY <1>1, <1>2, ArmOfPtr DEF Idle, Guest!Idle
    <2>4. Guest!Arrive(e) = LandAt(e)
      BY GuestArrive
    <2>5. Guest!CallGuest(e)
      BY <1>1, <1>6, <1>8, <1>9, <2>1, <2>2, <2>3, <2>4, GuestCallRegs DEF Guest!CallGuest, Loaded
    <2> QED
      BY <1>8, <2>5 DEF GuestMay
  <1> QED
    BY <1>8, <1>9 DEF GuestMay

LEMMA IdleNext == (LinksInv /\ ProxySized => ArmOf(Idle) = Idle)'
  <1>1. LinksInv /\ ProxySized => ArmOf(Idle) = Idle
    BY ArmOfPtr
  <1> QED
    BY <1>1, PTL

LEMMA CallReturnsStep ==
    ASSUME MachineInv, CallReturns
    PROVE  MachineInv' /\ Guest!Returned
  <1>1. /\ Running /\ pc = ExitLabel /\ pc' = Idle /\ shadow' = << >> /\ beyond' = 0
        /\ UNCHANGED <<poolvars, regs, stack, calls>>
    BY DEF CallReturns
  <1>2. /\ LinksInv /\ ProxySized /\ Loaded /\ status = "run"
        /\ calls \in 1 .. MaxCalls /\ regs \in [Regs -> GuestPtrs]
        /\ stack \in Seq(GuestPtrs) /\ Len(stack) <= MaxStack
    BY <1>1, RunningFacts
  <1>3. [PoolNext]_poolvars /\ Grows /\ status' = "run" /\ status' \in Statuses
    BY <1>1, <1>2 DEF poolvars, Grows, Statuses
  <1>4. LinksInv' /\ ProxySized'
    BY <1>2, <1>3, LinksNext DEF Grows, ProxySized
  <1>5. ShadowStep /\ Depth' = 0
    BY <1>1 DEF ShadowStep, Depth
  <1>6. MachineInv'
    <2>1. /\ regs' \in [Regs -> GuestPtrs] /\ stack' \in Seq(GuestPtrs) /\ Len(stack') <= MaxStack
          /\ calls' \in 1 .. MaxCalls
      BY <1>1, <1>2
    <2> QED
      BY <1>1, <1>2, <1>3, <1>4, <1>5, <2>1, MachineStep
  <1>7. ArmOf(pc) = ExitLabel
    <2>1. ExitLabel \in GuestPtrs
      BY DEF Labels, GuestPtrs
    <2> QED
      BY <1>1, <1>2, <2>1, ArmOfPtr
  <1>8. ArmOf(pc)' = Guest!Idle
    <2>1. ArmOf(Idle)' = Idle
      BY <1>4, IdleNext
    <2> QED
      BY <1>1, <2>1 DEF ArmOf, StartsAt, Starts, Idle, Guest!Idle
  <1>9. StatusOf = "run" /\ StatusOf' = "run" /\ UNCHANGED GotPtrs
    BY <1>2, <1>3, StatusMeant, StatusMeantNext DEF StatusMeaning, GotPtrs, Grows
  <1> QED
    BY <1>1, <1>3, <1>5, <1>6, <1>7, <1>8, <1>9 DEF Guest!Returned, Grows

(* A step that ends the process.                                           *)
LEMMA EndsStep ==
    ASSUME MachineInv, status' \in Statuses,
           UNCHANGED <<code, exec_ranges, executable_map, allocvars, proxies, sites, cpuvars>>
    PROVE  /\ MachineInv'
           /\ ArmOf(pc)' = ArmOf(pc) /\ UNCHANGED GotPtrs
           /\ UNCHANGED <<code, exec_ranges, proxies, regs, stack, calls, Depth>>
  <1>1. LinksInv'
    BY LinksSame DEF MachineInv
  <1>2. /\ code' = code /\ exec_ranges' = exec_ranges /\ executable_map' = executable_map
        /\ proxies' = proxies /\ pc' = pc /\ regs' = regs /\ stack' = stack
        /\ shadow' = shadow /\ beyond' = beyond /\ calls' = calls
    BY DEF cpuvars
  <1>3. GuestPtrs' = GuestPtrs /\ Entry' = Entry /\ Loaded' = Loaded
    BY <1>2 DEF GuestPtrs, ProxyPtrs, Entry, Loaded
  <1>4. ProxySized' /\ CpuTypeOK' /\ Phases'
    BY <1>2, <1>3 DEF MachineInv, ProxySized, CpuTypeOK, Phases
  <1>5. PcNative' /\ ShadowNative'
    BY <1>2, <1>3 DEF MachineInv, PcNative, ShadowNative, NativeFor, InMap, LandAt, is_executable
  <1>6. ArmOf(pc)' = ArmOf(pc)
    BY <1>2 DEF ArmOf, StartsAt, Starts, EndSites, Resolve, is_executable, Within
  <1> QED
    BY <1>1, <1>2, <1>4, <1>5, <1>6 DEF MachineInv, GotPtrs, Depth

(* Running out of a resource.                                              *)
LEMMA ExhaustedStep ==
    ASSUME MachineInv, ShadowFull \/ StackFull
    PROVE  MachineInv' /\ Guest!Crashes
  <1>1. /\ status = "run" /\ status' = "overflow"
        /\ UNCHANGED <<code, exec_ranges, executable_map, allocvars, proxies, sites, cpuvars>>
    BY DEF ShadowFull, StackFull, Running
  <1>2. MachineInv' /\ UNCHANGED <<code, exec_ranges, proxies>>
    BY <1>1, EndsStep DEF Statuses
  <1> QED
    BY <1>1, <1>2, GuestCrashes

(* Beyond the shadow stack only a program gets that returned without a     *)
(* call.                                                                   *)
LEMMA BeyondStep ==
    ASSUME MachineInv, ShadowBeyond
    PROVE  MachineInv' /\ Guest!LosesControl
  <1>1. /\ Running /\ status' = "lost"
        /\ UNCHANGED <<code, exec_ranges, executable_map, allocvars, proxies, sites, cpuvars>>
    BY DEF ShadowBeyond
  <1>2. LinksInv /\ ProxySized /\ status = "run"
    BY <1>1, RunningFacts
  <1>3. /\ MachineInv' /\ ArmOf(pc)' = ArmOf(pc) /\ UNCHANGED GotPtrs
        /\ UNCHANGED <<code, exec_ranges, regs, stack, calls, Depth>>
    BY <1>1, EndsStep DEF Statuses
  <1>4. ASSUME NEW a \in StartsAt(pc) PROVE Guest!Fetch(code[a].op)
    BY <1>2, GuestFetch DEF StartsAt
  <1>5. ASSUME pc \in ProxyPtrs PROVE ArmOf(pc) \in Guest!HostPtrs
    <2>1. ArmOf(pc) = pc
      BY <1>2, <1>5, ArmOfPtr DEF GuestPtrs
    <2>2. Guest!HostPtrs = ProxyPtrs
      BY DEF Guest!HostPtrs, GotPtrs, ProxyPtrs
    <2> QED
      BY <1>5, <2>1, <2>2
  <1>6. \/ (Guest!Fetch("ret") \/ ArmOf(pc) \in Guest!HostPtrs) /\ Depth <= 0
        \/ (Guest!Fetch("bl") \/ Guest!Fetch("blr")) /\ Depth < 0
    <2>1. CASE Depth <= 0 /\ \E a \in StartsAt(pc) : code[a].op = "ret"
      BY <1>4, <2>1
    <2>2. CASE Depth <= 0 /\ pc \in ProxyPtrs
      BY <1>5, <2>2
    <2>3. CASE Depth < 0 /\ \E a \in StartsAt(pc) : code[a].op \in {"bl", "blr"}
      BY <1>4, <2>3
    <2> QED
      BY <2>1, <2>2, <2>3 DEF ShadowBeyond, ProxyPtrs
  <1>7. StatusOf = "run" /\ StatusOf' = "lost"
    BY <1>1, <1>2, StatusMeant, StatusMeantNext DEF StatusMeaning
  <1> QED
    BY <1>3, <1>6, <1>7 DEF Guest!LosesControl

LEMMA ExecUndefStep ==
    ASSUME MachineInv, NEW a \in GuestAddrs, ExecUndef(a)
    PROVE  MachineInv' /\ Guest!Faults
  <1>1. /\ Running /\ Starts(a, pc) /\ code[a].op = "undef" /\ status' = "undef"
        /\ UNCHANGED <<code, exec_ranges, executable_map, allocvars, proxies, sites, cpuvars>>
    BY DEF ExecUndef, At
  <1>2. LinksInv /\ status = "run"
    BY <1>1, RunningFacts
  <1>3. /\ MachineInv' /\ ArmOf(pc)' = ArmOf(pc) /\ UNCHANGED GotPtrs
        /\ UNCHANGED <<code, exec_ranges, regs, stack, calls, Depth>>
    BY <1>1, EndsStep DEF Statuses
  <1>4. Guest!Fetch("undef")
    BY <1>1, <1>2, GuestFetch
  <1>5. StatusOf = "run" /\ StatusOf' = "fault"
    BY <1>1, <1>2, StatusMeant, StatusMeantNext DEF StatusMeaning
  <1> QED
    BY <1>3, <1>4, <1>5 DEF Guest!Faults

LEMMA MainReturnsStep ==
    ASSUME MachineInv, MainReturns
    PROVE  MachineInv' /\ Guest!Exits
  <1>1. /\ Running /\ pc = MainExit /\ status' = "exit"
        /\ UNCHANGED <<code, exec_ranges, executable_map, allocvars, proxies, sites, cpuvars>>
    BY DEF MainReturns
  <1>2. LinksInv /\ ProxySized /\ status = "run"
    BY <1>1, RunningFacts
  <1>3. /\ MachineInv' /\ ArmOf(pc)' = ArmOf(pc) /\ UNCHANGED GotPtrs
        /\ UNCHANGED <<code, exec_ranges, regs, stack, calls, Depth>>
    BY <1>1, EndsStep DEF Statuses
  <1>4. ArmOf(pc) = MainExit
    <2>1. MainExit \in GuestPtrs
      BY DEF Labels, GuestPtrs
    <2> QED
      BY <1>1, <1>2, <2>1, ArmOfPtr
  <1>5. StatusOf = "run" /\ StatusOf' = "exit"
    BY <1>1, <1>2, StatusMeant, StatusMeantNext DEF StatusMeaning
  <1> QED
    BY <1>3, <1>4, <1>5 DEF Guest!Exits

(* The translator faults only where the program does: at a pointer to no   *)
(* code.                                                                   *)
LEMMA SegvStep ==
    ASSUME MachineInv, Segv
    PROVE  MachineInv' /\ Guest!Faults
  <1>1. /\ Running /\ NativeCode = {} /\ status' = "segv"
        /\ UNCHANGED <<code, exec_ranges, executable_map, allocvars, proxies, sites, cpuvars>>
    BY DEF Segv
  <1>2. LinksInv /\ ProxySized /\ status = "run" /\ pc # Idle /\ PcNative
    BY <1>1, RunningFacts DEF Running, MachineInv
  <1>3. /\ MachineInv' /\ ArmOf(pc)' = ArmOf(pc) /\ UNCHANGED GotPtrs
        /\ UNCHANGED <<code, exec_ranges, regs, stack, calls, Depth>>
    BY <1>1, EndsStep DEF Statuses
  <1>4. StartsAt(pc) = {} /\ pc \notin EndSites /\ pc \notin Labels /\ pc \notin ProxyPtrs
    BY <1>1 DEF NativeCode, ProxyPtrs
  <1>5. ArmOf(pc) = pc
    BY <1>4 DEF ArmOf
  <1>6. PICK t \in GuestPtrs : NativeFor(pc, t)
    BY <1>2 DEF PcNative
  <1>7. ~(pc \in GuestAddrs /\ is_executable(pc))
    <2>1. CASE InMap(pc, t)
      BY <1>2, <1>6, <2>1, NativeNat, SizeAssumption DEF GuestAddrs
    <2>2. CASE pc = t /\ ~is_executable(t)
      BY <2>2
    <2> QED
      BY <1>6, <2>1, <2>2 DEF NativeFor
  <1>8. Guest!NoCode(ArmOf(pc))
    <2>1. Guest!HostPtrs = ProxyPtrs /\ Guest!Labels = Labels /\ Guest!Idle = Idle
      BY DEF Guest!HostPtrs, GotPtrs, ProxyPtrs, Guest!Labels, Labels, Guest!Idle, Idle
    <2>2. ~Guest!Runnable(pc)
      BY <1>7 DEF Guest!Runnable, Guest!GuestAddrs, Guest!InRange, GuestAddrs, is_executable, InRange
    <2> QED
      BY <1>2, <1>4, <1>5, <2>1, <2>2 DEF Guest!NoCode
  <1>9. StatusOf = "run" /\ StatusOf' = "fault"
    BY <1>1, <1>2, StatusMeant, StatusMeantNext DEF StatusMeaning
  <1> QED
    BY <1>3, <1>8, <1>9 DEF Guest!Faults

(* While the loader works, the guest has not run yet.                      *)
LEMMA LoadInv ==
    ASSUME LinksInv', ProxySized', CpuTypeOK, calls = 0, pc = Idle, shadow = << >>, beyond = 0,
           GuestPtrs \subseteq GuestPtrs', status' \in Statuses, UNCHANGED cpuvars
    PROVE  MachineInv'
  <1>1. /\ pc' = Idle /\ shadow' = << >> /\ beyond' = 0 /\ calls' = 0
        /\ regs' = regs /\ stack' = stack /\ calls' = calls
    BY DEF cpuvars
  <1>2. regs' \in [Regs -> GuestPtrs']
    BY <1>1 DEF CpuTypeOK
  <1>3. stack' \in Seq(GuestPtrs') /\ Len(stack') <= MaxStack
    <2>1. stack \in Seq(GuestPtrs) /\ Len(stack) <= MaxStack
      BY DEF CpuTypeOK
    <2>2. PICK T : T = GuestPtrs'
      OBVIOUS
    <2>3. stack \in Seq(T)
      BY <2>1, <2>2
    <2> QED
      BY <1>1, <2>1, <2>2, <2>3
  <1>4. shadow' \in Seq(Entry') /\ Len(shadow') = 0
    BY <1>1
  <1>5. CpuTypeOK'
    BY <1>1, <1>2, <1>3, <1>4 DEF CpuTypeOK
  <1>6. Phases' /\ PcNative'
    BY <1>1 DEF Phases, PcNative
  <1>7. ShadowNative'
    BY <1>4 DEF ShadowNative
  <1> QED
    BY <1>5, <1>6, <1>7 DEF MachineInv

LEMMA PtrTypesNext ==
    (LinksInv => GuestPtrs \subseteq Nat /\ \A t \in ProxyPtrs \cup Labels : t > GuestEnd)'
  <1>1. LinksInv => GuestPtrs \subseteq Nat /\ \A t \in ProxyPtrs \cup Labels : t > GuestEnd
    BY PtrTypes
  <1> QED
    BY <1>1, PTL

LEMMA LoadStep ==
    ASSUME MachineInv, Load
    PROVE  MachineInv' /\ [Guest!GNext]_(Guest!gvars)
  <1>1. /\ LinksInv /\ ProxySized /\ CpuTypeOK
        /\ status = "run" /\ calls = 0 /\ pc = Idle /\ shadow = << >> /\ beyond = 0
        /\ UNCHANGED cpuvars
    BY DEF MachineInv, Load, Phases
  <1>2. /\ pc' = pc /\ regs' = regs /\ stack' = stack /\ calls' = calls
        /\ UNCHANGED Depth
    BY <1>1 DEF cpuvars, Depth
  <1>3. StatusOf = "run"
    BY <1>1, StatusMeant DEF StatusMeaning
  <1>4. ArmOf(Idle) = Idle
    BY <1>1, ArmOfPtr
  <1>5. LinksInv' /\ ProxySized' => ArmOf(pc)' = ArmOf(pc)
    <2>1. LinksInv' /\ ProxySized' => ArmOf(Idle)' = Idle
      BY IdleNext
    <2>2. pc' = Idle
      BY <1>1, <1>2
    <2>3. ArmOf(pc)' = ArmOf(Idle)'
      BY <2>2 DEF ArmOf, StartsAt, Starts, Idle
    <2>4. ArmOf(pc) = Idle
      BY <1>1, <1>4
    <2> QED
      BY <2>1, <2>3, <2>4
  <1>6. ASSUME NEW r \in Ranges \ exec_ranges, DefineExecRange(r)
        PROVE  MachineInv' /\ Guest!MapSegment(r)
    <2>1. [PoolNext]_poolvars
      BY <1>1, <1>6 DEF PoolNext
    <2>2. /\ UNCHANGED <<code, proxies, status>> /\ exec_ranges' = exec_ranges \cup {r}
      BY <1>6 DEF DefineExecRange
    <2>3. LinksInv' /\ ProxySized' /\ status' = "run" /\ GuestPtrs' = GuestPtrs
      BY <1>1, <2>1, <2>2, LinksNext DEF ProxySized, GuestPtrs, ProxyPtrs
    <2>4. MachineInv'
      BY <1>1, <2>3, LoadInv DEF Statuses
    <2>5. StatusOf' = "run" /\ UNCHANGED GotPtrs
      BY <2>2, <2>3, StatusMeantNext DEF StatusMeaning, GotPtrs
    <2>6. Guest!MapSegment(r)
      BY <1>1, <1>2, <1>3, <1>5, <1>6, <2>2, <2>3, <2>5 DEF Guest!MapSegment
    <2> QED
      BY <2>4, <2>6
  <1>7. ASSUME exec_ranges = Ranges, NEW f \in HostFns \ DOMAIN proxies, AllocCode(f)
        PROVE  MachineInv' /\ (Guest!BindImport \/ Guest!Crashes)
    <2>1. [PoolNext]_poolvars
      BY <1>1, <1>7 DEF PoolNext
    <2>2. LinksInv'
      BY <1>1, <2>1, LinksNext
    <2>3. CASE MmapFails(ProxyLen)
      <3>1. /\ UNCHANGED <<code, exec_ranges, proxies>> /\ status' = "abort"
        BY <1>7, <2>3 DEF AllocCode, MmapFails, GiveUp
      <3>2. ProxySized' /\ GuestPtrs' = GuestPtrs
        BY <1>1, <3>1 DEF ProxySized, GuestPtrs, ProxyPtrs
      <3>3. MachineInv'
        BY <1>1, <2>2, <3>1, <3>2, LoadInv DEF Statuses
      <3> QED
        BY <1>1, <3>1, <3>3, GuestCrashes
    <2>4. CASE \E addr \in Targets(ProxyLen) :
                  /\ FinalizeAss(ProxyLen, addr)
                  /\ proxies' = Extend(proxies, [x \in {f} |-> [addr |-> addr, len |-> ProxyLen]])
                  /\ UNCHANGED <<exec_ranges, executable_map, sites, status>>
      <3>1. PICK addr \in Targets(ProxyLen) :
               proxies' = Extend(proxies, [x \in {f} |-> [addr |-> addr, len |-> ProxyLen]])
        BY <2>4
      <3> DEFINE g == [x \in {f} |-> [addr |-> addr, len |-> ProxyLen]]
      <3>2. DOMAIN g = {f} /\ g[f].addr = addr /\ g[f].len = ProxyLen
        OBVIOUS
      <3> HIDE DEF g
      <3>3. /\ DOMAIN proxies' = DOMAIN proxies \cup {f}
            /\ proxies'[f] = g[f]
            /\ \A x \in DOMAIN proxies : proxies'[x] = proxies[x]
        <4>1. proxies' = Extend(proxies, g)
          BY <3>1 DEF g
        <4>2. f \notin DOMAIN proxies
          BY <1>7
        <4>3. \A x \in DOMAIN proxies : x \in DOMAIN proxies \ DOMAIN g
          BY <3>2, <4>2
        <4>4. /\ DOMAIN Extend(proxies, g) = DOMAIN proxies \cup DOMAIN g
              /\ \A x \in DOMAIN g : Extend(proxies, g)[x] = g[x]
              /\ \A x \in DOMAIN proxies \ DOMAIN g : Extend(proxies, g)[x] = proxies[x]
          BY ExtendFacts
        <4> QED
          BY <3>2, <4>1, <4>3, <4>4
      <3>4. UNCHANGED <<code, exec_ranges, status>>
        BY <1>7, <2>4 DEF AllocCode
      <3>5. ProxySized'
        BY <1>1, <3>2, <3>3 DEF ProxySized
      <3>6. GuestPtrs \subseteq GuestPtrs'
        BY <3>3 DEF GuestPtrs, ProxyPtrs
      <3>7. MachineInv'
        BY <1>1, <2>2, <3>4, <3>5, <3>6, LoadInv DEF Statuses
      <3>8. StatusOf' = "run"
        BY <1>1, <3>4, StatusMeantNext DEF StatusMeaning
      <3>9. /\ DOMAIN GotPtrs # DOMAIN GotPtrs'
            /\ \A x \in DOMAIN GotPtrs : x \in DOMAIN GotPtrs' /\ GotPtrs'[x] = GotPtrs[x]
        BY <1>7, <3>3 DEF GotPtrs
      <3>10. \A x \in DOMAIN GotPtrs' : GotPtrs'[x] \notin Guest!GuestAddrs
        <4>1. ASSUME NEW x \in DOMAIN proxies' PROVE GotPtrs'[x] \in Nat /\ GotPtrs'[x] > GuestEnd
          BY <2>2, PtrTypesNext DEF GotPtrs, GuestPtrs, ProxyPtrs
        <4>2. DOMAIN GotPtrs' = DOMAIN proxies'
          BY DEF GotPtrs
        <4> QED
          BY <4>1, <4>2, SizeAssumption DEF Guest!GuestAddrs
      <3>11. Guest!BindImport
        BY <1>1, <1>2, <1>3, <1>5, <2>2, <3>4, <3>5, <3>8, <3>9, <3>10 DEF Guest!BindImport
      <3> QED
        BY <3>7, <3>11
    <2> QED
      BY <1>7, <2>3, <2>4 DEF AllocCode
  <1>8. CASE \E r \in Ranges \ exec_ranges : DefineExecRange(r)
    BY <1>6, <1>8 DEF Guest!GNext
  <1>9. CASE exec_ranges = Ranges /\ \E f \in HostFns \ DOMAIN proxies : AllocCode(f)
    BY <1>7, <1>9 DEF Guest!GNext
  <1> QED
    BY <1>8, <1>9 DEF Load

LEMMA StutterStep ==
    ASSUME MachineInv, UNCHANGED vars
    PROVE  MachineInv' /\ UNCHANGED Guest!gvars
  <1>1. /\ UNCHANGED <<code, exec_ranges, executable_map, allocvars, proxies, sites, cpuvars>>
        /\ status' = status /\ status' \in Statuses
    BY DEF vars, poolvars, MachineInv, CpuTypeOK
  <1>2. /\ MachineInv' /\ ArmOf(pc)' = ArmOf(pc) /\ UNCHANGED GotPtrs
        /\ UNCHANGED <<code, exec_ranges, proxies, regs, stack, calls, Depth>>
    BY <1>1, EndsStep
  <1>3. UNCHANGED StatusOf
    BY <1>1 DEF StatusOf
  <1> QED
    BY <1>2, <1>3 DEF Guest!gvars

LEMMA MachineNext ==
    ASSUME MachineInv, [Next]_vars
    PROVE  MachineInv' /\ (Conventional => [Guest!GNext]_(Guest!gvars))
  <1>1. CASE UNCHANGED vars
    BY <1>1, StutterStep
  <1>2. CASE Load
    BY <1>2, LoadStep
  <1>3. CASE \E e \in Entries : CallGuest(e)
    BY <1>3, CallGuestStep DEF GuestMay, Guest!GNext
  <1>4. ASSUME NEW a \in GuestAddrs,
               \/ ExecData(a) \/ ExecB(a) \/ ExecBCond(a) \/ ExecBL(a)
               \/ ExecBR(a) \/ ExecBLR(a) \/ ExecRET(a) \/ ExecUndef(a)
        PROVE  MachineInv' /\ (Conventional => Guest!GNext)
    <2>1. CASE ExecData(a)
      BY <2>1, ExecDataStep DEF GuestMay, Guest!GNext, Guest!GuestStep
    <2>2. CASE ExecB(a)
      BY <2>2, ExecBStep DEF GuestMay, Guest!GNext, Guest!GuestStep
    <2>3. CASE ExecBCond(a)
      BY <2>3, ExecBCondStep DEF GuestMay, Guest!GNext, Guest!GuestStep
    <2>4. CASE ExecBL(a)
      BY <2>4, ExecBLStep DEF GuestMay, Guest!GNext, Guest!GuestStep
    <2>5. CASE ExecBR(a)
      BY <2>5, ExecBRStep DEF GuestMay, Guest!GNext, Guest!GuestStep
    <2>6. CASE ExecBLR(a)
      BY <2>6, ExecBLRStep DEF GuestMay, Guest!GNext, Guest!GuestStep
    <2>7. CASE ExecRET(a)
      BY <2>7, ExecRETStep DEF GuestMay, Guest!GNext, Guest!GuestStep
    <2>8. CASE ExecUndef(a)
      BY <2>8, ExecUndefStep DEF Guest!GNext, Guest!GuestStep
    <2> QED
      BY <1>4, <2>1, <2>2, <2>3, <2>4, <2>5, <2>6, <2>7, <2>8
  <1>5. CASE ExecEnd
    BY <1>5, ExecEndStep DEF GuestMay, Guest!GNext
  <1>6. CASE HostCall
    BY <1>6, HostCallStep DEF GuestMay, Guest!GNext, Guest!GuestStep
  <1>7. CASE LibcStartMain
    BY <1>7, LibcStartMainStep DEF GuestMay, Guest!GNext, Guest!GuestStep
  <1>8. CASE CallReturns
    BY <1>8, CallReturnsStep DEF Guest!GNext, Guest!GuestStep
  <1>9. CASE MainReturns
    BY <1>9, MainReturnsStep DEF Guest!GNext, Guest!GuestStep
  <1>10. CASE Segv
    BY <1>10, SegvStep DEF Guest!GNext, Guest!GuestStep
  <1>11. CASE ShadowFull \/ StackFull
    BY <1>11, ExhaustedStep DEF Guest!GNext
  <1>14. CASE ShadowBeyond
    BY <1>14, BeyondStep DEF Guest!GNext
  <1>12. CASE Step
    BY <1>4, <1>5, <1>6, <1>7, <1>8, <1>9, <1>10, <1>11, <1>12, <1>14 DEF Step
  <1>13. CASE Stopped
    BY <1>1, <1>13 DEF Stopped
  <1> QED
    BY <1>1, <1>2, <1>3, <1>12, <1>13 DEF Next

LEMMA MachineInit == Init => MachineInv
  <1> SUFFICES ASSUME Init PROVE MachineInv
    OBVIOUS
  <1>1. /\ PoolInit /\ pc = Idle /\ regs = [r \in Regs |-> GuestEnd]
        /\ stack = << >> /\ shadow = << >> /\ beyond = 0 /\ calls = 0
    BY DEF Init
  <1>2. LinksInv
    BY <1>1, LinksInit
  <1>3. ProxySized
    BY <1>1 DEF PoolInit, ProxySized
  <1>4. GuestEnd \in GuestPtrs /\ status \in Statuses
    BY <1>1, SizeAssumption DEF GuestPtrs, PoolInit, Statuses
  <1>5. CpuTypeOK
    <2>1. << >> \in Seq(GuestPtrs) /\ << >> \in Seq(Entry) /\ Len(<< >>) = 0
      OBVIOUS
    <2>2. MaxStack \in Nat /\ MaxCalls \in Nat
      BY BoundAssumption
    <2> QED
      BY <1>1, <1>4, <2>1, <2>2 DEF CpuTypeOK
  <1>6. Phases /\ PcNative
    BY <1>1 DEF Phases, PcNative
  <1>7. ShadowNative
    BY <1>1 DEF ShadowNative
  <1> QED
    BY <1>2, <1>3, <1>5, <1>6, <1>7 DEF MachineInv

LEMMA GuestInit == Init => Guest!GInit
  <1> SUFFICES ASSUME Init PROVE Guest!GInit
    OBVIOUS
  <1>1. LinksInv /\ ProxySized
    BY MachineInit DEF MachineInv
  <1>2. ArmOf(pc) = Guest!Idle
    <2>1. ArmOf(Idle) = Idle
      BY <1>1, ArmOfPtr
    <2> QED
      BY <2>1 DEF Init, Idle, Guest!Idle
  <1>3. StatusOf = "run"
    BY StatusMeant DEF Init, PoolInit, StatusMeaning
  <1>4. GotPtrs = << >>
    BY DEF Init, PoolInit, GotPtrs
  <1>5. Depth = 0
    BY DEF Init, Depth
  <1> QED
    BY <1>2, <1>3, <1>4, <1>5 DEF Init, PoolInit, Guest!GInit, Guest!Regs, Regs

(* What the machine asks of the pool is what the pool's specification      *)
(* allows; any other step leaves the pool alone, and at most ends the      *)
(* process for a reason of its own.                                        *)
PoolStep ==
    \/ [PoolNext]_poolvars
    \/ /\ UNCHANGED <<code, exec_ranges, executable_map, allocvars, proxies, sites>>
       /\ status' \in {"overflow", "lost", "undef", "exit", "segv"}

LEMMA PoolStepOf ==
    ASSUME MachineInv, [Next]_vars
    PROVE  PoolStep
  <1>1. ASSUME NEW t, Arrives(t) PROVE PoolStep
    BY <1>1 DEF Arrives, Translates, PoolStep
  <1>2. ASSUME UNCHANGED poolvars PROVE PoolStep
    BY <1>2 DEF PoolStep
  <1>3. CASE UNCHANGED vars \/ Stopped
    <2>1. UNCHANGED poolvars
      BY <1>3 DEF vars, Stopped
    <2> QED
      BY <1>2, <2>1
  <1>4. CASE Load
    <2>1. [PoolNext]_poolvars
      BY <1>4 DEF Load, PoolNext
    <2> QED
      BY <2>1 DEF PoolStep
  <1>5. ASSUME NEW e \in Entries, CallGuest(e) PROVE PoolStep
    <2>1. LinksInv /\ Loaded /\ status = "run" /\ GetExec(e, Null)
      BY <1>5 DEF MachineInv, CallGuest
    <2>2. e \in Nat
      BY BoundAssumption, SizeAssumption DEF GuestAddrs
    <2>3. [PoolNext]_poolvars
      BY <2>1, <2>2, LookupStep
    <2> QED
      BY <2>3 DEF PoolStep
  <1>6. ASSUME Running, NEW t \in GuestPtrs, IndirectJump(t) PROVE PoolStep
    <2>1. Arrives(t)
      BY <1>6, RunningFacts, PtrTypes, IndirectArrives
    <2> QED
      BY <1>1, <2>1
  <1>7. ASSUME Running, NEW a \in GuestAddrs, Starts(a, pc), code[a].op \in DirectOps, TakeJump(a)
        PROVE  PoolStep
    <2>1. Arrives(code[a].to)
      BY <1>7, RunningFacts, DirectArrives
    <2> QED
      BY <1>1, <2>1
  <1>8. ASSUME Running, ReturnSequence PROVE PoolStep
    <2>1. regs["x30"] \in GuestPtrs
      BY <1>8, RunningFacts DEF Regs
    <2> QED
      BY <1>2, <1>6, <1>8, <2>1 DEF ReturnSequence
  <1>9. ASSUME NEW a \in GuestAddrs,
               \/ ExecData(a) \/ ExecB(a) \/ ExecBCond(a) \/ ExecBL(a)
               \/ ExecBR(a) \/ ExecBLR(a) \/ ExecRET(a) \/ ExecUndef(a)
        PROVE  PoolStep
    <2>1. CASE ExecData(a)
      BY <1>2, <2>1 DEF ExecData
    <2>2. CASE ExecB(a) \/ ExecBCond(a) \/ ExecBL(a)
      <3>1. /\ Running /\ Starts(a, pc) /\ code[a].op \in DirectOps
            /\ TakeJump(a) \/ UNCHANGED poolvars
        BY <2>2 DEF ExecB, ExecBCond, ExecBL, At, DirectOps
      <3> QED
        BY <1>2, <1>7, <3>1
    <2>3. CASE ExecBR(a)
      <3>1. Running /\ code[a].op = "br" /\ IndirectJump(regs[code[a].reg])
        BY <2>3 DEF ExecBR, At
      <3>2. regs[code[a].reg] \in GuestPtrs
        BY <3>1, RunningFacts DEF IndirectOps
      <3> QED
        BY <1>6, <3>1, <3>2
    <2>4. CASE ExecBLR(a)
      <3>1. /\ Running /\ code[a].op = "blr" /\ Starts(a, pc)
            /\ regs' = [regs EXCEPT !["x30"] = a + 1] /\ PushShadowStack(a + 1, After(a))
            /\ IndirectJump(regs'[code[a].reg])
        BY <2>4 DEF ExecBLR, At
      <3>2. regs' \in [Regs -> GuestPtrs] /\ code[a].reg \in Regs
        BY <3>1, CallPushes, RunningFacts DEF IndirectOps
      <3>3. PICK t \in GuestPtrs : t = regs'[code[a].reg]
        BY <3>2
      <3> QED
        BY <1>6, <3>1, <3>3
    <2>5. CASE ExecRET(a)
      BY <1>8, <2>5 DEF ExecRET, At
    <2>6. CASE ExecUndef(a)
      BY <2>6 DEF ExecUndef, PoolStep
    <2> QED
      BY <1>9, <2>1, <2>2, <2>3, <2>4, <2>5, <2>6
  <1>10. CASE ExecEnd
    <2>1. /\ Running /\ pc \in EndSites
          /\ IF sites[pc].kind = "jmp"
               THEN UNCHANGED poolvars /\ pc' = sites[pc].to
               ELSE EndOfChunk(pc) /\ GoTo(sites'[pc].to)
      BY <1>10 DEF ExecEnd
    <2>2. \E t \in 0 .. GuestEnd : Arrives(t)
      BY <2>1, RunningFacts, EndArrives
    <2> QED
      BY <1>1, <2>2
  <1>11. CASE HostCall
    BY <1>8, <1>11 DEF HostCall
  <1>12. CASE LibcStartMain
    <2>1. /\ Running /\ \E m \in Mains : GetExec(m, Null)
      BY <1>12 DEF LibcStartMain
    <2>2. PICK m \in Mains : GetExec(m, Null)
      BY <2>1
    <2>3. m \in Nat
      BY BoundAssumption, SizeAssumption DEF GuestAddrs
    <2>4. [PoolNext]_poolvars
      BY <2>1, <2>2, <2>3, RunningFacts, LookupStep
    <2> QED
      BY <2>4 DEF PoolStep
  <1>13. CASE CallReturns
    BY <1>2, <1>13 DEF CallReturns
  <1>14. CASE MainReturns \/ Segv \/ ShadowFull \/ ShadowBeyond \/ StackFull
    BY <1>14 DEF MainReturns, Segv, ShadowFull, ShadowBeyond, StackFull, PoolStep
  <1>15. CASE Step
    BY <1>9, <1>10, <1>11, <1>12, <1>13, <1>14, <1>15 DEF Step
  <1> QED
    BY <1>3, <1>4, <1>5, <1>15 DEF Next

LEMMA CodeStays ==
    ASSUME PoolStep
    PROVE  code' = code
  <1>1. CASE PoolNext
    BY <1>1 DEF PoolNext, DefineExecRange, AllocCode, GetExec, RewriteBranch, EndOfChunk, Panic
  <1> QED
    BY <1>1 DEF PoolStep, poolvars

LEMMA PoolStepSafe ==
    ASSUME MachineInv, PoolStep
    PROVE  [KeepsTranslation]_poolvars
  <1>1. CASE [PoolNext]_poolvars
    BY <1>1, SitesNext DEF MachineInv, LinksInv
  <1>2. CASE /\ UNCHANGED <<code, exec_ranges, executable_map, allocvars, proxies, sites>>
             /\ status' \in {"overflow", "lost", "undef", "exit", "segv"}
    BY <1>2 DEF KeepsTranslation
  <1> QED
    BY <1>1, <1>2 DEF PoolStep

(* A native address is the start of some code of the translation, or else  *)
(* a pointer that the guest had.                                           *)
LEMMA PointersFollow == MachineInv => PointersApart
  <1> SUFFICES ASSUME MachineInv PROVE PointersApart
    OBVIOUS
  <1>1. LinksInv /\ ProxySized /\ CpuTypeOK /\ PcNative
    BY DEF MachineInv
  <1>2. GuestPointers = GuestPtrs
    BY DEF GuestPointers, GuestPtrs, ProxyPtrs
  <1>3. \A r \in Regs : regs[r] \in GuestPointers
    BY <1>1, <1>2 DEF CpuTypeOK
  <1>4. \A i \in 1 .. Len(stack) : stack[i] \in GuestPointers
    <2>1. stack \in Seq(GuestPtrs)
      BY <1>1 DEF CpuTypeOK
    <2> QED
      BY <1>2, <2>1, ElementOfSeq
  <1>5. \A i \in 1 .. Len(shadow) : shadow[i].arm \in GuestPointers
    <2>1. shadow \in Seq(Entry)
      BY <1>1 DEF CpuTypeOK
    <2>2. \A i \in 1 .. Len(shadow) : shadow[i] \in Entry
      BY <2>1, ElementOfSeq
    <2> QED
      BY <1>2, <2>2 DEF Entry
  <1>6. ASSUME Running, NativeCode = {} PROVE pc \in GuestPointers
    <2>1. PICK u \in GuestPtrs : NativeFor(pc, u)
      BY <1>1, <1>6 DEF PcNative, Running
    <2>2. StartsAt(pc) = {} /\ pc \notin EndSites
      BY <1>6 DEF NativeCode
    <2>3. ArmOf(pc) = pc /\ ArmOf(pc) = LandAt(u)
      BY <1>1, <2>1, <2>2, NativeArm DEF ArmOf
    <2>4. CASE u \in GuestAddrs
      <3>1. exec_ranges \subseteq Ranges
        BY <1>1 DEF LinksInv, SitesInv, IInv, PoolDataOK
      <3>2. LandAt(u) \in 0 .. GuestEnd
        BY <2>4, <3>1, LandExists, SizeAssumption DEF GuestAddrs
      <3> QED
        BY <1>2, <2>3, <3>2, ImagePtr
    <2>5. CASE u \notin GuestAddrs
      <3>1. LandAt(u) = u
        BY <2>5 DEF LandAt, Land
      <3> QED
        BY <1>2, <2>1, <2>3, <3>1
    <2> QED
      BY <2>4, <2>5
  <1> QED
    BY <1>3, <1>4, <1>5, <1>6 DEF PointersApart

LEMMA CoherenceFollows == MachineInv => ShadowCoherent
  <1> SUFFICES ASSUME MachineInv, NEW i \in 1 .. Len(shadow)
               PROVE  ArmOf(shadow[i].native) = LandAt(shadow[i].arm)
    BY DEF ShadowCoherent, LandAt
  <1>1. LinksInv /\ ProxySized /\ shadow \in Seq(Entry) /\ NativeFor(shadow[i].native, shadow[i].arm)
    BY DEF MachineInv, CpuTypeOK, ShadowNative
  <1>2. shadow[i] \in Entry
    BY <1>1
  <1>3. shadow[i].arm \in GuestPtrs
    BY <1>2 DEF Entry
  <1> QED
    BY <1>1, <1>3, NativeArm

------------------------------------------------------------------------------
(* Programs that follow the calling convention                             *)

Returned == {ExitLabel, MainExit}
Frame    == CHOOSE frame \in [0 .. GuestEnd -> FrameKinds] : Convention(code, frame)

(* What a function pointer may be: a place where a function is entered.    *)
Callable == {t \in 0 .. GuestEnd : t = GuestEnd \/ Frame[t] = "bare"} \cup {StartMain} \cup ProxyPtrs

(* The oldest entry of shadow stack sh is the host's; each other belongs   *)
(* to a call made by a function that had saved its return address, the     *)
(* oldest of them perhaps to one made by _start.                           *)
Callers(sh) ==
    /\ sh # << >> => sh[Len(sh)].arm \in Returned
    /\ \A k \in 1 .. Len(sh) - 1 :
          /\ sh[k].arm \in 0 .. GuestEnd
          /\ Frame[sh[k].arm] = "saved" \/ (Frame[sh[k].arm] = "start" /\ k = Len(sh) - 1)

(* The return addresses held, newest first, are those of sh, but for that  *)
(* of _start, which is lost.                                               *)
Keeps(held, sh) ==
    \A k \in 1 .. Len(sh) : (k = 1 \/ Frame[sh[k - 1].arm] = "saved") => k <= Len(held) /\ held[k] = sh[k].arm

(* A function whose return address is where kind says runs, with lr in     *)
(* x30, machine stack st and shadow stack sh.                              *)
Activation(kind, lr, st, sh) ==
    /\ sh # << >>
    /\ kind = "bare" => Keeps(<<lr>> \o st, sh)
    /\ kind = "saved" => Keeps(st, sh)
    /\ kind = "start" => Len(sh) = 1

(* What holds where control is at guest pointer t.                         *)
Ready(t, lr, st, sh) ==
    \/ t \in Returned /\ sh = << >>
    \/ t \in {StartMain} \cup ProxyPtrs /\ Activation("bare", lr, st, sh)
    \/ t \in GuestAddrs /\ Activation(Frame[t], lr, st, sh)
    \/ t = GuestEnd /\ \E kind \in FrameKinds : Activation(kind, lr, st, sh)

ConventionInv ==
    /\ status # "lost"
    /\ (status # "run" /\ pc \in Returned) => shadow = << >>
    /\ status = "run" =>
          /\ regs["x17"] \in Callable /\ Callers(shadow) /\ beyond = 0
          /\ pc = Idle => shadow = << >>
          /\ pc # Idle => Ready(ArmOf(pc), regs["x30"], stack, shadow)

LEMMA FrameIs ==
    ASSUME FollowsConvention
    PROVE  Convention(code, Frame)
  BY Zenon DEF FollowsConvention, Frame

LEMMA FrameStays ==
    ASSUME code' = code
    PROVE  Frame' = Frame /\ (FollowsConvention => FollowsConvention')
  BY DEF Frame, FollowsConvention, Convention

(* What the rules say of one instruction.                                  *)
LEMMA FrameRules ==
    ASSUME FollowsConvention, NEW a \in GuestAddrs
    PROVE  /\ a + 1 \in 0 .. GuestEnd /\ a \in 0 .. GuestEnd
           /\ Frame[a] \in FrameKinds /\ Frame[a + 1] \in FrameKinds
           /\ code[a].op \in {"nop", "op", "stop", "adr", "got", "b_cond", "bl", "blr"} => Frame[a + 1] = Frame[a]
           /\ code[a].op = "push" => Frame[a] = "bare" /\ Frame[a + 1] = "saved"
           /\ code[a].op = "pop" => Frame[a] = "saved" /\ Frame[a + 1] = "bare"
           /\ code[a].op \in {"b", "b_cond"} => Frame[code[a].to] = Frame[a]
           /\ code[a].op \in {"bl", "adr"} => Frame[code[a].to] = "bare"
           /\ code[a].op \in {"bl", "blr"} => Frame[a] \in {"saved", "start"}
           /\ code[a].op \in {"br", "ret"} => Frame[a] = "bare"
           /\ code[a].op \in {"br", "blr"} => code[a].reg # "x30"
           /\ code[a].op = "ret" => code[a].reg = "x30"
  <1>1. Convention(code, Frame)
    BY FrameIs
  <1>2. a \in 0 .. GuestEnd /\ a + 1 \in 0 .. GuestEnd
    BY SizeAssumption DEF GuestAddrs
  <1>3. Frame \in [0 .. GuestEnd -> FrameKinds]
    BY <1>1 DEF Convention
  <1>4. Frame[a] \in FrameKinds /\ Frame[a + 1] \in FrameKinds
    BY <1>2, <1>3
  <1> HIDE DEF Frame
  <1> QED
    BY <1>1, <1>2, <1>4 DEF Convention, FrameKinds

(* Code that emits nothing leaves the return address where it is.          *)
LEMMA FramePassed ==
    ASSUME FollowsConvention, exec_ranges \subseteq Ranges,
           NEW t \in GuestAddrs, NEW u \in t .. GuestEnd,
           \A b \in t .. u - 1 : Passed(b)
    PROVE  Frame[u] = Frame[t]
  <1> DEFINE S == {x \in t .. u : Frame[x] # Frame[t]}
  <1>1. t \in Nat /\ u \in Nat /\ GuestEnd \in Nat /\ t < GuestEnd /\ t <= u /\ u <= GuestEnd
    BY SizeAssumption DEF GuestAddrs
  <1>2. ASSUME S # {} PROVE FALSE
    <2>1. S \subseteq Nat
      BY <1>1
    <2>2. PICK x \in S : \A y \in S : x <= y
      BY <1>2, <2>1, LeastNumber
    <2>3. x \in Nat /\ t < x /\ x <= u /\ Frame[x] # Frame[t]
      BY <1>1, <2>2
    <2>4. PICK b \in t .. u - 1 : b + 1 = x
      <3>1. x - 1 \in t .. u - 1 /\ x - 1 + 1 = x
        BY <1>1, <2>3
      <3> QED
        BY <3>1
    <2>5. b \in GuestAddrs /\ b \in t .. u /\ b < x
      BY <1>1, <2>4 DEF GuestAddrs
    <2>6. Frame[b] = Frame[t]
      BY <1>1, <2>2, <2>5
    <2>7. code[b].op = "nop"
      BY <2>4 DEF Passed, Stops
    <2>8. Frame[b + 1] = Frame[b]
      BY <2>5, <2>7, FrameRules
    <2> QED
      BY <2>3, <2>4, <2>6, <2>8
  <1>3. u \in t .. u
    BY <1>1
  <1> QED
    BY <1>2, <1>3

(* Host code is not part of the guest's image.                             *)
LEMMA HostApart ==
    ASSUME LinksInv, NEW t \in Labels \cup ProxyPtrs
    PROVE  t \in Nat /\ t > GuestEnd /\ t \notin GuestAddrs /\ t # GuestEnd /\ ~is_executable(t)
  <1>1. t \in Nat /\ t > GuestEnd
    BY PtrTypes DEF GuestPtrs
  <1>2. exec_ranges \subseteq Ranges
    BY DEF LinksInv, SitesInv, IInv, PoolDataOK
  <1>3. t \notin GuestAddrs /\ t # GuestEnd
    BY <1>1, SizeAssumption DEF GuestAddrs
  <1>4. ~is_executable(t)
    BY <1>1, <1>2, <1>3, ExecutableFacts
  <1> QED
    BY <1>1, <1>3, <1>4

(* The addresses a call comes back to are no library function's.           *)
LEMMA ReturnedApart ==
    ASSUME LinksInv, ProxySized
    PROVE  Returned \cap ({StartMain} \cup ProxyPtrs) = {}
  <1> SUFFICES ASSUME NEW l \in Returned, l \in ProxyPtrs PROVE FALSE
    BY LabelAssumption DEF Returned
  <1>1. PICK f \in DOMAIN proxies : l = proxies[f].addr
    BY DEF ProxyPtrs
  <1>2. IInv /\ PoolDataOK /\ BlocksInRegions
    BY DEF LinksInv, SitesInv, IInv
  <1>3. HostFns \cap Chunks = {}
    BY ChunkFacts, LabelAssumption
  <1>4. f \in Owners /\ BlockOf(f) = proxies[f]
    BY <1>2, <1>3 DEF BlockOf, PoolDataOK, Owners
  <1>5. PICK base \in Regions : /\ base <= BlockOf(f).addr
                                /\ BlockOf(f).addr + BlockOf(f).len <= base + AllocSize
    BY <1>2, <1>4 DEF BlocksInRegions
  <1>6. base \in MmapBases
    BY <1>2, <1>5 DEF Regions, PoolDataOK
  <1>7. l \in Labels /\ l \in Nat
    BY LabelAssumption DEF Labels, Returned
  <1>8. base \in Nat /\ AllocSize \in Nat /\ ~(base <= l /\ l < base + AllocSize)
    BY <1>6, <1>7, MmapAssumption
  <1>9. proxies[f].len = ProxyLen /\ ProxyLen \in Nat \ {0}
    BY ProxyAssumption DEF ProxySized
  <1> QED
    BY <1>1, <1>4, <1>5, <1>7, <1>8, <1>9

LEMMA ReadyLands ==
    ASSUME LinksInv, FollowsConvention, NEW t, NEW lr, NEW st, NEW sh, Ready(t, lr, st, sh)
    PROVE  Ready(LandAt(t), lr, st, sh)
  <1>1. exec_ranges \subseteq Ranges
    BY DEF LinksInv, SitesInv, IInv, PoolDataOK
  <1>2. CASE t \in Returned \cup {StartMain} \cup ProxyPtrs
    <2>1. t \in Labels \cup ProxyPtrs
      BY <1>2 DEF Returned, Labels
    <2>2. LandAt(t) = t
      BY <2>1, HostApart, NotExecutable
    <2> QED
      BY <2>2
  <1>3. CASE t \in GuestAddrs
    <2>1. Activation(Frame[t], lr, st, sh)
      <3>1. ASSUME NEW l \in Labels \cup ProxyPtrs PROVE l # t
        BY <1>3, HostApart
      <3>2. t \notin Returned /\ t \notin {StartMain} \cup ProxyPtrs
        BY <3>1 DEF Returned, Labels
      <3>3. t # GuestEnd
        BY <1>3, SizeAssumption DEF GuestAddrs
      <3> QED
        BY <3>2, <3>3 DEF Ready
    <2>2. PICK u \in t .. GuestEnd : u = LandAt(t) /\ \A b \in t .. u - 1 : Passed(b)
      BY <1>1, <1>3, LandExists
    <2>3. Frame[u] = Frame[t]
      BY <1>1, <1>3, <2>2, FramePassed
    <2>4. u \in GuestAddrs \/ u = GuestEnd
      BY <1>3, SizeAssumption DEF GuestAddrs
    <2>5. Frame[t] \in FrameKinds
      BY <1>3, FrameRules
    <2> QED
      BY <2>1, <2>2, <2>3, <2>4, <2>5 DEF Ready
  <1>4. CASE t = GuestEnd
    <2>1. LandAt(t) = t
      BY <1>1, <1>4, EndStops, LandStop
    <2> QED
      BY <2>1
  <1> QED
    BY <1>2, <1>3, <1>4 DEF Ready

(* One element put before a sequence.                                      *)
LEMMA Prepend ==
    ASSUME NEW T, NEW s \in Seq(T), NEW x \in T
    PROVE  /\ <<x>> \o s \in Seq(T) /\ Len(<<x>> \o s) = Len(s) + 1 /\ Len(s) \in Nat
           /\ (<<x>> \o s)[1] = x
           /\ \A k \in 2 .. Len(s) + 1 : k - 1 \in 1 .. Len(s) /\ (<<x>> \o s)[k] = s[k - 1]
  <1>1. <<x>> \in Seq(T) /\ Len(<<x>>) = 1 /\ <<x>>[1] = x
    OBVIOUS
  <1>2. /\ <<x>> \o s \in Seq(T) /\ Len(<<x>> \o s) = 1 + Len(s)
        /\ \A k \in 1 .. 1 + Len(s) : (<<x>> \o s)[k] = IF k <= 1 THEN <<x>>[k] ELSE s[k - 1]
    BY <1>1, ConcatProperties
  <1>3. Len(s) \in Nat
    BY LenProperties
  <1> DEFINE q == <<x>> \o s
             o == <<x>>
  <1>4. q \in Seq(T) /\ Len(q) = 1 + Len(s) /\ o[1] = x
        /\ \A k \in 1 .. 1 + Len(s) : q[k] = IF k <= 1 THEN o[k] ELSE s[k - 1]
    BY <1>1, <1>2
  <1> HIDE DEF q, o
  <1>5. Len(q) = Len(s) + 1 /\ q[1] = x
    BY <1>3, <1>4
  <1>6. \A k \in 2 .. Len(s) + 1 : k - 1 \in 1 .. Len(s) /\ q[k] = s[k - 1]
    BY <1>3, <1>4
  <1> QED
    BY <1>3, <1>4, <1>5, <1>6 DEF q

LEMMA SeqParts ==
    ASSUME NEW T, NEW s \in Seq(T), s # << >>
    PROVE  /\ Len(s) \in Nat \ {0} /\ Head(s) = s[1] /\ Head(s) \in T
           /\ Tail(s) \in Seq(T) /\ Len(Tail(s)) = Len(s) - 1
           /\ \A k \in 1 .. Len(s) - 1 : Tail(s)[k] = s[k + 1]
           /\ Tail(s) = << >> <=> Len(s) = 1
           /\ <<Head(s)>> \o Tail(s) = s
  <1>1. /\ Len(s) \in Nat \ {0} /\ Head(s) = s[1] /\ Head(s) \in T
        /\ Tail(s) \in Seq(T) /\ Len(Tail(s)) = Len(s) - 1
        /\ \A k \in 1 .. Len(s) - 1 : Tail(s)[k] = s[k + 1]
    BY EmptySeq, HeadTailProperties
  <1>2. Tail(s) = << >> <=> Len(s) = 1
    <2> DEFINE r == Tail(s)
    <2>1. r \in Seq(T) /\ Len(s) \in Nat \ {0} /\ Len(r) = Len(s) - 1
      BY <1>1
    <2> HIDE DEF r
    <2>2. r = << >> <=> Len(r) = 0
      BY <2>1, EmptySeq
    <2>3. \A n \in Nat, k \in Int : k = n - 1 => (k = 0 <=> n = 1)
      OBVIOUS
    <2>4. Len(r) = 0 <=> Len(s) = 1
      BY <2>1, <2>3
    <2> QED
      BY <2>2, <2>4 DEF r
  <1>3. <<Head(s)>> \o Tail(s) = s
    <2> DEFINE q == <<Head(s)>> \o Tail(s)
               h == Head(s)
               r == Tail(s)
    <2>1. /\ <<h>> \o r \in Seq(T) /\ Len(<<h>> \o r) = Len(r) + 1
          /\ (<<h>> \o r)[1] = h
          /\ \A k \in 2 .. Len(r) + 1 : (<<h>> \o r)[k] = r[k - 1]
      BY <1>1, Prepend
    <2>2. /\ q \in Seq(T) /\ Len(q) = Len(s) /\ q[1] = s[1]
          /\ \A k \in 2 .. Len(s) : q[k] = r[k - 1]
      BY <1>1, <2>1
    <2>3. /\ \A k \in 1 .. Len(s) - 1 : r[k] = s[k + 1]
          /\ Len(s) \in Nat \ {0}
      BY <1>1
    <2> HIDE DEF q, r, h
    <2>4. \A k \in 1 .. Len(q) : q[k] = s[k]
      <3> SUFFICES ASSUME NEW k \in 1 .. Len(s) PROVE q[k] = s[k]
        BY <2>2
      <3>1. CASE k = 1
        BY <2>2, <3>1
      <3>2. CASE k # 1
        <4>1. k \in 2 .. Len(s) /\ k - 1 \in 1 .. Len(s) - 1 /\ (k - 1) + 1 = k
          BY <2>3, <3>2
        <4> QED
          BY <2>2, <2>3, <4>1
      <3> QED
        BY <3>1, <3>2
    <2>5. q = s
      BY <2>2, <2>4, SeqEqual
    <2> QED
      BY <2>5 DEF q
  <1> QED
    BY <1>1, <1>2, <1>3

(* A call: its return address is the newest on either stack.               *)
LEMMA FramesCall ==
    ASSUME FollowsConvention, NEW T, NEW lr, NEW st \in Seq(T), NEW sh \in Seq(Entry),
           NEW a \in GuestAddrs, a + 1 \in T, NEW e \in Entry, e.arm = a + 1,
           Frame[a + 1] \in {"saved", "start"}, Activation(Frame[a + 1], lr, st, sh), Callers(sh)
    PROVE  Activation("bare", a + 1, st, <<e>> \o sh) /\ Callers(<<e>> \o sh)
  <1> DEFINE x == a + 1
             new == <<e>> \o sh
             held == <<x>> \o st
  <1>1. x \in T /\ x \in 0 .. GuestEnd /\ e.arm = x
    BY FrameRules
  <1>2. sh # << >> /\ Len(sh) \in Nat \ {0}
    BY SeqParts DEF Activation
  <1>3. /\ new \in Seq(Entry) /\ Len(new) = Len(sh) + 1 /\ new[1] = e
        /\ \A k \in 2 .. Len(sh) + 1 : k - 1 \in 1 .. Len(sh) /\ new[k] = sh[k - 1]
    BY Prepend
  <1> HIDE DEF x
  <1>4. /\ held \in Seq(T) /\ Len(held) = Len(st) + 1 /\ Len(st) \in Nat /\ held[1] = x
        /\ \A k \in 2 .. Len(st) + 1 : k - 1 \in 1 .. Len(st) /\ held[k] = st[k - 1]
    BY <1>1, Prepend
  <1>5. /\ Frame[x] = "saved" => Keeps(st, sh)
        /\ Frame[x] = "saved" \/ (Frame[x] = "start" /\ Len(sh) = 1)
    BY DEF Activation, x
  <1> HIDE DEF new, held
  <1>6. Keeps(held, new)
    <2> SUFFICES ASSUME NEW k \in 1 .. Len(new), k = 1 \/ Frame[new[k - 1].arm] = "saved"
                 PROVE  k <= Len(held) /\ held[k] = new[k].arm
      BY DEF Keeps
    <2>1. CASE k = 1
      BY <1>1, <1>3, <1>4, <2>1
    <2>2. CASE k = 2
      <3>1. Frame[x] = "saved"
        BY <1>1, <1>3, <2>2
      <3>2. 1 \in 1 .. Len(sh)
        BY <1>2
      <3>3. 1 <= Len(st) /\ st[1] = sh[1].arm
        BY <1>5, <3>1, <3>2 DEF Keeps
      <3>4. 2 \in 2 .. Len(sh) + 1 /\ 2 \in 2 .. Len(st) + 1 /\ 2 - 1 = 1
        BY <1>2, <1>4, <3>3
      <3>5. new[2] = sh[1] /\ held[2] = st[1]
        BY <1>3, <1>4, <3>4
      <3> QED
        BY <1>4, <2>2, <3>3, <3>5
    <2>3. CASE k > 2
      <3>1. PICK j \in 2 .. Len(sh) : j + 1 = k
        <4>1. k - 1 \in 2 .. Len(sh) /\ k - 1 + 1 = k
          BY <1>2, <1>3, <2>3
        <4> QED
          BY <4>1
      <3>2. /\ j \in 1 .. Len(sh) /\ j \in 2 .. Len(sh) + 1 /\ k \in 2 .. Len(sh) + 1
            /\ k - 1 = j /\ j # 1
        BY <1>2, <3>1
      <3>3. new[k] = sh[j] /\ new[j] = sh[j - 1]
        BY <1>3, <3>2
      <3>4. Frame[sh[j - 1].arm] = "saved"
        BY <2>3, <3>2, <3>3
      <3>5. Len(sh) # 1
        <4>1. PICK n \in Nat : n = Len(sh)
          BY <1>2
        <4>2. j \in 2 .. n
          BY <3>1, <4>1
        <4>3. n # 1
          BY <4>2
        <4> QED
          BY <4>1, <4>3
      <3>6. j <= Len(st) /\ st[j] = sh[j].arm
        BY <1>5, <3>2, <3>4, <3>5 DEF Keeps
      <3>7. k \in 2 .. Len(st) + 1
        BY <1>4, <3>1, <3>6
      <3> QED
        BY <1>4, <3>2, <3>3, <3>6, <3>7
    <2> QED
      BY <1>3, <2>1, <2>2, <2>3
  <1>7. new # << >>
    BY <1>2, <1>3, EmptySeq
  <1>8. Callers(new)
    <2>1. new[Len(new)].arm \in Returned
      <3>1. Len(sh) + 1 \in 2 .. Len(sh) + 1 /\ (Len(sh) + 1) - 1 = Len(sh)
        BY <1>2
      <3>2. new[Len(new)] = sh[Len(sh)]
        BY <1>3, <3>1
      <3> QED
        BY <1>2, <3>2 DEF Callers
    <2>2. ASSUME NEW k \in 1 .. Len(new) - 1
          PROVE  /\ new[k].arm \in 0 .. GuestEnd
                 /\ Frame[new[k].arm] = "saved" \/ (Frame[new[k].arm] = "start" /\ k = Len(new) - 1)
      <3>1. CASE k = 1
        BY <1>1, <1>3, <1>5, <3>1
      <3>2. CASE k # 1
        <4>1. PICK j \in 1 .. Len(sh) - 1 : j + 1 = k
          <5>1. k - 1 \in 1 .. Len(sh) - 1 /\ k - 1 + 1 = k
            BY <1>2, <1>3, <3>2
          <5> QED
            BY <5>1
        <4>2. k \in 2 .. Len(sh) + 1 /\ k - 1 = j /\ (j = Len(sh) - 1 => k = Len(new) - 1)
          BY <1>2, <1>3, <4>1
        <4>3. new[k] = sh[j]
          BY <1>3, <4>2
        <4> QED
          BY <4>1, <4>2, <4>3 DEF Callers
      <3> QED
        BY <3>1, <3>2
    <2> QED
      BY <2>1, <2>2 DEF Callers
  <1> QED
    BY <1>6, <1>7, <1>8 DEF Activation, new, held, x

(* A return is predicted, and its caller finds its own return address      *)
(* where it left it.                                                       *)
LEMMA FramesReturn ==
    ASSUME FollowsConvention, NEW T, NEW lr \in T, NEW st \in Seq(T), NEW sh \in Seq(Entry),
           Activation("bare", lr, st, sh), Callers(sh)
    PROVE  /\ sh # << >> /\ Head(sh).arm = lr
           /\ Ready(lr, lr, st, Tail(sh)) /\ Callers(Tail(sh))
  <1> DEFINE old == Tail(sh)
             held == <<lr>> \o st
  <1>1. /\ sh # << >> /\ Len(sh) \in Nat \ {0} /\ Head(sh) = sh[1]
        /\ old \in Seq(Entry) /\ Len(old) = Len(sh) - 1
        /\ \A k \in 1 .. Len(sh) - 1 : old[k] = sh[k + 1]
        /\ old = << >> <=> Len(sh) = 1
    BY SeqParts DEF Activation
  <1>2. /\ held \in Seq(T) /\ Len(held) = Len(st) + 1 /\ Len(st) \in Nat /\ held[1] = lr
        /\ \A k \in 2 .. Len(st) + 1 : k - 1 \in 1 .. Len(st) /\ held[k] = st[k - 1]
    BY Prepend
  <1>3. Keeps(held, sh)
    BY DEF Activation
  <1> HIDE DEF old, held
  <1>4. sh[1].arm = lr
    <2>1. 1 \in 1 .. Len(sh)
      BY <1>1
    <2> QED
      BY <1>2, <1>3, <2>1 DEF Keeps
  <1>5. CASE Len(sh) = 1
    <2>1. lr \in Returned
      BY <1>1, <1>4, <1>5 DEF Callers
    <2>2. Callers(old)
      BY <1>1, <1>5 DEF Callers
    <2> QED
      BY <1>1, <1>4, <1>5, <2>1, <2>2 DEF Ready, old
  <1>6. CASE Len(sh) # 1
    <2>1. Len(sh) > 1 /\ 1 \in 1 .. Len(sh) - 1 /\ Len(old) \in Nat \ {0}
      BY <1>1, <1>6
    <2>2. /\ lr \in 0 .. GuestEnd
          /\ Frame[lr] = "saved" \/ (Frame[lr] = "start" /\ Len(sh) = 2)
      <3>1. 1 = Len(sh) - 1 => Len(sh) = 2
        <4>1. PICK n \in Nat : n = Len(sh)
          BY <1>1
        <4>2. 1 = n - 1 => n = 2
          OBVIOUS
        <4> QED
          BY <4>1, <4>2
      <3> QED
        BY <1>4, <2>1, <3>1 DEF Callers
    <2>3. Frame[lr] = "saved" => Keeps(st, old)
      <3> SUFFICES ASSUME Frame[lr] = "saved", NEW k \in 1 .. Len(old),
                          k = 1 \/ Frame[old[k - 1].arm] = "saved"
                   PROVE  k <= Len(st) /\ st[k] = old[k].arm
        BY DEF Keeps
      <3>1. PICK j \in 2 .. Len(sh) : j = k + 1
        <4>1. k + 1 \in 2 .. Len(sh)
          BY <1>1
        <4> QED
          BY <4>1
      <3>2. j \in 1 .. Len(sh) /\ k \in 1 .. Len(sh) - 1 /\ j - 1 = k /\ j # 1
        BY <1>1, <3>1
      <3>3. old[k] = sh[j]
        BY <1>1, <3>1, <3>2
      <3>4. Frame[sh[k].arm] = "saved"
        <4>1. CASE k = 1
          BY <1>4, <4>1
        <4>2. CASE k # 1
          <5>1. k - 1 \in 1 .. Len(sh) - 1 /\ (k - 1) + 1 = k
            BY <1>1, <3>2, <4>2
          <5>2. old[k - 1] = sh[k]
            BY <1>1, <5>1
          <5> QED
            BY <4>2, <5>2
        <4> QED
          BY <4>1, <4>2
      <3>5. j <= Len(held) /\ held[j] = sh[j].arm
        BY <1>3, <3>2, <3>4 DEF Keeps
      <3>6. j \in 2 .. Len(st) + 1 /\ k <= Len(st)
        BY <1>2, <3>1, <3>5
      <3> QED
        BY <1>2, <3>2, <3>3, <3>5, <3>6
    <2>4. Activation(Frame[lr], lr, st, old)
      <3>1. old # << >>
        BY <1>1, <1>6
      <3>2. Frame[lr] = "start" => Len(old) = 1
        <4>1. PICK n \in Nat, k \in Nat : n = Len(sh) /\ k = Len(old) /\ k = n - 1
          BY <1>1, <2>1
        <4>2. n = 2 => k = 1
          BY <4>1
        <4>3. Frame[lr] = "start" => n = 2
          BY <2>2, <4>1
        <4> QED
          BY <4>1, <4>2, <4>3
      <3> QED
        BY <2>2, <2>3, <3>1, <3>2 DEF Activation
    <2>5. Ready(lr, lr, st, old)
      <3>1. lr \in GuestAddrs \/ lr = GuestEnd
        BY <2>2, SizeAssumption DEF GuestAddrs
      <3>2. Frame[lr] \in FrameKinds
        BY <2>2 DEF FrameKinds
      <3> QED
        BY <2>4, <3>1, <3>2 DEF Ready
    <2>6. Callers(old)
      <3>1. old[Len(old)].arm \in Returned
        <4>1. Len(old) \in 1 .. Len(sh) - 1 /\ Len(old) + 1 = Len(sh)
          BY <1>1, <2>1
        <4>2. old[Len(old)] = sh[Len(sh)]
          BY <1>1, <4>1
        <4> QED
          BY <1>1, <4>2 DEF Callers
      <3>2. ASSUME NEW k \in 1 .. Len(old) - 1
            PROVE  /\ old[k].arm \in 0 .. GuestEnd
                   /\ Frame[old[k].arm] = "saved" \/ (Frame[old[k].arm] = "start" /\ k = Len(old) - 1)
        <4>1. PICK j \in 1 .. Len(sh) - 1 : j = k + 1
          <5>1. k + 1 \in 1 .. Len(sh) - 1
            BY <1>1
          <5> QED
            BY <5>1
        <4>2. k \in 1 .. Len(sh) - 1 /\ (j = Len(sh) - 1 => k = Len(old) - 1)
          BY <1>1, <4>1
        <4>3. old[k] = sh[j]
          BY <1>1, <4>1, <4>2
        <4> QED
          BY <4>1, <4>2, <4>3 DEF Callers
      <3> QED
        BY <3>1, <3>2 DEF Callers
    <2> QED
      BY <1>1, <1>4, <2>5, <2>6 DEF old
  <1> QED
    BY <1>5, <1>6

(* A transfer of control to a pointer at which the next state is ready.    *)
LEMMA ConventionTransfer ==
    ASSUME MachineInv, MachineInv', FollowsConvention, NEW t \in GuestPtrs,
           Continues(t), pc \notin Returned, regs'["x17"] \in Callable, beyond' = 0,
           Callers(shadow'), Ready(t, regs'["x30"], stack', shadow')
    PROVE  ConventionInv'
  <1>1. LinksInv /\ UNCHANGED <<code, exec_ranges, proxies>>
    BY DEF MachineInv, Continues
  <1>2. Frame' = Frame /\ ProxyPtrs' = ProxyPtrs /\ Callable' = Callable
    <2>1. Frame' = Frame /\ ProxyPtrs' = ProxyPtrs
      BY <1>1, FrameStays DEF ProxyPtrs
    <2> QED
      BY <2>1 DEF Callable
  <1>3. CASE status' = "abort" /\ pc' = pc
    BY <1>3 DEF ConventionInv
  <1>4. CASE status' = "run" /\ ArmOf(pc)' = LandAt(t)
    <2>1. LandAt(t) \in Nat
      <3>1. t \in Nat /\ exec_ranges \subseteq Ranges
        BY <1>1, PtrTypes DEF LinksInv, SitesInv, IInv, PoolDataOK
      <3>2. CASE t \in GuestAddrs
        BY <3>1, <3>2, LandExists
      <3>3. CASE t \notin GuestAddrs
        BY <3>1, <3>3 DEF LandAt, Land
      <3> QED
        BY <3>2, <3>3
    <2>2. pc' # Idle
      <3>1. ASSUME pc' = Idle PROVE ArmOf(pc)' = Idle
        <4>1. ArmOf(Idle)' = Idle
          BY IdleNext DEF MachineInv
        <4> QED
          BY <3>1, <4>1 DEF ArmOf, StartsAt, Starts, Idle
      <3> QED
        BY <1>4, <2>1, <3>1 DEF Idle
    <2>3. PICK u : u = LandAt(t)
      OBVIOUS
    <2>4. Ready(u, regs'["x30"], stack', shadow')
      BY <1>1, <2>3, ReadyLands
    <2>5. Ready(ArmOf(pc), regs["x30"], stack, shadow)'
      BY <1>2, <1>4, <2>3, <2>4 DEF Ready, Activation, Keeps
    <2>6. Callers(shadow)' /\ (regs["x17"] \in Callable)'
      BY <1>2 DEF Callers
    <2> QED
      BY <1>4, <2>2, <2>5, <2>6 DEF ConventionInv
  <1> QED
    BY <1>3, <1>4 DEF Continues

(* What is known where translated code, or a library function, starts.     *)
LEMMA CodeReady ==
    ASSUME MachineInv, FollowsConvention, ConventionInv, Running,
           NEW a \in GuestAddrs, Starts(a, pc)
    PROVE  /\ pc \notin Returned /\ Callers(shadow) /\ regs["x17"] \in Callable /\ beyond = 0
           /\ Activation(Frame[a], regs["x30"], stack, shadow)
  <1>1. LinksInv /\ ProxySized /\ status = "run" /\ pc # Idle
    BY DEF MachineInv, Running
  <1>2. ArmOf(pc) = a
    BY <1>1, StartsUnique
  <1>3. pc \notin Returned
    <2> SUFFICES ASSUME pc \in GuestPtrs PROVE FALSE
      BY DEF Returned, GuestPtrs, Labels
    <2>1. StartsAt(pc) = {}
      BY <1>1, ArmOfPtr
    <2> QED
      BY <2>1 DEF StartsAt
  <1>4. /\ Ready(a, regs["x30"], stack, shadow) /\ Callers(shadow)
        /\ regs["x17"] \in Callable /\ beyond = 0
    BY <1>1, <1>2 DEF ConventionInv
  <1>5. ASSUME NEW l \in Labels \cup ProxyPtrs PROVE l # a
    BY <1>1, HostApart
  <1>6. a \notin Returned /\ a \notin {StartMain} \cup ProxyPtrs
    BY <1>5 DEF Returned, Labels
  <1>7. a # GuestEnd
    BY SizeAssumption DEF GuestAddrs
  <1> QED
    BY <1>3, <1>4, <1>6, <1>7 DEF Ready

LEMMA HostReady ==
    ASSUME MachineInv, FollowsConvention, ConventionInv, Running,
           pc \in {StartMain} \cup ProxyPtrs
    PROVE  /\ pc \notin Returned /\ Callers(shadow) /\ regs["x17"] \in Callable /\ beyond = 0
           /\ Activation("bare", regs["x30"], stack, shadow)
  <1>1. LinksInv /\ ProxySized /\ status = "run" /\ pc # Idle
    BY DEF MachineInv, Running
  <1>2. pc \in Labels \cup ProxyPtrs /\ pc \in GuestPtrs
    BY DEF Labels, GuestPtrs
  <1>3. ArmOf(pc) = pc
    BY <1>1, <1>2, ArmOfPtr
  <1>4. pc \notin Returned
    BY <1>1, ReturnedApart
  <1>5. pc \notin GuestAddrs /\ pc # GuestEnd
    BY <1>1, <1>2, HostApart
  <1>6. /\ Ready(pc, regs["x30"], stack, shadow) /\ Callers(shadow)
        /\ regs["x17"] \in Callable /\ beyond = 0
    BY <1>1, <1>3 DEF ConventionInv
  <1> QED
    BY <1>4, <1>5, <1>6 DEF Ready

(* Where the host's code waits for a call to come back, it has done so.    *)
LEMMA ReturnedReady ==
    ASSUME MachineInv, ConventionInv, pc \in Returned
    PROVE  shadow = << >>
  <1>1. LinksInv /\ ProxySized
    BY DEF MachineInv
  <1>2. pc \in Labels \cup ProxyPtrs /\ pc \in GuestPtrs
    BY DEF Returned, Labels, GuestPtrs
  <1>3. ArmOf(pc) = pc /\ pc \notin {StartMain} \cup ProxyPtrs
    BY <1>1, <1>2, ArmOfPtr, ReturnedApart
  <1>4. pc \notin GuestAddrs /\ pc # GuestEnd /\ pc # Idle
    BY <1>1, <1>2, HostApart DEF Idle
  <1> QED
    BY <1>3, <1>4 DEF ConventionInv, Ready

LEMMA ReadyInCode ==
    ASSUME NEW t \in 0 .. GuestEnd, Frame[t] \in FrameKinds, NEW lr, NEW st, NEW sh,
           Activation(Frame[t], lr, st, sh)
    PROVE  Ready(t, lr, st, sh)
  <1>1. t \in GuestAddrs \/ t = GuestEnd
    BY SizeAssumption DEF GuestAddrs
  <1> QED
    BY <1>1 DEF Ready

(* A function entered through a pointer to it.                             *)
LEMMA ReadyCallable ==
    ASSUME NEW t \in Callable, NEW lr, NEW st, NEW sh, Activation("bare", lr, st, sh)
    PROVE  Ready(t, lr, st, sh)
  <1>1. CASE t \in {StartMain} \cup ProxyPtrs
    BY <1>1 DEF Ready
  <1>2. CASE t = GuestEnd
    BY <1>2 DEF Ready, FrameKinds
  <1>3. CASE t \in 0 .. GuestEnd /\ Frame[t] = "bare"
    BY <1>3, ReadyInCode DEF FrameKinds
  <1> QED
    BY <1>1, <1>2, <1>3 DEF Callable

LEMMA CallablePtr ==
    ASSUME NEW t \in Callable
    PROVE  t \in GuestPtrs
  BY DEF Callable, GuestPtrs, Labels

LEMMA ConventionData ==
    ASSUME MachineInv, MachineInv', FollowsConvention, ConventionInv,
           NEW a \in GuestAddrs, ExecData(a)
    PROVE  ConventionInv'
  <1>1. /\ Running /\ Starts(a, pc) /\ code[a].op \in DataOps
        /\ regs' = RegsAfter(code[a], regs, stack, GotPtrs)
        /\ stack' = StackAfter(code[a], regs, stack)
        /\ shadow' = shadow /\ beyond' = beyond
    BY DEF ExecData, At
  <1>2. /\ pc \notin Returned /\ Callers(shadow) /\ regs["x17"] \in Callable /\ beyond = 0
        /\ Activation(Frame[a], regs["x30"], stack, shadow)
    BY <1>1, CodeReady
  <1>3. /\ Loaded /\ regs \in [Regs -> GuestPtrs] /\ stack \in Seq(GuestPtrs) /\ code \in Programs
        /\ shadow \in Seq(Entry)
    BY <1>1, RunningFacts DEF CpuTypeOK
  <1>4. PICK t \in 0 .. GuestEnd : t = a + 1
    BY FrameRules
  <1>5. t \in GuestPtrs /\ Continues(t)
    BY <1>4, ImagePtr, ExecDataStep
  <1>6. "x30" \in Regs /\ "x17" \in Regs /\ regs["x30"] \in GuestPtrs
    BY <1>3 DEF Regs
  <1>7. Frame[t] \in FrameKinds
    BY <1>4, FrameRules
  <1> SUFFICES regs'["x17"] \in Callable /\ Activation(Frame[t], regs'["x30"], stack', shadow)
    BY <1>1, <1>2, <1>5, <1>7, ReadyInCode, ConventionTransfer
  <1> DEFINE i == code[a]
  <1> HIDE DEF i
  <1>8. CASE i.op \in {"nop", "op", "stop"}
    <2>1. regs' = regs /\ stack' = stack
      BY <1>1, <1>8, Zenon DEF RegsAfter, StackAfter, i
    <2>2. Frame[t] = Frame[a]
      BY <1>4, <1>8, FrameRules DEF i
    <2> QED
      BY <1>2, <2>1, <2>2
  <1>9. CASE i.op = "adr"
    <2>1. regs' = [regs EXCEPT !["x17"] = i.to] /\ stack' = stack
      BY <1>1, <1>9, Zenon DEF RegsAfter, StackAfter, i
    <2>2. i.to \in 0 .. GuestEnd
      BY <1>3, <1>9, PointerAssumption DEF i
    <2>3. Frame[t] = Frame[a] /\ Frame[i.to] = "bare"
      BY <1>4, <1>9, FrameRules DEF i
    <2>4. regs'["x17"] = i.to /\ regs'["x30"] = regs["x30"]
      BY <1>3, <1>6, <2>1
    <2> QED
      BY <1>2, <2>1, <2>2, <2>3, <2>4 DEF Callable
  <1>10. CASE i.op = "got"
    <2>1. /\ regs' = [regs EXCEPT !["x17"] = IF i.fn = StartMainFn THEN StartMain ELSE GotPtrs[i.fn]]
          /\ stack' = stack
      BY <1>1, <1>10, Zenon DEF RegsAfter, StackAfter, i
    <2>2. i.fn \in HostFns \cup {StartMainFn}
      BY <1>3, <1>10, PointerAssumption DEF i
    <2>3. \A f \in HostFns : GotPtrs[f] \in ProxyPtrs
      BY <1>3 DEF Loaded, GotPtrs, ProxyPtrs
    <2>4. Frame[t] = Frame[a]
      BY <1>4, <1>10, FrameRules DEF i
    <2>5. /\ regs'["x17"] = IF i.fn = StartMainFn THEN StartMain ELSE GotPtrs[i.fn]
          /\ regs'["x30"] = regs["x30"]
      BY <1>3, <1>6, <2>1
    <2>6. regs'["x17"] \in Callable
      BY <2>2, <2>3, <2>5 DEF Callable
    <2> QED
      BY <1>2, <2>1, <2>4, <2>5, <2>6
  <1>11. CASE i.op = "push"
    <2>1. regs' = regs /\ stack' = <<regs["x30"]>> \o stack
      BY <1>1, <1>11, Zenon DEF RegsAfter, StackAfter, i
    <2>2. Frame[a] = "bare" /\ Frame[t] = "saved"
      BY <1>4, <1>11, FrameRules DEF i
    <2> QED
      BY <1>2, <2>1, <2>2 DEF Activation
  <1>12. CASE i.op = "pop"
    <2>1. /\ regs' = [regs EXCEPT !["x30"] = IF stack = << >> THEN GuestEnd ELSE Head(stack)]
          /\ stack' = IF stack = << >> THEN << >> ELSE Tail(stack)
      BY <1>1, <1>12, Zenon DEF RegsAfter, StackAfter, i
    <2>2. Frame[a] = "saved" /\ Frame[t] = "bare"
      BY <1>4, <1>12, FrameRules DEF i
    <2>3. shadow # << >> /\ Keeps(stack, shadow)
      BY <1>2, <2>2 DEF Activation
    <2>4. stack # << >>
      <3>1. 1 \in 1 .. Len(shadow)
        BY <1>3, <2>3, SeqParts
      <3>2. 1 <= Len(stack)
        BY <2>3, <3>1 DEF Keeps
      <3> QED
        BY <1>3, <3>2, EmptySeq
    <2>5. <<Head(stack)>> \o Tail(stack) = stack
      BY <1>3, <2>4, SeqParts
    <2>6. regs'["x17"] = regs["x17"] /\ regs'["x30"] = Head(stack) /\ stack' = Tail(stack)
      BY <1>3, <1>6, <2>1, <2>4
    <2> QED
      BY <1>2, <2>2, <2>3, <2>5, <2>6 DEF Activation
  <1> QED
    BY <1>1, <1>8, <1>9, <1>10, <1>11, <1>12 DEF DataOps, i

LEMMA ConventionJump ==
    ASSUME MachineInv, MachineInv', FollowsConvention, ConventionInv,
           NEW a \in GuestAddrs, ExecB(a) \/ ExecBCond(a)
    PROVE  ConventionInv'
  <1>1. /\ Running /\ Starts(a, pc) /\ code[a].op \in {"b", "b_cond"}
        /\ UNCHANGED <<regs, stack, shadow, beyond>>
    BY DEF ExecB, ExecBCond, At
  <1>2. /\ pc \notin Returned /\ Callers(shadow) /\ regs["x17"] \in Callable /\ beyond = 0
        /\ Activation(Frame[a], regs["x30"], stack, shadow)
    BY <1>1, CodeReady
  <1>3. code[a].to \in 0 .. GuestEnd /\ a + 1 \in 0 .. GuestEnd
    BY <1>1, RunningFacts, ProgramAssumption, FrameRules DEF DirectOps
  <1>4. PICK t \in {code[a].to, a + 1} : Continues(t) /\ (code[a].op = "b" => t = code[a].to)
    <2>1. CASE ExecB(a)
      BY <2>1, ExecBStep
    <2>2. CASE ExecBCond(a)
      BY <2>2, ExecBCondStep DEF ExecBCond, At
    <2> QED
      BY <2>1, <2>2
  <1>5. t \in 0 .. GuestEnd /\ t \in GuestPtrs
    BY <1>3, <1>4, ImagePtr
  <1>6. Frame[t] = Frame[a] /\ Frame[t] \in FrameKinds
    BY <1>1, <1>4, FrameRules
  <1> QED
    BY <1>1, <1>2, <1>4, <1>5, <1>6, ReadyInCode, ConventionTransfer

(* A call pushes its return address on the shadow stack and leaves it in   *)
(* the link register.                                                      *)
LEMMA ConventionPush ==
    ASSUME MachineInv, FollowsConvention, ConventionInv, Running, NEW a \in GuestAddrs, Starts(a, pc),
           code[a].op \in {"bl", "blr"},
           regs' = [regs EXCEPT !["x30"] = a + 1], PushShadowStack(a + 1, After(a)), stack' = stack
    PROVE  /\ pc \notin Returned /\ Callers(shadow') /\ regs'["x17"] \in Callable
           /\ regs'["x17"] = regs["x17"] /\ beyond' = 0
           /\ Activation("bare", regs'["x30"], stack', shadow')
  <1>1. /\ pc \notin Returned /\ Callers(shadow) /\ regs["x17"] \in Callable /\ beyond = 0
        /\ Activation(Frame[a], regs["x30"], stack, shadow)
    BY CodeReady
  <1>2. /\ LinksInv /\ regs \in [Regs -> GuestPtrs] /\ stack \in Seq(GuestPtrs) /\ shadow \in Seq(Entry)
    BY RunningFacts DEF CpuTypeOK
  <1>3. Frame[a + 1] = Frame[a] /\ Frame[a] \in {"saved", "start"}
    BY FrameRules
  <1>4. PICK x \in GuestPtrs : x = a + 1 /\ NativeFor(After(a), x)
    BY <1>2, AfterNative, ImagePtr
  <1>5. After(a) \in Nat
    BY <1>2, <1>4, NativeNat
  <1> DEFINE e == [arm |-> a + 1, native |-> After(a)]
  <1>6. e \in Entry /\ e.arm = a + 1 /\ shadow' = <<e>> \o shadow /\ beyond' = beyond
    BY <1>4, <1>5 DEF Entry, PushShadowStack
  <1>7. regs'["x30"] = a + 1 /\ regs'["x17"] = regs["x17"]
    BY <1>2 DEF Regs
  <1> HIDE DEF e
  <1>8. a + 1 \in GuestPtrs
    BY <1>4
  <1>9. Activation("bare", a + 1, stack, <<e>> \o shadow) /\ Callers(<<e>> \o shadow)
    BY <1>1, <1>2, <1>3, <1>6, <1>8, FramesCall
  <1> QED
    BY <1>1, <1>6, <1>7, <1>9

LEMMA ConventionBL ==
    ASSUME MachineInv, MachineInv', FollowsConvention, ConventionInv,
           NEW a \in GuestAddrs, ExecBL(a)
    PROVE  ConventionInv'
  <1>1. /\ Running /\ Starts(a, pc) /\ code[a].op = "bl"
        /\ regs' = [regs EXCEPT !["x30"] = a + 1]
        /\ PushShadowStack(a + 1, After(a)) /\ stack' = stack
    BY DEF ExecBL, At
  <1>2. /\ pc \notin Returned /\ Callers(shadow') /\ regs'["x17"] \in Callable /\ beyond' = 0
        /\ Activation("bare", regs'["x30"], stack', shadow')
    BY <1>1, ConventionPush
  <1>3. PICK t \in 0 .. GuestEnd : t = code[a].to
    BY <1>1, RunningFacts, ProgramAssumption DEF DirectOps
  <1>4. t \in GuestPtrs /\ Continues(t) /\ Frame[t] = "bare"
    BY <1>1, <1>3, ImagePtr, ExecBLStep, FrameRules
  <1> QED
    BY <1>2, <1>4, ReadyInCode, ConventionTransfer DEF FrameKinds

LEMMA ConventionBLR ==
    ASSUME MachineInv, MachineInv', FollowsConvention, ConventionInv,
           NEW a \in GuestAddrs, ExecBLR(a)
    PROVE  ConventionInv'
  <1>1. /\ Running /\ Starts(a, pc) /\ code[a].op = "blr"
        /\ regs' = [regs EXCEPT !["x30"] = a + 1]
        /\ PushShadowStack(a + 1, After(a)) /\ stack' = stack
    BY DEF ExecBLR, At
  <1>2. /\ pc \notin Returned /\ Callers(shadow') /\ regs'["x17"] \in Callable /\ beyond' = 0
        /\ Activation("bare", regs'["x30"], stack', shadow')
    BY <1>1, ConventionPush
  <1>3. code[a].reg = "x17"
    BY <1>1, RunningFacts, FrameRules DEF IndirectOps, Regs
  <1>4. PICK t \in Callable : t = regs'["x17"]
    BY <1>2
  <1>5. t \in GuestPtrs /\ Continues(t)
    BY <1>3, <1>4, CallablePtr, ExecBLRStep
  <1> QED
    BY <1>2, <1>5, ReadyCallable, ConventionTransfer

LEMMA ConventionBR ==
    ASSUME MachineInv, MachineInv', FollowsConvention, ConventionInv,
           NEW a \in GuestAddrs, ExecBR(a)
    PROVE  ConventionInv'
  <1>1. /\ Running /\ Starts(a, pc) /\ code[a].op = "br"
        /\ UNCHANGED <<regs, stack, shadow, beyond>>
    BY DEF ExecBR, At
  <1>2. /\ pc \notin Returned /\ Callers(shadow) /\ regs["x17"] \in Callable /\ beyond = 0
        /\ Activation(Frame[a], regs["x30"], stack, shadow)
    BY <1>1, CodeReady
  <1>3. code[a].reg = "x17" /\ Frame[a] = "bare"
    BY <1>1, RunningFacts, FrameRules DEF IndirectOps, Regs
  <1>4. PICK t \in Callable : t = regs["x17"]
    BY <1>2
  <1>5. t \in GuestPtrs /\ Continues(t)
    BY <1>3, <1>4, CallablePtr, ExecBRStep
  <1> QED
    BY <1>1, <1>2, <1>3, <1>5, ReadyCallable, ConventionTransfer

(* Of a function that has its return address in the link register, and of  *)
(* a library function.                                                     *)
LEMMA ConventionReturn ==
    ASSUME MachineInv, MachineInv', FollowsConvention, Running, ReturnSequence,
           UNCHANGED <<regs, stack, calls>>,
           pc \notin Returned, Callers(shadow), regs["x17"] \in Callable, beyond = 0,
           Activation("bare", regs["x30"], stack, shadow)
    PROVE  ConventionInv'
  <1>1. /\ regs \in [Regs -> GuestPtrs] /\ stack \in Seq(GuestPtrs) /\ shadow \in Seq(Entry)
    BY RunningFacts DEF CpuTypeOK
  <1>2. PICK t \in GuestPtrs : t = regs["x30"]
    BY <1>1 DEF Regs
  <1>3. Continues(t)
    BY <1>2, ReturnStep
  <1>4. Ready(t, t, stack, Tail(shadow)) /\ Callers(Tail(shadow))
    BY <1>1, <1>2, FramesReturn
  <1>5. shadow' = Tail(shadow) /\ beyond' = 0
    BY DEF ReturnSequence, PopShadowStack, Activation
  <1> QED
    BY <1>2, <1>3, <1>4, <1>5, ConventionTransfer

LEMMA ConventionRET ==
    ASSUME MachineInv, MachineInv', FollowsConvention, ConventionInv,
           \/ \E a \in GuestAddrs : ExecRET(a)
           \/ HostCall
    PROVE  ConventionInv'
  <1>1. ASSUME NEW a \in GuestAddrs, ExecRET(a) PROVE ConventionInv'
    <2>1. /\ Running /\ Starts(a, pc) /\ code[a].op = "ret"
          /\ ReturnSequence /\ UNCHANGED <<regs, stack, calls>>
      BY <1>1 DEF ExecRET, At
    <2>2. Frame[a] = "bare"
      BY <2>1, FrameRules
    <2>3. /\ pc \notin Returned /\ Callers(shadow) /\ regs["x17"] \in Callable /\ beyond = 0
          /\ Activation("bare", regs["x30"], stack, shadow)
      BY <2>1, <2>2, CodeReady
    <2> QED
      BY <2>1, <2>3, ConventionReturn
  <1>2. ASSUME HostCall PROVE ConventionInv'
    <2>1. Running /\ pc \in ProxyPtrs /\ ReturnSequence /\ UNCHANGED <<regs, stack, calls>>
      BY <1>2 DEF HostCall, ProxyPtrs
    <2>2. /\ pc \notin Returned /\ Callers(shadow) /\ regs["x17"] \in Callable
          /\ Activation("bare", regs["x30"], stack, shadow)
      BY <2>1, HostReady
    <2>3. beyond = 0
      BY <2>1 DEF ConventionInv, Running
    <2> QED
      BY <2>1, <2>2, <2>3, ConventionReturn
  <1> QED
    BY <1>1, <1>2

LEMMA LandTwice ==
    ASSUME LinksInv, NEW t \in GuestPtrs
    PROVE  LandAt(t) \in GuestPtrs /\ LandAt(LandAt(t)) = LandAt(t)
  <1>1. exec_ranges \subseteq Ranges /\ t \in Nat
    BY PtrTypes DEF LinksInv, SitesInv, IInv, PoolDataOK
  <1>2. CASE t \in GuestAddrs
    <2>1. LandAt(t) \in 0 .. GuestEnd /\ ~Passed(LandAt(t))
      BY <1>1, <1>2, LandExists, SizeAssumption
    <2> QED
      BY <2>1, ImagePtr, LandStop
  <1>3. CASE t \notin GuestAddrs
    BY <1>3 DEF LandAt, Land
  <1> QED
    BY <1>2, <1>3

LEMMA ConventionEnd ==
    ASSUME MachineInv, MachineInv', FollowsConvention, ConventionInv, ExecEnd
    PROVE  ConventionInv'
  <1>1. /\ Running /\ pc \in EndSites /\ UNCHANGED <<regs, stack, shadow, beyond>>
        /\ status = "run" /\ pc # Idle /\ LinksInv /\ ProxySized
    BY DEF ExecEnd, Running, MachineInv
  <1>2. pc \notin Returned
    <2> SUFFICES ASSUME pc \in GuestPtrs PROVE FALSE
      BY DEF Returned, GuestPtrs, Labels
    <2> QED
      BY <1>1, ArmOfPtr
  <1>3. PICK t \in GuestPtrs : ArmOf(pc) = LandAt(t) /\ Continues(t)
    BY ExecEndStep
  <1>4. PICK u \in GuestPtrs : u = ArmOf(pc) /\ LandAt(u) = LandAt(t)
    BY <1>1, <1>3, LandTwice
  <1>5. Continues(u)
    BY <1>3, <1>4 DEF Continues
  <1>6. /\ regs["x17"] \in Callable /\ Callers(shadow) /\ beyond = 0
        /\ Ready(u, regs["x30"], stack, shadow)
    BY <1>1, <1>4 DEF ConventionInv
  <1> QED
    BY <1>1, <1>2, <1>5, <1>6, ConventionTransfer

(* The host calls guest code with a shadow stack of its own.               *)
LEMMA FramesFresh ==
    ASSUME NEW T, NEW l \in Returned, l \in T, NEW st \in Seq(T), NEW kind \in {"bare", "start"}
    PROVE  /\ Activation(kind, l, st, <<[arm |-> l, native |-> l]>>)
           /\ Callers(<<[arm |-> l, native |-> l]>>)
  <1> DEFINE e == [arm |-> l, native |-> l]
             sh == <<e>>
             held == <<l>> \o st
  <1>1. e.arm = l
    OBVIOUS
  <1> HIDE DEF e
  <1>2. Len(sh) = 1 /\ sh[1] = e /\ sh # << >>
    OBVIOUS
  <1>3. held[1] = l /\ Len(held) = Len(st) + 1 /\ Len(st) \in Nat
    BY Prepend
  <1> HIDE DEF sh, held
  <1>4. Callers(sh)
    BY <1>1, <1>2 DEF Callers
  <1>5. Keeps(held, sh)
    <2>1. 1 <= Len(held)
      BY <1>3
    <2>2. \A k \in 1 .. Len(sh) : k = 1
      BY <1>2
    <2> QED
      BY <1>1, <1>2, <1>3, <2>1, <2>2 DEF Keeps
  <1> QED
    BY <1>2, <1>4, <1>5 DEF Activation, sh, held, e

LEMMA FreshCallable ==
    ASSUME NEW l \in Labels
    PROVE  RegsAtCall(l)["x30"] = l /\ RegsAtCall(l)["x17"] \in Callable
  BY CallRegs, SizeAssumption DEF Callable

LEMMA ConventionStartMain ==
    ASSUME MachineInv, MachineInv', FollowsConvention, ConventionInv, LibcStartMain
    PROVE  ConventionInv'
  <1>1. /\ Running /\ pc = StartMain
        /\ regs' = RegsAtCall(MainExit)
        /\ shadow' = <<[arm |-> MainExit, native |-> MainExit]>> /\ beyond' = 0
        /\ stack' = stack
    BY DEF LibcStartMain
  <1>2. pc \notin Returned
    BY <1>1, HostReady
  <1>3. stack \in Seq(GuestPtrs)
    BY <1>1, RunningFacts
  <1>4. regs'["x30"] = MainExit /\ regs'["x17"] \in Callable
    BY <1>1, FreshCallable DEF Labels
  <1>5. PICK m \in Mains : Continues(m)
    BY LibcStartMainStep
  <1>6. m \in 0 .. GuestEnd
    BY BoundAssumption, SizeAssumption DEF GuestAddrs
  <1>7. Frame[m] = "bare"
    BY FrameIs DEF Convention
  <1>8. MainExit \in Returned /\ MainExit \in GuestPtrs
    BY DEF Returned, GuestPtrs, Labels
  <1>9. Activation("bare", MainExit, stack, shadow') /\ Callers(shadow')
    BY <1>1, <1>3, <1>8, FramesFresh
  <1>10. Ready(m, regs'["x30"], stack', shadow')
    BY <1>1, <1>4, <1>6, <1>7, <1>9, ReadyInCode DEF FrameKinds
  <1>11. m \in GuestPtrs
    BY <1>6, ImagePtr
  <1> QED
    BY <1>1, <1>2, <1>4, <1>5, <1>9, <1>10, <1>11, ConventionTransfer

LEMMA ConventionCallGuest ==
    ASSUME MachineInv, MachineInv', FollowsConvention, ConventionInv,
           NEW e \in Entries, CallGuest(e)
    PROVE  ConventionInv'
  <1>1. /\ status = "run" /\ pc = Idle
        /\ regs' = RegsAtCall(ExitLabel)
        /\ shadow' = <<[arm |-> ExitLabel, native |-> ExitLabel]>> /\ beyond' = 0
        /\ stack' = << >>
    BY DEF CallGuest
  <1>2. pc \notin Returned
    BY <1>1, LabelAssumption DEF Returned, Labels, Idle
  <1>3. << >> \in Seq(GuestPtrs)
    OBVIOUS
  <1>4. regs'["x30"] = ExitLabel /\ regs'["x17"] \in Callable
    BY <1>1, FreshCallable DEF Labels
  <1>5. e \in 0 .. GuestEnd
    BY BoundAssumption, SizeAssumption DEF GuestAddrs
  <1>6. e \in GuestPtrs /\ Continues(e)
    BY <1>5, ImagePtr, CallGuestStep
  <1>7. Frame[e] \in {"bare", "start"}
    BY FrameIs DEF Convention
  <1>8. ExitLabel \in Returned /\ ExitLabel \in GuestPtrs
    BY DEF Returned, GuestPtrs, Labels
  <1>9. Activation(Frame[e], ExitLabel, << >>, shadow') /\ Callers(shadow')
    BY <1>1, <1>3, <1>7, <1>8, FramesFresh
  <1>10. Ready(e, regs'["x30"], stack', shadow')
    BY <1>1, <1>4, <1>5, <1>7, <1>9, ReadyInCode DEF FrameKinds
  <1> QED
    BY <1>1, <1>2, <1>4, <1>6, <1>9, <1>10, ConventionTransfer

LEMMA ConventionCallReturns ==
    ASSUME MachineInv, FollowsConvention, ConventionInv, CallReturns
    PROVE  ConventionInv'
  <1>1. /\ Running /\ status = "run" /\ pc' = Idle /\ shadow' = << >> /\ beyond' = 0
        /\ UNCHANGED <<poolvars, regs>>
    BY DEF CallReturns, Running
  <1>2. status' = "run" /\ code' = code /\ proxies' = proxies
    BY <1>1 DEF poolvars
  <1>3. Callable' = Callable
    BY <1>2, FrameStays DEF Callable, ProxyPtrs
  <1>4. Callers(shadow)'
    BY <1>1 DEF Callers
  <1> QED
    BY <1>1, <1>2, <1>3, <1>4 DEF ConventionInv

(* A step that leaves the machine as it is, or ends the process.           *)
LEMMA ConventionStays ==
    ASSUME MachineInv, ConventionInv, status' \in Statuses \ {"lost"},
           status' = status \/ (status = "run" /\ status' # "run"),
           UNCHANGED <<code, exec_ranges, executable_map, allocvars, proxies, sites, cpuvars>>
    PROVE  ConventionInv'
  <1>1. /\ ArmOf(pc)' = ArmOf(pc) /\ proxies' = proxies /\ code' = code
        /\ pc' = pc /\ regs' = regs /\ stack' = stack /\ shadow' = shadow /\ beyond' = beyond
    BY EndsStep DEF cpuvars
  <1>2. Frame' = Frame /\ ProxyPtrs' = ProxyPtrs
    BY <1>1, FrameStays DEF ProxyPtrs
  <1>3. Callable' = Callable /\ Callers(shadow)' = Callers(shadow)
    BY <1>1, <1>2 DEF Callable, Callers
  <1>4. Ready(ArmOf(pc), regs["x30"], stack, shadow)' = Ready(ArmOf(pc), regs["x30"], stack, shadow)
    BY <1>1, <1>2 DEF Ready, Activation, Keeps
  <1>5. pc \in Returned => shadow = << >>
    BY ReturnedReady
  <1>6. CASE status' = status
    BY <1>1, <1>3, <1>4, <1>5, <1>6 DEF ConventionInv
  <1>7. CASE status' # "run"
    BY <1>1, <1>5, <1>7 DEF ConventionInv
  <1> QED
    BY <1>6, <1>7

(* With an entry for each function that has not returned, the shadow stack *)
(* is never empty where one returns.                                       *)
LEMMA NeverBeyond ==
    ASSUME MachineInv, FollowsConvention, ConventionInv
    PROVE  ~ShadowBeyond
  <1> SUFFICES ASSUME ShadowBeyond PROVE FALSE
    OBVIOUS
  <1>1. Running /\ beyond = 0 /\ shadow \in Seq(Entry)
    BY DEF ShadowBeyond, Running, ConventionInv, MachineInv, CpuTypeOK
  <1>2. Depth = Len(shadow) /\ Len(shadow) \in Nat
    BY <1>1 DEF Depth
  <1>3. ASSUME shadow # << >> PROVE Depth > 0
    BY <1>1, <1>2, <1>3, EmptySeq
  <1>4. ASSUME NEW a \in StartsAt(pc) PROVE Depth > 0
    <2>1. a \in GuestAddrs /\ Starts(a, pc)
      BY <1>4 DEF StartsAt
    <2>2. Activation(Frame[a], regs["x30"], stack, shadow)
      BY <1>1, <2>1, CodeReady
    <2> QED
      BY <1>3, <2>2 DEF Activation
  <1>5. ASSUME pc \in ProxyPtrs PROVE Depth > 0
    <2>1. Activation("bare", regs["x30"], stack, shadow)
      BY <1>1, <1>5, HostReady
    <2> QED
      BY <1>3, <2>1 DEF Activation
  <1>6. ~(Depth > 0)
    BY <1>2, <1>4, <1>5 DEF ShadowBeyond, ProxyPtrs
  <1>7. Depth < 0
    BY <1>4, <1>5, <1>6 DEF ShadowBeyond, ProxyPtrs
  <1> QED
    BY <1>2, <1>7

LEMMA ConventionLoad ==
    ASSUME MachineInv, ConventionInv, Load
    PROVE  ConventionInv'
  <1>1. /\ status = "run" /\ pc = Idle /\ shadow = << >> /\ beyond = 0
        /\ pc' = pc /\ regs' = regs /\ shadow' = shadow /\ beyond' = beyond
    BY DEF MachineInv, Load, Phases, cpuvars
  <1>2. /\ status' \in {"run", "abort"} /\ code' = code
        /\ ProxyPtrs \subseteq ProxyPtrs'
    <2>1. ASSUME NEW r, DefineExecRange(r)
          PROVE  status' = "run" /\ code' = code /\ proxies' = proxies
      BY <1>1, <2>1 DEF DefineExecRange
    <2>2. ASSUME NEW f \in HostFns \ DOMAIN proxies, AllocCode(f)
          PROVE  status' \in {"run", "abort"} /\ code' = code
      BY <1>1, <2>2 DEF AllocCode, MmapFails, GiveUp
    <2>3. ASSUME NEW f \in HostFns \ DOMAIN proxies, AllocCode(f)
          PROVE  ProxyPtrs \subseteq ProxyPtrs'
      <3>1. CASE proxies' = proxies
        BY <3>1 DEF ProxyPtrs
      <3>2. ASSUME NEW v, proxies' = Extend(proxies, [x \in {f} |-> v])
            PROVE  ProxyPtrs \subseteq ProxyPtrs'
        <4> DEFINE g == [x \in {f} |-> v]
        <4>1. DOMAIN g = {f}
          OBVIOUS
        <4>2. proxies' = Extend(proxies, g)
          BY <3>2
        <4> HIDE DEF g
        <4>3. /\ DOMAIN Extend(proxies, g) = DOMAIN proxies \cup DOMAIN g
              /\ \A x \in DOMAIN proxies \ DOMAIN g : Extend(proxies, g)[x] = proxies[x]
          BY ExtendFacts
        <4>4. \A x \in DOMAIN proxies : x \in DOMAIN proxies' /\ proxies'[x] = proxies[x]
          BY <2>3, <4>1, <4>2, <4>3
        <4> QED
          BY <4>4 DEF ProxyPtrs
      <3> QED
        BY <2>3, <3>1, <3>2 DEF AllocCode, MmapFails, GiveUp
    <2>4. CASE \E r \in Ranges \ exec_ranges : DefineExecRange(r)
      BY <2>1, <2>4 DEF ProxyPtrs
    <2>5. CASE \E f \in HostFns \ DOMAIN proxies : AllocCode(f)
      BY <2>2, <2>3, <2>5
    <2> QED
      BY <2>4, <2>5 DEF Load
  <1>3. Callable \subseteq Callable'
    BY <1>2, FrameStays DEF Callable
  <1>4. pc \notin Returned
    BY <1>1, LabelAssumption DEF Returned, Labels, Idle
  <1>5. Callers(shadow)'
    BY <1>1 DEF Callers
  <1> QED
    BY <1>1, <1>2, <1>3, <1>4, <1>5 DEF ConventionInv

LEMMA ConventionNext ==
    ASSUME MachineInv, MachineInv', [Next]_vars, FollowsConvention, ConventionInv
    PROVE  ConventionInv'
  <1>1. CASE UNCHANGED vars \/ Stopped
    <2>1. /\ UNCHANGED <<code, exec_ranges, executable_map, allocvars, proxies, sites, cpuvars>>
          /\ status' = status
      BY <1>1 DEF vars, poolvars, Stopped
    <2>2. status' \in Statuses \ {"lost"}
      BY <2>1 DEF MachineInv, CpuTypeOK, ConventionInv
    <2> QED
      BY <2>1, <2>2, ConventionStays
  <1>2. ASSUME NEW a \in GuestAddrs,
               \/ ExecData(a) \/ ExecB(a) \/ ExecBCond(a) \/ ExecBL(a)
               \/ ExecBR(a) \/ ExecBLR(a) \/ ExecRET(a)
        PROVE  ConventionInv'
    BY <1>2, ConventionData, ConventionJump, ConventionBL, ConventionBR, ConventionBLR, ConventionRET
  <1>3. CASE \/ \E a \in GuestAddrs : ExecUndef(a)
             \/ MainReturns \/ Segv \/ ShadowFull \/ StackFull
    <2>1. /\ status = "run" /\ status' \in Statuses \ {"lost", "run"}
          /\ UNCHANGED <<code, exec_ranges, executable_map, allocvars, proxies, sites, cpuvars>>
      BY <1>3 DEF ExecUndef, At, MainReturns, Segv, ShadowFull, StackFull, Running, Statuses
    <2> QED
      BY <2>1, ConventionStays
  <1>4. CASE Step
    BY <1>2, <1>3, <1>4, NeverBeyond, ConventionEnd, ConventionRET, ConventionStartMain,
       ConventionCallReturns DEF Step
  <1> QED
    BY <1>1, <1>4, ConventionLoad, ConventionCallGuest DEF Next

LEMMA ConventionInit == Init => ConventionInv
  <1> SUFFICES ASSUME Init PROVE ConventionInv
    OBVIOUS
  <1>1. status = "run" /\ pc = Idle /\ regs = [r \in Regs |-> GuestEnd] /\ shadow = << >> /\ beyond = 0
    BY DEF Init, PoolInit
  <1>2. regs["x17"] \in Callable
    BY <1>1, SizeAssumption DEF Regs, Callable
  <1>3. Callers(shadow)
    BY <1>1 DEF Callers
  <1> QED
    BY <1>1, <1>2, <1>3 DEF ConventionInv

LEMMA ReturnsFollow ==
    ASSUME MachineInv, FollowsConvention, ConventionInv
    PROVE  ReturnsPredicted
  <1>1. ASSUME Running, Activation("bare", regs["x30"], stack, shadow)
        PROVE  shadow # << >> /\ Head(shadow).arm = regs["x30"]
    <2>1. regs["x30"] \in GuestPtrs /\ stack \in Seq(GuestPtrs) /\ shadow \in Seq(Entry)
      BY <1>1, RunningFacts DEF CpuTypeOK, Regs
    <2>2. Callers(shadow)
      BY <1>1 DEF ConventionInv, Running
    <2> QED
      BY <1>1, <2>1, <2>2, FramesReturn
  <1>2. ASSUME status = "run", NEW a \in StartsAt(pc), code[a].op = "ret"
        PROVE  shadow # << >> /\ Head(shadow).arm = regs["x30"]
    <2>1. a \in GuestAddrs /\ Starts(a, pc)
      BY <1>2 DEF StartsAt
    <2>2. Running
      <3>1. StartsAt(Idle) = {}
        BY ArmOfPtr DEF MachineInv
      <3> QED
        BY <1>2, <3>1 DEF Running
    <2>3. Frame[a] = "bare" /\ Activation(Frame[a], regs["x30"], stack, shadow)
      BY <1>2, <2>1, <2>2, FrameRules, CodeReady
    <2> QED
      BY <1>1, <2>2, <2>3
  <1>3. ASSUME status = "run", pc \in ProxyPtrs
        PROVE  shadow # << >> /\ Head(shadow).arm = regs["x30"]
    <2>1. Running
      BY <1>3, HostApart DEF Running, Idle, MachineInv
    <2>2. Activation("bare", regs["x30"], stack, shadow)
      BY <1>3, <2>1, HostReady
    <2> QED
      BY <1>1, <2>1, <2>2
  <1>4. status # "lost"
    BY DEF ConventionInv
  <1> QED
    BY <1>2, <1>3, <1>4 DEF ReturnsPredicted, ProxyPtrs

LEMMA BalanceFollows ==
    ASSUME MachineInv, ConventionInv
    PROVE  Balanced
  BY ReturnedReady DEF Balanced, Returned

(* The addresses that are kept are a prefix of those held.                 *)
LEMMA KeptPrefix ==
    ASSUME NEW held \in Seq(GuestPtrs), NEW sh \in Seq(Entry), sh # << >>, Callers(sh), Keeps(held, sh)
    PROVE  IsPrefix([i \in 1 .. Len(sh) - 1 |-> sh[i].arm], held)
  <1> DEFINE arms == [i \in 1 .. Len(sh) - 1 |-> sh[i].arm]
  <1>1. PICK n \in Nat : n + 1 = Len(sh)
    <2>1. Len(sh) \in Nat \ {0}
      BY SeqParts
    <2>2. \A m \in Nat \ {0} : \E k \in Nat : k + 1 = m
      <3> SUFFICES ASSUME NEW m \in Nat \ {0} PROVE \E k \in Nat : k + 1 = m
        OBVIOUS
      <3>1. m - 1 \in Nat /\ m - 1 + 1 = m
        OBVIOUS
      <3> QED
        BY <3>1
    <2> QED
      BY <2>1, <2>2
  <1>2. Len(sh) - 1 = n
    BY <1>1
  <1>3. \A k \in 1 .. n : sh[k].arm \in GuestPtrs
    <2> SUFFICES ASSUME NEW k \in 1 .. n PROVE sh[k].arm \in GuestPtrs
      OBVIOUS
    <2>1. k \in 1 .. Len(sh)
      BY <1>1
    <2>2. sh[k] \in Entry
      BY <2>1, ElementOfSeq
    <2> QED
      BY <2>2 DEF Entry
  <1>4. /\ arms \in Seq(GuestPtrs) /\ Len(arms) = n
        /\ \A k \in 1 .. n : arms[k] = sh[k].arm
    <2>1. arms = [i \in 1 .. n |-> sh[i].arm]
      BY <1>2
    <2>2. arms \in [1 .. n -> GuestPtrs]
      BY <1>3, <2>1
    <2>3. \A k \in 1 .. n : arms[k] = sh[k].arm
      BY <2>1
    <2> HIDE DEF arms
    <2>4. arms \in Seq(GuestPtrs)
      BY <2>2
    <2>5. DOMAIN arms = 1 .. n /\ DOMAIN arms = 1 .. Len(arms) /\ Len(arms) \in Nat
      BY <2>2, <2>4, LenProperties
    <2> QED
      BY <2>3, <2>4, <2>5
  <1> HIDE DEF arms
  <1>5. \A k \in 1 .. n : k <= Len(held) /\ held[k] = arms[k]
    <2> SUFFICES ASSUME NEW k \in 1 .. n PROVE k <= Len(held) /\ held[k] = arms[k]
      OBVIOUS
    <2>1. k \in 1 .. Len(sh)
      BY <1>1
    <2>2. k = 1 \/ Frame[sh[k - 1].arm] = "saved"
      <3>1. CASE k # 1
        <4>1. PICK j \in 1 .. n : j = k - 1 /\ j < n
          <5>1. k - 1 \in 1 .. n /\ k - 1 < n
            BY <3>1
          <5> QED
            BY <5>1
        <4>2. j \in 1 .. Len(sh) - 1 /\ j # Len(sh) - 1
          BY <1>2, <4>1
        <4> QED
          BY <4>1, <4>2 DEF Callers
      <3> QED
        BY <3>1
    <2> QED
      BY <1>4, <2>1, <2>2 DEF Keeps
  <1>6. Len(held) \in Nat /\ n <= Len(held)
    <2>1. Len(held) \in Nat
      BY LenProperties
    <2>2. n = 0 \/ n \in 1 .. n
      OBVIOUS
    <2> QED
      BY <1>5, <2>1, <2>2
  <1>7. /\ SubSeq(arms, 1, n) \in Seq(GuestPtrs) /\ SubSeq(held, 1, n) \in Seq(GuestPtrs)
        /\ Len(SubSeq(arms, 1, n)) = n /\ Len(SubSeq(held, 1, n)) = n
        /\ \A k \in 1 .. n : SubSeq(arms, 1, n)[k] = arms[k] /\ SubSeq(held, 1, n)[k] = held[k]
    BY <1>4, <1>6, SubSeqProperties
  <1>8. SubSeq(arms, 1, n) = SubSeq(held, 1, n)
    <2> DEFINE x == SubSeq(arms, 1, n)
               y == SubSeq(held, 1, n)
    <2>1. /\ x \in Seq(GuestPtrs) /\ y \in Seq(GuestPtrs) /\ Len(x) = n /\ Len(y) = n
          /\ \A k \in 1 .. n : x[k] = y[k]
      BY <1>5, <1>7
    <2> HIDE DEF x, y
    <2>2. x = y
      BY <2>1, SeqEqual
    <2> QED
      BY <2>2 DEF x, y
  <1>9. IsPrefix(arms, held)
    BY <1>4, <1>6, <1>8 DEF IsPrefix
  <1> QED
    BY <1>9 DEF arms

LEMMA MirrorsFollow ==
    ASSUME MachineInv, FollowsConvention, ConventionInv
    PROVE  ShadowMirrorsStack
  <1> DEFINE arms == [i \in 1 .. Len(shadow) - 1 |-> shadow[i].arm]
             lr   == regs["x30"]
  <1> SUFFICES ASSUME status = "run", shadow # << >>
               PROVE  IsPrefix(arms, stack) \/ IsPrefix(arms, <<lr>> \o stack)
    BY DEF ShadowMirrorsStack
  <1>1. lr \in GuestPtrs /\ stack \in Seq(GuestPtrs) /\ shadow \in Seq(Entry) /\ Callers(shadow)
    BY DEF MachineInv, CpuTypeOK, ConventionInv, Regs
  <1>2. pc # Idle /\ Ready(ArmOf(pc), lr, stack, shadow)
    BY DEF ConventionInv
  <1>3. PICK kind \in FrameKinds : Activation(kind, lr, stack, shadow)
    <2>1. \A a \in GuestAddrs : Frame[a] \in FrameKinds
      BY FrameRules
    <2>2. "bare" \in FrameKinds
      BY DEF FrameKinds
    <2> QED
      BY <1>2, <2>1, <2>2 DEF Ready
  <1>4. <<lr>> \o stack \in Seq(GuestPtrs)
    BY <1>1, Prepend
  <1>5. CASE kind = "bare"
    <2>1. Keeps(<<lr>> \o stack, shadow)
      BY <1>3, <1>5 DEF Activation
    <2> QED
      BY <1>1, <1>4, <2>1, KeptPrefix
  <1>6. CASE kind = "saved"
    <2>1. Keeps(stack, shadow)
      BY <1>3, <1>6 DEF Activation
    <2> QED
      BY <1>1, <2>1, KeptPrefix
  <1>7. CASE kind = "start"
    <2>1. Len(shadow) = 1
      BY <1>3, <1>7 DEF Activation
    <2>2. Keeps(<<lr>> \o stack, shadow) \/ IsPrefix(arms, stack)
      <3>1. DOMAIN arms = {}
        BY <2>1
      <3>2. arms = << >>
        <4>1. arms \in [1 .. 0 -> GuestPtrs]
          BY <3>1
        <4> HIDE DEF arms
        <4>2. arms \in Seq(GuestPtrs)
          BY <4>1
        <4>3. Len(arms) = 0
          BY <4>1, <4>2, LenProperties
        <4> QED
          BY <4>2, <4>3, EmptySeq
      <3>3. IsPrefix(<< >>, stack)
        BY <1>1 DEF IsPrefix
      <3> QED
        BY <3>2, <3>3
    <2> QED
      BY <1>1, <1>4, <2>2, KeptPrefix
  <1> QED
    BY <1>3, <1>5, <1>6, <1>7 DEF FrameKinds

------------------------------------------------------------------------------
(* Theorems *)

(* The inductive invariant: at every moment the pool is laid out and       *)
(* linked as it should be, and every native address that is executed, or   *)
(* that a return may go to, is the translation of a guest pointer.         *)
THEOREM MachineInvariant == Spec => []MachineInv
  BY MachineInit, MachineNext, PTL DEF Spec

(* The guest never gets hold of an address of translated code: none is in  *)
(* its registers, among the return addresses it saved, or in the guest     *)
(* half of a shadow stack entry, however calls, returns and library        *)
(* functions follow one another.  And the processor never leaves native    *)
(* code but for a pointer the guest had, so that no jump, patched or       *)
(* looked up, leads into the middle of something.                          *)
THEOREM PointersStayApart == Spec => []PointersApart
  BY MachineInvariant, PointersFollow, PTL

(* A predicted return goes where the unpredicted one would: the native     *)
(* address that BL and BLR push resumes at the guest return address pushed *)
(* with it, whatever is translated, linked or patched between call and     *)
(* return, and for programs that obey no calling convention too.           *)
THEOREM ShadowIsCoherent == Spec => []ShadowCoherent
  BY MachineInvariant, CoherenceFollows, PTL

(* Translated code, callbacks, proxies and the shadow stack together are   *)
(* an ARM64 processor: each step of theirs is one step of the program, or  *)
(* none, or the emulator gives up (a resource is used up, or a chunk is    *)
(* wanted that cannot be translated); no callback panics.  Only a program  *)
(* that has returned more often than it was called may also lose control,  *)
(* where nothing checks the shadow stack.  This is so for each program     *)
(* whose RETs name x30 and whose BLRs do not; with a RET or BLR that       *)
(* breaks this, compile_ret and compile_blr go elsewhere than the          *)
(* architecture says.                                                      *)
THEOREM TranslatorImplementsGuest == Spec /\ Conventional => RefinesGuest
  <1>1. Init => Guest!GInit
    BY GuestInit
  <1>2. MachineInv /\ [Next]_vars => (Conventional => [Guest!GNext]_(Guest!gvars))
    BY MachineNext
  <1>3. MachineInv /\ [Next]_vars /\ Conventional => Conventional'
    <2> SUFFICES ASSUME MachineInv, [Next]_vars, Conventional PROVE Conventional'
      OBVIOUS
    <2>1. code' = code
      BY PoolStepOf, CodeStays
    <2> QED
      BY <2>1 DEF Conventional
  <1> QED
    BY <1>1, <1>2, <1>3, MachineInvariant, PTL DEF Spec, RefinesGuest, Guest!GuestSpec

(* What is proved of the pool alone, for requests in any order, holds of   *)
(* the pool that running code drives: no callback asks it for more.        *)
THEOREM RunningPoolIsSound ==
    Spec => [](BlocksInRegions /\ BlocksApart /\ Attribution /\ LinksCoherent)
  <1>1. MachineInv => BlocksInRegions /\ BlocksApart /\ Attribution /\ LinksCoherent
    BY AttributionFollows, LinksFollow DEF MachineInv, LinksInv, SitesInv, IInv
  <1> QED
    BY <1>1, MachineInvariant, PTL

(* While the guest runs, translations stay where they are and are patched  *)
(* only at a pending call; and each callback that running code enters      *)
(* finds the instruction it was entered from, and a direct branch there if *)
(* it needs one.  (The translation of the chunk it then wants may panic.)  *)
THEOREM RunningCodeIsFinal == Spec => TranslationFinal /\ []CallbacksResolve
  <1>1. MachineInv /\ [Next]_vars => [KeepsTranslation]_poolvars
    BY PoolStepOf, PoolStepSafe
  <1>2. MachineInv => CallbacksResolve
    BY DEF MachineInv, CpuTypeOK, Statuses, CallbacksResolve
  <1> QED
    BY <1>1, <1>2, MachineInvariant, PTL DEF Spec, TranslationFinal

(* The inductive invariant of a program that follows the calling           *)
(* convention: each entry of the shadow stack is the return address of a   *)
(* function that has not returned, held where that function keeps it.      *)
THEOREM ConventionInvariant == Spec /\ FollowsConvention => [](FollowsConvention /\ ConventionInv)
  <1>1. MachineInv /\ MachineInv' /\ [Next]_vars /\ FollowsConvention /\ ConventionInv
           => FollowsConvention' /\ ConventionInv'
    <2> SUFFICES ASSUME MachineInv, MachineInv', [Next]_vars, FollowsConvention, ConventionInv
                 PROVE  FollowsConvention' /\ ConventionInv'
      OBVIOUS
    <2>1. code' = code
      BY PoolStepOf, CodeStays
    <2> QED
      BY <2>1, FrameStays, ConventionNext
  <1> QED
    BY <1>1, ConventionInit, MachineInvariant, PTL DEF Spec

(* Each return of such a program, from translated code or from a library   *)
(* function, called or tail-called, finds its own address on top of the    *)
(* shadow stack: no return needs a look-up, and none goes beyond the stack. *)
THEOREM ReturnsArePredicted == Spec /\ FollowsConvention => []ReturnsPredicted
  BY ConventionInvariant, MachineInvariant, ReturnsFollow, PTL

(* Shadow stack and machine stack hold the same return addresses in the    *)
(* same order, but for the newest, which may be in the link register.      *)
THEOREM ShadowMirrors == Spec /\ FollowsConvention => []ShadowMirrorsStack
  BY ConventionInvariant, MachineInvariant, MirrorsFollow, PTL

(* Control is back in runner::call, or behind main, only with the shadow   *)
(* stack of the call used up.                                              *)
THEOREM CallsAreBalanced == Spec /\ FollowsConvention => []Balanced
  BY ConventionInvariant, MachineInvariant, BalanceFollows, PTL
==============================================================================
