-------------------------------- MODULE Mapping --------------------------------
(***************************************************************************)
(* How the loader (loader.rs) puts the segments of an ELF file into memory:*)
(* it reserves a range of addresses, gives it back, and maps the segments  *)
(* one by one into the hole.                                               *)
(*                                                                         *)
(* The address space is Space bytes in pages of PageSize.  A page is free, *)
(* the object's ("self"), or somebody else's; the rest of the process (the *)
(* libraries loaded before, the allocator, which logging and               *)
(* define_exec_range call) may map free pages at any time.  A segment is a *)
(* record [address, size, offset, filesz, align, r, w, x].                 *)
(***************************************************************************)
EXTENDS Integers, Sequences

CONSTANTS
    PageSize,     \* sysconf(_SC_PAGE_SIZE)
    Space,        \* bytes of address space
    Elfs,         \* ELF files
    Taken,        \* sets of pages that may be in use when the loader starts
    Hints,        \* pages where the kernel may find room
    MaxOthers     \* bound: mappings made by others while the object is loaded

Pages == 0 .. Space \div PageSize - 1
Addrs == 0 .. Space - 1

SegmentRecord == [address : Nat, size : Nat \ {0}, offset : Nat, filesz : Nat, align : Nat,
                  r : BOOLEAN, w : BOOLEAN, x : BOOLEAN]

(* Alignments are powers of two: those above a page's are whole pages. *)
ASSUME MappingAssumption ==
    /\ PageSize \in Nat \ {0}
    /\ Space \in Nat \ {0} /\ Space % PageSize = 0
    /\ MaxOthers \in Nat
    /\ Hints \subseteq Pages
    /\ \A e \in Elfs :
         /\ e.length \in Nat
         /\ e.segments \in Seq(SegmentRecord)
         /\ \A j \in DOMAIN e.segments : e.segments[j].align > PageSize => e.segments[j].align % PageSize = 0

(* The part of a segment that is in the file is there, and not larger than *)
(* the segment.                                                            *)
ASSUME SegmentFormat == \A e \in Elfs : \A j \in DOMAIN e.segments :
    LET s == e.segments[j] IN s.filesz <= s.size /\ s.offset + s.filesz <= e.length

VARIABLES
    elf,       \* the file that is loaded
    phase,     \* the part of load_object that runs, or how it ended
    idx,       \* position in the list that this part goes through
    owner,     \* [Pages -> {"free", "self", "others"}]
    memory,    \* [bytes of the object's pages -> what they hold]
    readable,  \* the object's pages that may be read
    mapped,    \* where the kernel found room
    base,      \* base_addr
    ranges,    \* define_exec_range's ranges: <<start, end>>
    others     \* mappings made by others so far

mapvars == <<owner, memory, readable, mapped, base, ranges, others>>

Bigger(a, b) == IF a >= b THEN a ELSE b
align_to_next(addr, alignment) == ((addr + alignment - 1) \div alignment) * alignment

PagesOf(from, to) == {p \in Pages : from < (p + 1) * PageSize /\ p * PageSize < to}
Free(from, to)    == 0 <= from /\ to <= Space /\ \A p \in PagesOf(from, to) : owner[p] = "free"

File(n) == <<"file", n>>
Zero    == <<"zero">>
Beyond  == <<"bus">>       \* a page of a mapping that lies behind the end of the file

------------------------------------------------------------------------------
(* generate_suitable_base_addr *)

IsBase(s) == s.address = 0
HasBase(e) == \E j \in DOMAIN e.segments : IsBase(e.segments[j])
BaseSegment(e) == e.segments[CHOOSE j \in DOMAIN e.segments :
                                /\ IsBase(e.segments[j])
                                /\ \A i \in 1 .. j - 1 : ~IsBase(e.segments[i])]
base_alignment(e) == Bigger(BaseSegment(e).align, PageSize)
unaligned_end(e)  == LET ends == {e.segments[j].address + e.segments[j].size : j \in DOMAIN e.segments}
                     IN  CHOOSE n \in ends : \A k \in ends : k <= n

(* Faulty: leaves no room to align the base. *)
ReservedTight(e) == align_to_next(unaligned_end(e), PageSize)

Reserved(e) == align_to_next(unaligned_end(e), PageSize) + base_alignment(e) - PageSize

(* The kernel picks m, and everything is unmapped again. *)
ReserveAt(m) ==
    /\ phase = "reserve"
    /\ HasBase(elf)
    /\ Free(m, m + Reserved(elf))
    /\ mapped' = m
    /\ base' = align_to_next(m, base_alignment(elf))
    /\ phase' = "map"
    /\ idx' = 1
    /\ UNCHANGED <<elf, owner, memory, readable, ranges, others>>

Reserve == \E p \in Hints : ReserveAt(p * PageSize)

NothingReserved ==
    /\ phase = "reserve"
    /\ HasBase(elf) => \A p \in Hints : ~Free(p * PageSize, p * PageSize + Reserved(elf))
    /\ phase' = "not_reserved"
    /\ UNCHANGED <<elf, idx, mapvars>>

------------------------------------------------------------------------------
(* load_segment *)

Alignment(s)      == Bigger(s.align, PageSize)
page_offset(b, s) == (b + s.address) % Alignment(s)
aligned_addr(b, s) == b + s.address - page_offset(b, s)
segment_end(b, s) == b + s.address + s.size
mapping_end(b, s) == align_to_next(segment_end(b, s), PageSize)
map_offset(b, s)  == s.offset - page_offset(b, s)
file_load_end(b, s) == b + s.address + s.filesz
page_break(b, s)  == align_to_next(file_load_end(b, s), PageSize)

(* mmap refuses taken pages (MAP_FIXED_NOREPLACE) and odd offsets. *)
Mappable(b, s) ==
    /\ map_offset(b, s) >= 0
    /\ map_offset(b, s) % PageSize = 0
    /\ aligned_addr(b, s) % PageSize = 0
    /\ Free(aligned_addr(b, s), mapping_end(b, s))

(* The bytes behind the file's part are cleared, to the end of its page ... *)
ClearsTail(b, s) == s.size > s.filesz /\ file_load_end(b, s) < page_break(b, s)
(* ... and in the pages after it, which a second mmap replaces. *)
ClearsPages(b, s) == s.size > s.filesz /\ page_break(b, s) < mapping_end(b, s)

FromFile(n) == IF n < elf.length THEN File(n)
               ELSE IF n \div PageSize <= (elf.length - 1) \div PageSize THEN Zero ELSE Beyond

(* Faulty: clears whole pages only. *)
LoadedUncleared(b, s, a) ==
    IF ClearsPages(b, s) /\ page_break(b, s) <= a THEN Zero
    ELSE FromFile(map_offset(b, s) + a - aligned_addr(b, s))

(* What address a holds once segment s is mapped. *)
LoadedByte(b, s, a) ==
    IF \/ ClearsTail(b, s)  /\ file_load_end(b, s) <= a /\ a < page_break(b, s)
       \/ ClearsPages(b, s) /\ page_break(b, s) <= a
      THEN Zero
      ELSE FromFile(map_offset(b, s) + a - aligned_addr(b, s))

(* Faulty: the executable range begins and ends with the segment. *)
SegmentRange(b, s) == <<b + s.address, segment_end(b, s)>>

(* What define_exec_range is told. *)
ExecRange(b, s) == <<aligned_addr(b, s), mapping_end(b, s)>>

(* Faulty: the pages behind the file's last are counted from the segment's *)
(* end, so the replacing mmap reaches one page further.                    *)
MapsPagesFurther(b, s) == PagesOf(aligned_addr(b, s), mapping_end(b, s) + (IF ClearsPages(b, s) THEN 1 ELSE 0))

(* Faulty: begins at the segment, not at its aligned address. *)
MapsSegmentPages(b, s) == PagesOf(b + s.address, mapping_end(b, s))

(* The pages that the two mmaps make the object's. *)
MapsPages(b, s) == PagesOf(aligned_addr(b, s), mapping_end(b, s))

BytesMapped(b, s) == aligned_addr(b, s) .. mapping_end(b, s) - 1

(* Faulty: maps without PROT_READ. *)
LegibleIfWritable(s) == s.w

(* A page mapped with PROT_READ, or with PROT_WRITE, which is no weaker on *)
(* x86.  PROT_EXEC is never asked for.                                     *)
Legible(s) == s.r \/ s.w

Readable(b, s) == (readable \ MapsPages(b, s)) \cup (IF Legible(s) THEN MapsPages(b, s) ELSE {})

Segment == elf.segments[idx]
MoreSegments == phase = "map" /\ idx \in DOMAIN elf.segments

LoadSegment ==
    /\ MoreSegments
    /\ Mappable(base, Segment)
    /\ Segment.w \/ ~(ClearsTail(base, Segment) \/ ClearsPages(base, Segment))
    /\ owner' = [p \in Pages |-> IF p \in MapsPages(base, Segment) THEN "self" ELSE owner[p]]
    /\ memory' = [a \in DOMAIN memory \cup BytesMapped(base, Segment) |->
                    IF a \in BytesMapped(base, Segment) THEN LoadedByte(base, Segment, a) ELSE memory[a]]
    /\ readable' = Readable(base, Segment)
    /\ ranges' = IF Segment.x THEN Append(ranges, ExecRange(base, Segment)) ELSE ranges
    /\ idx' = idx + 1
    /\ UNCHANGED <<elf, phase, mapped, base, others>>

(* A negative offset or an mmap that fails panics. *)
SegmentFails ==
    /\ MoreSegments
    /\ ~Mappable(base, Segment)
    /\ phase' = "not_mapped"
    /\ UNCHANGED <<elf, idx, mapvars>>

(* memset writes to pages that were mapped without PROT_WRITE. *)
ClearFaults ==
    /\ MoreSegments
    /\ Mappable(base, Segment)
    /\ ~Segment.w
    /\ ClearsTail(base, Segment) \/ ClearsPages(base, Segment)
    /\ phase' = "not_writable"
    /\ UNCHANGED <<elf, idx, mapvars>>

(* Somebody else maps a page. *)
OthersMap ==
    /\ phase = "map"
    /\ others < MaxOthers
    /\ \E p \in Pages : owner[p] = "free" /\ owner' = [owner EXCEPT ![p] = "others"]
    /\ others' = others + 1
    /\ UNCHANGED <<elf, phase, idx, memory, readable, mapped, base, ranges>>

MappingInit ==
    /\ elf \in Elfs
    /\ idx = 1
    /\ \E t \in Taken : owner = [p \in Pages |-> IF p \in t THEN "others" ELSE "free"]
    /\ memory = << >> /\ readable = {}
    /\ mapped = 0 /\ base = 0
    /\ ranges = << >>
    /\ others = 0

Map == Reserve \/ NothingReserved \/ LoadSegment \/ SegmentFails \/ ClearFaults \/ OthersMap
==============================================================================
