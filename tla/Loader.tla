-------------------------------- MODULE Loader --------------------------------
(***************************************************************************)
(* load_object (loader.rs) and the start of the program (main.rs): load    *)
(* the libraries an ELF file needs with the host's dlopen, map the file,   *)
(* register its symbols, apply its relocations, and call its initialisers  *)
(* and its entry.                                                          *)
(*                                                                         *)
(* A file has, besides its segments,                                       *)
(*    needed      names of libraries (DT_NEEDED)                           *)
(*    symbols     [name, bind, default, defined, value], the dynamic       *)
(*                symbol table; default: the visibility is STV_DEFAULT     *)
(*    relocs      [type, at, symbol, addend], symbol an index              *)
(*    init        offset of the DT_INIT function, or 0                     *)
(*    init_array  <<offset, number of entries>>                            *)
(*    entry       offset of the entry, or 0                                *)
(* and a word of the image is one of memory's bytes.  Names and paths of   *)
(* libraries are sequences of syllables, so that one can end with another. *)
(***************************************************************************)
EXTENDS Mapping, SequencesExt

CONSTANTS
    Host,            \* the host's libraries: [path -> [needs, symbols]]
    Opens,           \* the path that dlopen finds for a name
    Started,         \* paths of the objects loaded when xob64 starts, in order
    Overrides        \* names in overrides/libc.rs's table

Paths == DOMAIN Host \cup ToSet(Started)

(* dlopen finds a library under one name, and an object is loaded once. *)
ASSUME HostAssumption ==
    /\ \A name \in DOMAIN Opens : Opens[name] \in DOMAIN Host
    /\ IsInjective(Opens)
    /\ \A path \in DOMAIN Host : Host[path].needs \in Seq(DOMAIN Host)
    /\ Started \in Seq(Paths) /\ IsInjective(Started)

RelocRecord == [type : STRING, at : Nat, symbol : Nat, addend : Int]

(* What linkers produce for a position-independent program: a slot has one *)
(* relocation and lies in a segment that can be written, and each entry of *)
(* the array of initialisers is such a slot, with a relative relocation.   *)
ASSUME FileFormat == \A e \in Elfs :
    /\ e.relocs \in Seq(RelocRecord)
    /\ \A i, j \in DOMAIN e.relocs : e.relocs[i].at = e.relocs[j].at => i = j
    /\ \A i \in DOMAIN e.relocs : \E j \in DOMAIN e.segments :
         LET s == e.segments[j]
         IN  s.w /\ s.address <= e.relocs[i].at /\ e.relocs[i].at < s.address + s.size
    /\ e.init_array \in Nat \X Nat
    /\ \A k \in 1 .. e.init_array[2] : \E i \in DOMAIN e.relocs :
         e.relocs[i].type = "RELATIVE" /\ e.relocs[i].at = e.init_array[1] + k - 1

SymbolRecord == [name : STRING, bind : {"LOCAL", "GLOBAL", "WEAK", "UNIQUE"}, default : BOOLEAN,
                 defined : BOOLEAN, value : Nat]

(* The dynamic symbol table has one entry for a name, and perhaps a local  *)
(* one, which is a definition (versions of symbols are left out).          *)
ASSUME SymbolFormat == \A e \in Elfs :
    /\ e.needed \in Seq(Seq(STRING))
    /\ e.symbols \in Seq(SymbolRecord)
    /\ \A i, j \in DOMAIN e.symbols :
         e.symbols[i].name = e.symbols[j].name /\ (e.symbols[i].bind = "LOCAL" <=> e.symbols[j].bind = "LOCAL") => i = j
    /\ \A i \in DOMAIN e.symbols : e.symbols[i].bind = "LOCAL" => e.symbols[i].defined
    /\ \A i \in DOMAIN e.relocs : e.relocs[i].type \in {"GLOB_DAT", "JUMP_SLOT"} => e.relocs[i].symbol \in DOMAIN e.symbols

VARIABLES
    process,          \* paths of the loaded objects, in dl_iterate_phdr's order
    wrapped_libs,     \* [name, handle, info]: what dlopen and the lookup found
    global_symbols,   \* the pool's table of names
    local_symbols,    \* the object's own
    init_array,       \* what is to be called
    called            \* runner::call's pointers so far

bindvars == <<process, wrapped_libs, global_symbols, local_symbols, init_array, called>>
vars == <<elf, phase, idx, mapvars, bindvars>>

Address(n) == <<"address", n>>

Init ==
    /\ MappingInit
    /\ phase = "needed"
    /\ process = Started
    /\ wrapped_libs = << >>
    /\ global_symbols = << >> /\ local_symbols = << >>
    /\ init_array = << >> /\ called = << >>

------------------------------------------------------------------------------
(* Libraries *)

LdLinux == <<"ld-linux-aarch64.so">>
LibC    == <<"lib", "c.so">>

(* What overrides/libc.rs replaces, the host's C library has. *)
ASSUME OverrideAssumption ==
    \A name \in DOMAIN Opens : IsPrefix(LibC, name) => Overrides \subseteq DOMAIN Host[Opens[name]].symbols

EndsWith(path, name) == IsSuffix(name, path)

(* dlopen loads a library, and those it needs behind it, unless loaded. *)
Dlopen(path) ==
    LET order == <<path>> \o Host[path].needs
        opened[k \in 0 .. Len(order)] ==
            IF k = 0 THEN process
            ELSE IF order[k] \in ToSet(opened[k - 1]) THEN opened[k - 1] ELSE Append(opened[k - 1], order[k])
    IN  opened[Len(order)]

(* The loaded objects whose path ends with the name, and the first of them. *)
Matching(name, objects) == {k \in DOMAIN objects : EndsWith(objects[k], name)}
loaded_object_info(name, objects) == objects[Min(Matching(name, objects))]

(* Faulty: compares the last syllable only. *)
AlreadyWrappedLoosely(name) == \E k \in DOMAIN wrapped_libs : Last(wrapped_libs[k].info) = Last(name)

AlreadyWrapped(name) == \E k \in DOMAIN wrapped_libs : EndsWith(wrapped_libs[k].info, name)

Needed == elf.needed[idx]
ReachedNeeded == phase = "needed" /\ idx \in DOMAIN elf.needed
Handled == AlreadyWrapped(Needed) \/ IsPrefix(LdLinux, Needed)

SkipNeeded ==
    /\ ReachedNeeded /\ Handled
    /\ idx' = idx + 1
    /\ UNCHANGED <<elf, phase, mapvars, bindvars>>

(* try_load *)
OpenNeeded ==
    /\ ReachedNeeded /\ ~Handled
    /\ Needed \in DOMAIN Opens
    /\ process' = Dlopen(Opens[Needed])
    /\ Matching(Needed, process') # {}
    /\ wrapped_libs' = Append(wrapped_libs, [name   |-> Needed,
                                             handle |-> Opens[Needed],
                                             info   |-> loaded_object_info(Needed, process')])
    /\ idx' = idx + 1
    /\ UNCHANGED <<elf, phase, mapvars, global_symbols, local_symbols, init_array, called>>

NeededFails ==
    /\ ReachedNeeded /\ ~Handled
    /\ Needed \in DOMAIN Opens => Matching(Needed, Dlopen(Opens[Needed])) = {}
    /\ phase' = "no_library"
    /\ UNCHANGED <<elf, idx, mapvars, bindvars>>

AllNeeded ==
    /\ phase = "needed"
    /\ idx > Len(elf.needed)
    /\ phase' = "reserve"
    /\ UNCHANGED <<elf, idx, mapvars, bindvars>>

(* dlsym searches the library and those it needs. *)
Dlsym(path, name) == \E p \in {path} \cup ToSet(Host[path].needs) : name \in DOMAIN Host[p].symbols

(* WrappedLib::get_symbol: an override, or the entry in the table of the   *)
(* object whose information was found.                                     *)
HasSymbol(lib, name) ==
    \/ IsPrefix(LibC, lib.name) /\ name \in Overrides
    \/ /\ Dlsym(lib.handle, name)
       /\ name \in DOMAIN Host[lib.info].symbols
       /\ Host[lib.info].symbols[name].bind \in {"GLOBAL", "WEAK"}

HostSymbol(path, name) == <<IF Host[path].symbols[name].function THEN "proxy" ELSE "object", path, name>>

WrappedSymbol(lib, name) ==
    IF IsPrefix(LibC, lib.name) /\ name \in Overrides THEN <<"override", name>> ELSE HostSymbol(lib.info, name)

Providers(name) == {k \in DOMAIN wrapped_libs : HasSymbol(wrapped_libs[k], name)}
FromLibrary(name) == WrappedSymbol(wrapped_libs[Min(Providers(name))], name)

(* ObjectPool::get_symbol *)
Known(name) == name \in DOMAIN global_symbols \/ Providers(name) # {}

(* Faulty: asks the libraries before the pool's own table. *)
LibrariesFirst(name) ==
    IF Providers(name) # {} THEN FromLibrary(name) ELSE global_symbols[name]

get_symbol(name) ==
    IF name \in DOMAIN global_symbols THEN global_symbols[name] ELSE FromLibrary(name)

------------------------------------------------------------------------------
(* Symbols and relocations *)

(* Faulty: hidden symbols too. *)
AnyVisibility(k, binds) == elf.symbols[k].defined /\ elf.symbols[k].bind \in binds

Registered(k, binds) == elf.symbols[k].defined /\ elf.symbols[k].default /\ elf.symbols[k].bind \in binds

(* Later entries of the table replace earlier ones of the same name. *)
Table(binds) ==
    LET entries == {k \in DOMAIN elf.symbols : Registered(k, binds)}
        named(n) == {k \in entries : elf.symbols[k].name = n}
    IN  [n \in {elf.symbols[k].name : k \in entries} |-> Address(base + elf.symbols[Max(named(n))].value)]

RegisterSymbols ==
    /\ phase = "map"
    /\ idx > Len(elf.segments)
    /\ global_symbols' = Table({"GLOBAL", "WEAK"})
    /\ local_symbols' = Table({"LOCAL"})
    /\ phase' = "relocate"
    /\ idx' = 1
    /\ UNCHANGED <<elf, mapvars, process, wrapped_libs, init_array, called>>

Relative(r) == Address(base + r.addend)

Relocs == {"RELATIVE", "GLOB_DAT", "JUMP_SLOT"}

Binds(r) ==
    /\ r.type \in {"GLOB_DAT", "JUMP_SLOT"}
    /\ elf.symbols[r.symbol].bind # "WEAK"

Reloc == elf.relocs[idx]
ReachedReloc == phase = "relocate" /\ idx \in DOMAIN elf.relocs
SymbolName(r) == elf.symbols[r.symbol].name
Write(at, value) == memory' = [memory EXCEPT ![base + at] = value]

RelocateRelative ==
    /\ ReachedReloc /\ Reloc.type = "RELATIVE"
    /\ Write(Reloc.at, Relative(Reloc))
    /\ idx' = idx + 1
    /\ UNCHANGED <<elf, phase, owner, readable, mapped, base, ranges, others, bindvars>>

(* Names that a library provides are cached among the global ones. *)
RelocateSymbol ==
    /\ ReachedReloc /\ Binds(Reloc)
    /\ LET name == SymbolName(Reloc)
       IN  \/ /\ name \in DOMAIN local_symbols
              /\ Write(Reloc.at, local_symbols[name])
              /\ UNCHANGED global_symbols
           \/ /\ name \notin DOMAIN local_symbols /\ Known(name)
              /\ Write(Reloc.at, get_symbol(name))
              /\ global_symbols' = [n \in DOMAIN global_symbols \cup {name} |->
                                      IF n = name THEN get_symbol(name) ELSE global_symbols[n]]
    /\ idx' = idx + 1
    /\ UNCHANGED <<elf, phase, owner, readable, mapped, base, ranges, others, process, wrapped_libs,
                   local_symbols, init_array, called>>

SkipWeak ==
    /\ ReachedReloc /\ Reloc.type \in {"GLOB_DAT", "JUMP_SLOT"} /\ ~Binds(Reloc)
    /\ idx' = idx + 1
    /\ UNCHANGED <<elf, phase, mapvars, bindvars>>

RelocationFails ==
    /\ ReachedReloc
    /\ \/ Reloc.type \notin Relocs
       \/ Binds(Reloc) /\ SymbolName(Reloc) \notin DOMAIN local_symbols /\ ~Known(SymbolName(Reloc))
    /\ phase' = "not_bound"
    /\ UNCHANGED <<elf, idx, mapvars, bindvars>>

------------------------------------------------------------------------------
(* Initialisers and entry *)

(* Faulty: DT_INIT's function goes behind the array. *)
InitLast ==
    [k \in 1 .. elf.init_array[2] |-> memory[base + elf.init_array[1] + k - 1]]
      \o (IF elf.init # 0 THEN <<Address(base + elf.init)>> ELSE << >>)

(* collect_init_fini: DT_INIT's function, then the array as it is now. *)
Initialisers ==
    (IF elf.init # 0 THEN <<Address(base + elf.init)>> ELSE << >>)
      \o [k \in 1 .. elf.init_array[2] |-> memory[base + elf.init_array[1] + k - 1]]

CollectInit ==
    /\ phase = "relocate"
    /\ idx > Len(elf.relocs)
    /\ init_array' = Initialisers
    /\ phase' = "init"
    /\ idx' = 1
    /\ UNCHANGED <<elf, mapvars, process, wrapped_libs, global_symbols, local_symbols, called>>

(* The guest is called; what becomes of it there is not the loader's.      *)
CallInit ==
    /\ phase = "init"
    /\ idx \in DOMAIN init_array
    /\ called' = Append(called, init_array[idx])
    /\ idx' = idx + 1
    /\ UNCHANGED <<elf, phase, mapvars, process, wrapped_libs, global_symbols, local_symbols, init_array>>

(* main: get_entry and call it. *)
CallEntry ==
    /\ phase = "init"
    /\ idx > Len(init_array)
    /\ IF elf.entry # 0
         THEN called' = Append(called, Address(base + elf.entry)) /\ phase' = "entered"
         ELSE phase' = "no_entry" /\ UNCHANGED called
    /\ UNCHANGED <<elf, idx, mapvars, process, wrapped_libs, global_symbols, local_symbols, init_array>>

Link == RegisterSymbols \/ RelocateRelative \/ RelocateSymbol \/ SkipWeak \/ RelocationFails
Start == CollectInit \/ CallInit \/ CallEntry

Next ==
    \/ SkipNeeded \/ OpenNeeded \/ NeededFails \/ AllNeeded
    \/ Map /\ UNCHANGED bindvars
    \/ Link
    \/ Start

Spec == Init /\ [][Next]_vars

------------------------------------------------------------------------------
(* Types *)

Failures == {"no_library", "not_reserved", "not_mapped", "not_writable", "not_bound", "no_entry"}

(* The pool's own bookkeeping: positions stay in their lists, tables hold  *)
(* addresses of the object or of libraries, and what a range or a segment  *)
(* occupies is the object's.                                               *)
LoaderTypeOK ==
    /\ phase \in {"needed", "reserve", "map", "relocate", "init", "entered"} \cup Failures
    /\ owner \in [Pages -> {"free", "self", "others"}]
    /\ base \in Addrs /\ mapped \in 0 .. base
    /\ \A k \in DOMAIN ranges : ranges[k][1] >= 0 /\ ranges[k][1] < ranges[k][2] /\ ranges[k][2] <= Space
    /\ \A k \in DOMAIN wrapped_libs : {wrapped_libs[k].handle, wrapped_libs[k].info} \subseteq ToSet(process)
    /\ \A a \in Addrs : a \in DOMAIN memory <=> owner[a \div PageSize] = "self"
    /\ IsInjective(process)

------------------------------------------------------------------------------
(* Mapping *)

Loaded == phase \in {"relocate", "init", "entered", "not_bound", "no_entry"}
Segments == {elf.segments[j] : j \in DOMAIN elf.segments}
BytesOf(s) == base + s.address .. segment_end(base, s) - 1

(* Slots that relocations applied so far have written. *)
Relocated == {base + elf.relocs[j].at : j \in {i \in DOMAIN elf.relocs : phase # "relocate" \/ i < idx}}

(* Once all segments are mapped, each byte of each is the file's, or zero  *)
(* behind the file's part, whatever was mapped after it, and only slots of *)
(* relocations ever change (load_segment, resolve_relocations).            *)
ImageExact ==
    Loaded => \A s \in Segments : \A a \in BytesOf(s) \ Relocated :
        memory[a] = IF a < file_load_end(base, s) THEN File(s.offset + a - (base + s.address)) ELSE Zero

(* Although the addresses were given back before they are used, and one of *)
(* the two mmaps replaces what it finds, a page that somebody else mapped  *)
(* is never taken from him (generate_suitable_base_addr, load_segment).    *)
OthersKept == [][\A p \in Pages : owner[p] = "others" => owner'[p] = "others"]_vars

Block(b, s) == PagesOf(aligned_addr(b, s), mapping_end(b, s))

(* No alignment is coarser than the first segment's, offsets agree with    *)
(* addresses, and no two segments share a block of their alignment.        *)
WellLaidOut ==
    /\ \A s \in Segments : /\ base_alignment(elf) % Alignment(s) = 0
                           /\ s.offset % Alignment(s) = s.address % Alignment(s)
    /\ \A i, j \in DOMAIN elf.segments :
         i < j => Block(base, elf.segments[i]) \cap Block(base, elf.segments[j]) = {}

Intruded == \E p \in PagesOf(mapped, mapped + Reserved(elf)) : owner[p] = "others"

(* Only a file whose segments need a coarser alignment than its first, or  *)
(* share a block, or another mapping inside the range that was found free, *)
(* stops the loader here: what a well laid out file needs was reserved.    *)
MappingAborts == phase = "not_mapped" => ~WellLaidOut \/ Intruded

(* The permissions of a segment of code that only the processor is to read.*)
ExecuteOnly(s) == s.x /\ ~s.r /\ ~s.w

(* The ranges told to the translator are whole pages, each one mapped from *)
(* the file or cleared, and readable unless the segment is execute-only:   *)
(* load_segment maps that without PROT_READ, announces it all the same,    *)
(* and the translator, which reads code as data, faults there              *)
(* (compile_chunk).  The ranges hold every executable segment, and no byte *)
(* of a segment that is writable only.                                     *)
RangesWhole ==
    /\ \A k \in DOMAIN ranges : \E s \in Segments :
         /\ s.x /\ ranges[k] = ExecRange(base, s)
         /\ ranges[k][1] % PageSize = 0 /\ ranges[k][2] % PageSize = 0
         /\ \A a \in ranges[k][1] .. ranges[k][2] - 1 :
              /\ a \in DOMAIN memory /\ memory[a] # Beyond
              /\ a \div PageSize \in readable <=> ~ExecuteOnly(s)
    /\ Loaded => \A s \in Segments : \A a \in BytesOf(s) :
         /\ s.x => \E k \in DOMAIN ranges : ranges[k][1] <= a /\ a < ranges[k][2]
         /\ s.w /\ ~s.x => ~\E k \in DOMAIN ranges : ranges[k][1] <= a /\ a < ranges[k][2]

------------------------------------------------------------------------------
(* Libraries *)

IsLdLinux(name) == IsPrefix(LdLinux, name)

(* The libraries the file asks for. *)
Needing == {k \in DOMAIN elf.needed : ~IsLdLinux(elf.needed[k])}
IsLibrary(path, k) == elf.needed[k] \in DOMAIN Opens /\ path = Opens[elf.needed[k]]
Served(k) == \E j \in DOMAIN wrapped_libs : IsLibrary(wrapped_libs[j].handle, k) /\ IsLibrary(wrapped_libs[j].info, k)

(* Another loaded object's path ends with the library's name, ... *)
Mistaken(k) == \E path \in ToSet(process) : EndsWith(path, elf.needed[k]) /\ ~IsLibrary(path, k)
(* ... or the library was taken for another one. *)
Displaced(k) == \E j \in DOMAIN wrapped_libs : IsLibrary(wrapped_libs[j].info, k) /\ ~IsLibrary(wrapped_libs[j].handle, k)

(* Every library the file needs is opened and its own symbol table is      *)
(* searched, except where a path ends with the name of another library;    *)
(* and then only if its own path comes first (handle_needed,               *)
(* loaded_object_info).                                                    *)
NeededServed ==
    phase \notin {"needed", "no_library"} => \A k \in Needing :
        /\ Served(k) \/ Mistaken(k) \/ Displaced(k)
        /\ Served(k) => IsLibrary(loaded_object_info(elf.needed[k], process), k)

------------------------------------------------------------------------------
(* Bindings *)

Own(name) == {k \in DOMAIN elf.symbols : /\ elf.symbols[k].name = name
                                         /\ elf.symbols[k].defined /\ elf.symbols[k].default
                                         /\ elf.symbols[k].bind # "LOCAL"}

(* The library that ELF's search finds a name in: breadth first, those the *)
(* file needs before those which these need.                               *)
Exports(path, name) == name \in DOMAIN Host[path].symbols
Libraries == {k \in Needing : elf.needed[k] \in DOMAIN Opens}
Library(k) == Opens[elf.needed[k]]
Direct(name) == {k \in Libraries : Exports(Library(k), name)}
NeedsOf(k, name) == {i \in DOMAIN Host[Library(k)].needs : Exports(Host[Library(k)].needs[i], name)}
Behind(name) == {k \in Libraries : NeedsOf(k, name) # {}}
Exporter(name) ==
    IF Direct(name) # {} THEN Library(Min(Direct(name)))
    ELSE LET k == Min(Behind(name)) IN Host[Library(k)].needs[Min(NeedsOf(k, name))]
Exported(name) == Direct(name) # {} \/ Behind(name) # {}
IsLibC(path) == \E name \in DOMAIN Opens : IsPrefix(LibC, name) /\ Opens[name] = path

Resolves(s) == s.defined \/ Own(s.name) # {} \/ Exported(s.name)

(* What ELF says a symbol's slot is to hold. *)
Private(s) == s.defined /\ (s.bind = "LOCAL" \/ ~s.default)
Definition(s) ==
    CASE Private(s) -> Address(base + s.value)
      [] ~Private(s) /\ Own(s.name) # {} -> Address(base + elf.symbols[CHOOSE k \in Own(s.name) : TRUE].value)
      [] OTHER -> LET path == Exporter(s.name)
                  IN  IF s.name \in Overrides /\ IsLibC(path) THEN <<"override", s.name>>
                      ELSE HostSymbol(path, s.name)

SymbolOf(r) == elf.symbols[r.symbol]
SymbolSlots == {j \in DOMAIN elf.relocs : elf.relocs[j].type \in {"GLOB_DAT", "JUMP_SLOT"}}
Bound(j) == IF Resolves(SymbolOf(elf.relocs[j]))
              THEN memory[base + elf.relocs[j].at] = Definition(SymbolOf(elf.relocs[j]))
              ELSE SymbolOf(elf.relocs[j]).bind = "WEAK"

(* The loader does not see: definitions behind a weak reference, ...       *)
SkipsWeak(s) == s.bind = "WEAK" /\ Resolves(s)
(* ... its own symbols that are unique or hidden from others, ...          *)
Unregistered(s) == s.defined /\ (s.bind = "UNIQUE" \/ ~s.default)
(* ... those of a library that only another library needs or that is       *)
(* mistaken for another, and those that are unique in it.                  *)
Imported(s) == ~s.defined /\ Own(s.name) = {} /\ Exported(s.name)
Unsearched(s) ==
    /\ Imported(s)
    /\ LET path == Exporter(s.name)
       IN  \/ \A j \in DOMAIN wrapped_libs : wrapped_libs[j].handle # path \/ wrapped_libs[j].info # path
           \/ Host[path].symbols[s.name].bind \notin {"GLOBAL", "WEAK"}
(* It takes what a library, mistaken for another, has of the name, ... *)
Preempted(s) ==
    /\ Imported(s) /\ Providers(s.name) # {}
    /\ LET lib == wrapped_libs[Min(Providers(s.name))] IN lib.handle # lib.info
(* ... or a local symbol of the name. *)
Shadowed(s) == s.bind \notin {"LOCAL", "WEAK"} /\ s.name \in DOMAIN local_symbols

Misbound(s) == SkipsWeak(s) \/ Unregistered(s) \/ Unsearched(s) \/ Preempted(s) \/ Shadowed(s)

(* A slot holds the address that ELF's symbol resolution gives, through    *)
(* landing pads and caches, but for the forms of Misbound; only those and  *)
(* names nobody defines stop the loader (resolve_relocations,              *)
(* ObjectPool::get_symbol, WrappedLib::get_symbol).                        *)
SlotsBound ==
    /\ phase \in {"init", "entered"} => \A j \in SymbolSlots : Bound(j) \/ Misbound(SymbolOf(elf.relocs[j]))
    /\ phase = "not_bound" /\ Reloc.type \in Relocs => Misbound(SymbolOf(Reloc)) \/ ~Resolves(SymbolOf(Reloc))

(* Each of those forms does leave a slot without its definition.           *)
MisboundWrong ==
    phase \in {"init", "entered"} => \A j \in SymbolSlots : Misbound(SymbolOf(elf.relocs[j])) => ~Bound(j)

(* The function an entry of the array stands for. *)
ArrayEntry(at) == LET j == CHOOSE i \in DOMAIN elf.relocs : elf.relocs[i].at = at
                  IN  Address(base + elf.relocs[j].addend)
StartUp == (IF elf.init # 0 THEN <<Address(base + elf.init)>> ELSE << >>)
             \o [k \in 1 .. elf.init_array[2] |-> ArrayEntry(elf.init_array[1] + k - 1)]
             \o (IF elf.entry # 0 THEN <<Address(base + elf.entry)>> ELSE << >>)

(* The guest runs DT_INIT's function, then the array's in order, then the  *)
(* entry, at their relocated addresses, and not before every slot is bound *)
(* (collect_init_fini, load_object, main).                                 *)
InitialisersInOrder ==
    /\ IsPrefix(called, StartUp)
    /\ phase = "entered" => called = StartUp
    /\ called # << >> => /\ phase \in {"init", "entered", "no_entry"}
                         /\ \A r \in ToSet(elf.relocs) : r.type = "RELATIVE" => memory[base + r.at] = Address(base + r.addend)
==============================================================================
