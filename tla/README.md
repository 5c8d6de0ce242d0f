# A verification of xob64

xob64 runs an ARM64 Linux program on an x86-64 host. It maps the program's ELF
objects, translates their code to x86-64 one chunk at a time as it is reached,
and lets the translated code call the host's own libraries directly. This
directory holds TLA+ models of it, what TLC checks of them, and what TLAPS
proves of them. All definitions are translated from the Rust sources under
`src/src/`; paths below are relative to that directory.

Contents: [the system](#the-system) · [modules](#modules) · [runs](#what-each-run-checks) ·
[fairness](#fairness) · [proofs](#what-is-proved) · [findings](#what-was-found) ·
[limits](#what-is-not-modelled) · [plan](#plan)

## The system

| component | sources | state | operations |
|---|---|---|---|
| Translation pool | `runner.rs`, `runner/compiler.rs` | `ExecPool`: `exec_ranges`, `executable_map` (chunk address → `instr_map`, `addr`, `len`), `fully_used_allocs`, `current_alloc`, `current_alloc_utilization`; the executable memory itself | `define_exec_range`, `get_exec`, `from_exec`, `compile_chunk`, `finalize_ass`, `alloc_new_region`, `alloc_code` |
| Branch translation and dispatch | `runner/compiler/branch.rs`, `runner/callbacks.rs`, `runner/compiler/pauth.rs` | native program counter; x30 in r11; the shadow stack of an `ExecCtx` (pairs of guest and native return address); code that is patched while it runs | the code emitted for B, B.cond, CBZ, TBZ, BL, BR, BLR, RET; callbacks `rewrite_branch`, `indirect_jump`, `end_of_chunk`, `unimplemented_arm_instr`, `invalid_arm_instr` |
| Host calls | `wrapped/proxy.rs`, `wrapped.rs`, `wrapped/overrides/libc.rs` | a proxy (native code) per imported function | `create_lib_proxy`; `__libc_start_main`, which runs `main` on an `ExecCtx` of its own |
| Register homes and landing pads | `runner/compiler/register.rs`, `runner/callbacks.rs` | 31 integer and 32 vector registers and the flags, in x86-64 registers or in cells of `ExecCtx` | `translate_reg`, `post_write`, `resumable_landing_pad` |
| Call frame | `runner.rs` (`call`) | the machine stack around a call into guest code | one asm block: align, terminate, reserve, copy, jump, and back |
| Loader | `loader.rs`, `main.rs` | `ObjectPool`: loaded objects, opened libraries, global symbols; the address space; the object's memory | `handle_needed`, `generate_suitable_base_addr`, `load_segment`, `resolve_relocations`, `collect_init_fini`, `load_object`, `main` |
| Library symbol lookup | `wrapped/elf_lookup.rs`, `wrapped/overrides.rs`, `wrapped.rs` | none (reads a library's tables) | `SymbolFinder::new`, `lookup`, `loaded_object_info`, override table, `get_symbol` |
| Arithmetic and logic | `runner/compiler/arith.rs`, `instr_utils.rs` | none (emits code) | one emitter per instruction group |
| Loads and stores | `runner/compiler/load_store.rs` | none (emits code) | addressing modes, pairs, write-back |
| Debug output | `runner/compiler/dump.rs` | none | logging |

How they interact. `main` loads the program; the loader tells the pool which
segments are executable, asks for a proxy for every import, then calls each
initialiser and finally the entry point through `runner::call`. `call` asks
`get_exec` for the native address, builds the stack of a new process and jumps.
From then on translated code runs by itself. It leaves for the host

* at a branch whose target was not translated when the branch was
  (`rewrite_branch` translates it and overwrites the call by a jump),
* at the end of a chunk (`end_of_chunk`, likewise),
* at BR, BLR, and a return the shadow stack did not predict (`indirect_jump`),
* at a proxy, which calls a library function and returns as RET does.

Most of what a chunk holds never leaves: it computes, loads and stores on the
guest's registers, some of which live in x86-64 registers and some in memory, and
the same translator function must be right for every combination of homes.

One guest thread exists and no signal handler is installed, so nothing runs
*between* the native instructions of a step but the callback they call. What
makes this system hard is order: which chunk is translated when, hence which
branch is linked at once, which through a patch; where a new region begins; and
a cache of native addresses that spreads into jumps, the shadow stack and the
machine stack, all of which must stay true.

What makes each component correct, and the hard part of it:

* **Pool** – blocks never overlap and stay in their region; `from_exec` inverts the
  translation on every byte; a translation never moves; every link leads to the
  translation of its target. Hard: regions filling up, instructions that emit no
  code, the call at a chunk's end that belongs to no instruction.
* **Dispatch** – translated code does what an ARM64 processor does, and does not
  stop doing it. Hard: programs that return elsewhere than they were called
  from; patches while return addresses behind the patch are live.
* **Host calls** – calls return, predicted, to their caller. Hard: tail calls
  into a library, `main` nested in a host function.
* **Registers** – no two share a home; none is lost in a callback. Hard: two
  index schemes over one array; the first execution of a branch runs a callback,
  the second does not.
* **Symbol lookup** – the same answer as a search of the whole table. Hard: the end
  of a bucket is one bit of a hash, and reads are unchecked.
* **Call frame** – the frame the ABI prescribes, and rsp restored. Hard: parity.
* **Arithmetic, loads and stores** – an emitted sequence has the effect of the instruction,
  on every register, memory and the flags. Hard: a sequence writes some of its
  outputs before it has read all of its inputs; operands alias; scratch registers are guest
  registers; x86's carry is not ARM's; x86 instructions change flags where ARM's do not.
* **Loader** – the image, the executable ranges, the bindings and the order of start-up are
  those the ELF file asks for, and nobody else's memory is touched. Hard: the range
  that is reserved is given back before it is used; three roundings have to agree;
  five tables of names are searched in turn.

The full list of hazards, each with its line and the property that covers it,
is in `PROJECT.json`.

## Modules

```
GuestCode ──> ArmGuest ···········(abstract)
    │             ^ INSTANCE, refinement
    └──> ExecPool ──> Dispatch                   GuestContext ──┬── MCGuestContext
            │             ├── MCDispatch                        └── ContextProofs
            │             ├── MCCalls
            │             └── MCLinkRegister     CallFrame ── CallFrameProofs
            ├── MCExecPool
            └── ExecPoolProofs                   GnuHash ──┬── MCGnuHash
                  └── DispatchProofs                       └── GnuHashProofs

Words ──┬── NativeCode ── Operands ──┬── Arith ──────┐
        │                            └── LoadStore ──┼── Instructions ──┬── MCInstructions
        └── ArmData ──(reference)────────────────────┘                  └── InstructionsProofs
                                                                              └── SimulationProofs

Mapping ── Loader ──┬── MCLoader
                    └── LoaderProofs
```

**GuestCode.** The guest program as the translator sees it. A program is a
function from addresses, counted in instructions, to records that keep control
flow and the two registers that carry code pointers: x30, and one other ("x17").
The operations named are groups: "op" is any instruction that only computes, "nop" one that
emits no code (BTI, pointer authentication), "undef" one that does not decode or is
not translated, "stop" one that the translator panics at. `EmitLen` is how many bytes an instruction becomes: a body and,
for those that leave, a jump or call at its very end, the *site*.

**ExecPool.** The state of `ExecPool` field by field, plus `proxies` and `sites`:
the native code that can be patched or followed, by address. Each action is one
function with everything it calls: `GetExec(ptr, patch)` is `get_exec` followed, if
the caller is a patching callback, by its `write_jump`; `CompileChunk` includes
`finalize_ass` and, if the block does not fit, `alloc_new_region`. The kernel's
choice of a region is a free choice among `MmapBases`; mmap may also fail. `compile_chunk` translates
all instructions of a chunk and unwraps what the encoder and each translation return, so a chunk with a "stop" anywhere
ends the process when it is first wanted (`CompilePanics`), from whichever caller. Both of these ends are status "abort"; a callback that
cannot make out where it was called from is status "panic" (`Panic`), so that the two are told apart.
`RewriteBranch` and `EndOfChunk` start from the return address on the stack,
through `from_exec`, exactly as the code does; `from_exec`'s hash-map
iteration is a choice among all chunks that hold the address.

| action or operator | code |
|---|---|
| `DefineExecRange`, `AllocCode` | `define_exec_range`, `alloc_code` |
| `Found`, `CompileChunk`, `CompilePanics`, `GetExec` | `get_exec`, `compile_chunk`, `finalize_chunk` |
| `Fits`, `Targets`, `FinalizeAss`, `AllocNewRegion`, `MmapFails` | `finalize_ass`, `alloc_new_region` |
| `FromExec`, `Within`, `LastAtOrBefore` | `from_exec` |
| `SiteCell`, `ChunkSites`, `WriteJump` | `make_jump`, `compile_chunk`, `write_jump` |
| `RewriteBranch`, `EndOfChunk`, `Panic` | the callbacks, and the panics they can meet |

**Dispatch** extends ExecPool with the machine that runs translated code: native
pc, x30 and x17, return addresses saved on the machine stack, the shadow stack.
There is one action for each instruction group (`ExecB`, `ExecBL`, `ExecRET`, ...),
one for the call at a chunk's end, for proxies (`HostCall`), for
`__libc_start_main`, for `runner::call` and its end, and one for each way to
die: SIGSEGV, an undefined instruction, the shadow stack beyond its last entry, the host's stack.

No emitted code checks the shadow stack's ends. At its far end (`ShadowCap` entries) the mapping may grow or not, and the model has
both: a push, or the death of the process. At its near end a return without a call reads above the mapping and, if something is
mapped there, goes on: with what it read not matching, the return is looked up like any unpredicted one, and `shadow_sp` stays above
the mapping (`beyond` counts by how many entries, `Depth` is what of the mapping is in use, negative above it). A program may so return more
often than it was called, come back inside, and run on. But the words above the mapping are not the emulator's: they may
match x30 by chance and send the return anywhere, a later call overwrites them, or they may not be there. From a step that
does one of these (`ShadowBeyond`) nothing more is known: status "lost". A host's call starts with an `ExecCtx` of its own, whose
cells are zero (`RegsAtCall`), and a shadow stack of its own.

**ArmGuest** is the abstract specification: a processor that executes the
program, with library functions callable through bound pointers. It has no
cache, no native addresses and no shadow stack. The emulator may give up (*crash*)
at any time; it may fault only where the program does; everything else must be what
the architecture says. It may *lose control* in one place only, which `LosesControl` states about the program alone: `gdepth` counts calls less
returns since the host's newest call, and a program that has used up its calls may be lost at its next return, or at a call that it makes
before it is back inside. A program that never returns more often than it was called is owed the architecture without exception; one that does is
owed it up to that step, and after it wherever the memory above the shadow stack does not mislead. Dispatch implements it under the mapping `gpc <- ArmOf(pc)`,
which takes a native address to the instruction translated there. Where
code emits nothing, control arriving at the instruction is control arriving at
the next that does something (`Land`).

**GuestContext.** Homes of registers as `translate_reg` and
`translate_indirect_reg` compute them, with the overlapping cells as they are in
the code; the landing pads' saves and restores word by word; the proxies; and
host code that may use every register the calling convention lets it. `file` is
the value each register ought to have.

**CallFrame.** The asm block of `runner::call`, one action for each group of
instructions between its labels, on an explicit stack whose old contents are
arbitrary.

**GnuHash.** `SymbolFinder::lookup`, one action for each of its steps, over the
table as memory: a function from word offsets to words, read at the offsets that
`SymbolFinder::new` computes. What a table holds is the linker's business: the
assumptions `BloomFormat`, `BucketFormat`, `ChainFormat` and `Grouped` state the
format by its own offsets, and MCGnuHash builds such tables from lists of symbols.

**Words, NativeCode, ArmData.** Two processors over the same words. NativeCode is the part of x86-64
that translations use, one instruction at a time, with its partial register
writes, its flags (a flag the manual leaves undefined is neither 0 nor 1), division
traps and push and pop. ArmData says what each ARM64 instruction does, in one step.
Neither is code of this repository: they are what the translation is measured against.

**Operands, Arith, LoadStore.** The translator: `translate_reg`, `pre_read`, `post_write`, the sequences
of `instr_utils.rs`, and one operator for each function of `arith.rs` and `load_store.rs`. Each returns
the sequence of native instructions that the function emits for an instruction, in order,
or that it panics or refuses. `make_jcc`, `inverse_condition` and the tests of CBZ and TBZ are those of `branch.rs`.

**Instructions.** A program of up to three instructions is translated as a whole, as a chunk is, and then
run beside ArmData from all start states at once (`worlds`), so that a property can
say that a translation is right for every input, and also that it is wrong for
some. The translator has mistakes, and a property that excludes them would say little; so each
kind of mistake is a predicate on instructions (`OverwritesSecond`,
`IgnoresSource`, ...). `ResultsExact`, `FlagsExact` and `TrapsExact` say that without these forms nothing goes wrong, and
`MistakesReal` that with one something does, for some input. A new mistake breaks one direction, a
repaired one the other. Which instructions there are is written down as the assumption `ProgramAssumption`: the formats
of `IsArithmetic`, `IsMove`, `IsConditional` and `IsTransfer`.

**Mapping, Loader.** `load_object`, in the order of the code, one action for each library, segment,
relocation and initialiser. Mapping is the address space: pages with an owner, the object's bytes with what they hold
(a byte of the file, zero, or SIGBUS) and which pages may be read, the reservation that is mapped and unmapped, each segment's two
mmaps and memset. A page can be read if its mapping has PROT_READ or PROT_WRITE (x86 has no write-only page); PROT_EXEC is never asked for. The rest of the process may map a free page at any time between
them. Loader adds libraries (the list dl_iterate_phdr walks, what dlopen adds to it, whose path a name is a
suffix of), the three tables of symbols, relocations, and the calls of `runner::call`. The properties compare with what
ELF says, written down independently (`Exporter`, `Definition`, `StartUp`), but for named exceptions,
which `MisboundWrong` shows to be real ones.

| action or operator | code |
|---|---|
| `SkipNeeded`, `OpenNeeded`, `NeededFails` | `handle_needed`, `WrappedLib::try_load`, `loaded_object_info` |
| `Reserve`, `NothingReserved` | `generate_suitable_base_addr` |
| `LoadSegment`, `SegmentFails`, `ClearFaults` | `load_segment` |
| `RegisterSymbols`, `RelocateRelative`, `RelocateSymbol`, `SkipWeak`, `RelocationFails` | `load_object`, `resolve_relocations` |
| `get_symbol`, `HasSymbol`, `WrappedSymbol` | `ObjectPool::get_symbol`, `WrappedLib::get_symbol` |
| `CollectInit`, `CallInit`, `CallEntry` | `collect_init_fini`, `load_object`, `main` |

Definitions whose comment begins with "Faulty:" (or "Different:", where the code itself is at fault) are not part of a model. Each is a plausible
mistake in the definition that follows it; `PROJECT.json` pairs each property
with one, and the property fails when the mistake is put in.

## What each run checks

| run | states | shows |
|---|---|---|
| `exec_pool` (MCExecPool) | 70 101 | `PoolTypeOK`, `BlocksInRegions`, `BlocksApart`, `Attribution`, `LinksCoherent`, `TranslationFinal`, `CallbacksResolve` |
| `dispatch` (MCDispatch) | 74 770 | `RefinesGuest` and `RefinesProgress` (the abstract specification), `ShadowCoherent`, `PointersApart` |
| `calls` (MCCalls) | 19 598 | for programs that obey the calling convention: `ReturnsPredicted`, `ShadowMirrorsStack`, `Balanced`, `CallsReturn` |
| `context` (MCGuestContext) | 7 056 | `RegistersKept`, `ControlFieldsKept`, `StackKept` |
| `call_frame` (CallFrame) | 6 856 | `EntryAligned`, `EntryFrame`, `FrameBounded` |
| `gnu_hash` (MCGnuHash) | 20 760 | `WalksBucket`, `LookupCorrect`, `LookupEnds` |
| `instructions` (MCInstructions) | 33 610 | `ResultsExact`, `FlagsExact`, `TrapsExact`, `MistakesReal`, `AbortsExact`, `InstrTypeOK` |
| `loader` (MCLoader) | 755 013 | `ImageExact`, `RangesWhole`, `MappingAborts`, `OthersKept`, `NeededServed`, `SlotsBound`, `MisboundWrong`, `InitialisersInOrder`, `LoaderTypeOK` |
| `blr_x30`, `context_alias`, `context_vector`, `call_frame_restored` | – | counterexamples, see [findings](#what-was-found) |

Bounds, and why they are enough.

* `exec_pool`: three chunks of two instructions, one of them not executable, an
  import, and three regions that hold one chunk or two. Two chunks suffice for every
  relation between a branch and its target (own chunk, translated, not yet
  translated, not executable), two instructions for a neighbour that
  emits nothing; with `AllocSize` 16 regions fill up in the middle of a run, in every
  placement. The 576 programs pair every kind of leaving instruction, and one the translator panics at, in both chunks. Requests
  come in any order. TLC's deadlock check is off: a pool with everything
  translated and linked has nothing left to do.
* `dispatch`: every program of four instructions in two chunks over an alphabet
  that has, for each position, branches to its own chunk, the other and out of
  the image, calls, returns, pointers to code, to no code, to a library function
  and to `__libc_start_main`, and an instruction that the translator panics at. Most of the 4 312 programs break the calling
  convention; the shadow stack is bounded by `ShadowCap` (2) plus the entry a
  growing mapping allows (`MaxShadow` 3), and `shadow_sp` may go one entry above the mapping (`MaxBeyond` 1), which is enough to return
  there, to call from there and to come back; the machine stack by `MaxStack` 2; running
  into a bound is a state of the model, as running into the limit is of the program.
* `calls`: six programs as a compiler writes them: recursion,
  mutual recursion, a library function called through a pointer and tail-called, a
  function pointer across chunks, `_start` calling `main`. Two calls by the host, the second
  with a warm cache.
* `context`: one register of each kind of home. Two values (written or junk) are
  enough, since every operation only moves values.
* `call_frame`: up to three arguments, both parities, any zero or non-zero old stack contents.
* `gnu_hash`: every table of up to three symbols that can be found, one or two buckets and
  Bloom words, repeated names included, and every name looked up in it; of the names, two
  collide fully and two in all but the last bit, which the chain words lack. Three symbols give
  a bucket a first, a middle and a last one, and a neighbour.
* `instructions`: 10 858 programs. Words keep their proportions with a byte of one bit (so "w" is 4 bits
  and "x" 8): every boundary the sequences have (a sign bit, a half register, a
  shift by a whole half) exists. Operands are drawn from two registers with a native home, two in `ExecCtx`, xzr, and where the code treats them
  specially x2 (rdx), x23 (r10, the borrowed register) and sp: what a sequence does
  depends on which operands are equal and which have a home, and all combinations
  occur. The twelve start states contain equal, opposite, zero and extreme operands and all conditions in both
  directions; a form listed as wrong has to fail on one of them, and
  a form not listed has to be right on all. Programs of two and three instructions set flags,
  use them in all sixteen conditions, chain CCMP, and go on behind a branch.
* `loader`: pages of 4 bytes, 11 pages. 2 340 layouts of two segments cover every residue of addresses and offsets, alignments below, at
  and above a page's and above the first segment's, .bss parts that are empty, end within
  a page or go on behind it, and files that end early; three more files have segments without read permission: code alone, on a page of its own behind
  other code, and one that is writable. The kernel finds room at every page modulo
  the coarsest alignment, and one page may be taken before and one during loading: one intruder is enough to be in the way.
  568 further files vary symbols (binding, visibility, defined or
  not, a local one of the same name), needed libraries (in both orders, repeated, one a suffix of another's path, one that
  cannot be found, one that another was taken for) and relocations.

`BodyLen`, `CallLen` and `JmpLen` are scaled down in the runs; the models use only
their order and that they are not zero, and the proofs hold for every value.

## Fairness

`LookupSpec` assumes that a lookup keeps running. `FairSpec` of Dispatch is weak
fairness of `Step`: while translated or host code can execute, it does. One thread runs and neither waits for anything nor takes a lock
another thread holds, so this is no more than that the host's processor runs. No
fairness is assumed of the loader or of the host's calls. Which way a
conditional branch goes is a free choice without fairness, but a bounded
stack keeps `calls`' programs from recursing for ever.

## What is proved

TLAPS checks these for every value of the constants that satisfies the named
assumptions: any guest image and program, any set of executable segments, any
region size that a block fits in, any placement by the kernel.

| theorem | states |
|---|---|
| `TypeCorrect` | `PoolSpec => []PoolTypeOK` |
| `LayoutInRegions` | `PoolSpec => []BlocksInRegions` |
| `LayoutApart` | `PoolSpec => []BlocksApart` |
| `AttributionCorrect` | `PoolSpec => []Attribution` |
| `TranslationsFinal` | `PoolSpec => TranslationFinal` |
| `CallbacksNeverPanic` | `PoolSpec => []CallbacksResolve` |
| `LinksAreCoherent` | `PoolSpec => []LinksCoherent` |
| `WalkInBounds` | `LookupSpec => []WalksBucket` |
| `LookupFinds` | `LookupSpec => []LookupCorrect` |
| `EntryIsAligned` | `FrameSpec => []EntryAligned` |
| `EntryHasFrame` | `FrameSpec => []EntryFrame` |
| `FrameIsBounded` | `FrameSpec => []FrameBounded` |
| `ShadowIsCoherent`, `PointersStayApart` | `Spec => []ShadowCoherent`, `[]PointersApart` (Dispatch) |
| `TranslatorImplementsGuest` | `Spec /\ Conventional => RefinesGuest` |
| `ReturnsArePredicted` | `Spec /\ FollowsConvention => []ReturnsPredicted` |
| `ShadowMirrors` | `Spec /\ FollowsConvention => []ShadowMirrorsStack` |
| `CallsAreBalanced` | `Spec /\ FollowsConvention => []Balanced` |
| `RunningPoolIsSound` | with running code as its client the pool keeps `BlocksInRegions`, `BlocksApart`, `Attribution`, `LinksCoherent` |
| `RunningCodeIsFinal` | `Spec => TranslationFinal /\ []CallbacksResolve` (Dispatch) |
| `ReservationSuffices` | `Spec => []MappingAborts` (Loader) |
| `OthersNeverReplaced` | `Spec => OthersKept` (Loader) |
| `ImageIsExact`, `RangesAreWhole` | `Spec => []ImageExact`, `[]RangesWhole` (Loader) |
| `StartsInOrder` | `Spec => []InitialisersInOrder` (Loader) |
| `NeededAreServed`, `SlotsAreBound` | `Spec => []NeededServed`, `[]SlotsBound` (Loader) |
| `LoaderTypes` | `Spec => []LoaderTypeOK` |
| `ControlFieldsSafe`, `StackBalanced` | `ContextSpec => []ControlFieldsKept`, `[]StackKept` |
| `AbortsAreExact` | `Spec => []AbortsExact` (Instructions) |
| `RegistersTyped` | `Spec => []InstrTypeOK` (Instructions) |
| `ProgramsExact`, `FlagsTracked` | `Spec => []ResultsExact`, `[]FlagsExact` (Instructions) |
| `DivisionTraps` | `Spec => TrapsExact` (Instructions) |
| `RegistersSafe` | `ApartAndSaved` implies `ContextSpec => []RegistersKept` |

*Assumptions* (each stated by name in the module that declares the constants,
evaluated by TLC in every run): sizes are positive; the host's
landing pads and regions lie outside the guest's image and regions the kernel
returns are apart; a segment is a whole number of chunks; the encoder lays
instructions out in order, each right behind the last; no block is larger than
a region. The last is a property of the translator: the 128 instructions of a chunk
(`CHUNK_SIZE` 512), at most some 60 bytes each, take less than half of a region's 16 KiB. The labels
at which host code waits for a return lie outside the image and differ from each other and from the entry of
`__libc_start_main` (`LabelAssumption`); ADR stays in the image, and a slot is relocated to an import that was bound
(`PointerAssumption`). For the loader: the file is one a linker makes (`SegmentFormat`: a segment's part of the file is there
and no larger than the segment; `FileFormat`: a slot has one relocation and can be written, the entries of the initialisers' array
are such slots; `SymbolFormat`: a name has one dynamic symbol, and perhaps a local one besides), the host's libraries need libraries that
exist, dlopen finds each under one name and loads it once (`HostAssumption`), and the host's libc has what is overridden (`OverrideAssumption`).

*The argument.* `IInv` (ExecPoolProofs) is `PoolDataOK` (`PoolTypeOK` but for `status`, which Dispatch gives more values), `MapShape`,
`BlocksInRegions` and `BlocksApart`. None is inductive alone. That a new block
lies apart from the old ones depends on the accounting: the block goes behind
`current_alloc + current_alloc_utilization`, and only `BlocksInRegions`, whose third
conjunct says that all blocks in the *current* region end there, makes that
space free. That accounting in turn relies on a region never being returned twice, and
types rely on `from_exec` returning guest addresses, hence on `MapShape`: a chunk's first
offset is 0, so the scan always stops. `NewBlock` is the heart of it: wherever
`finalize_ass` puts a block, the layout survives; the actions only have to show
that the block they add is new and that they leave the others alone.

`Attribution` follows from `IInv` in any single state: `BlocksApart` leaves one
chunk that can hold the byte (`OneHolder`), and the encoder's monotone offsets
leave one instruction in it (`LastIs`).

`SitesInvariant` adds `SitesShape`: a patchable site lies in the block of the chunk
it belongs to, and a pending call to `rewrite_branch` is at the end of a direct branch.
A new chunk's sites cannot be those of an old one because their blocks are apart
(`FreshSites`); so a translation changes only where a callback patches the call it
was entered by, which is `TranslationFinal`. And since the byte a pending
call starts at belongs to the branch that emitted it, `from_exec` returns that
branch and no callback panics (`RewriteFound`), which is `CallbacksResolve`. It says nothing of the two other ends, a failed mmap and
a chunk that cannot be translated: those are no fault of attribution, and the code has no answer to them.

The last part of ExecPoolProofs shows that every jump leads to its target. `LinksCoherent` speaks of jumps only; to be inductive, `AllLinked` also
says that a site that is no jump yet is a call of the kind that fits it, so that `rewrite_branch` is never entered from a
chunk's end nor `end_of_chunk` from a branch. Each site has an offset of its own (`SiteOrder`), so `ChunkSites` loses none; for a
pending call `from_exec` returns the instruction it stands for (`SiteAttribution`), so the patch is for that instruction's target
(`RewriteTarget`, `EndTarget`) and no other site is touched. A jump within a chunk is right because a chunk is executable
as a whole (`WholeChunk`); that, and that a link stays right, needs that no segment is added once anything is
translated (`AllMapped`): `is_executable` would change its answer for a target that was linked as not executable.

DispatchProofs puts the machine on top. To run translated code is to hold native addresses, in pc and on the
shadow stack, while the pool goes on translating and patching. `MachineInv` therefore says of each of them that it is the translation
of a guest pointer (`NativeFor`), adds that host phases and labels fit together (`Phases`), and keeps the pool's invariants, for which each
step of the machine has to be one that `PoolSpec` allows (`PoolStepOf`): a callback only ever enters the pool at a pending
call or at a chunk's end, and segments are announced before anything runs. `RunningPoolIsSound` and `RunningCodeIsFinal`
are what follows for the pool: the same properties as of `PoolSpec`, for the requests that programs really make.
Native addresses stay true because translations are final (`NativeStays`); `ShadowIsCoherent` follows at once, for every program.
`PointersStayApart` is the other side of it: native addresses are on the shadow stack and in pc only, and no call, return or patch lets one into
a guest register or onto the machine stack, where the next translation would take it for a guest pointer.

`TranslatorImplementsGuest` is a forward simulation, one lemma for each action (`ExecBLStep`, `ExecRETStep`,
`ExecEndStep`, ...): under `gpc <- ArmOf(pc)` it is the guest's step, a stutter, or a crash where the specification
permits one. All transfers of control end in one of a few ways (a jump inside the chunk, a jump to another, a pending call that is
patched, a lookup), and each arrives at the translation of the target (`Arrives`, `SiteArrives`, `EndArrives`); from there on a single
lemma (`TransferStep`) serves all of them. It deals with instructions that emit nothing: the native address then belongs to several guest
addresses, and `Land` and `StartsIs` agree on the one that runs next. The theorem is conditional on `Conventional`: RET names
x30 and BLR does not. Both conditions are those under which the code is right (`branch.rs:317`, 327), and run `blr_x30` shows
the refinement fail without the second; run `dispatch` and the other clauses of the theorem need no calling convention at all: a program
may return anywhere, and more often than it was called. `ShadowBeyond` maps to `LosesControl` because `Depth` is the guest's own count of open calls
(`gdepth <- Depth`). For programs that follow the calling convention `ConventionInv` shows `beyond = 0` and status
never "lost" (`NeverBeyond`), so for them that exception is empty.

The remaining three theorems are about programs as compilers write them. `FollowsConvention` states that in terms of the code alone:
a kind of frame can be given to each instruction (none yet, x30 saved, or the process's start, which never returns) that every branch respects;
a function saves x30 before it calls, and restores it before it returns or tail-calls. MCCalls evaluates it for its
programs. `ConventionInv` describes the machine between any two instructions of such a program: each shadow entry but the oldest
belongs to an active function that saved its return address, in the order in which the machine stack holds them, and the function
that runs has its own in x30 or on top (`Activation`, `Ready`, `Callers`). A call adds an activation (`FramesCall`), a return takes one off
(`FramesReturn`), and that leaves no return unpredicted, whatever chunk translations and patches come between.
`Balanced` is the case of the oldest entry, the label of `runner::call`. None of the three is inductive alone.

GnuHashProofs strengthens `LookupCorrect` to what holds while the walk goes on: it is at a
symbol of the name's bucket, and no symbol of the name comes before it (`NoneBefore`). A
bucket's first word establishes that (`BucketStarts`), a chain word without its last bit
carries it on (`NotLast`), one with it closes the search (`NoneBehindLast`); each follows from
the symbols of a bucket being next to each other. Assumed is the format of the
table, for any hash function, number of symbols and arrangement.

CallFrameProofs holds for any number of arguments of any value but those that stand for null, junk and counts
(`ArgAssumption`). Its invariant says, for each place in the asm block, where rsp is and which words of
the frame are written by then; copying counts down, so it says that the arguments from the counter on are in place. Parity
enters once: the entry's depth is made even by the padding word.

LoaderProofs holds for any page size, any number of segments of any size, offset and alignment, any state of the
address space and any number of mappings by others (`MappingAssumption`: alignments above a page's are whole pages). The invariant `LInv`
says that the base is the reservation's start aligned up (`Placed`), and that what the object owns lies in
the blocks of the segments mapped so far (`InBlocks`). Mapping the next one can then only fail at a page that is
somebody else's inside the range, or at an earlier segment's block. The heart
is `RangeSuffices`: the aligned base plus the aligned end of every segment is still within what `generate_suitable_base_addr` asked for,
which needs that aligning up moves the base by at most `base_alignment - PageSize`.
`OthersKept` follows from MAP_FIXED_NOREPLACE on the first mmap: the second, which replaces, stays within its pages.

`ImageInv` is about contents. It says which segments are mapped so far (`Done`) and that each one's bytes lie on the object's own pages and
hold what `LoadedByte` says, unless a relocation wrote them (`MappedWhole`, `Content`). A further mmap could spoil that in two ways, by
replacing pages or by clearing behind the file's part; both stay in the new segment's own blocks (`SegmentPlace`, `SegmentBytes`), and those are
apart from earlier ones, or the first mmap would have failed. Relocations write only slots of the file, each once, so `SlotsHold`
says of each relative one applied that it still holds its value: entries of the initialisers' array are still right when they are read
(`ArrayHolds`), which is the heart of `StartsInOrder`. `LibraryInv` (no library is loaded twice, every one in use is loaded) rests on
`DlopenLoads`, what dlopen adds to the list of loaded objects, for any graph of libraries: its recursive function is
unfolded by a smallest counterexample.

`NeedInv` says of each wrapped library that the table searched is that of the *first* loaded object whose path ends with its name, which
stays the first because dlopen only adds behind (`FirstStays`); that no library before it had such a path; and
that all which the file needs earlier are covered by earlier ones. `NeededServed` follows. `ExporterFirst`, the heart of `SlotsAreBound`,
derives from it that the first library that has a name is the one that ELF's breadth-first search finds. `BindInv` says of every slot written so far
that it holds what a search without cache would find: `global_symbols` also caches what libraries gave, and the lemma `Lookup` shows that
the order in which names are looked up makes no difference. Stating these for all hosts also corrected the properties: a library can be lost
not only because its own name ends another's path but because it was itself taken for another (`Displaced`, `Preempted`), which
run `loader` now contains.

ContextProofs holds for any set of tracked registers and any values (`ContextAssumption`). `CInv` (where rsp is in each phase, and
that control fields are never written) gives three of its theorems. `RInv` adds, for each
phase of a pad or a proxy, where each saved register is to be found on the stack. `RegistersSafe` needs `ApartAndSaved`: the homes
of tracked registers are disjoint, and what of them a call may destroy is saved. Both conditions are necessary: the runs `context_alias` and
`context_vector` show what happens without one and without the other; the registers of run `context` satisfy them.

InstructionsProofs and SimulationProofs hold for a byte of any number of bits, any set of guest registers, any start states and any
programs of the formats of ARM64's instructions (`ProgramAssumption`; "xzr" is no register, `GuestAssumption`). The first half of InstructionsProofs has
what they need of words (powers of two, remainders and bits, without bit vectors), what one x86 instruction does, and what a sequence put together from two does
(`RunConcat`). Its central notion is `Sound(code, operands, cells)`: the code panics if and only if the zero register is one of the
operands it encodes, and if not, whatever registers and cells hold when it starts, it ends with words in them and the stack as it was
(`Settles`). Sequences of plain instructions are sound if each is; a short jump inside one, and the push and pop around one, have lemmas of their own
(`RunJump`, `RunChoice`, `RunBracket`). The second half gives this `Verdict` for each function of `arith.rs`, `load_store.rs` and
`branch.rs` (`DivVerdict`, `ChooseVerdict`, `PairVerdict`, ...), for all homes of all operands, and puts them together in `Translation`.
`AbortsExact` follows by an invariant about the translation alone (`Decided`), `InstrTypeOK` by one about both processors (`Typed`), for
which ARM64's instructions are typed as well (`ArmStepType`).

SimulationProofs shows that the translator is right wherever no form is listed as wrong. `Sim` says that the two processors agree on every
guest register, wherever it lives, and on memory. `Puts(s, code, o, c, v, f, cells)` says what emitted code leaves: in `o` the value `v`,
everything else but rax as it was, and flags `f`; it composes along a sequence, so that a function of the translator is followed statement by
statement. From this, `Done` is proved for one form after the other (`AddSubShiftedDone`, `MovkDone`, `MaddDone`, `CompareConstantDone`,
`SingleDone`, `PairDone`, ...): after it, either the host has trapped, or the processors agree again and, unless the code was left by a branch, the flags
follow as `KindsAfter` says. `StepDone` collects all forms that are neither `Stops` nor `Miscompiled`. The predicates of what
goes wrong are thereby shown to be complete: each instruction they do not name is translated correctly, with any operands in any homes.

For a whole program this is not inductive by itself, since a condition is only right if the flags it reads stand for the guest's, and
these may stem from any earlier instruction. The invariant `Tracks` therefore says of every world that, as long as nothing wrong was executed,
it has trapped, or agrees and has flags in one of the `FlagKinds` that the last instruction to touch them determines. `KindsNext`
is that this set is handed on by instructions that leave flags alone; `Misread` being excluded by `Wrong`, `ConditionRead` gives for each kind that jcc
and cmov decide as ARM64's condition does. `ResultsExact` and `FlagsExact` follow. Taking "has trapped" into them would be an empty way to be
right; `TrapsExact` closes it: code other than a division's is `Calm`, and calm code never raises the fault (`CalmStep`), while
`DivDone` says when a division does.

Only model-checked:

* liveness under fairness (`RefinesProgress`, `CallsReturn`, `LookupEnds`), which TLAPS does not reach;
* that each form listed as wrong does go wrong (`MistakesReal`): this is about the start states of the run;
* that each form of `Misbound` does bind wrongly (`MisboundWrong`): two definitions may have the same value by chance, so this is about
  the files of the run.

The modules with theorems have no recursive operators, the encoder's offsets being assumed by their recurrence.

## What was found

Runs that end in a counterexample, each against a sentence of the source:

* `blr_x30`: BLR loads x30 before it reads its operand (`branch.rs:317`), so `BLR X30`
  calls the instruction after itself.
* `context_alias`: x13–x17 share cells of `ExecCtx` with x24–x28, and x18 lies in the first
  vector cell (`register.rs:315`). `register.rs:42` counts 18 registers, each with a cell.
* `context_vector`: `resumable_landing_pad` saves no xmm register and not the flags
  (`callbacks.rs:27`), although "We need to save all registers except" the callee-saved ones
  (`callbacks.rs:23`). A Rust callback may use them: the first execution of a branch can lose v0–v7, v16–v22 or NZCV.
* `call_frame_restored`: with an odd argc the way back pops the padding word,
  which nothing wrote (`runner.rs:244`); rsp ends one word low if it is zero.

What `instructions` shows, each form named by a predicate of the module:

| predicate | what goes wrong |
|---|---|
| `OverwritesSecond` (`arith.rs:92`) | AND, ORR, EOR, SUB, SUBS, ADDS whose destination is the second operand: it is overwritten before it is read |
| `OverwritesFirst`, `SubtractsBackwards` (`arith.rs:243`) | ADD with a shifted operand into its first operand adds the shifted value to itself; SUB with one is reversed |
| `IgnoresSource` (`arith.rs:350`) | a shift by a constant shifts the destination |
| `UsesX2`, `HalfSignExtends`, `AddsMultiplier` (`arith.rs:394`–454) | results in x2 are lost and x2 as an operand is read as zero or as the dividend's sign; 64-bit SDIV sign-extends 32 bits only; MADD adds the multiplier |
| `TruncatesConstant`, `ClearsUpperHalf` (`arith.rs:704`, 735) | MOV and MOVK at bit 16 go through sign-extended 32-bit constants |
| `StaleUpperHalf` (`register.rs:113`) | a 32-bit result in `ExecCtx` keeps the old upper half |
| `ChoosesAfterXor` (`arith.rs:456`) | CSEL with xzr as second choice clears the flags it then reads |
| `LosesBase` (`load_store.rs:268`) | LDP into its own base |
| `BorrowsBase`, `BorrowsData` (`load_store.rs:65`) | pushing the borrowed register moves sp; it may hold the base or the data |
| `WrongFlags` | flags lost where ARM keeps them; `arith.rs:184` ("TODO: eflags preservation?") and `arith.rs:324` ("FIXME: these affect flags") say so of two of these forms, write-back is another |
| `NeverJumps`, `Misread` (`branch.rs:168`, 186) | `b.al` is never taken; CS, CC, HI and LS read a borrow as a carry, or the reverse |
| `HasNoForm`, `XzrPanics` | valid instructions that stop the process when their chunk is translated |

Division by zero, and the one overflowing quotient, trap (`TrapsExact`), where ARM has a result.

What `loader` shows: weak references stay unbound even when a definition exists (`SkipsWeak`); symbols that are unique or hidden
are not registered (`Unregistered`); a library needed only by another library is not searched, nor is a symbol that is unique in its library found (`Unsearched`); a local symbol hides a
global one of its name (`Shadowed`); a library is not opened, or another's table is searched, if a path of another ends with its name (`Mistaken`, `Displaced`, `Preempted`); segments aligned coarser
than the first fail to map or need luck (`WellLaidOut`). A segment that may only be executed is
announced to the translator although it cannot be read (`ExecuteOnly`). Files made by a common linker have none of the alignment forms.

What `dispatch` shows: a program that returns more often than it was called goes on with `shadow_sp` above the mapping if memory is there, and is
lost at its next call (`ShadowBeyond`); one instruction the translator panics at ends the process although it is never executed.

Met while reading, without a run of their own: RET Xn ignores its operand (`branch.rs:327`); fini arrays
and `__cxa_atexit` handlers are never run.

## What is not modelled

* **Vector and floating-point instructions** (MOVI, SIMD loads and stores) and vector views of registers: no property of this project
  would tell their lanes apart.
* **The decoder.** bad64 chooses among an instruction's aliases (`CMP` for `SUBS xzr`); programs contain the names it uses.
* **Memory that overlaps**: in Instructions an address holds one value; transfers that straddle another's bytes, or are not aligned, do not occur.
* **Calls from libraries into the guest.** A library function that is handed a guest function pointer (the comparator of `qsort`) calls it as native
  code; the code does nothing about this, and the models' library functions call nothing.
* **Operand kinds**: `translate_shift` (`arith.rs:350`) panics unless its last operand is a register or a 64-bit immediate; which kind an immediate
  has is the decoder's choice, and the models take it for one the code accepts.
* **Execute-only segments** are loaded and announced (`RangesWhole` names them); that the translator then faults on reading their code (`compiler.rs:168`)
  is outside Loader, where calls of `define_exec_range` and `runner::call` only record their arguments.
* **Loader**: addends of GLOB_DAT and JUMP_SLOT entries, other relocation types (the code panics, and so does the
  model), TLS and RELRO segments (ignored by the code), fini arrays; a second object (load_object is called once).
* **Symbol versions** and the scan of a library's dynamic section.
* **Directions of branches in Dispatch** are free; Instructions checks them against the flags.
* **The pool's mutex**: one thread exists, and no function that holds the lock
  calls guest code, so nobody ever waits for it. Its poisoning after a panic
  is not visible: a panic in a callback ends the process.
* **Debug output** (`dump.rs`): no state.
* Bytes of code: a model keeps lengths, sites and where they lead; that the emitted
  bytes mean what the emitting code says is left to the encoder's authors.

## Plan

Done: the pool, dispatch with its abstract specification, register homes and landing pads, the call frame, the GNU hash
lookup, the translation of data instructions and conditions, the loader; the proofs about the pool, the running machine and its
refinement, the calling convention, the lookup, the call frame, register contexts, all of the loader's properties, and the results, flags and traps of
translated instructions.

Left, in this order:

1. RET with another register: `MCPrograms` of MCLinkRegister extended by `RET("x17")` shows it go to x30 instead.
2. Vector registers: homes by class, and the loads and stores that use them.
