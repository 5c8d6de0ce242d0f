------------------------------- MODULE GnuHash --------------------------------
(***************************************************************************)
(* Looking a name up in the GNU hash table of a loaded library             *)
(* (wrapped/elf_lookup.rs).  The loader binds an import to the symbol this *)
(* finds: its entry says where it is and whether to make a proxy for it.   *)
(*                                                                         *)
(* The table is memory that the library's linker wrote, addressed in 4-byte*)
(* words; a word of the Bloom filter (two of them) is the set of its bits. *)
(* Reads of it are unchecked pointer reads.                                *)
(***************************************************************************)
EXTENDS Integers

CONSTANTS
    Names,      \* symbol names
    Hash,       \* elf::gnu_hash
    WordBits,   \* bits of a Bloom word (64)
    Tables      \* libraries' tables

(* A table: its header's fields, the names of the library's symbols by     *)
(* index, and the memory from the header on.                               *)
ASSUME HashAssumption ==
    /\ Hash \in [Names -> Nat]
    /\ WordBits \in Nat \ {0}

Bit1(t, h) == h % WordBits
Bit2(t, h) == (h \div 2 ^ t.bloom_shift) % WordBits
BloomIdx(t, h)  == (h \div WordBits) % t.bloom_size
BucketIdx(t, h) == h % t.nbuckets

(* Where SymbolFinder::new finds the parts of the table. *)
HeaderWords  == 4
BloomAt(t)   == HeaderWords
BucketsAt(t) == BloomAt(t) + 2 * t.bloom_size

ChainAt(t) == BucketsAt(t) + t.nbuckets

bloom(t, i)    == t.mem[BloomAt(t) + 2 * i]
buckets(t, i)  == t.mem[BucketsAt(t) + i]
chain_at(t, i) == t.mem[ChainAt(t) + i]

------------------------------------------------------------------------------
(* What linkers promise.  Symbols from symoffset on can be found; those of *)
(* a bucket are next to each other, and the bucket holds the first one.    *)
(* A chain word is the symbol's hash with its last bit taken for "last in  *)
(* the bucket".  Names may repeat: a library can define several versions.  *)
Hashed(t)    == t.symoffset .. t.nsyms - 1
Bucket(t, i) == BucketIdx(t, Hash[t.names[i]])
LastIn(t, i) == i = t.nsyms - 1 \/ Bucket(t, i + 1) # Bucket(t, i)
FirstIn(t, i) == i = t.symoffset \/ Bucket(t, i - 1) # Bucket(t, i)

BloomFormat(t) ==
    \A i \in Hashed(t) :
        LET h == Hash[t.names[i]]
        IN  {Bit1(t, h), Bit2(t, h)} \subseteq t.mem[4 + 2 * BloomIdx(t, h)]

BucketFormat(t) ==
    \A b \in 0 .. t.nbuckets - 1 :
        LET w == t.mem[4 + 2 * t.bloom_size + b] IN
        IF \E i \in Hashed(t) : Bucket(t, i) = b
          THEN w \in Hashed(t) /\ Bucket(t, w) = b /\ FirstIn(t, w)
          ELSE w = 0

ChainFormat(t) ==
    \A i \in Hashed(t) :
        LET w == t.mem[4 + 2 * t.bloom_size + t.nbuckets + (i - t.symoffset)] IN
        /\ w \in Nat
        /\ w \div 2 = Hash[t.names[i]] \div 2
        /\ w % 2 = 1 <=> LastIn(t, i)

Grouped(t) ==
    \A i, j \in Hashed(t) :
        i < j /\ Bucket(t, i) = Bucket(t, j) =>
            \A k \in i .. j : Bucket(t, k) = Bucket(t, i)

ASSUME TableAssumption ==
    \A t \in Tables :
        /\ t.symoffset \in Nat \ {0} /\ t.nsyms \in Nat
        /\ t.nbuckets \in Nat \ {0} /\ t.bloom_size \in Nat \ {0}
        /\ t.bloom_shift \in Nat
        /\ t.names \in [0 .. t.nsyms - 1 -> Names]
        /\ BloomFormat(t) /\ BucketFormat(t) /\ ChainFormat(t) /\ Grouped(t)

------------------------------------------------------------------------------
VARIABLES
    table, name,     \* self and the argument of lookup
    at,              \* "bloom", "bucket", "chain" or "done"
    chain_idx,
    result           \* index of the symbol found, or None

lvars == <<table, name, at, chain_idx, result>>

None == -1
hash == Hash[name]

Init ==
    /\ table \in Tables /\ name \in Names
    /\ at = "bloom"
    /\ chain_idx = 0
    /\ result = None

Return(r) ==
    /\ at' = "done" /\ result' = r
    /\ UNCHANGED <<table, name, chain_idx>>

CheckBloom ==
    /\ at = "bloom"
    /\ IF {Bit1(table, hash), Bit2(table, hash)} \subseteq bloom(table, BloomIdx(table, hash))
         THEN at' = "bucket" /\ UNCHANGED <<table, name, chain_idx, result>>
         ELSE Return(None)

(* The bucket holds a symbol's index, the chain starts at symoffset. *)
EnterBucket ==
    /\ at = "bucket"
    /\ LET first == buckets(table, BucketIdx(table, hash)) IN
       IF first < table.symoffset
         THEN Return(None)
         ELSE /\ chain_idx' = first - table.symoffset
              /\ at' = "chain"
              /\ UNCHANGED <<table, name, result>>

(* Faulty: the last bit takes part in the comparison. *)
FoundExactly(i) ==
    /\ chain_at(table, i) = hash
    /\ table.names[i + table.symoffset] = name

(* Hashes are compared without their last bit, then the names. *)
Found(i) ==
    /\ chain_at(table, i) \div 2 = hash \div 2
    /\ table.names[i + table.symoffset] = name

(* Faulty: a symbol of the same hash and another name is tried again. *)
AdvanceUnlessEqual ==
    /\ at = "chain" /\ ~Found(chain_idx) /\ chain_at(table, chain_idx) % 2 = 0
    /\ chain_idx' = IF chain_at(table, chain_idx) = hash THEN chain_idx ELSE chain_idx + 1
    /\ UNCHANGED <<table, name, at, result>>

(* Faulty: overlooks the end of the bucket. *)
AdvanceAlways ==
    /\ at = "chain" /\ ~Found(chain_idx)
    /\ chain_idx' = chain_idx + 1
    /\ UNCHANGED <<table, name, at, result>>

Advance ==
    /\ at = "chain" /\ ~Found(chain_idx) /\ chain_at(table, chain_idx) % 2 = 0
    /\ chain_idx' = chain_idx + 1
    /\ UNCHANGED <<table, name, at, result>>

ReturnSymbol == at = "chain" /\ Found(chain_idx) /\ Return(chain_idx + table.symoffset)
EndOfBucket  == at = "chain" /\ ~Found(chain_idx) /\ chain_at(table, chain_idx) % 2 = 1 /\ Return(None)

Done == at = "done" /\ UNCHANGED lvars

Next == CheckBloom \/ EnterBucket \/ Advance \/ ReturnSymbol \/ EndOfBucket \/ Done

LookupSpec == Init /\ [][Next]_lvars /\ WF_lvars(Next)

------------------------------------------------------------------------------
(* Properties *)

(* The walk along a chain never leaves the symbols of the name's bucket,   *)
(* so no read is outside the table.                                        *)
WalksBucket ==
    at = "chain" =>
        /\ chain_idx + table.symoffset \in Hashed(table)
        /\ Bucket(table, chain_idx + table.symoffset) = BucketIdx(table, hash)

(* The lookup agrees with a search of the whole symbol table: it finds a   *)
(* symbol of that name whenever there is one, whatever filter, buckets and *)
(* collisions of hashes come before it, the first one if there are several *)
(* versions, and none that is not there.                                   *)
LookupCorrect ==
    at = "done" =>
        LET Matches == {i \in Hashed(table) : table.names[i] = name} IN
        IF Matches = {} THEN result = None
        ELSE result \in Matches /\ \A i \in Matches : result <= i

(* A lookup ends: no collision makes it run in a circle. *)
LookupEnds == <>(at = "done")
==============================================================================
