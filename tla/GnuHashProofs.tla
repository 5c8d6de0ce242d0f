----------------------------- MODULE GnuHashProofs ----------------------------
(***************************************************************************)
(* The lookup is right for every table of the format linkers write: any    *)
(* number of symbols, buckets and Bloom words, and any hash function.      *)
(***************************************************************************)
EXTENDS GnuHash, TLAPS

WellFormed(t) ==
    /\ t.symoffset \in Nat \ {0} /\ t.nsyms \in Nat
    /\ t.nbuckets \in Nat \ {0} /\ t.bloom_size \in Nat \ {0}
    /\ t.names \in [0 .. t.nsyms - 1 -> Names]
    /\ BloomFormat(t) /\ BucketFormat(t) /\ ChainFormat(t) /\ Grouped(t)

(* The symbols that are to be found. *)
MatchesOf(t, x) == {i \in Hashed(t) : t.names[i] = x}

------------------------------------------------------------------------------
(* What the parts of a table say about a name *)

LEMMA TablesWellFormed == ASSUME NEW t \in Tables PROVE WellFormed(t)
  BY TableAssumption DEF WellFormed

(* A symbol's bucket depends on its name only, and is in the table. *)
LEMMA HashFacts ==
    ASSUME NEW t \in Tables, NEW x \in Names
    PROVE  /\ Hash[x] \in Nat
           /\ BucketIdx(t, Hash[x]) \in 0 .. t.nbuckets - 1
           /\ \A i \in MatchesOf(t, x) :
                  i \in Hashed(t) /\ Bucket(t, i) = BucketIdx(t, Hash[x])
  <1>1. Hash[x] \in Nat /\ t.nbuckets \in Nat \ {0}
    BY HashAssumption, TablesWellFormed DEF WellFormed
  <1>2. BucketIdx(t, Hash[x]) \in 0 .. t.nbuckets - 1
    BY <1>1 DEF BucketIdx
  <1> QED
    BY <1>1, <1>2 DEF MatchesOf, Bucket

(* A name the Bloom filter rejects has no symbol. *)
LEMMA BloomRejects ==
    ASSUME NEW t \in Tables, NEW x \in Names,
           ~({Bit1(t, Hash[x]), Bit2(t, Hash[x])} \subseteq bloom(t, BloomIdx(t, Hash[x])))
    PROVE  MatchesOf(t, x) = {}
  <1>1. BloomFormat(t)
    BY TablesWellFormed DEF WellFormed
  <1>2. SUFFICES ASSUME NEW i \in Hashed(t), t.names[i] = x PROVE FALSE
    BY DEF MatchesOf
  <1>3. {Bit1(t, Hash[x]), Bit2(t, Hash[x])} \subseteq t.mem[4 + 2 * BloomIdx(t, Hash[x])]
    BY <1>1, <1>2 DEF BloomFormat
  <1> QED
    BY <1>3 DEF bloom, BloomAt, HeaderWords

(* A bucket's word below symoffset means that the bucket is empty. *)
LEMMA BucketRejects ==
    ASSUME NEW t \in Tables, NEW x \in Names,
           buckets(t, BucketIdx(t, Hash[x])) < t.symoffset
    PROVE  MatchesOf(t, x) = {}
  <1> DEFINE b == BucketIdx(t, Hash[x])
             w == t.mem[4 + 2 * t.bloom_size + b]
  <1>1. BucketFormat(t) /\ t.symoffset \in Nat /\ t.nsyms \in Nat
    BY TablesWellFormed DEF WellFormed
  <1>2. w < t.symoffset
    BY DEF buckets, BucketsAt, BloomAt, HeaderWords
  <1>3. b \in 0 .. t.nbuckets - 1
    BY HashFacts
  <1>4. (\E i \in Hashed(t) : Bucket(t, i) = b) => w \in Hashed(t)
    BY <1>1, <1>3 DEF BucketFormat
  <1>5. w \notin Hashed(t)
    BY <1>1, <1>2 DEF Hashed
  <1> QED
    BY <1>4, <1>5, HashFacts

(* Otherwise it is the bucket's first symbol, and none of the name comes   *)
(* before it.                                                              *)
LEMMA BucketStarts ==
    ASSUME NEW t \in Tables, NEW x \in Names,
           ~(buckets(t, BucketIdx(t, Hash[x])) < t.symoffset)
    PROVE  LET w == buckets(t, BucketIdx(t, Hash[x])) IN
           /\ w \in Hashed(t)
           /\ Bucket(t, w) = BucketIdx(t, Hash[x])
           /\ \A i \in MatchesOf(t, x) : ~(i < w)
  <1> DEFINE b == BucketIdx(t, Hash[x])
             w == t.mem[4 + 2 * t.bloom_size + b]
  <1>1. BucketFormat(t) /\ Grouped(t) /\ t.symoffset \in Nat \ {0} /\ t.nsyms \in Nat
    BY TablesWellFormed DEF WellFormed
  <1>2. w = buckets(t, b) /\ ~(w < t.symoffset)
    BY DEF buckets, BucketsAt, BloomAt, HeaderWords
  <1>3. b \in 0 .. t.nbuckets - 1
    BY HashFacts
  <1>4. w \in Hashed(t) /\ Bucket(t, w) = b /\ FirstIn(t, w)
    <2>1. w # 0
      BY <1>1, <1>2
    <2> QED
      BY <1>1, <1>3, <2>1 DEF BucketFormat
  <1>5. ASSUME NEW i \in MatchesOf(t, x), i < w PROVE FALSE
    <2>1. i \in Hashed(t) /\ Bucket(t, i) = b
      BY HashFacts
    <2>2. /\ w \in Int /\ i \in Int /\ w - 1 \in i .. w /\ w # t.symoffset
      BY <1>1, <1>4, <1>5, <2>1 DEF Hashed
    <2>3. Bucket(t, w - 1) = Bucket(t, i)
      BY <1>1, <1>4, <1>5, <2>1, <2>2 DEF Grouped
    <2> QED
      BY <1>4, <2>1, <2>2, <2>3 DEF FirstIn
  <1> QED
    BY <1>2, <1>4, <1>5

(* What a chain word of the table says about its symbol. *)
LEMMA ChainFacts ==
    ASSUME NEW t \in Tables, NEW j \in Nat, j + t.symoffset \in Hashed(t)
    PROVE  LET i == j + t.symoffset IN
           /\ i \in Nat
           /\ chain_at(t, j) \div 2 = Hash[t.names[i]] \div 2
           /\ chain_at(t, j) % 2 = 1 <=> LastIn(t, i)
  <1>1. /\ t.symoffset \in Nat /\ t.bloom_size \in Nat /\ t.nbuckets \in Nat
        /\ t.nsyms \in Nat /\ ChainFormat(t)
    BY TablesWellFormed DEF WellFormed
  <1>2. ChainAt(t) + j = 4 + 2 * t.bloom_size + t.nbuckets + ((j + t.symoffset) - t.symoffset)
    BY <1>1 DEF ChainAt, BucketsAt, BloomAt, HeaderWords
  <1>3. chain_at(t, j) = t.mem[4 + 2 * t.bloom_size + t.nbuckets + ((j + t.symoffset) - t.symoffset)]
    BY <1>2 DEF chain_at
  <1> QED
    BY <1>1, <1>3 DEF ChainFormat

(* Behind a symbol that is not the last of its bucket comes another of it. *)
LEMMA NotLast ==
    ASSUME NEW t \in Tables, NEW i \in Hashed(t), ~LastIn(t, i)
    PROVE  i + 1 \in Hashed(t) /\ Bucket(t, i + 1) = Bucket(t, i)
  <1>1. t.symoffset \in Nat /\ t.nsyms \in Nat
    BY TablesWellFormed DEF WellFormed
  <1> QED
    BY <1>1 DEF LastIn, Hashed

(* Behind the last symbol of a bucket comes none of it. *)
LEMMA NoneBehindLast ==
    ASSUME NEW t \in Tables, NEW i \in Hashed(t), LastIn(t, i),
           NEW k \in Hashed(t), i < k
    PROVE  Bucket(t, k) # Bucket(t, i)
  <1>1. t.symoffset \in Nat /\ t.nsyms \in Nat /\ Grouped(t)
    BY TablesWellFormed DEF WellFormed
  <1>2. SUFFICES ASSUME Bucket(t, k) = Bucket(t, i) PROVE FALSE
    OBVIOUS
  <1>3. i + 1 \in i .. k /\ i # t.nsyms - 1
    BY <1>1 DEF Hashed
  <1>4. Bucket(t, i + 1) = Bucket(t, i)
    BY <1>1, <1>2, <1>3 DEF Grouped
  <1> QED
    BY <1>3, <1>4 DEF LastIn

------------------------------------------------------------------------------
(* The walk along the chain *)

(* No symbol of the name comes before the one the walk is at. *)
NoneBefore ==
    at = "chain" =>
        \A i \in MatchesOf(table, name) : ~(i < chain_idx + table.symoffset)

LookupInv ==
    /\ table \in Tables /\ name \in Names
    /\ at \in {"bloom", "bucket", "chain", "done"}
    /\ chain_idx \in Nat
    /\ WalksBucket
    /\ NoneBefore
    /\ LookupCorrect

LEMMA LookupInit == Init => LookupInv
  BY DEF Init, LookupInv, WalksBucket, NoneBefore, LookupCorrect

(* Returning None is right when no symbol has the name. *)
LEMMA ReturnsNone ==
    ASSUME LookupInv, Return(None), MatchesOf(table, name) = {}
    PROVE  LookupInv'
  BY DEF LookupInv, Return, WalksBucket, NoneBefore, LookupCorrect, MatchesOf, Hashed

LEMMA LookupStep == LookupInv /\ [Next]_lvars => LookupInv'
  <1> SUFFICES ASSUME LookupInv, [Next]_lvars PROVE LookupInv'
    OBVIOUS
  <1> DEFINE k == chain_idx + table.symoffset
  <1>1. /\ table \in Tables /\ name \in Names /\ chain_idx \in Nat
        /\ table.symoffset \in Nat \ {0} /\ table.nsyms \in Nat
    BY TablesWellFormed DEF LookupInv, WellFormed
  (* At a symbol of the chain. *)
  <1>2. ASSUME at = "chain"
        PROVE  /\ k \in Hashed(table) /\ k \in Nat
               /\ Bucket(table, k) = BucketIdx(table, hash)
               /\ \A i \in MatchesOf(table, name) : ~(i < k)
               /\ chain_at(table, chain_idx) \div 2 = Hash[table.names[k]] \div 2
               /\ chain_at(table, chain_idx) % 2 = 1 <=> LastIn(table, k)
    <2>1. /\ k \in Hashed(table) /\ Bucket(table, k) = BucketIdx(table, hash)
          /\ \A i \in MatchesOf(table, name) : ~(i < k)
      BY <1>2 DEF LookupInv, WalksBucket, NoneBefore
    <2> QED
      BY <1>1, <2>1, ChainFacts
  <1>3. ASSUME at = "chain", ~Found(chain_idx)
        PROVE  k \notin MatchesOf(table, name)
    BY <1>2, <1>3 DEF Found, MatchesOf, hash
  <1>4. CASE CheckBloom
    <2>1. CASE {Bit1(table, hash), Bit2(table, hash)} \subseteq bloom(table, BloomIdx(table, hash))
      BY <1>4, <2>1 DEF CheckBloom, LookupInv, WalksBucket, NoneBefore, LookupCorrect
    <2>2. CASE ~({Bit1(table, hash), Bit2(table, hash)} \subseteq bloom(table, BloomIdx(table, hash)))
      <3>1. MatchesOf(table, name) = {}
        BY <1>1, <2>2, BloomRejects DEF hash
      <3> QED
        BY <1>4, <2>2, <3>1, ReturnsNone DEF CheckBloom
    <2> QED
      BY <2>1, <2>2
  <1>5. CASE EnterBucket
    <2> DEFINE first == buckets(table, BucketIdx(table, hash))
    <2>1. CASE first < table.symoffset
      <3>1. MatchesOf(table, name) = {}
        BY <1>1, <2>1, BucketRejects DEF hash
      <3> QED
        BY <1>5, <2>1, <3>1, ReturnsNone DEF EnterBucket
    <2>2. CASE ~(first < table.symoffset)
      <3>1. /\ first \in Hashed(table)
            /\ Bucket(table, first) = BucketIdx(table, hash)
            /\ \A i \in MatchesOf(table, name) : ~(i < first)
        BY <1>1, <2>2, BucketStarts DEF hash
      <3>2. /\ chain_idx' = first - table.symoffset /\ at' = "chain"
            /\ table' = table /\ name' = name
        BY <1>5, <2>2 DEF EnterBucket
      <3>3. first - table.symoffset \in Nat /\ (first - table.symoffset) + table.symoffset = first
        BY <1>1, <3>1 DEF Hashed
      <3>4. chain_idx' + table.symoffset = first
        BY <3>2, <3>3
      <3>5. WalksBucket' /\ NoneBefore' /\ LookupCorrect'
        BY <3>1, <3>2, <3>4 DEF WalksBucket, NoneBefore, LookupCorrect, hash
      <3> QED
        BY <1>1, <3>2, <3>3, <3>5 DEF LookupInv
    <2> QED
      BY <2>1, <2>2
  <1>6. CASE Advance
    <2>1. /\ at = "chain" /\ ~Found(chain_idx) /\ chain_at(table, chain_idx) % 2 # 1
          /\ chain_idx' = chain_idx + 1 /\ at' = at /\ table' = table /\ name' = name
      BY <1>6 DEF Advance
    <2>2. k + 1 \in Hashed(table) /\ Bucket(table, k + 1) = BucketIdx(table, hash)
      BY <1>1, <1>2, <2>1, NotLast
    <2>3. chain_idx' + table.symoffset = k + 1
      BY <1>1, <2>1
    <2>4. \A i \in MatchesOf(table, name) : ~(i < k + 1)
      <3>1. TAKE i \in MatchesOf(table, name)
      <3>2. i \in Int /\ ~(i < k) /\ i # k
        BY <1>1, <1>2, <1>3, <2>1 DEF MatchesOf, Hashed
      <3> QED
        BY <1>2, <2>1, <3>2
    <2>5. WalksBucket' /\ NoneBefore' /\ LookupCorrect'
      BY <2>1, <2>2, <2>3, <2>4 DEF WalksBucket, NoneBefore, LookupCorrect, hash
    <2> QED
      BY <1>1, <2>1, <2>5 DEF LookupInv
  <1>7. CASE ReturnSymbol
    <2>1. /\ at = "chain" /\ Found(chain_idx) /\ at' = "done" /\ result' = k
          /\ table' = table /\ name' = name /\ chain_idx' = chain_idx
      BY <1>7 DEF ReturnSymbol, Return
    <2>2. k \in MatchesOf(table, name)
      BY <1>2, <2>1 DEF Found, MatchesOf
    <2>3. \A i \in MatchesOf(table, name) : k <= i
      <3>1. TAKE i \in MatchesOf(table, name)
      <3>2. i \in Int /\ ~(i < k)
        BY <1>1, <1>2, <2>1 DEF MatchesOf, Hashed
      <3> QED
        BY <1>2, <2>1, <3>2
    <2>4. LookupCorrect'
      BY <2>1, <2>2, <2>3 DEF LookupCorrect, MatchesOf
    <2> QED
      BY <1>1, <2>1, <2>4 DEF LookupInv, WalksBucket, NoneBefore
  <1>8. CASE EndOfBucket
    <2>1. /\ at = "chain" /\ ~Found(chain_idx) /\ chain_at(table, chain_idx) % 2 = 1
          /\ Return(None)
      BY <1>8 DEF EndOfBucket
    <2>2. ASSUME NEW i \in MatchesOf(table, name) PROVE FALSE
      <3>1. i \in Hashed(table) /\ Bucket(table, i) = Bucket(table, k)
        BY <1>1, <1>2, <2>1, HashFacts DEF hash
      <3>2. i \in Int /\ ~(i < k) /\ i # k
        BY <1>1, <1>2, <1>3, <2>1, <2>2, <3>1 DEF Hashed
      <3>3. k < i
        BY <1>2, <2>1, <3>2
      <3> QED
        BY <1>1, <1>2, <2>1, <3>1, <3>3, NoneBehindLast
    <2> QED
      BY <2>1, <2>2, ReturnsNone
  <1>9. CASE Done \/ UNCHANGED lvars
    BY <1>9 DEF Done, lvars, LookupInv, WalksBucket, NoneBefore, LookupCorrect, hash
  <1> QED
    BY <1>4, <1>5, <1>6, <1>7, <1>8, <1>9 DEF Next

------------------------------------------------------------------------------
(* Results *)

(* The lookup's inductive invariant. *)
THEOREM LookupInvariant == LookupSpec => []LookupInv
  BY LookupInit, LookupStep, PTL DEF LookupSpec

(* The walk along a chain reads only chain words and symbols of the name's *)
(* bucket: no unchecked pointer read leaves the table.                     *)
THEOREM WalkInBounds == LookupSpec => []WalksBucket
  <1>1. LookupInv => WalksBucket
    BY DEF LookupInv
  <1> QED
    BY <1>1, LookupInvariant, PTL

(* SymbolFinder::lookup agrees with a search of the whole symbol table.    *)
THEOREM LookupFinds == LookupSpec => []LookupCorrect
  <1>1. LookupInv => LookupCorrect
    BY DEF LookupInv
  <1> QED
    BY <1>1, LookupInvariant, PTL
===============================================================================
