------------------------------ MODULE MCGnuHash -------------------------------
(***************************************************************************)
(* All tables of up to three symbols that can be found and up to one that  *)
(* cannot, in one or two buckets.  Of the five names two differ in the     *)
(* last bit of their hash only, and two have the same hash.                *)
(***************************************************************************)
EXTENDS GnuHash, Sequences, TLC

CONSTANTS a, b, c, d, e

MCHash == (a :> 4) @@ (b :> 5) @@ (c :> 2) @@ (d :> 6) @@ (e :> 6)

(* What a linker writes for a header and a list of symbols. *)
Linked(hd) ==
    LET buckets_at == 4 + 2 * hd.bloom_size
        chain_at_  == buckets_at + hd.nbuckets
        In(x)      == {i \in Hashed(hd) : Bucket(hd, i) = x}
        Bits(w)    == UNION {{Bit1(hd, Hash[hd.names[i]]), Bit2(hd, Hash[hd.names[i]])} :
                          i \in {j \in Hashed(hd) : BloomIdx(hd, Hash[hd.names[j]]) = w}}
        First(x)   == IF In(x) = {} THEN 0 ELSE CHOOSE i \in In(x) : \A j \in In(x) : i <= j
        Chained(i) == 2 * (Hash[hd.names[i]] \div 2) + (IF LastIn(hd, i) THEN 1 ELSE 0)
    IN  [w \in {4 + 2 * i : i \in 0 .. hd.bloom_size - 1} |-> Bits((w - 4) \div 2)]
          @@ [w \in buckets_at .. chain_at_ - 1 |-> First(w - buckets_at)]
          @@ [w \in chain_at_ .. chain_at_ + hd.nsyms - hd.symoffset - 1 |->
                 Chained(w - chain_at_ + hd.symoffset)]

Headers ==
    {[symoffset |-> o, nsyms |-> Len(s), nbuckets |-> n, bloom_size |-> z, bloom_shift |-> 1,
      names |-> [i \in 0 .. Len(s) - 1 |-> s[i + 1]]] :
        s \in UNION {[1 .. k -> Names] : k \in 1 .. 4}, o \in 1 .. 2, n \in 1 .. 2, z \in 1 .. 2}

(* The null symbol's name is never looked at: any one stands for it. *)
MCTables ==
    {[symoffset |-> h.symoffset, nsyms |-> h.nsyms, nbuckets |-> h.nbuckets,
      bloom_size |-> h.bloom_size, bloom_shift |-> h.bloom_shift, names |-> h.names,
      mem |-> Linked(h)] :
        h \in {g \in Headers : Grouped(g) /\ g.names[0] = a /\ g.nsyms >= g.symoffset}}
==============================================================================
