----------------------------- MODULE LoaderProofs -----------------------------
(***************************************************************************)
(* The loader, for every page size, file, host and state of the address    *)
(* space: where segments are placed and whose pages they take, what the    *)
(* image holds, which libraries are searched, what each slot is bound to,  *)
(* and in which order the program starts.                                  *)
(***************************************************************************)
EXTENDS Loader, SequenceTheorems, WellFoundedInduction, TLAPS

------------------------------------------------------------------------------
(* Multiples *)

LEMMA Divided ==
    ASSUME NEW m \in Nat \ {0}, NEW x \in Nat
    PROVE  /\ x \div m \in Nat /\ x % m \in 0 .. m - 1
           /\ x = m * (x \div m) + (x % m)
  OBVIOUS

LEMMA Remainder ==
    ASSUME NEW m \in Nat \ {0}, NEW q \in Nat, NEW i \in 0 .. m - 1
    PROVE  (m * q + i) % m = i /\ (m * q + i) \div m = q
  OBVIOUS

LEMMA Multiple ==
    ASSUME NEW m \in Nat \ {0}, NEW x \in Nat
    PROVE  x % m = 0 <=> \E q \in Nat : x = m * q
  <1>1. ASSUME x % m = 0 PROVE \E q \in Nat : x = m * q
    <2>1. x \div m \in Nat /\ x = m * (x \div m) + 0
      BY <1>1, Divided
    <2>2. m * (x \div m) \in Nat
      BY <2>1
    <2> QED
      BY <2>1, <2>2
  <1>2. ASSUME NEW q \in Nat, x = m * q PROVE x % m = 0
    <2>1. 0 \in 0 .. m - 1 /\ m * q \in Nat
      OBVIOUS
    <2>2. (m * q + 0) % m = 0
      BY <2>1, Remainder
    <2> QED
      BY <1>2, <2>1, <2>2
  <1> QED
    BY <1>1, <1>2

LEMMA Products ==
    ASSUME NEW m \in Nat, NEW q \in Nat, NEW r \in Nat
    PROVE  /\ m * q \in Nat /\ m * (q + r) = m * q + m * r /\ m * q = q * m
           /\ m * (q * r) = (m * q) * r
  BY SMT

LEMMA Ordered ==
    ASSUME NEW m \in Nat \ {0}, NEW q \in Nat, NEW r \in Nat, m * q < m * r
    PROVE  m * q + m <= m * r
  <1>1. q < r
    <2> SUFFICES ASSUME r <= q PROVE FALSE
      BY SMT
    <2> DEFINE d == q - r
    <2>1. d \in Nat /\ q = r + d
      BY SMT
    <2> HIDE DEF d
    <2>2. m * (r + d) = m * r + m * d /\ m * r \in Nat /\ m * d \in Nat
      BY <2>1, Products
    <2> QED
      BY <2>1, <2>2, SMT
  <1> DEFINE e == r - q - 1
  <1>2. e \in Nat /\ r = q + (1 + e)
    BY <1>1, SMT
  <1> HIDE DEF e
  <1>3. m * (q + (1 + e)) = m * q + m * (1 + e) /\ m * (1 + e) = m * 1 + m * e /\ m * e \in Nat /\ m * q \in Nat
    BY <1>2, Products
  <1> QED
    BY <1>2, <1>3, SMT

LEMMA MultipleTransitive ==
    ASSUME NEW m \in Nat \ {0}, NEW k \in Nat \ {0}, NEW x \in Nat, k % m = 0, x % k = 0
    PROVE  x % m = 0
  <1>1. PICK q \in Nat : x = k * q
    BY Multiple
  <1>2. PICK p \in Nat : k = m * p
    BY Multiple
  <1>3. x = m * (p * q) /\ p * q \in Nat
    BY <1>1, <1>2, Products
  <1> QED
    BY <1>3, Multiple

LEMMA MultiplesAdd ==
    ASSUME NEW m \in Nat \ {0}, NEW x \in Nat, NEW y \in Nat, x % m = 0
    PROVE  (x + y) % m = y % m /\ (x + y) \div m = x \div m + y \div m
  <1>1. PICK q \in Nat : x = m * q
    BY Multiple
  <1> DEFINE p == y \div m
             i == y % m
  <1>2. p \in Nat /\ i \in 0 .. m - 1 /\ y = m * p + i
    BY Divided
  <1> HIDE DEF p, i
  <1>3. x + y = m * (q + p) + i /\ q + p \in Nat
    <2>1. m * (q + p) = m * q + m * p /\ m * q \in Nat /\ m * p \in Nat
      BY <1>2, Products
    <2> QED
      BY <1>1, <1>2, <2>1, SMT
  <1>4. (m * (q + p) + i) % m = i /\ (m * (q + p) + i) \div m = q + p
    BY <1>2, <1>3, Remainder
  <1>5. x \div m = q
    <2>1. (m * q + 0) \div m = q /\ m * q \in Nat
      BY Remainder
    <2> QED
      BY <1>1, <2>1
  <1> QED
    BY <1>3, <1>4, <1>5 DEF p, i

------------------------------------------------------------------------------
(* align_to_next *)

LEMMA Aligned ==
    ASSUME NEW m \in Nat \ {0}, NEW x \in Nat
    PROVE  /\ align_to_next(x, m) \in Nat /\ align_to_next(x, m) % m = 0
           /\ x <= align_to_next(x, m) /\ align_to_next(x, m) < x + m
  <1> DEFINE y == x + m - 1
             q == y \div m
             i == y % m
  <1>1. y \in Nat
    BY SMT
  <1> HIDE DEF y
  <1>2. q \in Nat /\ i \in 0 .. m - 1 /\ y = m * q + i
    BY <1>1, Divided
  <1>3. align_to_next(x, m) = q * m
    BY DEF align_to_next, y
  <1> HIDE DEF q, i
  <1>4. q * m = m * q /\ m * q \in Nat
    BY <1>2, Products
  <1>5. (m * q) % m = 0
    BY <1>2, <1>4, Multiple
  <1>6. x <= m * q /\ m * q < x + m
    BY <1>2, <1>4, SMT DEF y
  <1> QED
    BY <1>3, <1>4, <1>5, <1>6

LEMMA AlignedShift ==
    ASSUME NEW m \in Nat \ {0}, NEW x \in Nat, NEW y \in Nat, x % m = 0
    PROVE  align_to_next(x + y, m) = x + align_to_next(y, m)
  <1> DEFINE z == y + m - 1
  <1>1. z \in Nat /\ x + y + m - 1 = x + z
    BY SMT
  <1>2. align_to_next(x + y, m) = ((x + z) \div m) * m /\ align_to_next(y, m) = (z \div m) * m
    BY <1>1 DEF align_to_next
  <1> HIDE DEF z
  <1>3. (x + z) \div m = x \div m + z \div m
    BY <1>1, MultiplesAdd
  <1> DEFINE q == x \div m
             p == z \div m
  <1>4. q \in Nat /\ p \in Nat /\ x = m * q
    <2>1. q \in Nat /\ x = m * q + 0 /\ p \in Nat
      BY <1>1, Divided
    <2> HIDE DEF q, p
    <2>2. m * q \in Nat
      BY <2>1, Products
    <2> QED
      BY <2>1, <2>2
  <1> HIDE DEF q, p
  <1>5. (q + p) * m = q * m + p * m /\ q * m = m * q
    BY <1>4, SMT
  <1> QED
    BY <1>2, <1>3, <1>4, <1>5 DEF q, p

LEMMA AlignedMonotone ==
    ASSUME NEW m \in Nat \ {0}, NEW x \in Nat, NEW y \in Nat, x <= y
    PROVE  align_to_next(x, m) <= align_to_next(y, m)
  <1>1. PICK q \in Nat : align_to_next(x, m) = m * q
    BY Aligned, Multiple
  <1>2. PICK p \in Nat : align_to_next(y, m) = m * p
    BY Aligned, Multiple
  <1>3. m * q < x + m /\ y <= m * p /\ m * q \in Nat /\ m * p \in Nat
    BY <1>1, <1>2, Aligned
  <1> SUFFICES ASSUME m * p < m * q PROVE FALSE
    BY <1>1, <1>2, <1>3, SMT
  <1>4. m * p + m <= m * q
    BY Ordered
  <1> QED
    BY <1>3, <1>4, SMT

(* Aligning a multiple of a page to whole pages moves it by whole pages.   *)
LEMMA AlignedByPages ==
    ASSUME NEW m \in Nat \ {0}, NEW k \in Nat \ {0}, NEW x \in Nat, k % m = 0, x % m = 0
    PROVE  align_to_next(x, k) + m <= x + k /\ align_to_next(x, k) % m = 0
  <1>1. align_to_next(x, k) \in Nat /\ align_to_next(x, k) < x + k /\ align_to_next(x, k) % m = 0
    BY Aligned, MultipleTransitive
  <1>2. (x + k) % m = 0 /\ x + k \in Nat
    <2>1. (x + k) % m = k % m
      BY MultiplesAdd
    <2> QED
      BY <2>1, SMT
  <1>3. PICK q \in Nat : align_to_next(x, k) = m * q
    BY <1>1, Multiple
  <1>4. PICK p \in Nat : x + k = m * p
    BY <1>2, Multiple
  <1>5. m * q + m <= m * p
    BY <1>1, <1>3, <1>4, Ordered
  <1> QED
    BY <1>1, <1>3, <1>4, <1>5

------------------------------------------------------------------------------
(* The end of the last segment *)

LEMMA Least ==
    ASSUME NEW T \in SUBSET Nat, T # {}
    PROVE  \E x \in T : \A y \in T : x <= y
  <1>1. PICK x \in T : \A y \in T : ~(<<y, x>> \in OpToRel(<, Nat))
    BY NatLessThanWellFounded, WFMin
  <1>2. \A y \in T : ~(y < x)
    BY <1>1 DEF OpToRel
  <1> QED
    BY <1>2, SMT

LEMMA Largest ==
    ASSUME NEW n \in Nat \ {0}, NEW f \in [1 .. n -> Nat]
    PROVE  \E i \in 1 .. n : \A j \in 1 .. n : f[j] <= f[i]
  <1> DEFINE Has(m) == \E i \in 1 .. m : \A j \in 1 .. m : f[j] <= f[i]
             Without == {m \in 1 .. n : ~Has(m)}
  <1> SUFFICES ASSUME Without # {} PROVE FALSE
    <2>1. n \in 1 .. n
      OBVIOUS
    <2> QED
      BY <2>1
  <1>1. PICK m \in Without : \A y \in Without : m <= y
    <2>1. Without \in SUBSET Nat
      OBVIOUS
    <2> HIDE DEF Without
    <2> QED
      BY <2>1, Least
  <1>2. m \in 1 .. n /\ ~Has(m)
    OBVIOUS
  <1>3. m # 1
    <2> SUFFICES ASSUME m = 1 PROVE Has(m)
      BY <1>2
    <2>1. 1 .. m = {1} /\ f[1] \in Nat
      BY <1>2, SMT
    <2> QED
      BY <2>1, SMT
  <1>4. m - 1 \in 1 .. n /\ m - 1 < m
    BY <1>2, <1>3, SMT
  <1>5. Has(m - 1)
    <2>1. ~(m <= m - 1)
      BY <1>2, SMT
    <2>2. m - 1 \notin Without
      BY <1>1, <2>1
    <2> QED
      BY <2>2, <1>4
  <1>6. PICK i \in 1 .. m - 1 : \A j \in 1 .. m - 1 : f[j] <= f[i]
    BY <1>5
  <1>7. i \in 1 .. m /\ m \in 1 .. m /\ \A j \in 1 .. m : j = m \/ j \in 1 .. m - 1
    BY <1>2, <1>6, SMT
  <1>8. f[i] \in Nat /\ f[m] \in Nat /\ \A j \in 1 .. m : f[j] \in Nat
    BY <1>2, <1>7, SMT
  <1>9. CASE f[m] <= f[i]
    BY <1>2, <1>6, <1>7, <1>9
  <1>10. CASE f[i] <= f[m]
    <2>1. \A j \in 1 .. m : f[j] <= f[m]
      <3> SUFFICES ASSUME NEW j \in 1 .. m PROVE f[j] <= f[m]
        OBVIOUS
      <3>1. CASE j = m
        <4>1. \A z \in Nat : z <= z
          BY SMT
        <4> QED
          BY <3>1, <1>8, <4>1
      <3>2. CASE j \in 1 .. m - 1
        <4>1. f[j] <= f[i] /\ f[j] \in Nat
          BY <3>2, <1>6, <1>8
        <4>2. \A x, y, z \in Nat : x <= y /\ y <= z => x <= z
          BY SMT
        <4> QED
          BY <4>1, <4>2, <1>8, <1>10
      <3> QED
        BY <3>1, <3>2, <1>7
    <2> QED
      BY <2>1, <1>2, <1>7
  <1> QED
    BY <1>8, <1>9, <1>10, SMT

LEMMA Ends ==
    ASSUME NEW e \in Elfs, NEW k \in DOMAIN e.segments
    PROVE  /\ unaligned_end(e) \in Nat
           /\ e.segments[k].address + e.segments[k].size <= unaligned_end(e)
  <1> DEFINE n == Len(e.segments)
             f == [j \in 1 .. n |-> e.segments[j].address + e.segments[j].size]
             ends == {e.segments[j].address + e.segments[j].size : j \in DOMAIN e.segments}
  <1>1. /\ e.segments \in Seq(SegmentRecord) /\ DOMAIN e.segments = 1 .. n /\ n \in Nat \ {0}
        /\ \A j \in 1 .. n : e.segments[j] \in SegmentRecord
    <2>1. e.segments \in Seq(SegmentRecord)
      BY MappingAssumption
    <2>2. n \in Nat /\ DOMAIN e.segments = 1 .. n /\ e.segments \in [1 .. n -> SegmentRecord]
      BY <2>1
    <2>3. n # 0
      BY <2>2, SMT
    <2> QED
      BY <2>1, <2>2, <2>3
  <1>2. \A j \in 1 .. n : e.segments[j].address + e.segments[j].size \in Nat
    <2>1. \A s \in SegmentRecord : s.address \in Nat /\ s.size \in Nat
      BY DEF SegmentRecord
    <2>2. \A x, y \in Nat : x + y \in Nat
      BY SMT
    <2> HIDE DEF n
    <2> QED
      BY <1>1, <2>1, <2>2
  <1>3. f \in [1 .. n -> Nat]
    BY <1>2
  <1>4. PICK i \in 1 .. n : \A j \in 1 .. n : f[j] <= f[i]
    <2> HIDE DEF f, n
    <2> QED
      BY <1>1, <1>3, Largest
  <1>5. \A j \in 1 .. n : e.segments[j].address + e.segments[j].size <= e.segments[i].address + e.segments[i].size
    BY <1>4
  <1>6. \E z \in ends : \A y \in ends : y <= z
    BY <1>1, <1>5
  <1>7. unaligned_end(e) \in ends /\ \A y \in ends : y <= unaligned_end(e)
    BY <1>6 DEF unaligned_end
  <1> QED
    BY <1>1, <1>2, <1>7

------------------------------------------------------------------------------
(* Where a segment goes *)

LEMMA AlignmentFacts ==
    ASSUME NEW s \in SegmentRecord, s.align > PageSize => s.align % PageSize = 0
    PROVE  /\ PageSize \in Nat \ {0}
           /\ Alignment(s) \in Nat \ {0} /\ Alignment(s) % PageSize = 0
  <1>1. PageSize \in Nat \ {0} /\ s.align \in Nat
    BY MappingAssumption DEF SegmentRecord
  <1>2. PageSize % PageSize = 0
    <2>1. PageSize = PageSize * 1 /\ 1 \in Nat
      BY <1>1, SMT
    <2> QED
      BY <1>1, <2>1, Multiple
  <1> QED
    BY <1>1, <1>2, SMT DEF Alignment, Bigger

(* Given a base that is a multiple of the segment's alignment: the segment *)
(* begins in whole pages of the file and of memory, behind the base.       *)
LEMMA Placement ==
    ASSUME NEW s \in SegmentRecord, s.align > PageSize => s.align % PageSize = 0,
           NEW b \in Nat, b % Alignment(s) = 0
    PROVE  /\ page_offset(b, s) = s.address % Alignment(s)
           /\ aligned_addr(b, s) \in Nat /\ b <= aligned_addr(b, s) /\ aligned_addr(b, s) % PageSize = 0
           /\ aligned_addr(b, s) <= b + s.address
           /\ mapping_end(b, s) = b + align_to_next(s.address + s.size, PageSize)
  <1> DEFINE m == Alignment(s)
             x == s.address
  <1>1. /\ m \in Nat \ {0} /\ PageSize \in Nat \ {0} /\ m % PageSize = 0 /\ x \in Nat /\ s.size \in Nat
        /\ b % m = 0
    BY AlignmentFacts DEF SegmentRecord
  <1>2. page_offset(b, s) = (b + x) % m
    BY DEF page_offset
  <1>3. aligned_addr(b, s) = b + x - page_offset(b, s)
    BY DEF aligned_addr
  <1>4. mapping_end(b, s) = align_to_next(b + x + s.size, PageSize)
    BY DEF mapping_end, segment_end
  <1> HIDE DEF m, x
  <1>5. page_offset(b, s) = x % m
    BY <1>1, <1>2, MultiplesAdd
  <1> DEFINE q == x \div m
  <1>6. q \in Nat /\ x % m \in 0 .. m - 1 /\ x = m * q + (x % m)
    BY <1>1, Divided
  <1> HIDE DEF q
  <1>7. m * q \in Nat /\ (m * q) % m = 0
    BY <1>1, <1>6, Products, Multiple
  <1>8. aligned_addr(b, s) = b + m * q /\ m * q <= x
    BY <1>1, <1>3, <1>5, <1>6, <1>7, SMT
  <1>9. b % PageSize = 0 /\ (m * q) % PageSize = 0
    BY <1>1, <1>7, MultipleTransitive
  <1>10. (b + m * q) % PageSize = 0
    BY <1>1, <1>7, <1>9, MultiplesAdd
  <1>11. align_to_next(b + (x + s.size), PageSize) = b + align_to_next(x + s.size, PageSize)
    <2>1. x + s.size \in Nat
      BY <1>1, SMT
    <2> QED
      BY <1>1, <1>9, <2>1, AlignedShift
  <1>12. b + x + s.size = b + (x + s.size)
    BY <1>1, SMT
  <1>13. b + m * q \in Nat /\ b <= b + m * q /\ b + m * q <= b + x
    BY <1>1, <1>7, <1>8, SMT
  <1> QED
    BY <1>4, <1>5, <1>8, <1>10, <1>11, <1>12, <1>13 DEF m, x

(* Offsets that agree with addresses are mapped from whole pages. *)
LEMMA Offsets ==
    ASSUME NEW s \in SegmentRecord, s.align > PageSize => s.align % PageSize = 0,
           NEW b \in Nat, b % Alignment(s) = 0, s.offset % Alignment(s) = s.address % Alignment(s)
    PROVE  map_offset(b, s) \in Nat /\ map_offset(b, s) % PageSize = 0
  <1> DEFINE m == Alignment(s)
             x == s.offset
  <1>1. m \in Nat \ {0} /\ PageSize \in Nat \ {0} /\ m % PageSize = 0 /\ x \in Nat
    BY AlignmentFacts DEF SegmentRecord
  <1>2. map_offset(b, s) = x - (x % m)
    BY Placement DEF map_offset
  <1> HIDE DEF m, x
  <1> DEFINE q == x \div m
  <1>3. q \in Nat /\ x % m \in 0 .. m - 1 /\ x = m * q + (x % m)
    BY <1>1, Divided
  <1> HIDE DEF q
  <1>4. m * q \in Nat /\ (m * q) % m = 0
    BY <1>1, <1>3, Products, Multiple
  <1>5. map_offset(b, s) = m * q
    BY <1>1, <1>2, <1>3, <1>4, SMT
  <1> QED
    BY <1>1, <1>4, <1>5, MultipleTransitive

LEMMA SegmentFacts ==
    ASSUME NEW e \in Elfs, NEW k \in DOMAIN e.segments
    PROVE  LET s == e.segments[k] IN
           /\ s \in SegmentRecord /\ (s.align > PageSize => s.align % PageSize = 0)
           /\ PageSize \in Nat \ {0} /\ Alignment(s) \in Nat \ {0} /\ Alignment(s) % PageSize = 0
  <1> DEFINE s == e.segments[k]
             WholePages(t) == t.align > PageSize => t.align % PageSize = 0
  <1>1. s \in SegmentRecord /\ WholePages(s)
    <2>1. e.segments \in Seq(SegmentRecord) /\ \A j \in DOMAIN e.segments : WholePages(e.segments[j])
      BY MappingAssumption
    <2>2. s \in SegmentRecord
      BY <2>1
    <2> HIDE DEF WholePages
    <2> QED
      BY <2>1, <2>2
  <1>2. PageSize \in Nat \ {0} /\ Alignment(s) \in Nat \ {0} /\ Alignment(s) % PageSize = 0
    <2> HIDE DEF s
    <2> QED
      BY <1>1, AlignmentFacts
  <1> QED
    BY <1>1, <1>2

(* The base segment is the first at address 0. *)
LEMMA BaseAligned ==
    ASSUME NEW e \in Elfs, HasBase(e)
    PROVE  /\ PageSize \in Nat \ {0} /\ base_alignment(e) \in Nat \ {0}
           /\ base_alignment(e) % PageSize = 0
  <1> DEFINE IsFirst(j) == IsBase(e.segments[j]) /\ \A i \in 1 .. j - 1 : ~IsBase(e.segments[i])
  <1>2. \E j \in DOMAIN e.segments : IsFirst(j)
    <2> DEFINE T == {j \in DOMAIN e.segments : IsBase(e.segments[j])}
    <2>1. DOMAIN e.segments = 1 .. Len(e.segments) /\ Len(e.segments) \in Nat
      BY MappingAssumption
    <2>2. T \in SUBSET Nat /\ T # {}
      BY <2>1 DEF HasBase
    <2>3. PICK j \in T : \A i \in T : j <= i
      <3> HIDE DEF T
      <3> QED
        BY <2>2, Least
    <2>4. \A i \in 1 .. j - 1 : i \in DOMAIN e.segments /\ ~(j <= i)
      BY <2>1, SMT
    <2> QED
      BY <2>3, <2>4
  <1> DEFINE first == CHOOSE j \in DOMAIN e.segments : IsFirst(j)
  <1>3. first \in DOMAIN e.segments
    <2> HIDE DEF IsFirst
    <2> QED
      BY <1>2
  <1>4. BaseSegment(e) = e.segments[first]
    BY DEF BaseSegment
  <1>5. base_alignment(e) = Alignment(BaseSegment(e))
    BY DEF base_alignment, Alignment
  <1> QED
    BY <1>3, <1>4, <1>5, SegmentFacts

(* What is mapped for a segment lies in the range that was found free. *)
LEMMA InRange ==
    ASSUME NEW e \in Elfs, HasBase(e), NEW k \in DOMAIN e.segments,
           base_alignment(e) % Alignment(e.segments[k]) = 0,
           NEW m \in Nat, m % PageSize = 0,
           NEW b, b = align_to_next(m, base_alignment(e))
    PROVE  LET s == e.segments[k] IN
           /\ s \in SegmentRecord /\ (s.align > PageSize => s.align % PageSize = 0)
           /\ b \in Nat /\ b % Alignment(s) = 0
           /\ m <= aligned_addr(b, s) /\ mapping_end(b, s) <= m + Reserved(e)
  <1> DEFINE s == e.segments[k]
             al == base_alignment(e)
             end == align_to_next(unaligned_end(e), PageSize)
  <1>2. PageSize \in Nat \ {0} /\ al \in Nat \ {0} /\ al % PageSize = 0
    BY BaseAligned
  <1>3. /\ s \in SegmentRecord /\ (s.align > PageSize => s.align % PageSize = 0)
        /\ Alignment(s) \in Nat \ {0} /\ al % Alignment(s) = 0
    BY SegmentFacts
  <1>4. b \in Nat /\ b % al = 0 /\ m <= b /\ b + PageSize <= m + al
    BY <1>2, Aligned, AlignedByPages
  <1>5. b % Alignment(s) = 0
    <2> HIDE DEF s, al
    <2> QED
      BY <1>2, <1>3, <1>4, MultipleTransitive
  <1>6. /\ aligned_addr(b, s) \in Nat /\ b <= aligned_addr(b, s)
        /\ mapping_end(b, s) = b + align_to_next(s.address + s.size, PageSize)
    <2> HIDE DEF s
    <2> QED
      BY <1>3, <1>4, <1>5, Placement
  <1>7. align_to_next(s.address + s.size, PageSize) <= end
    <2>1. unaligned_end(e) \in Nat /\ s.address + s.size <= unaligned_end(e)
      BY Ends
    <2>2. s.address + s.size \in Nat
      <3>1. s.address \in Nat /\ s.size \in Nat
        BY <1>3 DEF SegmentRecord
      <3> QED
        BY <3>1, SMT
    <2> HIDE DEF s
    <2> QED
      BY <1>2, <2>1, <2>2, AlignedMonotone
  <1>8. end \in Nat /\ align_to_next(s.address + s.size, PageSize) \in Nat
    <2>1. unaligned_end(e) \in Nat
      BY Ends
    <2>2. s.address + s.size \in Nat
      <3>1. s.address \in Nat /\ s.size \in Nat
        BY <1>3 DEF SegmentRecord
      <3> QED
        BY <3>1, SMT
    <2> HIDE DEF s
    <2> QED
      BY <1>2, <2>1, <2>2, Aligned
  <1>9. Reserved(e) = end + al - PageSize
    BY DEF Reserved
  <1> DEFINE size == align_to_next(s.address + s.size, PageSize)
  <1>10. b + size <= m + (end + al - PageSize) /\ m <= aligned_addr(b, s)
    <2>1. size \in Nat /\ size <= end /\ end \in Nat /\ al \in Nat
      BY <1>2, <1>7, <1>8
    <2> HIDE DEF s, al, end, size
    <2> QED
      BY <2>1, <1>2, <1>4, <1>6, SMT
  <1> QED
    BY <1>3, <1>4, <1>5, <1>6, <1>9, <1>10

------------------------------------------------------------------------------
(* What a segment's mapping holds *)

LEMMA Quotient ==
    ASSUME NEW m \in Nat \ {0}, NEW x \in Nat, NEW t \in Nat, m * t <= x
    PROVE  t <= x \div m
  <1> DEFINE q == x \div m
  <1>1. q \in Nat /\ x % m \in 0 .. m - 1 /\ x = m * q + (x % m)
    BY Divided
  <1> HIDE DEF q
  <1>2. m * q \in Nat /\ m * t \in Nat
    BY <1>1, Products
  <1> SUFFICES ASSUME q < t PROVE FALSE
    BY <1>1, SMT DEF q
  <1>3. m * q + m <= m * t
    <2>1. m * q < m * t
      <3> DEFINE d == t - q - 1
      <3>1. d \in Nat /\ t = q + (1 + d)
        BY <1>1, SMT
      <3> HIDE DEF d
      <3>2. m * t = m * q + (m * 1 + m * d) /\ m * d \in Nat
        BY <1>1, <3>1, Products
      <3> QED
        BY <1>2, <3>2, SMT
    <2> QED
      BY <1>1, <2>1, Ordered
  <1> QED
    BY <1>1, <1>2, <1>3, SMT

(* The pages of a range that begins and ends at pages are those of its     *)
(* bytes.                                                                  *)
LEMMA PageOfByte ==
    ASSUME NEW from \in Nat, from % PageSize = 0, NEW to \in Nat, to % PageSize = 0, NEW a \in Addrs
    PROVE  /\ a \div PageSize \in Pages
           /\ a \in from .. to - 1 <=> a \div PageSize \in PagesOf(from, to)
  <1> DEFINE q == a \div PageSize
             r == a % PageSize
  <1>1. PageSize \in Nat \ {0} /\ Space \in Nat /\ Space % PageSize = 0 /\ a \in Nat /\ a < Space
    BY MappingAssumption, SMT DEF Addrs
  <1>2. q \in Nat /\ r \in 0 .. PageSize - 1 /\ a = PageSize * q + r
    BY <1>1, Divided
  <1> HIDE DEF q, r
  <1>3. PICK f \in Nat : from = PageSize * f
    BY <1>1, Multiple
  <1>4. PICK t \in Nat : to = PageSize * t
    BY <1>1, Multiple
  <1>5. PICK w \in Nat : Space = PageSize * w
    BY <1>1, Multiple
  <1> DEFINE x == PageSize * q
  <1>6. x \in Nat /\ q * PageSize = x /\ (q + 1) * PageSize = x + PageSize
    BY <1>1, <1>2, SMT
  <1>7. \A n \in Nat : x < PageSize * n => x + PageSize <= PageSize * n
    BY <1>1, <1>2, Ordered
  <1>8. \A n \in Nat : PageSize * n < x + PageSize => PageSize * n <= x
    <2> SUFFICES ASSUME NEW n \in Nat, PageSize * n < x + PageSize, ~(PageSize * n <= x) PROVE FALSE
      OBVIOUS
    <2> DEFINE z == PageSize * n
    <2>1. z \in Nat
      BY <1>1, Products
    <2>2. x < z
      <3> HIDE DEF x, z
      <3> QED
        BY <1>6, <2>1, SMT DEF x, z
    <2>3. x + PageSize <= z
      BY <1>7, <2>2
    <2> HIDE DEF x, z
    <2>4. z < x + PageSize
      BY DEF z
    <2> QED
      BY <1>1, <1>6, <2>1, <2>3, <2>4, SMT
  <1>9. q \in Pages
    <2> DEFINE v == Space \div PageSize
    <2>1. v = w
      <3>1. (PageSize * w + 0) \div PageSize = w /\ PageSize * w \in Nat
        BY <1>1, Remainder, Products
      <3> QED
        BY <1>5, <3>1
    <2>2. q < w
      <3> SUFFICES ASSUME w <= q PROVE FALSE
        BY <1>2, SMT
      <3> DEFINE d == q - w
      <3>1. d \in Nat /\ q = w + d
        BY <1>2, SMT
      <3> HIDE DEF d
      <3>2. PageSize * q = PageSize * w + PageSize * d /\ PageSize * d \in Nat
        BY <1>1, <3>1, Products
      <3> QED
        BY <1>1, <1>2, <1>5, <1>6, <3>2, SMT
    <2> QED
      BY <1>2, <2>1, <2>2, SMT DEF Pages
  <1>10. a \in from .. to - 1 <=> from <= a /\ a < to
    BY <1>1, SMT
  <1>11. q \in PagesOf(from, to) <=> from < x + PageSize /\ x < to
    BY <1>6, <1>9 DEF PagesOf
  <1>12. from < x + PageSize <=> from <= x
    <2>1. from < x + PageSize => from <= x
      BY <1>3, <1>8
    <2> HIDE DEF x
    <2> QED
      BY <1>1, <1>6, <2>1, SMT
  <1>13. x < to <=> x + PageSize <= to
    <2>1. x < to => x + PageSize <= to
      BY <1>4, <1>7
    <2> HIDE DEF x
    <2> QED
      BY <1>1, <1>6, <2>1, SMT
  <1>14. a = x + r
    BY <1>2
  <1>15. from <= a <=> from <= x
    <2>1. from <= a => from <= x
      <3>1. from <= a => from < x + PageSize
        <4> HIDE DEF x
        <4> QED
          BY <1>1, <1>2, <1>6, <1>14, SMT
      <3> QED
        BY <3>1, <1>12
    <2> HIDE DEF x
    <2> QED
      BY <1>2, <1>6, <1>14, <2>1, SMT
  <1>16. a < to <=> x < to
    <2>1. x < to => a < to
      <3>1. x < to => x + PageSize <= to
        BY <1>13
      <3> HIDE DEF x
      <3> QED
        BY <1>1, <1>2, <1>6, <1>14, <3>1, SMT
    <2> HIDE DEF x
    <2> QED
      BY <1>2, <1>6, <1>14, <2>1, SMT
  <1> QED
    BY <1>9, <1>10, <1>11, <1>12, <1>15, <1>16 DEF q

(* Where the parts of a segment end. *)
LEMMA SegmentPlace ==
    ASSUME NEW e \in Elfs, NEW k \in DOMAIN e.segments, NEW b \in Nat
    PROVE  LET s == e.segments[k] IN
           /\ page_offset(b, s) \in Nat
           /\ aligned_addr(b, s) = (b + s.address) - page_offset(b, s)
           /\ aligned_addr(b, s) \in Nat /\ aligned_addr(b, s) <= b + s.address
           /\ file_load_end(b, s) \in Nat /\ b + s.address <= file_load_end(b, s)
           /\ file_load_end(b, s) <= segment_end(b, s) /\ b + s.address < segment_end(b, s)
           /\ page_break(b, s) \in Nat /\ page_break(b, s) % PageSize = 0
           /\ file_load_end(b, s) <= page_break(b, s) /\ page_break(b, s) < file_load_end(b, s) + PageSize
           /\ page_break(b, s) <= mapping_end(b, s)
           /\ segment_end(b, s) \in Nat /\ segment_end(b, s) <= mapping_end(b, s)
           /\ mapping_end(b, s) \in Nat /\ mapping_end(b, s) % PageSize = 0
           /\ s.filesz = s.size => page_break(b, s) = mapping_end(b, s)
  <1> DEFINE s == e.segments[k]
             m == Alignment(s)
             start == b + s.address
  <1>1. /\ s \in SegmentRecord /\ m \in Nat \ {0} /\ PageSize \in Nat \ {0}
    BY SegmentFacts
  <1>2. s.address \in Nat /\ s.size \in Nat \ {0} /\ s.filesz \in Nat /\ s.filesz <= s.size
    BY <1>1, SegmentFormat DEF SegmentRecord
  <1>3. start \in Nat /\ start + s.size \in Nat /\ start + s.filesz \in Nat /\ start + s.filesz <= start + s.size
    BY <1>2, SMT
  <1>4. page_offset(b, s) = start % m /\ aligned_addr(b, s) = start - page_offset(b, s)
    <2> DEFINE po == page_offset(b, s)
    <2>1. po = start % m /\ aligned_addr(b, s) = b + (s.address - po)
      <3> HIDE DEF s
      <3> QED
        BY Zenon DEF page_offset, aligned_addr
    <2>2. po \in Int
      <3> HIDE DEF m, start, po
      <3> QED
        BY <1>1, <1>3, <2>1, SMT
    <2>3. b + (s.address - po) = start - po
      <3>1. start = b + s.address
        OBVIOUS
      <3> HIDE DEF s, start, po
      <3> QED
        BY <1>2, <2>2, <3>1, SMT
    <2> QED
      BY <2>1, <2>3
  <1>5. segment_end(b, s) = start + s.size /\ file_load_end(b, s) = start + s.filesz
    BY DEF segment_end, file_load_end
  <1>6. /\ mapping_end(b, s) = align_to_next(start + s.size, PageSize)
        /\ page_break(b, s) = align_to_next(start + s.filesz, PageSize)
    BY <1>5 DEF mapping_end, page_break
  <1> HIDE DEF s, m, start
  <1>7. start % m \in 0 .. m - 1 /\ start \div m \in Nat /\ start = m * (start \div m) + (start % m)
    BY <1>1, <1>3, Divided
  <1>8. start % m \in Nat /\ start % m <= start
    <2> DEFINE q == start \div m
               z == m * q
               r == start % m
    <2>1. z \in Nat
      BY <1>1, <1>7, Products
    <2>2. r \in 0 .. m - 1 /\ start = z + r
      BY <1>7
    <2> HIDE DEF z, r
    <2> QED
      BY <1>1, <2>1, <2>2, SMT DEF r
  <1>9. start - (start % m) \in Nat /\ start - (start % m) <= start
    BY <1>3, <1>8, SMT
  <1> DEFINE me == align_to_next(start + s.size, PageSize)
             pb == align_to_next(start + s.filesz, PageSize)
  <1>10. /\ me \in Nat /\ me % PageSize = 0 /\ start + s.size <= me
         /\ pb \in Nat /\ pb % PageSize = 0 /\ start + s.filesz <= pb /\ pb < start + s.filesz + PageSize
    BY <1>1, <1>3, Aligned
  <1>11. pb <= me
    BY <1>1, <1>3, AlignedMonotone
  <1>12. s.filesz = s.size => pb = me
    OBVIOUS
  <1> HIDE DEF me, pb
  <1>13. start <= start + s.filesz /\ start < start + s.size
    BY <1>2, <1>3, SMT
  <1>14. page_offset(b, s) \in Nat /\ aligned_addr(b, s) \in Nat /\ aligned_addr(b, s) <= start
    BY <1>4, <1>8, <1>9
  <1>15. /\ file_load_end(b, s) \in Nat /\ start <= file_load_end(b, s)
         /\ file_load_end(b, s) <= segment_end(b, s) /\ start < segment_end(b, s) /\ segment_end(b, s) \in Nat
    BY <1>3, <1>5, <1>13
  <1>16. mapping_end(b, s) = me /\ page_break(b, s) = pb
    BY <1>6 DEF me, pb
  <1>17. /\ page_break(b, s) \in Nat /\ page_break(b, s) % PageSize = 0
         /\ file_load_end(b, s) <= page_break(b, s) /\ page_break(b, s) < file_load_end(b, s) + PageSize
         /\ page_break(b, s) <= mapping_end(b, s)
    BY <1>5, <1>10, <1>11, <1>16
  <1>18. /\ segment_end(b, s) <= mapping_end(b, s)
         /\ mapping_end(b, s) \in Nat /\ mapping_end(b, s) % PageSize = 0
         /\ s.filesz = s.size => page_break(b, s) = mapping_end(b, s)
    BY <1>5, <1>10, <1>12, <1>16
  <1>19. aligned_addr(b, s) = (b + s.address) - page_offset(b, s)
    BY <1>4 DEF start
  <1> QED
    BY <1>14, <1>15, <1>17, <1>18, <1>19 DEF s, start

(* The bytes that the file, or the clearing of what is behind it, gives a  *)
(* mapped segment: nothing lies behind the file's last page, and the       *)
(* segment's own bytes are those the file has for it, or zero.             *)
LEMMA SegmentBytes ==
    ASSUME NEW b \in Nat, elf \in Elfs, NEW k \in DOMAIN elf.segments,
           map_offset(b, elf.segments[k]) \in Nat, map_offset(b, elf.segments[k]) % PageSize = 0,
           aligned_addr(b, elf.segments[k]) % PageSize = 0, NEW a \in BytesMapped(b, elf.segments[k])
    PROVE  LET s == elf.segments[k] IN
           /\ LoadedByte(b, s, a) # Beyond
           /\ a \in BytesOf(s) /\ b = base =>
                LoadedByte(b, s, a) = IF a < file_load_end(b, s) THEN File(s.offset + a - (b + s.address)) ELSE Zero
  <1> DEFINE s == elf.segments[k]
             from == aligned_addr(b, s)
             to == mapping_end(b, s)
             fe == file_load_end(b, s)
             pb == page_break(b, s)
             o == map_offset(b, s)
             n == o + a - from
             start == b + s.address
  <1>1. /\ s \in SegmentRecord /\ PageSize \in Nat \ {0}
    BY SegmentFacts
  <1>2. /\ s.address \in Nat /\ s.size \in Nat \ {0} /\ s.filesz \in Nat /\ s.filesz <= s.size
        /\ s.offset \in Nat /\ s.offset + s.filesz <= elf.length /\ elf.length \in Nat
    BY <1>1, SegmentFormat, MappingAssumption DEF SegmentRecord
  <1>3. /\ from \in Nat /\ from <= start /\ fe \in Nat /\ start <= fe /\ fe = start + s.filesz
        /\ pb \in Nat /\ pb % PageSize = 0 /\ fe <= pb /\ pb < fe + PageSize /\ pb <= to
        /\ to \in Nat /\ start + s.size <= to
        /\ s.filesz = s.size => pb = to
        /\ o - from = s.offset - start
    <2>1. o = s.offset - page_offset(b, s) /\ segment_end(b, s) = start + s.size /\ fe = start + s.filesz
      BY DEF map_offset, segment_end, file_load_end
    <2>2. from = start - page_offset(b, s) /\ page_offset(b, s) \in Nat
      <3> QED
        BY SegmentPlace
    <2>3. start \in Nat
      BY <1>2, SMT
    <2> DEFINE po == page_offset(b, s)
    <2>4. o - from = s.offset - start
      <3>1. o = s.offset - po /\ from = start - po /\ po \in Nat
        BY <2>1, <2>2
      <3> HIDE DEF s, o, from, start, po
      <3> QED
        BY <1>2, <2>3, <3>1, SMT
    <2> QED
      BY <2>1, <2>4, SegmentPlace
  <1>4. a \in Nat /\ from <= a /\ a < to /\ o \in Nat /\ o % PageSize = 0 /\ from % PageSize = 0
    <2>1. a \in from .. to - 1
      BY DEF BytesMapped
    <2>2. o \in Nat /\ o % PageSize = 0 /\ from % PageSize = 0
      OBVIOUS
    <2> HIDE DEF s, from, to
    <2> QED
      BY <1>3, <2>1, <2>2, SMT
  <1>5. start \in Nat
    BY <1>2, SMT
  <1> DEFINE Cleared == \/ ClearsTail(b, s) /\ fe <= a /\ a < pb
                        \/ ClearsPages(b, s) /\ pb <= a
  <1>6. LoadedByte(b, s, a) = IF Cleared THEN Zero ELSE FromFile(n)
    BY DEF LoadedByte
  <1>7. /\ ClearsTail(b, s) <=> s.size > s.filesz /\ fe < pb
        /\ ClearsPages(b, s) <=> s.size > s.filesz /\ pb < to
    BY DEF ClearsTail, ClearsPages
  <1>8. FromFile(n) = IF n < elf.length THEN File(n)
                      ELSE IF n \div PageSize <= (elf.length - 1) \div PageSize THEN Zero ELSE Beyond
    BY DEF FromFile
  <1>9. ~Cleared => a < pb
    <2> HIDE DEF s, from, to, fe, pb, o, start
    <2> QED
      BY <1>2, <1>3, <1>4, <1>7, SMT
  <1>10. n \in Nat /\ n = s.offset + a - start
    <2> HIDE DEF s, from, to, fe, pb, o, start
    <2> QED
      BY <1>2, <1>3, <1>4, <1>5, SMT
  <1>11. ASSUME ~Cleared, ~(n < elf.length) PROVE n \div PageSize <= (elf.length - 1) \div PageSize
    <2> DEFINE t == n \div PageSize
               l == elf.length - 1
    <2>1. PICK f \in Nat : from = PageSize * f
      BY <1>1, <1>3, <1>4, Multiple
    <2>2. PICK g \in Nat : o = PageSize * g
      BY <1>1, <1>4, Multiple
    <2>3. PICK h \in Nat : pb = PageSize * h
      BY <1>1, <1>3, Multiple
    <2>4. o + pb = PageSize * (g + h) /\ g + h \in Nat
      BY <1>1, <2>2, <2>3, Products
    <2>5. t \in Nat /\ n = PageSize * t + (n % PageSize) /\ n % PageSize \in 0 .. PageSize - 1
      BY <1>1, <1>10, Divided
    <2> DEFINE pt == PageSize * t
    <2> HIDE DEF t
    <2>6. pt \in Nat /\ pt + from = PageSize * (t + f) /\ t + f \in Nat
      <3>1. /\ pt \in Nat /\ PageSize * (t + f) = pt + PageSize * f /\ t + f \in Nat
        BY <1>1, <2>1, <2>5, Products
      <3> HIDE DEF from, pt
      <3> QED
        BY <2>1, <3>1
    <2>7. pt <= n
      <3> DEFINE r == n % PageSize
      <3>1. r \in 0 .. PageSize - 1 /\ n = pt + r
        BY <2>5
      <3> HIDE DEF r, pt, n
      <3> QED
        BY <1>1, <1>10, <2>6, <3>1, SMT
    <2>8. pt + from < o + pb
      <3>1. a < pb
        BY <1>9, <1>11
      <3>2. n = o + a - from
        OBVIOUS
      <3> HIDE DEF s, from, to, fe, pb, o, n, start, pt
      <3> QED
        BY <1>3, <1>4, <1>10, <2>6, <2>7, <3>1, <3>2, SMT
    <2>9. pt + from + PageSize <= o + pb
      <3>1. PageSize * (t + f) < PageSize * (g + h)
        BY <2>4, <2>6, <2>8
      <3>2. PageSize * (t + f) + PageSize <= PageSize * (g + h)
        BY <1>1, <2>4, <2>6, <3>1, Ordered
      <3> QED
        BY <2>4, <2>6, <3>2
    <2>10. l \in Nat /\ pt <= l
      <3>1. l = elf.length - 1
        OBVIOUS
      <3> HIDE DEF s, from, to, fe, pb, o, n, start, pt, l
      <3> QED
        BY <1>1, <1>2, <1>3, <1>4, <1>5, <2>6, <2>9, <3>1, SMT
    <2>11. t <= l \div PageSize
      <3> HIDE DEF l
      <3> QED
        BY <1>1, <2>5, <2>10, Quotient DEF t
    <2> QED
      BY <2>11 DEF t
  <1>12. LoadedByte(b, s, a) # Beyond
    <2>1. Zero # Beyond /\ \A x : File(x) # Beyond
      BY DEF Zero, Beyond, File
    <2> HIDE DEF n, Cleared
    <2> QED
      BY <1>6, <1>8, <1>11, <2>1
  <1>13. ASSUME a \in BytesOf(s), b = base
         PROVE  LoadedByte(b, s, a) = IF a < fe THEN File(s.offset + a - start) ELSE Zero
    <2>1. start <= a /\ a < start + s.size
      <3>1. a \in base + s.address .. (base + s.address + s.size) - 1
        <4> HIDE DEF s
        <4> QED
          BY <1>13, Zenon DEF BytesOf, segment_end
      <3>2. a \in start .. (start + s.size) - 1
        BY <1>13, <3>1
      <3> HIDE DEF s, start
      <3> QED
        BY <1>2, <1>4, <1>5, <3>2, SMT
    <2>2. CASE a < fe
      <3>1. ~Cleared /\ n < elf.length
        <4> HIDE DEF s, from, to, fe, pb, o, n, start
        <4> QED
          BY <1>2, <1>3, <1>4, <1>5, <1>10, <2>1, <2>2, SMT
      <3>2. FromFile(n) = File(n)
        BY <1>8, <3>1
      <3> HIDE DEF n, Cleared
      <3> QED
        BY <1>6, <1>10, <2>2, <3>1, <3>2
    <2>3. CASE ~(a < fe)
      <3>1. Cleared
        <4> HIDE DEF s, from, to, fe, pb, o, n, start
        <4> QED
          BY <1>2, <1>3, <1>4, <1>5, <1>7, <2>1, <2>3, SMT
      <3> QED
        BY <1>6, <2>3, <3>1
    <2> QED
      BY <2>2, <2>3
  <1> QED
    BY <1>12, <1>13

LEMMA OwnBytes ==
    ASSUME NEW e \in Elfs, NEW k \in DOMAIN e.segments, base \in Nat
    PROVE  BytesOf(e.segments[k]) \subseteq BytesMapped(base, e.segments[k])
  <1> DEFINE s == e.segments[k]
             from == aligned_addr(base, s)
             to == mapping_end(base, s)
             start == base + s.address
             last == segment_end(base, s)
  <1>1. from \in Nat /\ to \in Nat /\ from <= start /\ last \in Nat /\ last <= to
    BY SegmentPlace
  <1>2. start \in Nat
    BY SegmentFacts, SMT DEF SegmentRecord
  <1>3. BytesOf(s) = start .. last - 1 /\ BytesMapped(base, s) = from .. to - 1
    BY DEF BytesOf, BytesMapped
  <1> HIDE DEF s, from, to, start, last
  <1>4. start .. last - 1 \subseteq from .. to - 1
    BY <1>1, <1>2, SMT
  <1> QED
    BY <1>3, <1>4 DEF s

------------------------------------------------------------------------------
(* The invariant *)

Typed ==
    /\ elf \in Elfs /\ idx \in Nat
    /\ owner \in [Pages -> {"free", "self", "others"}]

NothingYet == phase \in {"needed", "reserve"} => \A p \in Pages : owner[p] # "self"

Placed ==
    phase \in {"map", "not_mapped"} =>
        /\ HasBase(elf)
        /\ mapped \in Nat /\ mapped % PageSize = 0 /\ mapped + Reserved(elf) <= Space
        /\ base = align_to_next(mapped, base_alignment(elf))

(* While segments are mapped, the object's pages are those of the blocks   *)
(* of the segments before.                                                 *)
InBlocks ==
    phase = "map" =>
        \A p \in Pages : owner[p] = "self" =>
            \E j \in DOMAIN elf.segments : j < idx /\ p \in Block(base, elf.segments[j])

LInv == Typed /\ NothingYet /\ Placed /\ InBlocks /\ MappingAborts

LEMMA PagesWithin ==
    ASSUME NEW from \in Nat, NEW to, NEW low \in Nat, NEW high \in Int,
           to \in Int, low <= from, to <= high
    PROVE  PagesOf(from, to) \subseteq PagesOf(low, high)
  <1> SUFFICES ASSUME NEW p \in Pages, from < (p + 1) * PageSize, p * PageSize < to
               PROVE  low < (p + 1) * PageSize /\ p * PageSize < high
    BY DEF PagesOf
  <1>1. p \in Nat /\ PageSize \in Nat
    BY MappingAssumption, SMT DEF Pages
  <1>2. p * PageSize \in Nat /\ (p + 1) * PageSize \in Nat
    BY <1>1, SMT
  <1> DEFINE x == p * PageSize
             y == (p + 1) * PageSize
  <1>3. x \in Nat /\ y \in Nat /\ from < y /\ x < to
    BY <1>2
  <1> HIDE DEF x, y
  <1>4. low < y /\ x < high
    BY <1>3, SMT
  <1> QED
    BY <1>4 DEF x, y

(* What well laid out files need is there, unless somebody else took it.   *)
LEMMA RangeSuffices ==
    ASSUME Typed, Placed, InBlocks, MoreSegments, WellLaidOut, ~Intruded
    PROVE  Mappable(base, Segment)
  <1> DEFINE s == elf.segments[idx]
             from == aligned_addr(base, s)
             to == mapping_end(base, s)
  <1>1. /\ elf \in Elfs /\ HasBase(elf) /\ idx \in DOMAIN elf.segments /\ phase = "map" /\ s \in Segments
        /\ mapped \in Nat /\ mapped % PageSize = 0 /\ mapped + Reserved(elf) <= Space
        /\ base = align_to_next(mapped, base_alignment(elf))
    BY DEF Typed, Placed, MoreSegments, Segments
  <1>2. base_alignment(elf) % Alignment(s) = 0 /\ s.offset % Alignment(s) = s.address % Alignment(s)
    BY <1>1 DEF WellLaidOut
  <1>3. /\ s \in SegmentRecord /\ (s.align > PageSize => s.align % PageSize = 0)
        /\ base \in Nat /\ base % Alignment(s) = 0
        /\ mapped <= from /\ to <= mapped + Reserved(elf)
    BY <1>1, <1>2, InRange
  <1>4. /\ map_offset(base, s) \in Nat /\ map_offset(base, s) % PageSize = 0
        /\ from \in Nat /\ from % PageSize = 0
    <2> HIDE DEF s
    <2> QED
      BY <1>2, <1>3, Offsets, Placement DEF from
  <1>5. to \in Int /\ Reserved(elf) \in Int
    <2>1. to = base + align_to_next(s.address + s.size, PageSize)
      <3> HIDE DEF s
      <3> QED
        BY <1>3, Placement DEF to
    <2>2. s.address + s.size \in Nat /\ PageSize \in Nat \ {0}
      <3>1. s.address \in Nat /\ s.size \in Nat
        BY <1>3 DEF SegmentRecord
      <3> QED
        BY <3>1, MappingAssumption, SMT
    <2>3. align_to_next(s.address + s.size, PageSize) \in Nat
      <3> HIDE DEF s
      <3> QED
        BY <2>2, Aligned
    <2>4. unaligned_end(elf) \in Nat /\ base_alignment(elf) \in Nat
      BY <1>1, Ends, BaseAligned
    <2>5. align_to_next(unaligned_end(elf), PageSize) \in Nat
      BY <2>2, <2>4, Aligned
    <2> HIDE DEF s, to
    <2> QED
      BY <1>3, <2>1, <2>2, <2>3, <2>4, <2>5, SMT DEF Reserved
  <1>6. ASSUME NEW p \in PagesOf(from, to) PROVE owner[p] = "free"
    <2>1. PagesOf(from, to) \subseteq PagesOf(mapped, mapped + Reserved(elf))
      <3> HIDE DEF from, to
      <3>1. mapped + Reserved(elf) \in Int
        BY <1>1, <1>5
      <3> QED
        BY <3>1, <1>1, <1>3, <1>4, <1>5, PagesWithin
    <2>2. owner[p] # "others"
      BY <2>1 DEF Intruded
    <2>3. owner[p] # "self"
      <3> SUFFICES ASSUME owner[p] = "self" PROVE FALSE
        OBVIOUS
      <3>1. p \in Pages
        BY DEF PagesOf
      <3>2. PICK j \in DOMAIN elf.segments : j < idx /\ p \in Block(base, elf.segments[j])
        BY <1>1, <3>1 DEF InBlocks
      <3>3. Block(base, elf.segments[j]) \cap Block(base, s) = {}
        BY <1>1, <3>2 DEF WellLaidOut
      <3> QED
        BY <3>2, <3>3 DEF Block
    <2> QED
      BY <2>2, <2>3 DEF Typed, PagesOf
  <1>7. 0 <= from /\ to <= Space
    <2> HIDE DEF from, to
    <2> QED
      BY <1>1, <1>3, <1>4, <1>5, MappingAssumption, SMT
  <1>8. map_offset(base, s) >= 0
    <2> DEFINE o == map_offset(base, s)
    <2>1. o \in Nat
      BY <1>4
    <2> HIDE DEF o
    <2>2. o >= 0
      BY <2>1, SMT
    <2> QED
      BY <2>2 DEF o
  <1> QED
    BY <1>4, <1>6, <1>7, <1>8 DEF Mappable, Segment, Free

LEMMA StartsRight == Init => LInv
  <1> SUFFICES ASSUME Init PROVE LInv
    OBVIOUS
  <1>1. PICK t \in Taken : owner = [p \in Pages |-> IF p \in t THEN "others" ELSE "free"]
    BY DEF Init, MappingInit
  <1>2. owner \in [Pages -> {"free", "self", "others"}] /\ \A p \in Pages : owner[p] # "self"
    BY <1>1
  <1>3. elf \in Elfs /\ idx = 1 /\ phase = "needed"
    BY DEF Init, MappingInit
  <1> QED
    BY <1>2, <1>3 DEF LInv, Typed, NothingYet, Placed, InBlocks, MappingAborts

(* Steps that leave the address space alone and go to a later phase. *)
LEMMA Elsewhere ==
    ASSUME LInv, elf' = elf, owner' = owner, idx' \in Nat,
           phase' \notin {"needed", "reserve", "map", "not_mapped"}
    PROVE  LInv'
  BY DEF LInv, Typed, NothingYet, Placed, InBlocks, MappingAborts

LEMMA StepsKeep == LInv /\ [Next]_vars => LInv'
  <1> SUFFICES ASSUME LInv, [Next]_vars PROVE LInv'
    OBVIOUS
  <1>t. /\ elf \in Elfs /\ idx \in Nat /\ owner \in [Pages -> {"free", "self", "others"}]
        /\ idx + 1 \in Nat /\ 1 \in Nat
    BY SMT DEF LInv, Typed
  <1>1. CASE SkipNeeded \/ OpenNeeded \/ AllNeeded
    <2>1. /\ elf' = elf /\ owner' = owner /\ idx' \in Nat
          /\ phase \in {"needed", "reserve"} /\ phase' \in {"needed", "reserve"}
      BY <1>1, <1>t DEF SkipNeeded, OpenNeeded, AllNeeded, ReachedNeeded, mapvars
    <2> QED
      BY <2>1 DEF LInv, Typed, NothingYet, Placed, InBlocks, MappingAborts
  <1>2. CASE NeededFails
    <2>1. elf' = elf /\ owner' = owner /\ idx' \in Nat /\ phase' = "no_library"
      BY <1>2, <1>t DEF NeededFails, mapvars
    <2> QED
      BY <2>1, Elsewhere
  <1>3. CASE Reserve
    <2>1. PICK p \in Hints : ReserveAt(p * PageSize)
      BY <1>3 DEF Reserve
    <2> DEFINE m == p * PageSize
    <2>2. /\ phase = "reserve" /\ phase' = "map" /\ elf' = elf /\ owner' = owner /\ idx' = 1
          /\ HasBase(elf) /\ mapped' = m /\ base' = align_to_next(m, base_alignment(elf))
          /\ m + Reserved(elf) <= Space
      BY <2>1 DEF ReserveAt, Free
    <2>3. m \in Nat /\ m % PageSize = 0
      <3>1. p \in Nat /\ PageSize \in Nat \ {0}
        BY MappingAssumption, SMT DEF Pages
      <3>2. m = PageSize * p /\ m \in Nat
        BY <3>1, Products
      <3> HIDE DEF m
      <3> QED
        BY <3>1, <3>2, Multiple
    <2>4. \A q \in Pages : owner[q] # "self"
      BY <2>2 DEF LInv, NothingYet
    <2> HIDE DEF m
    <2> QED
      BY <1>t, <2>2, <2>3, <2>4 DEF LInv, Typed, NothingYet, Placed, InBlocks, MappingAborts
  <1>4. CASE NothingReserved
    <2>1. elf' = elf /\ owner' = owner /\ idx' \in Nat /\ phase' = "not_reserved"
      BY <1>4, <1>t DEF NothingReserved, mapvars
    <2> QED
      BY <2>1, Elsewhere
  <1>5. CASE LoadSegment
    <2>1. /\ phase = "map" /\ phase' = "map" /\ elf' = elf /\ idx' = idx + 1 /\ mapped' = mapped /\ base' = base
          /\ idx \in DOMAIN elf.segments
          /\ owner' = [p \in Pages |-> IF p \in MapsPages(base, Segment) THEN "self" ELSE owner[p]]
      BY <1>5 DEF LoadSegment, MoreSegments
    <2>2. owner' \in [Pages -> {"free", "self", "others"}]
      BY <1>t, <2>1
    <2>3. ASSUME NEW p \in Pages, owner'[p] = "self"
          PROVE  \E j \in DOMAIN elf.segments : j < idx + 1 /\ p \in Block(base, elf.segments[j])
      <3>1. CASE p \in MapsPages(base, Segment)
        <4>1. p \in Block(base, elf.segments[idx]) /\ idx < idx + 1
          BY <1>t, <3>1, SMT DEF MapsPages, Block, Segment
        <4> QED
          BY <4>1, <2>1
      <3>2. CASE p \notin MapsPages(base, Segment)
        <4>1. owner[p] = "self"
          BY <2>1, <2>3, <3>2
        <4>2. PICK j \in DOMAIN elf.segments : j < idx /\ p \in Block(base, elf.segments[j])
          BY <4>1, <2>1 DEF LInv, InBlocks
        <4>3. j \in Nat
          <5>1. DOMAIN elf.segments = 1 .. Len(elf.segments)
            BY <1>t, MappingAssumption
          <5> QED
            BY <5>1
        <4>4. j < idx + 1
          BY <1>t, <4>2, <4>3, SMT
        <4> QED
          BY <4>2, <4>4
      <3> QED
        BY <3>1, <3>2
    <2>4. Placed'
      BY <2>1 DEF LInv, Placed
    <2>5. InBlocks'
      BY <2>1, <2>3 DEF InBlocks, Block, PagesOf, aligned_addr, mapping_end, page_offset, segment_end
    <2> QED
      BY <1>t, <2>1, <2>2, <2>4, <2>5 DEF LInv, Typed, NothingYet, MappingAborts
  <1>6. CASE SegmentFails
    <2>1. /\ phase = "map" /\ phase' = "not_mapped" /\ UNCHANGED <<elf, idx, owner, mapped, base>>
          /\ MoreSegments /\ ~Mappable(base, Segment)
      BY <1>6 DEF SegmentFails, mapvars, MoreSegments
    <2>2. ~WellLaidOut \/ Intruded
      BY <2>1, RangeSuffices DEF LInv
    <2>3. (~WellLaidOut \/ Intruded)'
      <3>1. WellLaidOut' <=> WellLaidOut
        BY <2>1 DEF WellLaidOut, Segments, Block, PagesOf, aligned_addr, mapping_end, page_offset, segment_end
      <3>2. Intruded' <=> Intruded
        BY <2>1 DEF Intruded
      <3> QED
        BY <2>2, <3>1, <3>2
    <2> QED
      BY <2>1, <2>3 DEF LInv, Typed, NothingYet, Placed, InBlocks, MappingAborts
  <1>7. CASE ClearFaults
    <2>1. elf' = elf /\ owner' = owner /\ idx' \in Nat /\ phase' = "not_writable"
      BY <1>7, <1>t DEF ClearFaults, mapvars
    <2> QED
      BY <2>1, Elsewhere
  <1>8. CASE OthersMap
    <2>1. /\ phase = "map" /\ phase' = "map" /\ UNCHANGED <<elf, idx, mapped, base>>
      BY <1>8 DEF OthersMap
    <2>2. PICK p \in Pages : owner[p] = "free" /\ owner' = [owner EXCEPT ![p] = "others"]
      BY <1>8 DEF OthersMap
    <2>3. owner' \in [Pages -> {"free", "self", "others"}] /\ \A q \in Pages : owner'[q] = "self" => owner[q] = "self"
      BY <1>t, <2>2
    <2>4. Placed'
      BY <2>1 DEF LInv, Placed
    <2>5. InBlocks'
      BY <2>1, <2>3 DEF LInv, InBlocks, Block, PagesOf, aligned_addr, mapping_end, page_offset, segment_end
    <2> QED
      BY <1>t, <2>1, <2>3, <2>4, <2>5 DEF LInv, Typed, NothingYet, MappingAborts
  <1>9. CASE Link
    <2>1. elf' = elf /\ owner' = owner /\ idx' \in Nat /\ phase' \in {"relocate", "not_bound"}
      BY <1>9, <1>t DEF Link, RegisterSymbols, RelocateRelative, RelocateSymbol, SkipWeak, RelocationFails,
         ReachedReloc, mapvars
    <2> QED
      BY <2>1, Elsewhere
  <1>10. CASE Start
    <2>1. elf' = elf /\ owner' = owner /\ idx' \in Nat /\ phase' \in {"init", "entered", "no_entry"}
      BY <1>10, <1>t DEF Start, CollectInit, CallInit, CallEntry, mapvars
    <2> QED
      BY <2>1, Elsewhere
  <1>11. CASE UNCHANGED vars
    <2>1. UNCHANGED <<elf, idx, owner, mapped, base, phase>>
      BY <1>11 DEF vars, mapvars
    <2>2. (WellLaidOut' <=> WellLaidOut) /\ (Intruded' <=> Intruded)
      BY <2>1 DEF Intruded, WellLaidOut, Segments, Block, PagesOf, aligned_addr, mapping_end, page_offset, segment_end
    <2>3. InBlocks'
      BY <2>1 DEF LInv, InBlocks, Block, PagesOf, aligned_addr, mapping_end, page_offset, segment_end
    <2> QED
      BY <2>1, <2>2, <2>3 DEF LInv, Typed, NothingYet, Placed, MappingAborts
  <1> QED
    BY <1>1, <1>2, <1>3, <1>4, <1>5, <1>6, <1>7, <1>8, <1>9, <1>10, <1>11 DEF Next, Map

LEMMA Always == Spec => []LInv
  BY StartsRight, StepsKeep, PTL DEF Spec

------------------------------------------------------------------------------
(* What the object's memory holds *)

(* The segments that have been mapped, the relocations that have been      *)
(* applied, and the slots these have written.                              *)
Done == {j \in DOMAIN elf.segments :
            Loaded \/ (phase \in {"map", "not_mapped", "not_writable"} /\ j < idx)}
Applied == {j \in DOMAIN elf.relocs : Loaded /\ (phase \in {"relocate", "not_bound"} => j < idx)}
Written == {base + elf.relocs[j].at : j \in Applied}

Bytes(j) == BytesMapped(base, elf.segments[j])

Position == base \in Addrs /\ mapped \in 0 .. base

(* The object's bytes are those of its pages. *)
Owned == \A a \in Addrs : a \in DOMAIN memory <=> owner[a \div PageSize] = "self"

MappedWhole == \A j \in Done :
    /\ aligned_addr(base, elf.segments[j]) % PageSize = 0
    /\ mapping_end(base, elf.segments[j]) <= Space
    /\ map_offset(base, elf.segments[j]) \in Nat /\ map_offset(base, elf.segments[j]) % PageSize = 0
    /\ Bytes(j) \subseteq DOMAIN memory

Apart == \A i, j \in Done : i # j => Bytes(i) \cap Bytes(j) = {}

Content == \A j \in Done : \A a \in Bytes(j) \ Written : memory[a] = LoadedByte(base, elf.segments[j], a)

NoneMissing == \A a \in DOMAIN memory : memory[a] # Beyond

Tables == /\ \A n \in DOMAIN global_symbols : global_symbols[n] # Beyond
          /\ \A n \in DOMAIN local_symbols : local_symbols[n] # Beyond

(* The ranges told to the translator are those of the executable segments. *)
RangesOfSegments ==
    /\ ranges \in Seq(Nat \X Nat)
    /\ \A k \in DOMAIN ranges : \E j \in Done :
         elf.segments[j].x /\ ranges[k] = ExecRange(base, elf.segments[j])
    /\ \A j \in Done : elf.segments[j].x =>
         \E k \in DOMAIN ranges : ranges[k] = ExecRange(base, elf.segments[j])

(* A page can be read if the permissions of its segment say so.            *)
Rights == \A j \in Done : \A p \in MapsPages(base, elf.segments[j]) :
            p \in readable <=> Legible(elf.segments[j])

ImageInv == Position /\ Owned /\ MappedWhole /\ Apart /\ Content /\ NoneMissing /\ Tables /\ RangesOfSegments /\ Rights

LEMMA SegmentIndex ==
    ASSUME NEW e \in Elfs
    PROVE  /\ Len(e.segments) \in Nat /\ DOMAIN e.segments = 1 .. Len(e.segments)
           /\ Len(e.relocs) \in Nat /\ DOMAIN e.relocs = 1 .. Len(e.relocs)
           /\ \A j \in DOMAIN e.relocs : e.relocs[j] \in RelocRecord
  <1>1. e.segments \in Seq(SegmentRecord)
    BY MappingAssumption
  <1>2. e.relocs \in Seq(RelocRecord)
    BY FileFormat
  <1> QED
    BY <1>1, <1>2

LEMMA AllDone == Loaded => Done = DOMAIN elf.segments
  <1> SUFFICES ASSUME Loaded PROVE \A j : j \in Done <=> j \in DOMAIN elf.segments
    BY Zenon
  <1> QED
    BY Zenon DEF Done

LEMMA AllDoneNext == (Loaded => Done = DOMAIN elf.segments)'
  <1>1. Loaded => Done = DOMAIN elf.segments
    BY AllDone
  <1> QED
    BY <1>1, PTL

LEMMA SameBytes ==
    ASSUME elf' = elf
    PROVE  \A b, s, a : LoadedByte(b, s, a)' = LoadedByte(b, s, a)
  <1>1. \A n : FromFile(n)' = FromFile(n)
    BY DEF FromFile
  <1> QED
    BY <1>1 DEF LoadedByte

(* A range of the reserved size has room for the base and the object.      *)
LEMMA BasePlace ==
    ASSUME NEW e \in Elfs, HasBase(e), NEW m \in Nat, m % PageSize = 0, m + Reserved(e) <= Space
    PROVE  LET b == align_to_next(m, base_alignment(e)) IN b \in Addrs /\ m \in 0 .. b
  <1> DEFINE al == base_alignment(e)
             b == align_to_next(m, al)
             end == align_to_next(unaligned_end(e), PageSize)
  <1>1. PageSize \in Nat \ {0} /\ al \in Nat \ {0} /\ al % PageSize = 0 /\ Space \in Nat
    BY BaseAligned, MappingAssumption
  <1>2. b \in Nat /\ m <= b /\ b + PageSize <= m + al
    BY <1>1, Aligned, AlignedByPages
  <1>3. end \in Nat /\ 1 <= end
    <2>1. PICK k \in DOMAIN e.segments : TRUE
      BY DEF HasBase
    <2>2. e.segments[k].address \in Nat /\ e.segments[k].size \in Nat \ {0}
      BY SegmentFacts DEF SegmentRecord
    <2>3. unaligned_end(e) \in Nat /\ e.segments[k].address + e.segments[k].size <= unaligned_end(e)
      BY Ends
    <2>4. end \in Nat /\ unaligned_end(e) <= end
      BY <1>1, <2>3, Aligned
    <2> HIDE DEF end
    <2> QED
      BY <2>2, <2>3, <2>4, SMT
  <1>4. Reserved(e) = end + (al - PageSize)
    BY DEF Reserved
  <1> HIDE DEF al, b, end
  <1>5. m + (end + (al - PageSize)) <= Space
    BY <1>4
  <1>6. b < Space
    BY <1>1, <1>2, <1>3, <1>5, SMT
  <1>7. b \in 0 .. Space - 1 /\ m \in 0 .. b
    BY <1>1, <1>2, <1>6, SMT
  <1> QED
    BY <1>7 DEF Addrs, b, al

LEMMA ImageStarts == Init => ImageInv
  <1> SUFFICES ASSUME Init PROVE ImageInv
    OBVIOUS
  <1>1. /\ elf \in Elfs /\ idx = 1 /\ phase = "needed" /\ memory = << >> /\ mapped = 0 /\ base = 0 /\ ranges = << >>
        /\ global_symbols = << >> /\ local_symbols = << >>
    BY DEF Init, MappingInit
  <1>2. Done = {} /\ Applied = {} /\ Written = {}
    BY <1>1 DEF Done, Applied, Written, Loaded
  <1>3. Position
    BY <1>1, MappingAssumption, SMT DEF Position, Addrs
  <1>4. Owned
    <2>1. PICK t \in Taken : owner = [p \in Pages |-> IF p \in t THEN "others" ELSE "free"]
      BY DEF Init, MappingInit
    <2>2. ASSUME NEW a \in Addrs PROVE owner[a \div PageSize] # "self"
      <3>1. a \div PageSize \in Pages
        <4>1. 0 \in Nat /\ 0 % PageSize = 0
          BY MappingAssumption, SMT
        <4> QED
          BY <4>1, PageOfByte
      <3> QED
        BY <2>1, <3>1
    <2> QED
      BY <1>1, <2>2 DEF Owned
  <1>5. RangesOfSegments /\ Rights
    BY <1>1, <1>2 DEF RangesOfSegments, Rights
  <1> QED
    BY <1>1, <1>2, <1>3, <1>4, <1>5 DEF ImageInv, MappedWhole, Apart, Content, NoneMissing, Tables

(* Steps that touch neither memory nor tables. *)
LEMMA ImageQuiet ==
    ASSUME ImageInv, UNCHANGED <<elf, owner, memory, readable, mapped, base, ranges, global_symbols, local_symbols>>,
           Done' = Done, Written \subseteq Written'
    PROVE  ImageInv'
  <1>1. \A b, s, a : LoadedByte(b, s, a)' = LoadedByte(b, s, a)
    BY SameBytes
  <1>2. \A j : Bytes(j)' = Bytes(j)
    BY DEF Bytes
  <1>3. Position' /\ Owned' /\ NoneMissing' /\ Tables' /\ RangesOfSegments' /\ Rights'
    BY DEF ImageInv, Position, Owned, NoneMissing, Tables, RangesOfSegments, Rights
  <1>4. MappedWhole'
    BY <1>2 DEF ImageInv, MappedWhole
  <1>5. Apart'
    BY <1>2 DEF ImageInv, Apart
  <1>6. Content'
    BY <1>1, <1>2 DEF ImageInv, Content
  <1> QED
    BY <1>3, <1>4, <1>5, <1>6 DEF ImageInv

(* Each page that a segment takes begins with one of its bytes.            *)
LEMMA ByteOfPage ==
    ASSUME NEW j \in DOMAIN elf.segments, elf \in Elfs, base \in Nat,
           aligned_addr(base, elf.segments[j]) % PageSize = 0, mapping_end(base, elf.segments[j]) <= Space,
           NEW p \in PagesOf(aligned_addr(base, elf.segments[j]), mapping_end(base, elf.segments[j]))
    PROVE  \E a \in Bytes(j) : a \in Addrs /\ a \div PageSize = p
  <1> DEFINE from == aligned_addr(base, elf.segments[j])
             to == mapping_end(base, elf.segments[j])
             a == PageSize * p
  <1>1. from \in Nat /\ to \in Nat /\ to % PageSize = 0
    BY SegmentPlace
  <1>2. PageSize \in Nat \ {0} /\ Space \in Nat /\ p \in Nat /\ p * PageSize < to /\ to <= Space
    BY MappingAssumption, SMT DEF PagesOf, Pages
  <1>3. a \in Nat /\ a = p * PageSize
    BY <1>2, Products
  <1>4. a \in Addrs
    <2> HIDE DEF a, to
    <2> QED
      <3>1. a < to
        BY <1>2, <1>3
      <3> QED
        BY <1>1, <1>2, <1>3, <3>1, SMT DEF Addrs
  <1>5. a \div PageSize = p
    <2>1. 0 \in 0 .. PageSize - 1 /\ PageSize * p + 0 = a
      BY <1>2, <1>3
    <2> HIDE DEF a
    <2> QED
      BY <1>2, <2>1, Remainder
  <1>6. Bytes(j) = from .. to - 1
    BY DEF Bytes, BytesMapped
  <1> HIDE DEF from, to, a
  <1>7. a \in from .. to - 1
    BY <1>1, <1>4, <1>5, PageOfByte DEF from, to
  <1> QED
    BY <1>4, <1>5, <1>6, <1>7

(* Mapping a segment. *)
LEMMA ImageLoad ==
    ASSUME LInv, ImageInv, LoadSegment, UNCHANGED bindvars
    PROVE  ImageInv'
  <1> DEFINE s == elf.segments[idx]
             from == aligned_addr(base, s)
             to == mapping_end(base, s)
             new == BytesMapped(base, s)
  <1>1. /\ elf \in Elfs /\ idx \in Nat /\ owner \in [Pages -> {"free", "self", "others"}] /\ idx \in DOMAIN elf.segments
        /\ base \in Nat
    BY SMT DEF LInv, Typed, ImageInv, Position, LoadSegment, MoreSegments, Addrs
  <1>2. /\ phase = "map" /\ phase' = "map" /\ elf' = elf /\ idx' = idx + 1 /\ mapped' = mapped /\ base' = base
        /\ owner' = [p \in Pages |-> IF p \in PagesOf(from, to) THEN "self" ELSE owner[p]]
        /\ memory' = [a \in DOMAIN memory \cup new |-> IF a \in new THEN LoadedByte(base, s, a) ELSE memory[a]]
        /\ ranges' = IF s.x THEN Append(ranges, ExecRange(base, s)) ELSE ranges
        /\ readable' = Readable(base, s)
        /\ UNCHANGED <<global_symbols, local_symbols>>
    BY DEF LoadSegment, MoreSegments, Segment, MapsPages, bindvars
  <1>3. /\ map_offset(base, s) >= 0 /\ map_offset(base, s) % PageSize = 0 /\ from % PageSize = 0
        /\ to <= Space /\ \A p \in PagesOf(from, to) : owner[p] = "free"
    BY DEF LoadSegment, Mappable, Segment, Free
  <1>4. /\ from \in Nat /\ to \in Nat /\ to % PageSize = 0 /\ map_offset(base, s) \in Nat /\ new = from .. to - 1
    <2>1. /\ from \in Nat /\ to \in Nat /\ to % PageSize = 0 /\ page_offset(base, s) \in Nat
      BY <1>1, SegmentPlace
    <2>2. s.offset \in Nat
      BY <1>1, SegmentFacts DEF SegmentRecord
    <2> DEFINE po == page_offset(base, s)
               o == map_offset(base, s)
    <2>3. o = s.offset - po /\ po \in Nat /\ o >= 0
      BY <1>3, <2>1 DEF map_offset
    <2>4. o \in Nat
      <3> HIDE DEF s, po, o
      <3> QED
        BY <2>2, <2>3, SMT
    <2> QED
      BY <2>1, <2>4 DEF BytesMapped
  <1>5. /\ \A j : j \in Done <=> j \in DOMAIN elf.segments /\ j < idx
        /\ \A j : j \in Done' <=> j \in Done \/ j = idx
        /\ idx \notin Done
    <2>1. \A j : j \in Done <=> j \in DOMAIN elf.segments /\ j < idx
      BY <1>2 DEF Done, Loaded
    <2>2. \A j : j \in Done' <=> j \in DOMAIN elf.segments /\ j < idx + 1
      BY <1>2 DEF Done, Loaded
    <2>3. \A j \in DOMAIN elf.segments : j \in Nat
      BY <1>1, SegmentIndex
    <2>4. \A j \in Nat : (j < idx + 1 <=> j < idx \/ j = idx) /\ ~(idx < idx)
      BY <1>1, SMT
    <2> QED
      BY <1>1, <2>1, <2>2, <2>3, <2>4
  <1>6. Written = {} /\ Written' = {}
    <2>1. Applied = {} /\ Applied' = {}
      BY <1>2 DEF Applied, Loaded
    <2> QED
      BY <2>1 DEF Written
  <1>7. new \subseteq Addrs
    <2> HIDE DEF s, from, to
    <2> QED
      BY <1>3, <1>4, MappingAssumption, SMT DEF Addrs
  <1>8. ASSUME NEW a \in Addrs PROVE a \div PageSize \in Pages /\ (a \in new <=> a \div PageSize \in PagesOf(from, to))
    <2> HIDE DEF from, to
    <2> QED
      BY <1>3, <1>4, PageOfByte
  <1>9. ASSUME NEW a \in new PROVE a \notin DOMAIN memory
    <2>1. owner[a \div PageSize] = "free"
      BY <1>3, <1>7, <1>8
    <2> QED
      BY <1>7, <2>1 DEF ImageInv, Owned
  <1>10. \A j : Bytes(j)' = Bytes(j)
    BY <1>2 DEF Bytes
  <1>11. Bytes(idx) = new
    BY DEF Bytes
  <1> HIDE DEF from, to, new, s
  <1>12. \A j \in Done : Bytes(j) \subseteq DOMAIN memory
    BY DEF ImageInv, MappedWhole
  <1>13. Position'
    BY <1>2 DEF ImageInv, Position
  <1>14. Owned'
    <2> SUFFICES ASSUME NEW a \in Addrs PROVE (a \in DOMAIN memory')  <=> owner'[a \div PageSize] = "self"
      BY DEF Owned
    <2>1. a \in DOMAIN memory' <=> a \in DOMAIN memory \/ a \in new
      BY <1>2
    <2>2. owner'[a \div PageSize] = "self" <=> a \div PageSize \in PagesOf(from, to) \/ owner[a \div PageSize] = "self"
      BY <1>2, <1>8
    <2> QED
      BY <1>8, <2>1, <2>2 DEF ImageInv, Owned
  <1>15. MappedWhole'
    <2> SUFFICES ASSUME NEW j, j \in Done'
                 PROVE  /\ aligned_addr(base, elf.segments[j]) % PageSize = 0
                        /\ mapping_end(base, elf.segments[j]) <= Space
                        /\ map_offset(base, elf.segments[j]) \in Nat
                        /\ map_offset(base, elf.segments[j]) % PageSize = 0
                        /\ Bytes(j) \subseteq DOMAIN memory'
      BY <1>2, <1>10 DEF MappedWhole
    <2>1. DOMAIN memory' = DOMAIN memory \cup new
      BY <1>2
    <2>2. CASE j \in Done
      BY <2>1, <2>2 DEF ImageInv, MappedWhole
    <2>3. CASE j = idx
      BY <1>3, <1>4, <1>11, <2>1, <2>3 DEF s, from, to
    <2> QED
      BY <1>5, <2>2, <2>3
  <1>16. Apart'
    <2> SUFFICES ASSUME NEW i, NEW j, i \in Done', j \in Done', i # j PROVE Bytes(i) \cap Bytes(j) = {}
      BY <1>10 DEF Apart
    <2>1. CASE i \in Done /\ j \in Done
      BY <2>1 DEF ImageInv, Apart
    <2>2. CASE i \in Done /\ j = idx
      BY <1>9, <1>11, <1>12, <2>2
    <2>3. CASE i = idx /\ j \in Done
      BY <1>9, <1>11, <1>12, <2>3
    <2> QED
      BY <1>5, <2>1, <2>2, <2>3
  <1>17. Content'
    <2>1. \A b, t, a : LoadedByte(b, t, a)' = LoadedByte(b, t, a)
      BY <1>2, SameBytes
    <2> SUFFICES ASSUME NEW j, j \in Done', NEW a \in Bytes(j)
                 PROVE  memory'[a] = LoadedByte(base, elf.segments[j], a)
      BY <1>2, <1>10, <2>1 DEF Content
    <2>2. CASE j \in Done
      <3>1. a \in DOMAIN memory /\ a \notin new
        BY <1>9, <1>12, <2>2
      <3>2. memory'[a] = memory[a]
        BY <1>2, <3>1
      <3>3. memory[a] = LoadedByte(base, elf.segments[j], a)
        BY <1>6, <2>2 DEF ImageInv, Content
      <3> QED
        BY <3>2, <3>3
    <2>3. CASE j = idx
      BY <1>2, <1>11, <2>3 DEF s
    <2> QED
      BY <1>5, <2>2, <2>3
  <1>18. NoneMissing'
    <2> SUFFICES ASSUME NEW a \in DOMAIN memory \cup new PROVE memory'[a] # Beyond
      BY <1>2 DEF NoneMissing, Beyond
    <2>1. CASE a \in new
      <3>1. LoadedByte(base, s, a) # Beyond
        BY <1>1, <1>3, <1>4, <2>1, SegmentBytes DEF s, from, new
      <3> QED
        BY <1>2, <2>1, <3>1
    <2>2. CASE a \notin new
      BY <1>2, <2>2 DEF ImageInv, NoneMissing
    <2> QED
      BY <2>1, <2>2
  <1>19. Tables'
    BY <1>2 DEF ImageInv, Tables, Beyond
  <1>20. RangesOfSegments'
    <2>1. ExecRange(base, s) = <<from, to>> /\ <<from, to>> \in Nat \X Nat
      BY <1>4 DEF ExecRange, from, to
    <2>2. /\ ranges \in Seq(Nat \X Nat)
          /\ \A k \in DOMAIN ranges : \E j \in Done : elf.segments[j].x /\ ranges[k] = ExecRange(base, elf.segments[j])
          /\ \A j \in Done : elf.segments[j].x => \E k \in DOMAIN ranges : ranges[k] = ExecRange(base, elf.segments[j])
      BY DEF ImageInv, RangesOfSegments
    <2>3. CASE s.x
      <3> DEFINE r == ExecRange(base, s)
                 n == Len(ranges)
      <3>1. ranges' = Append(ranges, r) /\ r \in Nat \X Nat
        BY <1>2, <2>1, <2>3
      <3> HIDE DEF r
      <3>2. /\ ranges' \in Seq(Nat \X Nat) /\ DOMAIN ranges' = 1 .. n + 1 /\ DOMAIN ranges = 1 .. n /\ n \in Nat
            /\ ranges'[n + 1] = r /\ \A k \in 1 .. n : ranges'[k] = ranges[k]
        BY <2>2, <3>1, SMT
      <3> HIDE DEF n
      <3>3. \A k \in 1 .. n + 1 : k \in 1 .. n \/ k = n + 1
        BY <3>2, SMT
      <3>4. \A k \in 1 .. n : k \in 1 .. n + 1
        BY <3>2, SMT
      <3>5. n + 1 \in 1 .. n + 1
        BY <3>2, SMT
      <3>6. ASSUME NEW k \in DOMAIN ranges'
            PROVE \E j \in Done' : elf.segments[j].x /\ ranges'[k] = ExecRange(base, elf.segments[j])
        <4>1. CASE k \in 1 .. n
          BY <1>5, <2>2, <3>2, <4>1
        <4>2. CASE k = n + 1
          BY <1>5, <2>3, <3>2, <4>2 DEF r, s
        <4> QED
          BY <3>2, <3>3, <4>1, <4>2
      <3>7. ASSUME NEW j \in Done', elf.segments[j].x
            PROVE \E k \in DOMAIN ranges' : ranges'[k] = ExecRange(base, elf.segments[j])
        <4>1. CASE j \in Done
          <5>1. PICK k \in DOMAIN ranges : ranges[k] = ExecRange(base, elf.segments[j])
            BY <2>2, <3>7, <4>1
          <5> QED
            BY <3>2, <3>4, <5>1
        <4>2. CASE j = idx
          BY <3>2, <3>5, <4>2 DEF r, s
        <4> QED
          BY <1>5, <4>1, <4>2
      <3> QED
        BY <1>2, <3>2, <3>6, <3>7 DEF RangesOfSegments
    <2>4. CASE ~s.x
      <3>1. ranges' = ranges
        BY <1>2, <2>4
      <3>2. \A j \in Done' : elf.segments[j].x => j \in Done
        BY <1>5, <2>4 DEF s
      <3> QED
        BY <1>2, <1>5, <2>2, <3>1, <3>2 DEF RangesOfSegments
    <2> QED
      BY <2>3, <2>4
  <1>21. Rights'
    <2> SUFFICES ASSUME NEW j \in Done', NEW p \in MapsPages(base, elf.segments[j])
                 PROVE  p \in readable' <=> Legible(elf.segments[j])
      BY <1>2 DEF Rights
    <2>1. \A q : q \in readable' <=> IF q \in PagesOf(from, to) THEN Legible(s) ELSE q \in readable
      BY <1>2 DEF Readable, MapsPages, from, to
    <2>2. CASE j = idx
      BY <2>1, <2>2 DEF s, from, to, MapsPages
    <2>3. CASE j \in Done
      <3>1. PICK a \in Bytes(j) : a \in Addrs /\ a \div PageSize = p
        <4>1. j \in DOMAIN elf.segments
          BY <2>3 DEF Done
        <4>2. /\ aligned_addr(base, elf.segments[j]) % PageSize = 0
              /\ mapping_end(base, elf.segments[j]) <= Space
          BY <2>3 DEF ImageInv, MappedWhole
        <4> QED
          BY <1>1, <4>1, <4>2, ByteOfPage DEF MapsPages
      <3>2. owner[p] = "self"
        BY <1>12, <2>3, <3>1 DEF ImageInv, Owned
      <3>3. p \notin PagesOf(from, to)
        BY <1>3, <3>2
      <3> QED
        BY <2>1, <2>3, <3>3 DEF ImageInv, Rights
    <2> QED
      BY <1>5, <2>2, <2>3
  <1> QED
    BY <1>13, <1>14, <1>15, <1>16, <1>17, <1>18, <1>19, <1>20, <1>21 DEF ImageInv

(* Applying a relocation that writes anything but a missing page. *)
LEMMA ImageWrite ==
    ASSUME LInv, ImageInv, ReachedReloc, phase' = phase, idx' = idx + 1,
           NEW v, v # Beyond, Write(Reloc.at, v), Tables',
           UNCHANGED <<elf, owner, readable, mapped, base, ranges>>
    PROVE  ImageInv'
  <1> DEFINE slot == base + Reloc.at
  <1>1. /\ elf \in Elfs /\ idx \in Nat /\ phase = "relocate" /\ idx \in DOMAIN elf.relocs
        /\ memory' = [memory EXCEPT ![slot] = v]
    BY DEF LInv, Typed, ReachedReloc, Write
  <1>2. /\ DOMAIN memory' = DOMAIN memory
        /\ \A a \in DOMAIN memory : a # slot => memory'[a] = memory[a]
        /\ \A a \in DOMAIN memory : memory'[a] = memory[a] \/ memory'[a] = v
    <2> HIDE DEF slot
    <2>1. DOMAIN memory' = DOMAIN memory
      BY <1>1
    <2>2. ASSUME NEW a \in DOMAIN memory PROVE (a # slot => memory'[a] = memory[a]) /\ (a = slot => memory'[a] = v)
      BY <1>1
    <2> QED
      BY <2>1, <2>2
  <1>3. Done' = Done
    <2>1. Loaded /\ Loaded'
      BY <1>1 DEF Loaded
    <2> QED
      BY <2>1, AllDone, AllDoneNext
  <1>4. Written \subseteq Written' /\ slot \in Written'
    <2>1. \A j \in DOMAIN elf.relocs : j \in Nat
      BY <1>1, SegmentIndex
    <2>2. \A j \in Nat : j < idx => j < idx + 1
      BY <1>1, SMT
    <2>3. idx < idx + 1
      BY <1>1, SMT
    <2>4. Applied \subseteq Applied' /\ idx \in Applied'
      BY <1>1, <2>1, <2>2, <2>3 DEF Applied, Loaded
    <2> QED
      BY <2>4 DEF Written, Reloc
  <1>5. \A b, s, a : LoadedByte(b, s, a)' = LoadedByte(b, s, a)
    BY SameBytes
  <1>6. \A j : Bytes(j)' = Bytes(j)
    BY DEF Bytes
  <1>7. Position' /\ RangesOfSegments' /\ Rights'
    BY <1>3 DEF ImageInv, Position, RangesOfSegments, Rights, MapsPages
  <1>8. Owned'
    BY <1>2 DEF ImageInv, Owned
  <1>9. MappedWhole'
    BY <1>2, <1>3, <1>6 DEF ImageInv, MappedWhole
  <1>10. Apart'
    BY <1>3, <1>6 DEF ImageInv, Apart
  <1>11. Content'
    <2> SUFFICES ASSUME NEW j \in Done, NEW a \in Bytes(j) \ Written'
                 PROVE  memory'[a] = LoadedByte(base, elf.segments[j], a)
      BY <1>3, <1>5, <1>6 DEF Content
    <2>1. a \in DOMAIN memory /\ a # slot /\ a \notin Written
      BY <1>4 DEF ImageInv, MappedWhole
    <2> HIDE DEF slot
    <2>2. memory'[a] = memory[a]
      BY <1>2, <2>1
    <2> QED
      BY <2>1, <2>2 DEF ImageInv, Content
  <1>12. NoneMissing'
    <2> HIDE DEF slot
    <2>1. \A a \in DOMAIN memory : memory'[a] # Beyond
      BY <1>2 DEF ImageInv, NoneMissing
    <2> QED
      BY <1>2, <2>1 DEF NoneMissing, Beyond
  <1> QED
    BY <1>7, <1>8, <1>9, <1>10, <1>11, <1>12 DEF ImageInv

LEMMA Values ==
    /\ \A n : Address(n) # Beyond
    /\ \A lib, name : WrappedSymbol(lib, name) # Beyond
  <1>1. \A n : Address(n) # Beyond
    BY DEF Address, Beyond
  <1>2. \A path, name : HostSymbol(path, name) # Beyond
    BY DEF HostSymbol, Beyond
  <1>3. \A name : <<"override", name>> # Beyond
    BY DEF Beyond
  <1> QED
    BY <1>1, <1>2, <1>3 DEF WrappedSymbol

LEMMA ImageSteps == LInv /\ ImageInv /\ [Next]_vars => ImageInv'
  <1> SUFFICES ASSUME LInv, ImageInv, [Next]_vars PROVE ImageInv'
    OBVIOUS
  <1>t. /\ elf \in Elfs /\ idx \in Nat /\ owner \in [Pages -> {"free", "self", "others"}]
        /\ \A j \in DOMAIN elf.segments : j \in Nat /\ j <= Len(elf.segments)
        /\ \A j \in DOMAIN elf.relocs : j \in Nat /\ j <= Len(elf.relocs)
    BY SegmentIndex, SMT DEF LInv, Typed
  <1>e. ASSUME phase \in {"needed", "reserve"} PROVE Done = {} /\ Written = {}
    <2>1. Done = {} /\ Applied = {}
      BY <1>e DEF Done, Applied, Loaded
    <2> QED
      BY <2>1 DEF Written
  <1>1. CASE SkipNeeded \/ OpenNeeded \/ NeededFails \/ AllNeeded \/ (NothingReserved /\ UNCHANGED bindvars)
    <2>1. /\ UNCHANGED <<elf, owner, memory, readable, mapped, base, ranges, global_symbols, local_symbols>>
          /\ phase \in {"needed", "reserve"} /\ phase' \in {"needed", "reserve", "no_library", "not_reserved"}
      BY <1>1 DEF SkipNeeded, OpenNeeded, NeededFails, AllNeeded, NothingReserved, ReachedNeeded,
         mapvars, bindvars
    <2>2. Done' = {}
      BY <2>1 DEF Done, Loaded
    <2> QED
      BY <1>e, <2>1, <2>2, ImageQuiet
  <1>2. CASE Reserve /\ UNCHANGED bindvars
    <2>1. PICK p \in Hints : ReserveAt(p * PageSize)
      BY <1>2 DEF Reserve
    <2> DEFINE m == p * PageSize
    <2>2. /\ phase = "reserve" /\ phase' = "map" /\ HasBase(elf) /\ m + Reserved(elf) <= Space
          /\ mapped' = m /\ base' = align_to_next(m, base_alignment(elf)) /\ idx' = 1
          /\ UNCHANGED <<elf, owner, memory, readable, ranges, global_symbols, local_symbols>>
      BY <1>2, <2>1 DEF ReserveAt, Free, bindvars
    <2>3. m \in Nat /\ m % PageSize = 0
      <3>1. p \in Nat /\ PageSize \in Nat \ {0}
        BY MappingAssumption, SMT DEF Pages
      <3>2. m = PageSize * p /\ m \in Nat
        BY <3>1, Products
      <3> HIDE DEF m
      <3> QED
        BY <3>1, <3>2, Multiple
    <2> HIDE DEF m
    <2>4. Position'
      <3>1. base' \in Addrs /\ m \in 0 .. base'
        BY <1>t, <2>2, <2>3, BasePlace
      <3> QED
        BY <2>2, <3>1 DEF Position
    <2>5. Done = {} /\ Done' = {} /\ Written' = {}
      <3>1. \A j \in DOMAIN elf.segments : ~(j < 1)
        <4>1. DOMAIN elf.segments = 1 .. Len(elf.segments) /\ Len(elf.segments) \in Nat
          BY <1>t, SegmentIndex
        <4> QED
          BY <4>1, SMT
      <3>2. Done' = {} /\ Applied' = {}
        BY <2>2, <3>1 DEF Done, Applied, Loaded
      <3> QED
        BY <1>e, <2>2, <3>2 DEF Written
    <2>6. Owned' /\ NoneMissing' /\ Tables'
      BY <2>2 DEF ImageInv, Owned, NoneMissing, Tables
    <2>7. RangesOfSegments' /\ Rights'
      BY <2>2, <2>5 DEF ImageInv, RangesOfSegments, Rights
    <2> QED
      BY <2>4, <2>5, <2>6, <2>7 DEF ImageInv, MappedWhole, Apart, Content
  <1>3. CASE LoadSegment /\ UNCHANGED bindvars
    BY <1>3, ImageLoad
  <1>4. CASE (SegmentFails \/ ClearFaults) /\ UNCHANGED bindvars
    <2>1. /\ UNCHANGED <<elf, idx, owner, memory, readable, mapped, base, ranges, global_symbols, local_symbols>>
          /\ phase = "map" /\ phase' \in {"not_mapped", "not_writable"}
      BY <1>4 DEF SegmentFails, ClearFaults, MoreSegments, mapvars, bindvars
    <2>2. Done' = Done /\ Applied = {}
      BY <2>1 DEF Done, Applied, Loaded
    <2>3. Written = {}
      BY <2>2 DEF Written
    <2> QED
      BY <2>1, <2>2, <2>3, ImageQuiet
  <1>5. CASE OthersMap /\ UNCHANGED bindvars
    <2>1. /\ phase' = phase /\ UNCHANGED <<elf, idx, memory, readable, mapped, base, ranges, global_symbols, local_symbols>>
      BY <1>5 DEF OthersMap, bindvars
    <2>2. PICK p \in Pages : owner[p] = "free" /\ owner' = [owner EXCEPT ![p] = "others"]
      BY <1>5 DEF OthersMap
    <2>3. \A q \in Pages : owner'[q] = "self" <=> owner[q] = "self"
      BY <1>t, <2>2
    <2>4. Owned'
      <3>1. \A a \in Addrs : a \div PageSize \in Pages
        <4>1. 0 \in Nat /\ 0 % PageSize = 0
          BY MappingAssumption, SMT
        <4> QED
          BY <4>1, PageOfByte
      <3> QED
        BY <2>1, <2>3, <3>1 DEF ImageInv, Owned
    <2>5. Done' = Done /\ Written' = Written /\ (\A j : Bytes(j)' = Bytes(j))
      <3>1. Done' = Done /\ Applied' = Applied
        BY <2>1 DEF Done, Applied, Loaded
      <3> QED
        BY <2>1, <3>1 DEF Written, Bytes
    <2>6. \A b, s, a : LoadedByte(b, s, a)' = LoadedByte(b, s, a)
      BY <2>1, SameBytes
    <2>7. Position' /\ NoneMissing' /\ Tables' /\ RangesOfSegments' /\ Rights'
      BY <2>1, <2>5 DEF ImageInv, Position, NoneMissing, Tables, RangesOfSegments, Rights
    <2>8. MappedWhole' /\ Apart'
      BY <2>1, <2>5 DEF ImageInv, MappedWhole, Apart
    <2>9. Content'
      BY <2>1, <2>5, <2>6 DEF ImageInv, Content
    <2> QED
      BY <2>4, <2>7, <2>8, <2>9 DEF ImageInv
  <1>6. CASE RegisterSymbols
    <2>1. /\ phase = "map" /\ phase' = "relocate" /\ idx > Len(elf.segments)
          /\ UNCHANGED <<elf, owner, memory, readable, mapped, base, ranges>>
          /\ global_symbols' = Table({"GLOBAL", "WEAK"}) /\ local_symbols' = Table({"LOCAL"})
      BY <1>6 DEF RegisterSymbols, mapvars
    <2>2. Done' = Done
      <3>1. \A j \in DOMAIN elf.segments : j < idx
        <4>1. Len(elf.segments) \in Nat
          BY <1>t, SegmentIndex
        <4> QED
          BY <1>t, <2>1, <4>1, SMT
      <3>2. Done = DOMAIN elf.segments
        BY <2>1, <3>1 DEF Done
      <3>3. Done' = DOMAIN elf.segments
        BY <2>1, AllDoneNext DEF Loaded
      <3> QED
        BY <3>2, <3>3
    <2>3. Written = {}
      <3>1. Applied = {}
        BY <2>1 DEF Applied, Loaded
      <3> QED
        BY <3>1 DEF Written
    <2>4. Tables'
      <3>1. \A binds : \A n \in DOMAIN Table(binds) : Table(binds)[n] # Beyond
        BY Values DEF Table
      <3> QED
        BY <2>1, <3>1 DEF Tables, Beyond
    <2>5. \A j : Bytes(j)' = Bytes(j)
      BY <2>1 DEF Bytes
    <2>6. \A b, s, a : LoadedByte(b, s, a)' = LoadedByte(b, s, a)
      BY <2>1, SameBytes
    <2>7. Position' /\ Owned' /\ NoneMissing' /\ RangesOfSegments' /\ Rights'
      BY <2>1, <2>2 DEF ImageInv, Position, Owned, NoneMissing, RangesOfSegments, Rights
    <2>8. MappedWhole' /\ Apart'
      BY <2>1, <2>2, <2>5 DEF ImageInv, MappedWhole, Apart
    <2>9. Content'
      BY <2>1, <2>2, <2>3, <2>5, <2>6 DEF ImageInv, Content
    <2> QED
      BY <2>4, <2>7, <2>8, <2>9 DEF ImageInv
  <1>7. CASE RelocateRelative
    <2>1. /\ ReachedReloc /\ phase' = phase /\ idx' = idx + 1 /\ Write(Reloc.at, Relative(Reloc))
          /\ UNCHANGED <<elf, owner, readable, mapped, base, ranges, global_symbols, local_symbols>>
      BY <1>7 DEF RelocateRelative, bindvars
    <2>2. Relative(Reloc) # Beyond
      BY Values DEF Relative
    <2>3. Tables'
      BY <2>1 DEF ImageInv, Tables, Beyond
    <2> QED
      BY <2>1, <2>2, <2>3, ImageWrite
  <1>8. CASE RelocateSymbol
    <2> DEFINE name == SymbolName(Reloc)
    <2>1. /\ ReachedReloc /\ phase' = phase /\ idx' = idx + 1
          /\ UNCHANGED <<elf, owner, readable, mapped, base, ranges, local_symbols>>
          /\ \/ name \in DOMAIN local_symbols /\ Write(Reloc.at, local_symbols[name]) /\ UNCHANGED global_symbols
             \/ /\ Write(Reloc.at, get_symbol(name))
                /\ global_symbols' = [n \in DOMAIN global_symbols \cup {name} |->
                                        IF n = name THEN get_symbol(name) ELSE global_symbols[n]]
      BY <1>8 DEF RelocateSymbol
    <2>2. get_symbol(name) # Beyond
      <3> HIDE DEF name
      <3> QED
        BY Values DEF ImageInv, Tables, get_symbol, FromLibrary
    <2> HIDE DEF name
    <2>3. CASE name \in DOMAIN local_symbols /\ Write(Reloc.at, local_symbols[name]) /\ UNCHANGED global_symbols
      <3>1. Tables' /\ local_symbols[name] # Beyond
        BY <2>1, <2>3 DEF ImageInv, Tables, Beyond
      <3> QED
        BY <2>1, <2>3, <3>1, ImageWrite
    <2>4. CASE /\ Write(Reloc.at, get_symbol(name))
               /\ global_symbols' = [n \in DOMAIN global_symbols \cup {name} |->
                                        IF n = name THEN get_symbol(name) ELSE global_symbols[n]]
      <3>1. Tables'
        BY <2>1, <2>2, <2>4 DEF ImageInv, Tables, Beyond
      <3> QED
        BY <2>1, <2>2, <2>4, <3>1, ImageWrite
    <2> QED
      BY <2>1, <2>3, <2>4
  <1>9. CASE SkipWeak \/ RelocationFails \/ CollectInit \/ CallInit \/ CallEntry
    <2>1. /\ UNCHANGED <<elf, owner, memory, readable, mapped, base, ranges, global_symbols, local_symbols>>
          /\ Loaded /\ Loaded'
          /\ \/ phase = "relocate" /\ phase' = "relocate" /\ idx' = idx + 1
             \/ phase = "relocate" /\ phase' = "not_bound" /\ idx' = idx
             \/ phase' \notin {"relocate", "not_bound"}
      BY <1>9 DEF SkipWeak, RelocationFails, CollectInit, CallInit, CallEntry, ReachedReloc, Loaded, mapvars, bindvars
    <2>2. Done' = Done
      BY <2>1, AllDone, AllDoneNext
    <2>3. Applied \subseteq Applied'
      <3>1. \A j \in DOMAIN elf.relocs : j < idx => j < idx + 1
        BY <1>t, SMT
      <3> QED
        BY <2>1, <3>1 DEF Applied
    <2>4. Written \subseteq Written'
      BY <2>1, <2>3 DEF Written
    <2> QED
      BY <2>1, <2>2, <2>4, ImageQuiet
  <1>10. CASE UNCHANGED vars
    <2>1. UNCHANGED <<elf, phase, idx, owner, memory, readable, mapped, base, ranges, global_symbols, local_symbols>>
      BY <1>10 DEF vars, mapvars, bindvars
    <2>2. Done' = Done /\ Applied' = Applied
      BY <2>1 DEF Done, Applied, Loaded
    <2>3. Written' = Written
      BY <2>1, <2>2 DEF Written
    <2> QED
      BY <2>1, <2>2, <2>3, ImageQuiet
  <1> QED
    BY <1>1, <1>2, <1>3, <1>4, <1>5, <1>6, <1>7, <1>8, <1>9, <1>10 DEF Next, Map, Link, Start

LEMMA ImageAlways == Spec => [](LInv /\ ImageInv)
  <1>1. Init => LInv /\ ImageInv
    BY StartsRight, ImageStarts
  <1>2. LInv /\ ImageInv /\ [Next]_vars => LInv' /\ ImageInv'
    BY StepsKeep, ImageSteps
  <1> QED
    BY <1>1, <1>2, PTL DEF Spec

------------------------------------------------------------------------------
(* Libraries *)

(* What dlopen does to the list of loaded objects. *)
(* What dlopen adds comes behind what was loaded before.                   *)
Extends(q, r) == \A i \in DOMAIN q : i \in DOMAIN r /\ r[i] = q[i]

LEMMA DlopenLoads ==
    ASSUME process \in Seq(Paths), IsInjective(process), NEW path \in DOMAIN Host
    PROVE  /\ Dlopen(path) \in Seq(Paths) /\ IsInjective(Dlopen(path))
           /\ ToSet(process) \subseteq ToSet(Dlopen(path)) /\ path \in ToSet(Dlopen(path))
           /\ Extends(process, Dlopen(path))
  <1> DEFINE order == <<path>> \o Host[path].needs
             n == Len(order)
             Step(q, k) == IF order[k] \in ToSet(q) THEN q ELSE Append(q, order[k])
             Is(g) == g = [k \in 0 .. n |-> IF k = 0 THEN process ELSE Step(g[k - 1], k)]
             opened == CHOOSE g : Is(g)
  <1>1. /\ order \in Seq(Paths) /\ n \in Nat /\ 1 <= n /\ order[1] = path
        /\ \A k \in 1 .. n : order[k] \in Paths
    <2>1. Host[path].needs \in Seq(DOMAIN Host) /\ <<path>> \in Seq(DOMAIN Host) /\ Len(<<path>>) = 1 /\ <<path>>[1] = path
      BY HostAssumption
    <2>2. order \in Seq(DOMAIN Host) /\ n \in Nat /\ 1 <= n /\ order[1] = path
      <3> DEFINE s == <<path>>
                 t == Host[path].needs
                 D == DOMAIN Host
      <3>1. s \in Seq(D) /\ t \in Seq(D) /\ Len(s) = 1 /\ s[1] = path /\ order = s \o t
        BY <2>1
      <3> HIDE DEF s, t, D, order
      <3>2. /\ s \o t \in Seq(D) /\ Len(s \o t) = Len(s) + Len(t)
            /\ \A k \in 1 .. Len(s) + Len(t) : (s \o t)[k] = IF k <= Len(s) THEN s[k] ELSE t[k - Len(s)]
        BY <3>1, ConcatProperties, Zenon
      <3>3. Len(t) \in Nat /\ 1 \in 1 .. 1 + Len(t)
        BY <3>1, SMT
      <3>4. order \in Seq(D) /\ Len(order) = 1 + Len(t) /\ order[1] = path
        BY <3>1, <3>2, <3>3
      <3> QED
        BY <3>3, <3>4, SMT DEF D
    <2>3. \A k \in 1 .. n : order[k] \in DOMAIN Host
      <3> HIDE DEF order
      <3> QED
        BY <2>2
    <2>4. DOMAIN Host \subseteq Paths
      BY DEF Paths
    <2>5. order \in Seq(Paths)
      <3> HIDE DEF order
      <3> QED
        BY <2>2, <2>4, SMT
    <2> QED
      BY <2>2, <2>3, <2>4, <2>5
  <1>2. Dlopen(path) = opened[n]
    BY DEF Dlopen
  <1> HIDE DEF order, n
  (* There is such a function: *)
  <1> DEFINE Upto(g, m) == /\ g[0] = process
                           /\ \A k \in 1 .. m : g[k] = Step(g[k - 1], k)
             Without == {m \in 0 .. n : ~ \E g : Upto(g, m)}
  <1>3. Without = {}
    <2> SUFFICES ASSUME Without # {} PROVE FALSE
      OBVIOUS
    <2>1. PICK m \in Without : \A y \in Without : m <= y
      <3>1. Without \in SUBSET Nat
        <4>1. 0 .. n \subseteq Nat
          BY <1>1, SMT
        <4> QED
          BY <4>1
      <3> HIDE DEF Without
      <3> QED
        BY <3>1, Least
    <2>2. m \in 0 .. n /\ ~ \E g : Upto(g, m)
      OBVIOUS
    <2>3. m # 0
      <3> SUFFICES ASSUME m = 0 PROVE Upto([k \in 0 .. 0 |-> process], m)
        BY <2>2
      <3>1. 1 .. m = {} /\ 0 \in 0 .. 0
        BY SMT
      <3> QED
        BY <3>1
    <2>4. m - 1 \in 0 .. n /\ m - 1 < m /\ m \in Nat
      BY <1>1, <2>2, <2>3, SMT
    <2>5. PICK g : Upto(g, m - 1)
      <3>1. ~(m <= m - 1)
        BY <2>2, SMT
      <3>2. m - 1 \notin Without
        BY <2>1, <3>1
      <3> QED
        BY <2>4, <3>2
    <2> DEFINE h == [k \in 0 .. m |-> IF k = m THEN Step(g[m - 1], m) ELSE g[k]]
    <2>6. Upto(h, m)
      <3>1. h[0] = process /\ h[m] = Step(g[m - 1], m) /\ \A k \in 0 .. m - 1 : h[k] = g[k]
        <4>1. 0 \in 0 .. m /\ 0 # m /\ m \in 0 .. m /\ \A k \in 0 .. m - 1 : k \in 0 .. m /\ k # m
          BY <2>3, <2>4, SMT
        <4> HIDE DEF Step
        <4> QED
          BY <2>5, <4>1
      <3> HIDE DEF h, Step
      <3>2. \A k \in 1 .. m : k = m \/ (k \in 1 .. m - 1 /\ k \in 0 .. m - 1 /\ k - 1 \in 0 .. m - 1)
        BY <2>4, SMT
      <3>3. m - 1 \in 0 .. m - 1
        BY <2>3, <2>4, SMT
      <3> SUFFICES ASSUME NEW k \in 1 .. m PROVE h[k] = Step(h[k - 1], k)
        BY <3>1
      <3>4. CASE k = m
        <4>1. h[k - 1] = g[m - 1]
          BY <3>1, <3>3, <3>4
        <4> QED
          BY <3>1, <3>4, <4>1
      <3>5. CASE k \in 1 .. m - 1 /\ k \in 0 .. m - 1 /\ k - 1 \in 0 .. m - 1
        <4>1. h[k] = g[k] /\ h[k - 1] = g[k - 1]
          BY <3>1, <3>5
        <4>2. g[k] = Step(g[k - 1], k)
          BY <2>5, <3>5
        <4> QED
          BY <4>1, <4>2
      <3> QED
        BY <3>2, <3>4, <3>5
    <2> HIDE DEF Upto
    <2> QED
      BY <2>2, <2>6
  <1>4. Is(opened)
    <2>1. n \in 0 .. n
      BY <1>1, SMT
    <2>2. PICK g : Upto(g, n)
      BY <1>3, <2>1
    <2> DEFINE h == [k \in 0 .. n |-> g[k]]
    <2>3. Is(h)
      <3>1. ASSUME NEW k \in 0 .. n PROVE h[k] = IF k = 0 THEN process ELSE Step(h[k - 1], k)
        <4>1. CASE k = 0
          BY <2>2, <4>1
        <4>2. CASE k # 0
          <5>1. k \in 1 .. n /\ k - 1 \in 0 .. n
            BY <1>1, <4>2, SMT
          <5>2. h[k - 1] = g[k - 1] /\ h[k] = g[k] /\ g[k] = Step(g[k - 1], k)
            BY <2>2, <5>1
          <5> HIDE DEF h, Step
          <5> QED
            BY <4>2, <5>2
        <4> QED
          BY <4>1, <4>2
      <3>2. [k \in 0 .. n |-> h[k]] = [k \in 0 .. n |-> IF k = 0 THEN process ELSE Step(h[k - 1], k)]
        <4> HIDE DEF h, Step
        <4> QED
          BY <3>1
      <3>3. h = [k \in 0 .. n |-> h[k]]
        OBVIOUS
      <3> QED
        BY <3>2, <3>3
    <2> HIDE DEF Is
    <2> QED
      BY <2>3
  <1>5. /\ opened[0] = process
        /\ \A k \in 1 .. n : opened[k] = Step(opened[k - 1], k)
    <2> HIDE DEF opened, Step
    <2>1. opened = [k \in 0 .. n |-> IF k = 0 THEN process ELSE Step(opened[k - 1], k)]
      BY <1>4
    <2>2. 0 \in 0 .. n /\ \A k \in 1 .. n : k \in 0 .. n /\ k # 0
      BY <1>1, SMT
    <2> QED
      BY <2>1, <2>2
  <1> HIDE DEF opened, Is
  (* What it returns: *)
  <1> DEFINE Good(k) == /\ opened[k] \in Seq(Paths) /\ IsInjective(opened[k])
                        /\ ToSet(process) \subseteq ToSet(opened[k])
                        /\ k # 0 => path \in ToSet(opened[k])
                        /\ Extends(process, opened[k])
             Bad == {k \in 0 .. n : ~Good(k)}
  <1>6. ASSUME NEW q \in Seq(Paths), IsInjective(q), NEW x \in Paths, x \notin ToSet(q)
        PROVE  /\ Append(q, x) \in Seq(Paths) /\ IsInjective(Append(q, x))
               /\ ToSet(q) \subseteq ToSet(Append(q, x)) /\ x \in ToSet(Append(q, x))
               /\ Extends(q, Append(q, x))
    <2> DEFINE r == Append(q, x)
               l == Len(q)
    <2>1. /\ r \in Seq(Paths) /\ l \in Nat /\ DOMAIN q = 1 .. l /\ DOMAIN r = 1 .. l + 1
          /\ r[l + 1] = x /\ \A k \in 1 .. l : r[k] = q[k]
      BY SMT
    <2> HIDE DEF r, l
    <2>2. l + 1 \in 1 .. l + 1 /\ \A k \in 1 .. l : k \in 1 .. l + 1
      BY <2>1, SMT
    <2>3. \A k \in 1 .. l + 1 : k \in 1 .. l \/ k = l + 1
      BY <2>1, SMT
    <2>4. \A k \in 1 .. l : q[k] # x
      BY <1>6, <2>1 DEF ToSet
    <2>5. IsInjective(r)
      <3> SUFFICES ASSUME NEW a \in 1 .. l + 1, NEW b \in 1 .. l + 1, r[a] = r[b] PROVE a = b
        BY <2>1 DEF IsInjective
      <3>1. CASE a \in 1 .. l /\ b \in 1 .. l
        BY <1>6, <2>1, <3>1 DEF IsInjective
      <3>2. CASE a = l + 1 /\ b = l + 1
        BY <3>2
      <3>3. CASE a \in 1 .. l /\ b = l + 1
        BY <2>1, <2>4, <3>3
      <3>4. CASE a = l + 1 /\ b \in 1 .. l
        BY <2>1, <2>4, <3>4
      <3> QED
        BY <2>3, <3>1, <3>2, <3>3, <3>4
    <2>6. ToSet(q) \subseteq ToSet(r) /\ x \in ToSet(r)
      BY <2>1, <2>2 DEF ToSet
    <2>7. Extends(q, r)
      BY <2>1, <2>2 DEF Extends
    <2> QED
      BY <2>1, <2>5, <2>6, <2>7 DEF r
  <1>7. Bad = {}
    <2> SUFFICES ASSUME Bad # {} PROVE FALSE
      OBVIOUS
    <2>1. PICK k \in Bad : \A y \in Bad : k <= y
      <3>1. Bad \in SUBSET Nat
        <4>1. 0 .. n \subseteq Nat
          BY <1>1, SMT
        <4> QED
          BY <4>1
      <3> HIDE DEF Bad
      <3> QED
        BY <3>1, Least
    <2>2. k \in 0 .. n /\ ~Good(k)
      OBVIOUS
    <2>3. k # 0
      <3>1. Extends(process, process)
        BY DEF Extends
      <3> QED
        BY <1>5, <2>2, <3>1
    <2>4. k \in 1 .. n /\ k - 1 \in 0 .. n /\ ~(k <= k - 1)
      BY <1>1, <2>2, <2>3, SMT
    <2>5. Good(k - 1)
      <3>1. k - 1 \notin Bad
        BY <2>1, <2>4
      <3> QED
        BY <2>4, <3>1
    <2> DEFINE q == opened[k - 1]
    <2>6. opened[k] = Step(q, k) /\ order[k] \in Paths
      BY <1>1, <1>5, <2>4
    <2>7. /\ q \in Seq(Paths) /\ IsInjective(q) /\ ToSet(process) \subseteq ToSet(q) /\ (k # 1 => path \in ToSet(q))
          /\ Extends(process, q)
      <3>1. k # 1 => k - 1 # 0
        BY <2>4, SMT
      <3> QED
        BY <2>5, <3>1
    <2> HIDE DEF q
    <2>8. CASE order[k] \in ToSet(q)
      <3>1. opened[k] = q
        BY <2>6, <2>8
      <3>2. path \in ToSet(q)
        BY <1>1, <2>7, <2>8
      <3> QED
        BY <2>2, <2>7, <3>1, <3>2
    <2>9. CASE order[k] \notin ToSet(q)
      <3>1. opened[k] = Append(q, order[k])
        BY <2>6, <2>9
      <3>2. /\ opened[k] \in Seq(Paths) /\ IsInjective(opened[k])
            /\ ToSet(q) \subseteq ToSet(opened[k]) /\ order[k] \in ToSet(opened[k]) /\ Extends(q, opened[k])
        BY <1>6, <2>6, <2>7, <2>9, <3>1
      <3>3. Extends(process, opened[k])
        BY <2>7, <3>2 DEF Extends
      <3> QED
        BY <1>1, <2>2, <2>7, <3>2, <3>3
    <2> QED
      BY <2>8, <2>9
  <1>8. n \in 0 .. n /\ n # 0
    BY <1>1, SMT
  <1>9. Good(n)
    BY <1>7, <1>8
  <1> QED
    BY <1>2, <1>8, <1>9

Names == UNION {{e.needed[k] : k \in DOMAIN e.needed} : e \in Elfs}

(* Every library that was opened, and every object whose tables stand for  *)
(* it, is loaded, and no object twice.                                     *)
LibraryInv ==
    /\ process \in Seq(Paths) /\ IsInjective(process)
    /\ wrapped_libs \in Seq([name : Names, handle : Paths, info : Paths])
    /\ \A k \in DOMAIN wrapped_libs : {wrapped_libs[k].handle, wrapped_libs[k].info} \subseteq ToSet(process)

LEMMA LibrariesStart == Init => LibraryInv
  BY HostAssumption DEF Init, LibraryInv

LEMMA LibrariesStep == LInv /\ LibraryInv /\ [Next]_vars => LibraryInv'
  <1> SUFFICES ASSUME LInv, LibraryInv, [Next]_vars PROVE LibraryInv'
    OBVIOUS
  <1>1. CASE OpenNeeded
    <2> DEFINE path == Opens[Needed]
               lib == [name |-> Needed, handle |-> path, info |-> loaded_object_info(Needed, process')]
    <2>1. /\ path \in DOMAIN Host /\ Needed \in Names
          /\ process' = Dlopen(path) /\ Matching(Needed, process') # {}
          /\ wrapped_libs' = Append(wrapped_libs, lib)
      <3>1. Needed \in Names
        BY <1>1 DEF OpenNeeded, ReachedNeeded, Needed, Names, LInv, Typed
      <3> QED
        BY <1>1, <3>1, HostAssumption DEF OpenNeeded
    <2>2. /\ process' \in Seq(Paths) /\ IsInjective(process')
          /\ ToSet(process) \subseteq ToSet(process') /\ path \in ToSet(process')
      <3> HIDE DEF path
      <3> QED
        BY <2>1, DlopenLoads DEF LibraryInv
    <2>3. loaded_object_info(Needed, process') \in ToSet(process')
      <3> DEFINE T == Matching(Needed, process')
      <3>1. T \in SUBSET Nat /\ T # {} /\ T \subseteq DOMAIN process'
        <4>1. DOMAIN process' = 1 .. Len(process') /\ Len(process') \in Nat
          BY <2>2
        <4>2. T \subseteq DOMAIN process'
          BY DEF Matching
        <4> QED
          BY <2>1, <4>1, <4>2, SMT
      <3> HIDE DEF T
      <3>2. \E x \in T : \A y \in T : x <= y
        BY <3>1, Least
      <3>3. Min(T) \in T
        BY <3>2 DEF Min
      <3>4. Min(T) \in DOMAIN process' /\ loaded_object_info(Needed, process') = process'[Min(T)]
        BY <3>1, <3>3 DEF loaded_object_info, T
      <3> QED
        BY <3>4 DEF ToSet
    <2>4. ToSet(process') \subseteq Paths
      BY <2>2 DEF ToSet
    <2>5. lib \in [name : Names, handle : Paths, info : Paths]
      BY <2>1, <2>2, <2>3, <2>4
    <2>6. {lib.handle, lib.info} \subseteq ToSet(process')
      BY <2>2, <2>3
    <2> HIDE DEF lib, path
    <2>7. ASSUME NEW k \in DOMAIN wrapped_libs'
          PROVE  {wrapped_libs'[k].handle, wrapped_libs'[k].info} \subseteq ToSet(process')
      <3> DEFINE l == Len(wrapped_libs)
      <3>1. /\ l \in Nat /\ DOMAIN wrapped_libs = 1 .. l /\ DOMAIN wrapped_libs' = 1 .. l + 1
            /\ wrapped_libs'[l + 1] = lib /\ \A j \in 1 .. l : wrapped_libs'[j] = wrapped_libs[j]
        BY <2>1, <2>5, SMT DEF LibraryInv
      <3> HIDE DEF l
      <3>2. k \in 1 .. l \/ k = l + 1
        BY <3>1, SMT
      <3> QED
        BY <2>2, <2>6, <3>1, <3>2 DEF LibraryInv
    <2>8. wrapped_libs' \in Seq([name : Names, handle : Paths, info : Paths])
      BY <2>1, <2>5 DEF LibraryInv
    <2> QED
      BY <2>2, <2>7, <2>8 DEF LibraryInv
  <1>2. CASE ~OpenNeeded
    <2>1. process' = process /\ wrapped_libs' = wrapped_libs
      BY <1>2 DEF Next, Map, vars, bindvars, SkipNeeded, NeededFails, AllNeeded, Link, RegisterSymbols, RelocateRelative,
         RelocateSymbol, SkipWeak, RelocationFails, Start, CollectInit, CallInit, CallEntry
    <2> QED
      BY <2>1 DEF LibraryInv
  <1> QED
    BY <1>1, <1>2

LEMMA Lowest ==
    ASSUME NEW T \in SUBSET Nat, T # {}
    PROVE  Min(T) \in T /\ \A y \in T : Min(T) <= y
  <1>1. \E x \in T : \A y \in T : x <= y
    BY Least
  <1> QED
    BY <1>1 DEF Min

(* The first loaded object whose path ends with a name is that, ...        *)
LEMMA FirstMatch ==
    ASSUME NEW q \in Seq(Paths), NEW name, Matching(name, q) # {}
    PROVE  /\ Min(Matching(name, q)) \in DOMAIN q /\ Min(Matching(name, q)) \in Nat
           /\ \A y \in Matching(name, q) : Min(Matching(name, q)) <= y
           /\ loaded_object_info(name, q) = q[Min(Matching(name, q))]
           /\ loaded_object_info(name, q) \in ToSet(q)
           /\ EndsWith(loaded_object_info(name, q), name)
  <1>1. DOMAIN q = 1 .. Len(q) /\ Len(q) \in Nat
    OBVIOUS
  <1>2. Matching(name, q) \in SUBSET Nat /\ Matching(name, q) \subseteq DOMAIN q
    BY <1>1, SMT DEF Matching
  <1>3. Min(Matching(name, q)) \in Matching(name, q) /\ \A y \in Matching(name, q) : Min(Matching(name, q)) <= y
    BY <1>2, Lowest
  <1>4. EndsWith(q[Min(Matching(name, q))], name)
    BY <1>3 DEF Matching
  <1> QED
    BY <1>2, <1>3, <1>4 DEF loaded_object_info, ToSet

(* ... and it remains the first when others are loaded behind it.          *)
LEMMA FirstStays ==
    ASSUME NEW q \in Seq(Paths), NEW r \in Seq(Paths), Extends(q, r), NEW name, Matching(name, q) # {}
    PROVE  Matching(name, r) # {} /\ loaded_object_info(name, r) = loaded_object_info(name, q)
  <1> DEFINE m == Min(Matching(name, q))
             n == Min(Matching(name, r))
  <1>1. /\ DOMAIN q = 1 .. Len(q) /\ Len(q) \in Nat /\ DOMAIN r = 1 .. Len(r) /\ Len(r) \in Nat
    OBVIOUS
  <1>2. /\ m \in DOMAIN q /\ m \in Nat /\ \A y \in Matching(name, q) : m <= y
        /\ loaded_object_info(name, q) = q[m] /\ EndsWith(q[m], name)
    BY FirstMatch
  <1>3. m \in Matching(name, r)
    BY <1>2 DEF Matching, Extends
  <1>4. /\ n \in DOMAIN r /\ n \in Nat /\ n <= m
        /\ loaded_object_info(name, r) = r[n] /\ EndsWith(r[n], name)
    BY <1>3, FirstMatch
  <1> HIDE DEF m, n
  <1>5. n \in DOMAIN q
    BY <1>1, <1>2, <1>4, SMT
  <1>6. n \in Matching(name, q)
    BY <1>4, <1>5 DEF Matching, Extends
  <1>7. n = m
    BY <1>2, <1>4, <1>6, SMT
  <1> QED
    BY <1>2, <1>3, <1>4, <1>5, <1>7 DEF Extends

(* Needed libraries that handle_needed has come to.                        *)
Reached == {i \in Needing : phase \in {"needed", "no_library"} => i < idx}

(* Each counts as wrapped by now.                                          *)
Covered(i, below) == \E m \in DOMAIN wrapped_libs : m < below /\ EndsWith(wrapped_libs[m].info, elf.needed[i])

(* The m-th library was opened for a name that none before it ends with;   *)
(* the table searched is that of the first loaded object whose path does.  *)
OpenedFor(m) ==
    LET lib == wrapped_libs[m]
    IN  /\ lib.name \in DOMAIN Opens /\ lib.handle = Opens[lib.name]
        /\ Matching(lib.name, process) # {} /\ lib.info = loaded_object_info(lib.name, process)
        /\ \A b \in DOMAIN wrapped_libs : b < m => ~EndsWith(wrapped_libs[b].info, lib.name)
        /\ \E i \in Reached : elf.needed[i] = lib.name /\ \A a \in Needing : a < i => Covered(a, m)

NeedInv ==
    /\ \A i \in Reached : \E m \in DOMAIN wrapped_libs : EndsWith(wrapped_libs[m].info, elf.needed[i])
    /\ \A m \in DOMAIN wrapped_libs : OpenedFor(m)

LEMMA NeedStarts == Init => NeedInv
  <1> SUFFICES ASSUME Init PROVE NeedInv
    OBVIOUS
  <1>1. /\ phase = "needed" /\ idx = 1 /\ wrapped_libs = << >> /\ elf \in Elfs
    BY DEF Init, MappingInit
  <1>2. DOMAIN wrapped_libs = {}
    BY <1>1
  <1>3. Reached = {}
    <2>1. \A i \in DOMAIN elf.needed : ~(i < 1)
      BY <1>1, SymbolFormat, SMT
    <2> QED
      BY <1>1, <2>1 DEF Reached, Needing
  <1> QED
    BY <1>2, <1>3 DEF NeedInv

LEMMA NeedOpens ==
    ASSUME LInv, LibraryInv, NeedInv, OpenNeeded
    PROVE  NeedInv'
  <1>l. PICK l : l = Len(wrapped_libs)
    OBVIOUS
  <1> DEFINE path == Opens[Needed]
             lib  == [name |-> Needed, handle |-> path, info |-> loaded_object_info(Needed, process')]
  <1>1. /\ phase = "needed" /\ phase' = "needed" /\ idx \in DOMAIN elf.needed /\ idx' = idx + 1 /\ elf' = elf
        /\ Needed = elf.needed[idx] /\ Needed \in DOMAIN Opens /\ ~AlreadyWrapped(Needed) /\ ~IsPrefix(LdLinux, Needed)
        /\ process' = Dlopen(path) /\ Matching(Needed, process') # {}
        /\ wrapped_libs' = Append(wrapped_libs, lib)
    BY DEF OpenNeeded, ReachedNeeded, Handled, Needed
  <1>2. process \in Seq(Paths) /\ process' \in Seq(Paths) /\ Extends(process, process')
    <2>1. path \in DOMAIN Host
      BY <1>1, HostAssumption
    <2> HIDE DEF path
    <2> QED
      BY <1>1, <2>1, DlopenLoads DEF LibraryInv
  <1>3. /\ l \in Nat /\ DOMAIN wrapped_libs = 1 .. l /\ DOMAIN wrapped_libs' = 1 .. l + 1
        /\ wrapped_libs'[l + 1] = lib /\ \A m \in 1 .. l : wrapped_libs'[m] = wrapped_libs[m]
    <2>1. wrapped_libs \in Seq([name : Names, handle : Paths, info : Paths])
      BY DEF LibraryInv
    <2> HIDE DEF lib
    <2> QED
      BY <1>l, <1>1, <2>1, SMT
  <1>4. lib.name = Needed /\ lib.handle = path /\ lib.info = loaded_object_info(Needed, process')
    OBVIOUS
  <1>5. EndsWith(lib.info, Needed)
    BY <1>1, <1>2, <1>4, FirstMatch
  <1>6. elf \in Elfs /\ idx \in Nat
    BY DEF LInv, Typed
  <1> HIDE DEF lib, path
  <1>7. /\ \A m \in 1 .. l + 1 : m \in 1 .. l \/ m = l + 1
        /\ \A m \in 1 .. l : m \in 1 .. l + 1 /\ m < l + 1 /\ ~(l + 1 < m)
        /\ \A m \in 1 .. l + 1 : m < l + 1 => m \in 1 .. l
        /\ l + 1 \in 1 .. l + 1
    BY <1>3, SMT
  <1>8. \A i \in DOMAIN elf.needed : i \in Nat
    BY <1>6, SymbolFormat, SMT
  <1>9. Needing' = Needing /\ idx \in Needing
    BY <1>1 DEF Needing, IsLdLinux
  <1>10. idx \in Reached' /\ \A i \in Reached : i \in Reached'
    <2>1. \A i \in Nat : i < idx => i < idx + 1
      BY <1>6, SMT
    <2>2. idx < idx + 1
      BY <1>6, SMT
    <2> QED
      BY <1>1, <1>8, <1>9, <2>1, <2>2 DEF Reached, Needing
  <1>11. \A i \in Reached' : i \in Reached \/ i = idx
    <2>1. \A i \in Nat : i < idx + 1 => i < idx \/ i = idx
      BY <1>6, SMT
    <2> QED
      BY <1>1, <1>8, <1>9, <2>1 DEF Reached, Needing
  <1>12. \A i \in Needing : i < idx => i \in Reached
    BY <1>1 DEF Reached
  <1>13. ASSUME NEW i \in Reached'
         PROVE  \E m \in DOMAIN wrapped_libs' : EndsWith(wrapped_libs'[m].info, elf'.needed[i])
    <2>1. CASE i \in Reached
      <3>1. PICK m \in DOMAIN wrapped_libs : EndsWith(wrapped_libs[m].info, elf.needed[i])
        BY <2>1 DEF NeedInv
      <3> QED
        BY <1>1, <1>3, <1>7, <3>1
    <2>2. CASE i = idx
      BY <1>1, <1>3, <1>4, <1>5, <1>7, <2>2
    <2> QED
      BY <1>11, <1>13, <2>1, <2>2
  <1>14. ASSUME NEW m \in 1 .. l, NEW i, Covered(i, m) PROVE Covered(i, m)'
    <2>1. PICK b \in DOMAIN wrapped_libs : b < m /\ EndsWith(wrapped_libs[b].info, elf.needed[i])
      BY <1>14 DEF Covered
    <2> QED
      BY <1>1, <1>3, <1>7, <2>1 DEF Covered
  <1>15. ASSUME NEW m \in 1 .. l PROVE OpenedFor(m)'
    <2>1. OpenedFor(m) /\ wrapped_libs'[m] = wrapped_libs[m]
      BY <1>3 DEF NeedInv
    <2>2. /\ Matching(wrapped_libs[m].name, process') # {}
          /\ wrapped_libs[m].info = loaded_object_info(wrapped_libs[m].name, process')
      BY <1>2, <2>1, FirstStays DEF OpenedFor
    <2>3. \A b \in DOMAIN wrapped_libs' : b < m => ~EndsWith(wrapped_libs'[b].info, wrapped_libs[m].name)
      BY <1>3, <1>7, <2>1 DEF OpenedFor
    <2>4. PICK i \in Reached : /\ elf.needed[i] = wrapped_libs[m].name
                               /\ \A a \in Needing : a < i => Covered(a, m)
      BY <2>1 DEF OpenedFor
    <2>5. \A a \in Needing' : a < i => Covered(a, m)'
      BY <1>9, <1>14, <2>4
    <2> QED
      BY <1>1, <1>10, <2>1, <2>2, <2>3, <2>4, <2>5 DEF OpenedFor
  <1>16. OpenedFor(l + 1)'
    <2>1. \A b \in DOMAIN wrapped_libs' : b < l + 1 => ~EndsWith(wrapped_libs'[b].info, Needed)
      BY <1>1, <1>3, <1>7 DEF AlreadyWrapped
    <2>2. ASSUME NEW a \in Needing, a < idx PROVE Covered(a, l + 1)'
      <3>1. PICK m \in DOMAIN wrapped_libs : EndsWith(wrapped_libs[m].info, elf.needed[a])
        BY <1>12, <2>2 DEF NeedInv
      <3> QED
        BY <1>1, <1>3, <1>7, <3>1 DEF Covered
    <2> QED
      BY <1>1, <1>3, <1>4, <1>9, <1>10, <2>1, <2>2 DEF OpenedFor, path
  <1> QED
    BY <1>3, <1>7, <1>13, <1>15, <1>16 DEF NeedInv

(* Steps that open nothing.                                                *)
LEMMA NeedStays ==
    ASSUME NeedInv, elf' = elf, UNCHANGED <<process, wrapped_libs>>, Reached' \subseteq Reached,
           Reached \subseteq Reached'
    PROVE  NeedInv'
  <1>1. Needing' = Needing
    BY DEF Needing
  <1>2. Reached' = Reached
    OBVIOUS
  <1>3. \A a, m : Covered(a, m)' = Covered(a, m)
    BY DEF Covered
  <1>4. ASSUME NEW m \in DOMAIN wrapped_libs PROVE OpenedFor(m)'
    <2>1. OpenedFor(m)
      BY DEF NeedInv
    <2> QED
      BY <1>1, <1>2, <1>3, <2>1 DEF OpenedFor
  <1> QED
    BY <1>2, <1>4 DEF NeedInv

LEMMA NeedSteps == LInv /\ LibraryInv /\ NeedInv /\ [Next]_vars => NeedInv'
  <1> SUFFICES ASSUME LInv, LibraryInv, NeedInv, [Next]_vars PROVE NeedInv'
    OBVIOUS
  <1>1. elf \in Elfs /\ idx \in Nat
    BY DEF LInv, Typed
  <1>2. /\ \A i \in DOMAIN elf.needed : i \in Nat
        /\ DOMAIN elf.needed = 1 .. Len(elf.needed) /\ Len(elf.needed) \in Nat
    BY <1>1, SymbolFormat, SMT
  <1>3. CASE OpenNeeded
    BY <1>3, NeedOpens
  <1>4. CASE SkipNeeded
    <2>1. /\ phase = "needed" /\ phase' = "needed" /\ idx \in DOMAIN elf.needed /\ idx' = idx + 1 /\ elf' = elf
          /\ UNCHANGED <<process, wrapped_libs>>
          /\ AlreadyWrapped(elf.needed[idx]) \/ IsPrefix(LdLinux, elf.needed[idx])
      BY <1>4 DEF SkipNeeded, ReachedNeeded, Handled, Needed, bindvars
    <2>2. Needing' = Needing /\ \A a, m : Covered(a, m)' = Covered(a, m)
      BY <2>1 DEF Needing, Covered
    <2>3. \A i \in Nat : (i < idx => i < idx + 1) /\ (i < idx + 1 => i < idx \/ i = idx)
      BY <1>1, SMT
    <2>4. \A i \in Reached : i \in Reached'
      BY <1>2, <2>1, <2>2, <2>3 DEF Reached, Needing
    <2>5. \A i \in Reached' : i \in Reached \/ (i = idx /\ AlreadyWrapped(elf.needed[i]))
      BY <1>2, <2>1, <2>2, <2>3 DEF Reached, Needing, IsLdLinux
    <2>6. \A i \in Reached' : \E m \in DOMAIN wrapped_libs : EndsWith(wrapped_libs[m].info, elf.needed[i])
      BY <2>5 DEF NeedInv, AlreadyWrapped
    <2>7. ASSUME NEW m \in DOMAIN wrapped_libs PROVE OpenedFor(m)'
      <3>1. OpenedFor(m)
        BY DEF NeedInv
      <3> QED
        BY <2>1, <2>2, <2>4, <3>1 DEF OpenedFor
    <2> QED
      BY <2>1, <2>6, <2>7 DEF NeedInv
  <1>5. CASE NeededFails
    <2>1. /\ phase = "needed" /\ phase' = "no_library" /\ idx' = idx /\ elf' = elf
          /\ UNCHANGED <<process, wrapped_libs>>
      BY <1>5 DEF NeededFails, ReachedNeeded, bindvars
    <2> QED
      BY <2>1, NeedStays DEF Reached, Needing
  <1>6. CASE AllNeeded
    <2>1. /\ phase = "needed" /\ phase' = "reserve" /\ idx > Len(elf.needed) /\ elf' = elf
          /\ UNCHANGED <<process, wrapped_libs>>
      BY <1>6 DEF AllNeeded, bindvars
    <2>2. \A i \in DOMAIN elf.needed : i < idx
      BY <1>1, <1>2, <2>1, SMT
    <2> QED
      BY <2>1, <2>2, NeedStays DEF Reached, Needing
  <1>7. CASE ~OpenNeeded /\ ~SkipNeeded /\ ~NeededFails /\ ~AllNeeded
    <2>1. elf' = elf /\ UNCHANGED <<process, wrapped_libs>>
      BY <1>7 DEF Next, Map, vars, bindvars, Link, RegisterSymbols, RelocateRelative, RelocateSymbol, SkipWeak,
         RelocationFails, Start, CollectInit, CallInit, CallEntry, Reserve, ReserveAt, NothingReserved, LoadSegment,
         SegmentFails, ClearFaults, OthersMap
    <2>2. \/ phase' = phase /\ idx' = idx
          \/ phase \notin {"needed", "no_library"} /\ phase' \notin {"needed", "no_library"}
      BY <1>7 DEF Next, Map, vars, bindvars, Link, RegisterSymbols, RelocateRelative, RelocateSymbol, SkipWeak, ReachedReloc,
         MoreSegments, RelocationFails, Start, CollectInit, CallInit, CallEntry, Reserve, ReserveAt, NothingReserved, LoadSegment,
         SegmentFails, ClearFaults, OthersMap
    <2> QED
      BY <2>1, <2>2, NeedStays DEF Reached, Needing
  <1> QED
    BY <1>3, <1>4, <1>5, <1>6, <1>7

LEMMA ServedFollows == LibraryInv /\ NeedInv => NeededServed
  <1> SUFFICES ASSUME LibraryInv, NeedInv, phase \notin {"needed", "no_library"}, NEW k \in Needing
               PROVE  /\ Served(k) \/ Mistaken(k) \/ Displaced(k)
                      /\ Served(k) => IsLibrary(loaded_object_info(elf.needed[k], process), k)
    BY DEF NeededServed
  <1>1. PICK m \in DOMAIN wrapped_libs : EndsWith(wrapped_libs[m].info, elf.needed[k])
    BY DEF NeedInv, Reached
  <1>2. wrapped_libs[m].info \in ToSet(process)
    BY DEF LibraryInv
  <1>3. Served(k) \/ Mistaken(k) \/ Displaced(k)
    BY <1>1, <1>2 DEF Served, Mistaken, Displaced
  <1>4. ASSUME Served(k) PROVE IsLibrary(loaded_object_info(elf.needed[k], process), k)
    <2>1. PICK j \in DOMAIN wrapped_libs : /\ IsLibrary(wrapped_libs[j].handle, k)
                                          /\ IsLibrary(wrapped_libs[j].info, k)
      BY <1>4 DEF Served
    <2>2. /\ wrapped_libs[j].name \in DOMAIN Opens /\ wrapped_libs[j].handle = Opens[wrapped_libs[j].name]
          /\ wrapped_libs[j].info = loaded_object_info(wrapped_libs[j].name, process)
      BY DEF NeedInv, OpenedFor
    <2>3. wrapped_libs[j].name = elf.needed[k]
      BY <2>1, <2>2, HostAssumption DEF IsLibrary, IsInjective
    <2> QED
      BY <2>1, <2>2, <2>3
  <1> QED
    BY <1>3, <1>4

------------------------------------------------------------------------------
(* Initialisers *)

(* What relative relocations applied so far have written is still there.   *)
SlotsHold == \A i \in Applied : elf.relocs[i].type = "RELATIVE" =>
                 memory[base + elf.relocs[i].at] = Address(base + elf.relocs[i].addend)

(* DT_INIT's function and those of the array.                              *)
First   == IF elf.init # 0 THEN <<Address(base + elf.init)>> ELSE << >>
Entries == [k \in 1 .. elf.init_array[2] |-> ArrayEntry(elf.init_array[1] + k - 1)]
Starters == First \o Entries

(* How far the calls have come.                                            *)
CallsMade ==
    /\ phase \notin {"init", "entered", "no_entry"} => called = << >>
    /\ phase = "init" => /\ init_array = Starters
                         /\ idx \in 1 .. Len(Starters) + 1 /\ called = SubSeq(Starters, 1, idx - 1)
    /\ phase = "no_entry" => called = Starters /\ elf.entry = 0
    /\ phase = "entered" => called = Append(Starters, Address(base + elf.entry)) /\ elf.entry # 0

StartInv == SlotsHold /\ CallsMade

LEMMA SlotMapped ==
    ASSUME LInv, ImageInv, Loaded, NEW i \in DOMAIN elf.relocs
    PROVE  base + elf.relocs[i].at \in DOMAIN memory
  <1> DEFINE x == elf.relocs[i].at
  <1>1. elf \in Elfs /\ base \in Nat
    BY SMT DEF LInv, Typed, ImageInv, Position, Addrs
  <1>2. PICK j \in DOMAIN elf.segments : elf.segments[j].address <= x /\ x < elf.segments[j].address + elf.segments[j].size
    BY <1>1, FileFormat
  <1> DEFINE s == elf.segments[j]
  <1>3. x \in Nat /\ s.address \in Nat /\ s.size \in Nat
    <2>1. elf.relocs[i] \in RelocRecord
      BY <1>1, SegmentIndex
    <2>2. s \in SegmentRecord
      BY <1>1, SegmentFacts
    <2> QED
      BY <2>1, <2>2 DEF RelocRecord, SegmentRecord
  <1>4. base + x \in BytesOf(s)
    <2>1. BytesOf(s) = base + s.address .. (base + s.address + s.size) - 1
      <3> HIDE DEF s
      <3> QED
        BY Zenon DEF BytesOf, segment_end
    <2>2. s.address <= x /\ x < s.address + s.size
      BY <1>2
    <2> HIDE DEF s, x
    <2>3. base + x \in base + s.address .. (base + s.address + s.size) - 1
      BY <1>1, <1>3, <2>2, SMT
    <2> QED
      BY <2>1, <2>3
  <1>5. base + x \in Bytes(j)
    BY <1>1, <1>4, OwnBytes DEF Bytes
  <1>6. Bytes(j) \subseteq DOMAIN memory
    BY AllDone DEF ImageInv, MappedWhole
  <1> QED
    BY <1>5, <1>6

LEMMA OneApplied ==
    ASSUME LInv, ReachedReloc, phase' = phase, idx' = idx + 1, elf' = elf
    PROVE  \A i : i \in Applied' => i \in DOMAIN elf.relocs /\ (i \in Applied \/ i = idx)
  <1>1. elf \in Elfs /\ idx \in Nat /\ phase = "relocate" /\ Loaded
    BY DEF LInv, Typed, ReachedReloc, Loaded
  <1>2. \A i \in DOMAIN elf.relocs : i < idx + 1 => i < idx \/ i = idx
    <2>1. \A i \in DOMAIN elf.relocs : i \in Nat
      BY <1>1, SegmentIndex
    <2>2. \A i \in Nat : i < idx + 1 => i < idx \/ i = idx
      BY <1>1, SMT
    <2> QED
      BY <2>1, <2>2
  <1>3. \A i : i \in Applied' => i \in DOMAIN elf.relocs /\ i < idx + 1
    BY <1>1 DEF Applied
  <1>4. \A i \in DOMAIN elf.relocs : i < idx => i \in Applied
    BY <1>1 DEF Applied
  <1> QED
    BY <1>2, <1>3, <1>4

(* A relocation's write leaves the slots of others alone.                  *)
LEMMA OtherSlot ==
    ASSUME LInv, ImageInv, ReachedReloc, NEW v, Write(Reloc.at, v), NEW i \in DOMAIN elf.relocs, i # idx
    PROVE  memory'[base + elf.relocs[i].at] = memory[base + elf.relocs[i].at]
  <1> DEFINE x == elf.relocs[i].at
             y == elf.relocs[idx].at
  <1>1. /\ elf \in Elfs /\ base \in Nat /\ idx \in DOMAIN elf.relocs /\ Loaded
        /\ memory' = [memory EXCEPT ![base + y] = v]
    BY SMT DEF LInv, Typed, ImageInv, Position, Addrs, ReachedReloc, Write, Reloc, Loaded
  <1>2. x # y
    BY <1>1, FileFormat
  <1>3. x \in Nat /\ y \in Nat
    BY <1>1, SegmentIndex DEF RelocRecord
  <1>4. base + x \in DOMAIN memory
    BY <1>1, SlotMapped
  <1> HIDE DEF x, y
  <1>5. base + x # base + y
    BY <1>1, <1>2, <1>3, SMT
  <1>6. memory'[base + x] = memory[base + x]
    BY <1>1, <1>4, <1>5
  <1> QED
    BY <1>6 DEF x

LEMMA SlotsWrite ==
    ASSUME LInv, ImageInv, SlotsHold, ReachedReloc, phase' = phase, idx' = idx + 1,
           NEW v, Write(Reloc.at, v), Reloc.type = "RELATIVE" => v = Relative(Reloc),
           UNCHANGED <<elf, base>>
    PROVE  SlotsHold'
  <1>1. /\ elf \in Elfs /\ idx \in DOMAIN elf.relocs /\ Loaded
        /\ memory' = [memory EXCEPT ![base + elf.relocs[idx].at] = v]
    BY DEF LInv, Typed, ReachedReloc, Write, Reloc, Loaded
  <1>2. \A i : i \in Applied' => i \in DOMAIN elf.relocs /\ (i \in Applied \/ i = idx)
    BY OneApplied
  <1> SUFFICES ASSUME NEW i \in DOMAIN elf.relocs, i \in Applied \/ i = idx, elf.relocs[i].type = "RELATIVE"
               PROVE  memory'[base + elf.relocs[i].at] = Address(base + elf.relocs[i].addend)
    BY <1>2 DEF SlotsHold
  <1>3. base + elf.relocs[i].at \in DOMAIN memory
    BY <1>1, SlotMapped
  <1>4. CASE i = idx
    BY <1>1, <1>3, <1>4 DEF Relative, Reloc
  <1>5. CASE i # idx /\ i \in Applied
    <2>1. memory'[base + elf.relocs[i].at] = memory[base + elf.relocs[i].at]
      BY <1>5, OtherSlot
    <2> QED
      BY <1>5, <2>1 DEF SlotsHold
  <1> QED
    BY <1>4, <1>5

(* The array, once relocated, holds the functions the file names.          *)
LEMMA ArrayHolds ==
    ASSUME LInv, ImageInv, SlotsHold, Applied = DOMAIN elf.relocs
    PROVE  Initialisers = Starters
  <1>1. elf \in Elfs /\ base \in Nat
    BY SMT DEF LInv, Typed, ImageInv, Position, Addrs
  <1> DEFINE n == elf.init_array[2]
             x == elf.init_array[1]
  <1>2. n \in Nat /\ x \in Nat
    BY <1>1, FileFormat
  <1>3. ASSUME NEW k \in 1 .. n PROVE memory[base + elf.init_array[1] + k - 1] = ArrayEntry(elf.init_array[1] + k - 1)
    <2> DEFINE at == x + k - 1
               Is(i) == elf.relocs[i].at = at
    <2>1. PICK i \in DOMAIN elf.relocs : elf.relocs[i].type = "RELATIVE" /\ elf.relocs[i].at = x + k - 1
      BY <1>1, FileFormat
    <2> DEFINE c == CHOOSE j \in DOMAIN elf.relocs : elf.relocs[j].at = at
    <2>2. c \in DOMAIN elf.relocs /\ elf.relocs[c].at = at
      BY <2>1
    <2>3. c = i
      BY <1>1, <2>1, <2>2, FileFormat
    <2>4. ArrayEntry(at) = Address(base + elf.relocs[i].addend)
      BY <2>3 DEF ArrayEntry
    <2>5. memory[base + elf.relocs[i].at] = Address(base + elf.relocs[i].addend)
      BY <2>1 DEF SlotsHold
    <2>6. base + elf.init_array[1] + k - 1 = base + elf.relocs[i].at
      <3>1. base + x + k - 1 = base + (x + k - 1)
        <4> HIDE DEF x, n
        <4> QED
          BY <1>1, <1>2, SMT
      <3> QED
        BY <2>1, <3>1
    <2> QED
      BY <2>4, <2>5, <2>6
  <1>4. [k \in 1 .. elf.init_array[2] |-> memory[base + elf.init_array[1] + k - 1]] = Entries
    BY <1>3 DEF Entries
  <1> QED
    BY <1>4 DEF Initialisers, Starters, First

(* A sequence of one element or of none. *)
LEMMA AtMostOne ==
    ASSUME NEW T, NEW f \in T
    PROVE  <<f>> \in Seq(T) /\ << >> \in Seq(T)
  OBVIOUS

(* Starters is a sequence.                                                 *)
LEMMA StartersSequence ==
    ASSUME elf \in Elfs
    PROVE  \E T : Starters \in Seq(T) /\ (elf.entry # 0 => Address(base + elf.entry) \in T)
  <1> DEFINE n == elf.init_array[2]
             T == {Address(base + elf.init), Address(base + elf.entry)} \cup {Entries[k] : k \in 1 .. n}
  <1>1. n \in Nat
    BY FileFormat
  <1>2. Entries \in Seq(T)
    <2>1. Entries = [k \in 1 .. n |-> Entries[k]]
      BY DEF Entries
    <2>2. \A k \in 1 .. n : Entries[k] \in T
      OBVIOUS
    <2>3. Entries \in [1 .. n -> T]
      <3> HIDE DEF T, n
      <3> QED
        BY <2>1, <2>2
    <2> HIDE DEF T, n
    <2> QED
      BY <1>1, <2>3
  <1>3. First \in Seq(T)
    <2> DEFINE f == Address(base + elf.init)
    <2>1. f \in T
      OBVIOUS
    <2>2. First = <<f>> \/ First = << >>
      BY DEF First
    <2>3. <<f>> \in Seq(T) /\ << >> \in Seq(T)
      BY <2>1, AtMostOne
    <2> HIDE DEF T, f
    <2> QED
      BY <2>2, <2>3, Zenon
  <1>4. First \o Entries \in Seq(T)
    <2> HIDE DEF T
    <2> QED
      BY <1>2, <1>3, ConcatProperties
  <1>5. Address(base + elf.entry) \in T
    OBVIOUS
  <1> QED
    BY <1>4, <1>5 DEF Starters

LEMMA OneMore ==
    ASSUME NEW T, NEW s \in Seq(T), NEW i \in 1 .. Len(s)
    PROVE  Append(SubSeq(s, 1, i - 1), s[i]) = SubSeq(s, 1, i)
  <1>1. Len(s) \in Nat /\ i \in Nat /\ DOMAIN s = 1 .. Len(s)
    BY SMT
  <1>2. \A k \in 1 .. Len(s) : s[k] \in T
    OBVIOUS
  <1> DEFINE p == SubSeq(s, 1, i - 1)
             q == SubSeq(s, 1, i)
  <1>3. p \in Seq(T) /\ Len(p) = i - 1 /\ \A k \in 1 .. i - 1 : p[k] = s[k]
    <2>1. \A k \in 1 .. i - 1 : s[k] \in T /\ 1 + k - 1 = k
      BY <1>1, <1>2, SMT
    <2>2. i - 1 \in Int /\ 1 \in Int /\ (i - 1) - 1 + 1 = i - 1 /\ (IF 1 <= i - 1 THEN (i - 1) - 1 + 1 ELSE 0) = i - 1
      BY <1>1, SMT
    <2> QED
      BY <2>1, <2>2, SubSeqProperties, SMT
  <1>4. q \in Seq(T) /\ Len(q) = i /\ \A k \in 1 .. i : q[k] = s[k]
    <2>1. \A k \in 1 .. i : s[k] \in T
      BY <1>1, <1>2, SMT
    <2> QED
      BY <1>1, <2>1, SubSeqProperties, SMT
  <1>5. s[i] \in T
    BY <1>2
  <1> HIDE DEF p, q
  <1>6. /\ Append(p, s[i]) \in Seq(T) /\ Len(Append(p, s[i])) = i
        /\ \A k \in 1 .. i : Append(p, s[i])[k] = q[k]
    BY <1>1, <1>3, <1>4, <1>5, SMT
  <1>7. Append(p, s[i]) = q
    BY <1>1, <1>4, <1>6, SeqEqual
  <1> QED
    BY <1>7 DEF p, q

LEMMA StartBegins == Init => StartInv
  <1> SUFFICES ASSUME Init PROVE StartInv
    OBVIOUS
  <1>1. phase = "needed" /\ called = << >>
    BY DEF Init
  <1>2. Applied = {}
    BY <1>1 DEF Applied, Loaded
  <1> QED
    BY <1>1, <1>2 DEF StartInv, SlotsHold, CallsMade

LEMMA WholeSubSeq ==
    ASSUME NEW T, NEW s \in Seq(T)
    PROVE  SubSeq(s, 1, Len(s)) = s
  <1>1. Len(s) \in Nat /\ \A k \in 1 .. Len(s) : s[k] \in T
    OBVIOUS
  <1> DEFINE q == SubSeq(s, 1, Len(s))
  <1>2. q \in Seq(T) /\ Len(q) = Len(s) /\ \A k \in 1 .. Len(s) : q[k] = s[k]
    BY <1>1, SubSeqProperties, SMT
  <1> HIDE DEF q
  <1>3. q = s
    BY <1>2, SeqEqual
  <1> QED
    BY <1>3 DEF q

LEMMA SameStarters ==
    ASSUME UNCHANGED <<elf, base>>
    PROVE  Starters' = Starters
  BY DEF Starters, First, Entries, ArrayEntry

LEMMA StartSteps == LInv /\ ImageInv /\ StartInv /\ [Next]_vars => StartInv'
  <1> SUFFICES ASSUME LInv, ImageInv, StartInv, [Next]_vars PROVE StartInv'
    OBVIOUS
  <1>t. /\ elf \in Elfs /\ idx \in Nat
        /\ Len(elf.relocs) \in Nat
        /\ \A i \in DOMAIN elf.relocs : i \in Nat /\ i <= Len(elf.relocs) /\ ~(i < 1)
    BY SegmentIndex, SMT DEF LInv, Typed
  <1> DEFINE Early == {"needed", "no_library", "reserve", "not_reserved", "map", "not_mapped", "not_writable"}
  <1>1. CASE \/ SkipNeeded \/ OpenNeeded \/ NeededFails \/ AllNeeded
             \/ Map /\ UNCHANGED bindvars
    <2>1. phase \in Early /\ phase' \in Early /\ called' = called
      BY <1>1 DEF SkipNeeded, OpenNeeded, NeededFails, AllNeeded, ReachedNeeded, Map, Reserve, ReserveAt,
         NothingReserved, LoadSegment, SegmentFails, ClearFaults, OthersMap, MoreSegments, bindvars
    <2>2. Applied' = {}
      BY <2>1 DEF Applied, Loaded
    <2> QED
      BY <2>1, <2>2 DEF StartInv, SlotsHold, CallsMade
  <1>2. CASE RegisterSymbols
    <2>1. phase = "map" /\ phase' = "relocate" /\ idx' = 1 /\ called' = called /\ elf' = elf
      BY <1>2 DEF RegisterSymbols
    <2>2. Applied' = {}
      BY <1>t, <2>1 DEF Applied
    <2> QED
      BY <2>1, <2>2 DEF StartInv, SlotsHold, CallsMade
  <1>3. CASE RelocateRelative
    <2>1. /\ ReachedReloc /\ phase' = phase /\ idx' = idx + 1 /\ Write(Reloc.at, Relative(Reloc))
          /\ UNCHANGED <<elf, base, called>>
      BY <1>3 DEF RelocateRelative, bindvars
    <2>2. SlotsHold'
      BY <2>1, SlotsWrite DEF StartInv
    <2> QED
      BY <2>1, <2>2 DEF StartInv, CallsMade, ReachedReloc
  <1>4. CASE RelocateSymbol
    <2>1. /\ ReachedReloc /\ phase' = phase /\ idx' = idx + 1 /\ UNCHANGED <<elf, base, called>>
          /\ Reloc.type # "RELATIVE"
          /\ \E v : Write(Reloc.at, v)
      BY <1>4 DEF RelocateSymbol, Binds
    <2>2. PICK v : Write(Reloc.at, v)
      BY <2>1
    <2>3. SlotsHold'
      BY <2>1, <2>2, SlotsWrite DEF StartInv
    <2> QED
      BY <2>1, <2>3 DEF StartInv, CallsMade, ReachedReloc
  <1>5. CASE SkipWeak \/ RelocationFails
    <2>1. /\ phase = "relocate" /\ idx \in DOMAIN elf.relocs /\ UNCHANGED <<elf, base, memory, called>>
          /\ \/ phase' = "relocate" /\ idx' = idx + 1 /\ elf.relocs[idx].type # "RELATIVE"
             \/ phase' = "not_bound" /\ idx' = idx
      BY <1>5 DEF SkipWeak, RelocationFails, ReachedReloc, Reloc, mapvars, bindvars
    <2>2. \A i \in Applied' : i \in Applied \/ elf.relocs[i].type # "RELATIVE"
      <3>1. \A i \in DOMAIN elf.relocs : i < idx + 1 => i < idx \/ i = idx
        BY <1>t, SMT
      <3>2. \A i : i \in Applied' => i \in DOMAIN elf.relocs /\ (i < idx \/ elf.relocs[i].type # "RELATIVE")
        BY <2>1, <3>1 DEF Applied
      <3>3. \A i \in DOMAIN elf.relocs : i < idx => i \in Applied
        BY <2>1 DEF Applied, Loaded
      <3> QED
        BY <3>2, <3>3
    <2>3. SlotsHold'
      BY <2>1, <2>2 DEF StartInv, SlotsHold
    <2> QED
      BY <2>1, <2>3 DEF StartInv, CallsMade
  <1>6. CASE CollectInit
    <2>1. /\ phase = "relocate" /\ phase' = "init" /\ idx > Len(elf.relocs) /\ idx' = 1
          /\ init_array' = Initialisers /\ UNCHANGED <<elf, base, memory, called>>
      BY <1>6 DEF CollectInit, mapvars
    <2>2. Applied = DOMAIN elf.relocs
      <3>1. \A i \in DOMAIN elf.relocs : i < idx
        BY <1>t, <2>1, SMT
      <3> QED
        BY <2>1, <3>1 DEF Applied, Loaded
    <2>3. Applied' = DOMAIN elf.relocs
      BY <2>1 DEF Applied, Loaded
    <2>4. SlotsHold'
      BY <2>1, <2>2, <2>3 DEF StartInv, SlotsHold
    <2>5. init_array' = Starters /\ Starters' = Starters
      BY <2>1, <2>2, ArrayHolds, SameStarters DEF StartInv
    <2>6. PICK T : Starters \in Seq(T)
      BY <1>t, StartersSequence
    <2>7. 1 \in 1 .. Len(Starters) + 1 /\ 1 - 1 = 0
      BY <2>6, SMT
    <2>8. SubSeq(Starters, 1, 0) = << >>
      BY SubSeqEmpty, SMT
    <2>9. CallsMade'
      BY <2>1, <2>5, <2>7, <2>8 DEF StartInv, CallsMade
    <2> QED
      BY <2>4, <2>9 DEF StartInv
  <1>7. CASE CallInit
    <2>1. /\ phase = "init" /\ phase' = "init" /\ idx \in DOMAIN init_array /\ idx' = idx + 1
          /\ called' = Append(called, init_array[idx]) /\ UNCHANGED <<elf, base, memory, init_array>>
      BY <1>7 DEF CallInit, mapvars
    <2>2. Applied' = Applied
      BY <2>1 DEF Applied, Loaded
    <2>3. SlotsHold'
      BY <2>1, <2>2 DEF StartInv, SlotsHold
    <2>4. init_array = Starters /\ called = SubSeq(Starters, 1, idx - 1) /\ Starters' = Starters
      BY <2>1, SameStarters DEF StartInv, CallsMade
    <2>5. PICK T : Starters \in Seq(T)
      BY <1>t, StartersSequence
    <2>6. idx \in 1 .. Len(Starters)
      BY <2>1, <2>4, <2>5
    <2>7. Append(SubSeq(Starters, 1, idx - 1), Starters[idx]) = SubSeq(Starters, 1, idx)
      BY <2>5, <2>6, OneMore
    <2>8. idx + 1 \in 1 .. Len(Starters) + 1 /\ (idx + 1) - 1 = idx
      BY <1>t, <2>5, <2>6, SMT
    <2>9. CallsMade'
      BY <2>1, <2>4, <2>7, <2>8 DEF CallsMade
    <2> QED
      BY <2>3, <2>9 DEF StartInv
  <1>8. CASE CallEntry
    <2>1. /\ phase = "init" /\ idx > Len(init_array) /\ UNCHANGED <<elf, base, memory>>
          /\ \/ /\ elf.entry # 0 /\ phase' = "entered" /\ called' = Append(called, Address(base + elf.entry))
             \/ /\ elf.entry = 0 /\ phase' = "no_entry" /\ called' = called
      BY <1>8 DEF CallEntry, mapvars
    <2>2. Applied' = Applied
      BY <2>1 DEF Applied, Loaded
    <2>3. SlotsHold'
      BY <2>1, <2>2 DEF StartInv, SlotsHold
    <2>4. /\ init_array = Starters /\ idx \in 1 .. Len(Starters) + 1
          /\ called = SubSeq(Starters, 1, idx - 1) /\ Starters' = Starters
      BY <2>1, SameStarters DEF StartInv, CallsMade
    <2>5. PICK T : Starters \in Seq(T)
      BY <1>t, StartersSequence
    <2>6. idx - 1 = Len(Starters)
      <3>1. Len(Starters) \in Nat
        BY <2>5
      <3> QED
        BY <2>1, <2>4, <3>1, SMT
    <2>7. called = Starters
      BY <2>4, <2>5, <2>6, WholeSubSeq
    <2>8. CallsMade'
      BY <2>1, <2>4, <2>7 DEF CallsMade
    <2> QED
      BY <2>3, <2>8 DEF StartInv
  <1>9. CASE UNCHANGED vars
    <2>1. UNCHANGED <<elf, phase, idx, base, memory, called, init_array>>
      BY <1>9 DEF vars, mapvars, bindvars
    <2>2. Applied' = Applied
      BY <2>1 DEF Applied, Loaded
    <2>3. Starters' = Starters
      BY <2>1, SameStarters
    <2> QED
      BY <2>1, <2>2, <2>3 DEF StartInv, SlotsHold, CallsMade
  <1> QED
    BY <1>1, <1>2, <1>3, <1>4, <1>5, <1>6, <1>7, <1>8, <1>9 DEF Next, Link, Start

LEMMA StartAlways == Spec => [](LInv /\ ImageInv /\ LibraryInv /\ StartInv)
  <1>1. Init => LInv /\ ImageInv /\ LibraryInv /\ StartInv
    BY StartsRight, ImageStarts, LibrariesStart, StartBegins
  <1>2. LInv /\ ImageInv /\ LibraryInv /\ StartInv /\ [Next]_vars => LInv' /\ ImageInv' /\ LibraryInv' /\ StartInv'
    BY StepsKeep, ImageSteps, LibrariesStep, StartSteps
  <1> QED
    BY <1>1, <1>2, PTL DEF Spec

------------------------------------------------------------------------------
(* Bindings *)

Globals == Table({"GLOBAL", "WEAK"})
Locals  == Table({"LOCAL"})

(* What resolve_relocations finds for a name, whatever was cached before.  *)
Findable(name) == name \in DOMAIN Locals \/ name \in DOMAIN Globals \/ Providers(name) # {}
Found(name) ==
    IF name \in DOMAIN Locals THEN Locals[name]
    ELSE IF name \in DOMAIN Globals THEN Globals[name] ELSE FromLibrary(name)

(* The pool's table holds the object's symbols and what libraries gave.    *)
Cached ==
    /\ local_symbols = Locals
    /\ \A n \in DOMAIN Globals : n \in DOMAIN global_symbols /\ global_symbols[n] = Globals[n]
    /\ \A n \in DOMAIN global_symbols \ DOMAIN Globals : Providers(n) # {} /\ global_symbols[n] = FromLibrary(n)

NamesHold == \A i \in Applied : Binds(elf.relocs[i]) =>
    /\ Findable(SymbolName(elf.relocs[i]))
    /\ memory[base + elf.relocs[i].at] = Found(SymbolName(elf.relocs[i]))

StoppedAt == phase = "not_bound" /\ Reloc.type \in Relocs =>
    /\ idx \in DOMAIN elf.relocs
    /\ Binds(Reloc) /\ SymbolName(Reloc) \notin DOMAIN local_symbols /\ ~Known(SymbolName(Reloc))

BindInv == Loaded => Cached /\ NamesHold /\ StoppedAt

LEMMA Lookup ==
    ASSUME Cached, NEW name
    PROVE  /\ name \in DOMAIN local_symbols => Findable(name) /\ local_symbols[name] = Found(name)
           /\ name \notin DOMAIN local_symbols /\ Known(name) => Findable(name) /\ get_symbol(name) = Found(name)
  BY DEF Cached, Findable, Found, Known, get_symbol

(* Tables and libraries stay as they are once segments are mapped.         *)
LEMMA SameTables ==
    ASSUME elf' = elf, base' = base, wrapped_libs' = wrapped_libs
    PROVE  /\ Globals' = Globals /\ Locals' = Locals
           /\ \A n : Providers(n)' = Providers(n) /\ FromLibrary(n)' = FromLibrary(n)
           /\ \A n : Findable(n)' = Findable(n) /\ Found(n)' = Found(n)
  <1>1. \A k, binds : Registered(k, binds)' = Registered(k, binds)
    BY DEF Registered
  <1>2. Globals' = Globals /\ Locals' = Locals
    BY <1>1 DEF Globals, Locals, Table
  <1>3. \A n : Providers(n)' = Providers(n)
    BY DEF Providers
  <1>4. \A n : FromLibrary(n)' = FromLibrary(n)
    BY <1>3 DEF FromLibrary
  <1> QED
    BY <1>2, <1>3, <1>4 DEF Findable, Found

(* A relocation writes its own slot and no other.                          *)
LEMMA NamesWrite ==
    ASSUME LInv, ImageInv, NamesHold, ReachedReloc, phase' = phase, idx' = idx + 1,
           NEW v, Write(Reloc.at, v),
           Binds(Reloc) => Findable(SymbolName(Reloc)) /\ v = Found(SymbolName(Reloc)),
           UNCHANGED <<elf, base, wrapped_libs>>
    PROVE  NamesHold'
  <1>1. /\ elf \in Elfs /\ idx \in Nat /\ base \in Nat /\ phase = "relocate" /\ idx \in DOMAIN elf.relocs /\ Loaded
        /\ memory' = [memory EXCEPT ![base + elf.relocs[idx].at] = v]
    BY SMT DEF LInv, Typed, ImageInv, Position, Addrs, ReachedReloc, Write, Reloc, Loaded
  <1>2. \A i : i \in Applied' => i \in DOMAIN elf.relocs /\ (i \in Applied \/ i = idx)
    BY <1>1, OneApplied
  <1>3. \A n : Findable(n)' = Findable(n) /\ Found(n)' = Found(n)
    BY SameTables
  <1>4. \A r : Binds(r)' = Binds(r) /\ SymbolName(r)' = SymbolName(r)
    BY DEF Binds, SymbolName
  <1> SUFFICES ASSUME NEW i \in DOMAIN elf.relocs, i \in Applied \/ i = idx, Binds(elf.relocs[i])
               PROVE  /\ Findable(SymbolName(elf.relocs[i]))
                      /\ memory'[base + elf.relocs[i].at] = Found(SymbolName(elf.relocs[i]))
    BY <1>2, <1>3, <1>4 DEF NamesHold
  <1>5. base + elf.relocs[i].at \in DOMAIN memory
    BY <1>1, SlotMapped
  <1>6. CASE i = idx
    BY <1>1, <1>5, <1>6 DEF Reloc
  <1>7. CASE i # idx /\ i \in Applied
    <2>1. memory'[base + elf.relocs[i].at] = memory[base + elf.relocs[i].at]
      BY <1>1, <1>5, <1>7, OtherSlot
    <2> QED
      BY <1>7, <2>1 DEF NamesHold
  <1> QED
    BY <1>6, <1>7

LEMMA BindStarts == Init => BindInv
  BY DEF Init, BindInv, Loaded

LEMMA BindSteps == LInv /\ ImageInv /\ BindInv /\ [Next]_vars => BindInv'
  <1> SUFFICES ASSUME LInv, ImageInv, BindInv, [Next]_vars PROVE BindInv'
    OBVIOUS
  <1>1. elf \in Elfs /\ idx \in Nat
    BY DEF LInv, Typed
  <1>2. /\ \A i \in DOMAIN elf.relocs : i \in Nat
        /\ DOMAIN elf.relocs = 1 .. Len(elf.relocs) /\ Len(elf.relocs) \in Nat
    BY <1>1, FileFormat, SMT
  <1>3. CASE RegisterSymbols
    <2>1. /\ global_symbols' = Globals /\ local_symbols' = Locals /\ phase' = "relocate" /\ idx' = 1
          /\ elf' = elf /\ base' = base /\ wrapped_libs' = wrapped_libs
      BY <1>3 DEF RegisterSymbols, Globals, Locals, mapvars
    <2>2. Cached'
      BY <2>1, SameTables DEF Cached
    <2>3. Applied' = {}
      <3>1. \A j \in DOMAIN elf.relocs : ~(j < 1)
        BY <1>2, SMT
      <3> QED
        BY <2>1, <3>1 DEF Applied
    <2> QED
      BY <2>1, <2>2, <2>3 DEF BindInv, NamesHold, StoppedAt
  <1>4. CASE RelocateRelative
    <2>1. /\ ReachedReloc /\ Reloc.type = "RELATIVE" /\ Write(Reloc.at, Relative(Reloc)) /\ idx' = idx + 1
          /\ UNCHANGED <<elf, phase, base, wrapped_libs, global_symbols, local_symbols>>
      BY <1>4 DEF RelocateRelative, bindvars
    <2>2. Loaded /\ phase' = "relocate" /\ ~Binds(Reloc)
      BY <2>1 DEF ReachedReloc, Loaded, Binds
    <2>3. NamesHold'
      BY <2>1, <2>2, NamesWrite DEF BindInv
    <2>4. Cached'
      BY <2>1, <2>2, SameTables DEF BindInv, Cached
    <2> QED
      BY <2>2, <2>3, <2>4 DEF BindInv, StoppedAt
  <1>5. CASE RelocateSymbol
    <2> DEFINE name == SymbolName(Reloc)
    <2>1. /\ ReachedReloc /\ Binds(Reloc) /\ idx' = idx + 1
          /\ UNCHANGED <<elf, phase, base, wrapped_libs, local_symbols>>
          /\ \/ name \in DOMAIN local_symbols /\ Write(Reloc.at, local_symbols[name]) /\ UNCHANGED global_symbols
             \/ /\ name \notin DOMAIN local_symbols /\ Known(name) /\ Write(Reloc.at, get_symbol(name))
                /\ global_symbols' = [n \in DOMAIN global_symbols \cup {name} |->
                                        IF n = name THEN get_symbol(name) ELSE global_symbols[n]]
      BY <1>5 DEF RelocateSymbol
    <2>2. Loaded /\ phase' = "relocate" /\ Cached /\ NamesHold
      BY <2>1 DEF ReachedReloc, Loaded, BindInv
    <2>3. Cached'
      <3> HIDE DEF name
      <3>1. CASE UNCHANGED global_symbols
        BY <2>1, <2>2, <3>1, SameTables DEF Cached
      <3>2. CASE /\ Known(name)
                 /\ global_symbols' = [n \in DOMAIN global_symbols \cup {name} |->
                                        IF n = name THEN get_symbol(name) ELSE global_symbols[n]]
        <4>1. name \in DOMAIN Globals => get_symbol(name) = Globals[name]
          BY <2>2 DEF Cached, get_symbol
        <4>2. name \notin DOMAIN Globals => Providers(name) # {} /\ get_symbol(name) = FromLibrary(name)
          BY <2>2, <3>2 DEF Cached, get_symbol, Known
        <4>3. /\ \A n \in DOMAIN Globals : n \in DOMAIN global_symbols' /\ global_symbols'[n] = Globals[n]
              /\ \A n \in DOMAIN global_symbols' \ DOMAIN Globals : /\ Providers(n) # {}
                                                                   /\ global_symbols'[n] = FromLibrary(n)
          BY <2>2, <3>2, <4>1, <4>2 DEF Cached
        <4> QED
          BY <2>1, <2>2, <4>3, SameTables DEF Cached
      <3> QED
        BY <2>1, <3>1, <3>2
    <2>4. NamesHold'
      <3>1. CASE name \in DOMAIN local_symbols /\ Write(Reloc.at, local_symbols[name])
        BY <2>1, <2>2, <3>1, Lookup, NamesWrite
      <3>2. CASE name \notin DOMAIN local_symbols /\ Known(name) /\ Write(Reloc.at, get_symbol(name))
        BY <2>1, <2>2, <3>2, Lookup, NamesWrite
      <3> QED
        BY <2>1, <3>1, <3>2
    <2> QED
      BY <2>2, <2>3, <2>4 DEF BindInv, StoppedAt
  <1>6. CASE SkipWeak
    <2>1. /\ ReachedReloc /\ ~Binds(Reloc) /\ idx' = idx + 1
          /\ UNCHANGED <<elf, phase, base, memory, wrapped_libs, global_symbols, local_symbols>>
      BY <1>6 DEF SkipWeak, mapvars, bindvars
    <2>2. Loaded /\ phase' = "relocate" /\ Cached /\ NamesHold
      BY <2>1 DEF ReachedReloc, Loaded, BindInv
    <2>3. Cached'
      BY <2>1, <2>2, SameTables DEF Cached
    <2>4. \A i : i \in Applied' => i \in Applied \/ i = idx
      BY <2>1, OneApplied
    <2>5. \A r : Binds(r)' = Binds(r) /\ SymbolName(r)' = SymbolName(r)
      BY <2>1 DEF Binds, SymbolName
    <2>6. NamesHold'
      BY <2>1, <2>2, <2>4, <2>5, SameTables DEF NamesHold, Reloc
    <2> QED
      BY <2>2, <2>3, <2>6 DEF BindInv, StoppedAt
  <1>7. CASE RelocationFails \/ CollectInit \/ CallInit \/ CallEntry \/ UNCHANGED vars
    <2>1. UNCHANGED <<elf, base, memory, wrapped_libs, global_symbols, local_symbols>>
      BY <1>7 DEF RelocationFails, CollectInit, CallInit, CallEntry, vars, mapvars, bindvars
    <2>2. \/ /\ phase = "relocate" /\ phase' = "not_bound" /\ idx' = idx /\ idx \in DOMAIN elf.relocs
             /\ Reloc.type \notin Relocs \/ (Binds(Reloc) /\ SymbolName(Reloc) \notin DOMAIN local_symbols
                                             /\ ~Known(SymbolName(Reloc)))
          \/ phase = "relocate" /\ phase' = "init" /\ idx > Len(elf.relocs)
          \/ phase = "init" /\ phase' \in {"init", "entered", "no_entry"}
          \/ phase' = phase /\ idx' = idx
      BY <1>7 DEF RelocationFails, ReachedReloc, CollectInit, CallInit, CallEntry, vars
    <2>3. \A r : Binds(r)' = Binds(r) /\ SymbolName(r)' = SymbolName(r)
      BY <2>1 DEF Binds, SymbolName
    <2>4. \A n : Known(n)' = Known(n)
      BY <2>1, SameTables DEF Known
    <2> SUFFICES ASSUME Loaded' PROVE Cached' /\ NamesHold' /\ StoppedAt'
      BY DEF BindInv
    <2>5. Loaded /\ Cached /\ NamesHold /\ StoppedAt
      BY <2>2 DEF Loaded, BindInv
    <2>6. Cached'
      BY <2>1, <2>5, SameTables DEF Cached
    <2>7. Applied' \subseteq Applied
      <3>1. idx > Len(elf.relocs) => \A i \in DOMAIN elf.relocs : i < idx
        BY <1>1, <1>2, SMT
      <3> QED
        BY <2>1, <2>2, <2>5, <3>1 DEF Applied, Loaded
    <2>8. NamesHold'
      BY <2>1, <2>3, <2>5, <2>7, SameTables DEF NamesHold
    <2>9. StoppedAt'
      BY <2>1, <2>2, <2>3, <2>4, <2>5 DEF StoppedAt, Reloc
    <2> QED
      BY <2>6, <2>8, <2>9
  <1>8. CASE ~Link /\ ~Start /\ ~UNCHANGED vars
    <2>1. phase' \notin {"relocate", "init", "entered", "not_bound", "no_entry"}
      BY <1>8 DEF Next, Map, SkipNeeded, OpenNeeded, NeededFails, AllNeeded, ReachedNeeded, Reserve, ReserveAt,
         NothingReserved, LoadSegment, SegmentFails, ClearFaults, OthersMap, MoreSegments
    <2> QED
      BY <2>1 DEF BindInv, Loaded
  <1> QED
    BY <1>3, <1>4, <1>5, <1>6, <1>7, <1>8 DEF Link, Start

(* The tables have one address for a name, its only entry's.               *)
LEMMA OneEntry ==
    ASSUME elf \in Elfs, NEW c \in DOMAIN elf.symbols, NEW binds \in {{"GLOBAL", "WEAK"}, {"LOCAL"}},
           Registered(c, binds)
    PROVE  /\ elf.symbols[c].name \in DOMAIN Table(binds)
           /\ Table(binds)[elf.symbols[c].name] = Address(base + elf.symbols[c].value)
  <1> DEFINE n == elf.symbols[c].name
             entries == {k \in DOMAIN elf.symbols : Registered(k, binds)}
             named == {k \in entries : elf.symbols[k].name = n}
  <1>1. c \in Nat
    BY SymbolFormat, SMT
  <1>2. \A k \in named : k = c
    <2> SUFFICES ASSUME NEW k \in named PROVE k = c
      OBVIOUS
    <2>1. elf.symbols[k].bind \in binds /\ elf.symbols[c].bind \in binds /\ k \in DOMAIN elf.symbols
      BY DEF Registered
    <2>2. elf.symbols[k].bind = "LOCAL" <=> elf.symbols[c].bind = "LOCAL"
      BY <2>1
    <2> QED
      BY <2>1, <2>2, SymbolFormat
  <1>3. c \in named
    OBVIOUS
  <1>4. Max(named) = c
    <2>1. \A x \in named : (\A y \in named : y <= x) => x = c
      BY <1>2
    <2>2. \A y \in named : y <= c
      <3>1. c <= c
        BY <1>1, SMT
      <3> QED
        BY <1>2, <3>1
    <2> HIDE DEF named
    <2> QED
      BY <1>3, <2>1, <2>2 DEF Max
  <1>5. n \in {elf.symbols[k].name : k \in entries}
    BY <1>3
  <1> QED
    BY <1>4, <1>5 DEF Table

LEMMA EntryOf ==
    ASSUME NEW binds, NEW n \in DOMAIN Table(binds)
    PROVE  \E k \in DOMAIN elf.symbols : Registered(k, binds) /\ elf.symbols[k].name = n
  BY DEF Table

(* Each wrapped library is one that the file needs.                        *)
LEMMA WrappedNeeded ==
    ASSUME NeedInv, NEW m \in DOMAIN wrapped_libs
    PROVE  \E i \in Libraries : /\ elf.needed[i] = wrapped_libs[m].name /\ Library(i) = wrapped_libs[m].handle
                                /\ \A a \in Needing : a < i => Covered(a, m)
  <1>1. OpenedFor(m)
    BY DEF NeedInv
  <1>2. PICK i \in Reached : elf.needed[i] = wrapped_libs[m].name /\ \A a \in Needing : a < i => Covered(a, m)
    BY <1>1 DEF OpenedFor
  <1>3. i \in Libraries /\ Library(i) = wrapped_libs[m].handle
    BY <1>1, <1>2 DEF OpenedFor, Reached, Libraries, Library
  <1> QED
    BY <1>2, <1>3

(* A library that provides a name exports it, or one that it needs does.   *)
LEMMA ProviderExports ==
    ASSUME NeedInv, NEW name, NEW m \in Providers(name)
    PROVE  /\ m \in DOMAIN wrapped_libs
           /\ Exported(name)
           /\ wrapped_libs[m].handle = wrapped_libs[m].info => Exports(wrapped_libs[m].handle, name)
  <1> DEFINE lib == wrapped_libs[m]
  <1>1. m \in DOMAIN wrapped_libs /\ HasSymbol(lib, name)
    BY DEF Providers
  <1>2. PICK i \in Libraries : elf.needed[i] = lib.name /\ Library(i) = lib.handle
    BY <1>1, WrappedNeeded
  <1>3. lib.name \in DOMAIN Opens /\ lib.handle = Opens[lib.name]
    BY <1>1 DEF NeedInv, OpenedFor
  <1> HIDE DEF lib
  <1>4. CASE IsPrefix(LibC, lib.name) /\ name \in Overrides
    <2>1. Exports(lib.handle, name)
      BY <1>3, <1>4, OverrideAssumption DEF Exports
    <2> QED
      BY <1>1, <1>2, <2>1 DEF Exported, Direct, lib
  <1>5. CASE Dlsym(lib.handle, name) /\ name \in DOMAIN Host[lib.info].symbols
    <2>1. PICK p \in {lib.handle} \cup ToSet(Host[lib.handle].needs) : name \in DOMAIN Host[p].symbols
      BY <1>5 DEF Dlsym
    <2>2. CASE p = lib.handle
      BY <1>1, <1>2, <2>1, <2>2 DEF Exported, Direct, Exports, lib
    <2>3. CASE p \in ToSet(Host[lib.handle].needs)
      <3>1. PICK x \in DOMAIN Host[lib.handle].needs : Host[lib.handle].needs[x] = p
        BY <2>3 DEF ToSet
      <3>2. x \in NeedsOf(i, name)
        BY <1>2, <2>1, <3>1 DEF NeedsOf, Exports
      <3>3. i \in Behind(name)
        BY <1>2, <3>2 DEF Behind
      <3> QED
        BY <1>1, <1>5, <3>3 DEF Exported, Exports, lib
    <2> QED
      BY <2>1, <2>2, <2>3
  <1> QED
    BY <1>1, <1>4, <1>5 DEF HasSymbol

(* The first provider of a name is the library that ELF's search finds it  *)
(* in, unless the latter is not searched, or the former is mistaken for    *)
(* another: entries are in the order of the file's needs, and the one for  *)
(* the exporter cannot come later than that for any library behind it.     *)
LEMMA ExporterFirst ==
    ASSUME LInv, LibraryInv, NeedInv, NEW s, Imported(s), ~Unsearched(s), ~Preempted(s)
    PROVE  /\ Providers(s.name) # {}
           /\ FromLibrary(s.name) = IF s.name \in Overrides /\ IsLibC(Exporter(s.name)) THEN <<"override", s.name>>
                                    ELSE HostSymbol(Exporter(s.name), s.name)
  <1> DEFINE n == s.name
             P == Exporter(n)
  <1>1. PICK q \in DOMAIN wrapped_libs : /\ wrapped_libs[q].handle = P /\ wrapped_libs[q].info = P
                                         /\ Host[P].symbols[n].bind \in {"GLOBAL", "WEAK"}
    BY DEF Unsearched
  <1>2. Exported(n) /\ elf \in Elfs
    BY DEF Imported, LInv, Typed
  <1>3. Libraries \in SUBSET Nat /\ \A path \in DOMAIN Host : DOMAIN Host[path].needs \in SUBSET Nat
    <2>1. \A k \in DOMAIN elf.needed : k \in Nat
      BY <1>2, SymbolFormat, SMT
    <2>2. \A path \in DOMAIN Host : \A k \in DOMAIN Host[path].needs : k \in Nat
      BY HostAssumption, SMT
    <2> QED
      BY <2>1, <2>2 DEF Libraries, Needing
  <1>4. Direct(n) # {}
    <2> SUFFICES ASSUME Direct(n) = {} PROVE FALSE
      OBVIOUS
    <2> DEFINE k == Min(Behind(n))
               x == Min(NeedsOf(k, n))
    <2>1. k \in Behind(n)
      <3>1. Behind(n) # {} /\ Behind(n) \in SUBSET Nat
        BY <1>2, <1>3 DEF Exported, Behind
      <3> QED
        BY <3>1, Lowest
    <2>2. P = Host[Library(k)].needs[x]
      BY DEF Exporter
    <2> HIDE DEF k
    <2>3. x \in NeedsOf(k, n)
      <3>1. NeedsOf(k, n) # {} /\ k \in Libraries
        BY <2>1 DEF Behind
      <3>2. Library(k) \in DOMAIN Host
        BY <3>1, HostAssumption DEF Libraries, Library
      <3>3. NeedsOf(k, n) \in SUBSET Nat
        BY <1>3, <3>2 DEF NeedsOf
      <3> QED
        BY <3>1, <3>3, Lowest
    <2>4. Exports(P, n)
      BY <2>2, <2>3 DEF NeedsOf
    <2>5. PICK i \in Libraries : Library(i) = wrapped_libs[q].handle
      BY WrappedNeeded
    <2> QED
      BY <1>1, <2>4, <2>5 DEF Direct
  <1> DEFINE k == Min(Direct(n))
  <1>5. k \in Direct(n) /\ k \in Nat /\ (\A y \in Direct(n) : k <= y) /\ P = Library(k)
    <2>1. Direct(n) \in SUBSET Nat
      BY <1>3 DEF Direct
    <2> QED
      BY <1>4, <2>1, Lowest DEF Exporter
  <1>6. k \in Libraries /\ k \in Needing /\ Exports(P, n)
    BY <1>5 DEF Direct, Libraries
  <1> HIDE DEF P, k
  <1>7. q \in Providers(n)
    BY <1>1, <1>6 DEF Providers, HasSymbol, Dlsym, Exports
  <1>8. /\ wrapped_libs \in Seq([name : Names, handle : Paths, info : Paths])
        /\ \A b \in DOMAIN wrapped_libs : b \in Nat
    <2>1. wrapped_libs \in Seq([name : Names, handle : Paths, info : Paths])
      BY DEF LibraryInv
    <2> QED
      BY <2>1, SMT
  <1> DEFINE m == Min(Providers(n))
  <1>9. m \in Providers(n) /\ m \in Nat /\ q \in Nat /\ m <= q
    <2>1. Providers(n) \in SUBSET Nat
      BY <1>8 DEF Providers
    <2> QED
      BY <1>7, <2>1, Lowest
  <1>10. wrapped_libs[m].handle = wrapped_libs[m].info
    BY <1>7 DEF Preempted
  <1>11. FromLibrary(n) = WrappedSymbol(wrapped_libs[m], n)
    BY DEF FromLibrary
  <1> HIDE DEF m
  <1>12. m \in DOMAIN wrapped_libs /\ Exports(wrapped_libs[m].handle, n)
    BY <1>9, <1>10, ProviderExports
  <1>13. PICK i \in Libraries : /\ elf.needed[i] = wrapped_libs[m].name /\ Library(i) = wrapped_libs[m].handle
                                /\ \A a \in Needing : a < i => Covered(a, m)
    BY <1>12, WrappedNeeded
  <1>14. i \in Direct(n) /\ i \in Nat
    BY <1>3, <1>12, <1>13 DEF Direct
  <1>15. wrapped_libs[q].name = elf.needed[k]
    <2>1. wrapped_libs[q].name \in DOMAIN Opens /\ Opens[wrapped_libs[q].name] = P
      BY <1>1 DEF NeedInv, OpenedFor
    <2>2. elf.needed[k] \in DOMAIN Opens /\ Opens[elf.needed[k]] = P
      BY <1>5, <1>6 DEF Libraries, Library
    <2> QED
      BY <2>1, <2>2, HostAssumption DEF IsInjective
  <1>16. ~(k < i)
    <2> SUFFICES ASSUME k < i PROVE FALSE
      OBVIOUS
    <2>1. PICK b \in DOMAIN wrapped_libs : b < m /\ EndsWith(wrapped_libs[b].info, elf.needed[k])
      BY <1>6, <1>13 DEF Covered
    <2>2. b \in Nat
      BY <1>8
    <2>3. b < q
      BY <1>9, <2>1, <2>2, SMT
    <2> QED
      BY <1>15, <2>1, <2>3 DEF NeedInv, OpenedFor
  <1>17. k = i
    BY <1>5, <1>14, <1>16, SMT
  <1>18. wrapped_libs[m].info = P
    BY <1>5, <1>10, <1>13, <1>17
  <1>19. IsPrefix(LibC, wrapped_libs[m].name) <=> IsLibC(P)
    <2>1. wrapped_libs[m].name \in DOMAIN Opens /\ Opens[wrapped_libs[m].name] = P
      BY <1>10, <1>12, <1>18 DEF NeedInv, OpenedFor
    <2> QED
      BY <2>1, HostAssumption DEF IsLibC, IsInjective
  <1>20. FromLibrary(n) = IF n \in Overrides /\ IsLibC(P) THEN <<"override", n>> ELSE HostSymbol(P, n)
    BY <1>11, <1>18, <1>19 DEF WrappedSymbol
  <1> QED
    BY <1>7, <1>20 DEF P

(* What the loader finds for a symbol is what ELF's search does.           *)
LEMMA FoundIsDefinition ==
    ASSUME LInv, LibraryInv, NeedInv, Loaded, Cached, NEW c \in DOMAIN elf.symbols,
           elf.symbols[c].bind # "WEAK", Resolves(elf.symbols[c]), ~Misbound(elf.symbols[c])
    PROVE  Findable(elf.symbols[c].name) /\ Found(elf.symbols[c].name) = Definition(elf.symbols[c])
  <1> DEFINE s == elf.symbols[c]
  <1>1. elf \in Elfs /\ s \in SymbolRecord
    <2>1. elf \in Elfs
      BY DEF LInv, Typed
    <2> QED
      BY <2>1, SymbolFormat, SMT
  <1>2. /\ ~Unregistered(s) /\ ~Unsearched(s) /\ ~Preempted(s) /\ ~Shadowed(s)
    BY DEF Misbound
  <1>3. s.bind \in {"LOCAL", "GLOBAL", "UNIQUE"} /\ s.default \in BOOLEAN /\ s.defined \in BOOLEAN
    BY <1>1 DEF SymbolRecord
  <1>4. \A k \in DOMAIN elf.symbols : elf.symbols[k].name = s.name /\ elf.symbols[k].bind # "LOCAL" /\ s.bind # "LOCAL" => k = c
    BY <1>1, SymbolFormat
  <1>5. CASE s.defined /\ s.bind = "LOCAL"
    <2>1. Registered(c, {"LOCAL"})
      BY <1>2, <1>5 DEF Registered, Unregistered
    <2>2. s.name \in DOMAIN Locals /\ Locals[s.name] = Address(base + s.value)
      BY <1>1, <2>1, OneEntry DEF Locals
    <2> QED
      BY <1>5, <2>2 DEF Findable, Found, Definition, Private
  <1>6. CASE s.defined /\ s.bind # "LOCAL"
    <2>1. s.default /\ s.bind = "GLOBAL"
      BY <1>2, <1>3, <1>6 DEF Unregistered
    <2>2. Registered(c, {"GLOBAL", "WEAK"})
      BY <1>6, <2>1 DEF Registered
    <2>3. s.name \in DOMAIN Globals /\ Globals[s.name] = Address(base + s.value)
      BY <1>1, <2>2, OneEntry DEF Globals
    <2>4. s.name \notin DOMAIN Locals
      BY <1>2, <2>1 DEF Shadowed, Cached
    <2>5. Own(s.name) = {c}
      BY <1>4, <1>6, <2>1 DEF Own
    <2>6. (CHOOSE k \in Own(s.name) : TRUE) = c
      BY <2>5
    <2>7. ~Private(s) /\ Own(s.name) # {}
      BY <2>1, <2>5 DEF Private
    <2>8. Definition(s) = Address(base + s.value)
      BY <2>6, <2>7 DEF Definition
    <2> QED
      BY <2>3, <2>4, <2>8 DEF Findable, Found
  <1>7. CASE ~s.defined
    <2>1. s.bind # "LOCAL"
      BY <1>1, <1>7, SymbolFormat
    <2>2. Own(s.name) = {}
      BY <1>4, <1>7, <2>1 DEF Own
    <2>3. Imported(s) /\ ~Private(s)
      BY <1>7, <2>2 DEF Imported, Resolves, Private
    <2>4. s.name \notin DOMAIN Locals
      BY <1>2, <1>3, <2>1 DEF Shadowed, Cached
    <2>5. s.name \notin DOMAIN Globals
      <3> SUFFICES ASSUME s.name \in DOMAIN Globals PROVE FALSE
        OBVIOUS
      <3>1. PICK k \in DOMAIN elf.symbols : Registered(k, {"GLOBAL", "WEAK"}) /\ elf.symbols[k].name = s.name
        BY EntryOf DEF Globals
      <3>2. elf.symbols[k].bind # "LOCAL" /\ elf.symbols[k].defined
        BY <3>1 DEF Registered
      <3> QED
        BY <1>4, <1>7, <2>1, <3>1, <3>2
    <2>6. /\ Providers(s.name) # {}
          /\ FromLibrary(s.name) = IF s.name \in Overrides /\ IsLibC(Exporter(s.name)) THEN <<"override", s.name>>
                                   ELSE HostSymbol(Exporter(s.name), s.name)
      BY <1>2, <2>3, ExporterFirst
    <2>7. Definition(s) = FromLibrary(s.name)
      BY <2>2, <2>3, <2>6 DEF Definition
    <2> QED
      BY <2>4, <2>5, <2>6, <2>7 DEF Findable, Found
  <1> QED
    BY <1>5, <1>6, <1>7

(* A name that the loader finds is defined somewhere.                      *)
LEMMA FindableResolves ==
    ASSUME LInv, NeedInv, Cached, NEW c \in DOMAIN elf.symbols, ~Shadowed(elf.symbols[c]),
           elf.symbols[c].bind # "WEAK", Findable(elf.symbols[c].name)
    PROVE  Resolves(elf.symbols[c])
  <1> DEFINE s == elf.symbols[c]
  <1>1. elf \in Elfs
    BY DEF LInv, Typed
  <1>2. CASE s.name \in DOMAIN Locals
    <2>1. s.bind = "LOCAL"
      BY <1>2 DEF Shadowed, Cached
    <2> QED
      BY <1>1, <2>1, SymbolFormat DEF Resolves
  <1>3. CASE s.name \in DOMAIN Globals
    <2>1. PICK k \in DOMAIN elf.symbols : Registered(k, {"GLOBAL", "WEAK"}) /\ elf.symbols[k].name = s.name
      BY <1>3, EntryOf DEF Globals
    <2>2. k \in Own(s.name)
      BY <2>1 DEF Registered, Own
    <2> QED
      BY <2>2 DEF Resolves
  <1>4. CASE Providers(s.name) # {}
    BY <1>4, ProviderExports DEF Resolves
  <1> QED
    BY <1>2, <1>3, <1>4 DEF Findable

LEMMA BoundFollows == LInv /\ LibraryInv /\ NeedInv /\ BindInv => SlotsBound
  <1> SUFFICES ASSUME LInv, LibraryInv, NeedInv, BindInv PROVE SlotsBound
    OBVIOUS
  <1>1. elf \in Elfs
    BY DEF LInv, Typed
  <1>2. ASSUME phase \in {"init", "entered"}, NEW j \in SymbolSlots, ~Misbound(SymbolOf(elf.relocs[j]))
        PROVE  Bound(j)
    <2> DEFINE r == elf.relocs[j]
               c == r.symbol
               s == elf.symbols[c]
    <2>1. j \in DOMAIN elf.relocs /\ r.type \in {"GLOB_DAT", "JUMP_SLOT"} /\ c \in DOMAIN elf.symbols /\ SymbolOf(r) = s
      BY <1>1, SymbolFormat DEF SymbolSlots, SymbolOf
    <2>2. Loaded /\ Cached /\ NamesHold /\ j \in Applied
      BY <1>2, <2>1 DEF BindInv, Loaded, Applied
    <2>3. CASE s.bind = "WEAK"
      <3>1. ~Resolves(s)
        BY <1>2, <2>1, <2>3 DEF Misbound, SkipsWeak
      <3> QED
        BY <2>1, <2>3, <3>1 DEF Bound
    <2>4. CASE s.bind # "WEAK"
      <3>1. Binds(r) /\ SymbolName(r) = s.name
        BY <2>1, <2>4 DEF Binds, SymbolName
      <3>2. Findable(s.name) /\ memory[base + r.at] = Found(s.name)
        BY <2>2, <3>1 DEF NamesHold
      <3>3. ~Shadowed(s) /\ ~Misbound(s)
        BY <1>2, <2>1 DEF Misbound
      <3> HIDE DEF r, c
      <3>4. Resolves(s)
        BY <2>1, <2>2, <2>4, <3>2, <3>3, FindableResolves
      <3>5. Found(s.name) = Definition(s)
        BY <2>1, <2>2, <2>4, <3>3, <3>4, FoundIsDefinition
      <3> QED
        BY <2>1, <3>2, <3>4, <3>5 DEF Bound, r
    <2> QED
      BY <2>3, <2>4
  <1>3. ASSUME phase = "not_bound", Reloc.type \in Relocs, ~Misbound(SymbolOf(Reloc))
        PROVE  ~Resolves(SymbolOf(Reloc))
    <2> DEFINE c == Reloc.symbol
               s == elf.symbols[c]
    <2>1. /\ Loaded /\ Cached /\ idx \in DOMAIN elf.relocs
          /\ Binds(Reloc) /\ SymbolName(Reloc) \notin DOMAIN local_symbols /\ ~Known(SymbolName(Reloc))
      BY <1>3 DEF BindInv, Loaded, StoppedAt
    <2>2. /\ c \in DOMAIN elf.symbols /\ s.bind # "WEAK" /\ SymbolName(Reloc) = s.name /\ SymbolOf(Reloc) = s
      BY <1>1, <2>1, SymbolFormat DEF Binds, SymbolName, SymbolOf, Reloc
    <2> HIDE DEF c
    <2>3. ~Findable(s.name)
      BY <2>1, <2>2 DEF Findable, Cached, Known
    <2> QED
      BY <1>3, <2>1, <2>2, <2>3, FoundIsDefinition
  <1> QED
    BY <1>2, <1>3 DEF SlotsBound

LEMMA BindAlways == Spec => [](LInv /\ LibraryInv /\ NeedInv /\ BindInv)
  <1>1. Init => LInv /\ ImageInv /\ LibraryInv /\ NeedInv /\ BindInv
    BY StartsRight, ImageStarts, LibrariesStart, NeedStarts, BindStarts
  <1>2. LInv /\ ImageInv /\ LibraryInv /\ NeedInv /\ BindInv /\ [Next]_vars
        => LInv' /\ ImageInv' /\ LibraryInv' /\ NeedInv' /\ BindInv'
    BY StepsKeep, ImageSteps, LibrariesStep, NeedSteps, BindSteps
  <1> QED
    BY <1>1, <1>2, PTL DEF Spec

------------------------------------------------------------------------------
(* Theorems *)

(* For every page size, file and state of the address space: the range     *)
(* generate_suitable_base_addr finds free has room for all that            *)
(* load_segment maps, unless the file is laid out otherwise than it        *)
(* expects or somebody else mapped a page of the range in between.         *)
THEOREM ReservationSuffices == Spec => []MappingAborts
  <1>1. LInv => MappingAborts
    BY DEF LInv
  <1> QED
    BY <1>1, Always, PTL

(* For every page size and file, load_segment never replaces a page that   *)
(* somebody else mapped, its second mmap with MAP_FIXED included.          *)
THEOREM OthersNeverReplaced == Spec => OthersKept
  <1>1. ASSUME LInv, [Next]_vars, NEW p \in Pages, owner[p] = "others"
        PROVE  owner'[p] = "others"
    <2>t. owner \in [Pages -> {"free", "self", "others"}]
      BY <1>1 DEF LInv, Typed
    <2>1. CASE LoadSegment
      <3>1. p \notin MapsPages(base, Segment)
        BY <1>1, <2>1 DEF LoadSegment, Mappable, Free, MapsPages
      <3> QED
        BY <1>1, <2>1, <3>1 DEF LoadSegment
    <2>2. CASE OthersMap
      BY <1>1, <2>2, <2>t DEF OthersMap
    <2>3. CASE ~LoadSegment /\ ~OthersMap
      <3>1. owner' = owner
        BY <1>1, <2>3 DEF Next, Map, vars, mapvars, SkipNeeded, OpenNeeded, NeededFails, AllNeeded, Reserve,
           ReserveAt, NothingReserved, SegmentFails, ClearFaults, Link, RegisterSymbols, RelocateRelative,
           RelocateSymbol, SkipWeak, RelocationFails, Start, CollectInit, CallInit, CallEntry
      <3> QED
        BY <1>1, <3>1
    <2> QED
      BY <2>1, <2>2, <2>3
  <1>2. LInv /\ [Next]_vars => [\A p \in Pages : owner[p] = "others" => owner'[p] = "others"]_vars
    BY <1>1
  <1> QED
    BY <1>2, Always, PTL DEF Spec, OthersKept

(* For every page size and file in the ELF format: once all segments are   *)
(* mapped, every byte of each segment is the file's, or zero behind the    *)
(* file's part; only slots of relocations hold anything else.              *)
THEOREM ImageIsExact == Spec => []ImageExact
  <1>1. ASSUME LInv, ImageInv PROVE ImageExact
    <2> SUFFICES ASSUME Loaded, NEW s \in Segments, NEW a \in BytesOf(s) \ Relocated
                 PROVE  memory[a] = IF a < file_load_end(base, s) THEN File(s.offset + a - (base + s.address)) ELSE Zero
      BY DEF ImageExact
    <2>1. elf \in Elfs /\ base \in Nat
      BY <1>1, SMT DEF LInv, Typed, ImageInv, Position, Addrs
    <2>2. PICK j \in DOMAIN elf.segments : s = elf.segments[j]
      BY DEF Segments
    <2>3. j \in Done
      BY AllDone
    <2>4. BytesOf(s) \subseteq BytesMapped(base, s)
      BY <2>1, <2>2, OwnBytes
    <2>5. a \notin Written
      <3>1. Applied \subseteq {i \in DOMAIN elf.relocs : phase # "relocate" \/ i < idx}
        BY DEF Applied
      <3> QED
        BY <3>1 DEF Relocated, Written
    <2>6. memory[a] = LoadedByte(base, s, a)
      BY <1>1, <2>2, <2>3, <2>4, <2>5 DEF ImageInv, Content, Bytes
    <2>7. /\ map_offset(base, s) \in Nat /\ map_offset(base, s) % PageSize = 0
          /\ aligned_addr(base, s) % PageSize = 0
      BY <1>1, <2>2, <2>3 DEF ImageInv, MappedWhole
    <2>8. LoadedByte(base, s, a) = IF a < file_load_end(base, s) THEN File(s.offset + a - (base + s.address)) ELSE Zero
      BY <2>1, <2>2, <2>4, <2>7, SegmentBytes
    <2> QED
      BY <2>6, <2>8
  <1> QED
    BY <1>1, ImageAlways, PTL

(* For every page size and file in the ELF format: what define_exec_range  *)
(* is told is whole pages, each of them mapped from the file or cleared,   *)
(* and readable unless their segment is execute-only; every executable     *)
(* segment is among them and no segment that is only data.                 *)
THEOREM RangesAreWhole == Spec => []RangesWhole
  <1>1. ASSUME LInv, ImageInv PROVE RangesWhole
    <2>1. elf \in Elfs /\ base \in Nat
      BY <1>1, SMT DEF LInv, Typed, ImageInv, Position, Addrs
    <2>2. ASSUME NEW k \in DOMAIN ranges
          PROVE  \E j \in Done : /\ elf.segments[j].x /\ ranges[k] = ExecRange(base, elf.segments[j])
                                 /\ ranges[k][1] = aligned_addr(base, elf.segments[j])
                                 /\ ranges[k][2] = mapping_end(base, elf.segments[j])
                                 /\ Bytes(j) = ranges[k][1] .. ranges[k][2] - 1
      <3>1. PICK j \in Done : elf.segments[j].x /\ ranges[k] = ExecRange(base, elf.segments[j])
        BY <1>1 DEF ImageInv, RangesOfSegments
      <3> QED
        BY <3>1 DEF ExecRange, Bytes, BytesMapped
    <2>3. ASSUME NEW k \in DOMAIN ranges
          PROVE  \E s \in Segments :
                   /\ s.x /\ ranges[k] = ExecRange(base, s)
                   /\ ranges[k][1] % PageSize = 0 /\ ranges[k][2] % PageSize = 0
                   /\ \A a \in ranges[k][1] .. ranges[k][2] - 1 :
                        /\ a \in DOMAIN memory /\ memory[a] # Beyond
                        /\ a \div PageSize \in readable <=> ~ExecuteOnly(s)
      <3>1. PICK j \in Done : /\ elf.segments[j].x /\ ranges[k] = ExecRange(base, elf.segments[j])
                              /\ ranges[k][1] = aligned_addr(base, elf.segments[j])
                              /\ ranges[k][2] = mapping_end(base, elf.segments[j])
                              /\ Bytes(j) = ranges[k][1] .. ranges[k][2] - 1
        BY <2>2
      <3> DEFINE s == elf.segments[j]
                 from == aligned_addr(base, s)
                 to == mapping_end(base, s)
      <3>2. j \in DOMAIN elf.segments /\ s \in Segments
        BY DEF Done, Segments
      <3>3. from \in Nat /\ to \in Nat /\ to % PageSize = 0
        BY <2>1, <3>2, SegmentPlace
      <3>4. from % PageSize = 0 /\ to <= Space
        BY <1>1 DEF ImageInv, MappedWhole
      <3>5. ASSUME NEW a \in Bytes(j)
            PROVE  /\ a \in DOMAIN memory /\ memory[a] # Beyond
                   /\ a \div PageSize \in readable <=> Legible(s)
        <4>1. Bytes(j) = from .. to - 1
          BY <3>1
        <4>2. a \in Addrs
          <5> HIDE DEF from, to
          <5> QED
            BY <3>3, <3>4, <4>1, MappingAssumption, SMT DEF Addrs
        <4>3. a \div PageSize \in MapsPages(base, s)
          BY <3>3, <3>4, <4>1, <4>2, PageOfByte DEF MapsPages
        <4> QED
          BY <1>1, <4>3 DEF ImageInv, MappedWhole, NoneMissing, Rights
      <3>6. Legible(s) <=> ~ExecuteOnly(s)
        BY <3>1 DEF Legible, ExecuteOnly
      <3> QED
        BY <3>1, <3>2, <3>3, <3>4, <3>5, <3>6
    <2>4. ASSUME Loaded, NEW s \in Segments, NEW a \in BytesOf(s)
          PROVE  /\ s.x => \E k \in DOMAIN ranges : ranges[k][1] <= a /\ a < ranges[k][2]
                 /\ s.w /\ ~s.x => ~\E k \in DOMAIN ranges : ranges[k][1] <= a /\ a < ranges[k][2]
      <3>1. PICK j \in DOMAIN elf.segments : s = elf.segments[j]
        BY DEF Segments
      <3>2. j \in Done
        BY <2>4, AllDone
      <3>3. a \in Bytes(j)
        BY <2>1, <3>1, OwnBytes DEF Bytes
      <3>4. ASSUME NEW i \in Done
            PROVE  a \in Bytes(i) <=> aligned_addr(base, elf.segments[i]) <= a /\ a < mapping_end(base, elf.segments[i])
        <4> DEFINE from == aligned_addr(base, elf.segments[i])
                   to == mapping_end(base, elf.segments[i])
                   low == aligned_addr(base, s)
                   high == mapping_end(base, s)
        <4>1. from \in Nat /\ to \in Nat /\ low \in Nat /\ high \in Nat
          BY <2>1, <3>1, SegmentPlace DEF Done
        <4>2. Bytes(i) = from .. to - 1 /\ a \in low .. high - 1
          BY <3>1, <3>3 DEF Bytes, BytesMapped
        <4> HIDE DEF from, to, low, high
        <4>3. a \in from .. to - 1 <=> from <= a /\ a < to
          BY <4>1, <4>2, SMT
        <4> QED
          BY <4>2, <4>3 DEF from, to
      <3>5. ASSUME s.x PROVE \E k \in DOMAIN ranges : ranges[k][1] <= a /\ a < ranges[k][2]
        <4>1. PICK k \in DOMAIN ranges : ranges[k] = ExecRange(base, s)
          BY <1>1, <3>1, <3>2, <3>5 DEF ImageInv, RangesOfSegments
        <4>2. ranges[k][1] = aligned_addr(base, s) /\ ranges[k][2] = mapping_end(base, s)
          BY <4>1 DEF ExecRange
        <4> QED
          BY <3>1, <3>2, <3>3, <3>4, <4>2
      <3>6. ASSUME ~s.x, NEW k \in DOMAIN ranges, ranges[k][1] <= a, a < ranges[k][2] PROVE FALSE
        <4>1. PICK i \in Done : /\ elf.segments[i].x
                                /\ ranges[k][1] = aligned_addr(base, elf.segments[i])
                                /\ ranges[k][2] = mapping_end(base, elf.segments[i])
          BY <2>2
        <4>2. a \in Bytes(i)
          BY <3>4, <3>6, <4>1
        <4>3. i # j
          BY <3>1, <3>6, <4>1
        <4> QED
          BY <1>1, <3>2, <3>3, <4>2, <4>3 DEF ImageInv, Apart
      <3> QED
        BY <3>5, <3>6
    <2> QED
      BY <2>3, <2>4 DEF RangesWhole
  <1> QED
    BY <1>1, ImageAlways, PTL

(* For every page size and file in the ELF format, and whatever libraries  *)
(* its symbols are bound to: the guest runs its initialisers in the order  *)
(* of the file and then its entry, at the addresses they were moved to,    *)
(* and none before all of them have been relocated.                        *)
THEOREM StartsInOrder == Spec => []InitialisersInOrder
  <1>1. ASSUME LInv, ImageInv, StartInv PROVE InitialisersInOrder
    <2>1. elf \in Elfs
      BY <1>1 DEF LInv, Typed
    <2> DEFINE last == IF elf.entry # 0 THEN <<Address(base + elf.entry)>> ELSE << >>
               n == Len(Starters)
    <2>2. StartUp = Starters \o last
      BY DEF StartUp, Starters, First, Entries
    <2>3. PICK T : Starters \in Seq(T) /\ (elf.entry # 0 => Address(base + elf.entry) \in T)
      BY <2>1, StartersSequence
    <2>4. last \in Seq(T)
      <3> DEFINE f == Address(base + elf.entry)
      <3>1. (elf.entry # 0 /\ last = <<f>> /\ f \in T) \/ last = << >>
        BY <2>3
      <3>2. << >> \in Seq(T) /\ (f \in T => <<f>> \in Seq(T))
        BY AtMostOne, EmptySeq
      <3> HIDE DEF f, last
      <3> QED
        BY <3>1, <3>2, Zenon
    <2> HIDE DEF last
    <2>5. /\ Starters \o last \in Seq(T) /\ n \in Nat /\ Len(last) \in Nat
          /\ Len(Starters \o last) = n + Len(last)
          /\ \A k \in 1 .. n : (Starters \o last)[k] = Starters[k]
      <3>1. /\ Starters \o last \in Seq(T) /\ Len(Starters \o last) = n + Len(last)
            /\ \A k \in 1 .. n + Len(last) :
                 (Starters \o last)[k] = IF k <= n THEN Starters[k] ELSE last[k - n]
        BY <2>3, <2>4, ConcatProperties
      <3>2. n \in Nat /\ Len(last) \in Nat
        BY <2>3, <2>4
      <3> HIDE DEF n
      <3>3. \A k \in 1 .. n : k \in 1 .. n + Len(last) /\ k <= n
        BY <3>2, SMT
      <3> QED
        BY <3>1, <3>2, <3>3
    <2>6. ASSUME NEW i \in 0 .. n
          PROVE  IsPrefix(SubSeq(Starters, 1, i), Starters \o last)
      <3> DEFINE p == SubSeq(Starters, 1, i)
                 x == Starters \o last
      <3>1. \A k \in 1 .. i : k \in 1 .. n /\ k \in 1 .. Len(x) /\ i <= Len(x) /\ i \in Int
        <4>1. n \in Nat /\ Len(x) = n + Len(last) /\ Len(last) \in Nat
          BY <2>5
        <4> HIDE DEF n, x
        <4> QED
          BY <4>1, SMT
      <3>2. i \in Nat /\ i <= Len(x)
        <4>1. n \in Nat /\ Len(x) = n + Len(last) /\ Len(last) \in Nat
          BY <2>5
        <4> HIDE DEF n, x
        <4> QED
          BY <4>1, SMT
      <3>3. p \in Seq(T) /\ Len(p) = i /\ \A k \in 1 .. i : p[k] = Starters[k]
        <4>1. \A k \in 1 .. i : Starters[k] \in T
          BY <2>3, <3>1
        <4> QED
          BY <3>2, <4>1, SubSeqProperties, SMT
      <3> HIDE DEF p
      <3>4. SubSeq(p, 1, i) = p
        BY <3>3, WholeSubSeq
      <3> DEFINE q == SubSeq(x, 1, i)
      <3>5. q \in Seq(T) /\ Len(q) = i /\ \A k \in 1 .. i : q[k] = x[k]
        <4>1. \A k \in 1 .. i : x[k] \in T
          BY <2>5, <3>1
        <4> HIDE DEF x
        <4> QED
          BY <3>2, <4>1, SubSeqProperties, SMT
      <3>6. \A k \in 1 .. i : x[k] = Starters[k]
        BY <2>5, <3>1
      <3> HIDE DEF q
      <3>7. p = q
        BY <3>3, <3>5, <3>6, SeqEqual
      <3> QED
        BY <3>2, <3>3, <3>4, <3>7 DEF IsPrefix, p, q
    <2>7. IsPrefix(SubSeq(Starters, 1, 0), Starters \o last) /\ SubSeq(Starters, 1, 0) = << >>
      <3>1. 0 \in 0 .. n
        BY <2>5, SMT
      <3>2. SubSeq(Starters, 1, 0) = << >>
        BY SubSeqEmpty, SMT
      <3> QED
        BY <2>6, <3>1, <3>2
    <2>8. SubSeq(Starters, 1, n) = Starters /\ n \in 0 .. n
      BY <2>3, <2>5, WholeSubSeq, SMT
    <2>9. elf.entry # 0 => Starters \o last = Append(Starters, Address(base + elf.entry))
      BY <2>3, AppendIsConcat DEF last
    <2>10. elf.entry = 0 => Starters \o last = Starters
      BY <2>3, ConcatEmptySeq DEF last
    <2>11. IsPrefix(called, StartUp)
      <3>1. CASE phase \notin {"init", "entered", "no_entry"}
        BY <1>1, <2>2, <2>7, <3>1 DEF StartInv, CallsMade
      <3>2. CASE phase = "init"
        <4>1. idx \in 1 .. n + 1 /\ called = SubSeq(Starters, 1, idx - 1)
          BY <1>1, <3>2 DEF StartInv, CallsMade
        <4>2. idx - 1 \in 0 .. n
          <5>1. n \in Nat
            BY <2>5
          <5> HIDE DEF n
          <5> QED
            BY <4>1, <5>1, SMT
        <4> QED
          BY <2>2, <2>6, <4>1, <4>2
      <3>3. CASE phase = "no_entry"
        <4>1. called = Starters
          BY <1>1, <3>3 DEF StartInv, CallsMade
        <4> QED
          BY <2>2, <2>6, <2>8, <4>1
      <3>4. CASE phase = "entered"
        <4>1. called = Starters \o last
          BY <1>1, <2>9, <3>4 DEF StartInv, CallsMade
        <4>2. Len(called) <= Len(called)
          <5>1. Len(called) \in Nat
            BY <2>5, <4>1
          <5> QED
            BY <5>1, SMT
        <4> QED
          BY <2>2, <4>1, <4>2 DEF IsPrefix
      <3> QED
        BY <3>1, <3>2, <3>3, <3>4
    <2>12. phase = "entered" => called = StartUp
      BY <1>1, <2>2, <2>9 DEF StartInv, CallsMade
    <2>13. ASSUME called # << >>
           PROVE  /\ phase \in {"init", "entered", "no_entry"}
                  /\ \A r \in ToSet(elf.relocs) :
                       r.type = "RELATIVE" => memory[base + r.at] = Address(base + r.addend)
      <3>1. phase \in {"init", "entered", "no_entry"}
        BY <1>1, <2>13 DEF StartInv, CallsMade
      <3>2. Applied = DOMAIN elf.relocs
        BY <3>1 DEF Applied, Loaded
      <3> QED
        BY <1>1, <3>1, <3>2 DEF StartInv, SlotsHold, ToSet
    <2> QED
      BY <2>11, <2>12, <2>13 DEF InitialisersInOrder
  <1> QED
    BY <1>1, StartAlways, PTL

(* For every file in the ELF format and every graph of host libraries:     *)
(* each library that the file needs is opened and searched itself, unless  *)
(* another loaded object's path ends with its name, or it stands in for    *)
(* one whose name its own path ends with.                                  *)
THEOREM NeededAreServed == Spec => []NeededServed
  <1> QED
    BY BindAlways, ServedFollows, PTL

(* For every such file, host and order of relocations: when initialisers   *)
(* run, every slot holds the definition that ELF's breadth-first search    *)
(* finds, and a name stops the loader only if nobody defines it, but for   *)
(* the forms of Misbound.                                                  *)
THEOREM SlotsAreBound == Spec => []SlotsBound
  <1> QED
    BY BindAlways, BoundFollows, PTL

(* The loader's variables have their types; in particular its idea of which *)
(* bytes are the object's is the kernel's idea of whose the pages are, and  *)
(* every library it uses is loaded, once.                                   *)
THEOREM LoaderTypes == Spec => []LoaderTypeOK
  <1> DEFINE PhaseOK == phase \in {"needed", "reserve", "map", "relocate", "init", "entered"} \cup Failures
  <1>1. Init => PhaseOK
    BY DEF Init
  <1>2. PhaseOK /\ [Next]_vars => PhaseOK'
    <2> SUFFICES ASSUME PhaseOK, [Next]_vars PROVE PhaseOK'
      OBVIOUS
    <2>1. phase' = phase \/ phase' \in {"needed", "reserve", "map", "relocate", "init", "entered"} \cup Failures
      BY DEF Next, vars, SkipNeeded, OpenNeeded, NeededFails, AllNeeded, Map, Reserve, ReserveAt, NothingReserved,
         LoadSegment, SegmentFails, ClearFaults, OthersMap, Link, RegisterSymbols, RelocateRelative, RelocateSymbol,
         SkipWeak, RelocationFails, Start, CollectInit, CallInit, CallEntry, Failures
    <2> QED
      BY <2>1 DEF Failures
  <1>3. ASSUME LInv, ImageInv, LibraryInv, PhaseOK PROVE LoaderTypeOK
    <2>1. ASSUME NEW k \in DOMAIN ranges
          PROVE  ranges[k][1] >= 0 /\ ranges[k][1] < ranges[k][2] /\ ranges[k][2] <= Space
      <3>1. PICK j \in Done : ranges[k] = ExecRange(base, elf.segments[j])
        BY <1>3 DEF ImageInv, RangesOfSegments
      <3> DEFINE s == elf.segments[j]
                 from == aligned_addr(base, s)
                 to == mapping_end(base, s)
      <3>2. ranges[k][1] = from /\ ranges[k][2] = to /\ to <= Space
        BY <1>3, <3>1 DEF ExecRange, ImageInv, MappedWhole
      <3>3. elf \in Elfs /\ base \in Nat /\ j \in DOMAIN elf.segments
        BY <1>3, SMT DEF LInv, Typed, ImageInv, Position, Addrs, Done
      <3>4. /\ from \in Nat /\ to \in Nat /\ from <= base + s.address /\ base + s.address < segment_end(base, s)
            /\ segment_end(base, s) \in Nat /\ segment_end(base, s) <= to
        BY <3>3, SegmentPlace
      <3>5. base + s.address \in Nat
        BY <3>3, SegmentFacts, SMT DEF SegmentRecord
      <3> DEFINE x == base + s.address
                 y == segment_end(base, s)
      <3>6. from < to /\ from >= 0
        <4>1. from \in Nat /\ to \in Nat /\ x \in Nat /\ y \in Nat /\ from <= x /\ x < y /\ y <= to
          BY <3>4, <3>5
        <4> HIDE DEF from, to, x, y
        <4> QED
          BY <4>1, SMT
      <3> QED
        BY <3>2, <3>6
    <2>2. owner \in [Pages -> {"free", "self", "others"}]
      BY <1>3 DEF LInv, Typed
    <2>3. base \in Addrs /\ mapped \in 0 .. base /\ \A a \in Addrs : a \in DOMAIN memory <=> owner[a \div PageSize] = "self"
      BY <1>3 DEF ImageInv, Position, Owned
    <2>4. /\ \A k \in DOMAIN wrapped_libs : {wrapped_libs[k].handle, wrapped_libs[k].info} \subseteq ToSet(process)
          /\ IsInjective(process)
      BY <1>3 DEF LibraryInv
    <2> QED
      BY <1>3, <2>1, <2>2, <2>3, <2>4 DEF LoaderTypeOK
  <1>4. Spec => []PhaseOK
    <2> HIDE DEF PhaseOK
    <2> QED
      BY <1>1, <1>2, PTL DEF Spec
  <1> QED
    BY <1>3, <1>4, StartAlways, PTL
==============================================================================
