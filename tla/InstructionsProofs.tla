-------------------------- MODULE InstructionsProofs --------------------------
(***************************************************************************)
(* Proofs about translated data instructions, for every program, every set *)
(* of guest registers, every start state and every width of a byte.  The   *)
(* first half is about words, about what the x86-64 processor of NativeCode*)
(* does with one instruction and with a sequence, and about the sequences  *)
(* that translations are put together from (Operands); the second about    *)
(* what the translator emits for each instruction.                         *)
(***************************************************************************)
EXTENDS Instructions, SequenceTheorems, WellFoundedInduction, TLAPS

------------------------------------------------------------------------------
(* Words, one instruction, and sequences of instructions                    *)
------------------------------------------------------------------------------
(* Counting *)

(* What holds of 0, and of each number after one it holds of, holds of all. *)
LEMMA Counting ==
    ASSUME NEW P \in SUBSET Nat, 0 \in P, \A k \in P : k + 1 \in P
    PROVE  P = Nat
  <1> SUFFICES ASSUME Nat \ P # {} PROVE FALSE
    OBVIOUS
  <1> DEFINE T == Nat \ P
  <1>1. PICK x \in T : \A y \in T : ~(<<y, x>> \in OpToRel(<, Nat))
    <2>1. T \in SUBSET Nat /\ T # {}
      OBVIOUS
    <2> QED
      BY <2>1, NatLessThanWellFounded, WFMin, Zenon
  <1>2. \A y \in T : ~(y < x)
    BY <1>1 DEF OpToRel
  <1>3. x \in Nat /\ x # 0 /\ x \notin P
    BY <1>1
  <1>4. x - 1 \in Nat /\ x - 1 < x /\ (x - 1) + 1 = x
    BY <1>3, SMT
  <1>5. x - 1 \in P
    BY <1>2, <1>4, Zenon
  <1> QED
    BY <1>3, <1>4, <1>5

(* A function defined by recursion over 0 .. n is well defined, ... *)
LEMMA Recursion ==
    ASSUME NEW S, NEW base \in S, NEW n \in Nat, NEW step \in [1 .. n -> [S -> S]]
    PROVE  \E g \in [0 .. n -> S] : g[0] = base /\ \A k \in 1 .. n : g[k] = step[k][g[k - 1]]
  <1> DEFINE Upto(g, m) == g[0] = base /\ \A k \in 1 .. m : g[k] = step[k][g[k - 1]]
             P == {m \in Nat : m <= n => \E g \in [0 .. m -> S] : Upto(g, m)}
  <1>1. 0 \in P
    <2> DEFINE g == [k \in 0 .. 0 |-> base]
    <2>1. g \in [0 .. 0 -> S] /\ g[0] = base /\ 1 .. 0 = {}
      BY SMT
    <2> QED
      BY <2>1
  <1>2. ASSUME NEW m \in P PROVE m + 1 \in P
    <2>0. m \in Nat /\ m + 1 \in Nat
      BY SMT
    <2> SUFFICES ASSUME m + 1 <= n PROVE \E h \in [0 .. m + 1 -> S] : Upto(h, m + 1)
      BY <2>0
    <2>1. m \in Nat /\ m <= n /\ m + 1 \in 1 .. n
      BY SMT
    <2>2. PICK g \in [0 .. m -> S] : Upto(g, m)
      BY <2>1
    <2> DEFINE h == [k \in 0 .. m + 1 |-> IF k = m + 1 THEN step[m + 1][g[m]] ELSE g[k]]
    <2>3. m \in 0 .. m /\ 0 \in 0 .. m /\ 0 # m + 1 /\ m # m + 1 /\ 0 \in 0 .. m + 1 /\ m + 1 \in 0 .. m + 1
          /\ (m + 1) - 1 = m /\ m \in 0 .. m + 1
      BY <2>1, SMT
    <2>4. \A k \in 0 .. m + 1 : k = m + 1 \/ k \in 0 .. m
      BY <2>1, SMT
    <2>5. g[m] \in S /\ step[m + 1] \in [S -> S]
      BY <2>1, <2>2, <2>3
    <2>6. h \in [0 .. m + 1 -> S]
      <3>1. step[m + 1][g[m]] \in S
        BY <2>5
      <3> QED
        BY <2>2, <2>4, <3>1
    <2>7. Upto(h, m + 1)
      <3>1. h[0] = base
        BY <2>2, <2>3
      <3>2. ASSUME NEW k \in 1 .. m + 1 PROVE h[k] = step[k][h[k - 1]]
        <4>1. k = m + 1 \/ (k \in 1 .. m /\ k \in 0 .. m /\ k - 1 \in 0 .. m /\ k # m + 1 /\ k - 1 # m + 1
                              /\ k \in 0 .. m + 1 /\ k - 1 \in 0 .. m + 1)
          BY <2>1, SMT
        <4>2. CASE k = m + 1
          <5>1. h[m] = g[m] /\ h[m + 1] = step[m + 1][g[m]]
            BY <2>3
          <5> QED
            BY <2>3, <4>2, <5>1
        <4>3. CASE k \in 1 .. m /\ k \in 0 .. m /\ k - 1 \in 0 .. m /\ k # m + 1 /\ k - 1 # m + 1
                     /\ k \in 0 .. m + 1 /\ k - 1 \in 0 .. m + 1
          <5>1. h[k] = g[k] /\ h[k - 1] = g[k - 1] /\ g[k] = step[k][g[k - 1]]
            BY <2>2, <4>3
          <5> QED
            BY <5>1
        <4> QED
          BY <4>1, <4>2, <4>3
      <3> QED
        BY <3>1, <3>2
    <2> QED
      BY <2>6, <2>7
  <1>3. n \in P
    <2>1. P \in SUBSET Nat
      OBVIOUS
    <2> HIDE DEF P
    <2> QED
      BY <1>1, <1>2, <2>1, Counting
  <1>4. n <= n
    OBVIOUS
  <1> QED
    BY <1>3, <1>4

IsRecursive(g, n, base, step) == g[0] = base /\ \A k \in 1 .. n : g[k] = step[k][g[k - 1]]

LEMMA Recursive ==
    \A S : \A base \in S : \A n \in Nat : \A step \in [1 .. n -> [S -> S]] :
        \E g \in [0 .. n -> S] : IsRecursive(g, n, base, step)
  BY Recursion DEF IsRecursive

------------------------------------------------------------------------------
(* Powers of two *)

IsPower(g, n) == g[0] = 1 /\ \A k \in 1 .. n : g[k] = 2 * g[k - 1]

LEMMA PowerFunction ==
    ASSUME NEW n \in Nat
    PROVE  \E g \in [0 .. n -> Nat \ {0}] : IsPower(g, n) /\ Pow2(n) = g[n]
  <1> DEFINE S == Nat \ {0}
             step == [k \in 1 .. n |-> [x \in S |-> 2 * x]]
             Built(g) == g = [k \in 0 .. n |-> IF k = 0 THEN 1 ELSE 2 * g[k - 1]]
             power == CHOOSE g : Built(g)
  <1>1. Pow2(n) = power[n]
    BY DEF Pow2
  <1>2. 1 \in S /\ step \in [1 .. n -> [S -> S]]
    <2>1. \A x \in S : 2 * x \in S
      BY SMT
    <2> QED
      BY <2>1
  <1>3. PICK g \in [0 .. n -> S] : g[0] = 1 /\ \A k \in 1 .. n : g[k] = step[k][g[k - 1]]
    <2> HIDE DEF S, step
    <2> QED
      BY <1>2, Recursion
  <1>4. \A k \in 1 .. n : k \in 0 .. n /\ k # 0 /\ k - 1 \in 0 .. n
    BY SMT
  <1>5. \A k \in 1 .. n : g[k] = 2 * g[k - 1]
    BY <1>3, <1>4
  <1>6. Built(g)
    <2>1. ASSUME NEW k \in 0 .. n PROVE g[k] = IF k = 0 THEN 1 ELSE 2 * g[k - 1]
      <3>1. k = 0 \/ k \in 1 .. n
        BY SMT
      <3> QED
        BY <1>3, <1>5, <3>1
    <2> QED
      BY <1>3, <2>1
  <1>7. Built(power)
    BY <1>6
  <1>8. power[0] = 1 /\ \A k \in 1 .. n : power[k] = 2 * power[k - 1]
    <2> HIDE DEF power
    <2>1. 0 \in 0 .. n
      BY SMT
    <2> QED
      BY <1>4, <1>7, <2>1
  <1>9. \A k \in 0 .. n : power[k] = g[k]
    <2> DEFINE P == {k \in Nat : k <= n => power[k] = g[k]}
    <2>1. 0 \in P
      BY <1>3, <1>8
    <2>2. ASSUME NEW k \in P PROVE k + 1 \in P
      <3> HIDE DEF power
      <3>1. k \in Nat /\ k + 1 \in Nat /\ (k + 1) - 1 = k /\ (k + 1 <= n => k <= n /\ k + 1 \in 1 .. n)
        BY SMT
      <3> QED
        BY <1>5, <1>8, <3>1
    <2>3. P = Nat
      <3> HIDE DEF P
      <3>1. P \in SUBSET Nat
        BY DEF P
      <3> QED
        BY <2>1, <2>2, <3>1, Counting
    <2> QED
      BY <2>3, SMT
  <1> HIDE DEF power
  <1>10. power \in [0 .. n -> S]
    <2>1. power = [k \in 0 .. n |-> power[k]]
      BY <1>7
    <2> QED
      BY <1>3, <1>9, <2>1
  <1> QED
    BY <1>1, <1>8, <1>10 DEF IsPower

LEMMA PowersAgree ==
    ASSUME NEW n \in Nat, NEW m \in Nat, NEW f, NEW g, IsPower(f, n), IsPower(g, m), m <= n
    PROVE  f[m] = g[m]
  <1> DEFINE P == {k \in Nat : k <= m => f[k] = g[k]}
  <1>1. 0 \in P
    BY DEF IsPower
  <1>2. ASSUME NEW k \in P PROVE k + 1 \in P
    <2>1. k \in Nat /\ k + 1 \in Nat /\ (k + 1) - 1 = k /\ (k + 1 <= m => k <= m /\ k + 1 \in 1 .. m /\ k + 1 \in 1 .. n)
      BY SMT
    <2> QED
      BY <2>1 DEF IsPower
  <1>3. P = Nat
    <2> HIDE DEF P
    <2>1. P \in SUBSET Nat
      BY DEF P
    <2> QED
      BY <1>1, <1>2, <2>1, Counting
  <1>4. m <= m
    BY SMT
  <1> QED
    BY <1>3, <1>4

LEMMA PowerType == \A n \in Nat : Pow2(n) \in Nat \ {0}
  <1> TAKE n \in Nat
  <1>1. PICK g \in [0 .. n -> Nat \ {0}] : Pow2(n) = g[n]
    BY PowerFunction
  <1>2. n \in 0 .. n
    BY SMT
  <1> QED
    BY <1>1, <1>2

LEMMA PowerSteps == Pow2(0) = 1 /\ \A n \in Nat : Pow2(n + 1) = 2 * Pow2(n)
  <1>1. Pow2(0) = 1
    <2>1. PICK g : IsPower(g, 0) /\ Pow2(0) = g[0]
      BY PowerFunction
    <2> QED
      BY <2>1 DEF IsPower
  <1>2. ASSUME NEW n \in Nat PROVE Pow2(n + 1) = 2 * Pow2(n)
    <2>1. n + 1 \in Nat /\ n <= n + 1 /\ n + 1 \in 1 .. n + 1 /\ (n + 1) - 1 = n
      BY SMT
    <2>2. PICK f : IsPower(f, n + 1) /\ Pow2(n + 1) = f[n + 1]
      BY <2>1, PowerFunction
    <2>3. PICK g : IsPower(g, n) /\ Pow2(n) = g[n]
      BY PowerFunction
    <2>4. f[n] = g[n]
      BY <2>1, <2>2, <2>3, PowersAgree
    <2>5. f[n + 1] = 2 * f[n]
      BY <2>1, <2>2 DEF IsPower
    <2> QED
      BY <2>2, <2>3, <2>4, <2>5
  <1> QED
    BY <1>1, <1>2

LEMMA PowerSum == \A m, n \in Nat : Pow2(m + n) = Pow2(m) * Pow2(n)
  <1> SUFFICES ASSUME NEW m \in Nat PROVE \A n \in Nat : Pow2(m + n) = Pow2(m) * Pow2(n)
    OBVIOUS
  <1> DEFINE P == {n \in Nat : Pow2(m + n) = Pow2(m) * Pow2(n)}
  <1>1. 0 \in P
    <2>1. Pow2(m) * 1 = Pow2(m) /\ m + 0 = m
      BY PowerType, SMT
    <2> QED
      BY <2>1, PowerSteps
  <1>2. ASSUME NEW n \in P PROVE n + 1 \in P
    <2>1. n \in Nat /\ n + 1 \in Nat /\ m + n \in Nat /\ m + (n + 1) = (m + n) + 1
      BY SMT
    <2>2. Pow2((m + n) + 1) = 2 * Pow2(m + n) /\ Pow2(n + 1) = 2 * Pow2(n)
      BY <2>1, PowerSteps
    <2>3. Pow2(m + n) = Pow2(m) * Pow2(n)
      OBVIOUS
    <2>4. \A a, b \in Nat : 2 * (a * b) = a * (2 * b)
      BY SMT
    <2>5. Pow2(m) \in Nat /\ Pow2(n) \in Nat
      BY <2>1, PowerType
    <2> QED
      BY <2>1, <2>2, <2>3, <2>4, <2>5
  <1>3. P = Nat
    <2> HIDE DEF P
    <2>1. P \in SUBSET Nat
      BY DEF P
    <2> QED
      BY <1>1, <1>2, <2>1, Counting
  <1> QED
    BY <1>3

------------------------------------------------------------------------------
(* Words *)

LEMMA Division ==
    ASSUME NEW m \in Nat \ {0}, NEW a \in Int
    PROVE  /\ a \div m \in Int /\ a % m \in 0 .. m - 1 /\ a % m \in Nat
           /\ a = (m * (a \div m)) + (a % m)
  BY SMT

LEMMA Remainder ==
    ASSUME NEW m \in Nat \ {0}, NEW q \in Int, NEW r \in 0 .. m - 1
    PROVE  ((m * q + r) % m) = r /\ ((m * q + r) \div m) = q
  <1> DEFINE a == m * q + r
             p == a \div m
             s == a % m
  <1>1. a \in Int /\ m * q \in Int
    BY SMT
  <1>2. a = m * p + s /\ p \in Int /\ s \in 0 .. m - 1
    <2> HIDE DEF a
    <2> QED
      BY <1>1, Division
  <1> HIDE DEF p, s
  <1>3. m * (p - q) = r - s /\ p - q \in Int
    BY <1>2, SMT
  <1>4. \A d \in Int : d >= 1 => m * d >= m
    BY SMT
  <1>5. \A d \in Int : d <= -1 => m * d <= -m
    BY SMT
  <1>6. p - q = 0
    BY <1>2, <1>3, <1>4, <1>5, SMT
  <1>7. p = q /\ s = r
    <2>1. m * 0 = 0
      BY SMT
    <2> QED
      BY <1>2, <1>3, <1>6, <2>1, SMT
  <1> QED
    BY <1>7 DEF p, s

LEMMA SameRemainder ==
    ASSUME NEW m \in Nat \ {0}, NEW a \in Int, NEW k \in Int
    PROVE  ((a + m * k) % m) = (a % m) /\ ((m * k + a) % m) = (a % m)
  <1> DEFINE q == a \div m
             r == a % m
  <1>1. a = m * q + r /\ q \in Int /\ r \in 0 .. m - 1
    BY Division
  <1> HIDE DEF q, r
  <1>2. a + m * k = m * (q + k) + r /\ m * k + a = m * (q + k) + r /\ q + k \in Int
    BY <1>1, SMT
  <1>3. ((m * (q + k) + r) % m) = r
    BY <1>1, <1>2, Remainder
  <1> QED
    BY <1>2, <1>3 DEF r

Bytewide == {"b", "h", "w", "x"}

LEMMA WidthFacts ==
    /\ DOMAIN Bytes = Bytewide /\ Widths \subseteq Bytewide
    /\ \A c \in Bytewide : Bits[c] \in Nat \ {0} /\ Mod[c] = Pow2(Bits[c]) /\ Mod[c] \in Nat \ {0} /\ Mod[c] >= 2
    /\ Mod["h"] = Mod["b"] * Mod["b"] /\ Mod["w"] = Mod["h"] * Mod["h"] /\ Mod["x"] = Mod["w"] * Mod["w"]
    /\ \A c \in Bytewide : 2 * (Mod[c] \div 2) = Mod[c] /\ Mod[c] \div 2 \in Nat \ {0}
  <1> USE ByteAssumption
  <1>1. DOMAIN Bytes = Bytewide /\ Widths \subseteq Bytewide
    BY DEF Bytes, Bytewide, Widths
  <1>2. Bytes["b"] = 1 /\ Bytes["h"] = 2 /\ Bytes["w"] = 4 /\ Bytes["x"] = 8
    BY DEF Bytes
  <1>3. Bits["b"] = ByteBits /\ Bits["h"] = ByteBits * 2 /\ Bits["w"] = ByteBits * 4 /\ Bits["x"] = ByteBits * 8
    BY <1>1, <1>2, SMT DEF Bits, Bytewide
  <1>4. \A c \in Bytewide : Bits[c] \in Nat \ {0}
    BY <1>3, SMT DEF Bytewide
  <1>5. \A c \in Bytewide : Mod[c] = Pow2(Bits[c])
    BY <1>1 DEF Mod
  <1>6. \A c \in Bytewide : Mod[c] \in Nat \ {0}
    BY <1>4, <1>5, PowerType
  <1>7. Mod["h"] = Mod["b"] * Mod["b"] /\ Mod["w"] = Mod["h"] * Mod["h"] /\ Mod["x"] = Mod["w"] * Mod["w"]
    <2>1. Bits["h"] = Bits["b"] + Bits["b"] /\ Bits["w"] = Bits["h"] + Bits["h"] /\ Bits["x"] = Bits["w"] + Bits["w"]
      BY <1>3, SMT
    <2>2. \A c \in Bytewide : Pow2(Bits[c] + Bits[c]) = Pow2(Bits[c]) * Pow2(Bits[c])
      BY <1>4, PowerSum
    <2> QED
      BY <1>5, <2>1, <2>2 DEF Bytewide
  <1>8. ASSUME NEW c \in Bytewide PROVE 2 * (Mod[c] \div 2) = Mod[c] /\ Mod[c] \div 2 \in Nat \ {0} /\ Mod[c] >= 2
    <2>1. Bits[c] - 1 \in Nat /\ (Bits[c] - 1) + 1 = Bits[c]
      BY <1>4, SMT
    <2>2. PICK h \in Nat \ {0} : h = Pow2(Bits[c] - 1)
      BY <2>1, PowerType
    <2>3. Mod[c] = 2 * h
      BY <1>5, <2>1, <2>2, PowerSteps
    <2>4. (2 * h) \div 2 = h
      BY SMT
    <2> QED
      BY <2>3, <2>4, SMT
  <1> QED
    BY <1>1, <1>4, <1>5, <1>6, <1>7, <1>8

(* A narrower word divides a wider one. *)
Order == [b |-> 0, h |-> 1, w |-> 2, x |-> 3]

LEMMA Narrower ==
    ASSUME NEW c \in Bytewide, NEW d \in Bytewide, Order[c] <= Order[d]
    PROVE  \E q \in Nat \ {0} : Mod[d] = Mod[c] * q
  <1> DEFINE B == Mod["b"]
             H == Mod["h"]
             W == Mod["w"]
             X == Mod["x"]
  <1>1. B \in Nat \ {0} /\ H \in Nat \ {0} /\ W \in Nat \ {0} /\ X \in Nat \ {0}
    BY WidthFacts DEF Bytewide
  <1>2. H = B * B /\ W = H * H /\ X = W * W
    BY WidthFacts
  <1>3. Order["b"] = 0 /\ Order["h"] = 1 /\ Order["w"] = 2 /\ Order["x"] = 3
    BY DEF Order
  <1> HIDE DEF B, H, W, X
  <1>4. \A k, l \in Nat \ {0} : k * l \in Nat \ {0}
    BY SMT
  <1>5. \A k, l, n \in Nat \ {0} : (k * l) * n = k * (l * n)
    BY SMT
  <1>6. W = B * (B * H) /\ X = H * (H * W)
    BY <1>1, <1>2, <1>4, <1>5
  <1>7. X = B * (B * (H * W))
    BY <1>1, <1>2, <1>4, <1>5, <1>6
  <1>8. \A k \in Nat \ {0} : k = k * 1 /\ 1 \in Nat \ {0}
    BY SMT
  <1>9. c = d \/ <<c, d>> \in {<<"b", "h">>, <<"b", "w">>, <<"b", "x">>, <<"h", "w">>, <<"h", "x">>, <<"w", "x">>}
    BY <1>3, SMT DEF Bytewide
  <1>10. CASE c = d
    BY <1>8, <1>10, WidthFacts
  <1>11. CASE <<c, d>> = <<"b", "h">>
    BY <1>1, <1>2, <1>11 DEF B, H
  <1>12. CASE <<c, d>> = <<"b", "w">>
    BY <1>1, <1>4, <1>6, <1>12 DEF B, W
  <1>13. CASE <<c, d>> = <<"b", "x">>
    BY <1>1, <1>4, <1>7, <1>13 DEF B, X
  <1>14. CASE <<c, d>> = <<"h", "w">>
    BY <1>1, <1>2, <1>14 DEF H, W
  <1>15. CASE <<c, d>> = <<"h", "x">>
    BY <1>1, <1>4, <1>6, <1>15 DEF H, X
  <1>16. CASE <<c, d>> = <<"w", "x">>
    BY <1>1, <1>2, <1>16 DEF W, X
  <1> QED
    BY <1>9, <1>10, <1>11, <1>12, <1>13, <1>14, <1>15, <1>16

LEMMA LowType ==
    ASSUME NEW c \in Bytewide, NEW v \in Int
    PROVE  Low(c, v) \in Words(c) /\ Low(c, v) \in Nat
  BY WidthFacts, Division DEF Low, Words

LEMMA LowId ==
    ASSUME NEW c \in Bytewide, NEW v \in Words(c)
    PROVE  Low(c, v) = v
  <1>1. Mod[c] \in Nat \ {0} /\ v \in 0 .. Mod[c] - 1
    BY WidthFacts DEF Words
  <1>2. Mod[c] * 0 + v = v
    BY <1>1, SMT
  <1> QED
    BY <1>1, <1>2, Remainder DEF Low

LEMMA LowSame ==
    ASSUME NEW c \in Bytewide, NEW v \in Int, NEW k \in Int
    PROVE  Low(c, v + Mod[c] * k) = Low(c, v)
  BY WidthFacts, SameRemainder DEF Low

LEMMA LowDiffers ==
    ASSUME NEW c \in Bytewide, NEW v \in Int
    PROVE  \E k \in Int : Low(c, v) = v + Mod[c] * k
  <1>1. Mod[c] \in Nat \ {0} /\ v \div Mod[c] \in Int /\ v = Mod[c] * (v \div Mod[c]) + Low(c, v)
    BY WidthFacts, Division DEF Low
  <1>2. PICK q \in Int : q = v \div Mod[c]
    BY <1>1
  <1>3. PICK m \in Int : m = Mod[c]
    BY <1>1
  <1>4. PICK l \in Int : l = Low(c, v)
    BY LowType
  <1>5. l = v + m * (-q) /\ -q \in Int
    BY <1>1, <1>2, <1>3, <1>4, SMT
  <1> QED
    BY <1>3, <1>4, <1>5

(* Words may be cut off before or after an operation. *)
LEMMA LowOps ==
    ASSUME NEW c \in Bytewide, NEW a \in Int, NEW b \in Int
    PROVE  /\ Low(c, Low(c, a) + b) = Low(c, a + b) /\ Low(c, a + Low(c, b)) = Low(c, a + b)
           /\ Low(c, Low(c, a) - b) = Low(c, a - b) /\ Low(c, a - Low(c, b)) = Low(c, a - b)
           /\ Low(c, Low(c, a) * b) = Low(c, a * b) /\ Low(c, a * Low(c, b)) = Low(c, a * b)
           /\ Low(c, Low(c, a)) = Low(c, a)
  <1>1. PICK k \in Int : Low(c, a) = a + Mod[c] * k
    BY LowDiffers
  <1>2. PICK l \in Int : Low(c, b) = b + Mod[c] * l
    BY LowDiffers
  <1>3. PICK m \in Int : m = Mod[c]
    BY WidthFacts
  <1>4. /\ (a + m * k) + b = (a + b) + m * k /\ a + (b + m * l) = (a + b) + m * l
        /\ (a + m * k) - b = (a - b) + m * k /\ a - (b + m * l) = (a - b) + m * (-l)
        /\ (a + m * k) * b = a * b + m * (k * b) /\ a * (b + m * l) = a * b + m * (a * l)
        /\ a + b \in Int /\ a - b \in Int /\ a * b \in Int /\ -l \in Int /\ k * b \in Int /\ a * l \in Int
    BY SMT
  <1>5. PICK x \in Int : x = Low(c, a)
    BY LowType
  <1>6. PICK y \in Int : y = Low(c, b)
    BY LowType
  <1>7. x = a + m * k /\ y = b + m * l
    BY <1>1, <1>2, <1>3, <1>5, <1>6
  <1>8. \A v, n \in Int : Low(c, v + m * n) = Low(c, v)
    BY <1>3, LowSame
  <1>9. Low(c, x + b) = Low(c, a + b) /\ Low(c, a + y) = Low(c, a + b)
    <2>1. Low(c, (a + b) + m * k) = Low(c, a + b) /\ Low(c, (a + b) + m * l) = Low(c, a + b)
      BY <1>4, <1>8, Zenon
    <2>2. x + b = (a + b) + m * k /\ a + y = (a + b) + m * l
      BY <1>4, <1>7, Zenon
    <2> QED
      BY <2>1, <2>2, Zenon
  <1>10. Low(c, x - b) = Low(c, a - b) /\ Low(c, a - y) = Low(c, a - b)
    <2>1. Low(c, (a - b) + m * k) = Low(c, a - b) /\ Low(c, (a - b) + m * (-l)) = Low(c, a - b)
      BY <1>4, <1>8, Zenon
    <2>2. x - b = (a - b) + m * k /\ a - y = (a - b) + m * (-l)
      BY <1>4, <1>7, Zenon
    <2> QED
      BY <2>1, <2>2, Zenon
  <1>11. Low(c, x * b) = Low(c, a * b) /\ Low(c, a * y) = Low(c, a * b)
    <2>1. Low(c, a * b + m * (k * b)) = Low(c, a * b) /\ Low(c, a * b + m * (a * l)) = Low(c, a * b)
      BY <1>4, <1>8, Zenon
    <2>2. x * b = a * b + m * (k * b) /\ a * y = a * b + m * (a * l)
      BY <1>4, <1>7, Zenon
    <2> QED
      BY <2>1, <2>2, Zenon
  <1>12. Low(c, x) = Low(c, a)
    BY <1>7, <1>8
  <1> QED
    BY <1>5, <1>6, <1>9, <1>10, <1>11, <1>12

LEMMA LowNarrow ==
    ASSUME NEW c \in Bytewide, NEW d \in Bytewide, Order[c] <= Order[d], NEW v \in Int
    PROVE  Low(c, Low(d, v)) = Low(c, v)
  <1>1. PICK q \in Nat \ {0} : Mod[d] = Mod[c] * q
    BY Narrower
  <1>2. PICK k \in Int : Low(d, v) = v + Mod[d] * k
    BY LowDiffers
  <1>3. PICK m \in Int : m = Mod[c]
    BY WidthFacts
  <1>4. (m * q) * k = m * (q * k) /\ q * k \in Int
    BY SMT
  <1>5. Low(d, v) = v + Mod[c] * (q * k)
    <2>1. Mod[d] * k = (Mod[c] * q) * k /\ (Mod[c] * q) * k = Mod[c] * (q * k)
      BY <1>1, <1>3, <1>4, Zenon
    <2> QED
      BY <1>2, <2>1, Zenon
  <1>6. Low(c, v + Mod[c] * (q * k)) = Low(c, v)
    BY <1>4, LowSame, Zenon
  <1> QED
    BY <1>5, <1>6, Zenon

LEMMA SignedFacts ==
    ASSUME NEW c \in Bytewide, NEW v \in Int
    PROVE  /\ Signed(c, v) \in Int
           /\ -(Mod[c] \div 2) <= Signed(c, v) /\ Signed(c, v) < Mod[c] \div 2
           /\ Low(c, Signed(c, v)) = Low(c, v)
           /\ Signed(c, Low(c, v)) = Signed(c, v)
  <1>1. Mod[c] \in Nat \ {0} /\ 2 * (Mod[c] \div 2) = Mod[c] /\ Mod[c] \div 2 \in Nat
    BY WidthFacts
  <1>2. Low(c, v) \in Nat /\ Low(c, v) < Mod[c]
    <2>1. Low(c, v) \in 0 .. Mod[c] - 1
      BY LowType DEF Words
    <2> QED
      BY <1>1, <2>1, SMT
  <1>3. Low(c, Low(c, v)) = Low(c, v)
    BY LowOps
  <1>4. Low(c, Low(c, v) - Mod[c]) = Low(c, Low(c, v))
    <2>1. PICK l \in Int : l = Low(c, v)
      BY <1>2
    <2>2. PICK m \in Int : m = Mod[c]
      BY <1>1
    <2>3. l - m = l + m * (-1) /\ -1 \in Int
      BY SMT
    <2>4. Low(c, l + m * (-1)) = Low(c, l)
      BY <2>2, <2>3, LowSame
    <2> QED
      BY <2>1, <2>2, <2>3, <2>4
  <1> QED
    BY <1>1, <1>2, <1>3, <1>4, SMT DEF Signed

------------------------------------------------------------------------------
(* Bits *)

BitOf(v, k)     == (v \div Pow2(k)) % 2
Digit(op, x, y) == CASE op = "and" -> x * y
                     [] op = "or"  -> x + y - x * y
                     [] op = "xor" -> (x + y) % 2
IsSum(g, n, d)  == g[0] = 0 /\ \A k \in 1 .. n : g[k] = g[k - 1] + d[k]
Digits(op, a, b) == [k \in 1 .. Bits["x"] |-> Digit(op, BitOf(a, k - 1), BitOf(b, k - 1)) * Pow2(k - 1)]

LEMMA BitType ==
    ASSUME NEW v \in Int, NEW k \in Nat
    PROVE  BitOf(v, k) \in {0, 1}
  <1>1. Pow2(k) \in Nat \ {0}
    BY PowerType
  <1>2. PICK p \in Nat \ {0} : p = Pow2(k)
    BY <1>1
  <1>3. (v \div p) % 2 \in {0, 1}
    BY SMT
  <1> QED
    BY <1>2, <1>3 DEF BitOf

LEMMA DigitType ==
    ASSUME NEW op \in {"and", "or", "xor"}, NEW x \in {0, 1}, NEW y \in {0, 1}
    PROVE  Digit(op, x, y) \in {0, 1} /\ Digit(op, x, y) = Digit(op, y, x)
  <1>1. 0 * 0 = 0 /\ 0 * 1 = 0 /\ 1 * 0 = 0 /\ 1 * 1 = 1 /\ (0 + 0) % 2 = 0 /\ (0 + 1) % 2 = 1 /\ (1 + 0) % 2 = 1
        /\ (1 + 1) % 2 = 0
    BY SMT
  <1>2. CASE op = "and"
    BY <1>1, <1>2, SMT DEF Digit
  <1>3. CASE op = "or"
    BY <1>1, <1>3, SMT DEF Digit
  <1>4. CASE op = "xor"
    BY <1>1, <1>4, SMT DEF Digit
  <1> QED
    BY <1>2, <1>3, <1>4

LEMMA SumDefined ==
    ASSUME NEW n \in Nat, NEW d \in [1 .. n -> Nat]
    PROVE  /\ \E g : g = [k \in 0 .. n |-> IF k = 0 THEN 0 ELSE g[k - 1] + d[k]]
           /\ \A f : f = [k \in 0 .. n |-> IF k = 0 THEN 0 ELSE f[k - 1] + d[k]] =>
                    f \in [0 .. n -> Nat] /\ IsSum(f, n, d)
  <1> DEFINE S == Nat
             step == [k \in 1 .. n |-> [x \in S |-> x + d[k]]]
             Built(g) == g = [k \in 0 .. n |-> IF k = 0 THEN 0 ELSE g[k - 1] + d[k]]
  <1>1. 0 \in S /\ step \in [1 .. n -> [S -> S]]
    <2>1. \A k \in 1 .. n : \A x \in Nat : x + d[k] \in Nat
      BY SMT
    <2> QED
      BY <2>1
  <1>2. PICK g \in [0 .. n -> S] : g[0] = 0 /\ \A k \in 1 .. n : g[k] = step[k][g[k - 1]]
    <2>1. \E g \in [0 .. n -> S] : IsRecursive(g, n, 0, step)
      <3> HIDE DEF S, step
      <3> QED
        BY <1>1, Recursive, Zenon
    <2> QED
      BY <2>1 DEF IsRecursive
  <1>3. \A k \in 1 .. n : k \in 0 .. n /\ k # 0 /\ k - 1 \in 0 .. n
    BY SMT
  <1>4. \A k \in 1 .. n : g[k] = g[k - 1] + d[k]
    BY <1>2, <1>3
  <1>5. Built(g)
    <2>1. ASSUME NEW k \in 0 .. n PROVE g[k] = IF k = 0 THEN 0 ELSE g[k - 1] + d[k]
      <3>1. k = 0 \/ k \in 1 .. n
        BY SMT
      <3> QED
        BY <1>2, <1>4, <3>1
    <2> QED
      BY <1>2, <2>1
  <1> SUFFICES ASSUME NEW f, Built(f) PROVE f \in [0 .. n -> Nat] /\ IsSum(f, n, d)
    BY <1>5, Zenon
  <1>6. Built(f)
    OBVIOUS
  <1>7. f[0] = 0 /\ \A k \in 1 .. n : f[k] = f[k - 1] + d[k]
    <2>1. 0 \in 0 .. n
      BY SMT
    <2> QED
      BY <1>3, <1>6, <2>1
  <1>8. \A k \in 0 .. n : f[k] = g[k]
    <2> DEFINE P == {k \in Nat : k <= n => f[k] = g[k]}
    <2>1. 0 \in P
      BY <1>2, <1>7
    <2>2. ASSUME NEW k \in P PROVE k + 1 \in P
      <3>1. k \in Nat /\ k + 1 \in Nat /\ (k + 1) - 1 = k /\ (k + 1 <= n => k <= n /\ k + 1 \in 1 .. n)
        BY SMT
      <3> QED
        BY <1>4, <1>7, <3>1
    <2>3. P = Nat
      <3> HIDE DEF P
      <3>1. P \in SUBSET Nat
        BY DEF P
      <3> QED
        BY <2>1, <2>2, <3>1, Counting
    <2>4. ASSUME NEW k \in 0 .. n PROVE f[k] = g[k]
      <3>1. k \in Nat /\ k <= n
        BY SMT
      <3> QED
        BY <2>3, <3>1
    <2> QED
      BY <2>4
  <1>9. f \in [0 .. n -> Nat]
    <2>1. f = [k \in 0 .. n |-> f[k]]
      BY <1>6
    <2> QED
      BY <1>2, <1>8, <2>1
  <1> QED
    BY <1>7, <1>9 DEF IsSum

LEMMA DigitsType ==
    ASSUME NEW op \in {"and", "or", "xor"}, NEW a \in Int, NEW b \in Int
    PROVE  Digits(op, a, b) \in [1 .. Bits["x"] -> Nat]
  <1>1. ASSUME NEW k \in 1 .. Bits["x"] PROVE Digit(op, BitOf(a, k - 1), BitOf(b, k - 1)) * Pow2(k - 1) \in Nat
    <2>1. k - 1 \in Nat
      BY WidthFacts, SMT DEF Bytewide
    <2>2. BitOf(a, k - 1) \in {0, 1} /\ BitOf(b, k - 1) \in {0, 1} /\ Pow2(k - 1) \in Nat
      BY <2>1, BitType, PowerType
    <2>3. Digit(op, BitOf(a, k - 1), BitOf(b, k - 1)) \in {0, 1}
      BY <2>2, DigitType
    <2>4. \A x \in {0, 1}, y \in Nat : x * y \in Nat
      BY SMT
    <2> QED
      BY <2>2, <2>3, <2>4
  <1> QED
    BY <1>1 DEF Digits

LEMMA CombineFunction ==
    ASSUME NEW op \in {"and", "or", "xor"}, NEW a \in Int, NEW b \in Int
    PROVE  \E g \in [0 .. Bits["x"] -> Nat] : IsSum(g, Bits["x"], Digits(op, a, b)) /\ Combine(op, a, b) = g[Bits["x"]]
  <1> DEFINE n == Bits["x"]
             d == Digits(op, a, b)
             F(g) == [k \in 0 .. n |-> IF k = 0 THEN 0 ELSE g[k - 1] + Digit(op, BitOf(a, k - 1), BitOf(b, k - 1)) * Pow2(k - 1)]
             D(g) == [k \in 0 .. n |-> IF k = 0 THEN 0 ELSE g[k - 1] + d[k]]
             f == CHOOSE g : g = F(g)
  <1>1. Combine(op, a, b) = f[n]
    BY Zenon DEF Combine, Digit, BitOf
  <1>2. n \in Nat
    BY WidthFacts DEF Bytewide
  <1>3. \A k \in 0 .. n : k = 0 \/ k \in 1 .. n
    BY <1>2, SMT
  <1>4. \A k \in 1 .. n : d[k] = Digit(op, BitOf(a, k - 1), BitOf(b, k - 1)) * Pow2(k - 1)
    BY DEF Digits
  <1>5. \A g : F(g) = D(g)
    <2> TAKE g
    <2>1. ASSUME NEW k \in 0 .. n
          PROVE  (IF k = 0 THEN 0 ELSE g[k - 1] + Digit(op, BitOf(a, k - 1), BitOf(b, k - 1)) * Pow2(k - 1))
                   = (IF k = 0 THEN 0 ELSE g[k - 1] + d[k])
      BY <1>3, <1>4, Zenon
    <2> QED
      BY <2>1, Zenon
  <1>6. d \in [1 .. n -> Nat]
    BY DigitsType
  <1>7. f = D(f)
    <2>1. \E g : g = D(g)
      <3> HIDE DEF d, n
      <3> QED
        BY <1>2, <1>6, SumDefined
    <2>2. \E g : g = F(g)
      <3> HIDE DEF F, D
      <3> QED
        BY <2>1, <1>5, Zenon
    <2>3. f = F(f)
      BY <2>2, Zenon
    <2> QED
      BY <2>3, <1>5, Zenon
  <1>8. f \in [0 .. n -> Nat] /\ IsSum(f, n, d)
    <2> HIDE DEF f, d, n
    <2> QED
      BY <1>2, <1>6, <1>7, SumDefined
  <1> QED
    BY <1>1, <1>8 DEF d, n

LEMMA CombineType ==
    ASSUME NEW op \in {"and", "or", "xor"}, NEW a \in Int, NEW b \in Int
    PROVE  Combine(op, a, b) \in Nat
  <1>1. PICK g \in [0 .. Bits["x"] -> Nat] : Combine(op, a, b) = g[Bits["x"]]
    BY CombineFunction
  <1>2. Bits["x"] \in Nat
    BY WidthFacts DEF Bytewide
  <1>3. Bits["x"] \in 0 .. Bits["x"]
    BY <1>2, SMT
  <1> QED
    BY <1>1, <1>3

------------------------------------------------------------------------------
(* Running sequences *)

IsCode(a)       == \E S : a \in Seq(S)
IsAfter(g, s, a, n) == g = [k \in 0 .. n |-> IF k = 0 THEN s ELSE Exec(g[k - 1], a[k])]
IsRun(g, s, a)  == g[0] = s /\ \A k \in 1 .. Len(a) : g[k] = Exec(g[k - 1], a[k])

LEMMA CodeLength ==
    ASSUME NEW a, IsCode(a)
    PROVE  Len(a) \in Nat /\ DOMAIN a = 1 .. Len(a) /\ Len(a) \in 0 .. Len(a)
  <1>1. PICK S : a \in Seq(S)
    BY DEF IsCode
  <1>2. Len(a) \in Nat /\ DOMAIN a = 1 .. Len(a)
    BY <1>1
  <1>3. \A n \in Nat : n \in 0 .. n
    BY SMT
  <1> QED
    BY <1>2, <1>3

LEMMA RunsAgree ==
    ASSUME NEW a, NEW m \in Nat, NEW f, NEW g, f[0] = g[0],
           \A k \in 1 .. m : f[k] = Exec(f[k - 1], a[k]) /\ g[k] = Exec(g[k - 1], a[k])
    PROVE  f[m] = g[m]
  <1> DEFINE P == {k \in Nat : k <= m => f[k] = g[k]}
  <1>1. 0 \in P
    OBVIOUS
  <1>2. ASSUME NEW k \in P PROVE k + 1 \in P
    <2>1. k \in Nat /\ k + 1 \in Nat /\ (k + 1) - 1 = k /\ (k + 1 <= m => k <= m /\ k + 1 \in 1 .. m)
      BY SMT
    <2> QED
      BY <2>1
  <1>3. P = Nat
    <2> HIDE DEF P
    <2>1. P \in SUBSET Nat
      BY DEF P
    <2> QED
      BY <1>1, <1>2, <2>1, Counting
  <1>4. m <= m
    BY SMT
  <1> QED
    BY <1>3, <1>4

LEMMA RunExists ==
    ASSUME NEW s, NEW a, NEW n \in Nat
    PROVE  \E g : IsAfter(g, s, a, n)
  <1> DEFINE Upto(g, m) == g = [k \in 0 .. m |-> IF k = 0 THEN s ELSE Exec(g[k - 1], a[k])]
             P == {m \in Nat : \E g : Upto(g, m)}
  <1>1. 0 \in P
    <2> DEFINE g == [k \in 0 .. 0 |-> s]
    <2>1. \A k \in 0 .. 0 : k = 0
      BY SMT
    <2>2. Upto(g, 0)
      BY <2>1
    <2> QED
      BY <2>2
  <1>2. ASSUME NEW m \in P PROVE m + 1 \in P
    <2>1. m \in Nat /\ m + 1 \in Nat /\ (m + 1) - 1 = m /\ m + 1 # 0 /\ m \in 0 .. m
      BY SMT
    <2>2. PICK g : Upto(g, m)
      OBVIOUS
    <2> DEFINE h == [k \in 0 .. m + 1 |-> IF k = m + 1 THEN Exec(g[m], a[m + 1]) ELSE g[k]]
    <2>3. ASSUME NEW k \in 0 .. m + 1 PROVE h[k] = IF k = 0 THEN s ELSE Exec(h[k - 1], a[k])
      <3>1. k = m + 1 \/ (k \in 0 .. m /\ k # m + 1)
        BY <2>1, SMT
      <3>2. k # 0 => k - 1 \in 0 .. m /\ k - 1 # m + 1 /\ k - 1 \in 0 .. m + 1
        BY <2>1, SMT
      <3>3. k # 0 => h[k - 1] = g[k - 1]
        BY <3>2
      <3>4. CASE k = m + 1
        <4>1. h[k] = Exec(g[m], a[k]) /\ k # 0 /\ k - 1 = m
          BY <2>1, <3>4
        <4> QED
          BY <3>3, <4>1
      <3>5. CASE k \in 0 .. m /\ k # m + 1
        <4>1. h[k] = g[k] /\ g[k] = IF k = 0 THEN s ELSE Exec(g[k - 1], a[k])
          BY <2>2, <3>5
        <4> QED
          BY <3>3, <4>1
      <3> QED
        BY <3>1, <3>4, <3>5
    <2>4. Upto(h, m + 1)
      <3>1. h = [k \in 0 .. m + 1 |-> h[k]]
        OBVIOUS
      <3> HIDE DEF h
      <3> QED
        BY <2>3, <3>1
    <2> QED
      BY <2>1, <2>4
  <1>3. P = Nat
    <2> HIDE DEF P
    <2>1. P \in SUBSET Nat
      BY DEF P
    <2> QED
      BY <1>1, <1>2, <2>1, Counting
  <1> QED
    BY <1>3 DEF IsAfter

LEMMA RunFunction ==
    ASSUME NEW s, NEW a, IsCode(a)
    PROVE  \E g : IsRun(g, s, a) /\ Run(s, a) = g[Len(a)]
  <1> DEFINE Built(g) == g = [k \in 0 .. Len(a) |-> IF k = 0 THEN s ELSE Exec(g[k - 1], a[k])]
             after == CHOOSE g : Built(g)
  <1>1. Run(s, a) = after[Len(a)]
    BY DEF Run
  <1>2. Built(after)
    <2>1. Len(a) \in Nat
      BY CodeLength
    <2>2. \E g : IsAfter(g, s, a, Len(a))
      BY <2>1, RunExists, Zenon
    <2>3. \E g : Built(g)
      BY <2>2 DEF IsAfter
    <2> QED
      BY <2>3
  <1> HIDE DEF after
  <1>3. IsRun(after, s, a)
    <2>1. 0 \in 0 .. Len(a) /\ \A k \in 1 .. Len(a) : k \in 0 .. Len(a) /\ k # 0
      BY CodeLength, SMT
    <2> QED
      BY <1>2, <2>1 DEF IsRun
  <1> QED
    BY <1>1, <1>3

LEMMA RunIs ==
    ASSUME NEW s, NEW a, IsCode(a), NEW g, IsRun(g, s, a)
    PROVE  Run(s, a) = g[Len(a)]
  <1>1. PICK f : IsRun(f, s, a) /\ Run(s, a) = f[Len(a)]
    BY RunFunction
  <1>2. Len(a) \in Nat
    BY CodeLength
  <1>3. f[Len(a)] = g[Len(a)]
    <2>1. PICK m \in Nat : m = Len(a)
      BY <1>2
    <2>2. f[0] = g[0] /\ \A k \in 1 .. m : f[k] = Exec(f[k - 1], a[k]) /\ g[k] = Exec(g[k - 1], a[k])
      BY <1>1, <2>1 DEF IsRun
    <2>3. f[m] = g[m]
      BY <2>2, RunsAgree
    <2> QED
      BY <2>1, <2>3
  <1> QED
    BY <1>1, <1>3

(* One sequence after another, ... *)
LEMMA RunConcat ==
    ASSUME NEW s, NEW a, NEW b, IsCode(a), IsCode(b)
    PROVE  Run(s, a \o b) = Run(Run(s, a), b) /\ IsCode(a \o b)
  <1>1. PICK S, T : a \in Seq(S) /\ b \in Seq(T)
    BY DEF IsCode
  <1>2. a \in Seq(S \cup T) /\ b \in Seq(S \cup T)
    BY <1>1
  <1>3. a \o b \in Seq(S \cup T) /\ Len(a \o b) = Len(a) + Len(b)
        /\ \A k \in 1 .. Len(a) + Len(b) : (a \o b)[k] = IF k <= Len(a) THEN a[k] ELSE b[k - Len(a)]
    BY <1>2, ConcatProperties
  <1>4. IsCode(a \o b)
    BY <1>3 DEF IsCode
  <1>5. PICK f : IsRun(f, s, a \o b) /\ Run(s, a \o b) = f[Len(a \o b)]
    BY <1>4, RunFunction
  <1>6. Len(a) \in Nat /\ Len(b) \in Nat
    BY CodeLength
  <1>7. IsRun(f, s, a)
    <2>1. ASSUME NEW k \in 1 .. Len(a) PROVE f[k] = Exec(f[k - 1], a[k])
      <3>1. k \in 1 .. Len(a \o b) /\ (a \o b)[k] = a[k]
        BY <1>3, <1>6, SMT
      <3> QED
        BY <1>5, <3>1 DEF IsRun
    <2> QED
      BY <1>5, <2>1 DEF IsRun
  <1>8. Run(s, a) = f[Len(a)]
    BY <1>7, RunIs
  <1> DEFINE h == [k \in 0 .. Len(b) |-> f[Len(a) + k]]
  <1>9. IsRun(h, f[Len(a)], b)
    <2>1. h[0] = f[Len(a)]
      BY <1>6, SMT
    <2>2. ASSUME NEW k \in 1 .. Len(b) PROVE h[k] = Exec(h[k - 1], b[k])
      <3>1. k \in 0 .. Len(b) /\ k - 1 \in 0 .. Len(b) /\ Len(a) + k \in 1 .. Len(a \o b) /\ ~(Len(a) + k <= Len(a))
            /\ Len(a) + (k - 1) = (Len(a) + k) - 1 /\ (Len(a) + k) - Len(a) = k
        BY <1>3, <1>6, SMT
      <3>2. (a \o b)[Len(a) + k] = b[k]
        BY <1>3, <3>1
      <3>3. f[Len(a) + k] = Exec(f[(Len(a) + k) - 1], (a \o b)[Len(a) + k])
        BY <1>5, <3>1 DEF IsRun
      <3> QED
        BY <3>1, <3>2, <3>3
    <2> QED
      BY <2>1, <2>2 DEF IsRun
  <1>10. Run(f[Len(a)], b) = h[Len(b)]
    <2> HIDE DEF h
    <2> QED
      BY <1>9, RunIs
  <1>11. h[Len(b)] = f[Len(a \o b)]
    BY <1>3, <1>6, CodeLength
  <1> QED
    BY <1>4, <1>5, <1>8, <1>10, <1>11

(* ... and short ones. *)
LEMMA RunShort ==
    ASSUME NEW s
    PROVE  /\ Run(s, <<>>) = s /\ IsCode(<<>>)
           /\ \A i : Run(s, <<i>>) = Exec(s, i) /\ IsCode(<<i>>)
           /\ \A i, j : Run(s, <<i, j>>) = Exec(Exec(s, i), j) /\ IsCode(<<i, j>>)
           /\ \A i, j, k : Run(s, <<i, j, k>>) = Exec(Exec(Exec(s, i), j), k) /\ IsCode(<<i, j, k>>)
  <1>1. IsCode(<<>>) /\ \A i, j, k : IsCode(<<i>>) /\ IsCode(<<i, j>>) /\ IsCode(<<i, j, k>>)
    <2>1. <<>> \in Seq({})
      OBVIOUS
    <2>2. \A i, j, k : <<i>> \in Seq({i}) /\ <<i, j>> \in Seq({i, j}) /\ <<i, j, k>> \in Seq({i, j, k})
      OBVIOUS
    <2> QED
      BY <2>1, <2>2 DEF IsCode
  <1>2. Run(s, <<>>) = s
    <2>1. PICK g : IsRun(g, s, <<>>) /\ Run(s, <<>>) = g[Len(<<>>)]
      BY <1>1, RunFunction
    <2> QED
      BY <2>1 DEF IsRun
  <1>3. ASSUME NEW i PROVE Run(s, <<i>>) = Exec(s, i)
    <2>1. PICK g : IsRun(g, s, <<i>>) /\ Run(s, <<i>>) = g[Len(<<i>>)]
      BY <1>1, RunFunction
    <2>2. Len(<<i>>) = 1 /\ 1 \in 1 .. 1 /\ 1 - 1 = 0 /\ <<i>>[1] = i
      OBVIOUS
    <2>3. g[1] = Exec(g[1 - 1], <<i>>[1])
      BY <2>1, <2>2 DEF IsRun
    <2> QED
      BY <2>1, <2>2, <2>3 DEF IsRun
  <1>4. ASSUME NEW i, NEW j PROVE Run(s, <<i, j>>) = Exec(Exec(s, i), j)
    <2> DEFINE a == <<i, j>>
    <2>1. PICK g : IsRun(g, s, a) /\ Run(s, a) = g[Len(a)]
      BY <1>1, RunFunction
    <2>2. Len(a) = 2 /\ 1 \in 1 .. 2 /\ 2 \in 1 .. 2 /\ 1 - 1 = 0 /\ 2 - 1 = 1 /\ a[1] = i /\ a[2] = j
      OBVIOUS
    <2> HIDE DEF a
    <2>3. g[1] = Exec(g[0], i) /\ g[2] = Exec(g[1], j)
      BY <2>1, <2>2 DEF IsRun
    <2>4. Run(s, a) = Exec(Exec(s, i), j)
      BY <2>1, <2>2, <2>3 DEF IsRun
    <2> QED
      BY <2>4 DEF a
  <1>5. ASSUME NEW i, NEW j, NEW k PROVE Run(s, <<i, j, k>>) = Exec(Exec(Exec(s, i), j), k)
    <2> DEFINE a == <<i, j, k>>
    <2>1. PICK g : IsRun(g, s, a) /\ Run(s, a) = g[Len(a)]
      BY <1>1, RunFunction
    <2>2. Len(a) = 3 /\ 1 \in 1 .. 3 /\ 2 \in 1 .. 3 /\ 3 \in 1 .. 3 /\ 1 - 1 = 0 /\ 2 - 1 = 1 /\ 3 - 1 = 2
          /\ a[1] = i /\ a[2] = j /\ a[3] = k
      OBVIOUS
    <2> HIDE DEF a
    <2>3. g[1] = Exec(g[0], i) /\ g[2] = Exec(g[1], j) /\ g[3] = Exec(g[2], k)
      BY <2>1, <2>2 DEF IsRun
    <2>4. Run(s, a) = Exec(Exec(Exec(s, i), j), k)
      BY <2>1, <2>2, <2>3 DEF IsRun
    <2> QED
      BY <2>4 DEF a
  <1>6. \A i : Run(s, <<i>>) = Exec(s, i) /\ IsCode(<<i>>)
    BY <1>1, <1>3
  <1>7. \A i, j : Run(s, <<i, j>>) = Exec(Exec(s, i), j) /\ IsCode(<<i, j>>)
    BY <1>1, <1>4
  <1>8. \A i, j, k : Run(s, <<i, j, k>>) = Exec(Exec(Exec(s, i), j), k) /\ IsCode(<<i, j, k>>)
    <2> TAKE i, j, k
    <2>1. IsCode(<<i, j, k>>)
      BY <1>1, Zenon
    <2>2. Run(s, <<i, j, k>>) = Exec(Exec(Exec(s, i), j), k)
      BY <1>5
    <2> QED
      BY <2>1, <2>2, Zenon
  <1> QED
    BY <1>1, <1>2, <1>6, <1>7, <1>8

------------------------------------------------------------------------------
(* States of the processor.  G is the set of guest registers that have a   *)
(* cell in ExecCtx.                                                        *)

Names     == {Direct[r] : r \in DOMAIN Direct} \cup {"rax"}
Memory    == UNION {[S -> Bytewide \X Nat] : S \in SUBSET Words("x")}
FlagWords == [z : {0, 1, 2}, n : {0, 1, 2}, c : {0, 1, 2}, v : {0, 1, 2}]

State(G) == [reg : [Names -> Words("x")], cell : [G -> Words("x")], mem : Memory, flags : FlagWords,
             stack : Seq(Words("x")), skip : Nat, fault : BOOLEAN, taken : BOOLEAN]

IsPlace(o, G)  == (\E n \in Names : o = R(n)) \/ (\E r \in G : o = Cell(r))
IsTarget(o, G) == IsPlace(o, G) \/ \E n \in Names, d \in Int : o = M(n, d)
IsSource(o, G) == IsTarget(o, G) \/ \E n \in Int : o = N(n)

Full(s, o) == IF o.k = "reg" THEN s.reg[o.at] ELSE s.cell[o.at]

(* t has the flags, the stack and the control state of s. *)
Frame(s, t) == t.flags = s.flags /\ t.stack = s.stack /\ t.skip = s.skip /\ t.fault = s.fault /\ t.taken = s.taken

LEMMA OperandKinds ==
    /\ \A n : R(n).k = "reg" /\ R(n).at = n
    /\ \A r : Cell(r).k = "cell" /\ Cell(r).at = r
    /\ \A n : N(n).k = "imm" /\ N(n).at = n
    /\ \A n, d : M(n, d).k = "mem" /\ M(n, d).at = n /\ M(n, d).disp = d
  BY DEF R, Cell, N, M

LEMMA WordFacts ==
    /\ \A v \in Words("x") : v \in Nat /\ v \in Int
    /\ 0 \in Words("x") /\ 1 \in Words("x")
    /\ \A c \in Bytewide : \A v \in Words(c) : v \in Words("x")
  <1>1. Mod["x"] \in Nat /\ Mod["x"] >= 2
    BY WidthFacts DEF Bytewide
  <1>2. \A c \in Bytewide : Mod[c] \in Nat /\ Mod[c] <= Mod["x"]
    <2> TAKE c \in Bytewide
    <2>1. "x" \in Bytewide /\ Order[c] <= Order["x"]
      BY DEF Order, Bytewide
    <2>2. PICK q \in Nat \ {0} : Mod["x"] = Mod[c] * q
      BY <2>1, Narrower
    <2>3. PICK m \in Nat : m = Mod[c]
      BY WidthFacts
    <2>4. m <= m * q
      BY SMT
    <2> QED
      BY <2>2, <2>3, <2>4
  <1> QED
    BY <1>1, <1>2, SMT DEF Words

LEMMA LoadType ==
    ASSUME NEW mem \in Memory, NEW a \in Words("x")
    PROVE  Load(mem, a) \in Nat
  <1>1. PICK S \in SUBSET Words("x") : mem \in [S -> Bytewide \X Nat]
    BY DEF Memory
  <1>2. CASE a \in DOMAIN mem
    <2>1. mem[a] \in Bytewide \X Nat
      BY <1>1, <1>2
    <2> QED
      BY <1>2, <2>1 DEF Load
  <1>3. CASE a \notin DOMAIN mem
    BY <1>3, ContentAssumption DEF Load
  <1> QED
    BY <1>2, <1>3

LEMMA StoreType ==
    ASSUME NEW mem \in Memory, NEW a \in Words("x"), NEW c \in Bytewide, NEW v \in Int
    PROVE  Store(mem, a, c, v) \in Memory
  <1>1. PICK S \in SUBSET Words("x") : mem \in [S -> Bytewide \X Nat]
    BY DEF Memory
  <1>2. DOMAIN mem = S
    BY <1>1
  <1>3. Low(c, v) \in Nat
    BY LowType
  <1>4. <<c, Low(c, v)>> \in Bytewide \X Nat
    BY <1>3
  <1>5. \A z \in S \cup {a} : (IF z = a THEN <<c, Low(c, v)>> ELSE mem[z]) \in Bytewide \X Nat
    BY <1>1, <1>4
  <1>6. Store(mem, a, c, v) \in [S \cup {a} -> Bytewide \X Nat] /\ S \cup {a} \in SUBSET Words("x")
    BY <1>2, <1>5 DEF Store
  <1> QED
    BY <1>6 DEF Memory

LEMMA AddressType ==
    ASSUME NEW G, NEW s \in State(G), NEW n \in Names, NEW d \in Int
    PROVE  Address(s, M(n, d)) \in Words("x") /\ Address(s, M(n, d)) = Low("x", s.reg[n] + d)
  <1>1. s.reg[n] \in Int
    BY WordFacts DEF State
  <1>2. s.reg[n] + d \in Int
    BY <1>1
  <1> QED
    BY <1>2, LowType, OperandKinds DEF Address, Bytewide

LEMMA GetType ==
    ASSUME NEW G, NEW s \in State(G), NEW c \in Bytewide, NEW o, IsSource(o, G)
    PROVE  Get(s, c, o) \in Words(c) /\ Get(s, c, o) \in Nat
  <1>1. ASSUME NEW n \in Names, o = R(n) PROVE Get(s, c, o) \in Words(c) /\ Get(s, c, o) \in Nat
    <2>1. s.reg[n] \in Int
      BY WordFacts DEF State
    <2>2. Get(s, c, o) = Low(c, s.reg[n])
      BY <1>1, OperandKinds DEF Get
    <2> QED
      BY <2>1, <2>2, LowType
  <1>2. ASSUME NEW r \in G, o = Cell(r) PROVE Get(s, c, o) \in Words(c) /\ Get(s, c, o) \in Nat
    <2>1. s.cell[r] \in Int
      BY WordFacts DEF State
    <2>2. Get(s, c, o) = Low(c, s.cell[r])
      BY <1>2, OperandKinds DEF Get
    <2> QED
      BY <2>1, <2>2, LowType
  <1>3. ASSUME NEW n \in Int, o = N(n) PROVE Get(s, c, o) \in Words(c) /\ Get(s, c, o) \in Nat
    <2>1. Get(s, c, o) = Low(c, n)
      BY <1>3, OperandKinds DEF Get
    <2> QED
      BY <2>1, LowType
  <1>4. ASSUME NEW n \in Names, NEW d \in Int, o = M(n, d) PROVE Get(s, c, o) \in Words(c) /\ Get(s, c, o) \in Nat
    <2>1. Address(s, M(n, d)) \in Words("x") /\ s.mem \in Memory
      BY AddressType DEF State
    <2>2. Get(s, c, o) = Low(c, Load(s.mem, Address(s, o)))
      BY <1>4, OperandKinds DEF Get
    <2>3. Load(s.mem, Address(s, o)) \in Int
      BY <1>4, <2>1, LoadType
    <2> QED
      BY <2>2, <2>3, LowType
  <1> QED
    BY <1>1, <1>2, <1>3, <1>4 DEF IsSource, IsTarget, IsPlace

LEMMA InsertType ==
    ASSUME NEW c \in Bytewide, NEW old \in Words("x"), NEW v \in Int
    PROVE  Insert(c, old, v) \in Words("x") /\ Low(c, Insert(c, old, v)) = Low(c, v)
  <1>1. "x" \in Bytewide /\ Order[c] <= Order["x"]
    BY DEF Order, Bytewide
  <1>2. PICK q \in Nat \ {0} : Mod["x"] = Mod[c] * q
    BY <1>1, Narrower
  <1>3. PICK m \in Nat \ {0} : m = Mod[c]
    BY WidthFacts
  <1>4. old \in Int /\ old \in 0 .. m * q - 1
    BY <1>2, <1>3, WordFacts DEF Words
  <1>5. PICK k \in Int, l \in 0 .. m - 1 : old = (m * k) + l /\ l = Low(c, old)
    BY <1>3, <1>4, Division DEF Low
  <1>6. PICK w \in 0 .. m - 1 : w = Low(c, v)
    BY <1>3, LowType DEF Words
  <1>7. Insert(c, old, v) = m * k + w
    BY <1>5, <1>6, SMT DEF Insert
  <1>8. m * k + w \in 0 .. m * q - 1
    <2>1. \A d \in Int : d < 0 => m * d <= -m
      BY SMT
    <2>2. \A d \in Int : d >= 0 => m * d >= 0
      BY SMT
    <2>3. k >= 0
      BY <1>4, <1>5, <2>1, SMT
    <2>4. m * q - m * k = m * (q - k) /\ q - k \in Int
      BY SMT
    <2>5. k < q
      BY <1>4, <1>5, <2>2, <2>4, <2>1, SMT
    <2>6. m * (q - k) >= m
      <3>1. \A d \in Int : d >= 1 => m * d >= m
        BY SMT
      <3> QED
        BY <2>5, <3>1
    <2> QED
      BY <2>2, <2>3, <2>4, <2>6, SMT
  <1>9. Low(c, m * k + w) = w
    BY <1>3, Remainder DEF Low
  <1> QED
    BY <1>2, <1>3, <1>6, <1>7, <1>8, <1>9 DEF Words

LEMMA PutType ==
    ASSUME NEW G, NEW s \in State(G), NEW c \in Bytewide, NEW o, IsTarget(o, G), NEW v \in Int
    PROVE  /\ Put(s, c, o, v) \in State(G)
           /\ Frame(s, Put(s, c, o, v))
  <1>0. \A d \in Bytewide : Low(d, v) \in Words("x")
    BY LowType, WordFacts
  <1>1. ASSUME NEW n \in Names, o = R(n)
        PROVE /\ Put(s, c, o, v) \in State(G)
              /\ Frame(s, Put(s, c, o, v))
    <2> DEFINE w == IF c \in {"w", "x"} THEN Low(c, v) ELSE Insert(c, s.reg[n], v)
    <2> DEFINE f == [s.reg EXCEPT ![n] = w]
    <2>1. Put(s, c, o, v) = [s EXCEPT !.reg = f]
      BY <1>1, OperandKinds DEF Put
    <2>2. w \in Words("x")
      BY <1>0, InsertType DEF State
    <2> HIDE DEF w
    <2>3. f \in [Names -> Words("x")]
      BY <2>2 DEF State
    <2> HIDE DEF f
    <2> QED
      BY <2>1, <2>3 DEF State, Frame
  <1>2. ASSUME NEW r \in G, o = Cell(r)
        PROVE /\ Put(s, c, o, v) \in State(G)
              /\ Frame(s, Put(s, c, o, v))
    <2> DEFINE w == Insert(c, s.cell[r], v)
    <2> DEFINE f == [s.cell EXCEPT ![r] = w]
    <2>1. Put(s, c, o, v) = [s EXCEPT !.cell = f]
      BY <1>2, OperandKinds DEF Put
    <2>2. w \in Words("x")
      BY InsertType DEF State
    <2> HIDE DEF w
    <2>3. f \in [G -> Words("x")]
      BY <2>2 DEF State
    <2> HIDE DEF f
    <2> QED
      BY <2>1, <2>3 DEF State, Frame
  <1>3. ASSUME NEW n \in Names, NEW d \in Int, o = M(n, d)
        PROVE /\ Put(s, c, o, v) \in State(G)
              /\ Frame(s, Put(s, c, o, v))
    <2> DEFINE w == Store(s.mem, Address(s, o), c, v)
    <2>1. Put(s, c, o, v) = [s EXCEPT !.mem = w]
      BY <1>3, OperandKinds DEF Put
    <2>2. w \in Memory
      BY <1>3, AddressType, StoreType DEF State
    <2> HIDE DEF w
    <2> QED
      BY <2>1, <2>2 DEF State, Frame
  <1> QED
    BY <1>1, <1>2, <1>3 DEF IsTarget, IsPlace

------------------------------------------------------------------------------
(* One instruction *)

Logic == {"and", "or", "xor"}

LEMMA AluOpsAre == AluOps = {"add", "sub"} \cup Logic
  BY DEF AluOps, Logic

(* What each instruction does. *)
LEMMA EffectOfMov ==
    ASSUME NEW s, NEW c, NEW to, NEW from
    PROVE  Effect(s, I("mov", c, to, from)) = Put(s, c, to, Get(s, c, from))
  BY DEF Effect, I, AluOps

LEMMA EffectOfCmp ==
    ASSUME NEW s, NEW c, NEW to, NEW from
    PROVE  Effect(s, I("cmp", c, to, from)) = [s EXCEPT !.flags = SubFlags(c, Get(s, c, to), Get(s, c, from))]
  BY DEF Effect, I, AluOps

LEMMA EffectOfAlu ==
    ASSUME NEW s, NEW op \in AluOps, NEW c, NEW to, NEW from
    PROVE  Effect(s, I(op, c, to, from))
             = [Put(s, c, to, Alu(op, Get(s, c, to), Get(s, c, from))) EXCEPT
                  !.flags = AluFlags(op, c, Get(s, c, to), Get(s, c, from))]
  BY DEF Effect, I, AluOps

LEMMA EffectOfShift ==
    ASSUME NEW s, NEW op \in {"shl", "shr", "sar"}, NEW c, NEW to, NEW from
    PROVE  Effect(s, I(op, c, to, from))
             = [Put(s, c, to, Shift(op, c, Get(s, c, to), from.at)) EXCEPT
                  !.flags = IF from.at = 0 THEN @ ELSE Flags(c, Shift(op, c, Get(s, c, to), from.at), Undef, Undef)]
  BY DEF Effect, I, AluOps

LEMMA EffectOfDivide ==
    /\ \A s, c, to, from : Effect(s, I("mul", c, to, from)) = Multiply(s, c, Get(s, c, from))
    /\ \A s, c, to, from : Effect(s, I("div", c, to, from)) = Divide(s, FALSE, c, Get(s, c, from))
    /\ \A s, c, to, from : Effect(s, I("idiv", c, to, from)) = Divide(s, TRUE, c, Get(s, c, from))
    /\ \A s, c : Effect(s, [op |-> "cdq", c |-> c]) = Put(s, "w", RDX, IF Signed("w", s.reg["rax"]) < 0 THEN -1 ELSE 0)
  BY DEF Effect, I, AluOps

LEMMA EffectOfThree ==
    /\ \A s, c, to, from, by : Effect(s, I3("lea", c, to, from, by)) = Put(s, c, to, Get(s, c, from) + Get(s, c, by))
    /\ \A s, c, to, from, by : Effect(s, I3("shlx", c, to, from, by)) =
          Put(s, c, to, Shift("shl", c, Get(s, c, from), Get(s, c, by) % Bits[c]))
    /\ \A s, c, to, from, by : Effect(s, I3("shrx", c, to, from, by)) =
          Put(s, c, to, Shift("shr", c, Get(s, c, from), Get(s, c, by) % Bits[c]))
    /\ \A s, c, to, from, by : Effect(s, I3("sarx", c, to, from, by)) =
          Put(s, c, to, Shift("sar", c, Get(s, c, from), Get(s, c, by) % Bits[c]))
    /\ \A s, c, to, from, by : Effect(s, I3("andn", c, to, from, by)) =
          [Put(s, c, to, Combine("and", Complement(c, Get(s, c, from)), Get(s, c, by))) EXCEPT
             !.flags = Flags(c, Combine("and", Complement(c, Get(s, c, from)), Get(s, c, by)), 0, 0)]
    /\ \A s, c, to, from, by : Effect(s, I3("bzhi", c, to, from, by)) =
          [Put(s, c, to, Get(s, c, from) % Pow2(Get(s, c, by))) EXCEPT
             !.flags = Flags(c, Get(s, c, from) % Pow2(Get(s, c, by)), Undef, 0)]
  BY DEF Effect, I3, AluOps

LEMMA EffectOfWide ==
    /\ \A s, c, to, from, arg : Effect(s, Iw("movzx", c, to, from, arg)) = Put(s, c, to, Get(s, arg, from))
    /\ \A s, c, to, from, arg : Effect(s, Iw("movsx", c, to, from, arg)) = Put(s, c, to, Signed(arg, Get(s, arg, from)))
    /\ \A s, c, to, from, arg : Effect(s, Iw("cmov", c, to, from, arg)) =
          Put(s, c, to, IF Holds(arg, s.flags) THEN Get(s, c, from) ELSE Get(s, c, to))
    /\ \A s, c, to, from, arg : Effect(s, Iw("setcc", c, to, from, arg)) = Put(s, "b", to, Bit(Holds(arg, s.flags)))
    /\ \A s, c, to, from, arg : Effect(s, Iw("skip", c, to, from, arg)) =
          [s EXCEPT !.skip = IF Holds(arg, s.flags) THEN from.at ELSE 0]
    /\ \A s, c, to, from, arg : Effect(s, Iw("popf", c, to, from, arg)) = [s EXCEPT !.flags = arg]
    /\ \A s : Effect(s, [op |-> "leave"]) = [s EXCEPT !.taken = TRUE]
  BY DEF Effect, Iw, AluOps

LEMMA BitIs == \A p \in BOOLEAN : Bit(p) \in {0, 1} /\ (Bit(p) = 1 <=> p) /\ (Bit(p) = 0 <=> ~p)
  BY DEF Bit

LEMMA FlagsType ==
    ASSUME NEW c \in Bytewide, NEW v \in Int, NEW p \in {0, 1, 2}, NEW o \in {0, 1, 2}
    PROVE  Flags(c, v, p, o) \in FlagWords
  <1>1. Bit(Low(c, v) = 0) \in {0, 1, 2} /\ Bit(Signed(c, v) < 0) \in {0, 1, 2}
    BY DEF Bit
  <1> QED
    BY <1>1 DEF Flags, FlagWords

LEMMA SumFlagsType ==
    ASSUME NEW c \in Bytewide, NEW a \in Int, NEW b \in Int
    PROVE  AddFlags(c, a, b) \in FlagWords /\ SubFlags(c, a, b) \in FlagWords
  <1>1. a + b \in Int /\ a - b \in Int
    BY SMT
  <1>2. /\ Bit(a + b >= Mod[c]) \in {0, 1, 2} /\ Bit(Signed(c, a) + Signed(c, b) # Signed(c, a + b)) \in {0, 1, 2}
        /\ Bit(a < b) \in {0, 1, 2} /\ Bit(Signed(c, a) - Signed(c, b) # Signed(c, a - b)) \in {0, 1, 2}
    BY DEF Bit
  <1>3. AddFlags(c, a, b) \in FlagWords
    BY <1>1, <1>2, FlagsType DEF AddFlags
  <1>4. SubFlags(c, a, b) \in FlagWords
    BY <1>1, <1>2, FlagsType DEF SubFlags
  <1> QED
    BY <1>3, <1>4

LEMMA AluType ==
    ASSUME NEW op \in AluOps, NEW c \in Bytewide, NEW a \in Int, NEW b \in Int
    PROVE  Alu(op, a, b) \in Int /\ AluFlags(op, c, a, b) \in FlagWords
  <1>1. CASE op \in Logic
    <2>1. Alu(op, a, b) = Combine(op, a, b) /\ Combine(op, a, b) \in Int
      BY <1>1, CombineType DEF Alu, Logic
    <2>2. AluFlags(op, c, a, b) = Flags(c, Alu(op, a, b), 0, 0)
      BY <1>1 DEF AluFlags, Logic
    <2> QED
      BY <2>1, <2>2, FlagsType
  <1>2. CASE op = "add"
    BY <1>2, SumFlagsType DEF Alu, AluFlags
  <1>3. CASE op = "sub"
    BY <1>3, SumFlagsType DEF Alu, AluFlags
  <1> QED
    BY <1>1, <1>2, <1>3, AluOpsAre

LEMMA ShiftType ==
    ASSUME NEW op \in {"shl", "shr", "sar"}, NEW c \in Bytewide, NEW v \in Int, NEW n \in Nat
    PROVE  Shift(op, c, v, n) \in Int
  <1>1. PICK p \in Nat \ {0} : p = Pow2(n)
    BY PowerType
  <1>2. Low(c, v) \in Int /\ Signed(c, v) \in Int
    BY LowType, SignedFacts
  <1>3. \A u \in Int : u * p \in Int /\ u \div p \in Int
    BY SMT
  <1> QED
    BY <1>1, <1>2, <1>3 DEF Shift

(* The forms that leave the stack and the control state alone. *)
IsTwo   == {"mov", "cmp"} \cup AluOps
IsThree == {"lea", "shlx", "shrx", "sarx", "andn", "bzhi"}

IsPlain(x, G) ==
    \/ /\ x = I(x.op, x.c, x.to, x.from) /\ x.c \in Bytewide
       /\ \/ x.op \in IsTwo /\ IsTarget(x.to, G) /\ IsSource(x.from, G)
          \/ x.op \in {"bt", "shl", "shr", "sar"} /\ IsPlace(x.to, G) /\ x.from = N(x.from.at) /\ x.from.at \in Nat
          \/ x.op \in {"mul", "div", "idiv"} /\ IsSource(x.from, G)
    \/ /\ x = I3(x.op, x.c, x.to, x.from, x.by) /\ x.c \in Bytewide /\ x.op \in IsThree
       /\ IsPlace(x.to, G) /\ IsSource(x.from, G) /\ IsSource(x.by, G)
    \/ /\ x = Iw(x.op, x.c, x.to, x.from, x.arg) /\ x.c \in Bytewide /\ IsPlace(x.to, G) /\ IsSource(x.from, G)
       /\ (x.op \in {"movzx", "movsx"} /\ x.arg \in Bytewide) \/ x.op \in {"cmov", "setcc"}
    \/ x.arg \in FlagWords /\ x = Iw("popf", "x", RAX, RAX, x.arg)
    \/ x = [op |-> "cdq", c |-> "w"]

(* t differs from s in what a plain instruction may change. *)
PlainStep(s, t, G) == t \in State(G) /\ t.stack = s.stack /\ t.skip = s.skip /\ t.taken = s.taken

LEMMA PutStep ==
    ASSUME NEW G, NEW s \in State(G), NEW c \in Bytewide, NEW o, IsTarget(o, G), NEW v \in Int
    PROVE  PlainStep(s, Put(s, c, o, v), G) /\ Put(s, c, o, v).flags = s.flags
  BY PutType DEF PlainStep, Frame

LEMMA PutFlagsStep ==
    ASSUME NEW G, NEW s \in State(G), NEW c \in Bytewide, NEW o, IsTarget(o, G), NEW v \in Int, NEW f \in FlagWords
    PROVE  PlainStep(s, [Put(s, c, o, v) EXCEPT !.flags = f], G)
  <1>1. Put(s, c, o, v) \in State(G) /\ Frame(s, Put(s, c, o, v))
    BY PutType
  <1>2. PICK t : t = Put(s, c, o, v)
    OBVIOUS
  <1>3. t \in State(G) /\ Frame(s, t)
    BY <1>1, <1>2
  <1>4. [t EXCEPT !.flags = f] \in State(G) /\ [t EXCEPT !.flags = f].stack = t.stack
        /\ [t EXCEPT !.flags = f].skip = t.skip /\ [t EXCEPT !.flags = f].taken = t.taken
    BY <1>3 DEF State
  <1> QED
    BY <1>2, <1>3, <1>4 DEF PlainStep, Frame

LEMMA RaxRdx == \A G : IsPlace(RAX, G) /\ IsPlace(RDX, G) /\ IsPlace(RSP, G)
  <1>1. {"rax", "rdx", "rsp"} \subseteq Names
    BY DEF Names, Direct
  <1> QED
    BY <1>1 DEF IsPlace, RAX, RDX, RSP

LEMMA TargetIsSource == \A G, o : (IsPlace(o, G) => IsTarget(o, G)) /\ (IsTarget(o, G) => IsSource(o, G))
  BY DEF IsTarget, IsSource

LEMMA NoFlagsType == NoFlags \in FlagWords /\ Undef \in {0, 1, 2}
  BY DEF NoFlags, FlagWords, Undef

LEMMA MultiplyType ==
    ASSUME NEW G, NEW s \in State(G), NEW c \in Bytewide, NEW by \in Words(c)
    PROVE  PlainStep(s, Multiply(s, c, by), G)
  <1> DEFINE p == Get(s, c, RAX) * by
             t == Put(s, c, RAX, p)
  <1>1. IsTarget(RAX, G) /\ IsTarget(RDX, G) /\ IsSource(RAX, G)
    BY RaxRdx, TargetIsSource
  <1>2. Get(s, c, RAX) \in Nat /\ by \in Int /\ Mod[c] \in Nat \ {0}
    BY <1>1, GetType, WordFacts, WidthFacts
  <1>3. p \in Int /\ p \div Mod[c] \in Int
    <2>1. \A a, b \in Int, m \in Nat \ {0} : a * b \in Int /\ (a * b) \div m \in Int
      BY SMT
    <2> QED
      BY <1>2, <2>1
  <1>4. Multiply(s, c, by) = [Put(t, c, RDX, p \div Mod[c]) EXCEPT !.flags = NoFlags]
    BY DEF Multiply
  <1> HIDE DEF p
  <1>5. PlainStep(s, t, G)
    BY <1>1, <1>3, PutStep
  <1> HIDE DEF t
  <1>6. PlainStep(t, [Put(t, c, RDX, p \div Mod[c]) EXCEPT !.flags = NoFlags], G)
    BY <1>1, <1>3, <1>5, PutFlagsStep, NoFlagsType DEF PlainStep
  <1> QED
    BY <1>4, <1>5, <1>6 DEF PlainStep

LEMMA QuotientType ==
    ASSUME NEW signed \in BOOLEAN, NEW c \in Bytewide, NEW hi \in Nat, NEW lo \in Nat, NEW by \in Words(c), by # 0
    PROVE  Quotient(signed, c, hi, lo, by) \in Int
  <1>1. PICK m \in Nat \ {0} : m = Mod[c]
    BY WidthFacts
  <1>2. by \in Nat \ {0} /\ by < m
    BY <1>1 DEF Words
  <1>3. Signed(c, by) \in Int /\ Signed(c, by) # 0
    <2>1. Low(c, by) = by
      BY LowId
    <2> QED
      BY <1>1, <1>2, <2>1, SMT DEF Signed
  <1>4. PICK n \in Int : n = IF signed /\ hi >= m \div 2 THEN (hi * m + lo) - m * m ELSE hi * m + lo
    <2>1. (hi * m + lo) - m * m \in Int /\ hi * m + lo \in Int
      BY SMT
    <2> QED
      BY <2>1, Zenon
  <1>5. PICK d \in Int : d = (IF signed THEN Signed(c, by) ELSE by) /\ d # 0
    BY <1>2, <1>3
  <1>6. PICK x \in Int : x = IF n < 0 THEN -n ELSE n
    BY SMT
  <1>7. PICK y \in Nat \ {0} : y = IF d < 0 THEN -d ELSE d
    BY <1>5, SMT
  <1>8. x \div y \in Int /\ -(x \div y) \in Int
    BY SMT
  <1>9. Quotient(signed, c, hi, lo, by) = IF (n < 0) = (d < 0) THEN x \div y ELSE -(x \div y)
    BY <1>1, <1>4, <1>5, <1>6, <1>7, Zenon DEF Quotient
  <1> QED
    BY <1>8, <1>9

LEMMA DivideType ==
    ASSUME NEW G, NEW s \in State(G), NEW signed \in BOOLEAN, NEW c \in Bytewide, NEW by \in Words(c)
    PROVE  PlainStep(s, Divide(s, signed, c, by), G)
  <1> DEFINE q == Quotient(signed, c, Get(s, c, RDX), Get(s, c, RAX), by)
  <1>1. IsTarget(RAX, G) /\ IsSource(RAX, G) /\ IsSource(RDX, G)
    BY RaxRdx, TargetIsSource
  <1>2. PlainStep(s, [s EXCEPT !.fault = TRUE], G)
    BY DEF PlainStep, State
  <1>3. by # 0 => q \in Int
    BY <1>1, GetType, QuotientType
  <1>4. by # 0 => PlainStep(s, [Put(s, c, RAX, q) EXCEPT !.flags = NoFlags], G)
    BY <1>1, <1>3, PutFlagsStep, NoFlagsType
  <1>5. Divide(s, signed, c, by) = IF by = 0 \/ ~Fits(signed, c, q) THEN [s EXCEPT !.fault = TRUE]
                                   ELSE [Put(s, c, RAX, q) EXCEPT !.flags = NoFlags]
    BY DEF Divide
  <1> QED
    BY <1>2, <1>4, <1>5

LEMMA EffectPlain ==
    ASSUME NEW G, NEW s \in State(G), NEW x, IsPlain(x, G)
    PROVE  PlainStep(s, Effect(s, x), G)
  <1>0. \A c \in Bytewide : \A v \in Words(c) : v \in Int
    BY WordFacts
  <1>f. s.flags \in FlagWords
    BY DEF State
  <1>g. \A f \in FlagWords : PlainStep(s, [s EXCEPT !.flags = f], G)
    BY DEF State, PlainStep
  <1>1. ASSUME NEW op \in IsTwo, NEW c \in Bytewide, NEW to, NEW from,
               IsTarget(to, G), IsSource(from, G), x = I(op, c, to, from)
        PROVE  PlainStep(s, Effect(s, x), G)
    <2>1. Get(s, c, to) \in Int /\ Get(s, c, from) \in Int
      BY <1>1, GetType, TargetIsSource
    <2>2. CASE op = "mov"
      BY <1>1, <2>1, <2>2, EffectOfMov, PutStep
    <2>3. CASE op = "cmp"
      BY <1>1, <2>1, <2>3, <1>g, EffectOfCmp, SumFlagsType
    <2>4. CASE op \in AluOps
      <3>1. Alu(op, Get(s, c, to), Get(s, c, from)) \in Int /\ AluFlags(op, c, Get(s, c, to), Get(s, c, from)) \in FlagWords
        BY <2>1, <2>4, AluType
      <3>2. Effect(s, x) = [Put(s, c, to, Alu(op, Get(s, c, to), Get(s, c, from))) EXCEPT
                              !.flags = AluFlags(op, c, Get(s, c, to), Get(s, c, from))]
        BY <1>1, <2>4, EffectOfAlu
      <3> QED
        BY <1>1, <3>1, <3>2, PutFlagsStep
    <2> QED
      BY <2>2, <2>3, <2>4 DEF IsTwo
  <1>2. ASSUME NEW op \in {"bt", "shl", "shr", "sar"}, NEW c \in Bytewide, NEW to, NEW n \in Nat,
               IsPlace(to, G), x = I(op, c, to, N(n))
        PROVE  PlainStep(s, Effect(s, x), G)
    <2>1. Get(s, c, to) \in Int /\ N(n).at = n /\ IsTarget(to, G)
      BY <1>2, GetType, TargetIsSource, OperandKinds
    <2>2. CASE op = "bt"
      <3>1. PICK p \in Nat \ {0} : p = Pow2(n)
        BY PowerType
      <3>2. \A v \in Int : (v \div p) % 2 \in {0, 1}
        BY SMT
      <3>3. Effect(s, x) = [s EXCEPT !.flags = [s.flags EXCEPT !.c = (Get(s, c, to) \div Pow2(n)) % 2, !.n = Undef, !.v = Undef]]
        <4>1. Effect(s, I("bt", c, to, N(n))) =
                 [s EXCEPT !.flags = [s.flags EXCEPT !.c = (Get(s, c, to) \div Pow2(N(n).at)) % 2, !.n = Undef, !.v = Undef]]
          BY DEF Effect, I, AluOps
        <4> QED
          BY <1>2, <2>1, <2>2, <4>1, Zenon
      <3>4. [s.flags EXCEPT !.c = (Get(s, c, to) \div Pow2(n)) % 2, !.n = Undef, !.v = Undef] \in FlagWords
        BY <2>1, <3>1, <3>2, <1>f, NoFlagsType DEF FlagWords
      <3> QED
        BY <3>3, <3>4, <1>g
    <2>3. CASE op \in {"shl", "shr", "sar"}
      <3> DEFINE v == Shift(op, c, Get(s, c, to), n)
                 f == IF n = 0 THEN s.flags ELSE Flags(c, v, Undef, Undef)
      <3>1. v \in Int
        BY <2>1, <2>3, ShiftType
      <3>2. f \in FlagWords
        BY <3>1, <1>f, FlagsType, NoFlagsType
      <3>3. Put(s, c, to, v).flags = s.flags
        BY <2>1, <3>1, PutStep
      <3>4. Effect(s, x) = [Put(s, c, to, v) EXCEPT !.flags = f]
        BY <1>2, <2>1, <2>3, <3>3, EffectOfShift
      <3> HIDE DEF v, f
      <3> QED
        BY <2>1, <3>1, <3>2, <3>4, PutFlagsStep
    <2> QED
      BY <2>2, <2>3
  <1>3. ASSUME NEW op \in {"mul", "div", "idiv"}, NEW c \in Bytewide, NEW to, NEW from,
               IsSource(from, G), x = I(op, c, to, from)
        PROVE  PlainStep(s, Effect(s, x), G)
    <2>1. Get(s, c, from) \in Words(c)
      BY <1>3, GetType
    <2>2. CASE op = "mul"
      BY <1>3, <2>1, <2>2, EffectOfDivide, MultiplyType
    <2>3. CASE op = "div"
      <3>1. Effect(s, x) = Divide(s, FALSE, c, Get(s, c, from))
        BY <1>3, <2>3, EffectOfDivide, Zenon
      <3>2. PlainStep(s, Divide(s, FALSE, c, Get(s, c, from)), G)
        BY <2>1, DivideType
      <3> QED
        BY <3>1, <3>2, Zenon
    <2>4. CASE op = "idiv"
      <3>1. Effect(s, x) = Divide(s, TRUE, c, Get(s, c, from))
        BY <1>3, <2>4, EffectOfDivide, Zenon
      <3>2. PlainStep(s, Divide(s, TRUE, c, Get(s, c, from)), G)
        BY <2>1, DivideType
      <3> QED
        BY <3>1, <3>2, Zenon
    <2> QED
      BY <2>2, <2>3, <2>4
  <1>4. ASSUME NEW op \in IsThree, NEW c \in Bytewide, NEW to, NEW from, NEW by,
               IsPlace(to, G), IsSource(from, G), IsSource(by, G), x = I3(op, c, to, from, by)
        PROVE  PlainStep(s, Effect(s, x), G)
    <2>1. PICK a \in Nat, b \in Nat : a = Get(s, c, from) /\ b = Get(s, c, by)
      BY <1>4, GetType
    <2>2. IsTarget(to, G)
      BY <1>4, TargetIsSource
    <2>3. CASE op = "lea"
      BY <1>4, <2>1, <2>2, <2>3, EffectOfThree, PutStep
    <2>4. CASE op \in {"shlx", "shrx", "sarx"}
      <3>1. b % Bits[c] \in Nat
        <4>1. PICK n \in Nat \ {0} : n = Bits[c]
          BY WidthFacts
        <4> QED
          BY <4>1, Division
      <3>2. \A o \in {"shl", "shr", "sar"} : Shift(o, c, a, b % Bits[c]) \in Int
        BY <3>1, ShiftType
      <3> QED
        BY <1>4, <2>1, <2>2, <2>4, <3>2, EffectOfThree, PutStep
    <2>5. CASE op = "andn"
      <3>1. Complement(c, a) \in Int
        BY LowType, WidthFacts, SMT DEF Complement
      <3>2. PICK v \in Int : v = Combine("and", Complement(c, a), b)
        BY <3>1, CombineType
      <3>3. Effect(s, x) = [Put(s, c, to, v) EXCEPT !.flags = Flags(c, v, 0, 0)]
        BY <1>4, <2>1, <2>5, <3>2, EffectOfThree
      <3>4. Flags(c, v, 0, 0) \in FlagWords
        BY FlagsType
      <3> QED
        BY <2>2, <3>3, <3>4, PutFlagsStep
    <2>6. CASE op = "bzhi"
      <3>1. Pow2(b) \in Nat \ {0}
        BY PowerType
      <3>2. PICK v \in Int : v = a % Pow2(b)
        BY <3>1, Division
      <3>3. Effect(s, x) = [Put(s, c, to, v) EXCEPT !.flags = Flags(c, v, Undef, 0)]
        BY <1>4, <2>1, <2>6, <3>2, EffectOfThree
      <3>4. Flags(c, v, Undef, 0) \in FlagWords
        BY FlagsType, NoFlagsType
      <3> QED
        BY <2>2, <3>3, <3>4, PutFlagsStep
    <2> QED
      BY <2>3, <2>4, <2>5, <2>6 DEF IsThree
  <1>5. ASSUME NEW op \in {"movzx", "movsx"}, NEW c \in Bytewide, NEW to, NEW from, NEW w \in Bytewide,
               IsPlace(to, G), IsSource(from, G), x = Iw(op, c, to, from, w)
        PROVE  PlainStep(s, Effect(s, x), G)
    <2>1. Get(s, w, from) \in Int /\ Signed(w, Get(s, w, from)) \in Int /\ IsTarget(to, G)
      BY <1>5, GetType, SignedFacts, TargetIsSource
    <2> QED
      BY <1>5, <2>1, EffectOfWide, PutStep
  <1>6. ASSUME NEW op \in {"cmov", "setcc"}, NEW c \in Bytewide, NEW to, NEW from, NEW cc,
               IsPlace(to, G), IsSource(from, G), x = Iw(op, c, to, from, cc)
        PROVE  PlainStep(s, Effect(s, x), G)
    <2>1. Get(s, c, from) \in Int /\ Get(s, c, to) \in Int /\ IsTarget(to, G)
      BY <1>6, GetType, TargetIsSource
    <2>2. (IF Holds(cc, s.flags) THEN Get(s, c, from) ELSE Get(s, c, to)) \in Int
      BY <2>1
    <2>3. Bit(Holds(cc, s.flags)) \in Int /\ "b" \in Bytewide
      BY DEF Bit, Bytewide
    <2>4. CASE op = "cmov"
      BY <1>6, <2>1, <2>2, <2>4, EffectOfWide, PutStep
    <2>5. CASE op = "setcc"
      BY <1>6, <2>1, <2>3, <2>5, EffectOfWide, PutStep
    <2> QED
      BY <2>4, <2>5
  <1>7. ASSUME NEW f \in FlagWords, x = Iw("popf", "x", RAX, RAX, f)
        PROVE  PlainStep(s, Effect(s, x), G)
    BY <1>7, <1>g, EffectOfWide
  <1>8. ASSUME x = [op |-> "cdq", c |-> "w"] PROVE PlainStep(s, Effect(s, x), G)
    <2>1. "w" \in Bytewide /\ IsTarget(RDX, G)
      BY RaxRdx, TargetIsSource DEF Bytewide
    <2>2. Effect(s, x) = Put(s, "w", RDX, IF Signed("w", s.reg["rax"]) < 0 THEN -1 ELSE 0)
      BY <1>8, EffectOfDivide
    <2> QED
      BY <2>1, <2>2, PutStep
  <1> QED
    BY <1>1, <1>2, <1>3, <1>4, <1>5, <1>6, <1>7, <1>8 DEF IsPlain

LEMMA ExecPlain ==
    ASSUME NEW G, NEW s \in State(G), s.skip = 0, NEW x, IsPlain(x, G)
    PROVE  PlainStep(s, Exec(s, x), G)
  <1>1. PlainStep(s, s, G)
    BY DEF PlainStep
  <1>2. Exec(s, x) = s \/ Exec(s, x) = Effect(s, x)
    BY SMT DEF Exec
  <1> QED
    BY <1>1, <1>2, EffectPlain

IsPlainCode(a, G) == IsCode(a) /\ \A k \in 1 .. Len(a) : IsPlain(a[k], G)

LEMMA RunPlain ==
    ASSUME NEW G, NEW s \in State(G), s.skip = 0, NEW a, IsPlainCode(a, G)
    PROVE  PlainStep(s, Run(s, a), G)
  <1>1. PICK g : IsRun(g, s, a) /\ Run(s, a) = g[Len(a)]
    BY RunFunction DEF IsPlainCode
  <1>2. PICK n \in Nat : n = Len(a)
    BY CodeLength DEF IsPlainCode
  <1> DEFINE P == {k \in Nat : k <= n => PlainStep(s, g[k], G)}
  <1>3. 0 \in P
    BY <1>1 DEF IsRun, PlainStep
  <1>4. ASSUME NEW k \in P PROVE k + 1 \in P
    <2>1. k \in Nat /\ k + 1 \in Nat /\ (k + 1) - 1 = k /\ (k + 1 <= n => k <= n /\ k + 1 \in 1 .. n)
      BY SMT
    <2>2. SUFFICES ASSUME k + 1 <= n PROVE PlainStep(s, g[k + 1], G)
      BY <2>1
    <2>3. PlainStep(s, g[k], G) /\ IsPlain(a[k + 1], G) /\ g[k + 1] = Exec(g[k], a[k + 1])
      BY <1>1, <1>2, <2>1, <2>2 DEF IsRun, IsPlainCode
    <2>4. PlainStep(g[k], g[k + 1], G)
      BY <2>3, ExecPlain DEF PlainStep
    <2> QED
      BY <2>3, <2>4 DEF PlainStep
  <1>5. P = Nat
    <2> HIDE DEF P
    <2>1. P \in SUBSET Nat
      BY DEF P
    <2> QED
      BY <1>3, <1>4, <2>1, Counting
  <1>6. n <= n
    BY SMT
  <1> QED
    BY <1>1, <1>2, <1>5, <1>6

------------------------------------------------------------------------------
(* What can be encoded.  Good code runs and is plain, Bad code panics.     *)

Zero       == [k |-> "zero"]
IsHome(t, G) == IsPlace(t, G) \/ t = Zero
IsTo(t, G)   == IsTarget(t, G) \/ t = Zero
IsFrom(t, G) == IsSource(t, G) \/ t = Zero

NoRefusal(a) == IsCode(a) /\ \A k \in 1 .. Len(a) : a[k].op # "refuse"
Encodable(a) == \A k \in 1 .. Len(a) : ~Unencodable(a[k])
Good(a, G)   == NoRefusal(a) /\ Encodable(a) /\ IsPlainCode(a, G)
Bad(a)       == NoRefusal(a) /\ ~Encodable(a)

(* Code that has the operands S can be encoded unless one of them is xzr. *)
Coded(a, S, G) == IF Zero \in S THEN Bad(a) ELSE Good(a, G)

LEMMA PlaceKinds ==
    ASSUME NEW G, NEW t
    PROVE  /\ IsPlace(t, G) => \/ t.k = "reg" /\ t.at \in Names /\ t = R(t.at)
                               \/ t.k = "cell" /\ t.at \in G /\ t = Cell(t.at)
           /\ IsPlace(t, G) => t # Zero
           /\ IsSource(t, G) => t # Zero
           /\ IsHome(t, G) => (t.k = "zero" <=> t = Zero) /\ (is_indirect(t) <=> t.k # "reg") /\ t.k \in {"reg", "cell", "zero"}
  <1>1. Zero.k = "zero"
    BY DEF Zero
  <1>2. ASSUME IsPlace(t, G)
        PROVE  \/ t.k = "reg" /\ t.at \in Names /\ t = R(t.at)
               \/ t.k = "cell" /\ t.at \in G /\ t = Cell(t.at)
    BY <1>2, OperandKinds DEF IsPlace
  <1>3. ASSUME IsSource(t, G) PROVE t.k # "zero"
    BY <1>3, OperandKinds DEF IsSource, IsTarget, IsPlace
  <1>4. IsPlace(t, G) => IsSource(t, G)
    BY TargetIsSource
  <1> QED
    BY <1>1, <1>2, <1>3, <1>4 DEF IsHome, is_indirect

LEMMA NotZero ==
    /\ \A n : R(n) # Zero /\ Cell(n) # Zero /\ N(n) # Zero
    /\ \A n, d : M(n, d) # Zero
  <1>1. Zero.k = "zero"
    BY DEF Zero
  <1> QED
    BY <1>1, OperandKinds

LEMMA EmptyCode == \A G : Coded(<<>>, {}, G)
  BY RunShort DEF Coded, Good, NoRefusal, Encodable, IsPlainCode

LEMMA CodedConcat ==
    ASSUME NEW G, NEW a, NEW b, NEW S, NEW T, Coded(a, S, G), Coded(b, T, G)
    PROVE  Coded(a \o b, S \cup T, G)
  <1>1. IsCode(a) /\ IsCode(b) /\ NoRefusal(a) /\ NoRefusal(b)
    BY DEF Coded, Good, Bad, NoRefusal
  <1>2. PICK A, B : a \in Seq(A) /\ b \in Seq(B)
    BY <1>1 DEF IsCode
  <1>3. a \in Seq(A \cup B) /\ b \in Seq(A \cup B)
    BY <1>2
  <1>4. Len(a \o b) = Len(a) + Len(b)
        /\ \A k \in 1 .. Len(a) + Len(b) : (a \o b)[k] = IF k <= Len(a) THEN a[k] ELSE b[k - Len(a)]
    BY <1>3, ConcatProperties
  <1>5. Len(a) \in Nat /\ Len(b) \in Nat
    BY <1>1, CodeLength
  <1>6. \A k \in 1 .. Len(a \o b) : (k \in 1 .. Len(a) /\ (a \o b)[k] = a[k])
                                   \/ (k - Len(a) \in 1 .. Len(b) /\ (a \o b)[k] = b[k - Len(a)])
    BY <1>4, <1>5, SMT
  <1>7. \A k \in 1 .. Len(a) : k \in 1 .. Len(a \o b) /\ (a \o b)[k] = a[k]
    BY <1>4, <1>5, SMT
  <1>8. \A k \in 1 .. Len(b) : Len(a) + k \in 1 .. Len(a \o b) /\ (a \o b)[Len(a) + k] = b[k]
    <2> TAKE k \in 1 .. Len(b)
    <2>1. Len(a) + k \in 1 .. Len(a) + Len(b) /\ ~(Len(a) + k <= Len(a)) /\ (Len(a) + k) - Len(a) = k
      BY <1>5, SMT
    <2> QED
      BY <1>4, <2>1
  <1>9. IsCode(a \o b)
    BY <1>1, RunConcat
  <1>10. NoRefusal(a \o b)
    BY <1>1, <1>6, <1>9 DEF NoRefusal
  <1>11. Good(a, G) /\ Good(b, G) => Good(a \o b, G)
    <2>1. Encodable(a) /\ Encodable(b) => Encodable(a \o b)
      BY <1>6 DEF Encodable
    <2>2. IsPlainCode(a, G) /\ IsPlainCode(b, G) => IsPlainCode(a \o b, G)
      BY <1>6, <1>9 DEF IsPlainCode
    <2> QED
      BY <1>10, <2>1, <2>2 DEF Good
  <1>12. Bad(a) \/ Bad(b) => Bad(a \o b)
    <2>1. ~Encodable(a) => ~Encodable(a \o b)
      BY <1>7 DEF Encodable
    <2>2. ~Encodable(b) => ~Encodable(a \o b)
      BY <1>8 DEF Encodable
    <2> QED
      BY <1>10, <2>1, <2>2 DEF Bad
  <1> QED
    BY <1>11, <1>12 DEF Coded

LEMMA CodedOperands ==
    ASSUME NEW G, NEW a, NEW S, NEW T, Coded(a, S, G), Zero \in S <=> Zero \in T
    PROVE  Coded(a, T, G)
  BY DEF Coded

LEMMA CodedThree ==
    ASSUME NEW G, NEW a, NEW b, NEW d, NEW S, NEW T, Coded(a, S, G), Coded(b, T, G), Coded(d, {}, G)
    PROVE  Coded(a \o b \o d, S \cup T, G)
  <1>1. Coded(a \o b, S \cup T, G)
    BY CodedConcat
  <1>2. Coded((a \o b) \o d, (S \cup T) \cup {}, G)
    BY <1>1, CodedConcat
  <1> QED
    BY <1>2, CodedOperands

LEMMA TwoParts ==
    ASSUME NEW x, NEW y
    PROVE  <<x, y>> = <<x>> \o <<y>>
  <1>1. <<x>> \in Seq({x, y}) /\ <<y>> \in Seq({x, y}) /\ <<x, y>> \in Seq({x, y})
    OBVIOUS
  <1>2. Len(<<x>>) = 1 /\ Len(<<y>>) = 1 /\ Len(<<x, y>>) = 2
    OBVIOUS
  <1>3. <<x>> \o <<y>> \in Seq({x, y}) /\ Len(<<x>> \o <<y>>) = 2
    BY <1>1, <1>2, ConcatProperties
  <1>4. (<<x>> \o <<y>>)[1] = x /\ (<<x>> \o <<y>>)[2] = y
    <2>1. \A i \in 1 .. 2 : (<<x>> \o <<y>>)[i] = IF i <= 1 THEN <<x>>[i] ELSE <<y>>[i - 1]
      BY <1>1, <1>2, ConcatProperties
    <2> QED
      BY <2>1
  <1>5. \A i \in 1 .. 2 : (<<x>> \o <<y>>)[i] = <<x, y>>[i]
    BY <1>4
  <1> QED
    BY <1>1, <1>2, <1>3, <1>5, SeqEqual

LEMMA OneCode ==
    ASSUME NEW G, NEW x, x.op \notin {"refuse"}
    PROVE  /\ ~Unencodable(x) /\ IsPlain(x, G) => Good(<<x>>, G)
           /\ Unencodable(x) => Bad(<<x>>)
  <1>1. Len(<<x>>) = 1 /\ \A k \in 1 .. 1 : <<x>>[k] = x
    BY SMT
  <1>2. IsCode(<<x>>) /\ 1 \in 1 .. 1
    BY RunShort
  <1> HIDE DEF IsPlain, Unencodable
  <1> QED
    BY <1>1, <1>2 DEF Good, Bad, NoRefusal, Encodable, IsPlainCode

LEMMA PanicsIff ==
    ASSUME NEW a
    PROVE  /\ \A G : Good(a, G) => ~Panics(a) /\ ~Refused(a)
           /\ Bad(a) => Panics(a) /\ ~Refused(a)
  <1>1. ASSUME NoRefusal(a) PROVE ~Refused(a) /\ \A j \in DOMAIN a : ~Refused(SubSeq(a, 1, j))
    <2>1. DOMAIN a = 1 .. Len(a) /\ Len(a) \in Nat
      BY <1>1, CodeLength DEF NoRefusal
    <2>2. ~Refused(a)
      BY <1>1, <2>1 DEF Refused, NoRefusal
    <2>3. ASSUME NEW j \in DOMAIN a PROVE ~Refused(SubSeq(a, 1, j))
      <3>1. PICK S : a \in Seq(S)
        BY <1>1 DEF NoRefusal, IsCode
      <3>2. SubSeq(a, 1, j) \in Seq(S) /\ Len(SubSeq(a, 1, j)) = j /\ \A k \in 1 .. j : SubSeq(a, 1, j)[k] = a[k]
        BY <2>1, <3>1
      <3>3. DOMAIN SubSeq(a, 1, j) = 1 .. j
        BY <3>2
      <3>4. \A k \in 1 .. j : k \in 1 .. Len(a)
        BY <2>1, SMT
      <3> QED
        BY <1>1, <3>2, <3>3, <3>4 DEF Refused, NoRefusal
    <2> QED
      BY <2>2, <2>3
  <1>2. IsCode(a) => DOMAIN a = 1 .. Len(a)
    BY CodeLength
  <1> QED
    BY <1>1, <1>2 DEF Good, Bad, Panics, Encodable, NoRefusal

------------------------------------------------------------------------------
(* What the sequences of Operands and their parts can be encoded as *)

LEMMA OneCoded ==
    ASSUME NEW G, NEW x, NEW S, x.op # "refuse", Unencodable(x) <=> Zero \in S, Zero \notin S => IsPlain(x, G)
    PROVE  Coded(<<x>>, S, G)
  <1> HIDE DEF IsPlain, Unencodable
  <1> QED
    BY OneCode DEF Coded

LEMMA TwoCode ==
    ASSUME NEW G, NEW op \in IsTwo, NEW c \in Bytewide, NEW to, NEW from, IsTo(to, G), IsFrom(from, G)
    PROVE  Coded(<<I(op, c, to, from)>>, {to, from}, G)
  <1> DEFINE x == I(op, c, to, from)
  <1>1. x.op = op /\ x.c = c /\ x.to = to /\ x.from = from /\ x = I(x.op, x.c, x.to, x.from) /\ DOMAIN x = {"op", "c", "to", "from"}
    BY DEF I
  <1>2. op # "refuse" /\ op # "panic"
    BY DEF IsTwo, AluOps
  <1>3. Unencodable(x) <=> Zero \in {to, from}
    BY <1>1, <1>2 DEF Unencodable, Zero
  <1> HIDE DEF x
  <1>4. Zero \notin {to, from} => IsPlain(x, G)
    BY <1>1 DEF IsPlain, IsTo, IsFrom
  <1>5. Coded(<<x>>, {to, from}, G)
    BY <1>1, <1>2, <1>3, <1>4, OneCoded
  <1> QED
    BY <1>5 DEF x

LEMMA NumberCode ==
    ASSUME NEW G, NEW op \in IsTwo, NEW c \in Bytewide, NEW to, IsTo(to, G), NEW n \in Int
    PROVE  Coded(<<I(op, c, to, N(n))>>, {to}, G)
  <1>1. PICK v : v = N(n) /\ IsFrom(v, G) /\ v # Zero
    BY NotZero DEF IsFrom, IsSource
  <1>2. Coded(<<I(op, c, to, v)>>, {to, v}, G)
    BY <1>1, TwoCode
  <1>3. Zero \in {to, v} <=> Zero \in {to}
    BY <1>1
  <1>4. Coded(<<I(op, c, to, v)>>, {to}, G)
    BY <1>2, <1>3, CodedOperands
  <1> QED
    BY <1>1, <1>4

(* The scratch register, cleared or set. *)
LEMMA RaxCode ==
    ASSUME NEW G, NEW op \in IsTwo, NEW c \in Bytewide, NEW n \in Int
    PROVE  Coded(<<I(op, c, RAX, N(n))>>, {}, G)
  <1>1. PICK r : r = RAX /\ IsTo(r, G) /\ r # Zero
    BY RaxRdx, TargetIsSource, NotZero DEF RAX, IsTo
  <1>2. Coded(<<I(op, c, r, N(n))>>, {r}, G)
    BY <1>1, NumberCode
  <1>3. Coded(<<I(op, c, r, N(n))>>, {}, G)
    BY <1>1, <1>2, CodedOperands
  <1> QED
    BY <1>1, <1>3

LEMMA ConstCode ==
    ASSUME NEW G, NEW op \in {"bt", "shl", "shr", "sar"}, NEW c \in Bytewide, NEW to, IsHome(to, G), NEW n \in Nat
    PROVE  Coded(<<I(op, c, to, N(n))>>, {to}, G)
  <1> DEFINE x == I(op, c, to, N(n))
  <1>1. x.op = op /\ x.c = c /\ x.to = to /\ x.from = N(n) /\ x = I(x.op, x.c, x.to, x.from) /\ DOMAIN x = {"op", "c", "to", "from"}
    BY DEF I
  <1>2. op # "refuse" /\ op # "panic" /\ N(n) # Zero
    BY NotZero
  <1>3. Unencodable(x) <=> Zero \in {to}
    BY <1>1, <1>2 DEF Unencodable, Zero
  <1>4. ASSUME Zero \notin {to} PROVE IsPlain(x, G)
    <2>1. IsPlace(to, G)
      BY <1>4 DEF IsHome
    <2> QED
      BY <1>1, <2>1, OperandKinds DEF IsPlain
  <1> HIDE DEF x
  <1>5. Coded(<<x>>, {to}, G)
    BY <1>1, <1>2, <1>3, <1>4, OneCoded
  <1> QED
    BY <1>5 DEF x

LEMMA DivideCode ==
    ASSUME NEW G, NEW op \in {"mul", "div", "idiv"}, NEW c \in Bytewide, NEW from, IsHome(from, G)
    PROVE  Coded(<<I(op, c, RAX, from)>>, {from}, G)
  <1> DEFINE x == I(op, c, RAX, from)
  <1>1. x.op = op /\ x.c = c /\ x.to = RAX /\ x.from = from /\ x = I(x.op, x.c, x.to, x.from) /\ DOMAIN x = {"op", "c", "to", "from"}
    BY DEF I
  <1>2. op # "refuse" /\ op # "panic" /\ RAX # Zero
    BY NotZero DEF RAX
  <1>3. Unencodable(x) <=> Zero \in {from}
    BY <1>1, <1>2 DEF Unencodable, Zero
  <1>4. Zero \notin {from} => IsPlain(x, G)
    <2>1. Zero \notin {from} => IsSource(from, G)
      BY TargetIsSource DEF IsHome
    <2> HIDE DEF x
    <2> QED
      BY <1>1, <2>1 DEF IsPlain
  <1> HIDE DEF x
  <1>5. Coded(<<x>>, {from}, G)
    BY <1>1, <1>2, <1>3, <1>4, OneCoded
  <1> QED
    BY <1>5 DEF x

LEMMA ThreeCode ==
    ASSUME NEW G, NEW op \in IsThree, NEW c \in Bytewide, NEW to, IsPlace(to, G),
           NEW from, NEW by, IsFrom(from, G), IsFrom(by, G)
    PROVE  Coded(<<I3(op, c, to, from, by)>>, {from, by}, G)
  <1> DEFINE x == I3(op, c, to, from, by)
  <1>1. x.op = op /\ x.c = c /\ x.to = to /\ x.from = from /\ x.by = by /\ x = I3(x.op, x.c, x.to, x.from, x.by)
        /\ DOMAIN x = {"op", "c", "to", "from", "by"}
    BY DEF I3
  <1>2. op # "refuse" /\ op # "panic" /\ to # Zero
    BY PlaceKinds DEF IsThree
  <1>3. Unencodable(x) <=> Zero \in {from, by}
    BY <1>1, <1>2 DEF Unencodable, Zero
  <1> HIDE DEF x
  <1>4. Zero \notin {from, by} => IsPlain(x, G)
    BY <1>1 DEF IsPlain, IsFrom
  <1>5. Coded(<<x>>, {from, by}, G)
    BY <1>1, <1>2, <1>3, <1>4, OneCoded
  <1> QED
    BY <1>5 DEF x

LEMMA WideCode ==
    ASSUME NEW G, NEW op \in {"movzx", "movsx", "cmov", "setcc"}, NEW c \in Bytewide, NEW to, IsHome(to, G),
           NEW from, IsFrom(from, G), NEW arg, op \in {"movzx", "movsx"} => arg \in Bytewide
    PROVE  Coded(<<Iw(op, c, to, from, arg)>>, {to, from}, G)
  <1> DEFINE x == Iw(op, c, to, from, arg)
  <1>1. x.op = op /\ x.c = c /\ x.to = to /\ x.from = from /\ x.arg = arg /\ x = Iw(x.op, x.c, x.to, x.from, x.arg)
        /\ DOMAIN x = {"op", "c", "to", "from", "arg"}
    BY DEF Iw
  <1>2. op # "refuse" /\ op # "panic"
    OBVIOUS
  <1>3. Unencodable(x) <=> Zero \in {to, from}
    BY <1>1, <1>2 DEF Unencodable, Zero
  <1>4. ASSUME Zero \notin {to, from} PROVE IsPlain(x, G)
    <2>1. IsPlace(to, G) /\ IsSource(from, G)
      BY <1>4 DEF IsHome, IsFrom
    <2> HIDE DEF x
    <2> QED
      BY <1>1, <2>1 DEF IsPlain
  <1> HIDE DEF x
  <1>5. Coded(<<x>>, {to, from}, G)
    BY <1>1, <1>2, <1>3, <1>4, OneCoded
  <1> QED
    BY <1>5 DEF x

LEMMA HomeOperand ==
    ASSUME NEW G, NEW t, IsHome(t, G)
    PROVE  /\ IsTo(t, G) /\ IsFrom(t, G)
           /\ IsPlace(reg_operand(t), G) /\ reg_operand(t) # Zero /\ IsHome(reg_operand(t), G)
           /\ reg_operand(t).k = "reg"
           /\ IsTo(reg_operand(t), G) /\ IsFrom(reg_operand(t), G)
  <1>1. IsPlace(RAX, G) /\ RAX # Zero /\ RAX.k = "reg"
    BY RaxRdx, NotZero, OperandKinds DEF RAX
  <1>2. t.k = "reg" => IsPlace(t, G) /\ t # Zero
    BY PlaceKinds DEF IsHome, Zero
  <1>3. \A u : IsPlace(u, G) => IsTo(u, G) /\ IsFrom(u, G)
    BY TargetIsSource DEF IsTo, IsFrom
  <1>4. IsPlace(reg_operand(t), G) /\ reg_operand(t) # Zero /\ reg_operand(t).k = "reg"
    BY <1>1, <1>2 DEF reg_operand
  <1>5. IsTo(t, G) /\ IsFrom(t, G)
    BY <1>3 DEF IsHome, IsTo, IsFrom
  <1> QED
    BY <1>3, <1>4, <1>5 DEF IsHome

LEMMA RaxHome == \A G : IsHome(RAX, G) /\ RAX # Zero /\ IsTo(RAX, G) /\ IsFrom(RAX, G) /\ IsPlace(RAX, G) /\ RAX.k = "reg"
  BY RaxRdx, TargetIsSource, NotZero, OperandKinds DEF RAX, IsHome, IsTo, IsFrom

LEMMA PreReadCode ==
    ASSUME NEW G, NEW t, IsHome(t, G), NEW c \in Bytewide
    PROVE  Coded(pre_read(t, c), {}, G) /\ Coded(post_write(t, c), {}, G)
  <1>1. IsTo(RAX, G) /\ IsFrom(RAX, G) /\ RAX # Zero
    BY RaxHome
  <1>2. "w" \in Bytewide /\ "xor" \in IsTwo /\ "mov" \in IsTwo
    BY DEF Bytewide, IsTwo, AluOps
  <1>3. IsTo(t, G) /\ IsFrom(t, G)
    BY HomeOperand
  <1>4. t.k = "cell" => t # Zero
    BY DEF Zero
  <1>5. Coded(<<I("mov", c, RAX, t)>>, {RAX, t}, G)
    <2>1. \A u : IsTo(u, G) => Coded(<<I("mov", c, u, t)>>, {u, t}, G)
      BY <1>2, <1>3, TwoCode
    <2> QED
      BY <1>1, <2>1
  <1>6. Coded(<<I("mov", c, t, RAX)>>, {t, RAX}, G)
    <2>1. \A u : IsFrom(u, G) => Coded(<<I("mov", c, t, u)>>, {t, u}, G)
      BY <1>2, <1>3, TwoCode
    <2> QED
      BY <1>1, <2>1
  <1>7. Coded(<<I("xor", "w", RAX, RAX)>>, {RAX}, G)
    <2>1. \A u, v : IsTo(u, G) /\ IsFrom(v, G) => Coded(<<I("xor", "w", u, v)>>, {u, v}, G)
      BY <1>2, TwoCode
    <2>2. Coded(<<I("xor", "w", RAX, RAX)>>, {RAX, RAX}, G)
      BY <1>1, <2>1
    <2> QED
      BY <2>2, CodedOperands
  <1>8. Coded(<<I("mov", c, RAX, t)>>, {}, G) \/ t.k # "cell"
    BY <1>1, <1>4, <1>5, CodedOperands
  <1>9. Coded(<<I("mov", c, t, RAX)>>, {}, G) \/ t.k # "cell"
    BY <1>1, <1>4, <1>6, CodedOperands
  <1>10. Coded(<<I("xor", "w", RAX, RAX)>>, {}, G)
    BY <1>1, <1>7, CodedOperands
  <1>11. t.k \in {"reg", "cell", "zero"}
    BY PlaceKinds
  <1> QED
    BY <1>8, <1>9, <1>10, <1>11, EmptyCode DEF pre_read, post_write

LEMMA RrCode ==
    ASSUME NEW G, NEW op \in IsTwo, NEW c \in Bytewide, NEW dest, IsHome(dest, G), NEW src, IsHome(src, G),
           NEW reads \in BOOLEAN, NEW writes \in BOOLEAN
    PROVE  Coded(make_rr_impl(op, c, dest, src, reads, writes), {dest, src}, G)
  <1>1. IsTo(RAX, G) /\ RAX # Zero /\ IsTo(dest, G) /\ IsFrom(src, G)
    BY RaxHome, HomeOperand
  <1>2. CASE dest.k = "cell" /\ src.k = "cell"
    <2>1. dest # Zero /\ src # Zero
      BY <1>2 DEF Zero
    <2> DEFINE a == IF reads THEN pre_read(dest, c) ELSE <<>>
               b == <<I(op, c, RAX, src)>>
               d == IF writes THEN post_write(dest, c) ELSE <<>>
    <2>2. Coded(a, {}, G) /\ Coded(d, {}, G)
      BY PreReadCode, EmptyCode
    <2>3. Coded(b, {RAX, src}, G)
      <3>1. \A u : IsTo(u, G) => Coded(<<I(op, c, u, src)>>, {u, src}, G)
        BY <1>1, TwoCode
      <3> QED
        BY <1>1, <3>1
    <2>4. make_rr_impl(op, c, dest, src, reads, writes) = a \o b \o d
      BY <1>2 DEF make_rr_impl
    <2> HIDE DEF a, b, d
    <2>5. Coded(a \o b \o d, {} \cup {RAX, src}, G)
      BY <2>2, <2>3, CodedThree
    <2>6. Zero \in {} \cup {RAX, src} <=> Zero \in {dest, src}
      BY <1>1, <2>1
    <2> QED
      BY <2>4, <2>5, <2>6, CodedOperands
  <1>3. CASE ~(dest.k = "cell" /\ src.k = "cell")
    <2>1. make_rr_impl(op, c, dest, src, reads, writes) = <<I(op, c, dest, src)>>
      BY <1>3 DEF make_rr_impl
    <2>2. Coded(<<I(op, c, dest, src)>>, {dest, src}, G)
      BY <1>1, TwoCode
    <2> QED
      BY <2>1, <2>2
  <1> QED
    BY <1>2, <1>3

LEMMA MakeRrCode ==
    ASSUME NEW G, NEW op \in IsTwo, NEW c \in Bytewide, NEW dest, IsHome(dest, G), NEW src, IsHome(src, G)
    PROVE  Coded(make_rr(op, c, dest, src), {dest, src}, G)
  BY RrCode DEF make_rr

LEMMA MovCode ==
    ASSUME NEW G, NEW c \in Bytewide, NEW dest, IsHome(dest, G), NEW src, IsHome(src, G)
    PROVE  Coded(make_mov_rr(c, dest, src), {dest}, G)
  <1>1. src.k = "zero" <=> src = Zero
    BY PlaceKinds
  <1>2. "mov" \in IsTwo /\ "xor" \in IsTwo
    BY DEF IsTwo, AluOps
  <1>3. CASE src = Zero
    <2>1. make_mov_rr(c, dest, src) = make_rr_impl("xor", c, dest, dest, TRUE, TRUE)
      BY <1>1, <1>3 DEF make_mov_rr, make_rr
    <2>2. Coded(make_rr_impl("xor", c, dest, dest, TRUE, TRUE), {dest, dest}, G)
      BY <1>2, RrCode
    <2> QED
      BY <2>1, <2>2, CodedOperands
  <1>4. CASE src # Zero
    <2>1. make_mov_rr(c, dest, src) = make_rr_impl("mov", c, dest, src, FALSE, TRUE)
      BY <1>1, <1>4 DEF make_mov_rr
    <2>2. Coded(make_rr_impl("mov", c, dest, src, FALSE, TRUE), {dest, src}, G)
      BY <1>2, RrCode
    <2> QED
      BY <1>4, <2>1, <2>2, CodedOperands
  <1> QED
    BY <1>3, <1>4

LEMMA SignedInt == \A imm \in Int : Signed("w", imm) \in Int
  BY SignedFacts DEF Bytewide

LEMMA RiCode ==
    ASSUME NEW G, NEW op \in IsTwo, NEW c \in Bytewide, NEW dest, IsHome(dest, G), NEW imm \in Int
    PROVE  Coded(make_ri(op, c, dest, imm), {dest}, G)
  <1>1. PICK n : n = N(Signed("w", imm)) /\ IsSource(n, G) /\ n # Zero
    BY SignedInt, NotZero DEF IsSource
  <1>2. IsTo(dest, G)
    BY HomeOperand
  <1>3. make_ri(op, c, dest, imm) = <<I(op, c, dest, n)>>
    BY <1>1 DEF make_ri
  <1>4. IsFrom(n, G)
    BY <1>1 DEF IsFrom
  <1>5. Coded(<<I(op, c, dest, n)>>, {dest, n}, G)
    BY <1>2, <1>4, TwoCode
  <1>6. Zero \in {dest, n} <=> Zero \in {dest}
    BY <1>1
  <1> QED
    BY <1>3, <1>5, <1>6, CodedOperands

LEMMA RrrCode ==
    ASSUME NEW G, NEW op \in IsTwo, NEW c \in Bytewide, NEW dest, IsHome(dest, G), NEW src1, IsHome(src1, G),
           NEW src2, IsHome(src2, G)
    PROVE  Coded(make_rrr(op, c, dest, src1, src2), {src1, src2}, G)
  <1>1. CASE dest = src1
    <2>1. make_rrr(op, c, dest, src1, src2) = make_rr_impl(op, c, dest, src2, TRUE, TRUE)
      BY <1>1 DEF make_rrr, make_rr
    <2>2. Coded(make_rr_impl(op, c, dest, src2, TRUE, TRUE), {dest, src2}, G)
      BY RrCode
    <2> QED
      BY <1>1, <2>1, <2>2
  <1>2. CASE dest # src1
    <2>1. PICK u : u = reg_operand(dest) /\ IsTo(u, G) /\ u # Zero
      BY HomeOperand
    <2> DEFINE a == <<I("mov", c, u, src1)>>
               b == <<I(op, c, u, src2)>>
               d == post_write(dest, c)
    <2>2. IsFrom(src1, G) /\ IsFrom(src2, G)
      BY HomeOperand
    <2>3. Coded(a, {u, src1}, G)
      <3>1. "mov" \in IsTwo
        BY DEF IsTwo
      <3> QED
        BY <2>1, <2>2, <3>1, TwoCode
    <2>4. Coded(b, {u, src2}, G)
      BY <2>1, <2>2, TwoCode
    <2>5. Coded(d, {}, G)
      BY PreReadCode
    <2>6. make_rrr(op, c, dest, src1, src2) = a \o b \o d
      <3>1. \A x, y : <<x, y>> = <<x>> \o <<y>>
        BY TwoParts
      <3> QED
        BY <1>2, <2>1, <3>1 DEF make_rrr
    <2> HIDE DEF a, b, d
    <2>7. Coded(a \o b \o d, {u, src1} \cup {u, src2}, G)
      BY <2>3, <2>4, <2>5, CodedThree
    <2>8. Zero \in {u, src1} \cup {u, src2} <=> Zero \in {src1, src2}
      BY <2>1
    <2> QED
      BY <2>6, <2>7, <2>8, CodedOperands
  <1> QED
    BY <1>1, <1>2

LEMMA RriCode ==
    ASSUME NEW G, NEW op \in IsTwo, NEW c \in Bytewide, NEW dest, IsHome(dest, G), NEW src, IsHome(src, G), NEW imm \in Int
    PROVE  Coded(make_rri(op, c, dest, src, imm), {src}, G)
  <1>1. CASE dest = src
    BY <1>1, RiCode DEF make_rri
  <1>2. CASE dest # src
    <2>1. PICK u : u = reg_operand(dest) /\ IsTo(u, G) /\ u # Zero /\ IsHome(u, G)
      BY HomeOperand
    <2> DEFINE a == <<I("mov", c, u, src)>>
               b == make_ri(op, c, u, imm)
               d == post_write(dest, c)
    <2>2. IsFrom(src, G)
      BY HomeOperand
    <2>3. Coded(a, {u, src}, G)
      <3>1. "mov" \in IsTwo
        BY DEF IsTwo
      <3> QED
        BY <2>1, <2>2, <3>1, TwoCode
    <2>4. Coded(b, {u}, G)
      BY <2>1, RiCode
    <2>5. Coded(d, {}, G)
      BY PreReadCode
    <2>6. make_rri(op, c, dest, src, imm) = a \o b \o d
      BY <1>2, <2>1 DEF make_rri
    <2> HIDE DEF a, b, d
    <2>7. Coded(a \o b \o d, {u, src} \cup {u}, G)
      BY <2>3, <2>4, <2>5, CodedThree
    <2>8. Zero \in {u, src} \cup {u} <=> Zero \in {src}
      BY <2>1
    <2> QED
      BY <2>6, <2>7, <2>8, CodedOperands
  <1> QED
    BY <1>1, <1>2

LEMMA ShiftedCode ==
    ASSUME NEW G, NEW c \in Bytewide, NEW dest, IsPlace(dest, G), NEW src, IsHome(src, G), NEW d \in Bytewide,
           NEW sh, sh.by \notin {"ROR", "MSL"}, sh.n \in Nat
    PROVE  Coded(load_shifted(dest, c, src, d, sh), {src}, G)
  <1> DEFINE from == IF sh.by \in DOMAIN Narrow THEN Narrow[sh.by] ELSE d
             mop == IF sh.by \in SignKind THEN "movsx" ELSE "movzx"
             a == <<Iw(mop, c, dest, src, from)>>
             shl == CASE sh.by = "LSR" -> "shr" [] sh.by = "ASR" -> "sar" [] OTHER -> "shl"
             b == <<I(shl, c, dest, N(sh.n))>>
  <1>1. from \in Bytewide /\ mop \in {"movzx", "movsx"}
    BY DEF Narrow, Bytewide
  <1>2. IsHome(dest, G) /\ dest # Zero /\ IsFrom(src, G)
    BY HomeOperand, PlaceKinds DEF IsHome
  <1>3. Coded(a, {dest, src}, G)
    <2>1. \A m, f : m \in {"movzx", "movsx"} /\ f \in Bytewide => Coded(<<Iw(m, c, dest, src, f)>>, {dest, src}, G)
      BY <1>2, WideCode
    <2> HIDE DEF from, mop
    <2> QED
      BY <1>1, <2>1
  <1>4. shl \in {"bt", "shl", "shr", "sar"}
    OBVIOUS
  <1>5. Coded(b, {dest}, G)
    <2>1. \A o, n : o \in {"bt", "shl", "shr", "sar"} /\ n \in Nat => Coded(<<I(o, c, dest, N(n))>>, {dest}, G)
      BY <1>2, ConstCode
    <2> HIDE DEF shl
    <2> QED
      BY <1>4, <2>1
  <1>6. load_shifted(dest, c, src, d, sh) = IF sh.n = 0 THEN a ELSE a \o b
    <2>1. \A x, y : <<x, y>> = <<x>> \o <<y>>
      BY TwoParts
    <2> QED
      BY <2>1 DEF load_shifted
  <1> HIDE DEF a, b
  <1>7. Coded(a \o b, {dest, src} \cup {dest}, G)
    BY <1>3, <1>5, CodedConcat
  <1>8. (Zero \in {dest, src} <=> Zero \in {src}) /\ (Zero \in {dest, src} \cup {dest} <=> Zero \in {src})
    BY <1>2
  <1>9. Coded(a, {src}, G)
    BY <1>3, <1>8, CodedOperands
  <1>10. Coded(a \o b, {src}, G)
    BY <1>7, <1>8, CodedOperands
  <1> QED
    BY <1>6, <1>9, <1>10

------------------------------------------------------------------------------
(* Sequences that jump over a part, or keep a register on the stack *)

LEMMA RunStopped ==
    ASSUME NEW s, NEW a, IsCode(a), s.fault \/ s.taken
    PROVE  Run(s, a) = s
  <1>1. Len(a) \in Nat
    BY CodeLength
  <1>2. PICK g : IsRun(g, s, a) /\ Run(s, a) = g[Len(a)]
    BY RunFunction
  <1> DEFINE P == {k \in Nat : k <= Len(a) => g[k] = s}
  <1>3. P \subseteq Nat /\ 0 \in P
    BY <1>2 DEF IsRun
  <1>4. \A k \in P : k + 1 \in P
    <2> TAKE k \in P
    <2>1. k \in Nat /\ k + 1 \in Nat
      OBVIOUS
    <2>2. ASSUME k + 1 <= Len(a) PROVE g[k + 1] = s
      <3>1. k + 1 \in 1 .. Len(a) /\ (k + 1) - 1 = k /\ k <= Len(a)
        BY <1>1, <2>1, <2>2, SMT
      <3>2. g[k] = s
        BY <3>1
      <3>3. g[k + 1] = Exec(g[k], a[k + 1])
        BY <1>2, <3>1 DEF IsRun
      <3> QED
        BY <3>2, <3>3 DEF Exec
    <2> QED
      BY <2>1, <2>2
  <1>5. \A k \in Nat : k \in P
    <2> HIDE DEF P
    <2> QED
      BY <1>3, <1>4, Counting
  <1> QED
    BY <1>1, <1>2, <1>5

LEMMA RunOne ==
    ASSUME NEW s, NEW x, ~s.fault, ~s.taken, s.skip = 0
    PROVE  Run(s, <<x>>) = Effect(s, x)
  <1>1. Run(s, <<x>>) = Exec(s, x)
    BY RunShort
  <1>2. ~(s.skip > 0)
    BY SMT
  <1> QED
    BY <1>1, <1>2 DEF Exec

LEMMA RunSkipping ==
    ASSUME NEW G, NEW s \in State(G), NEW a, IsCode(a), s.skip = Len(a), ~s.fault, ~s.taken
    PROVE  Run(s, a) = [s EXCEPT !.skip = 0]
  <1>1. Len(a) \in Nat
    BY CodeLength
  <1>2. PICK g : IsRun(g, s, a) /\ Run(s, a) = g[Len(a)]
    BY RunFunction
  <1> DEFINE P == {k \in Nat : k <= Len(a) => g[k] = [s EXCEPT !.skip = Len(a) - k]}
  <1>3. P \subseteq Nat /\ 0 \in P
    <2>1. s = [s EXCEPT !.skip = Len(a) - 0]
      <3>1. s = [s EXCEPT !.skip = s.skip]
        BY DEF State
      <3>2. Len(a) - 0 = s.skip
        BY <1>1
      <3> QED
        BY <3>1, <3>2
    <2> QED
      BY <1>2, <2>1 DEF IsRun
  <1>4. \A k \in P : k + 1 \in P
    <2> TAKE k \in P
    <2>1. k \in Nat /\ k + 1 \in Nat
      OBVIOUS
    <2>2. ASSUME k + 1 <= Len(a) PROVE g[k + 1] = [s EXCEPT !.skip = Len(a) - (k + 1)]
      <3>1. k + 1 \in 1 .. Len(a) /\ (k + 1) - 1 = k /\ k <= Len(a) /\ Len(a) - k > 0 /\ (Len(a) - k) - 1 = Len(a) - (k + 1)
        BY <1>1, <2>1, <2>2, SMT
      <3>2. g[k] = [s EXCEPT !.skip = Len(a) - k]
        BY <3>1
      <3>3. g[k + 1] = Exec(g[k], a[k + 1])
        BY <1>2, <3>1 DEF IsRun
      <3>4. g[k].skip = Len(a) - k /\ g[k].fault = s.fault /\ g[k].taken = s.taken
        BY <3>2 DEF State
      <3>5. g[k + 1] = [g[k] EXCEPT !.skip = (Len(a) - k) - 1]
        BY <3>1, <3>3, <3>4 DEF Exec
      <3>6. g[k + 1] = [g[k] EXCEPT !.skip = Len(a) - (k + 1)]
        BY <3>1, <3>5
      <3> QED
        BY <3>2, <3>6 DEF State
    <2> QED
      BY <2>1, <2>2
  <1>5. \A k \in Nat : k \in P
    <2> HIDE DEF P
    <2> QED
      BY <1>3, <1>4, Counting
  <1>6. g[Len(a)] = [s EXCEPT !.skip = Len(a) - Len(a)] /\ Len(a) - Len(a) = 0
    BY <1>1, <1>5
  <1> QED
    BY <1>2, <1>6

(* A short jump over b. *)
LEMMA RunJump ==
    ASSUME NEW G, NEW s \in State(G), ~s.fault, ~s.taken, s.skip = 0, NEW b, IsCode(b), NEW cc
    PROVE  Run(s, <<Iw("skip", "x", RAX, N(Len(b)), cc)>> \o b) = IF Holds(cc, s.flags) THEN s ELSE Run(s, b)
  <1> DEFINE x == Iw("skip", "x", RAX, N(Len(b)), cc)
             t == Run(s, <<x>>)
  <1>1. IsCode(<<x>>) /\ Run(s, <<x>> \o b) = Run(t, b)
    BY RunConcat, RunShort
  <1>2. N(Len(b)).at = Len(b) /\ Len(b) \in Nat
    BY OperandKinds, CodeLength
  <1>3. t = [s EXCEPT !.skip = IF Holds(cc, s.flags) THEN Len(b) ELSE 0]
    <2>1. t = Effect(s, x)
      BY RunOne
    <2>2. Effect(s, x) = [s EXCEPT !.skip = IF Holds(cc, s.flags) THEN N(Len(b)).at ELSE 0]
      BY EffectOfWide
    <2> QED
      BY <1>2, <2>1, <2>2
  <1>4. s = [s EXCEPT !.skip = 0]
    BY DEF State
  <1>5. CASE Holds(cc, s.flags)
    <2>1. t = [s EXCEPT !.skip = Len(b)]
      BY <1>3, <1>5
    <2>2. t \in State(G) /\ t.skip = Len(b) /\ ~t.fault /\ ~t.taken /\ [t EXCEPT !.skip = 0] = s
      BY <1>2, <2>1 DEF State
    <2>3. Run(t, b) = [t EXCEPT !.skip = 0]
      BY <2>2, RunSkipping
    <2> QED
      BY <1>1, <1>5, <2>2, <2>3
  <1>6. CASE ~Holds(cc, s.flags)
    BY <1>1, <1>3, <1>4, <1>6
  <1> QED
    BY <1>5, <1>6

(* Between two instructions of the guest. *)
Rest(s, G)    == s \in State(G) /\ (s.fault \/ (s.stack = <<>> /\ s.skip = 0))
Active(s, G)  == Rest(s, G) /\ ~s.fault /\ ~s.taken
Settles(a, G) == \A s : Rest(s, G) => Rest(Run(s, a), G)

LEMMA SettlesActive ==
    ASSUME NEW G, NEW a, IsCode(a), \A s : Active(s, G) => Rest(Run(s, a), G)
    PROVE  Settles(a, G)
  BY RunStopped DEF Settles, Active

LEMMA PlainSettles ==
    ASSUME NEW G, NEW a, IsPlainCode(a, G)
    PROVE  Settles(a, G)
  <1>1. IsCode(a)
    BY DEF IsPlainCode
  <1>2. ASSUME NEW s, Active(s, G) PROVE Rest(Run(s, a), G)
    <2>1. PlainStep(s, Run(s, a), G)
      BY <1>2, RunPlain DEF Active, Rest
    <2> QED
      BY <1>2, <2>1 DEF Active, Rest, PlainStep
  <1> QED
    BY <1>1, <1>2, SettlesActive

(* The register r is on the stack while a runs. *)
Bracket(r, a) == <<I("push", "x", RSP, r)>> \o a \o <<I("pop", "x", r, RSP)>>

PushOf(s, n) == Effect(s, I("push", "x", RSP, R(n)))
PopOf(s, n)  == Effect(s, I("pop", "x", R(n), RSP))

(* The registers of t are those of s after a push, and after a pop of v to n. *)
Pushed(s, t)       == t.reg = [s.reg EXCEPT !["rsp"] = Low("x", s.reg["rsp"] - Bytes["x"])]
Popped(s, t, n, v) == LET r == [s.reg EXCEPT ![n] = v] IN t.reg = [r EXCEPT !["rsp"] = Low("x", r["rsp"] + Bytes["x"])]

LEMMA PushStep ==
    ASSUME NEW G, NEW s \in State(G), NEW n \in Names, NEW t, t = PushOf(s, n)
    PROVE  /\ t \in State(G) /\ t.stack = Append(s.stack, s.reg[n]) /\ t.skip = s.skip
           /\ t.fault = s.fault /\ t.taken = s.taken /\ t.flags = s.flags /\ t.mem = s.mem /\ t.cell = s.cell
           /\ Pushed(s, t)
  <1> DEFINE v == Get(s, "x", R(n))
             p == Low("x", s.reg["rsp"] - Bytes["x"])
             f == [s.reg EXCEPT !["rsp"] = p]
             k == Append(s.stack, v)
  <1>1. t = [s EXCEPT !.stack = k, !.reg["rsp"] = p]
    BY DEF PushOf, Effect, I, AluOps
  <1>2. t = [s EXCEPT !.stack = k, !.reg = f]
    <2> HIDE DEF v
    <2> QED
      BY <1>1 DEF State
  <1>3. IsPlace(R(n), G) /\ IsSource(R(n), G)
    BY TargetIsSource DEF IsPlace
  <1>4. v \in Words("x") /\ v = s.reg[n]
    <2>1. "x" \in Bytewide
      BY DEF Bytewide
    <2>2. v \in Words("x")
      BY <1>3, <2>1, GetType
    <2>3. v = Low("x", s.reg[n])
      BY OperandKinds DEF Get
    <2>4. s.reg[n] \in Words("x")
      BY DEF State
    <2> QED
      BY <2>1, <2>2, <2>3, <2>4, LowId
  <1>5. "rsp" \in Names
    BY DEF Names, Direct
  <1>6. p \in Words("x")
    <2>1. s.reg["rsp"] \in Int /\ Bytes["x"] \in Int
      BY <1>5, WordFacts DEF State, Bytes
    <2> QED
      BY <2>1, LowType DEF Bytewide
  <1>7. f \in [Names -> Words("x")]
    <2>1. s.reg \in [Names -> Words("x")]
      BY DEF State
    <2> HIDE DEF p
    <2> QED
      BY <1>6, <2>1
  <1>8. k \in Seq(Words("x")) /\ k = Append(s.stack, s.reg[n])
    <2>1. s.stack \in Seq(Words("x"))
      BY DEF State
    <2> QED
      BY <1>4, <2>1
  <1>9. f = [s.reg EXCEPT !["rsp"] = Low("x", s.reg["rsp"] - Bytes["x"])]
    OBVIOUS
  <1> HIDE DEF k, f
  <1>10. t \in State(G) /\ t.stack = k /\ t.reg = f /\ t.skip = s.skip
           /\ t.fault = s.fault /\ t.taken = s.taken /\ t.flags = s.flags /\ t.mem = s.mem /\ t.cell = s.cell
    BY <1>2, <1>7, <1>8 DEF State
  <1> QED
    BY <1>8, <1>9, <1>10 DEF Pushed

LEMMA PopStep ==
    ASSUME NEW G, NEW s \in State(G), NEW n \in Names, NEW v \in Words("x"), s.stack = <<v>>, NEW t, t = PopOf(s, n)
    PROVE  /\ t \in State(G) /\ t.stack = <<>> /\ t.skip = s.skip
           /\ t.fault = s.fault /\ t.taken = s.taken /\ t.flags = s.flags /\ t.mem = s.mem /\ t.cell = s.cell
           /\ Popped(s, t, n, v)
  <1> DEFINE u == Put(s, "x", R(n), v)
             p == Low("x", u.reg["rsp"] + Bytes["x"])
             f == [u.reg EXCEPT !["rsp"] = p]
             k == SubSeq(u.stack, 1, Len(s.stack) - 1)
  <1>1. Len(s.stack) = 1 /\ s.stack[1] = v
    OBVIOUS
  <1>2. t = [Put(s, "x", R(n), s.stack[Len(s.stack)])
               EXCEPT !.stack = SubSeq(@, 1, Len(s.stack) - 1), !.reg["rsp"] = Low("x", @ + Bytes["x"])]
    BY DEF PopOf, Effect, I, AluOps
  <1>3. IsTarget(R(n), G) /\ v \in Int
    BY TargetIsSource, WordFacts DEF IsPlace
  <1>4. u \in State(G) /\ Frame(s, u)
    <2>1. "x" \in Bytewide
      BY DEF Bytewide
    <2> QED
      BY <1>3, <2>1, PutType
  <1>5. u = [s EXCEPT !.reg[n] = v]
    <2>1. u = [s EXCEPT !.reg[n] = Low("x", v)]
      BY OperandKinds DEF Put
    <2>2. Low("x", v) = v
      BY LowId DEF Bytewide
    <2> QED
      BY <2>1, <2>2
  <1>6. u.reg = [s.reg EXCEPT ![n] = v] /\ u.mem = s.mem /\ u.cell = s.cell
    <2> HIDE DEF u
    <2> QED
      BY <1>5 DEF State
  <1>7. k = <<>>
    <2>1. u.stack = s.stack
      BY <1>4 DEF Frame
    <2> QED
      BY <1>1, <2>1
  <1>8. t = [u EXCEPT !.stack = k, !.reg["rsp"] = p]
    BY <1>1, <1>2
  <1>9. t = [u EXCEPT !.stack = k, !.reg = f]
    <2> HIDE DEF u, k
    <2> QED
      BY <1>4, <1>8 DEF State
  <1>10. "rsp" \in Names
    BY DEF Names, Direct
  <1> HIDE DEF u, k
  <1>11. p \in Words("x")
    <2>1. u.reg["rsp"] \in Int /\ Bytes["x"] \in Int
      BY <1>4, <1>10, WordFacts DEF State, Bytes
    <2> QED
      BY <2>1, LowType DEF Bytewide
  <1>12. f \in [Names -> Words("x")]
    <2>1. u.reg \in [Names -> Words("x")]
      BY <1>4 DEF State
    <2> HIDE DEF p
    <2> QED
      BY <1>11, <2>1
  <1>13. <<>> \in Seq(Words("x"))
    OBVIOUS
  <1>14. LET r == [s.reg EXCEPT ![n] = v] IN f = [r EXCEPT !["rsp"] = Low("x", r["rsp"] + Bytes["x"])]
    BY <1>6
  <1> HIDE DEF f
  <1>15. t \in State(G) /\ t.stack = <<>> /\ t.reg = f /\ t.skip = u.skip
           /\ t.fault = u.fault /\ t.taken = u.taken /\ t.flags = u.flags /\ t.mem = u.mem /\ t.cell = u.cell
    BY <1>4, <1>7, <1>9, <1>12, <1>13 DEF State
  <1> QED
    BY <1>4, <1>6, <1>14, <1>15 DEF Frame, Popped

(* What runs between the push and the pop, and where the pop leaves it. *)
LEMMA RunBracket ==
    ASSUME NEW G, NEW s, Active(s, G), NEW n \in Names, NEW a, IsPlainCode(a, G)
    PROVE  \E t, u : /\ t = PushOf(s, n) /\ u = Run(t, a) /\ IsCode(Bracket(R(n), a))
                    /\ t \in State(G) /\ ~t.fault /\ ~t.taken /\ t.skip = 0 /\ PlainStep(t, u, G) /\ u.stack = <<s.reg[n]>>
                    /\ Run(s, Bracket(R(n), a)) = IF u.fault THEN u ELSE PopOf(u, n)
  <1> DEFINE push == I("push", "x", RSP, R(n))
             pop  == I("pop", "x", R(n), RSP)
             t == PushOf(s, n)
             u == Run(t, a)
  <1>1. s \in State(G) /\ ~s.fault /\ ~s.taken /\ s.stack = <<>> /\ s.skip = 0
    BY DEF Active, Rest
  <1>2. t \in State(G) /\ t.stack = <<s.reg[n]>> /\ t.skip = 0 /\ ~t.fault /\ ~t.taken
    <2> HIDE DEF t
    <2>1. t \in State(G) /\ t.stack = Append(s.stack, s.reg[n]) /\ t.skip = s.skip /\ t.fault = s.fault /\ t.taken = s.taken
      BY <1>1, PushStep DEF t
    <2> QED
      BY <1>1, <2>1
  <1> HIDE DEF t
  <1>3. PlainStep(t, u, G)
    BY <1>2, RunPlain
  <1>4. IsCode(a) /\ IsCode(<<push>>) /\ IsCode(<<pop>>)
    BY RunShort DEF IsPlainCode
  <1>5. IsCode(<<push>> \o a) /\ Run(s, <<push>> \o a) = Run(Run(s, <<push>>), a)
    BY <1>4, RunConcat
  <1>6. Run(s, <<push>>) = t
    <2>1. Run(s, <<push>>) = Effect(s, push)
      BY <1>1, RunOne
    <2> QED
      BY <2>1 DEF t, PushOf
  <1>7. IsCode((<<push>> \o a) \o <<pop>>) /\ Run(s, (<<push>> \o a) \o <<pop>>) = Run(u, <<pop>>)
    BY <1>4, <1>5, <1>6, RunConcat
  <1>8. u.stack = <<s.reg[n]>> /\ u.skip = 0 /\ ~u.taken
    BY <1>2, <1>3 DEF PlainStep
  <1>9. u.fault => Run(u, <<pop>>) = u
    BY <1>4, RunStopped
  <1>10. ~u.fault => Run(u, <<pop>>) = PopOf(u, n)
    BY <1>8, RunOne DEF PopOf
  <1>11. Run(s, Bracket(R(n), a)) = IF u.fault THEN u ELSE PopOf(u, n)
    BY <1>7, <1>9, <1>10 DEF Bracket
  <1>12. IsCode(Bracket(R(n), a))
    BY <1>7 DEF Bracket
  <1>13. t = PushOf(s, n)
    BY DEF t
  <1> HIDE DEF push, pop
  <1> QED
    BY <1>2, <1>3, <1>8, <1>11, <1>12, <1>13

LEMMA BracketSettles ==
    ASSUME NEW G, NEW n \in Names, NEW a, IsPlainCode(a, G)
    PROVE  Settles(Bracket(R(n), a), G)
  <1> DEFINE b == Bracket(R(n), a)
  <1>1. IsCode(b)
    <2>1. IsCode(a) /\ \A x : IsCode(<<x>>)
      BY RunShort DEF IsPlainCode
    <2>2. IsCode(<<I("push", "x", RSP, R(n))>> \o a)
      BY <2>1, RunConcat
    <2> QED
      BY <2>1, <2>2, RunConcat DEF Bracket
  <1>2. ASSUME NEW s, Active(s, G) PROVE Rest(Run(s, b), G)
    <2>1. PICK t, u : /\ t \in State(G) /\ t.skip = 0 /\ PlainStep(t, u, G) /\ u.stack = <<s.reg[n]>>
                      /\ Run(s, b) = IF u.fault THEN u ELSE PopOf(u, n)
      BY <1>2, RunBracket
    <2>2. s.reg[n] \in Words("x") /\ u \in State(G) /\ u.skip = 0
      BY <1>2, <2>1 DEF PlainStep, Active, Rest, State
    <2>3. PICK e : e = PopOf(u, n)
      OBVIOUS
    <2>4. e \in State(G) /\ e.stack = <<>> /\ e.skip = u.skip
      BY <2>1, <2>2, <2>3, PopStep
    <2> QED
      BY <2>1, <2>2, <2>3, <2>4 DEF Rest
  <1> QED
    BY <1>1, <1>2, SettlesActive

(* Code with the operands S: it can be encoded unless one of them is xzr,  *)
(* and then it comes to rest.                                              *)
Encodes(a, S)  == NoRefusal(a) /\ (Encodable(a) <=> Zero \notin S)
Sound(a, S, G) == Encodes(a, S) /\ (Zero \notin S => Settles(a, G))

LEMMA CodedSound ==
    ASSUME NEW G, NEW a, NEW S, Coded(a, S, G)
    PROVE  Encodes(a, S) /\ Sound(a, S, G)
  BY PlainSettles DEF Coded, Good, Bad, Encodes, Sound

LEMMA EncodesConcat ==
    ASSUME NEW a, NEW b, NEW S, NEW T, Encodes(a, S), Encodes(b, T)
    PROVE  Encodes(a \o b, S \cup T)
  <1>1. IsCode(a) /\ IsCode(b) /\ NoRefusal(a) /\ NoRefusal(b)
    BY DEF Encodes, NoRefusal
  <1>2. PICK A, B : a \in Seq(A) /\ b \in Seq(B)
    BY <1>1 DEF IsCode
  <1>3. a \in Seq(A \cup B) /\ b \in Seq(A \cup B)
    BY <1>2
  <1>4. Len(a \o b) = Len(a) + Len(b)
        /\ \A k \in 1 .. Len(a) + Len(b) : (a \o b)[k] = IF k <= Len(a) THEN a[k] ELSE b[k - Len(a)]
    BY <1>3, ConcatProperties
  <1>5. Len(a) \in Nat /\ Len(b) \in Nat
    BY <1>1, CodeLength
  <1>6. \A k \in 1 .. Len(a \o b) : (k \in 1 .. Len(a) /\ (a \o b)[k] = a[k])
                                   \/ (k - Len(a) \in 1 .. Len(b) /\ (a \o b)[k] = b[k - Len(a)])
    BY <1>4, <1>5, SMT
  <1>7. \A k \in 1 .. Len(a) : k \in 1 .. Len(a \o b) /\ (a \o b)[k] = a[k]
    BY <1>4, <1>5, SMT
  <1>8. \A k \in 1 .. Len(b) : Len(a) + k \in 1 .. Len(a \o b) /\ (a \o b)[Len(a) + k] = b[k]
    <2> TAKE k \in 1 .. Len(b)
    <2>1. Len(a) + k \in 1 .. Len(a) + Len(b) /\ ~(Len(a) + k <= Len(a)) /\ (Len(a) + k) - Len(a) = k
      BY <1>5, SMT
    <2> QED
      BY <1>4, <2>1
  <1>9. IsCode(a \o b)
    BY <1>1, RunConcat
  <1>10. NoRefusal(a \o b)
    BY <1>1, <1>6, <1>9 DEF NoRefusal
  <1>11. Encodable(a) /\ Encodable(b) => Encodable(a \o b)
    BY <1>6 DEF Encodable
  <1>12. ~Encodable(a) => ~Encodable(a \o b)
    BY <1>7 DEF Encodable
  <1>13. ~Encodable(b) => ~Encodable(a \o b)
    BY <1>8 DEF Encodable
  <1> QED
    BY <1>10, <1>11, <1>12, <1>13 DEF Encodes

LEMMA SoundConcat ==
    ASSUME NEW G, NEW a, NEW b, NEW S, NEW T, Sound(a, S, G), Sound(b, T, G)
    PROVE  Sound(a \o b, S \cup T, G)
  <1>1. Encodes(a \o b, S \cup T)
    BY EncodesConcat DEF Sound
  <1>2. ASSUME Settles(a, G), Settles(b, G) PROVE Settles(a \o b, G)
    <2>1. \A s : Run(s, a \o b) = Run(Run(s, a), b)
      BY RunConcat DEF Sound, Encodes, NoRefusal
    <2> QED
      BY <1>2, <2>1 DEF Settles
  <1> QED
    BY <1>1, <1>2 DEF Sound

LEMMA SoundOperands ==
    ASSUME NEW G, NEW a, NEW S, NEW T, Sound(a, S, G), Zero \in S <=> Zero \in T
    PROVE  Sound(a, T, G)
  BY DEF Sound, Encodes

LEMMA OneEncodes ==
    ASSUME NEW x, NEW S, x.op # "refuse", Unencodable(x) <=> Zero \in S
    PROVE  Encodes(<<x>>, S)
  <1>1. Len(<<x>>) = 1 /\ (\A k \in 1 .. 1 : <<x>>[k] = x) /\ 1 \in 1 .. 1
    BY SMT
  <1>2. IsCode(<<x>>)
    BY RunShort
  <1> HIDE DEF Unencodable
  <1> QED
    BY <1>1, <1>2 DEF Encodes, NoRefusal, Encodable

LEMMA JumpEncodes ==
    /\ \A n, cc : Encodes(<<Iw("skip", "x", RAX, N(n), cc)>>, {})
    /\ Encodes(<<[op |-> "leave"]>>, {})
  <1>1. ASSUME NEW n, NEW cc PROVE Encodes(<<Iw("skip", "x", RAX, N(n), cc)>>, {})
    <2> DEFINE x == Iw("skip", "x", RAX, N(n), cc)
    <2>1. x.op = "skip" /\ x.to = RAX /\ x.from = N(n) /\ DOMAIN x = {"op", "c", "to", "from", "arg"}
      BY DEF Iw
    <2>2. RAX # Zero /\ N(n) # Zero
      BY RaxHome, NotZero
    <2> HIDE DEF x
    <2>3. ~Unencodable(x)
      BY <2>1, <2>2 DEF Unencodable, Zero
    <2>4. Encodes(<<x>>, {})
      BY <2>1, <2>3, OneEncodes
    <2> QED
      BY <2>4 DEF x
  <1>2. Encodes(<<[op |-> "leave"]>>, {})
    <2> DEFINE x == [op |-> "leave"]
    <2>1. x.op = "leave" /\ DOMAIN x = {"op"}
      OBVIOUS
    <2> HIDE DEF x
    <2>2. ~Unencodable(x)
      BY <2>1 DEF Unencodable
    <2>3. Encodes(<<x>>, {})
      BY <2>1, <2>2, OneEncodes
    <2> QED
      BY <2>3 DEF x
  <1> QED
    BY <1>1, <1>2

LEMMA BracketSound ==
    ASSUME NEW G, NEW n \in Names, NEW a, NEW S, Coded(a, S, G)
    PROVE  Sound(Bracket(R(n), a), S, G)
  <1> DEFINE push == I("push", "x", RSP, R(n))
             pop  == I("pop", "x", R(n), RSP)
  <1>1. R(n) # Zero /\ RSP # Zero
    BY NotZero DEF RSP
  <1>2. Encodes(<<push>>, {}) /\ Encodes(<<pop>>, {})
    <2>1. push.op = "push" /\ push.to = RSP /\ push.from = R(n) /\ DOMAIN push = {"op", "c", "to", "from"}
      BY DEF I
    <2>2. pop.op = "pop" /\ pop.to = R(n) /\ pop.from = RSP /\ DOMAIN pop = {"op", "c", "to", "from"}
      BY DEF I
    <2> HIDE DEF push, pop
    <2>3. ~Unencodable(push) /\ ~Unencodable(pop)
      BY <1>1, <2>1, <2>2 DEF Unencodable, Zero
    <2> QED
      BY <2>1, <2>2, <2>3, OneEncodes
  <1>3. Encodes(a, S)
    BY CodedSound
  <1> HIDE DEF push, pop
  <1>4. Encodes(<<push>> \o a, {} \cup S)
    BY <1>2, <1>3, EncodesConcat
  <1>5. Encodes((<<push>> \o a) \o <<pop>>, ({} \cup S) \cup {})
    BY <1>2, <1>4, EncodesConcat
  <1>6. Encodes(Bracket(R(n), a), ({} \cup S) \cup {})
    BY <1>5 DEF Bracket, push, pop
  <1>7. Zero \notin S => Settles(Bracket(R(n), a), G)
    BY BracketSettles DEF Coded, Good
  <1> QED
    BY <1>6, <1>7 DEF Sound, Encodes

------------------------------------------------------------------------------
(* The bits of words                                                        *)
------------------------------------------------------------------------------

(* Equal digits have equal sums. *)
LEMMA SumsAgree ==
    ASSUME NEW n \in Nat, NEW f, NEW d, NEW g, NEW e, IsSum(f, n, d), IsSum(g, n, e), \A k \in 1 .. n : d[k] = e[k]
    PROVE  f[n] = g[n]
  <1> DEFINE P == {k \in Nat : k <= n => f[k] = g[k]}
  <1>1. 0 \in P
    BY DEF IsSum
  <1>2. ASSUME NEW k \in P PROVE k + 1 \in P
    <2>1. k \in Nat /\ k + 1 \in Nat /\ (k + 1) - 1 = k /\ (k + 1 <= n => k <= n /\ k + 1 \in 1 .. n)
      BY SMT
    <2> QED
      BY <2>1 DEF IsSum
  <1>3. P = Nat
    <2> HIDE DEF P
    <2>1. P \in SUBSET Nat
      BY DEF P
    <2> QED
      BY <1>1, <1>2, <2>1, Counting
  <1>4. n <= n
    BY SMT
  <1> QED
    BY <1>3, <1>4

LEMMA CombineCommutes ==
    ASSUME NEW op \in {"and", "or", "xor"}, NEW a \in Int, NEW b \in Int
    PROVE  Combine(op, a, b) = Combine(op, b, a)
  <1>1. PICK f : IsSum(f, Bits["x"], Digits(op, a, b)) /\ Combine(op, a, b) = f[Bits["x"]]
    BY CombineFunction
  <1>2. PICK g : IsSum(g, Bits["x"], Digits(op, b, a)) /\ Combine(op, b, a) = g[Bits["x"]]
    BY CombineFunction
  <1>3. Bits["x"] \in Nat
    BY WidthFacts DEF Bytewide
  <1>4. ASSUME NEW k \in 1 .. Bits["x"] PROVE Digits(op, a, b)[k] = Digits(op, b, a)[k]
    <2>1. k - 1 \in Nat
      BY <1>3
    <2>2. Digit(op, BitOf(a, k - 1), BitOf(b, k - 1)) = Digit(op, BitOf(b, k - 1), BitOf(a, k - 1))
      BY <2>1, BitType, DigitType
    <2> QED
      BY <2>2 DEF Digits
  <1> QED
    BY <1>1, <1>2, <1>3, <1>4, SumsAgree

(* An exclusive or with itself. *)
LEMMA CombineSelf ==
    ASSUME NEW a \in Int
    PROVE  Combine("xor", a, a) = 0
  <1>1. PICK f : IsSum(f, Bits["x"], Digits("xor", a, a)) /\ Combine("xor", a, a) = f[Bits["x"]]
    BY CombineFunction
  <1>2. Bits["x"] \in Nat
    BY WidthFacts DEF Bytewide
  <1> DEFINE n == Bits["x"]
             z == [k \in 1 .. n |-> 0]
             o == [k \in 0 .. n |-> 0]
  <1>3. ASSUME NEW k \in 1 .. n PROVE Digits("xor", a, a)[k] = z[k]
    <2>1. k - 1 \in Nat
      BY <1>2
    <2>2. BitOf(a, k - 1) \in {0, 1} /\ Pow2(k - 1) \in Nat
      BY <2>1, BitType, PowerType
    <2>3. \A x \in {0, 1} : Digit("xor", x, x) = 0
      BY SMT DEF Digit
    <2>4. Digits("xor", a, a)[k] = 0 * Pow2(k - 1)
      BY <2>2, <2>3 DEF Digits
    <2> QED
      BY <2>2, <2>4
  <1>4. IsSum(o, n, z)
    <2>1. \A k \in 1 .. n : k \in 0 .. n /\ k - 1 \in 0 .. n /\ 0 \in 0 .. n
      BY <1>2
    <2>2. o[0] = 0
      BY <1>2
    <2>3. \A k \in 1 .. n : o[k] = o[k - 1] + z[k]
      BY <2>1
    <2> QED
      BY <2>2, <2>3 DEF IsSum
  <1>5. f[n] = o[n]
    <2> HIDE DEF z, o
    <2> QED
      BY <1>1, <1>2, <1>3, <1>4, SumsAgree
  <1> QED
    BY <1>1, <1>2, <1>5

(* The part of a number below one more bit. *)
LEMMA NextBit ==
    ASSUME NEW v \in Int, NEW k \in Nat
    PROVE  (v % Pow2(k + 1)) = (v % Pow2(k)) + BitOf(v, k) * Pow2(k)
  <1>1. PICK p \in Nat \ {0} : p = Pow2(k) /\ Pow2(k + 1) = 2 * p
    BY PowerType, PowerSteps
  <1>2. PICK q \in Int, r \in 0 .. p - 1 : q = v \div p /\ r = v % p /\ v = (p * q) + r
    BY Division
  <1>3. PICK z \in Int, b \in {0, 1} : b = q % 2 /\ q = 2 * z + b
    <2>1. q = (2 * (q \div 2)) + (q % 2) /\ q % 2 \in {0, 1} /\ q \div 2 \in Int
      BY SMT
    <2> QED
      BY <2>1
  <1>4. v = (2 * p) * z + (p * b + r)
    <2>1. p * (2 * z + b) = (2 * p) * z + p * b
      BY SMT
    <2>2. PICK u \in Int, w \in Int : u = p * b /\ w = (2 * p) * z
      BY SMT
    <2>3. p * q = w + u
      BY <1>3, <2>1, <2>2, Zenon
    <2>4. v = (w + u) + r
      BY <1>2, <2>3, Zenon
    <2>5. (w + u) + r = w + (u + r)
      BY <1>2, <2>2
    <2> QED
      BY <2>2, <2>4, <2>5, Zenon
  <1>5. p * b + r \in 0 .. 2 * p - 1 /\ 2 * p \in Nat \ {0}
    <2>1. p * 0 = 0 /\ p * 1 = p
      BY SMT
    <2> QED
      BY <2>1
  <1>6. ((2 * p) * z + (p * b + r)) % (2 * p) = p * b + r
    BY <1>5, Remainder
  <1>7. BitOf(v, k) = b
    BY <1>1, <1>2, <1>3 DEF BitOf
  <1>8. p * b + r = r + b * p
    <2>1. p * 0 = 0 /\ p * 1 = p /\ 0 * p = 0 /\ 1 * p = p
      BY SMT
    <2> QED
      BY <2>1
  <1> QED
    BY <1>1, <1>2, <1>4, <1>6, <1>7, <1>8

(* A sum that has at each bit the digits of two numbers without a common   *)
(* bit is their sum.                                                       *)
LEMMA DisjointSum ==
    ASSUME NEW n \in Nat, NEW x \in Nat, NEW y \in Nat, x < Pow2(n), y < Pow2(n), NEW g, NEW d, IsSum(g, n, d),
           \A k \in 1 .. n : d[k] = BitOf(x, k - 1) * Pow2(k - 1) + BitOf(y, k - 1) * Pow2(k - 1)
    PROVE  g[n] = x + y
  <1> DEFINE P == {k \in Nat : k <= n => g[k] = (x % Pow2(k)) + (y % Pow2(k))}
  <1>1. 0 \in P
    <2>1. x % 1 = 0 /\ y % 1 = 0
      BY SMT
    <2> QED
      BY <2>1, PowerSteps DEF IsSum
  <1>2. ASSUME NEW k \in P PROVE k + 1 \in P
    <2>1. k \in Nat /\ k + 1 \in Nat /\ (k + 1) - 1 = k /\ (k + 1 <= n => k <= n /\ k + 1 \in 1 .. n)
      BY SMT
    <2>2. CASE k + 1 <= n
      <3>1. g[k + 1] = g[k] + (BitOf(x, k) * Pow2(k) + BitOf(y, k) * Pow2(k)) /\ g[k] = (x % Pow2(k)) + (y % Pow2(k))
        BY <2>1, <2>2 DEF IsSum
      <3>2. (x % Pow2(k + 1)) = (x % Pow2(k)) + BitOf(x, k) * Pow2(k) /\ (y % Pow2(k + 1)) = (y % Pow2(k)) + BitOf(y, k) * Pow2(k)
        BY <2>1, NextBit
      <3>3. PICK p \in Nat \ {0} : p = Pow2(k)
        BY <2>1, PowerType
      <3>4. x % p \in Int /\ y % p \in Int
        BY SMT
      <3>5. PICK u \in Int, w \in Int : u = BitOf(x, k) * Pow2(k) /\ w = BitOf(y, k) * Pow2(k)
        BY <2>1, <3>3, BitType
      <3>6. PICK a \in Int, b \in Int : a = x % Pow2(k) /\ b = y % Pow2(k)
        BY <3>3, <3>4
      <3>7. (a + b) + (u + w) = (a + u) + (b + w)
        OBVIOUS
      <3>8. g[k + 1] = (x % Pow2(k + 1)) + (y % Pow2(k + 1))
        BY <3>1, <3>2, <3>5, <3>6, <3>7
      <3> QED
        BY <2>1, <3>8
    <2>3. CASE ~(k + 1 <= n)
      BY <2>1, <2>3
    <2> QED
      BY <2>2, <2>3
  <1>3. P = Nat
    <2> HIDE DEF P
    <2>1. P \in SUBSET Nat
      BY DEF P
    <2> QED
      BY <1>1, <1>2, <2>1, Counting
  <1>4. n <= n
    BY SMT
  <1>5. g[n] = (x % Pow2(n)) + (y % Pow2(n))
    BY <1>3, <1>4
  <1>6. PICK p \in Nat \ {0} : p = Pow2(n)
    BY PowerType
  <1>7. x % p = x /\ y % p = y
    <2>1. \A v \in 0 .. p - 1 : (p * 0 + v) % p = v
      BY Remainder
    <2>2. x \in 0 .. p - 1 /\ y \in 0 .. p - 1
      BY <1>6
    <2>3. p * 0 + x = x /\ p * 0 + y = y
      BY SMT
    <2> QED
      BY <2>1, <2>2, <2>3
  <1> QED
    BY <1>5, <1>6, <1>7

(* Bits below a multiple of a power. *)
LEMMA LowerBits ==
    ASSUME NEW v \in Int, NEW z \in Int, NEW k \in Nat, NEW j \in Nat, j < k
    PROVE  BitOf(v + Pow2(k) * z, j) = BitOf(v, j)
  <1>1. PICK i \in Nat : k = j + (i + 1)
    <2>1. k - j - 1 \in Nat /\ k = j + ((k - j - 1) + 1)
      BY SMT
    <2> QED
      BY <2>1
  <1>2. PICK p \in Nat \ {0}, q \in Nat \ {0} : p = Pow2(j) /\ q = Pow2(i)
    BY PowerType
  <1>3. Pow2(k) = p * (2 * q)
    <2>1. i + 1 \in Nat
      BY SMT
    <2> QED
      BY <1>1, <1>2, <2>1, PowerSum, PowerSteps
  <1>4. PICK y \in Int : y = q * z
    BY SMT
  <1>5. Pow2(k) * z = p * (2 * y)
    <2>1. (p * (2 * q)) * z = p * (2 * (q * z))
      BY SMT
    <2> QED
      BY <1>3, <1>4, <2>1
  <1>6. PICK a \in Int, r \in 0 .. p - 1 : a = v \div p /\ v = (p * a) + r
    BY Division
  <1>7. v + p * (2 * y) = p * (a + 2 * y) + r
    <2>1. p * (a + 2 * y) = p * a + p * (2 * y)
      BY SMT
    <2>2. PICK t \in Int, u \in Int : t = p * a /\ u = p * (2 * y)
      BY SMT
    <2>3. (t + r) + u = (t + u) + r
      BY <2>2
    <2> QED
      BY <1>6, <2>1, <2>2, <2>3
  <1>8. (p * (a + 2 * y) + r) \div p = a + 2 * y
    BY Remainder
  <1>9. (a + 2 * y) % 2 = a % 2
    BY SMT
  <1>10. (v + p * (2 * y)) \div p = a + 2 * y
    BY <1>7, <1>8
  <1> QED
    BY <1>2, <1>5, <1>6, <1>9, <1>10 DEF BitOf

(* A number with one more bit. *)
LEMMA AddBit ==
    ASSUME NEW k \in Nat, NEW v \in Nat, v < Pow2(k), NEW b \in {0, 1}
    PROVE  /\ v + b * Pow2(k) \in Nat /\ v + b * Pow2(k) < Pow2(k + 1)
           /\ BitOf(v + b * Pow2(k), k) = b
           /\ \A j \in Nat : j < k => BitOf(v + b * Pow2(k), j) = BitOf(v, j)
  <1>1. PICK p \in Nat \ {0} : p = Pow2(k) /\ Pow2(k + 1) = 2 * p
    BY PowerType, PowerSteps
  <1>2. v + b * p = p * b + v /\ v \in 0 .. p - 1 /\ b * p = p * b
    BY <1>1, SMT
  <1>3. (p * b + v) \div p = b
    BY <1>2, Remainder
  <1>4. BitOf(v + b * Pow2(k), k) = b
    <2>1. b % 2 = b
      BY SMT
    <2> QED
      BY <1>1, <1>2, <1>3, <2>1 DEF BitOf
  <1>5. ASSUME NEW j \in Nat, j < k PROVE BitOf(v + b * Pow2(k), j) = BitOf(v, j)
    <2>1. BitOf(v + Pow2(k) * b, j) = BitOf(v, j)
      BY <1>5, LowerBits
    <2> QED
      BY <1>1, <1>2, <2>1
  <1>6. v + b * p \in Nat /\ v + b * p < 2 * p
    <2>1. 0 * p = 0 /\ 1 * p = p
      BY SMT
    <2> QED
      BY <1>1, <2>1
  <1> QED
    BY <1>1, <1>4, <1>5, <1>6

LEMMA BitsOfSum ==
    ASSUME NEW n \in Nat, NEW e, \A k \in 1 .. n : e[k] \in {0, 1}, NEW g, NEW d, IsSum(g, n, d),
           \A k \in 1 .. n : d[k] = e[k] * Pow2(k - 1)
    PROVE  g[n] \in Nat /\ g[n] < Pow2(n) /\ \A j \in Nat : j < n => BitOf(g[n], j) = e[j + 1]
  <1> DEFINE P == {k \in Nat : k <= n => g[k] \in Nat /\ g[k] < Pow2(k) /\ \A j \in Nat : j < k => BitOf(g[k], j) = e[j + 1]}
  <1>1. 0 \in P
    BY PowerSteps DEF IsSum
  <1>2. ASSUME NEW k \in P PROVE k + 1 \in P
    <2>1. k \in Nat /\ k + 1 \in Nat /\ (k + 1) - 1 = k /\ (k + 1 <= n => k <= n /\ k + 1 \in 1 .. n)
      BY SMT
    <2>2. CASE k + 1 <= n
      <3>1. g[k + 1] = g[k] + e[k + 1] * Pow2(k) /\ e[k + 1] \in {0, 1}
        BY <2>1, <2>2 DEF IsSum
      <3>2. g[k] \in Nat /\ g[k] < Pow2(k) /\ \A j \in Nat : j < k => BitOf(g[k], j) = e[j + 1]
        BY <2>1, <2>2
      <3>3. /\ g[k + 1] \in Nat /\ g[k + 1] < Pow2(k + 1) /\ BitOf(g[k + 1], k) = e[k + 1]
            /\ \A j \in Nat : j < k => BitOf(g[k + 1], j) = BitOf(g[k], j)
        BY <2>1, <3>1, <3>2, AddBit
      <3>4. ASSUME NEW j \in Nat, j < k + 1 PROVE BitOf(g[k + 1], j) = e[j + 1]
        <4>1. j = k \/ j < k
          BY <2>1, <3>4
        <4> QED
          BY <3>2, <3>3, <4>1
      <3> QED
        BY <2>1, <3>3, <3>4
    <2>3. CASE ~(k + 1 <= n)
      BY <2>1, <2>3
    <2> QED
      BY <2>2, <2>3
  <1>3. P = Nat
    <2> HIDE DEF P
    <2>1. P \in SUBSET Nat
      BY DEF P
    <2> QED
      BY <1>1, <1>2, <2>1, Counting
  <1>4. n <= n
    BY SMT
  <1> QED
    BY <1>3, <1>4

(* The bits of a combination. *)
LEMMA CombineBits ==
    ASSUME NEW op \in {"and", "or", "xor"}, NEW a \in Int, NEW b \in Int
    PROVE  /\ Combine(op, a, b) \in Words("x")
           /\ \A j \in Nat : j < Bits["x"] => BitOf(Combine(op, a, b), j) = Digit(op, BitOf(a, j), BitOf(b, j))
  <1>1. PICK g : IsSum(g, Bits["x"], Digits(op, a, b)) /\ Combine(op, a, b) = g[Bits["x"]]
    BY CombineFunction
  <1>2. Bits["x"] \in Nat /\ Mod["x"] = Pow2(Bits["x"]) /\ Mod["x"] \in Nat
    BY WidthFacts DEF Bytewide
  <1> DEFINE e == [k \in 1 .. Bits["x"] |-> Digit(op, BitOf(a, k - 1), BitOf(b, k - 1))]
  <1>3. ASSUME NEW k \in 1 .. Bits["x"] PROVE e[k] \in {0, 1} /\ Digits(op, a, b)[k] = e[k] * Pow2(k - 1)
    <2>1. k - 1 \in Nat
      BY <1>2
    <2>2. Digit(op, BitOf(a, k - 1), BitOf(b, k - 1)) \in {0, 1}
      BY <2>1, BitType, DigitType
    <2> QED
      BY <2>2 DEF Digits
  <1>4. \A j \in Nat : j < Bits["x"] => e[j + 1] = Digit(op, BitOf(a, j), BitOf(b, j))
    <2> TAKE j \in Nat
    <2> HAVE j < Bits["x"]
    <2>1. j + 1 \in 1 .. Bits["x"] /\ (j + 1) - 1 = j
      BY <1>2
    <2> QED
      BY <2>1
  <1> HIDE DEF e
  <1>5. g[Bits["x"]] \in Nat /\ g[Bits["x"]] < Pow2(Bits["x"]) /\ \A j \in Nat : j < Bits["x"] => BitOf(g[Bits["x"]], j) = e[j + 1]
    BY <1>1, <1>2, <1>3, BitsOfSum
  <1>6. Combine(op, a, b) \in Words("x")
    BY <1>1, <1>2, <1>5 DEF Words
  <1> QED
    BY <1>1, <1>4, <1>5, <1>6

(* An "or" without a common bit is a sum. *)
LEMMA DisjointOr ==
    ASSUME NEW x \in Words("x"), NEW y \in Words("x"),
           \A j \in Nat : j < Bits["x"] => BitOf(x, j) * BitOf(y, j) = 0
    PROVE  Combine("or", x, y) = x + y
  <1>1. x \in Nat /\ y \in Nat
    BY WordFacts
  <1>2. PICK g : IsSum(g, Bits["x"], Digits("or", x, y)) /\ Combine("or", x, y) = g[Bits["x"]]
    BY <1>1, CombineFunction
  <1>3. Bits["x"] \in Nat /\ Mod["x"] = Pow2(Bits["x"]) /\ Mod["x"] \in Nat
    BY WidthFacts DEF Bytewide
  <1>4. x < Pow2(Bits["x"]) /\ y < Pow2(Bits["x"])
    BY <1>1, <1>3 DEF Words
  <1>5. ASSUME NEW k \in 1 .. Bits["x"]
        PROVE  Digits("or", x, y)[k] = BitOf(x, k - 1) * Pow2(k - 1) + BitOf(y, k - 1) * Pow2(k - 1)
    <2>1. k - 1 \in Nat /\ k - 1 < Bits["x"]
      BY <1>3
    <2>2. PICK p \in Nat : p = Pow2(k - 1)
      BY <2>1, PowerType
    <2>3. PICK u \in {0, 1}, w \in {0, 1} : u = BitOf(x, k - 1) /\ w = BitOf(y, k - 1)
      BY <1>1, <2>1, BitType
    <2>4. u * w = 0
      BY <2>1, <2>3
    <2>5. Digit("or", u, w) = u + w
      BY <2>4 DEF Digit
    <2>6. (u + w) * p = u * p + w * p
      BY SMT
    <2>7. Digits("or", x, y)[k] = Digit("or", u, w) * p
      BY <2>2, <2>3 DEF Digits
    <2> QED
      BY <2>2, <2>3, <2>5, <2>6, <2>7
  <1> QED
    BY <1>1, <1>2, <1>3, <1>4, <1>5, DisjointSum

(* An "and" is at most its operand. *)
LEMMA AndBelow ==
    ASSUME NEW a \in Int, NEW m \in Words("x")
    PROVE  Combine("and", a, m) \in Nat /\ Combine("and", a, m) <= m
  <1>1. m \in Nat
    BY WordFacts
  <1>2. PICK g : IsSum(g, Bits["x"], Digits("and", a, m)) /\ Combine("and", a, m) = g[Bits["x"]]
    BY <1>1, CombineFunction
  <1>3. PICK n \in Nat : n = Bits["x"] /\ Mod["x"] = Pow2(n) /\ Mod["x"] \in Nat
    BY WidthFacts DEF Bytewide
  <1> DEFINE P == {k \in Nat : k <= n => g[k] \in Nat /\ g[k] <= m % Pow2(k)}
  <1>4. 0 \in P
    <2>1. m % 1 = 0
      BY <1>1
    <2> QED
      BY <1>2, <2>1, PowerSteps DEF IsSum
  <1>5. ASSUME NEW k \in P PROVE k + 1 \in P
    <2>1. k \in Nat /\ k + 1 \in Nat /\ (k + 1) - 1 = k /\ (k + 1 <= n => k <= n /\ k + 1 \in 1 .. n)
      BY SMT
    <2>2. CASE k + 1 <= n
      <3>1. PICK p \in Nat \ {0} : p = Pow2(k)
        BY <2>1, PowerType
      <3>2. PICK u \in {0, 1}, w \in {0, 1} : u = BitOf(a, k) /\ w = BitOf(m, k)
        BY <1>1, <2>1, BitType
      <3>3. Digits("and", a, m)[k + 1] = (u * w) * p
        BY <1>3, <2>1, <2>2, <3>1, <3>2 DEF Digits, Digit
      <3>4. g[k + 1] = g[k] + (u * w) * p /\ g[k] \in Nat /\ g[k] <= m % p
        BY <1>2, <1>3, <2>1, <2>2, <3>1, <3>3 DEF IsSum
      <3>5. (m % Pow2(k + 1)) = (m % p) + w * p
        BY <1>1, <2>1, <3>1, <3>2, NextBit
      <3>6. (u * w) * p \in Nat /\ w * p \in Nat /\ (u * w) * p <= w * p
        <4>1. 0 * p = 0 /\ 1 * p = p /\ 0 * 0 = 0 /\ 0 * 1 = 0 /\ 1 * 0 = 0 /\ 1 * 1 = 1
          BY SMT
        <4> QED
          BY <4>1
      <3>7. PICK r \in Int : r = m % p
        BY <1>1, SMT
      <3>8. g[k + 1] \in Nat /\ g[k + 1] <= r + w * p
        BY <3>4, <3>6, <3>7
      <3>9. g[k + 1] \in Nat /\ g[k + 1] <= m % Pow2(k + 1)
        BY <3>5, <3>7, <3>8
      <3> QED
        BY <2>1, <3>9
    <2>3. CASE ~(k + 1 <= n)
      BY <2>1, <2>3
    <2> QED
      BY <2>2, <2>3
  <1>6. P = Nat
    <2> HIDE DEF P
    <2>1. P \in SUBSET Nat
      BY DEF P
    <2> QED
      BY <1>4, <1>5, <2>1, Counting
  <1>7. n <= n
    BY SMT
  <1>8. g[n] \in Nat /\ g[n] <= m % Pow2(n)
    BY <1>6, <1>7
  <1>9. m % Mod["x"] = m
    BY LowId DEF Low, Bytewide
  <1> QED
    BY <1>2, <1>3, <1>8, <1>9

(* Bits outside a field, and below a power. *)
LEMMA NoBits ==
    ASSUME NEW v \in Nat, NEW k \in Nat, v < Pow2(k)
    PROVE  \A j \in Nat : k <= j => BitOf(v, j) = 0
  <1> TAKE j \in Nat
  <1> HAVE k <= j
  <1>1. PICK i \in Nat : j = k + i
    <2>1. j - k \in Nat /\ j = k + (j - k)
      BY SMT
    <2> QED
      BY <2>1
  <1>2. PICK p \in Nat \ {0}, q \in Nat \ {0} : p = Pow2(k) /\ q = Pow2(i) /\ Pow2(j) = p * q
    BY <1>1, PowerType, PowerSum
  <1>3. p <= p * q /\ p * q \in Nat \ {0}
    BY SMT
  <1>4. v \in 0 .. (p * q) - 1
    BY <1>2, <1>3
  <1>5. ((p * q) * 0 + v) \div (p * q) = 0
    BY <1>3, <1>4, Remainder
  <1>6. (p * q) * 0 + v = v
    BY <1>3
  <1>7. 0 % 2 = 0
    BY SMT
  <1> QED
    BY <1>2, <1>5, <1>6, <1>7 DEF BitOf

LEMMA ShiftedBits ==
    ASSUME NEW v \in Int, NEW l \in Nat
    PROVE  \A j \in Nat : j < l => BitOf(v * Pow2(l), j) = 0
  <1> TAKE j \in Nat
  <1> HAVE j < l
  <1>1. BitOf(0 + Pow2(l) * v, j) = BitOf(0, j)
    BY LowerBits
  <1>2. PICK p \in Nat \ {0} : p = Pow2(l)
    BY PowerType
  <1>3. 0 + p * v = v * p
    BY SMT
  <1>4. BitOf(0, j) = 0
    <2>1. 0 < Pow2(0) /\ 0 \in Nat /\ 0 <= j
      BY PowerSteps
    <2> QED
      BY <2>1, NoBits
  <1> QED
    BY <1>1, <1>2, <1>3, <1>4

(* The complement of a field of h bits at bit l. *)
LEMMA FieldComplement ==
    ASSUME NEW l \in Nat, NEW h \in Nat, NEW b \in Nat, l + h <= b
    PROVE  /\ (Pow2(h) - 1) * Pow2(l) \in 0 .. Pow2(b) - 1
           /\ \A j \in Nat : l <= j /\ j < l + h => BitOf(Pow2(b) - 1 - (Pow2(h) - 1) * Pow2(l), j) = 0
           /\ \A v \in 0 .. Pow2(h) - 1 : v * Pow2(l) \in Nat /\ v * Pow2(l) < Pow2(l + h) /\ Pow2(l + h) <= Pow2(b)
  <1>1. PICK i \in Nat : b = (l + h) + i /\ l + h \in Nat
    <2>1. b - (l + h) \in Nat /\ b = (l + h) + (b - (l + h)) /\ l + h \in Nat
      BY SMT
    <2> QED
      BY <2>1
  <1>2. PICK p \in Nat \ {0}, q \in Nat \ {0}, z \in Nat \ {0} : p = Pow2(l) /\ q = Pow2(h) /\ z = Pow2(i)
    BY PowerType
  <1>3. PICK w \in Nat \ {0} : w = p * q /\ w = Pow2(l + h)
    <2>1. p * q \in Nat \ {0}
      BY SMT
    <2> QED
      BY <1>2, <2>1, PowerSum
  <1>4. Pow2(b) = w * z
    BY <1>1, <1>2, <1>3, PowerSum
  <1>5. (q - 1) * p = w - p /\ p <= w
    <2>1. (q - 1) * p = p * q - p /\ p <= p * q
      BY SMT
    <2> QED
      BY <1>3, <2>1
  <1>6. w * z - 1 - (w - p) = (p - 1) + w * (z - 1)
    <2>1. w * (z - 1) = w * z - w
      BY SMT
    <2>2. PICK u \in Int : u = w * z
      BY SMT
    <2>3. u - 1 - (w - p) = (p - 1) + (u - w)
      BY <2>2
    <2> QED
      BY <2>1, <2>2, <2>3
  <1>7. w <= w * z
    BY SMT
  <1>8. ASSUME NEW j \in Nat, l <= j, j < l + h PROVE BitOf(Pow2(b) - 1 - (Pow2(h) - 1) * Pow2(l), j) = 0
    <2>1. BitOf((p - 1) + Pow2(l + h) * (z - 1), j) = BitOf(p - 1, j)
      BY <1>1, <1>8, LowerBits
    <2>2. p - 1 \in Nat /\ p - 1 < Pow2(l)
      BY <1>2
    <2>3. BitOf(p - 1, j) = 0
      BY <1>8, <2>2, NoBits
    <2> QED
      BY <1>2, <1>3, <1>4, <1>5, <1>6, <2>1, <2>3
  <1>9. ASSUME NEW v \in 0 .. Pow2(h) - 1 PROVE v * Pow2(l) \in Nat /\ v * Pow2(l) < Pow2(l + h)
    <2>1. v \in Nat /\ v <= q - 1
      BY <1>2, <1>9
    <2>2. v * p \in Nat /\ v * p <= (q - 1) * p
      <3>1. \A x, y, m \in Nat : x <= y => x * m <= y * m /\ x * m \in Nat
        BY SMT
      <3> QED
        BY <2>1, <3>1
    <2> QED
      BY <1>2, <1>3, <1>5, <2>2
  <1>10. (q - 1) * p \in 0 .. w * z - 1
    BY <1>5, <1>7
  <1> QED
    BY <1>2, <1>3, <1>4, <1>7, <1>8, <1>9, <1>10

(* Fields of a word that are cleared and filled. *)
IsField(c, l, v, f, m, p) ==
    /\ c \in Bytewide /\ l \in Nat /\ l + Bits["h"] <= Bits[c] /\ v \in Words("h")
    /\ f = (Pow2(Bits["h"]) - 1) * Pow2(l) /\ m = Complement(c, f) /\ p = v * Pow2(l)

LEMMA FillField ==
    ASSUME NEW c, NEW l, NEW v, NEW f, NEW m, NEW p, IsField(c, l, v, f, m, p), NEW a \in Int
    PROVE  /\ m \in Words(c) /\ f \in Words(c) /\ m = Mod[c] - 1 - f /\ p \in Words(c) /\ Combine("and", a, m) \in Words(c)
           /\ Combine("or", Combine("and", a, m), p) = Combine("and", a, m) + p
  <1>0. /\ c \in Bytewide /\ l \in Nat /\ l + Bits["h"] <= Bits[c] /\ v \in Words("h")
        /\ f = (Pow2(Bits["h"]) - 1) * Pow2(l) /\ m = Complement(c, f) /\ p = v * Pow2(l)
    BY DEF IsField
  <1>1. PICK h \in Nat, b \in Nat : h = Bits["h"] /\ b = Bits[c] /\ Mod["h"] = Pow2(h) /\ Mod[c] = Pow2(b) /\ Mod[c] \in Nat \ {0}
    BY <1>0, WidthFacts DEF Bytewide
  <1>2. l + h <= b /\ v \in 0 .. Pow2(h) - 1
    BY <1>0, <1>1 DEF Words
  <1>3. /\ f \in 0 .. Pow2(b) - 1
        /\ \A j \in Nat : l <= j /\ j < l + h => BitOf(Pow2(b) - 1 - f, j) = 0
        /\ \A w \in 0 .. Pow2(h) - 1 : w * Pow2(l) \in Nat /\ w * Pow2(l) < Pow2(l + h) /\ Pow2(l + h) <= Pow2(b)
    <2>1. f = (Pow2(h) - 1) * Pow2(l)
      BY <1>0, <1>1
    <2>2. /\ (Pow2(h) - 1) * Pow2(l) \in 0 .. Pow2(b) - 1
          /\ \A j \in Nat : l <= j /\ j < l + h => BitOf(Pow2(b) - 1 - (Pow2(h) - 1) * Pow2(l), j) = 0
          /\ \A w \in 0 .. Pow2(h) - 1 : w * Pow2(l) \in Nat /\ w * Pow2(l) < Pow2(l + h) /\ Pow2(l + h) <= Pow2(b)
      BY <1>0, <1>2, FieldComplement
    <2> QED
      BY <1>0, <2>1, <2>2, Zenon
  <1>4. f \in Words(c) /\ Low(c, f) = f
    <2>1. f \in Words(c)
      BY <1>0, <1>1, <1>3 DEF Words
    <2> QED
      BY <1>0, <2>1, LowId
  <1>5. m = Pow2(b) - 1 - f /\ m \in Words(c)
    BY <1>0, <1>1, <1>3, <1>4 DEF Complement, Words
  <1>6. PICK y \in Nat : y = v * Pow2(l) /\ y < Pow2(l + h) /\ y \in Words(c)
    <2>1. v * Pow2(l) \in Nat /\ v * Pow2(l) < Pow2(l + h) /\ Pow2(l + h) <= Pow2(b)
      BY <1>0, <1>2, <1>3
    <2>2. Pow2(l + h) \in Nat /\ Pow2(b) \in Nat
      BY <1>0, <1>1, PowerType
    <2>3. v * Pow2(l) \in 0 .. Pow2(b) - 1
      BY <1>0, <2>1, <2>2
    <2> QED
      BY <1>0, <1>1, <2>1, <2>3 DEF Words
  <1>7. m \in Words("x") /\ y \in Words("x") /\ m \in Nat
    BY <1>0, <1>5, <1>6, WordFacts
  <1>8. PICK x \in Nat : x = Combine("and", a, m) /\ x <= m /\ x \in Words("x")
    <2>1. Combine("and", a, m) \in Nat /\ Combine("and", a, m) <= m
      BY <1>0, <1>7, AndBelow
    <2>2. Combine("and", a, m) \in Words("x")
      BY <1>0, <1>7, CombineBits
    <2> QED
      BY <1>0, <2>1, <2>2
  <1>9. x \in Words(c)
    BY <1>0, <1>1, <1>5, <1>8 DEF Words
  <1>10. ASSUME NEW j \in Nat, j < Bits["x"] PROVE BitOf(x, j) * BitOf(y, j) = 0
    <2>1. BitOf(x, j) \in {0, 1} /\ BitOf(y, j) \in {0, 1} /\ BitOf(a, j) \in {0, 1}
      BY <1>0, <1>6, <1>8, BitType
    <2>2. CASE j < l
      <3>1. BitOf(y, j) = 0
        <4>1. v \in Int
          BY <1>0, <1>1, <1>2, PowerType
        <4> QED
          BY <1>0, <1>6, <2>2, <4>1, ShiftedBits
      <3> QED
        BY <1>0, <2>1, <3>1
    <2>3. CASE l + h <= j
      <3>1. BitOf(y, j) = 0
        <4>1. l + h \in Nat
          BY <1>0, SMT
        <4> QED
          BY <1>0, <1>6, <2>3, <4>1, NoBits
      <3> QED
        BY <1>0, <2>1, <3>1
    <2>4. CASE l <= j /\ j < l + h
      <3>1. BitOf(m, j) = 0
        BY <1>0, <1>3, <1>5, <2>4
      <3>2. BitOf(x, j) = Digit("and", BitOf(a, j), BitOf(m, j))
        BY <1>0, <1>7, <1>8, <1>10, CombineBits
      <3>3. BitOf(x, j) = 0
        BY <1>0, <2>1, <3>1, <3>2 DEF Digit
      <3> QED
        BY <1>0, <2>1, <3>3
    <2> QED
      BY <1>0, <2>2, <2>3, <2>4
  <1>11. Combine("or", x, y) = x + y
    BY <1>0, <1>7, <1>8, <1>10, DisjointOr
  <1> QED
    BY <1>0, <1>1, <1>4, <1>5, <1>6, <1>8, <1>9, <1>11

(* A width is less than the words it has. *)
LEMMA PowerExceeds == \A n \in Nat : n < Pow2(n)
  <1> DEFINE P == {n \in Nat : n < Pow2(n)}
  <1>1. 0 \in P
    BY PowerSteps
  <1>2. ASSUME NEW k \in P PROVE k + 1 \in P
    <2>1. k \in Nat /\ Pow2(k) \in Nat /\ Pow2(k + 1) = 2 * Pow2(k) /\ k < Pow2(k)
      BY PowerSteps, PowerType
    <2> QED
      BY <2>1
  <1>3. P = Nat
    <2> HIDE DEF P
    <2>1. P \in SUBSET Nat
      BY DEF P
    <2> QED
      BY <1>1, <1>2, <2>1, Counting
  <1> QED
    BY <1>3

LEMMA BitsBelow ==
    /\ \A c \in Bytewide : Bits[c] < Mod[c]
    /\ Bits["x"] < Mod["w"]
  <1>1. \A c \in Bytewide : Bits[c] < Mod[c]
    BY WidthFacts, PowerExceeds
  <1>2. PICK m \in Nat \ {0}, k \in Nat : m = Bits["h"] /\ k = Mod["h"] /\ Mod["w"] = k * k /\ m < k
    BY <1>1, WidthFacts DEF Bytewide
  <1>3. Bits["x"] = 4 * m /\ m >= 2
    BY <1>2, ByteAssumption DEF Bits, Bytes
  <1>4. 4 * m < (m + 1) * (m + 1)
    <2>1. (m + 1) * (m + 1) = m * m + (2 * m + 1) /\ m * m \in Nat
      BY SMT
    <2>2. m * m >= 2 * m
      <3>1. m * (m - 2) >= 0 /\ m * (m - 2) = m * m - 2 * m
        <4>1. m - 2 \in Nat
          BY <1>3
        <4>2. \A y \in Nat : m * y >= 0
          BY SMT
        <4>3. m * (m - 2) = m * m - 2 * m
          BY SMT
        <4> QED
          BY <4>1, <4>2, <4>3
      <3> QED
        BY <2>1, <3>1
    <2> QED
      BY <2>1, <2>2
  <1>5. (m + 1) * (m + 1) <= k * k
    <2>1. \A x, y \in Nat : x <= y => x * x <= x * y /\ x * y <= y * y
      BY SMT
    <2>2. m + 1 \in Nat /\ m + 1 <= k
      BY <1>2
    <2>3. (m + 1) * k \in Nat /\ k * k \in Nat /\ (m + 1) * (m + 1) \in Nat
      BY SMT
    <2> QED
      BY <2>1, <2>2, <2>3
  <1>6. (m + 1) * (m + 1) \in Nat /\ k * k \in Nat
    BY SMT
  <1> QED
    BY <1>1, <1>2, <1>3, <1>4, <1>5, <1>6

------------------------------------------------------------------------------
(* What sequences leave in registers, cells, flags and memory               *)
------------------------------------------------------------------------------

(* What sequences compute.  The value of an operand, which is 0 for xzr: *)
Val(s, c, t) == IF t = Zero THEN 0 ELSE Get(s, c, t)

(* the contents of o after v is put there, c wide; *)
New(s, c, o, v) == IF o.k = "reg" /\ c \in Widths THEN Low(c, v) ELSE Insert(c, Full(s, o), v)

(* a state in which code runs; *)
Awake(s, G)   == s \in State(G) /\ ~s.fault /\ ~s.taken /\ s.skip = 0
Control(s, t) == t.stack = s.stack /\ t.skip = s.skip /\ t.fault = s.fault /\ t.taken = s.taken

(* what t keeps of s when o is written, and rax perhaps; *)
Kept(s, t, o, G) == \A p : IsPlace(p, G) /\ p # o /\ p # RAX => Full(t, p) = Full(s, p)
Wrote(s, t, o, c, v, G) ==
    /\ t \in State(G) /\ Control(s, t) /\ t.mem = s.mem
    /\ Kept(s, t, o, G)
    /\ o # Zero => Full(t, o) = New(s, c, o, v)

(* and code a that puts v into o and leaves the flags f.                   *)
Puts(s, a, o, c, v, f, G) == IsCode(a) /\ Wrote(s, Run(s, a), o, c, v, G) /\ Run(s, a).flags = f

LEMMA AwakeRun ==
    ASSUME NEW G, NEW s, Awake(s, G), NEW a, NEW o, NEW c, NEW v, NEW f, Puts(s, a, o, c, v, f, G)
    PROVE  Awake(Run(s, a), G)
  BY DEF Awake, Puts, Wrote, Control

LEMMA FullType ==
    ASSUME NEW G, NEW s \in State(G), NEW o, IsPlace(o, G)
    PROVE  Full(s, o) \in Words("x") /\ Full(s, o) \in Nat /\ \A c : Get(s, c, o) = Low(c, Full(s, o))
  <1>1. ASSUME NEW n \in Names, o = R(n) PROVE Full(s, o) \in Words("x") /\ \A c : Get(s, c, o) = Low(c, Full(s, o))
    BY <1>1, OperandKinds DEF Full, State, Get
  <1>2. ASSUME NEW r \in G, o = Cell(r) PROVE Full(s, o) \in Words("x") /\ \A c : Get(s, c, o) = Low(c, Full(s, o))
    BY <1>2, OperandKinds DEF Full, State, Get
  <1>3. Full(s, o) \in Words("x") /\ \A c : Get(s, c, o) = Low(c, Full(s, o))
    BY <1>1, <1>2 DEF IsPlace
  <1> QED
    BY <1>3, WordFacts

LEMMA GetNumber == \A s, c, n : Get(s, c, N(n)) = Low(c, n)
  BY OperandKinds DEF Get

LEMMA NewFacts ==
    ASSUME NEW G, NEW s \in State(G), NEW o, IsPlace(o, G), NEW c \in Bytewide, NEW v \in Int
    PROVE  /\ New(s, c, o, v) \in Words("x") /\ Low(c, New(s, c, o, v)) = Low(c, v)
           /\ \A w \in Int : Low(c, w) = Low(c, v) => New(s, c, o, w) = New(s, c, o, v)
  <1>1. Full(s, o) \in Words("x")
    BY FullType
  <1>2. Insert(c, Full(s, o), v) \in Words("x") /\ Low(c, Insert(c, Full(s, o), v)) = Low(c, v)
    BY <1>1, InsertType
  <1>3. Low(c, v) \in Words("x") /\ Low(c, Low(c, v)) = Low(c, v)
    BY LowType, LowId, WordFacts
  <1>4. \A w \in Int : Low(c, w) = Low(c, v) => Insert(c, Full(s, o), w) = Insert(c, Full(s, o), v)
    BY DEF Insert
  <1> QED
    BY <1>2, <1>3, <1>4 DEF New

(* A place for each home and one home for each place. *)
LEMMA PutFull ==
    ASSUME NEW G, NEW s \in State(G), NEW c \in Bytewide, NEW o, IsPlace(o, G), NEW v \in Int
    PROVE  /\ Full(Put(s, c, o, v), o) = New(s, c, o, v)
           /\ \A p : IsPlace(p, G) /\ p # o => Full(Put(s, c, o, v), p) = Full(s, p)
           /\ Put(s, c, o, v).mem = s.mem
  <1>1. ASSUME NEW n \in Names, o = R(n)
        PROVE  /\ Full(Put(s, c, o, v), o) = New(s, c, o, v)
               /\ \A p : IsPlace(p, G) /\ p # o => Full(Put(s, c, o, v), p) = Full(s, p)
               /\ Put(s, c, o, v).mem = s.mem
    <2> DEFINE w == New(s, c, o, v)
    <2> DEFINE t == [s EXCEPT !.reg[n] = w]
    <2>1. Put(s, c, o, v) = t
      BY <1>1, OperandKinds DEF Put, New, Full, Widths
    <2> HIDE DEF w
    <2>2. t.reg[n] = w /\ t.cell = s.cell /\ t.mem = s.mem /\ \A q \in Names : q # n => t.reg[q] = s.reg[q]
      BY DEF State
    <2> HIDE DEF t
    <2>3. Full(t, o) = w
      BY <1>1, <2>2, OperandKinds DEF Full
    <2>4. ASSUME NEW p, IsPlace(p, G), p # o PROVE Full(t, p) = Full(s, p)
      <3>1. ASSUME NEW q \in Names, p = R(q) PROVE Full(t, p) = Full(s, p)
        BY <1>1, <2>2, <2>4, <3>1, OperandKinds DEF Full
      <3>2. ASSUME NEW r \in G, p = Cell(r) PROVE Full(t, p) = Full(s, p)
        BY <2>2, <3>2, OperandKinds DEF Full
      <3> QED
        BY <2>4, <3>1, <3>2 DEF IsPlace
    <2> QED
      BY <2>1, <2>2, <2>3, <2>4 DEF w
  <1>2. ASSUME NEW r \in G, o = Cell(r)
        PROVE  /\ Full(Put(s, c, o, v), o) = New(s, c, o, v)
               /\ \A p : IsPlace(p, G) /\ p # o => Full(Put(s, c, o, v), p) = Full(s, p)
               /\ Put(s, c, o, v).mem = s.mem
    <2> DEFINE w == New(s, c, o, v)
    <2> DEFINE t == [s EXCEPT !.cell[r] = w]
    <2>1. Put(s, c, o, v) = t
      BY <1>2, OperandKinds DEF Put, New, Full
    <2> HIDE DEF w
    <2>2. t.cell[r] = w /\ t.reg = s.reg /\ t.mem = s.mem /\ \A q \in G : q # r => t.cell[q] = s.cell[q]
      BY DEF State
    <2> HIDE DEF t
    <2>3. Full(t, o) = w
      BY <1>2, <2>2, OperandKinds DEF Full
    <2>4. ASSUME NEW p, IsPlace(p, G), p # o PROVE Full(t, p) = Full(s, p)
      <3>1. ASSUME NEW q \in Names, p = R(q) PROVE Full(t, p) = Full(s, p)
        BY <2>2, <3>1, OperandKinds DEF Full
      <3>2. ASSUME NEW q \in G, p = Cell(q) PROVE Full(t, p) = Full(s, p)
        BY <1>2, <2>2, <2>4, <3>2, OperandKinds DEF Full
      <3> QED
        BY <2>4, <3>1, <3>2 DEF IsPlace
    <2> QED
      BY <2>1, <2>2, <2>3, <2>4 DEF w
  <1> QED
    BY <1>1, <1>2 DEF IsPlace

LEMMA PutWrote ==
    ASSUME NEW G, NEW s \in State(G), NEW c \in Bytewide, NEW o, IsPlace(o, G), NEW v \in Int
    PROVE  /\ Wrote(s, Put(s, c, o, v), o, c, v, G) /\ Put(s, c, o, v).flags = s.flags
           /\ \A f \in FlagWords : LET t == [Put(s, c, o, v) EXCEPT !.flags = f]
                                   IN  Wrote(s, t, o, c, v, G) /\ t.flags = f
  <1>1. PICK t : t = Put(s, c, o, v)
    OBVIOUS
  <1>2. t \in State(G) /\ Frame(s, t)
    BY <1>1, PutType DEF IsTarget
  <1>3. Full(t, o) = New(s, c, o, v) /\ t.mem = s.mem /\ \A p : IsPlace(p, G) /\ p # o => Full(t, p) = Full(s, p)
    BY <1>1, PutFull
  <1>4. Wrote(s, t, o, c, v, G) /\ t.flags = s.flags
    BY <1>2, <1>3 DEF Wrote, Kept, Control, Frame
  <1>5. ASSUME NEW f \in FlagWords, NEW u, u = [t EXCEPT !.flags = f]
        PROVE  Wrote(s, u, o, c, v, G) /\ u.flags = f
    <2>1. u \in State(G) /\ u.reg = t.reg /\ u.cell = t.cell /\ u.mem = t.mem /\ u.flags = f /\ Control(t, u)
      BY <1>2, <1>5 DEF State, Control
    <2>2. \A p : Full(u, p) = Full(t, p)
      BY <2>1 DEF Full
    <2> QED
      BY <1>4, <2>1, <2>2 DEF Wrote, Kept, Control
  <1> QED
    BY <1>1, <1>4, <1>5

LEMMA GetKept ==
    ASSUME NEW G, NEW s \in State(G), NEW t, NEW o, NEW c, NEW v, Wrote(s, t, o, c, v, G),
           NEW p, IsPlace(p, G), p # o, p # RAX
    PROVE  Full(t, p) = Full(s, p) /\ \A d : Get(t, d, p) = Get(s, d, p)
  <1>1. t \in State(G) /\ Full(t, p) = Full(s, p)
    BY DEF Wrote, Kept
  <1> QED
    BY <1>1, FullType

LEMMA GetWrote ==
    ASSUME NEW G, NEW s \in State(G), NEW t, NEW o, IsPlace(o, G), NEW c \in Bytewide, NEW v \in Int, Wrote(s, t, o, c, v, G)
    PROVE  Full(t, o) = New(s, c, o, v) /\ Get(t, c, o) = Low(c, v)
           /\ \A d \in Bytewide : Order[d] <= Order[c] => Get(t, d, o) = Low(d, v)
  <1>1. t \in State(G) /\ Full(t, o) = New(s, c, o, v)
    BY PlaceKinds DEF Wrote
  <1>2. New(s, c, o, v) \in Int /\ Low(c, New(s, c, o, v)) = Low(c, v)
    BY NewFacts, WordFacts
  <1>3. ASSUME NEW d \in Bytewide, Order[d] <= Order[c] PROVE Get(t, d, o) = Low(d, v)
    <2>1. Get(t, d, o) = Low(d, New(s, c, o, v))
      BY <1>1, FullType
    <2>2. Low(d, Low(c, New(s, c, o, v))) = Low(d, New(s, c, o, v)) /\ Low(d, Low(c, v)) = Low(d, v)
      BY <1>2, <1>3, LowNarrow
    <2> QED
      BY <1>2, <2>1, <2>2
  <1>4. Get(t, c, o) = Low(c, v)
    BY <1>1, <1>2, FullType
  <1> QED
    BY <1>1, <1>3, <1>4

LEMMA PutsGet ==
    ASSUME NEW G, NEW s \in State(G), NEW a, NEW o, IsPlace(o, G), NEW c \in Bytewide, NEW v \in Int, NEW f, Puts(s, a, o, c, v, f, G)
    PROVE  /\ Get(Run(s, a), c, o) = Low(c, v) /\ Full(Run(s, a), o) = New(s, c, o, v)
           /\ \A d \in Bytewide : Order[d] <= Order[c] => Get(Run(s, a), d, o) = Low(d, v)
  <1>1. PICK t : t = Run(s, a)
    OBVIOUS
  <1>2. Wrote(s, t, o, c, v, G)
    BY <1>1 DEF Puts
  <1> QED
    BY <1>1, <1>2, GetWrote

(* Only what v is modulo the width matters. *)
LEMMA PutsSame ==
    ASSUME NEW G, NEW s \in State(G), NEW a, NEW o, IsHome(o, G), NEW c \in Bytewide, NEW v \in Int, NEW w \in Int, NEW f,
           Puts(s, a, o, c, v, f, G), Low(c, v) = Low(c, w)
    PROVE  Puts(s, a, o, c, w, f, G)
  <1>1. o # Zero => New(s, c, o, v) = New(s, c, o, w)
    BY NewFacts DEF IsHome
  <1> QED
    BY <1>1 DEF Puts, Wrote

(* One instruction. *)
LEMMA PutsOne ==
    ASSUME NEW G, NEW s, Awake(s, G), NEW x, NEW o, IsPlace(o, G), NEW c \in Bytewide, NEW v \in Int
    PROVE  /\ Effect(s, x) = Put(s, c, o, v) => Puts(s, <<x>>, o, c, v, s.flags, G)
           /\ \A f \in FlagWords : Effect(s, x) = [Put(s, c, o, v) EXCEPT !.flags = f] => Puts(s, <<x>>, o, c, v, f, G)
  <1>1. Run(s, <<x>>) = Effect(s, x) /\ IsCode(<<x>>)
    BY RunOne, RunShort DEF Awake
  <1>2. s \in State(G)
    BY DEF Awake
  <1>3. /\ Wrote(s, Put(s, c, o, v), o, c, v, G) /\ Put(s, c, o, v).flags = s.flags
        /\ \A f \in FlagWords : LET t == [Put(s, c, o, v) EXCEPT !.flags = f]
                                IN  Wrote(s, t, o, c, v, G) /\ t.flags = f
    BY <1>2, PutWrote
  <1>4. ASSUME Effect(s, x) = Put(s, c, o, v) PROVE Puts(s, <<x>>, o, c, v, s.flags, G)
    BY <1>1, <1>3, <1>4 DEF Puts
  <1>5. ASSUME NEW f \in FlagWords, Effect(s, x) = [Put(s, c, o, v) EXCEPT !.flags = f]
        PROVE  Puts(s, <<x>>, o, c, v, f, G)
    <2>1. PICK t : t = [Put(s, c, o, v) EXCEPT !.flags = f]
      OBVIOUS
    <2>2. Wrote(s, t, o, c, v, G) /\ t.flags = f
      BY <1>3, <2>1
    <2> QED
      BY <1>1, <1>5, <2>1, <2>2 DEF Puts
  <1> QED
    BY <1>4, <1>5

(* Nothing. *)
LEMMA PutsNothing ==
    ASSUME NEW G, NEW s, Awake(s, G), NEW o, IsPlace(o, G)
    PROVE  Puts(s, <<>>, o, "x", Full(s, o), s.flags, G) /\ \A c, v : Puts(s, <<>>, Zero, c, v, s.flags, G)
  <1>1. Run(s, <<>>) = s /\ IsCode(<<>>)
    BY RunShort
  <1>2. Full(s, o) \in Words("x") /\ s \in State(G)
    BY FullType DEF Awake
  <1>3. New(s, "x", o, Full(s, o)) = Full(s, o)
    <2>1. Low("x", Full(s, o)) = Full(s, o) /\ Full(s, o) \in Int
      BY <1>2, LowId, WordFacts DEF Bytewide
    <2>2. Insert("x", Full(s, o), Full(s, o)) = Full(s, o)
      BY <2>1 DEF Insert
    <2> QED
      BY <2>1, <2>2 DEF New
  <1>4. Control(s, s)
    BY DEF Control
  <1> QED
    BY <1>1, <1>2, <1>3, <1>4 DEF Puts, Wrote, Kept

(* Through rax: what a leaves there, b may use. *)
LEMMA PutsThrough ==
    ASSUME NEW G, NEW s, Awake(s, G), NEW a, NEW c, NEW v, NEW f, Puts(s, a, Zero, c, v, f, G),
           NEW b, NEW o, IsHome(o, G), NEW d \in Bytewide, o = RAX => d \in Widths, NEW w, NEW g, Puts(Run(s, a), b, o, d, w, g, G)
    PROVE  Puts(s, a \o b, o, d, w, g, G)
  <1>1. PICK t : t = Run(s, a)
    OBVIOUS
  <1>2. PICK u : u = Run(t, b)
    OBVIOUS
  <1>3. IsCode(a) /\ IsCode(b) /\ Wrote(s, t, Zero, c, v, G) /\ Wrote(t, u, o, d, w, G) /\ u.flags = g
    BY <1>1, <1>2 DEF Puts
  <1>4. Run(s, a \o b) = u /\ IsCode(a \o b)
    BY <1>1, <1>2, <1>3, RunConcat
  <1>5. u \in State(G) /\ Control(s, u) /\ u.mem = s.mem /\ Kept(s, u, o, G)
    <2>1. \A p : IsPlace(p, G) => p # Zero
      BY PlaceKinds
    <2>2. Kept(s, u, o, G)
      BY <1>3, <2>1 DEF Wrote, Kept
    <2> QED
      BY <1>3, <2>2 DEF Wrote, Control
  <1>6. o # Zero => Full(u, o) = New(s, d, o, w)
    <2>1. CASE o = RAX
      BY <1>3, <2>1, RaxHome DEF Wrote, New
    <2>2. CASE o # RAX /\ o # Zero
      <3>1. Full(t, o) = Full(s, o)
        BY <1>3, <2>2, PlaceKinds DEF Wrote, Kept, IsHome
      <3> QED
        BY <1>3, <2>2, <3>1 DEF Wrote, New
    <2> QED
      BY <2>1, <2>2
  <1> QED
    BY <1>3, <1>4, <1>5, <1>6 DEF Puts, Wrote

(* In the same place: only the last value remains. *)
LEMMA PutsAgain ==
    ASSUME NEW G, NEW s, Awake(s, G), NEW a, NEW o, IsPlace(o, G), NEW c \in Bytewide, NEW v \in Int, NEW f, Puts(s, a, o, c, v, f, G),
           NEW b, NEW w \in Int, NEW g, Puts(Run(s, a), b, o, c, w, g, G)
    PROVE  Puts(s, a \o b, o, c, w, g, G)
  <1>1. PICK t : t = Run(s, a)
    OBVIOUS
  <1>2. PICK u : u = Run(t, b)
    OBVIOUS
  <1>3. IsCode(a) /\ IsCode(b) /\ Wrote(s, t, o, c, v, G) /\ Wrote(t, u, o, c, w, G) /\ u.flags = g
    BY <1>1, <1>2 DEF Puts
  <1>4. Run(s, a \o b) = u /\ IsCode(a \o b)
    BY <1>1, <1>2, <1>3, RunConcat
  <1>5. u \in State(G) /\ Control(s, u) /\ u.mem = s.mem /\ Kept(s, u, o, G)
    BY <1>3 DEF Wrote, Control, Kept
  <1>6. New(t, c, o, w) = New(s, c, o, w)
    <2>1. Full(t, o) = New(s, c, o, v) /\ s \in State(G)
      BY <1>3, PlaceKinds DEF Wrote, Awake
    <2>2. CASE o.k = "reg" /\ c \in Widths
      BY <2>2 DEF New
    <2>3. CASE ~(o.k = "reg" /\ c \in Widths)
      <3>1. New(s, c, o, v) = Insert(c, Full(s, o), v)
        BY <2>3 DEF New
      <3>2. PICK old : old = Full(s, o) /\ old \in Words("x") /\ old \in Int
        BY <2>1, FullType
      <3>3. Low(c, Insert(c, old, v)) = Low(c, v) /\ Low(c, v) \in Int /\ Low(c, old) \in Int /\ Low(c, w) \in Int
        BY <3>2, InsertType, LowType
      <3>4. Insert(c, Insert(c, old, v), w) = Insert(c, old, w)
        <4>1. Insert(c, Insert(c, old, v), w) = Insert(c, old, v) - Low(c, v) + Low(c, w)
          BY <3>3 DEF Insert
        <4>2. PICK p, q, z : p = Low(c, old) /\ q = Low(c, v) /\ z = Low(c, w)
          OBVIOUS
        <4>3. Insert(c, old, v) = old - p + q /\ Insert(c, old, w) = old - p + z
          BY <4>2 DEF Insert
        <4>4. (old - p + q) - q + z = old - p + z
          BY <3>2, <3>3, <4>2
        <4> QED
          BY <4>1, <4>2, <4>3, <4>4
      <3> QED
        BY <2>1, <2>3, <3>1, <3>2, <3>4 DEF New
    <2> QED
      BY <2>2, <2>3
  <1> QED
    BY <1>3, <1>4, <1>5, <1>6, PlaceKinds DEF Puts, Wrote

LEMMA RaxIsHome == \A G, s, a, c, v, f : Puts(s, a, RAX, c, v, f, G) => Puts(s, a, Zero, c, v, f, G)
  BY DEF Puts, Wrote, Kept

(* Instructions with a source and a destination. *)
Writing == {"mov"} \cup AluOps
Binary(op, a, b)            == IF op = "mov" THEN b ELSE Alu(op, a, b)
BinaryFlags(op, c, f, a, b) == IF op = "mov" THEN f ELSE AluFlags(op, c, a, b)

LEMMA BinaryType ==
    ASSUME NEW op \in Writing, NEW c \in Bytewide, NEW a \in Int, NEW b \in Int, NEW f \in FlagWords
    PROVE  Binary(op, a, b) \in Int /\ BinaryFlags(op, c, f, a, b) \in FlagWords
  BY AluType DEF Writing, Binary, BinaryFlags

LEMMA PutsTwo ==
    ASSUME NEW G, NEW s, Awake(s, G), NEW op \in Writing, NEW c \in Bytewide, NEW o, IsPlace(o, G), NEW from, IsSource(from, G)
    PROVE  Puts(s, <<I(op, c, o, from)>>, o, c, Binary(op, Get(s, c, o), Get(s, c, from)),
                BinaryFlags(op, c, s.flags, Get(s, c, o), Get(s, c, from)), G)
  <1>1. s \in State(G) /\ s.flags \in FlagWords
    BY DEF Awake, State
  <1>2. PICK a \in Int, b \in Int : a = Get(s, c, o) /\ b = Get(s, c, from)
    <2>1. IsSource(o, G)
      BY DEF IsSource, IsTarget
    <2> QED
      BY <1>1, <2>1, GetType
  <1>3. Binary(op, a, b) \in Int /\ BinaryFlags(op, c, s.flags, a, b) \in FlagWords
    BY <1>1, BinaryType
  <1>4. CASE op = "mov"
    <2>1. Effect(s, I(op, c, o, from)) = Put(s, c, o, b)
      BY <1>2, <1>4, EffectOfMov
    <2>2. Puts(s, <<I(op, c, o, from)>>, o, c, b, s.flags, G)
      BY <1>2, <2>1, PutsOne
    <2> QED
      BY <1>2, <1>4, <2>2 DEF Binary, BinaryFlags
  <1>5. CASE op # "mov"
    <2>1. op \in AluOps
      BY <1>5 DEF Writing
    <2>2. Effect(s, I(op, c, o, from)) = [Put(s, c, o, Alu(op, a, b)) EXCEPT !.flags = AluFlags(op, c, a, b)]
      BY <1>2, <2>1, EffectOfAlu
    <2>3. Alu(op, a, b) \in Int /\ AluFlags(op, c, a, b) \in FlagWords
      BY <1>2, <2>1, AluType
    <2>4. Puts(s, <<I(op, c, o, from)>>, o, c, Alu(op, a, b), AluFlags(op, c, a, b), G)
      BY <2>2, <2>3, PutsOne
    <2> QED
      BY <1>2, <1>5, <2>4 DEF Binary, BinaryFlags
  <1> QED
    BY <1>4, <1>5

(* ... after code that has changed rax only. *)
LEMMA KeptSource ==
    ASSUME NEW G, NEW s \in State(G), NEW a, NEW o, NEW c, NEW v, NEW f, Puts(s, a, o, c, v, f, G),
           NEW p, \/ IsPlace(p, G) /\ p # RAX /\ p # o
                  \/ \E n \in Int : p = N(n)
    PROVE  \A d : Get(Run(s, a), d, p) = Get(s, d, p)
  <1>1. CASE IsPlace(p, G) /\ p # RAX /\ p # o
    BY <1>1, GetKept DEF Puts
  <1>2. CASE \E n \in Int : p = N(n)
    BY <1>2, GetNumber
  <1> QED
    BY <1>1, <1>2

(* The result is in rax when the destination is not a register. *)
LEMMA PutsPost ==
    ASSUME NEW G, NEW s, Awake(s, G), NEW a, NEW d, IsHome(d, G), NEW c \in Widths, NEW v \in Int, NEW f,
           Puts(s, a, reg_operand(d), c, v, f, G)
    PROVE  Puts(s, a \o post_write(d, c), d, c, v, f, G)
  <1>1. c \in Bytewide /\ IsCode(a)
    BY WidthFacts DEF Puts
  <1>2. CASE d.k = "reg"
    <2>1. post_write(d, c) = <<>> /\ reg_operand(d) = d
      BY <1>2 DEF post_write, reg_operand
    <2>2. a \o <<>> = a
      <3>1. PICK S : a \in Seq(S)
        BY <1>1 DEF IsCode
      <3> QED
        BY <3>1
    <2> QED
      BY <2>1, <2>2
  <1>3. CASE d = Zero
    <2>1. post_write(d, c) = <<>> /\ reg_operand(d) = RAX
      BY <1>3 DEF post_write, reg_operand, Zero
    <2>2. a \o <<>> = a
      <3>1. PICK S : a \in Seq(S)
        BY <1>1 DEF IsCode
      <3> QED
        BY <3>1
    <2> QED
      BY <1>3, <2>1, <2>2, RaxIsHome
  <1>4. CASE d.k = "cell" /\ IsPlace(d, G)
    <2>1. post_write(d, c) = <<I("mov", c, d, RAX)>> /\ reg_operand(d) = RAX
      BY <1>4 DEF post_write, reg_operand
    <2>2. PICK t : t = Run(s, a) /\ Awake(t, G) /\ t.flags = f
      BY AwakeRun DEF Puts
    <2>3. Get(t, c, RAX) = Low(c, v)
      BY <1>1, <2>1, <2>2, GetWrote, RaxHome DEF Puts, Awake
    <2>4. Puts(t, <<I("mov", c, d, RAX)>>, d, c, Low(c, v), f, G)
      <3>1. "mov" \in Writing /\ IsSource(RAX, G)
        BY RaxHome, TargetIsSource DEF Writing
      <3> QED
        BY <1>1, <1>4, <2>2, <2>3, <3>1, PutsTwo DEF Binary, BinaryFlags
    <2>5. Puts(t, <<I("mov", c, d, RAX)>>, d, c, v, f, G)
      <3>1. Low(c, v) \in Int /\ Low(c, Low(c, v)) = Low(c, v)
        BY <1>1, LowType, LowId
      <3> QED
        BY <1>1, <2>2, <2>4, <3>1, PutsSame DEF Awake
    <2> QED
      BY <1>1, <2>1, <2>2, <2>5, RaxIsHome, PutsThrough
  <1> QED
    BY <1>2, <1>3, <1>4, PlaceKinds DEF IsHome

------------------------------------------------------------------------------
(* The sequences of Operands *)

(* The value of t is in a register after a, which changes rax at most.     *)
Fetches(s, a, t, c, G) ==
    \E f : /\ Puts(s, a, Zero, c, 0, f, G) /\ (t # Zero => f = s.flags)
           /\ Get(Run(s, a), c, reg_operand(t)) = Val(s, c, t)

LEMMA PutsZero ==
    ASSUME NEW G, NEW s, Awake(s, G), NEW c \in Bytewide, NEW o, IsPlace(o, G)
    PROVE  \E f : Puts(s, <<I("xor", c, o, o)>>, o, c, 0, f, G)
  <1>1. s \in State(G) /\ IsSource(o, G)
    BY DEF Awake, IsSource, IsTarget
  <1>2. Get(s, c, o) \in Int
    BY <1>1, GetType
  <1>3. Binary("xor", Get(s, c, o), Get(s, c, o)) = 0
    BY <1>2, CombineSelf DEF Binary, Alu
  <1>4. "xor" \in Writing
    BY DEF Writing, AluOps
  <1> QED
    BY <1>1, <1>3, <1>4, PutsTwo

LEMMA LowZero == \A c \in Bytewide : Low(c, 0) = 0
  <1>1. \A c \in Bytewide : 0 \in Words(c)
    BY WidthFacts DEF Words
  <1> QED
    BY <1>1, LowId

LEMMA PreReadFetches ==
    ASSUME NEW G, NEW s, Awake(s, G), NEW t, IsHome(t, G), NEW c \in Widths
    PROVE  Fetches(s, pre_read(t, c), t, c, G) /\ (t.k = "reg" => pre_read(t, c) = <<>>)
  <1>1. c \in Bytewide /\ "w" \in Bytewide /\ s \in State(G)
    BY WidthFacts DEF Bytewide, Awake
  <1>2. CASE t.k = "reg"
    <2>1. pre_read(t, c) = <<>> /\ reg_operand(t) = t /\ t # Zero
      BY <1>2 DEF pre_read, reg_operand, Zero
    <2>2. Run(s, <<>>) = s /\ Puts(s, <<>>, Zero, c, 0, s.flags, G)
      BY RunShort, RaxHome, PutsNothing
    <2> QED
      BY <2>1, <2>2 DEF Fetches, Val
  <1>3. CASE t.k = "cell" /\ IsPlace(t, G)
    <2>1. pre_read(t, c) = <<I("mov", c, RAX, t)>> /\ reg_operand(t) = RAX /\ t # Zero
      BY <1>3 DEF pre_read, reg_operand, Zero
    <2>2. PICK u : u = Run(s, <<I("mov", c, RAX, t)>>)
      OBVIOUS
    <2>3. Puts(s, <<I("mov", c, RAX, t)>>, RAX, c, Get(s, c, t), s.flags, G)
      <3>1. "mov" \in Writing /\ IsSource(t, G)
        BY <1>3, TargetIsSource DEF Writing
      <3> QED
        BY <1>1, <3>1, RaxHome, PutsTwo DEF Binary, BinaryFlags
    <2>4. Get(s, c, t) \in Words(c) /\ Get(s, c, t) \in Int
      <3>1. IsSource(t, G)
        BY <1>3, TargetIsSource
      <3> QED
        BY <1>1, <3>1, GetType
    <2>5. Get(u, c, RAX) = Get(s, c, t)
      <3>1. Get(u, c, RAX) = Low(c, Get(s, c, t))
        BY <1>1, <2>2, <2>3, <2>4, GetWrote, RaxHome DEF Puts
      <3> QED
        BY <1>1, <2>4, <3>1, LowId
    <2>6. Puts(s, <<I("mov", c, RAX, t)>>, Zero, c, 0, s.flags, G)
      BY <2>3 DEF Puts, Wrote, Kept
    <2> QED
      BY <1>3, <2>1, <2>2, <2>5, <2>6 DEF Fetches, Val
  <1>4. CASE t = Zero
    <2>1. pre_read(t, c) = <<I("xor", "w", RAX, RAX)>> /\ reg_operand(t) = RAX /\ t.k # "reg"
      BY <1>4 DEF pre_read, reg_operand, Zero
    <2>2. PICK f : Puts(s, <<I("xor", "w", RAX, RAX)>>, RAX, "w", 0, f, G)
      BY <1>1, RaxHome, PutsZero
    <2>3. PICK u : u = Run(s, <<I("xor", "w", RAX, RAX)>>) /\ Wrote(s, u, RAX, "w", 0, G)
      BY <2>2 DEF Puts
    <2>4. Full(u, RAX) = 0 /\ u \in State(G)
      <3>1. Full(u, RAX) = New(s, "w", RAX, 0) /\ u \in State(G)
        BY <2>3, RaxHome DEF Wrote
      <3> QED
        BY <1>1, <3>1, LowZero, RaxHome DEF New, Widths
    <2>5. Get(u, c, RAX) = 0
      BY <1>1, <2>4, FullType, LowZero, RaxHome
    <2>6. Puts(s, <<I("xor", "w", RAX, RAX)>>, Zero, c, 0, f, G)
      BY <2>2 DEF Puts, Wrote, Kept
    <2> QED
      BY <1>4, <2>1, <2>3, <2>5, <2>6 DEF Fetches, Val
  <1> QED
    BY <1>2, <1>3, <1>4, PlaceKinds DEF IsHome

LEMMA ValType ==
    ASSUME NEW G, NEW s \in State(G), NEW c \in Bytewide, NEW t, IsHome(t, G)
    PROVE  Val(s, c, t) \in Words(c) /\ Val(s, c, t) \in Int /\ (t # Zero => Val(s, c, t) = Get(s, c, t))
  <1>1. CASE t = Zero
    BY <1>1, WidthFacts DEF Val, Words
  <1>2. CASE t # Zero
    <2>1. IsSource(t, G)
      BY <1>2, TargetIsSource DEF IsHome
    <2> QED
      BY <1>2, <2>1, GetType DEF Val
  <1> QED
    BY <1>1, <1>2

(* Two homes, of which one may be in memory. *)
LEMMA PutsRr ==
    ASSUME NEW G, NEW s, Awake(s, G), NEW op \in Writing, NEW c \in Widths, NEW dest, IsPlace(dest, G), NEW src, IsPlace(src, G),
           NEW reads \in BOOLEAN, reads \/ op = "mov"
    PROVE  Puts(s, make_rr_impl(op, c, dest, src, reads, TRUE), dest, c, Binary(op, Get(s, c, dest), Get(s, c, src)),
                BinaryFlags(op, c, s.flags, Get(s, c, dest), Get(s, c, src)), G)
  <1>1. c \in Bytewide /\ s \in State(G) /\ IsSource(dest, G) /\ IsSource(src, G) /\ IsHome(dest, G)
    BY WidthFacts, TargetIsSource DEF Awake, IsHome
  <1>2. PICK a \in Words(c), b \in Words(c) : a = Get(s, c, dest) /\ b = Get(s, c, src)
    BY <1>1, GetType
  <1>3. a \in Int /\ b \in Int /\ s.flags \in FlagWords
    BY <1>1, <1>2, WordFacts DEF State
  <1>4. CASE ~(dest.k = "cell" /\ src.k = "cell")
    <2>1. make_rr_impl(op, c, dest, src, reads, TRUE) = <<I(op, c, dest, src)>>
      BY <1>4, Zenon DEF make_rr_impl
    <2> QED
      BY <1>1, <2>1, PutsTwo
  <1>5. CASE dest.k = "cell" /\ src.k = "cell"
    <2> DEFINE p == IF reads THEN pre_read(dest, c) ELSE <<>>
               x == <<I(op, c, RAX, src)>>
    <2>1. make_rr_impl(op, c, dest, src, reads, TRUE) = (p \o x) \o post_write(dest, c)
      BY <1>5, Zenon DEF make_rr_impl
    <2>2. reg_operand(dest) = RAX /\ dest # Zero /\ dest # RAX /\ src # RAX /\ src # Zero /\ RAX.k = "reg"
      BY <1>5, RaxHome DEF reg_operand, Zero
    <2>3. \E f : Puts(s, p, Zero, c, 0, f, G) /\ f = s.flags /\ (reads => Get(Run(s, p), c, RAX) = a)
      <3>1. CASE reads
        <4>1. Fetches(s, pre_read(dest, c), dest, c, G)
          BY <1>1, PreReadFetches
        <4> QED
          BY <1>2, <2>2, <3>1, <4>1 DEF Fetches, Val
      <3>2. CASE ~reads
        BY <3>2, PutsNothing, RaxHome
      <3> QED
        BY <3>1, <3>2
    <2> HIDE DEF p
    <2>4. PICK t : t = Run(s, p) /\ Puts(s, p, Zero, c, 0, s.flags, G) /\ Awake(t, G) /\ t.flags = s.flags /\ t \in State(G)
                   /\ (reads => Get(t, c, RAX) = a)
      <3>1. Puts(s, p, Zero, c, 0, s.flags, G) /\ (reads => Get(Run(s, p), c, RAX) = a)
        BY <2>3
      <3>2. Awake(Run(s, p), G) /\ Run(s, p).flags = s.flags
        BY <3>1, AwakeRun DEF Puts
      <3> QED
        BY <3>1, <3>2 DEF Awake
    <2>5. Get(t, c, src) = b
      BY <1>1, <1>2, <2>2, <2>4, KeptSource
    <2>6. Puts(t, x, RAX, c, Binary(op, Get(t, c, RAX), b), BinaryFlags(op, c, s.flags, Get(t, c, RAX), b), G)
      BY <1>1, <2>4, <2>5, RaxHome, PutsTwo
    <2>7. /\ Binary(op, Get(t, c, RAX), b) = Binary(op, a, b)
          /\ BinaryFlags(op, c, s.flags, Get(t, c, RAX), b) = BinaryFlags(op, c, s.flags, a, b)
      BY <2>4 DEF Binary, BinaryFlags
    <2>8. Puts(s, p \o x, RAX, c, Binary(op, a, b), BinaryFlags(op, c, s.flags, a, b), G)
      <3> HIDE DEF x
      <3> QED
        BY <1>1, <2>4, <2>6, <2>7, RaxHome, PutsThrough
    <2>9. Binary(op, a, b) \in Int
      BY <1>1, <1>3, BinaryType
    <2>10. Puts(s, (p \o x) \o post_write(dest, c), dest, c, Binary(op, a, b), BinaryFlags(op, c, s.flags, a, b), G)
      <3> HIDE DEF x
      <3> QED
        BY <1>1, <2>2, <2>8, <2>9, PutsPost
    <2> QED
      BY <1>2, <2>1, <2>10
  <1> QED
    BY <1>4, <1>5

LEMMA PutsMakeRr ==
    ASSUME NEW G, NEW s, Awake(s, G), NEW op \in Writing, NEW c \in Widths, NEW dest, IsPlace(dest, G), NEW src, IsPlace(src, G)
    PROVE  Puts(s, make_rr(op, c, dest, src), dest, c, Binary(op, Get(s, c, dest), Get(s, c, src)),
                BinaryFlags(op, c, s.flags, Get(s, c, dest), Get(s, c, src)), G)
  BY PutsRr DEF make_rr

(* Moves of a home that may be xzr. *)
LEMMA PutsMovRr ==
    ASSUME NEW G, NEW s, Awake(s, G), NEW c \in Widths, NEW dest, IsPlace(dest, G), NEW src, IsHome(src, G)
    PROVE  \E f : Puts(s, make_mov_rr(c, dest, src), dest, c, Val(s, c, src), f, G) /\ (src # Zero => f = s.flags)
  <1>1. c \in Bytewide /\ s \in State(G) /\ s.flags \in FlagWords
    BY WidthFacts DEF Awake, State
  <1>2. CASE src = Zero
    <2>1. make_mov_rr(c, dest, src) = make_rr("xor", c, dest, dest)
      BY <1>2 DEF make_mov_rr, Zero
    <2>2. "xor" \in Writing /\ IsSource(dest, G)
      BY TargetIsSource DEF Writing, AluOps
    <2>3. Binary("xor", Get(s, c, dest), Get(s, c, dest)) = 0
      <3>1. Get(s, c, dest) \in Int
        BY <1>1, <2>2, GetType
      <3> QED
        BY <3>1, CombineSelf DEF Binary, Alu
    <2> QED
      BY <1>2, <2>1, <2>2, <2>3, PutsMakeRr DEF Val
  <1>3. CASE src # Zero
    <2>1. IsPlace(src, G) /\ src.k # "zero"
      BY <1>3, PlaceKinds DEF IsHome
    <2>2. make_mov_rr(c, dest, src) = make_rr_impl("mov", c, dest, src, FALSE, TRUE)
      BY <2>1 DEF make_mov_rr
    <2>3. "mov" \in Writing
      BY DEF Writing
    <2>4. Puts(s, make_rr_impl("mov", c, dest, src, FALSE, TRUE), dest, c, Get(s, c, src), s.flags, G)
      BY <2>1, <2>3, PutsRr DEF Binary, BinaryFlags
    <2> QED
      BY <1>3, <2>2, <2>4 DEF Val
  <1> QED
    BY <1>2, <1>3

(* Constants *)
LEMMA PutsRi ==
    ASSUME NEW G, NEW s, Awake(s, G), NEW op \in Writing, NEW c \in Widths, NEW o, IsPlace(o, G), NEW imm \in Int,
           NEW b, b = Low(c, Signed("w", imm))
    PROVE  Puts(s, make_ri(op, c, o, imm), o, c, Binary(op, Get(s, c, o), b), BinaryFlags(op, c, s.flags, Get(s, c, o), b), G)
  <1>1. c \in Bytewide /\ Signed("w", imm) \in Int /\ IsSource(N(Signed("w", imm)), G)
    <2>1. Signed("w", imm) \in Int
      BY SignedInt
    <2> QED
      BY <2>1, WidthFacts DEF IsSource
  <1>2. Get(s, c, N(Signed("w", imm))) = b
    BY GetNumber
  <1> QED
    BY <1>1, <1>2, PutsTwo DEF make_ri

(* Three operands. *)
LEMMA PutsRrr ==
    ASSUME NEW G, NEW s, Awake(s, G), NEW op \in AluOps, NEW c \in Widths, NEW dest, IsHome(dest, G),
           NEW src1, IsPlace(src1, G), NEW src2, IsPlace(src2, G), src2 # RAX, src2 # dest \/ src1 = dest \/ dest.k # "reg"
    PROVE  Puts(s, make_rrr(op, c, dest, src1, src2), dest, c, Alu(op, Get(s, c, src1), Get(s, c, src2)),
                AluFlags(op, c, Get(s, c, src1), Get(s, c, src2)), G)
  <1>1. c \in Bytewide /\ s \in State(G) /\ IsSource(src1, G) /\ IsSource(src2, G) /\ op \in Writing /\ op # "mov" /\ "mov" \in Writing
    BY WidthFacts, TargetIsSource DEF Awake, Writing, AluOps
  <1>2. PICK a \in Words(c), b \in Words(c) : a = Get(s, c, src1) /\ b = Get(s, c, src2)
    BY <1>1, GetType
  <1>3. a \in Int /\ b \in Int /\ s.flags \in FlagWords /\ Low(c, a) = a
    BY <1>1, <1>2, WordFacts, LowId DEF State
  <1>4. \A x, y, f : Binary(op, x, y) = Alu(op, x, y) /\ BinaryFlags(op, c, f, x, y) = AluFlags(op, c, x, y)
    BY <1>1 DEF Binary, BinaryFlags
  <1>5. CASE dest = src1
    <2>1. make_rrr(op, c, dest, src1, src2) = make_rr(op, c, src1, src2)
      BY <1>5 DEF make_rrr
    <2>2. Puts(s, make_rr(op, c, src1, src2), src1, c, Binary(op, Get(s, c, src1), Get(s, c, src2)),
               BinaryFlags(op, c, s.flags, Get(s, c, src1), Get(s, c, src2)), G)
      BY <1>1, PutsMakeRr
    <2> QED
      BY <1>4, <1>5, <2>1, <2>2
  <1>6. CASE dest # src1
    <2> DEFINE o == reg_operand(dest)
               x == <<I("mov", c, o, src1)>>
               y == <<I(op, c, o, src2)>>
    <2>1. make_rrr(op, c, dest, src1, src2) = (x \o y) \o post_write(dest, c)
      <3>1. make_rrr(op, c, dest, src1, src2) = <<I("mov", c, o, src1), I(op, c, o, src2)>> \o post_write(dest, c)
        BY <1>6 DEF make_rrr
      <3> QED
        BY <3>1, TwoParts
    <2>2. IsPlace(o, G) /\ src2 # o
      <3>1. IsPlace(o, G)
        BY HomeOperand
      <3>2. o = RAX \/ (o = dest /\ dest.k = "reg")
        BY DEF reg_operand
      <3> QED
        BY <1>6, <3>1, <3>2
    <2> HIDE DEF o
    <2>3. Puts(s, x, o, c, a, s.flags, G)
      BY <1>1, <1>2, <2>2, PutsTwo DEF Binary, BinaryFlags
    <2>4. PICK t : t = Run(s, x) /\ Awake(t, G) /\ t.flags = s.flags
      BY <2>3, AwakeRun DEF Puts
    <2>5. Get(t, c, o) = a /\ Get(t, c, src2) = b
      <3>1. Get(t, c, o) = Low(c, a)
        BY <1>1, <1>3, <2>2, <2>3, <2>4, GetWrote DEF Puts
      <3>2. Get(t, c, src2) = Get(s, c, src2)
        BY <1>1, <2>2, <2>3, <2>4, KeptSource
      <3> QED
        BY <1>2, <1>3, <3>1, <3>2
    <2>6. Puts(t, y, o, c, Alu(op, a, b), AluFlags(op, c, a, b), G)
      BY <1>1, <1>4, <2>2, <2>4, <2>5, PutsTwo
    <2>7. Alu(op, a, b) \in Int
      BY <1>1, <1>3, AluType
    <2>8. Puts(s, x \o y, o, c, Alu(op, a, b), AluFlags(op, c, a, b), G)
      <3> HIDE DEF x, y
      <3> QED
        BY <1>1, <1>3, <2>2, <2>3, <2>4, <2>6, <2>7, PutsAgain
    <2>9. Puts(s, (x \o y) \o post_write(dest, c), dest, c, Alu(op, a, b), AluFlags(op, c, a, b), G)
      <3> HIDE DEF x, y
      <3> QED
        BY <2>7, <2>8, PutsPost DEF o
    <2> QED
      BY <1>2, <2>1, <2>9
  <1> QED
    BY <1>5, <1>6

LEMMA WroteGet ==
    \A G, s, t, o, c, v : Wrote(s, t, o, c, v, G) /\ s \in State(G) /\ IsPlace(o, G) /\ c \in Bytewide /\ v \in Int => Get(t, c, o) = Low(c, v)
  <1> SUFFICES ASSUME NEW G, NEW s, NEW t, NEW o, NEW c, NEW v, Wrote(s, t, o, c, v, G), s \in State(G), IsPlace(o, G), c \in Bytewide, v \in Int
               PROVE  Get(t, c, o) = Low(c, v)
    OBVIOUS
  <1> QED
    BY GetWrote

(* A move, and what it leaves. *)
MovedTo(s, t, o, c, a, G) == Awake(t, G) /\ t.flags = s.flags /\ Get(t, c, o) = a

LEMMA PutsMove ==
    ASSUME NEW G, NEW s, Awake(s, G), NEW c \in Widths, NEW o, IsPlace(o, G), NEW src, IsPlace(src, G), NEW a, a = Get(s, c, src)
    PROVE  Puts(s, <<I("mov", c, o, src)>>, o, c, a, s.flags, G) /\ MovedTo(s, Run(s, <<I("mov", c, o, src)>>), o, c, a, G)
  <1> DEFINE x == <<I("mov", c, o, src)>>
             t == Run(s, x)
  <1>1. c \in Bytewide /\ s \in State(G) /\ IsSource(src, G) /\ "mov" \in Writing
    BY WidthFacts, TargetIsSource DEF Awake, Writing
  <1>2. a \in Words(c) /\ a \in Int /\ Low(c, a) = a
    <2>1. a \in Words(c) /\ a \in Nat
      BY <1>1, GetType
    <2> QED
      BY <1>1, <2>1, LowId
  <1>3. Puts(s, x, o, c, a, s.flags, G)
    BY <1>1, PutsTwo DEF Binary, BinaryFlags
  <1> HIDE DEF x
  <1>4. Awake(t, G) /\ t.flags = s.flags
    BY <1>3, AwakeRun DEF Puts
  <1>5. Wrote(s, t, o, c, a, G)
    BY <1>3 DEF Puts
  <1> HIDE DEF t
  <1>6. Get(t, c, o) = Low(c, a)
    BY <1>1, <1>2, <1>5, WroteGet
  <1> QED
    BY <1>2, <1>3, <1>4, <1>6 DEF MovedTo, t, x

LEMMA PutsRri ==
    ASSUME NEW G, NEW s, Awake(s, G), NEW op \in AluOps, NEW c \in Widths, NEW dest, IsHome(dest, G),
           NEW src, IsPlace(src, G), NEW imm \in Int, NEW b, b = Low(c, Signed("w", imm))
    PROVE  Puts(s, make_rri(op, c, dest, src, imm), dest, c, Alu(op, Get(s, c, src), b), AluFlags(op, c, Get(s, c, src), b), G)
  <1>1. c \in Bytewide /\ s \in State(G) /\ IsSource(src, G) /\ op \in Writing /\ op # "mov" /\ "mov" \in Writing
    BY WidthFacts, TargetIsSource DEF Awake, Writing, AluOps
  <1>2. PICK a \in Words(c) : a = Get(s, c, src)
    BY <1>1, GetType
  <1>3. a \in Int /\ b \in Int /\ s.flags \in FlagWords /\ Low(c, a) = a
    <2>1. Signed("w", imm) \in Int
      BY SignedInt
    <2> QED
      BY <1>1, <1>2, <2>1, WordFacts, LowId, LowType DEF State
  <1>4. \A x, y, f : Binary(op, x, y) = Alu(op, x, y) /\ BinaryFlags(op, c, f, x, y) = AluFlags(op, c, x, y)
    BY <1>1 DEF Binary, BinaryFlags
  <1>5. CASE dest = src
    <2>1. make_rri(op, c, dest, src, imm) = make_ri(op, c, src, imm)
      BY <1>5 DEF make_rri
    <2>2. Puts(s, make_ri(op, c, src, imm), src, c, Binary(op, Get(s, c, src), b), BinaryFlags(op, c, s.flags, Get(s, c, src), b), G)
      BY <1>1, PutsRi
    <2> QED
      BY <1>4, <1>5, <2>1, <2>2
  <1>6. CASE dest # src
    <2> DEFINE o == reg_operand(dest)
               x == <<I("mov", c, o, src)>>
               y == make_ri(op, c, o, imm)
    <2>1. make_rri(op, c, dest, src, imm) = (x \o y) \o post_write(dest, c)
      BY <1>6 DEF make_rri
    <2>2. IsPlace(o, G)
      BY HomeOperand
    <2> HIDE DEF o
    <2>3. Puts(s, x, o, c, a, s.flags, G) /\ MovedTo(s, Run(s, x), o, c, a, G)
      BY <1>2, <2>2, PutsMove
    <2>4. PICK t : t = Run(s, x) /\ Awake(t, G) /\ t.flags = s.flags /\ Get(t, c, o) = a
      BY <2>3 DEF MovedTo
    <2>5. Get(t, c, o) = a
      BY <2>4
    <2>6. Puts(t, y, o, c, Alu(op, a, b), AluFlags(op, c, a, b), G)
      <3>1. Puts(t, make_ri(op, c, o, imm), o, c, Binary(op, Get(t, c, o), b), BinaryFlags(op, c, t.flags, Get(t, c, o), b), G)
        BY <1>1, <2>2, <2>4, PutsRi
      <3> QED
        BY <1>4, <2>5, <3>1
    <2>7. Alu(op, a, b) \in Int
      BY <1>1, <1>3, AluType
    <2>8. Puts(s, x \o y, o, c, Alu(op, a, b), AluFlags(op, c, a, b), G)
      <3> HIDE DEF x, y
      <3> QED
        BY <1>1, <1>3, <2>2, <2>3, <2>4, <2>6, <2>7, PutsAgain
    <2>9. Puts(s, (x \o y) \o post_write(dest, c), dest, c, Alu(op, a, b), AluFlags(op, c, a, b), G)
      <3> HIDE DEF x, y
      <3> QED
        BY <2>7, <2>8, PutsPost DEF o
    <2> QED
      BY <1>2, <2>1, <2>9
  <1> QED
    BY <1>5, <1>6

Ternary(op, c, a, b) ==
    CASE op = "lea"  -> a + b
      [] op = "shlx" -> Shift("shl", c, a, b % Bits[c])
      [] op = "shrx" -> Shift("shr", c, a, b % Bits[c])
      [] op = "sarx" -> Shift("sar", c, a, b % Bits[c])
      [] op = "andn" -> Combine("and", Complement(c, a), b)
      [] op = "bzhi" -> a % Pow2(b)

LEMMA ComplementType == \A c \in Bytewide : \A v \in Int : Complement(c, v) \in Words(c) /\ Complement(c, v) \in Nat
  <1> TAKE c \in Bytewide
  <1> TAKE v \in Int
  <1>1. Low(c, v) \in Words(c) /\ Mod[c] \in Nat
    BY LowType, WidthFacts
  <1> QED
    BY <1>1 DEF Words, Complement

LEMMA TernaryType ==
    ASSUME NEW op \in IsThree, NEW c \in Bytewide, NEW a \in Int, NEW b \in Nat
    PROVE  Ternary(op, c, a, b) \in Int
  <1>1. b % Bits[c] \in Nat /\ Bits[c] \in Nat \ {0}
    <2>1. Bits[c] \in Nat \ {0}
      BY WidthFacts
    <2>2. \A m \in Nat \ {0} : b % m \in Nat
      BY Division
    <2> QED
      BY <2>1, <2>2
  <1>2. \A o \in {"shl", "shr", "sar"} : Shift(o, c, a, b % Bits[c]) \in Int
    BY <1>1, ShiftType
  <1>3. Combine("and", Complement(c, a), b) \in Int
    BY ComplementType, CombineType
  <1>4. a % Pow2(b) \in Int
    <2>1. PICK p \in Nat \ {0} : p = Pow2(b)
      BY PowerType
    <2> QED
      BY <2>1
  <1> QED
    BY <1>2, <1>3, <1>4 DEF Ternary, IsThree

LEMMA PutsThree ==
    ASSUME NEW G, NEW s, Awake(s, G), NEW op \in IsThree, NEW c \in Widths, NEW o, IsPlace(o, G),
           NEW from, IsSource(from, G), NEW by, IsSource(by, G)
    PROVE  \E f : /\ Puts(s, <<I3(op, c, o, from, by)>>, o, c, Ternary(op, c, Get(s, c, from), Get(s, c, by)), f, G)
                  /\ op \notin {"andn", "bzhi"} => f = s.flags
  <1>1. c \in Bytewide /\ s \in State(G) /\ s.flags \in FlagWords
    BY WidthFacts DEF Awake, State
  <1>2. PICK a \in Nat, b \in Nat : a = Get(s, c, from) /\ b = Get(s, c, by)
    BY <1>1, GetType
  <1>3. PICK v \in Int : v = Ternary(op, c, a, b)
    BY <1>1, <1>2, TernaryType
  <1>4. CASE op \notin {"andn", "bzhi"}
    <2>1. Effect(s, I3(op, c, o, from, by)) = Put(s, c, o, v)
      BY <1>2, <1>3, <1>4, EffectOfThree DEF Ternary, IsThree
    <2>2. Puts(s, <<I3(op, c, o, from, by)>>, o, c, v, s.flags, G)
      BY <1>1, <2>1, PutsOne
    <2> QED
      BY <1>2, <1>3, <2>2
  <1>5. CASE op \in {"andn", "bzhi"}
    <2>1. \E f \in FlagWords : Effect(s, I3(op, c, o, from, by)) = [Put(s, c, o, v) EXCEPT !.flags = f]
      <3>1. CASE op = "andn"
        <4>1. Effect(s, I3(op, c, o, from, by)) = [Put(s, c, o, v) EXCEPT !.flags = Flags(c, v, 0, 0)]
          BY <1>2, <1>3, <3>1, EffectOfThree DEF Ternary
        <4>2. Flags(c, v, 0, 0) \in FlagWords
          BY <1>1, FlagsType
        <4> QED
          BY <4>1, <4>2
      <3>2. CASE op = "bzhi"
        <4>1. Effect(s, I3(op, c, o, from, by)) = [Put(s, c, o, v) EXCEPT !.flags = Flags(c, v, Undef, 0)]
          BY <1>2, <1>3, <3>2, EffectOfThree DEF Ternary
        <4>2. Flags(c, v, Undef, 0) \in FlagWords
          BY <1>1, FlagsType, NoFlagsType
        <4> QED
          BY <4>1, <4>2
      <3> QED
        BY <1>5, <3>1, <3>2
    <2>2. PICK f \in FlagWords : Effect(s, I3(op, c, o, from, by)) = [Put(s, c, o, v) EXCEPT !.flags = f]
      BY <2>1
    <2>3. Puts(s, <<I3(op, c, o, from, by)>>, o, c, v, f, G)
      BY <1>1, <2>2, PutsOne
    <2> QED
      BY <1>2, <1>3, <1>5, <2>3
  <1> QED
    BY <1>4, <1>5

LEMMA PutsShift ==
    ASSUME NEW G, NEW s, Awake(s, G), NEW op \in {"shl", "shr", "sar"}, NEW c \in Widths, NEW o, IsPlace(o, G), NEW n \in Nat
    PROVE  \E f : /\ Puts(s, <<I(op, c, o, N(n))>>, o, c, Shift(op, c, Get(s, c, o), n), f, G)
                  /\ n = 0 => f = s.flags
  <1>1. c \in Bytewide /\ s \in State(G) /\ s.flags \in FlagWords /\ IsSource(o, G)
    BY WidthFacts, TargetIsSource DEF Awake, State
  <1>2. PICK v \in Int : v = Shift(op, c, Get(s, c, o), n)
    BY <1>1, GetType, ShiftType
  <1>3. PICK f : f = (IF n = 0 THEN s.flags ELSE Flags(c, v, Undef, Undef))
    OBVIOUS
  <1>4. f \in FlagWords
    BY <1>1, <1>3, FlagsType, NoFlagsType
  <1>5. Effect(s, I(op, c, o, N(n))) = [Put(s, c, o, v) EXCEPT !.flags = f]
    <2>1. Put(s, c, o, v).flags = s.flags
      BY <1>1, PutWrote
    <2>2. Effect(s, I(op, c, o, N(n))) = [Put(s, c, o, v) EXCEPT !.flags = IF n = 0 THEN @ ELSE Flags(c, v, Undef, Undef)]
      BY <1>2, EffectOfShift, OperandKinds
    <2> QED
      BY <1>3, <2>1, <2>2
  <1>6. Puts(s, <<I(op, c, o, N(n))>>, o, c, v, f, G)
    BY <1>1, <1>4, <1>5, PutsOne
  <1> QED
    BY <1>2, <1>3, <1>6

(* Extended or shifted operands. *)
Widened(s, src, d, sh) ==
    LET from == IF sh.by \in DOMAIN Narrow THEN Narrow[sh.by] ELSE d
    IN  IF sh.by \in SignKind THEN Signed(from, Get(s, from, src)) ELSE Get(s, from, src)
ShiftOf(by) == CASE by = "LSR" -> "shr" [] by = "ASR" -> "sar" [] OTHER -> "shl"
Moved2(s, c, src, d, sh) ==
    IF sh.n = 0 THEN Widened(s, src, d, sh) ELSE Shift(ShiftOf(sh.by), c, Low(c, Widened(s, src, d, sh)), sh.n)

LEMMA NarrowWidths == \A by \in DOMAIN Narrow : Narrow[by] \in Bytewide
  BY DEF Narrow, Bytewide

LEMMA WidenedType ==
    ASSUME NEW G, NEW s \in State(G), NEW src, IsSource(src, G), NEW d \in Bytewide, NEW sh
    PROVE  Widened(s, src, d, sh) \in Int
  <1>1. PICK from \in Bytewide : from = IF sh.by \in DOMAIN Narrow THEN Narrow[sh.by] ELSE d
    BY NarrowWidths
  <1>2. Get(s, from, src) \in Int
    BY GetType
  <1>3. Signed(from, Get(s, from, src)) \in Int
    BY <1>2, SignedFacts
  <1> QED
    BY <1>1, <1>2, <1>3 DEF Widened

LEMMA PutsShifted ==
    ASSUME NEW G, NEW s, Awake(s, G), NEW c \in Widths, NEW dest, IsPlace(dest, G), NEW src, IsPlace(src, G), NEW d \in Bytewide,
           NEW sh, sh.by \notin {"ROR", "MSL"}, sh.n \in Nat
    PROVE  \E f : /\ Puts(s, load_shifted(dest, c, src, d, sh), dest, c, Moved2(s, c, src, d, sh), f, G)
                  /\ sh.n = 0 => f = s.flags
  <1>1. c \in Bytewide /\ s \in State(G) /\ s.flags \in FlagWords /\ IsSource(src, G)
    BY WidthFacts, TargetIsSource DEF Awake, State
  <1>2. PICK from : from = IF sh.by \in DOMAIN Narrow THEN Narrow[sh.by] ELSE d
    OBVIOUS
  <1>3. PICK op, sop : op = (IF sh.by \in SignKind THEN "movsx" ELSE "movzx") /\ sop = ShiftOf(sh.by)
    OBVIOUS
  <1>4. PICK x : x = Iw(op, c, dest, src, from)
    OBVIOUS
  <1>5. load_shifted(dest, c, src, d, sh) = IF sh.n = 0 THEN <<x>> ELSE <<x, I(sop, c, dest, N(sh.n))>>
    BY <1>2, <1>3, <1>4, Zenon DEF load_shifted, ShiftOf
  <1>6. PICK v \in Int : v = Widened(s, src, d, sh)
    BY <1>1, WidenedType
  <1>7. Effect(s, x) = Put(s, c, dest, v)
    <2>1. CASE sh.by \in SignKind
      BY <1>2, <1>3, <1>4, <1>6, <2>1, EffectOfWide DEF Widened
    <2>2. CASE sh.by \notin SignKind
      BY <1>2, <1>3, <1>4, <1>6, <2>2, EffectOfWide DEF Widened
    <2> QED
      BY <2>1, <2>2
  <1>8. Puts(s, <<x>>, dest, c, v, s.flags, G)
    BY <1>1, <1>7, PutsOne
  <1>9. CASE sh.n = 0
    BY <1>5, <1>6, <1>8, <1>9 DEF Moved2
  <1>10. CASE sh.n # 0
    <2>1. PICK t : t = Run(s, <<x>>) /\ Awake(t, G)
      BY <1>8, AwakeRun
    <2>2. Get(t, c, dest) = Low(c, v)
      BY <1>1, <1>8, <2>1, PutsGet
    <2>3. sop \in {"shl", "shr", "sar"}
      BY <1>3 DEF ShiftOf
    <2>4. PICK f : Puts(t, <<I(sop, c, dest, N(sh.n))>>, dest, c, Shift(sop, c, Low(c, v), sh.n), f, G)
      BY <2>1, <2>2, <2>3, PutsShift
    <2>5. Shift(sop, c, Low(c, v), sh.n) \in Int
      BY <1>1, <2>3, LowType, ShiftType
    <2>6. Puts(s, <<x>> \o <<I(sop, c, dest, N(sh.n))>>, dest, c, Shift(sop, c, Low(c, v), sh.n), f, G)
      BY <1>1, <1>8, <2>1, <2>4, <2>5, PutsAgain
    <2>7. load_shifted(dest, c, src, d, sh) = <<x>> \o <<I(sop, c, dest, N(sh.n))>>
      BY <1>5, <1>10, TwoParts
    <2> QED
      BY <1>3, <1>6, <1>10, <2>6, <2>7 DEF Moved2
  <1> QED
    BY <1>9, <1>10

(* What code that only changes rax is said to put into xzr does not matter. *)
LEMMA ZeroAny == \A G, s, a, c, v, f : Puts(s, a, Zero, c, v, f, G) => \A d, w : Puts(s, a, Zero, d, w, f, G)
  BY DEF Puts, Wrote

LEMMA PutsNarrow ==
    \A G, s, a, o, c, v, f, d : Puts(s, a, o, c, v, f, G) /\ s \in State(G) /\ IsPlace(o, G) /\ c \in Bytewide /\ d \in Bytewide /\ v \in Int
                               /\ Order[d] <= Order[c] => Get(Run(s, a), d, o) = Low(d, v)
  <1> SUFFICES ASSUME NEW G, NEW s, NEW a, NEW o, NEW c, NEW v, NEW f, NEW d, Puts(s, a, o, c, v, f, G), s \in State(G), IsPlace(o, G),
                      c \in Bytewide, d \in Bytewide, v \in Int, Order[d] <= Order[c]
               PROVE  Get(Run(s, a), d, o) = Low(d, v)
    OBVIOUS
  <1> QED
    BY PutsGet

(* A calculation of two operands that were fetched before. *)
LEMMA PutsCalc ==
    ASSUME NEW G, NEW s, Awake(s, G), NEW p, NEW k, NEW z, NEW f, Puts(s, p, Zero, k, z, f, G), NEW t, t = Run(s, p),
           NEW op \in IsThree, NEW c \in Widths, NEW d, IsHome(d, G), NEW from, IsSource(from, G), NEW by, IsSource(by, G)
    PROVE  \E g : /\ Puts(s, (p \o <<I3(op, c, reg_operand(d), from, by)>>) \o post_write(d, c), d, c,
                          Ternary(op, c, Get(t, c, from), Get(t, c, by)), g, G)
                  /\ op \notin {"andn", "bzhi"} => g = f
  <1> DEFINE o == reg_operand(d)
             x == <<I3(op, c, o, from, by)>>
             w == Ternary(op, c, Get(t, c, from), Get(t, c, by))
  <1>1. c \in Bytewide /\ IsPlace(o, G) /\ IsHome(o, G)
    BY WidthFacts, HomeOperand
  <1>2. Awake(t, G) /\ t.flags = f
    BY AwakeRun DEF Puts
  <1>3. PICK g : Puts(t, x, o, c, w, g, G) /\ (op \notin {"andn", "bzhi"} => g = f)
    BY <1>1, <1>2, PutsThree
  <1>4. w \in Int
    <2>1. Get(t, c, from) \in Nat /\ Get(t, c, by) \in Nat
      BY <1>1, <1>2, GetType DEF Awake
    <2> QED
      BY <1>1, <2>1, TernaryType
  <1> HIDE DEF x, w
  <1>5. Puts(s, p \o x, o, c, w, g, G)
    BY <1>1, <1>3, PutsThrough
  <1>6. Puts(s, (p \o x) \o post_write(d, c), d, c, w, g, G)
    <2> HIDE DEF x, w
    <2> QED
      BY <1>4, <1>5, PutsPost DEF o
  <1> QED
    BY <1>3, <1>6 DEF w, x

(* Two operands, of which at most one is not in a register. *)
FetchesTwo(s, a, t1, t2, c, G) ==
    \E f : /\ Puts(s, a, Zero, c, 0, f, G) /\ (t1 # Zero /\ t2 # Zero => f = s.flags)
           /\ Get(Run(s, a), c, reg_operand(t1)) = Val(s, c, t1)
           /\ Get(Run(s, a), c, reg_operand(t2)) = Val(s, c, t2)

LEMMA PreReadTwo ==
    ASSUME NEW G, NEW s, Awake(s, G), NEW t1, IsHome(t1, G), t1 # RAX, NEW t2, IsHome(t2, G), t2 # RAX, NEW c \in Widths,
           t1.k = "reg" \/ t2.k = "reg"
    PROVE  FetchesTwo(s, pre_read(t1, c) \o pre_read(t2, c), t1, t2, c, G)
  <1>1. s \in State(G) /\ c \in Bytewide /\ IsCode(<<>>) /\ Run(s, <<>>) = s
    BY WidthFacts, RunShort DEF Awake
  <1>2. Fetches(s, pre_read(t1, c), t1, c, G) /\ Fetches(s, pre_read(t2, c), t2, c, G)
    BY PreReadFetches
  <1>3. \A t : IsHome(t, G) /\ t.k = "reg" => /\ pre_read(t, c) = <<>> /\ reg_operand(t) = t /\ t # Zero /\ IsPlace(t, G)
                                             /\ Val(s, c, t) = Get(s, c, t)
    BY PreReadFetches, PlaceKinds DEF reg_operand, Val, Zero, IsHome, pre_read
  <1>4. CASE t1.k = "reg"
    <2> DEFINE a == pre_read(t2, c)
    <2>1. pre_read(t1, c) \o a = a
      <3>1. IsCode(a)
        BY <1>2 DEF Fetches, Puts
      <3> QED
        BY <1>3, <1>4, <3>1 DEF IsCode
    <2>2. PICK f : Puts(s, a, Zero, c, 0, f, G) /\ (t2 # Zero => f = s.flags) /\ Get(Run(s, a), c, reg_operand(t2)) = Val(s, c, t2)
      BY <1>2 DEF Fetches
    <2>3. Get(Run(s, a), c, t1) = Get(s, c, t1)
      BY <1>1, <1>3, <1>4, <2>2, KeptSource
    <2> QED
      BY <1>3, <1>4, <2>1, <2>2, <2>3 DEF FetchesTwo
  <1>5. CASE t2.k = "reg"
    <2> DEFINE a == pre_read(t1, c)
    <2>1. a \o pre_read(t2, c) = a
      <3>1. IsCode(a)
        BY <1>2 DEF Fetches, Puts
      <3> QED
        BY <1>3, <1>5, <3>1 DEF IsCode
    <2>2. PICK f : Puts(s, a, Zero, c, 0, f, G) /\ (t1 # Zero => f = s.flags) /\ Get(Run(s, a), c, reg_operand(t1)) = Val(s, c, t1)
      BY <1>2 DEF Fetches
    <2>3. Get(Run(s, a), c, t2) = Get(s, c, t2)
      BY <1>1, <1>3, <1>5, <2>2, KeptSource
    <2> QED
      BY <1>3, <1>5, <2>1, <2>2, <2>3 DEF FetchesTwo
  <1> QED
    BY <1>4, <1>5

(* A constant through rax. *)
LEMMA PutsWithRax ==
    ASSUME NEW G, NEW s, Awake(s, G), NEW op \in AluOps, NEW c \in Widths, NEW d, IsPlace(d, G), d # RAX, NEW imm \in Int
    PROVE  Puts(s, <<I("mov", "x", RAX, N(imm))>> \o make_rr(op, c, d, RAX), d, c, Alu(op, Get(s, c, d), Low(c, imm)),
                AluFlags(op, c, Get(s, c, d), Low(c, imm)), G)
  <1> DEFINE x == <<I("mov", "x", RAX, N(imm))>>
             t == Run(s, x)
  <1>1. c \in Bytewide /\ "x" \in Bytewide /\ s \in State(G) /\ op \in Writing /\ op # "mov" /\ "mov" \in Writing /\ Order[c] <= Order["x"]
    BY WidthFacts DEF Awake, Writing, AluOps, Bytewide, Order
  <1>2. IsPlace(RAX, G) /\ IsSource(N(imm), G)
    BY RaxHome DEF IsSource
  <1>3. Puts(s, x, RAX, "x", Low("x", imm), s.flags, G)
    BY <1>1, <1>2, GetNumber, PutsTwo DEF Binary, BinaryFlags
  <1> HIDE DEF x
  <1>4. Puts(s, x, Zero, "x", Low("x", imm), s.flags, G)
    BY <1>3, RaxIsHome
  <1>5. Awake(t, G)
    BY <1>3, AwakeRun
  <1>6. Get(t, c, d) = Get(s, c, d)
    BY <1>1, <1>4, PlaceKinds, KeptSource
  <1>7. Get(t, c, RAX) = Low(c, imm)
    <2>1. Low("x", imm) \in Int /\ Low(c, Low("x", imm)) = Low(c, imm)
      BY <1>1, LowType, LowNarrow
    <2>2. PICK v \in Int : v = Low("x", imm)
      BY <2>1
    <2>3. Puts(s, x, RAX, "x", v, s.flags, G)
      BY <1>3, <2>2
    <2>4. Get(t, c, RAX) = Low(c, v)
      BY <1>1, <1>2, <2>3, PutsNarrow
    <2> QED
      BY <2>1, <2>2, <2>4
  <1>8. Puts(t, make_rr(op, c, d, RAX), d, c, Binary(op, Get(t, c, d), Get(t, c, RAX)),
             BinaryFlags(op, c, t.flags, Get(t, c, d), Get(t, c, RAX)), G)
    BY <1>1, <1>2, <1>5, PutsMakeRr
  <1>9. Puts(t, make_rr(op, c, d, RAX), d, c, Alu(op, Get(s, c, d), Low(c, imm)), AluFlags(op, c, Get(s, c, d), Low(c, imm)), G)
    BY <1>1, <1>6, <1>7, <1>8 DEF Binary, BinaryFlags
  <1>10. IsHome(d, G)
    BY DEF IsHome
  <1> QED
    BY <1>1, <1>4, <1>9, <1>10, PutsThrough DEF x

(* Instructions that only set flags. *)
LEMMA PutsFlags ==
    ASSUME NEW G, NEW s, Awake(s, G), NEW x, NEW f \in FlagWords, Effect(s, x) = [s EXCEPT !.flags = f]
    PROVE  Puts(s, <<x>>, Zero, "x", 0, f, G)
  <1>1. Run(s, <<x>>) = Effect(s, x) /\ IsCode(<<x>>)
    BY RunOne, RunShort DEF Awake
  <1>2. s \in State(G)
    BY DEF Awake
  <1>3. PICK t : t = [s EXCEPT !.flags = f]
    OBVIOUS
  <1>4. t \in State(G) /\ t.flags = f /\ t.reg = s.reg /\ t.cell = s.cell /\ t.mem = s.mem /\ Control(s, t)
    BY <1>2, <1>3 DEF State, Control
  <1>5. Kept(s, t, Zero, G)
    BY <1>4 DEF Kept, Full
  <1> QED
    BY <1>1, <1>3, <1>4, <1>5 DEF Puts, Wrote

LEMMA PutsCmp ==
    ASSUME NEW G, NEW s, Awake(s, G), NEW c \in Widths, NEW a, IsSource(a, G), NEW b, IsSource(b, G)
    PROVE  Puts(s, <<I("cmp", c, a, b)>>, Zero, "x", 0, SubFlags(c, Get(s, c, a), Get(s, c, b)), G)
  <1>1. c \in Bytewide /\ s \in State(G)
    BY WidthFacts DEF Awake
  <1>2. Get(s, c, a) \in Int /\ Get(s, c, b) \in Int
    BY <1>1, GetType
  <1>3. SubFlags(c, Get(s, c, a), Get(s, c, b)) \in FlagWords
    BY <1>1, <1>2, SumFlagsType
  <1> QED
    BY <1>3, EffectOfCmp, PutsFlags

LEMMA PutsCmpRr ==
    ASSUME NEW G, NEW s, Awake(s, G), NEW c \in Widths, NEW a, IsPlace(a, G), NEW b, IsPlace(b, G), b # RAX
    PROVE  Puts(s, make_cmp_rr(c, a, b), Zero, "x", 0, SubFlags(c, Get(s, c, a), Get(s, c, b)), G)
  <1>1. c \in Bytewide /\ s \in State(G) /\ IsSource(a, G) /\ IsSource(b, G)
    BY WidthFacts, TargetIsSource DEF Awake
  <1>2. CASE ~(a.k = "cell" /\ b.k = "cell")
    <2>1. make_cmp_rr(c, a, b) = <<I("cmp", c, a, b)>>
      BY <1>2 DEF make_cmp_rr, make_rr_impl
    <2> QED
      BY <1>1, <2>1, PutsCmp
  <1>3. CASE a.k = "cell" /\ b.k = "cell"
    <2> DEFINE x == <<I("mov", c, RAX, a)>>
               y == <<I("cmp", c, RAX, b)>>
               z == Get(s, c, a)
               t == Run(s, x)
    <2>1. make_cmp_rr(c, a, b) = x \o y
      <3>1. make_cmp_rr(c, a, b) = (x \o y) \o <<>>
        BY <1>3 DEF make_cmp_rr, make_rr_impl, pre_read
      <3>2. x \o y = <<I("mov", c, RAX, a), I("cmp", c, RAX, b)>>
        BY TwoParts
      <3> QED
        BY <3>1, <3>2
    <2>2. Puts(s, x, RAX, c, z, s.flags, G) /\ MovedTo(s, t, RAX, c, z, G)
      BY RaxHome, PutsMove
    <2> HIDE DEF x
    <2>3. Puts(s, x, Zero, c, z, s.flags, G)
      BY <2>2, RaxIsHome
    <2>4. Get(t, c, b) = Get(s, c, b)
      BY <1>1, <2>3, PlaceKinds, KeptSource
    <2>5. Awake(t, G) /\ Get(t, c, RAX) = z
      BY <2>2 DEF MovedTo
    <2>6. IsSource(RAX, G)
      BY RaxHome, TargetIsSource
    <2>7. Puts(t, y, Zero, "x", 0, SubFlags(c, z, Get(s, c, b)), G)
      BY <1>1, <2>4, <2>5, <2>6, PutsCmp
    <2>8. IsHome(Zero, G) /\ "x" \in Bytewide /\ Zero # RAX
      BY RaxHome DEF IsHome, Bytewide
    <2> HIDE DEF y
    <2> QED
      BY <2>1, <2>3, <2>7, <2>8, PutsThrough
  <1> QED
    BY <1>2, <1>3

LEMMA PutsCmpRi ==
    ASSUME NEW G, NEW s, Awake(s, G), NEW c \in Widths, NEW a, IsPlace(a, G), NEW imm \in Int
    PROVE  Puts(s, make_ri("cmp", c, a, imm), Zero, "x", 0, SubFlags(c, Get(s, c, a), Low(c, Signed("w", imm))), G)
  <1>1. IsSource(a, G) /\ Signed("w", imm) \in Int
    BY TargetIsSource, SignedInt
  <1>2. IsSource(N(Signed("w", imm)), G)
    BY <1>1 DEF IsSource
  <1>3. make_ri("cmp", c, a, imm) = <<I("cmp", c, a, N(Signed("w", imm)))>>
    BY DEF make_ri
  <1> QED
    BY <1>1, <1>2, <1>3, PutsCmp, GetNumber

(* The choices of cmov and setcc. *)
LEMMA PutsChosen ==
    ASSUME NEW G, NEW s, Awake(s, G), NEW c \in Widths, NEW from, IsSource(from, G), NEW cc
    PROVE  Puts(s, <<Iw("cmov", c, RAX, from, cc)>>, RAX, c, IF Holds(cc, s.flags) THEN Get(s, c, from) ELSE Get(s, c, RAX), s.flags, G)
  <1>1. c \in Bytewide /\ s \in State(G) /\ IsPlace(RAX, G) /\ IsSource(RAX, G)
    BY WidthFacts, RaxHome, TargetIsSource DEF Awake
  <1>2. PICK v \in Int : v = IF Holds(cc, s.flags) THEN Get(s, c, from) ELSE Get(s, c, RAX)
    BY <1>1, GetType
  <1>3. Effect(s, Iw("cmov", c, RAX, from, cc)) = Put(s, c, RAX, v)
    BY <1>2, EffectOfWide
  <1> QED
    BY <1>1, <1>2, <1>3, PutsOne

LEMMA PutsBit ==
    ASSUME NEW G, NEW s, Awake(s, G), NEW cc
    PROVE  Puts(s, <<Iw("setcc", "b", RAX, RAX, cc)>>, RAX, "b", Bit(Holds(cc, s.flags)), s.flags, G)
  <1>1. "b" \in Bytewide /\ s \in State(G) /\ IsPlace(RAX, G)
    BY RaxHome DEF Awake, Bytewide
  <1>2. PICK v \in Int : v = Bit(Holds(cc, s.flags))
    BY DEF Bit
  <1>3. Effect(s, Iw("setcc", "b", RAX, RAX, cc)) = Put(s, "b", RAX, v)
    BY <1>2, EffectOfWide
  <1> QED
    BY <1>1, <1>2, <1>3, PutsOne

LEMMA PutsExtended ==
    ASSUME NEW G, NEW s, Awake(s, G), NEW c \in Widths, NEW o, IsPlace(o, G), NEW from, IsSource(from, G), NEW d \in Bytewide
    PROVE  Puts(s, <<Iw("movzx", c, o, from, d)>>, o, c, Get(s, d, from), s.flags, G)
  <1>1. c \in Bytewide /\ s \in State(G)
    BY WidthFacts DEF Awake
  <1>2. PICK v \in Int : v = Get(s, d, from)
    BY <1>1, GetType
  <1>3. Effect(s, Iw("movzx", c, o, from, d)) = Put(s, c, o, v)
    BY <1>2, EffectOfWide
  <1> QED
    BY <1>1, <1>2, <1>3, PutsOne

------------------------------------------------------------------------------
(* Code that cannot trap                                                    *)
------------------------------------------------------------------------------
(* Code that cannot trap.  Only a division raises the fault; Tame(x) says  *)
(* that x is no division, and writes to a place if it writes at all.       *)

Fields     == {"reg", "cell", "mem", "flags", "stack", "skip", "fault", "taken"}
Solid(s, t) == DOMAIN t = Fields /\ t.fault = s.fault

Silent  == {"cmp", "bt", "skip", "leave", "popf", "push", "cdq", "mul"}
Writers == {"mov", "movzx", "movsx", "lea", "shlx", "shrx", "sarx", "cmov", "setcc", "pop"}
             \cup {"shl", "shr", "sar", "andn", "bzhi"} \cup AluOps
Written(o) == o = Zero \/ o.k \in {"reg", "cell", "mem"}
Tame(x)    == \/ x.op \in Silent \cup {"panic", "refuse"}
              \/ x.op \in Writers /\ "to" \in DOMAIN x /\ Written(x.to)
Calm(a)    == IsCode(a) /\ \A k \in 1 .. Len(a) : Tame(a[k])

LEMMA FieldSolid ==
    ASSUME NEW s, DOMAIN s = Fields
    PROVE  /\ \A v : Solid(s, [s EXCEPT !.reg = v]) /\ Solid(s, [s EXCEPT !.cell = v]) /\ Solid(s, [s EXCEPT !.mem = v])
           /\ \A v : Solid(s, [s EXCEPT !.flags = v]) /\ Solid(s, [s EXCEPT !.stack = v])
           /\ \A v : Solid(s, [s EXCEPT !.skip = v]) /\ Solid(s, [s EXCEPT !.taken = v])
  BY DEF Solid, Fields

LEMMA SolidTrans ==
    ASSUME NEW s, NEW t, NEW u, Solid(s, t), Solid(t, u)
    PROVE  Solid(s, u)
  BY DEF Solid

LEMMA PutSolid ==
    ASSUME NEW s, DOMAIN s = Fields, NEW o, o.k \in {"reg", "cell", "mem"}
    PROVE  \A c, v : Solid(s, Put(s, c, o, v))
  <1>1. CASE o.k = "reg"
    BY <1>1 DEF Put, Solid, Fields
  <1>2. CASE o.k = "cell"
    BY <1>2 DEF Put, Solid, Fields
  <1>3. CASE o.k = "mem"
    BY <1>3 DEF Put, Solid, Fields
  <1> QED
    BY <1>1, <1>2, <1>3

LEMMA EffectSolid ==
    ASSUME NEW s, DOMAIN s = Fields, NEW x, Tame(x), ~Unencodable(x), x.op # "refuse"
    PROVE  Solid(s, Effect(s, x))
  <1>1. \/ x.op \in Silent
        \/ x.op \in Writers /\ x.to.k \in {"reg", "cell", "mem"}
    BY DEF Tame, Written, Unencodable, Zero
  <1>2. RDX.k = "reg" /\ RAX.k = "reg"
    BY OperandKinds DEF RDX, RAX
  <1>3. CASE x.op \in {"mov", "movzx", "movsx", "lea", "shlx", "shrx", "sarx", "cmov", "setcc"}
    <2>1. x.to.k \in {"reg", "cell", "mem"}
      BY <1>1, <1>3 DEF Silent
    <2>2. \E c, v : Effect(s, x) = Put(s, c, x.to, v)
      BY <1>3 DEF Effect, AluOps
    <2> QED
      BY <2>1, <2>2, PutSolid
  <1>4. CASE x.op \in {"shl", "shr", "sar", "andn", "bzhi"} \cup AluOps
    <2>1. PICK o : o = x.to
      OBVIOUS
    <2>2. o.k \in {"reg", "cell", "mem"}
      BY <1>1, <1>4, <2>1 DEF Silent, AluOps
    <2>3. \E c, v, f : Effect(s, x) = [Put(s, c, o, v) EXCEPT !.flags = f]
      <3>1. CASE x.op \in AluOps
        BY <2>1, <3>1 DEF Effect, AluOps
      <3>2. CASE x.op \in {"andn", "bzhi"}
        BY <2>1, <3>2 DEF Effect, AluOps
      <3>3. CASE x.op \in {"shl", "shr", "sar"}
        BY <2>1, <3>3 DEF Effect, AluOps
      <3> QED
        BY <1>4, <3>1, <3>2, <3>3
    <2>4. PICK c, v, f : Effect(s, x) = [Put(s, c, o, v) EXCEPT !.flags = f]
      BY <2>3
    <2>5. PICK t : t = Put(s, c, o, v)
      OBVIOUS
    <2>6. Solid(s, t)
      BY <2>2, <2>5, PutSolid
    <2>7. Solid(t, [t EXCEPT !.flags = f])
      BY <2>6, FieldSolid DEF Solid
    <2> QED
      BY <2>4, <2>5, <2>6, <2>7, SolidTrans
  <1>5. CASE x.op \in {"cmp", "bt", "skip", "leave", "popf"}
    <2>1. \/ \E v : Effect(s, x) = [s EXCEPT !.flags = v]
          \/ \E v : Effect(s, x) = [s EXCEPT !.skip = v]
          \/ \E v : Effect(s, x) = [s EXCEPT !.taken = v]
      BY <1>5 DEF Effect, AluOps
    <2>2. /\ \A v : Solid(s, [s EXCEPT !.flags = v])
          /\ \A v : Solid(s, [s EXCEPT !.skip = v]) /\ Solid(s, [s EXCEPT !.taken = v])
      BY FieldSolid
    <2> QED
      BY <2>1, <2>2, Zenon
  <1>6. CASE x.op = "cdq"
    <2>1. \E c, v : Effect(s, x) = Put(s, c, RDX, v)
      BY <1>6 DEF Effect, AluOps
    <2> QED
      BY <1>2, <2>1, PutSolid
  <1>7. CASE x.op = "mul"
    <2>1. \E c, v, w, f : Effect(s, x) = [Put(Put(s, c, RAX, v), c, RDX, w) EXCEPT !.flags = f]
      BY <1>7 DEF Effect, AluOps, Multiply
    <2>2. PICK c, v, w, f : Effect(s, x) = [Put(Put(s, c, RAX, v), c, RDX, w) EXCEPT !.flags = f]
      BY <2>1
    <2>3. PICK t : t = Put(s, c, RAX, v)
      OBVIOUS
    <2>4. Solid(s, t)
      BY <1>2, <2>3, PutSolid
    <2>5. DOMAIN t = Fields
      BY <2>4 DEF Solid
    <2>6. PICK u : u = Put(t, c, RDX, w)
      OBVIOUS
    <2>7. Solid(t, u)
      BY <1>2, <2>5, <2>6, PutSolid
    <2>8. Solid(s, u) /\ Solid(u, [u EXCEPT !.flags = f])
      BY <2>4, <2>7, FieldSolid DEF Solid
    <2> QED
      BY <2>2, <2>3, <2>6, <2>8, SolidTrans
  <1>8. CASE x.op = "push"
    <2>1. \E v, w : Effect(s, x) = [s EXCEPT !.stack = v, !.reg["rsp"] = w]
      BY <1>8 DEF Effect, AluOps
    <2> QED
      BY <2>1 DEF Solid, Fields
  <1>9. CASE x.op = "pop"
    <2>1. x.to.k \in {"reg", "cell", "mem"}
      BY <1>1, <1>9 DEF Silent
    <2>2. PICK t : t = Put(s, "x", x.to, s.stack[Len(s.stack)])
      OBVIOUS
    <2>3. Solid(s, t)
      BY <2>1, <2>2, PutSolid
    <2>4. Effect(s, x) = [t EXCEPT !.stack = SubSeq(@, 1, Len(s.stack) - 1), !.reg["rsp"] = Low("x", @ + Bytes["x"])]
      BY <1>9, <2>2 DEF Effect, AluOps
    <2> QED
      BY <2>3, <2>4 DEF Solid, Fields
  <1> QED
    BY <1>1, <1>3, <1>4, <1>5, <1>6, <1>7, <1>8, <1>9 DEF Silent, Writers

LEMMA RunSolid ==
    ASSUME NEW s, DOMAIN s = Fields, NEW a, Calm(a), NoRefusal(a), Encodable(a)
    PROVE  Run(s, a).fault = s.fault
  <1>1. PICK g : IsRun(g, s, a) /\ Run(s, a) = g[Len(a)]
    BY RunFunction DEF Calm
  <1>2. PICK n \in Nat : n = Len(a)
    BY CodeLength DEF Calm
  <1> DEFINE P == {k \in Nat : k <= n => Solid(s, g[k])}
  <1>3. 0 \in P
    BY <1>1 DEF IsRun, Solid
  <1>4. ASSUME NEW k \in P PROVE k + 1 \in P
    <2>1. k \in Nat /\ k + 1 \in Nat /\ (k + 1) - 1 = k /\ (k + 1 <= n => k <= n /\ k + 1 \in 1 .. n)
      BY SMT
    <2>2. SUFFICES ASSUME k + 1 <= n PROVE Solid(s, g[k + 1])
      BY <2>1
    <2>3. PICK t, x : t = g[k] /\ x = a[k + 1]
      OBVIOUS
    <2>4. Solid(s, t) /\ g[k + 1] = Exec(t, x) /\ Tame(x) /\ ~Unencodable(x) /\ x.op # "refuse"
      BY <1>1, <1>2, <2>1, <2>2, <2>3 DEF IsRun, Calm, Encodable, NoRefusal
    <2>5. DOMAIN t = Fields
      BY <2>4 DEF Solid
    <2>6. Exec(t, x) = t \/ Exec(t, x) = [t EXCEPT !.skip = @ - 1] \/ Exec(t, x) = Effect(t, x)
      BY Zenon DEF Exec
    <2>7. Solid(t, t) /\ Solid(t, [t EXCEPT !.skip = @ - 1]) /\ Solid(t, Effect(t, x))
      BY <2>4, <2>5, EffectSolid, FieldSolid DEF Solid
    <2> QED
      BY <2>4, <2>6, <2>7, SolidTrans
  <1>5. P = Nat
    <2> HIDE DEF P
    <2>1. P \in SUBSET Nat
      BY DEF P
    <2> QED
      BY <1>3, <1>4, <2>1, Counting
  <1>6. n <= n
    BY SMT
  <1> QED
    BY <1>1, <1>2, <1>5, <1>6 DEF Solid

LEMMA EmptyCalm == Calm(<<>>)
  BY DEF Calm, IsCode

LEMMA OneCalm ==
    ASSUME NEW x, Tame(x)
    PROVE  Calm(<<x>>)
  <1>1. <<x>> \in Seq({x}) /\ Len(<<x>>) = 1 /\ <<x>>[1] = x
    OBVIOUS
  <1>2. IsCode(<<x>>)
    BY <1>1 DEF IsCode
  <1>3. \A k \in 1 .. Len(<<x>>) : <<x>>[k] = x
    BY <1>1
  <1> QED
    BY <1>2, <1>3 DEF Calm

LEMMA CalmConcat ==
    ASSUME NEW a, NEW b, Calm(a), Calm(b)
    PROVE  Calm(a \o b)
  <1>1. IsCode(a) /\ IsCode(b)
    BY DEF Calm
  <1>2. PICK A, B : a \in Seq(A) /\ b \in Seq(B)
    BY <1>1 DEF IsCode
  <1>3. a \in Seq(A \cup B) /\ b \in Seq(A \cup B)
    BY <1>2
  <1>4. Len(a \o b) = Len(a) + Len(b)
        /\ \A k \in 1 .. Len(a) + Len(b) : (a \o b)[k] = IF k <= Len(a) THEN a[k] ELSE b[k - Len(a)]
    BY <1>3, ConcatProperties
  <1>5. Len(a) \in Nat /\ Len(b) \in Nat
    BY <1>1, CodeLength
  <1>6. \A k \in 1 .. Len(a \o b) : (k \in 1 .. Len(a) /\ (a \o b)[k] = a[k])
                                   \/ (k - Len(a) \in 1 .. Len(b) /\ (a \o b)[k] = b[k - Len(a)])
    BY <1>4, <1>5, SMT
  <1>7. IsCode(a \o b)
    BY <1>1, RunConcat
  <1> QED
    BY <1>6, <1>7 DEF Calm

LEMMA TwoCalm ==
    ASSUME NEW x, NEW y, Tame(x), Tame(y)
    PROVE  Calm(<<x, y>>)
  <1>1. <<x, y>> \in Seq({x, y}) /\ Len(<<x, y>>) = 2
    OBVIOUS
  <1>2. IsCode(<<x, y>>)
    BY <1>1 DEF IsCode
  <1>3. \A k \in 1 .. Len(<<x, y>>) : <<x, y>>[k] \in {x, y}
    BY <1>1
  <1> QED
    BY <1>2, <1>3 DEF Calm

LEMMA TameOps ==
    /\ \A op \in Writers : \A c, to, from, arg :
          Written(to) => Tame(I(op, c, to, from)) /\ Tame(I3(op, c, to, from, arg)) /\ Tame(Iw(op, c, to, from, arg))
    /\ \A op \in Silent : \A c, to, from, arg : Tame(I(op, c, to, from)) /\ Tame(Iw(op, c, to, from, arg))
    /\ \A op \in Silent \cup {"panic", "refuse"} : Tame([op |-> op])
    /\ \A op \in Silent : \A c : Tame([op |-> op, c |-> c])
  BY DEF Tame, I, I3, Iw

LEMMA WrittenPlaces ==
    /\ Written(RAX) /\ Written(RDX) /\ Written(Zero)
    /\ \A r : Written(translate_reg(r)) /\ translate_reg(r).k \in {"reg", "cell", "zero"}
    /\ \A t : Written(reg_operand(t)) /\ (t.k = "cell" => Written(t))
    /\ \A n, d : Written(M(n, d))
  <1>1. \A n : R(n).k = "reg" /\ Cell(n).k = "cell" /\ Zero.k = "zero" /\ \A d : M(n, d).k = "mem"
    BY OperandKinds DEF Zero, M
  <1>2. Written(RAX) /\ Written(RDX) /\ Written(Zero)
    BY <1>1 DEF Written, RAX, RDX
  <1>3. \A r : translate_reg(r) = Zero \/ (\E n : translate_reg(r) = R(n) \/ translate_reg(r) = Cell(n))
    BY DEF translate_reg, Zero
  <1>4. \A r : Written(translate_reg(r)) /\ translate_reg(r).k \in {"reg", "cell", "zero"}
    BY <1>1, <1>3 DEF Written
  <1>5. \A t : Written(reg_operand(t)) /\ (t.k = "cell" => Written(t))
    BY <1>2 DEF Written, reg_operand
  <1> QED
    BY <1>1, <1>2, <1>4, <1>5 DEF Written

LEMMA StopCalm == Calm(panic) /\ Calm(refuse)
  BY TameOps, OneCalm DEF panic, refuse

LEMMA PreReadCalm ==
    ASSUME NEW t, t.k \in {"reg", "cell", "zero"}
    PROVE  \A c : Calm(pre_read(t, c))
  <1>1. ASSUME NEW c PROVE Tame(I("mov", c, RAX, t)) /\ Tame(I("xor", "w", RAX, RAX))
    BY TameOps, WrittenPlaces DEF Writers, AluOps
  <1>2. ASSUME NEW c PROVE pre_read(t, c) \in {<<>>, <<I("mov", c, RAX, t)>>, <<I("xor", "w", RAX, RAX)>>}
    BY DEF pre_read
  <1> QED
    BY <1>1, <1>2, EmptyCalm, OneCalm

LEMMA PostWriteCalm == \A t, c : Calm(post_write(t, c))
  <1> TAKE t, c
  <1>1. CASE t.k = "cell"
    <2>1. Tame(I("mov", c, t, RAX))
      BY <1>1, TameOps, WrittenPlaces DEF Writers
    <2> QED
      BY <1>1, <2>1, OneCalm DEF post_write
  <1>2. CASE t.k # "cell"
    BY <1>2, EmptyCalm DEF post_write
  <1> QED
    BY <1>1, <1>2

LEMMA RrCalm ==
    ASSUME NEW op \in Writers \cup Silent, NEW dest, Written(dest), NEW c, NEW src, NEW reads \in BOOLEAN, NEW writes \in BOOLEAN
    PROVE  Calm(make_rr_impl(op, c, dest, src, reads, writes))
  <1>1. Tame(I(op, c, RAX, src)) /\ Tame(I(op, c, dest, src))
    BY TameOps, WrittenPlaces
  <1>2. CASE dest.k = "cell" /\ src.k = "cell"
    <2> DEFINE a == IF reads THEN pre_read(dest, c) ELSE <<>>
               b == IF writes THEN post_write(dest, c) ELSE <<>>
    <2>1. Calm(a) /\ Calm(b)
      BY <1>2, PreReadCalm, PostWriteCalm, EmptyCalm
    <2>2. make_rr_impl(op, c, dest, src, reads, writes) = a \o <<I(op, c, RAX, src)>> \o b
      BY <1>2 DEF make_rr_impl
    <2> HIDE DEF a, b
    <2> QED
      BY <1>1, <2>1, <2>2, OneCalm, CalmConcat
  <1>3. CASE ~(dest.k = "cell" /\ src.k = "cell")
    BY <1>1, <1>3, OneCalm DEF make_rr_impl
  <1> QED
    BY <1>2, <1>3

LEMMA MovesCalm ==
    ASSUME NEW dest, Written(dest), NEW c
    PROVE  /\ \A op \in Writers : \A src : Calm(make_rr(op, c, dest, src))
           /\ \A src : Calm(make_mov_rr(c, dest, src)) /\ Calm(make_cmp_rr(c, dest, src))
           /\ \A op \in Writers \cup Silent : \A n : Calm(make_ri(op, c, dest, n))
           /\ \A n : Calm(make_mov_ri64(dest, n))
  <1>1. TRUE \in BOOLEAN /\ FALSE \in BOOLEAN /\ {"mov", "xor"} \subseteq Writers /\ "cmp" \in Silent
    BY DEF Writers, Silent, AluOps
  <1>2. \A op \in Writers : \A src : Calm(make_rr(op, c, dest, src))
    BY <1>1, RrCalm DEF make_rr
  <1>3. \A src : Calm(make_mov_rr(c, dest, src))
    BY <1>1, <1>2, RrCalm DEF make_mov_rr
  <1>4. \A src : Calm(make_cmp_rr(c, dest, src))
    BY <1>1, RrCalm DEF make_cmp_rr
  <1>5. \A op \in Writers \cup Silent : \A n : Calm(make_ri(op, c, dest, n))
    BY TameOps, OneCalm DEF make_ri
  <1>6. \A n : Calm(make_mov_ri64(dest, n))
    BY <1>1, TameOps, OneCalm, WrittenPlaces, PostWriteCalm, CalmConcat DEF make_mov_ri64
  <1> QED
    BY <1>2, <1>3, <1>4, <1>5, <1>6

LEMMA ThreesCalm ==
    ASSUME NEW dest, Written(dest), NEW c, NEW op \in Writers, NEW src, NEW other
    PROVE  Calm(make_rrr(op, c, dest, src, other)) /\ Calm(make_rri(op, c, dest, src, other))
  <1>1. Tame(I("mov", c, reg_operand(dest), src)) /\ Tame(I(op, c, reg_operand(dest), other))
    BY TameOps, WrittenPlaces DEF Writers
  <1>2. Calm(make_rr(op, c, dest, other)) /\ Calm(make_ri(op, c, dest, other)) /\ Calm(make_ri(op, c, reg_operand(dest), other))
    BY MovesCalm, WrittenPlaces
  <1>3. Calm(post_write(dest, c))
    BY PostWriteCalm
  <1>4. Calm(<<I("mov", c, reg_operand(dest), src), I(op, c, reg_operand(dest), other)>> \o post_write(dest, c))
    BY <1>1, <1>3, TwoCalm, CalmConcat
  <1>5. Calm(<<I("mov", c, reg_operand(dest), src)>> \o make_ri(op, c, reg_operand(dest), other) \o post_write(dest, c))
    BY <1>1, <1>2, <1>3, OneCalm, CalmConcat
  <1> QED
    BY <1>2, <1>4, <1>5 DEF make_rrr, make_rri

LEMMA ShiftedCalm ==
    ASSUME NEW dest, Written(dest), NEW c, NEW src, NEW d, NEW sh
    PROVE  Calm(load_shifted(dest, c, src, d, sh))
  <1> DEFINE from == IF sh.by \in DOMAIN Narrow THEN Narrow[sh.by] ELSE d
             mov  == Iw(IF sh.by \in SignKind THEN "movsx" ELSE "movzx", c, dest, src, from)
             shl  == CASE sh.by = "LSR" -> "shr" [] sh.by = "ASR" -> "sar" [] OTHER -> "shl"
  <1>1. shl \in Writers
    BY DEF Writers
  <1>2. (IF sh.by \in SignKind THEN "movsx" ELSE "movzx") \in Writers
    BY DEF Writers
  <1>3. load_shifted(dest, c, src, d, sh) =
          IF sh.by \in {"ROR", "MSL"} THEN refuse ELSE IF sh.n = 0 THEN <<mov>> ELSE <<mov, I(shl, c, dest, N(sh.n))>>
    BY Zenon DEF load_shifted
  <1> HIDE DEF shl, from
  <1>4. Tame(mov) /\ Tame(I(shl, c, dest, N(sh.n)))
    BY <1>1, <1>2, TameOps
  <1> HIDE DEF mov
  <1> QED
    BY <1>3, <1>4, StopCalm, OneCalm, TwoCalm

------------------------------------------------------------------------------
(* What the translator emits for each form                                  *)
------------------------------------------------------------------------------

Cells == Guests \ DOMAIN Direct

Stops(i)   == HasNoForm(i) \/ XzrOperands(i) \cap XzrPanics(i) # {}
Verdict(i) == \/ Compile(i) = refuse /\ ~Stops(i)
              \/ Sound(Compile(i), IF Stops(i) THEN {Zero} ELSE {}, Cells)

LEMMA VerdictBy ==
    ASSUME NEW i, NEW S, Sound(Compile(i), S, Cells), Zero \in S <=> Stops(i)
    PROVE  Verdict(i)
  BY SoundOperands DEF Verdict

LEMMA CodedVerdict ==
    ASSUME NEW i, NEW S, Coded(Compile(i), S, Cells), Zero \in S <=> Stops(i)
    PROVE  Verdict(i)
  BY CodedSound, VerdictBy

LEMMA HomeOf ==
    ASSUME NEW r \in Gprs \cup Addresses
    PROVE  IsHome(translate_reg(r), Cells) /\ (translate_reg(r) = Zero <=> r = "xzr")
  <1>1. r \in Guests \/ r = "xzr"
    BY DEF Gprs, Addresses
  <1>2. CASE r \in DOMAIN Direct
    <2>1. translate_reg(r) = R(Direct[r])
      BY <1>2 DEF translate_reg
    <2>2. R(Direct[r]) # Zero /\ IsPlace(R(Direct[r]), Cells)
      BY <1>2, NotZero DEF IsPlace, Names
    <2>3. r # "xzr"
      BY <1>2 DEF Direct
    <2> QED
      BY <2>1, <2>2, <2>3 DEF IsHome
  <1>3. CASE r = "xzr"
    BY <1>3 DEF translate_reg, IsHome, Zero, Direct
  <1>4. CASE r \notin DOMAIN Direct /\ r # "xzr"
    <2>1. translate_reg(r) = Cell(r)
      BY <1>4 DEF translate_reg
    <2>2. Cell(r) # Zero /\ IsPlace(Cell(r), Cells)
      BY <1>1, <1>4, NotZero DEF IsPlace, Cells
    <2> QED
      BY <1>4, <2>1, <2>2 DEF IsHome
  <1> QED
    BY <1>2, <1>3, <1>4

LEMMA XzrOperand ==
    ASSUME NEW i
    PROVE  /\ "d" \in XzrOperands(i) <=> "d" \in DOMAIN i /\ i.d = "xzr"
           /\ "n" \in XzrOperands(i) <=> "n" \in DOMAIN i /\ i.n = "xzr"
           /\ "m" \in XzrOperands(i) <=> i.m.k \in {"reg", "shift", "ext"} /\ i.m.r = "xzr"
  BY DEF XzrOperands

LEMMA StopsFor ==
    ASSUME NEW i, ~HasNoForm(i)
    PROVE  /\ XzrPanics(i) = {} => ~Stops(i)
           /\ \A f : XzrPanics(i) = {f} => (Stops(i) <=> f \in XzrOperands(i))
           /\ \A f, g : XzrPanics(i) = {f, g} => (Stops(i) <=> f \in XzrOperands(i) \/ g \in XzrOperands(i))
  BY DEF Stops

LEMMA WidthsAre == Widths \subseteq Bytewide /\ "x" \in Bytewide /\ "w" \in Bytewide /\ "b" \in Bytewide /\ "h" \in Bytewide
  BY DEF Widths, Bytewide

------------------------------------------------------------------------------
LEMMA AddSubShifted ==
    ASSUME NEW i \in Operands3({"ADD", "ADDS", "SUB", "SUBS"}, Gprs, Gprs, Shifted(Shifts \cup Extensions)), NEW sets \in BOOLEAN
    PROVE  Coded(translate_add_sub(i, sets), {translate_reg(i.m.r), translate_reg(i.n)}, Cells)
  <1> DEFINE c == i.c
             d == translate_reg(i.d)
             s1 == translate_reg(i.n)
             s2 == translate_reg(i.m.r)
             op == IF i.op \in {"SUB", "SUBS"} THEN "sub" ELSE "add"
             dest == reg_operand(d)
  <1>1. /\ i.m.k = "shift" /\ i.m.r \in Gprs /\ i.m.n \in Nat /\ i.m.by \in Shifts \cup Extensions
        /\ i.d \in Gprs /\ i.n \in Gprs /\ i.c \in Widths
    BY DEF Operands3, Shifted
  <1>2. IsHome(d, Cells) /\ IsHome(s1, Cells) /\ IsHome(s2, Cells)
    BY <1>1, HomeOf
  <1>3. c \in Bytewide /\ op \in IsTwo
    BY <1>1, WidthsAre DEF IsTwo, AluOps
  <1>4. i.m.by \notin {"ROR", "MSL"}
    BY <1>1 DEF Shifts, Extensions, Narrow
  <1>5. translate_add_sub(i, sets) = load_shifted(dest, c, s2, c, i.m) \o make_rr_impl(op, c, dest, s1, TRUE, TRUE) \o post_write(d, c)
    BY <1>1 DEF translate_add_sub, make_rr
  <1> HIDE DEF c, d, s1, s2, op
  <1>6. PICK u : u = dest /\ IsPlace(u, Cells) /\ IsHome(u, Cells) /\ u # Zero
    BY <1>2, HomeOperand
  <1>7. PICK a : a = load_shifted(u, c, s2, c, i.m) /\ Coded(a, {s2}, Cells)
    BY <1>1, <1>2, <1>3, <1>4, <1>6, ShiftedCode
  <1>8. PICK b : b = make_rr_impl(op, c, u, s1, TRUE, TRUE) /\ Coded(b, {u, s1}, Cells)
    BY <1>2, <1>3, <1>6, RrCode
  <1>9. PICK p : p = post_write(d, c) /\ Coded(p, {}, Cells)
    BY <1>2, <1>3, PreReadCode
  <1>10. Coded(a \o b \o p, {s2} \cup {u, s1}, Cells)
    BY <1>7, <1>8, <1>9, CodedThree
  <1>11. Zero \in {s2} \cup {u, s1} <=> Zero \in {s2, s1}
    BY <1>6
  <1>12. Coded(a \o b \o p, {s2, s1}, Cells)
    BY <1>10, <1>11, CodedOperands
  <1> QED
    BY <1>5, <1>6, <1>7, <1>8, <1>9, <1>12 DEF s1, s2

LEMMA AddSubRegister ==
    ASSUME NEW i \in Operands3({"ADD", "ADDS", "SUB", "SUBS"}, Gprs, Gprs, Register), NEW sets \in BOOLEAN
    PROVE  Coded(translate_add_sub(i, sets),
                 IF i.op \in {"SUB", "SUBS"} \/ sets \/ (is_indirect(translate_reg(i.n)) /\ is_indirect(translate_reg(i.m.r)))
                   THEN {translate_reg(i.n), translate_reg(i.m.r)} ELSE {}, Cells)
  <1> DEFINE c == i.c
             d == translate_reg(i.d)
             s1 == translate_reg(i.n)
             s2 == translate_reg(i.m.r)
             op == IF i.op \in {"SUB", "SUBS"} THEN "sub" ELSE "add"
             dest == reg_operand(d)
             wide == i.op \in {"SUB", "SUBS"} \/ sets \/ (is_indirect(s1) /\ is_indirect(s2))
  <1>1. i.m.k = "reg" /\ i.m.r \in Gprs /\ i.d \in Gprs /\ i.n \in Gprs /\ i.c \in Widths
    BY DEF Operands3, Register
  <1>2. IsHome(d, Cells) /\ IsHome(s1, Cells) /\ IsHome(s2, Cells)
    BY <1>1, HomeOf
  <1>3. c \in Bytewide /\ op \in IsTwo
    BY <1>1, WidthsAre DEF IsTwo, AluOps
  <1>4. CASE wide
    <2>1. translate_add_sub(i, sets) = make_rrr(op, c, d, s1, s2)
      BY <1>1, <1>4 DEF translate_add_sub
    <2> HIDE DEF c, d, s1, s2, op
    <2>2. Coded(make_rrr(op, c, d, s1, s2), {s1, s2}, Cells)
      BY <1>2, <1>3, RrrCode
    <2> QED
      BY <1>4, <2>1, <2>2 DEF s1, s2
  <1>5. CASE ~wide
    <2>1. translate_add_sub(i, sets) =
            pre_read(s1, c) \o pre_read(s2, c) \o <<I3("lea", c, dest, reg_operand(s1), reg_operand(s2))>> \o post_write(d, c)
      BY <1>1, <1>5 DEF translate_add_sub
    <2> HIDE DEF c, d, s1, s2, op, wide
    <2>2. PICK u : u = dest /\ IsPlace(u, Cells)
      BY <1>2, HomeOperand
    <2>3. PICK v, w : /\ v = reg_operand(s1) /\ IsFrom(v, Cells) /\ v # Zero
                      /\ w = reg_operand(s2) /\ IsFrom(w, Cells) /\ w # Zero
      BY <1>2, HomeOperand
    <2>4. PICK a : a = pre_read(s1, c) /\ Coded(a, {}, Cells)
      BY <1>2, <1>3, PreReadCode
    <2>5. PICK b : b = pre_read(s2, c) /\ Coded(b, {}, Cells)
      BY <1>2, <1>3, PreReadCode
    <2>6. PICK e : e = <<I3("lea", c, u, v, w)>> /\ Coded(e, {v, w}, Cells)
      <3>1. "lea" \in IsThree
        BY DEF IsThree
      <3> QED
        BY <1>3, <2>2, <2>3, <3>1, ThreeCode
    <2>7. PICK p : p = post_write(d, c) /\ Coded(p, {}, Cells)
      BY <1>2, <1>3, PreReadCode
    <2>8. Coded(a \o b, {} \cup {}, Cells)
      BY <2>4, <2>5, CodedConcat
    <2>9. Coded((a \o b) \o e \o p, ({} \cup {}) \cup {v, w}, Cells)
      BY <2>6, <2>7, <2>8, CodedThree
    <2>10. Zero \in ({} \cup {}) \cup {v, w} <=> Zero \in {}
      BY <2>3
    <2>11. Coded((a \o b) \o e \o p, {}, Cells)
      BY <2>9, <2>10, CodedOperands
    <2> QED
      BY <1>5, <2>1, <2>2, <2>3, <2>4, <2>5, <2>6, <2>7, <2>11 DEF wide, s1, s2
  <1> QED
    BY <1>4, <1>5

LEMMA AddSubConstant ==
    ASSUME NEW i \in Operands3({"ADD", "ADDS", "SUB", "SUBS"}, Addresses, Addresses, [k : {"imm"}, v : Short, lsl : Nat]),
           NEW sets \in BOOLEAN
    PROVE  IF i.m.lsl # 0 THEN translate_add_sub(i, sets) = refuse ELSE Coded(translate_add_sub(i, sets), {}, Cells)
  <1> DEFINE c == i.c
             d == translate_reg(i.d)
             s1 == translate_reg(i.n)
             op == IF i.op \in {"SUB", "SUBS"} THEN "sub" ELSE "add"
             dest == reg_operand(d)
  <1>1. i.m.k = "imm" /\ i.m.v \in Int /\ i.d \in Addresses /\ i.n \in Addresses /\ i.c \in Widths
    <2>1. i.m.v \in Short /\ i.m.k = "imm" /\ i.d \in Addresses /\ i.n \in Addresses /\ i.c \in Widths
      BY DEF Operands3
    <2> QED
      BY <2>1 DEF Short
  <1>2. IsHome(d, Cells) /\ IsHome(s1, Cells) /\ s1 # Zero
    <2>1. i.n # "xzr"
      BY <1>1, GuestAssumption DEF Addresses
    <2> QED
      BY <1>1, <2>1, HomeOf
  <1>3. c \in Bytewide /\ op \in IsTwo
    BY <1>1, WidthsAre DEF IsTwo, AluOps
  <1>4. CASE i.m.lsl # 0
    BY <1>1, <1>4 DEF translate_add_sub
  <1>5. CASE i.m.lsl = 0 /\ (i.op \in {"SUB", "SUBS"} \/ sets)
    <2>1. translate_add_sub(i, sets) = make_rri(op, c, d, s1, i.m.v)
      BY <1>1, <1>5 DEF translate_add_sub
    <2> HIDE DEF c, d, s1, op
    <2>2. Coded(make_rri(op, c, d, s1, i.m.v), {s1}, Cells)
      BY <1>1, <1>2, <1>3, RriCode
    <2>3. Zero \in {s1} <=> Zero \in {}
      BY <1>2
    <2>4. Coded(make_rri(op, c, d, s1, i.m.v), {}, Cells)
      BY <2>2, <2>3, CodedOperands
    <2> QED
      BY <1>5, <2>1, <2>4
  <1>6. CASE i.m.lsl = 0 /\ ~(i.op \in {"SUB", "SUBS"} \/ sets)
    <2>1. translate_add_sub(i, sets) = pre_read(s1, c) \o <<I3("lea", c, dest, reg_operand(s1), N(i.m.v))>> \o post_write(d, c)
      BY <1>1, <1>6 DEF translate_add_sub
    <2> HIDE DEF c, d, s1, op
    <2>2. PICK u, v : u = dest /\ IsPlace(u, Cells) /\ v = reg_operand(s1) /\ IsFrom(v, Cells) /\ v # Zero
      BY <1>2, HomeOperand
    <2>3. PICK n : n = N(i.m.v) /\ IsFrom(n, Cells) /\ n # Zero
      BY <1>1, NotZero DEF IsFrom, IsSource
    <2>4. PICK a : a = pre_read(s1, c) /\ Coded(a, {}, Cells)
      BY <1>2, <1>3, PreReadCode
    <2>5. PICK e : e = <<I3("lea", c, u, v, n)>> /\ Coded(e, {v, n}, Cells)
      <3>1. "lea" \in IsThree
        BY DEF IsThree
      <3> QED
        BY <1>3, <2>2, <2>3, <3>1, ThreeCode
    <2>6. PICK p : p = post_write(d, c) /\ Coded(p, {}, Cells)
      BY <1>2, <1>3, PreReadCode
    <2>7. Coded(a \o e \o p, {} \cup {v, n}, Cells)
      BY <2>4, <2>5, <2>6, CodedThree
    <2>8. Zero \in {} \cup {v, n} <=> Zero \in {}
      BY <2>2, <2>3
    <2>9. Coded(a \o e \o p, {}, Cells)
      BY <2>7, <2>8, CodedOperands
    <2> QED
      BY <1>6, <2>1, <2>2, <2>3, <2>4, <2>5, <2>6, <2>9
  <1> QED
    BY <1>4, <1>5, <1>6

LEMMA AddSubVerdict ==
    ASSUME NEW i,
           \/ i \in Operands3({"ADD", "ADDS", "SUB", "SUBS"}, Gprs, Gprs, Register \cup Shifted(Shifts \cup Extensions))
           \/ i \in Operands3({"ADD", "ADDS", "SUB", "SUBS"}, Addresses, Addresses, [k : {"imm"}, v : Short, lsl : Nat])
    PROVE  Verdict(i)
  <1>0. PICK sets \in BOOLEAN : sets <=> i.op \in {"ADDS", "SUBS"}
    <2>1. CASE i.op \in {"ADDS", "SUBS"}
      <3> WITNESS TRUE \in BOOLEAN
      <3> QED
        BY <2>1
    <2>2. CASE i.op \notin {"ADDS", "SUBS"}
      <3> WITNESS FALSE \in BOOLEAN
      <3> QED
        BY <2>2
    <2> QED
      BY <2>1, <2>2
  <1>1. i.op \in {"ADD", "ADDS", "SUB", "SUBS"} /\ DOMAIN i = {"op", "c", "d", "n", "m"} /\ i.m.k \in {"reg", "shift", "imm"}
    BY DEF Operands3, Register, Shifted
  <1>2. Compile(i) = translate_add_sub(i, sets)
    <2>1. Compile(i) = compile_arith(i)
      BY <1>1 DEF Compile, MemoryOps, Loads, Stores, Branches
    <2>2. compile_arith(i) = IF i.op \in {"ADDS", "SUBS"} THEN translate_add_sub(i, TRUE) ELSE translate_add_sub(i, FALSE)
      BY <1>1 DEF compile_arith
    <2> QED
      BY <1>0, <2>1, <2>2
  <1>3. ~HasNoForm(i)
    BY <1>1 DEF HasNoForm, Is
  <1>4. sets \in BOOLEAN
    BY <1>0
  <1>5. CASE i \in Operands3({"ADD", "ADDS", "SUB", "SUBS"}, Gprs, Gprs, Shifted(Shifts \cup Extensions))
    <2>1. i.m.k = "shift" /\ i.n \in Gprs /\ i.m.r \in Gprs
      BY <1>5 DEF Operands3, Shifted
    <2>2. XzrPanics(i) = {"n", "m"}
      BY <1>1, <2>1 DEF XzrPanics, Is
    <2>3. Stops(i) <=> Zero \in {translate_reg(i.m.r), translate_reg(i.n)}
      BY <1>1, <1>3, <2>1, <2>2, StopsFor, XzrOperand, HomeOf
    <2>4. Coded(translate_add_sub(i, sets), {translate_reg(i.m.r), translate_reg(i.n)}, Cells)
      BY <1>4, <1>5, AddSubShifted
    <2> QED
      BY <1>2, <2>3, <2>4, CodedVerdict
  <1>6. CASE i \in Operands3({"ADD", "ADDS", "SUB", "SUBS"}, Gprs, Gprs, Register)
    <2> DEFINE wide == i.op \in {"SUB", "SUBS"} \/ sets \/ (is_indirect(translate_reg(i.n)) /\ is_indirect(translate_reg(i.m.r)))
    <2>1. i.m.k = "reg" /\ i.n \in Gprs /\ i.m.r \in Gprs
      BY <1>6 DEF Operands3, Register
    <2>2. XzrPanics(i) = IF wide THEN {"n", "m"} ELSE {}
      BY <1>0, <1>1, <2>1 DEF XzrPanics, Is
    <2>3. Stops(i) <=> Zero \in (IF wide THEN {translate_reg(i.n), translate_reg(i.m.r)} ELSE {})
      <3> HIDE DEF wide
      <3> QED
        BY <1>1, <1>3, <2>1, <2>2, StopsFor, XzrOperand, HomeOf
    <2>4. Coded(translate_add_sub(i, sets), IF wide THEN {translate_reg(i.n), translate_reg(i.m.r)} ELSE {}, Cells)
      <3> QED
        BY <1>4, <1>6, AddSubRegister
    <2> HIDE DEF wide
    <2> QED
      BY <1>2, <2>3, <2>4, CodedVerdict
  <1>7. CASE i \in Operands3({"ADD", "ADDS", "SUB", "SUBS"}, Addresses, Addresses, [k : {"imm"}, v : Short, lsl : Nat])
    <2>1. i.m.k = "imm" /\ i.n \in Addresses
      BY <1>7 DEF Operands3
    <2>2. XzrPanics(i) = {}
      BY <1>1, <2>1 DEF XzrPanics, Is, MemoryOps, Loads, Stores
    <2>3. ~Stops(i)
      BY <1>3, <2>2, StopsFor
    <2>4. IF i.m.lsl # 0 THEN translate_add_sub(i, sets) = refuse ELSE Coded(translate_add_sub(i, sets), {}, Cells)
      <3> QED
        BY <1>4, <1>7, AddSubConstant
    <2>5. CASE i.m.lsl # 0
      BY <1>2, <2>3, <2>4, <2>5 DEF Verdict
    <2>6. CASE i.m.lsl = 0
      BY <1>2, <2>3, <2>4, <2>6, CodedVerdict
    <2> QED
      BY <2>5, <2>6
  <1> QED
    BY <1>5, <1>6, <1>7 DEF Operands3

------------------------------------------------------------------------------
LEMMA ThreeParts ==
    ASSUME NEW x, NEW y, NEW z
    PROVE  <<x, y, z>> = <<x>> \o <<y>> \o <<z>>
  <1>1. <<x, y>> \in Seq({x, y, z}) /\ <<z>> \in Seq({x, y, z}) /\ <<x, y, z>> \in Seq({x, y, z})
    OBVIOUS
  <1>2. Len(<<x, y>>) = 2 /\ Len(<<z>>) = 1 /\ Len(<<x, y, z>>) = 3
    OBVIOUS
  <1>3. <<x, y>> \o <<z>> \in Seq({x, y, z}) /\ Len(<<x, y>> \o <<z>>) = 3
    BY <1>1, <1>2, ConcatProperties
  <1>4. \A k \in 1 .. 3 : (<<x, y>> \o <<z>>)[k] = IF k <= 2 THEN <<x, y>>[k] ELSE <<z>>[k - 2]
    BY <1>1, <1>2, ConcatProperties
  <1>5. (<<x, y>> \o <<z>>)[1] = x /\ (<<x, y>> \o <<z>>)[2] = y /\ (<<x, y>> \o <<z>>)[3] = z
    BY <1>4
  <1>6. \A k \in 1 .. 3 : (<<x, y>> \o <<z>>)[k] = <<x, y, z>>[k]
    BY <1>5
  <1>7. <<x, y, z>> = <<x, y>> \o <<z>>
    BY <1>1, <1>2, <1>3, <1>6, SeqEqual
  <1> QED
    BY <1>7, TwoParts

LEMMA FourParts ==
    ASSUME NEW w, NEW x, NEW y, NEW z
    PROVE  <<w, x, y, z>> = (<<w>> \o <<x>>) \o (<<y>> \o <<z>>)
  <1> DEFINE S == {w, x, y, z}
  <1>1. <<w, x>> \in Seq(S) /\ <<y, z>> \in Seq(S) /\ <<w, x, y, z>> \in Seq(S)
    OBVIOUS
  <1>2. Len(<<w, x>>) = 2 /\ Len(<<y, z>>) = 2 /\ Len(<<w, x, y, z>>) = 4
    OBVIOUS
  <1>3. <<w, x>> \o <<y, z>> \in Seq(S) /\ Len(<<w, x>> \o <<y, z>>) = 4
    BY <1>1, <1>2, ConcatProperties
  <1>4. \A k \in 1 .. 4 : (<<w, x>> \o <<y, z>>)[k] = IF k <= 2 THEN <<w, x>>[k] ELSE <<y, z>>[k - 2]
    BY <1>1, <1>2, ConcatProperties
  <1>5. (<<w, x>> \o <<y, z>>)[1] = w /\ (<<w, x>> \o <<y, z>>)[2] = x /\ (<<w, x>> \o <<y, z>>)[3] = y /\ (<<w, x>> \o <<y, z>>)[4] = z
    BY <1>4
  <1>6. \A k \in 1 .. 4 : (<<w, x>> \o <<y, z>>)[k] = <<w, x, y, z>>[k]
    BY <1>5
  <1>7. <<w, x, y, z>> = <<w, x>> \o <<y, z>>
    BY <1>1, <1>2, <1>3, <1>6, SeqEqual
  <1> QED
    BY <1>7, TwoParts

LEMMA PanicSound == \A G : Sound(panic, {Zero}, G)
  <1> DEFINE x == [op |-> "panic"]
  <1>1. x.op = "panic"
    OBVIOUS
  <1> HIDE DEF x
  <1>2. Unencodable(x)
    BY <1>1 DEF Unencodable
  <1>3. Encodes(<<x>>, {Zero})
    BY <1>1, <1>2, OneEncodes
  <1> QED
    BY <1>3 DEF Sound, panic, x

LEMMA PanicVerdict ==
    ASSUME NEW i, Compile(i) = panic, Stops(i)
    PROVE  Verdict(i)
  BY PanicSound, VerdictBy

LEMMA ShiftVerdict ==
    ASSUME NEW i, i \in Operands3({"LSL", "LSR", "ASR"}, Gprs, Gprs, Register \cup Constant(0 .. Bits[i.c] - 1))
    PROVE  Verdict(i)
  <1> DEFINE c == i.c
             d == translate_reg(i.d)
             n == translate_reg(i.n)
             m == translate_reg(i.m.r)
             op == CASE i.op = "ASR" -> "sar" [] i.op = "LSL" -> "shl" [] i.op = "LSR" -> "shr"
             vop == CASE i.op = "ASR" -> "sarx" [] i.op = "LSL" -> "shlx" [] i.op = "LSR" -> "shrx"
  <1>1. /\ i.op \in {"LSL", "LSR", "ASR"} /\ DOMAIN i = {"op", "c", "d", "n", "m"} /\ i.d \in Gprs /\ i.n \in Gprs /\ c \in Widths
        /\ (i.m.k = "reg" /\ i.m.r \in Gprs) \/ (i.m.k = "imm" /\ i.m.v \in 0 .. Bits[i.c] - 1)
    BY DEF Operands3, Register, Constant
  <1>2. Compile(i) = translate_shift(i)
    <2>1. Compile(i) = compile_arith(i)
      BY <1>1 DEF Compile, MemoryOps, Loads, Stores, Branches
    <2> QED
      BY <1>1, <2>1 DEF compile_arith
  <1>3. ~HasNoForm(i)
    BY <1>1 DEF HasNoForm, Is
  <1>4. IsHome(d, Cells) /\ IsHome(n, Cells) /\ c \in Bytewide /\ vop \in IsThree /\ op \in {"bt", "shl", "shr", "sar"}
    BY <1>1, HomeOf, WidthsAre DEF IsThree
  <1>5. CASE i.m.k = "reg"
    <2>1. Compile(i) = pre_read(m, c) \o <<I3(vop, c, reg_operand(d), n, reg_operand(m))>> \o post_write(d, c)
      BY <1>1, <1>2, <1>5 DEF translate_shift
    <2>2. IsHome(m, Cells)
      BY <1>1, <1>5, HomeOf
    <2>3. XzrPanics(i) = {"n"}
      BY <1>1, <1>5 DEF XzrPanics, Is
    <2>4. Zero \in {n} <=> Stops(i)
      BY <1>1, <1>3, <2>3, StopsFor, XzrOperand, HomeOf
    <2> HIDE DEF c, d, n, m, op, vop
    <2>5. PICK u, v : u = reg_operand(d) /\ IsPlace(u, Cells) /\ v = reg_operand(m) /\ IsFrom(v, Cells) /\ v # Zero
      BY <1>4, <2>2, HomeOperand
    <2>6. PICK a : a = pre_read(m, c) /\ Coded(a, {}, Cells)
      BY <1>4, <2>2, PreReadCode
    <2>7. PICK e : e = <<I3(vop, c, u, n, v)>> /\ Coded(e, {n, v}, Cells)
      BY <1>4, <2>5, ThreeCode, HomeOperand
    <2>8. PICK p : p = post_write(d, c) /\ Coded(p, {}, Cells)
      BY <1>4, PreReadCode
    <2>9. Coded(a \o e \o p, {} \cup {n, v}, Cells)
      BY <2>6, <2>7, <2>8, CodedThree
    <2>10. Zero \in {} \cup {n, v} <=> Stops(i)
      BY <2>4, <2>5
    <2> QED
      BY <2>1, <2>5, <2>6, <2>7, <2>8, <2>9, <2>10, CodedVerdict
  <1>6. CASE i.m.k = "imm"
    <2>1. Compile(i) = <<I(op, c, d, N(i.m.v))>>
      BY <1>2, <1>6 DEF translate_shift
    <2>2. i.m.v \in Nat
      <3>1. Bits[i.c] \in Nat
        BY <1>4, WidthFacts
      <3> QED
        BY <1>1, <1>6, <3>1
    <2>3. XzrPanics(i) = {"d"}
      BY <1>1, <1>6 DEF XzrPanics, Is
    <2>4. Zero \in {d} <=> Stops(i)
      BY <1>1, <1>3, <2>3, StopsFor, XzrOperand, HomeOf
    <2> HIDE DEF c, d, op
    <2>5. Coded(<<I(op, c, d, N(i.m.v))>>, {d}, Cells)
      BY <1>4, <2>2, ConstCode
    <2> QED
      BY <2>1, <2>4, <2>5, CodedVerdict
  <1> QED
    BY <1>1, <1>5, <1>6

LEMMA LogicalVerdict ==
    ASSUME NEW i,
           \/ i \in Operands3({"AND", "ORR", "EOR"}, Gprs, Gprs, Register \cup Shifted(Shifts \cup {"ROR"}))
           \/ i \in Operands3({"AND", "ORR", "EOR"}, Addresses, Gprs, Constant(Words(i.c)))
    PROVE  Verdict(i)
  <1> DEFINE c == i.c
             d == translate_reg(i.d)
             n == translate_reg(i.n)
             m == translate_reg(i.m.r)
             op == CASE i.op = "AND" -> "and" [] i.op = "ORR" -> "or" [] i.op = "EOR" -> "xor"
  <1>1. /\ i.op \in {"AND", "ORR", "EOR"} /\ DOMAIN i = {"op", "c", "d", "n", "m"} /\ i.d \in Gprs \cup Addresses /\ i.n \in Gprs /\ c \in Widths
        /\ (i.m.k = "reg" /\ i.m.r \in Gprs) \/ i.m.k = "shift" \/ (i.m.k = "imm" /\ i.m.v \in Words(i.c) /\ i.d \in Addresses)
    BY DEF Operands3, Register, Constant, Shifted
  <1>2. Compile(i) = translate_logical(i, op)
    <2>1. Compile(i) = compile_arith(i)
      BY <1>1 DEF Compile, MemoryOps, Loads, Stores, Branches
    <2> QED
      BY <1>1, <2>1 DEF compile_arith
  <1>3. IsHome(d, Cells) /\ IsHome(n, Cells) /\ c \in Bytewide /\ op \in IsTwo
    BY <1>1, HomeOf, WidthsAre DEF IsTwo, AluOps
  <1>4. CASE i.m.k = "reg"
    <2>1. Compile(i) = make_rrr(op, c, d, n, m)
      BY <1>2, <1>4 DEF translate_logical
    <2>2. IsHome(m, Cells) /\ ~HasNoForm(i)
      BY <1>1, <1>4, HomeOf DEF HasNoForm, Is
    <2>3. XzrPanics(i) = {"n", "m"}
      BY <1>1, <1>4 DEF XzrPanics, Is
    <2>4. Zero \in {n, m} <=> Stops(i)
      BY <1>1, <1>4, <2>2, <2>3, StopsFor, XzrOperand, HomeOf
    <2> HIDE DEF c, d, n, m, op
    <2>5. Coded(make_rrr(op, c, d, n, m), {n, m}, Cells)
      BY <1>3, <2>2, RrrCode
    <2> QED
      BY <2>1, <2>4, <2>5, CodedVerdict
  <1>5. CASE i.m.k = "shift"
    <2>1. Compile(i) = panic
      BY <1>2, <1>5 DEF translate_logical
    <2>2. Stops(i)
      BY <1>1, <1>5 DEF Stops, HasNoForm, Is
    <2> QED
      BY <2>1, <2>2, PanicVerdict
  <1>6. CASE i.m.k = "imm"
    <2>1. Compile(i) = (IF d # n THEN make_mov_rr(c, d, n) ELSE <<>>) \o <<I("mov", "x", RAX, N(i.m.v))>> \o make_rr(op, c, d, RAX)
      BY <1>2, <1>6 DEF translate_logical
    <2>2. i.m.v \in Int /\ ~HasNoForm(i) /\ XzrPanics(i) = {} /\ d # Zero
      <3>1. i.m.v \in Int
        BY <1>1, <1>3, <1>6, WordFacts
      <3>2. ~HasNoForm(i) /\ XzrPanics(i) = {}
        BY <1>1, <1>6 DEF HasNoForm, Is, XzrPanics, MemoryOps, Loads, Stores
      <3>3. d # Zero
        BY <1>1, <1>6, HomeOf, GuestAssumption DEF Addresses
      <3> QED
        BY <3>1, <3>2, <3>3
    <2>3. ~Stops(i)
      BY <2>2, StopsFor
    <2> HIDE DEF c, d, n, op
    <2>4. PICK a : a = (IF d # n THEN make_mov_rr(c, d, n) ELSE <<>>) /\ Coded(a, {}, Cells)
      <3>1. Coded(make_mov_rr(c, d, n), {d}, Cells)
        BY <1>3, MovCode
      <3>2. Coded(make_mov_rr(c, d, n), {}, Cells)
        BY <2>2, <3>1, CodedOperands
      <3> QED
        BY <3>2, EmptyCode
    <2>5. PICK r : r = RAX /\ IsHome(r, Cells) /\ IsTo(r, Cells) /\ r # Zero
      BY RaxHome
    <2>6. PICK e : e = <<I("mov", "x", r, N(i.m.v))>> /\ Coded(e, {}, Cells)
      <3>1. PICK v : v = N(i.m.v) /\ IsFrom(v, Cells) /\ v # Zero
        BY <2>2, NotZero DEF IsFrom, IsSource
      <3>2. "mov" \in IsTwo
        BY DEF IsTwo
      <3>3. \A w : w \in Bytewide => Coded(<<I("mov", w, r, v)>>, {r, v}, Cells)
        BY <2>5, <3>1, <3>2, TwoCode
      <3>4. Coded(<<I("mov", "x", r, v)>>, {r, v}, Cells)
        BY <3>3, WidthsAre
      <3>5. Coded(<<I("mov", "x", r, v)>>, {}, Cells)
        BY <2>5, <3>1, <3>4, CodedOperands
      <3> QED
        BY <3>1, <3>5
    <2>7. PICK p : p = make_rr(op, c, d, r) /\ Coded(p, {}, Cells)
      <3>1. Coded(make_rr(op, c, d, r), {d, r}, Cells)
        BY <1>3, <2>5, MakeRrCode
      <3>2. Coded(make_rr(op, c, d, r), {}, Cells)
        BY <2>2, <2>5, <3>1, CodedOperands
      <3> QED
        BY <3>2
    <2>8. Coded(a \o e \o p, {} \cup {}, Cells)
      BY <2>4, <2>6, <2>7, CodedThree
    <2>9. Zero \in {} \cup {} <=> Stops(i)
      BY <2>3
    <2>10. Compile(i) = a \o e \o p
      BY <2>1, <2>4, <2>5, <2>6, <2>7
    <2> QED
      BY <2>8, <2>9, <2>10, CodedVerdict
  <1> QED
    BY <1>1, <1>4, <1>5, <1>6

LEMMA ClearVerdict ==
    ASSUME NEW i \in Operands3({"BIC"}, Gprs, Gprs, Register \cup Shifted(Shifts \cup {"ROR"}))
    PROVE  Verdict(i)
  <1> DEFINE c == i.c
             d == translate_reg(i.d)
             n == translate_reg(i.n)
             m == translate_reg(i.m.r)
  <1>1. /\ i.op = "BIC" /\ DOMAIN i = {"op", "c", "d", "n", "m"} /\ i.d \in Gprs /\ i.n \in Gprs /\ c \in Widths
        /\ i.m.r \in Gprs /\ i.m.k \in {"reg", "shift"}
    BY DEF Operands3, Register, Shifted
  <1>2. Compile(i) = translate_bic(i)
    BY <1>1 DEF Compile, MemoryOps, Loads, Stores, Branches, compile_arith
  <1>3. IsHome(d, Cells) /\ IsHome(n, Cells) /\ IsHome(m, Cells) /\ c \in Bytewide
    BY <1>1, HomeOf, WidthsAre
  <1>4. CASE i.m.k = "shift"
    <2>1. Compile(i) = panic
      BY <1>2, <1>4 DEF translate_bic
    <2>2. Stops(i)
      BY <1>1, <1>4 DEF Stops, HasNoForm, Is
    <2> QED
      BY <2>1, <2>2, PanicVerdict
  <1>5. CASE i.m.k = "reg"
    <2>1. Compile(i) = pre_read(m, c) \o <<I3("andn", c, reg_operand(d), reg_operand(m), n)>> \o post_write(d, c)
      BY <1>2, <1>5 DEF translate_bic
    <2>2. ~HasNoForm(i) /\ XzrPanics(i) = {"n"}
      BY <1>1, <1>5 DEF XzrPanics, Is, HasNoForm
    <2>3. Zero \in {n} <=> Stops(i)
      BY <1>1, <2>2, StopsFor, XzrOperand, HomeOf
    <2> HIDE DEF c, d, n, m
    <2>4. PICK u, v : u = reg_operand(d) /\ IsPlace(u, Cells) /\ v = reg_operand(m) /\ IsFrom(v, Cells) /\ v # Zero
      BY <1>3, HomeOperand
    <2>5. PICK a : a = pre_read(m, c) /\ Coded(a, {}, Cells)
      BY <1>3, PreReadCode
    <2>6. PICK e : e = <<I3("andn", c, u, v, n)>> /\ Coded(e, {v, n}, Cells)
      <3>1. "andn" \in IsThree /\ IsFrom(n, Cells)
        BY <1>3, HomeOperand DEF IsThree
      <3> QED
        BY <1>3, <2>4, <3>1, ThreeCode
    <2>7. PICK p : p = post_write(d, c) /\ Coded(p, {}, Cells)
      BY <1>3, PreReadCode
    <2>8. Coded(a \o e \o p, {} \cup {v, n}, Cells)
      BY <2>5, <2>6, <2>7, CodedThree
    <2>9. Zero \in {} \cup {v, n} <=> Stops(i)
      BY <2>3, <2>4
    <2> QED
      BY <2>1, <2>4, <2>5, <2>6, <2>7, <2>8, <2>9, CodedVerdict
  <1> QED
    BY <1>1, <1>4, <1>5

LEMMA FieldVerdict ==
    ASSUME NEW i, i \in [op : {"UBFIZ"}, c : Widths, d : Gprs, n : Gprs, m : Constant({0}), lsb : Nat, width : 1 .. Bits[i.c]]
    PROVE  Verdict(i)
  <1> DEFINE c == i.c
             d == translate_reg(i.d)
             n == translate_reg(i.n)
             dest == reg_operand(d)
  <1>1. /\ i.op = "UBFIZ" /\ DOMAIN i = {"op", "c", "d", "n", "m", "lsb", "width"} /\ i.d \in Gprs /\ i.n \in Gprs /\ c \in Widths
        /\ i.m.k = "imm" /\ i.lsb \in Nat /\ i.width \in 1 .. Bits[c]
    BY DEF Constant
  <1>2. Compile(i) = translate_ubfiz(i)
    BY <1>1 DEF Compile, MemoryOps, Loads, Stores, Branches, compile_arith
  <1>3. IsHome(d, Cells) /\ IsHome(n, Cells) /\ IsFrom(n, Cells) /\ c \in Bytewide
    BY <1>1, HomeOf, WidthsAre, HomeOperand
  <1>4. i.width \in Int
    BY <1>1, <1>3, WidthFacts
  <1>5. ~HasNoForm(i) /\ XzrPanics(i) = {"n"}
    BY <1>1 DEF XzrPanics, Is, HasNoForm
  <1>6. Zero \in {n} <=> Stops(i)
    BY <1>1, <1>5, StopsFor, XzrOperand, HomeOf
  <1>7. Compile(i) = (<<I("mov", "w", RAX, N(i.width))>> \o <<I3("bzhi", c, dest, n, RAX)>> \o <<I("shl", c, dest, N(i.lsb))>>) \o post_write(d, c)
    BY <1>2, ThreeParts DEF translate_ubfiz
  <1> HIDE DEF c, d, n
  <1>8. PICK u : u = dest /\ IsPlace(u, Cells) /\ IsHome(u, Cells) /\ u # Zero
    BY <1>3, HomeOperand
  <1>9. PICK r : r = RAX /\ IsFrom(r, Cells) /\ r # Zero
    BY RaxHome
  <1>10. PICK a : a = <<I("mov", "w", RAX, N(i.width))>> /\ Coded(a, {}, Cells)
    <2>1. \A w, o : w \in Bytewide /\ o \in IsTwo => Coded(<<I(o, w, RAX, N(i.width))>>, {}, Cells)
      BY <1>4, RaxCode
    <2>2. "mov" \in IsTwo
      BY DEF IsTwo
    <2> QED
      BY <2>1, <2>2, WidthsAre
  <1>11. PICK b : b = <<I3("bzhi", c, u, n, r)>> /\ Coded(b, {n, r}, Cells)
    <2>1. "bzhi" \in IsThree
      BY DEF IsThree
    <2> QED
      BY <1>3, <1>8, <1>9, <2>1, ThreeCode
  <1>12. PICK e : e = <<I("shl", c, u, N(i.lsb))>> /\ Coded(e, {u}, Cells)
    <2>1. \A o : o \in {"bt", "shl", "shr", "sar"} => Coded(<<I(o, c, u, N(i.lsb))>>, {u}, Cells)
      BY <1>1, <1>3, <1>8, ConstCode
    <2> QED
      BY <2>1
  <1>13. PICK p : p = post_write(d, c) /\ Coded(p, {}, Cells)
    BY <1>3, PreReadCode
  <1>14. Coded(a \o b, {} \cup {n, r}, Cells)
    BY <1>10, <1>11, CodedConcat
  <1>15. Coded((a \o b) \o e \o p, ({} \cup {n, r}) \cup {u}, Cells)
    BY <1>12, <1>13, <1>14, CodedThree
  <1>16. Zero \in ({} \cup {n, r}) \cup {u} <=> Stops(i)
    BY <1>6, <1>8, <1>9
  <1>17. Compile(i) = (a \o b) \o e \o p
    BY <1>7, <1>8, <1>9, <1>10, <1>11, <1>12, <1>13
  <1> QED
    BY <1>15, <1>16, <1>17, CodedVerdict

LEMMA MovVerdict ==
    ASSUME NEW i,
           i \in Operands3({"MOV"}, Gprs \cup Addresses, {"xzr"}, [k : {"reg"}, r : Gprs \cup Addresses] \cup Constant(Words(i.c)))
    PROVE  Verdict(i)
  <1> DEFINE c == i.c
             d == translate_reg(i.d)
             m == translate_reg(i.m.r)
  <1>1. /\ i.op = "MOV" /\ DOMAIN i = {"op", "c", "d", "n", "m"} /\ i.d \in Gprs \cup Addresses /\ c \in Widths
        /\ (i.m.k = "reg" /\ i.m.r \in Gprs \cup Addresses) \/ (i.m.k = "imm" /\ i.m.v \in Words(i.c))
    BY DEF Operands3, Constant
  <1>2. Compile(i) = translate_mov(i)
    BY <1>1 DEF Compile, MemoryOps, Loads, Stores, Branches, compile_arith
  <1>3. IsHome(d, Cells) /\ c \in Bytewide
    BY <1>1, HomeOf, WidthsAre
  <1>4. ~HasNoForm(i) /\ XzrPanics(i) = {"d"}
    BY <1>1 DEF XzrPanics, Is, HasNoForm
  <1>5. Zero \in {d} <=> Stops(i)
    BY <1>1, <1>4, StopsFor, XzrOperand, HomeOf
  <1>6. CASE i.m.k = "reg"
    <2>1. Compile(i) = make_mov_rr(c, d, m)
      BY <1>2, <1>6 DEF translate_mov
    <2>2. IsHome(m, Cells)
      BY <1>1, <1>6, HomeOf
    <2> HIDE DEF c, d, m
    <2>3. Coded(make_mov_rr(c, d, m), {d}, Cells)
      BY <1>3, <2>2, MovCode
    <2> QED
      BY <1>5, <2>1, <2>3, CodedVerdict
  <1>7. CASE i.m.k = "imm"
    <2>1. Compile(i) = make_ri("mov", c, d, i.m.v)
      BY <1>2, <1>7 DEF translate_mov
    <2>2. i.m.v \in Int /\ "mov" \in IsTwo
      BY <1>1, <1>3, <1>7, WordFacts DEF IsTwo
    <2> HIDE DEF c, d
    <2>3. Coded(make_ri("mov", c, d, i.m.v), {d}, Cells)
      BY <1>3, <2>2, RiCode
    <2> QED
      BY <1>5, <2>1, <2>3, CodedVerdict
  <1> QED
    BY <1>1, <1>6, <1>7

LEMMA AddressVerdict ==
    ASSUME NEW i \in [op : {"ADRP"}, c : {"x"}, d : Gprs, n : {"xzr"}, m : Constant(Words("x"))]
    PROVE  Verdict(i)
  <1> DEFINE d == translate_reg(i.d)
  <1>1. i.op = "ADRP" /\ DOMAIN i = {"op", "c", "d", "n", "m"} /\ i.d \in Gprs /\ i.m.k = "imm" /\ i.m.v \in Words("x")
    BY DEF Constant
  <1>2. Compile(i) = make_mov_ri64(d, i.m.v)
    BY <1>1 DEF Compile, MemoryOps, Loads, Stores, Branches, compile_arith
  <1>3. IsHome(d, Cells) /\ i.m.v \in Int
    BY <1>1, HomeOf, WordFacts
  <1>4. ~HasNoForm(i) /\ XzrPanics(i) = {}
    BY <1>1 DEF XzrPanics, Is, HasNoForm, MemoryOps, Loads, Stores
  <1>5. ~Stops(i)
    BY <1>4, StopsFor
  <1> HIDE DEF d
  <1>6. PICK u : u = reg_operand(d) /\ IsTo(u, Cells) /\ u # Zero
    BY <1>3, HomeOperand
  <1>7. PICK a : a = <<I("mov", "x", u, N(i.m.v))>> /\ Coded(a, {u}, Cells)
    <2>1. \A w, o : w \in Bytewide /\ o \in IsTwo => Coded(<<I(o, w, u, N(i.m.v))>>, {u}, Cells)
      BY <1>3, <1>6, NumberCode
    <2>2. "mov" \in IsTwo
      BY DEF IsTwo
    <2> QED
      BY <2>1, <2>2, WidthsAre
  <1>8. PICK p : p = post_write(d, "x") /\ Coded(p, {}, Cells)
    BY <1>3, PreReadCode, WidthsAre
  <1>9. Coded(a \o p, {u} \cup {}, Cells)
    BY <1>7, <1>8, CodedConcat
  <1>10. Zero \in {u} \cup {} <=> Stops(i)
    BY <1>5, <1>6
  <1>11. Compile(i) = a \o p
    BY <1>2, <1>6, <1>7, <1>8 DEF make_mov_ri64
  <1> QED
    BY <1>9, <1>10, <1>11, CodedVerdict

LEMMA MovkVerdict ==
    ASSUME NEW i,
           i \in Operands3({"MOVK"}, Gprs, {"xzr"}, [k : {"imm"}, v : Words("h"), lsl : {Bits["h"] * k : k \in 0 .. Bytes[i.c] \div 2 - 1}])
    PROVE  Verdict(i)
  <1> DEFINE c == i.c
             d == translate_reg(i.d)
             imm == i.m.v * Pow2(i.m.lsl)
             mask == Complement("x", (Pow2(Bits["h"]) - 1) * Pow2(i.m.lsl))
  <1>1. /\ i.op = "MOVK" /\ DOMAIN i = {"op", "c", "d", "n", "m"} /\ i.d \in Gprs /\ c \in Widths /\ i.n = "xzr"
        /\ i.m.k = "imm" /\ i.m.v \in Words("h") /\ i.m.lsl \in {Bits["h"] * k : k \in 0 .. Bytes[i.c] \div 2 - 1}
    BY DEF Operands3
  <1>2. Compile(i) = translate_movk(i)
    BY <1>1 DEF Compile, MemoryOps, Loads, Stores, Branches, compile_arith
  <1>3. IsHome(d, Cells) /\ c \in Bytewide /\ {"mov", "and", "or"} \subseteq IsTwo
    BY <1>1, HomeOf, WidthsAre DEF IsTwo, AluOps
  <1>4. ~HasNoForm(i) /\ XzrPanics(i) = {"d"}
    BY <1>1 DEF XzrPanics, Is, HasNoForm
  <1>5. Zero \in {d} <=> Stops(i)
    BY <1>1, <1>4, StopsFor, XzrOperand, HomeOf
  <1>6. imm \in Int /\ mask \in Int
    <2>1. i.m.lsl \in Nat
      <3>1. Bits["h"] \in Nat
        BY WidthsAre, WidthFacts
      <3>2. \A k \in 0 .. Bytes[i.c] \div 2 - 1 : Bits["h"] * k \in Nat
        <4>1. Bits["h"] \in Nat
          BY <3>1
        <4> QED
          BY <4>1
      <3> QED
        BY <1>1, <3>2
    <2>2. Pow2(i.m.lsl) \in Nat /\ Pow2(Bits["h"]) \in Nat
      BY <2>1, PowerType, WidthsAre, WidthFacts
    <2>3. i.m.v \in Int
      BY <1>1, WidthFacts, WidthsAre, WordFacts
    <2>4. imm \in Int
      BY <2>2, <2>3
    <2>5. (Pow2(Bits["h"]) - 1) * Pow2(i.m.lsl) \in Int
      BY <2>2
    <2>6. Low("x", (Pow2(Bits["h"]) - 1) * Pow2(i.m.lsl)) \in Nat
      BY <2>5, LowType, WidthsAre
    <2>7. Mod["x"] \in Nat
      BY WidthFacts, WidthsAre
    <2> QED
      BY <2>4, <2>6, <2>7 DEF Complement
  <1>7. CASE i.m.lsl > Bits["h"]
    <2>1. Compile(i) = <<I("mov", "x", RAX, N(mask)), I("and", "x", d, RAX), I("mov", "x", RAX, N(imm)), I("or", "x", d, RAX)>>
      BY <1>2, <1>7 DEF translate_movk
    <2> HIDE DEF c, d, imm, mask
    <2>2. PICK a : a = <<I("mov", "x", RAX, N(mask))>> /\ Coded(a, {}, Cells)
      BY <1>3, <1>6, RaxCode, WidthsAre
    <2>3. PICK e : e = <<I("mov", "x", RAX, N(imm))>> /\ Coded(e, {}, Cells)
      BY <1>3, <1>6, RaxCode, WidthsAre
    <2>4. PICK r : r = RAX /\ IsFrom(r, Cells) /\ r # Zero
      BY RaxHome
    <2>5. IsTo(d, Cells)
      BY <1>3, HomeOperand
    <2>6. PICK b : b = <<I("and", "x", d, r)>> /\ Coded(b, {d, r}, Cells)
      BY <1>3, <2>4, <2>5, TwoCode, WidthsAre
    <2>7. PICK f : f = <<I("or", "x", d, r)>> /\ Coded(f, {d, r}, Cells)
      BY <1>3, <2>4, <2>5, TwoCode, WidthsAre
    <2>8. Coded(a \o b, {} \cup {d, r}, Cells)
      BY <2>2, <2>6, CodedConcat
    <2>9. Coded(e \o f, {} \cup {d, r}, Cells)
      BY <2>3, <2>7, CodedConcat
    <2>10. Coded((a \o b) \o (e \o f), ({} \cup {d, r}) \cup ({} \cup {d, r}), Cells)
      BY <2>8, <2>9, CodedConcat
    <2>11. Zero \in ({} \cup {d, r}) \cup ({} \cup {d, r}) <=> Stops(i)
      BY <1>5, <2>4
    <2>12. Compile(i) = (a \o b) \o (e \o f)
      BY <2>1, <2>2, <2>3, <2>4, <2>6, <2>7, FourParts
    <2> QED
      BY <2>10, <2>11, <2>12, CodedVerdict
  <1>8. CASE ~(i.m.lsl > Bits["h"])
    <2>1. Compile(i) = make_ri("and", c, d, mask) \o make_ri("or", c, d, imm)
      BY <1>2, <1>8 DEF translate_movk
    <2> HIDE DEF c, d, imm, mask
    <2>2. Coded(make_ri("and", c, d, mask), {d}, Cells) /\ Coded(make_ri("or", c, d, imm), {d}, Cells)
      BY <1>3, <1>6, RiCode
    <2>3. Coded(make_ri("and", c, d, mask) \o make_ri("or", c, d, imm), {d} \cup {d}, Cells)
      BY <2>2, CodedConcat
    <2>4. Zero \in {d} \cup {d} <=> Stops(i)
      BY <1>5
    <2> QED
      BY <2>1, <2>3, <2>4, CodedVerdict
  <1> QED
    BY <1>7, <1>8

LEMMA ExtendVerdict ==
    ASSUME NEW i,
           i \in [op : {"SXTB", "SXTH", "SXTW", "UXTB", "UXTH"}, c : Widths, d : Gprs, n : Gprs, m : Constant({0})]
    PROVE  Verdict(i)
  <1> DEFINE c == i.c
             d == translate_reg(i.d)
             n == translate_reg(i.n)
             sh == [by |-> i.op, n |-> 0]
  <1>1. /\ i.op \in {"SXTB", "SXTH", "SXTW", "UXTB", "UXTH"} /\ DOMAIN i = {"op", "c", "d", "n", "m"}
        /\ i.d \in Gprs /\ i.n \in Gprs /\ c \in Widths /\ i.m.k = "imm"
    BY DEF Constant
  <1>2. Compile(i) = translate_extend(i)
    <2>1. Compile(i) = compile_arith(i)
      BY <1>1 DEF Compile, MemoryOps, Loads, Stores, Branches
    <2> QED
      BY <1>1, <2>1 DEF compile_arith
  <1>3. IsHome(d, Cells) /\ IsHome(n, Cells) /\ c \in Bytewide
    BY <1>1, HomeOf, WidthsAre
  <1>4. ~HasNoForm(i) /\ XzrPanics(i) = {"d", "n"}
    BY <1>1 DEF XzrPanics, Is, HasNoForm
  <1>5. Zero \in {d, n} <=> Stops(i)
    BY <1>1, <1>4, StopsFor, XzrOperand, HomeOf
  <1>6. sh.by \notin {"ROR", "MSL"} /\ sh.n \in Nat
    BY <1>1
  <1>7. d.k \in {"reg", "cell", "zero"} /\ (d.k = "zero" <=> d = Zero) /\ (d.k = "reg" => IsPlace(d, Cells))
    BY <1>3, PlaceKinds DEF IsHome, Zero
  <1>8. CASE d.k = "reg"
    <2>1. Compile(i) = load_shifted(d, c, n, c, sh)
      BY <1>2, <1>8 DEF translate_extend
    <2> HIDE DEF c, d, n, sh
    <2>2. Coded(load_shifted(d, c, n, c, sh), {n}, Cells)
      BY <1>3, <1>6, <1>7, <1>8, ShiftedCode
    <2>3. Zero \in {n} <=> Stops(i)
      BY <1>5, <1>7, <1>8
    <2> QED
      BY <2>1, <2>2, <2>3, CodedVerdict
  <1>9. CASE d.k = "cell"
    <2>1. Compile(i) = load_shifted(RAX, c, n, c, sh) \o make_mov_rr(c, d, RAX)
      BY <1>2, <1>9 DEF translate_extend
    <2> HIDE DEF c, d, n, sh
    <2>2. PICK r : r = RAX /\ IsPlace(r, Cells) /\ IsHome(r, Cells)
      BY RaxHome
    <2>3. Coded(load_shifted(r, c, n, c, sh), {n}, Cells)
      BY <1>3, <1>6, <2>2, ShiftedCode
    <2>4. Coded(make_mov_rr(c, d, r), {d}, Cells)
      BY <1>3, <2>2, MovCode
    <2>5. Coded(load_shifted(r, c, n, c, sh) \o make_mov_rr(c, d, r), {n} \cup {d}, Cells)
      BY <2>3, <2>4, CodedConcat
    <2>6. Zero \in {n} \cup {d} <=> Stops(i)
      BY <1>5
    <2> QED
      BY <2>1, <2>2, <2>5, <2>6, CodedVerdict
  <1>10. CASE d.k = "zero"
    <2>1. Compile(i) = panic
      BY <1>2, <1>10 DEF translate_extend
    <2>2. Stops(i)
      BY <1>5, <1>7, <1>10
    <2> QED
      BY <2>1, <2>2, PanicVerdict
  <1> QED
    BY <1>7, <1>8, <1>9, <1>10

LEMMA CselVerdict ==
    ASSUME NEW i \in [op : {"CSEL"}, c : Widths, d : Gprs, n : Gprs, m : Register, cond : Conditions]
    PROVE  Verdict(i)
  <1> DEFINE c == i.c
             d == translate_reg(i.d)
             n == translate_reg(i.n)
             m == translate_reg(i.m.r)
             cc == cmov_cc[i.cond]
  <1>1. /\ i.op = "CSEL" /\ DOMAIN i = {"op", "c", "d", "n", "m", "cond"}
        /\ i.d \in Gprs /\ i.n \in Gprs /\ c \in Widths /\ i.m.k = "reg" /\ i.m.r \in Gprs
    BY DEF Register
  <1>2. Compile(i) = make_mov_rr(c, RAX, m) \o <<Iw("cmov", c, RAX, n, cc)>> \o make_mov_rr(c, d, RAX)
    BY <1>1 DEF Compile, MemoryOps, Loads, Stores, Branches, compile_arith, translate_csel
  <1>3. IsHome(d, Cells) /\ IsHome(n, Cells) /\ IsHome(m, Cells) /\ c \in Bytewide /\ IsFrom(n, Cells)
    BY <1>1, HomeOf, WidthsAre, HomeOperand
  <1>4. ~HasNoForm(i) /\ XzrPanics(i) = {"d", "n"}
    BY <1>1 DEF XzrPanics, Is, HasNoForm
  <1>5. Zero \in {d, n} <=> Stops(i)
    BY <1>1, <1>4, StopsFor, XzrOperand, HomeOf
  <1> HIDE DEF c, d, n, m, cc
  <1>6. PICK r : r = RAX /\ IsHome(r, Cells) /\ r # Zero
    BY RaxHome
  <1>7. PICK a : a = make_mov_rr(c, r, m) /\ Coded(a, {r}, Cells)
    BY <1>3, <1>6, MovCode
  <1>8. PICK b : b = <<Iw("cmov", c, r, n, cc)>> /\ Coded(b, {r, n}, Cells)
    BY <1>3, <1>6, WideCode
  <1>9. PICK e : e = make_mov_rr(c, d, r) /\ Coded(e, {d}, Cells)
    BY <1>3, <1>6, MovCode
  <1>10. Coded(a \o b, {r} \cup {r, n}, Cells)
    BY <1>7, <1>8, CodedConcat
  <1>11. Coded((a \o b) \o e, ({r} \cup {r, n}) \cup {d}, Cells)
    BY <1>9, <1>10, CodedConcat
  <1>12. Zero \in ({r} \cup {r, n}) \cup {d} <=> Stops(i)
    BY <1>5, <1>6
  <1>13. Compile(i) = (a \o b) \o e
    BY <1>2, <1>6, <1>7, <1>8, <1>9
  <1> QED
    BY <1>11, <1>12, <1>13, CodedVerdict

------------------------------------------------------------------------------
Associates(a, b, d) == (a \o b) \o d = a \o (b \o d)

LEMMA CodeAssociative ==
    ASSUME NEW a, NEW b, NEW d, IsCode(a), IsCode(b), IsCode(d)
    PROVE  Associates(a, b, d)
  <1>1. PICK A, B, D : a \in Seq(A) /\ b \in Seq(B) /\ d \in Seq(D)
    BY DEF IsCode
  <1> DEFINE S == A \cup B \cup D
  <1>2. a \in Seq(S) /\ b \in Seq(S) /\ d \in Seq(S)
    BY <1>1
  <1> HIDE DEF S
  <1> QED
    BY <1>2, ConcatAssociative DEF Associates

LEMMA CodedIsCode == \A G, a, S : Coded(a, S, G) => IsCode(a)
  BY DEF Coded, Good, Bad, NoRefusal

LEMMA ConcatIsCode == \A a, b : IsCode(a) /\ IsCode(b) => IsCode(a \o b)
  BY RunConcat

FourIn(p, a, b, d, e, q) == p \o a \o b \o d \o e \o q = p \o (a \o b \o d \o e) \o q

LEMMA FourInside ==
    ASSUME NEW p, NEW a, NEW b, NEW d, NEW e, NEW q, IsCode(p), IsCode(a), IsCode(b), IsCode(d), IsCode(e)
    PROVE  FourIn(p, a, b, d, e, q)
  <1>1. PICK x : x = a \o b /\ IsCode(x)
    BY ConcatIsCode
  <1>2. PICK y : y = x \o d /\ IsCode(y)
    BY <1>1, ConcatIsCode
  <1>3. Associates(p, a, b) /\ Associates(p, x, d) /\ Associates(p, y, e)
    BY <1>1, <1>2, CodeAssociative
  <1>4. (p \o a) \o b = p \o x /\ (p \o x) \o d = p \o y /\ (p \o y) \o e = p \o (y \o e)
    BY <1>1, <1>2, <1>3, Zenon DEF Associates
  <1>5. p \o a \o b \o d \o e \o q = p \o (y \o e) \o q
    BY <1>4, Zenon
  <1>6. y \o e = a \o b \o d \o e
    BY <1>1, <1>2, Zenon
  <1> QED
    BY <1>5, <1>6, Zenon DEF FourIn

LEMMA BracketVerdict ==
    ASSUME NEW i, NEW n \in Names, NEW a, NEW S, Coded(a, S, Cells), Compile(i) = Bracket(R(n), a), Zero \in S <=> Stops(i)
    PROVE  Verdict(i)
  <1>1. Sound(Bracket(R(n), a), S, Cells)
    BY BracketSound
  <1> QED
    BY <1>1, VerdictBy

(* The translations of division and multiplication keep rdx on the stack. *)
DivInside(i) ==
    make_mov_rr(i.c, RAX, translate_reg(i.n))
      \o (IF i.op = "SDIV" THEN <<[op |-> "cdq", c |-> "w"]>> ELSE <<I("xor", "w", RDX, RDX)>>)
      \o <<I(IF i.op = "SDIV" THEN "idiv" ELSE "div", i.c, RAX, translate_reg(i.m.r))>> \o make_mov_rr(i.c, translate_reg(i.d), RAX)

MaddInside(i) ==
    (make_mov_rr(i.c, RAX, translate_reg(i.n)) \o (<<I("mul", i.c, RAX, translate_reg(i.m.r))>> \o <<I("add", i.c, RAX, translate_reg(i.m.r))>>))
      \o make_mov_rr(i.c, translate_reg(i.d), RAX)

Bracketed(i, g) == Compile(i) = Bracket(R("rdx"), g) /\ \E S : Coded(g, S, Cells) /\ (Zero \in S <=> Stops(i))

LEMMA BracketedVerdict ==
    ASSUME NEW i, NEW g, Bracketed(i, g)
    PROVE  Verdict(i)
  <1>1. "rdx" \in Names
    BY DEF Names, Direct
  <1> QED
    BY <1>1, BracketVerdict DEF Bracketed

LEMMA DivBracket ==
    ASSUME NEW i \in Operands3({"UDIV", "SDIV"}, Gprs, Gprs, Register)
    PROVE  Bracketed(i, DivInside(i))
  <1> DEFINE c == i.c
             d == translate_reg(i.d)
             n == translate_reg(i.n)
             m == translate_reg(i.m.r)
             op == IF i.op = "SDIV" THEN "idiv" ELSE "div"
             extend == IF i.op = "SDIV" THEN <<[op |-> "cdq", c |-> "w"]>> ELSE <<I("xor", "w", RDX, RDX)>>
             push == <<I("push", "x", RSP, RDX)>>
             pop == <<I("pop", "x", RDX, RSP)>>
  <1>1. /\ i.op \in {"UDIV", "SDIV"} /\ DOMAIN i = {"op", "c", "d", "n", "m"}
        /\ i.d \in Gprs /\ i.n \in Gprs /\ c \in Widths /\ i.m.k = "reg" /\ i.m.r \in Gprs
    BY DEF Register, Operands3
  <1>2. Compile(i) = push \o make_mov_rr(c, RAX, n) \o extend \o <<I(op, c, RAX, m)>> \o make_mov_rr(c, d, RAX) \o pop
    <2>1. Compile(i) = translate_div(i)
      BY <1>1 DEF Compile, MemoryOps, Loads, Stores, Branches, compile_arith
    <2> QED
      BY <2>1 DEF translate_div
  <1>3. IsHome(d, Cells) /\ IsHome(n, Cells) /\ IsHome(m, Cells) /\ c \in Bytewide
    BY <1>1, HomeOf, WidthsAre
  <1>4. ~HasNoForm(i) /\ XzrPanics(i) = {"d", "m"}
    BY <1>1 DEF XzrPanics, Is, HasNoForm
  <1>5. Zero \in {d, m} <=> Stops(i)
    BY <1>1, <1>4, StopsFor, XzrOperand, HomeOf
  <1>6. op \in {"mul", "div", "idiv"}
    OBVIOUS
  <1>7. Coded(extend, {}, Cells)
    <2>1. CASE i.op = "SDIV"
      <3> DEFINE x == [op |-> "cdq", c |-> "w"]
      <3>1. x.op # "refuse" /\ x.op # "panic" /\ DOMAIN x = {"op", "c"} /\ IsPlain(x, Cells)
        BY DEF IsPlain
      <3> HIDE DEF x
      <3>2. ~Unencodable(x)
        BY <3>1 DEF Unencodable
      <3>3. Coded(<<x>>, {}, Cells)
        BY <3>1, <3>2, OneCoded
      <3> QED
        BY <2>1, <3>3 DEF x
    <2>2. CASE i.op # "SDIV"
      <3>1. IsTo(RDX, Cells) /\ IsFrom(RDX, Cells) /\ RDX # Zero
        BY RaxRdx, TargetIsSource, NotZero DEF IsTo, IsFrom, RDX
      <3>2. "xor" \in IsTwo
        BY DEF IsTwo, AluOps
      <3>3. PICK r : r = RDX /\ IsTo(r, Cells) /\ IsFrom(r, Cells) /\ r # Zero
        BY <3>1
      <3>4. \A w, o : w \in Bytewide /\ o \in IsTwo => Coded(<<I(o, w, r, r)>>, {r, r}, Cells)
        BY <3>3, TwoCode
      <3>5. Coded(<<I("xor", "w", r, r)>>, {r, r}, Cells)
        BY <3>2, <3>4, WidthsAre
      <3>6. Coded(<<I("xor", "w", r, r)>>, {}, Cells)
        BY <3>3, <3>5, CodedOperands
      <3> QED
        BY <2>2, <3>3, <3>6
    <2> QED
      BY <2>1, <2>2
  <1> HIDE DEF c, d, n, m, op, extend, push, pop
  <1>8. PICK r : r = RAX /\ IsHome(r, Cells) /\ r # Zero
    BY RaxHome
  <1>9. PICK a : a = make_mov_rr(c, r, n) /\ Coded(a, {r}, Cells)
    BY <1>3, <1>8, MovCode
  <1>10. PICK e : e = <<I(op, c, RAX, m)>> /\ Coded(e, {m}, Cells)
    BY <1>3, <1>6, DivideCode
  <1>11. PICK f : f = make_mov_rr(c, d, r) /\ Coded(f, {d}, Cells)
    BY <1>3, <1>8, MovCode
  <1>12. Coded(a \o extend, {r} \cup {}, Cells)
    BY <1>7, <1>9, CodedConcat
  <1>13. Coded((a \o extend) \o e, ({r} \cup {}) \cup {m}, Cells)
    BY <1>10, <1>12, CodedConcat
  <1>14. PICK g : g = a \o extend \o e \o f /\ Coded(g, (({r} \cup {}) \cup {m}) \cup {d}, Cells)
    BY <1>11, <1>13, CodedConcat
  <1>15. Zero \in (({r} \cup {}) \cup {m}) \cup {d} <=> Stops(i)
    BY <1>5, <1>8
  <1>16. IsCode(push) /\ IsCode(a) /\ IsCode(extend) /\ IsCode(e) /\ IsCode(f)
    BY <1>7, <1>9, <1>10, <1>11, CodedIsCode, RunShort DEF push
  <1>17. Compile(i) = push \o (a \o extend \o e \o f) \o pop
    <2>1. Compile(i) = push \o a \o extend \o e \o f \o pop
      BY <1>2, <1>8, <1>9, <1>10, <1>11
    <2>2. push \o a \o extend \o e \o f \o pop = push \o (a \o extend \o e \o f) \o pop
      <3>1. FourIn(push, a, extend, e, f, pop)
        BY <1>16, FourInside
      <3> QED
        BY <3>1 DEF FourIn
    <2> QED
      BY <2>1, <2>2, Zenon
  <1>18. Compile(i) = Bracket(R("rdx"), g)
    BY <1>14, <1>17 DEF Bracket, push, pop, RDX
  <1>19. g = DivInside(i)
    BY <1>8, <1>9, <1>10, <1>11, <1>14 DEF DivInside, c, d, n, m, op, extend
  <1> QED
    BY <1>14, <1>15, <1>18, <1>19 DEF Bracketed

LEMMA DivVerdict ==
    ASSUME NEW i \in Operands3({"UDIV", "SDIV"}, Gprs, Gprs, Register)
    PROVE  Verdict(i)
  BY DivBracket, BracketedVerdict

LEMMA MaddBracket ==
    ASSUME NEW i \in [op : {"MADD"}, c : Widths, d : Gprs, n : Gprs, m : Register, a : Gprs]
    PROVE  Bracketed(i, MaddInside(i))
  <1> DEFINE c == i.c
             d == translate_reg(i.d)
             n == translate_reg(i.n)
             m == translate_reg(i.m.r)
             push == <<I("push", "x", RSP, RDX)>>
             pop == <<I("pop", "x", RDX, RSP)>>
  <1>1. /\ i.op = "MADD" /\ DOMAIN i = {"op", "c", "d", "n", "m", "a"}
        /\ i.d \in Gprs /\ i.n \in Gprs /\ c \in Widths /\ i.m.k = "reg" /\ i.m.r \in Gprs
    BY DEF Register
  <1>2. Compile(i) = push \o make_mov_rr(c, RAX, n) \o <<I("mul", c, RAX, m), I("add", c, RAX, m)>> \o make_mov_rr(c, d, RAX) \o pop
    <2>1. Compile(i) = translate_madd(i)
      BY <1>1 DEF Compile, MemoryOps, Loads, Stores, Branches, compile_arith
    <2> QED
      BY <2>1 DEF translate_madd
  <1>3. IsHome(d, Cells) /\ IsHome(n, Cells) /\ IsHome(m, Cells) /\ IsFrom(m, Cells) /\ c \in Bytewide
    BY <1>1, HomeOf, WidthsAre, HomeOperand
  <1>4. ~HasNoForm(i) /\ XzrPanics(i) = {"d", "m"}
    BY <1>1 DEF XzrPanics, Is, HasNoForm
  <1>5. Zero \in {d, m} <=> Stops(i)
    BY <1>1, <1>4, StopsFor, XzrOperand, HomeOf
  <1> HIDE DEF c, d, n, m, push, pop
  <1>6. PICK r : r = RAX /\ IsHome(r, Cells) /\ IsTo(r, Cells) /\ r # Zero
    BY RaxHome
  <1>7. PICK a : a = make_mov_rr(c, r, n) /\ Coded(a, {r}, Cells)
    BY <1>3, <1>6, MovCode
  <1>8. PICK b : b = <<I("mul", c, RAX, m)>> /\ Coded(b, {m}, Cells)
    BY <1>3, DivideCode
  <1>9. PICK e : e = <<I("add", c, r, m)>> /\ Coded(e, {r, m}, Cells)
    <2>1. "add" \in IsTwo
      BY DEF IsTwo, AluOps
    <2>2. \A o : o \in IsTwo => Coded(<<I(o, c, r, m)>>, {r, m}, Cells)
      BY <1>3, <1>6, TwoCode
    <2> QED
      BY <2>1, <2>2
  <1>10. PICK f : f = make_mov_rr(c, d, r) /\ Coded(f, {d}, Cells)
    BY <1>3, <1>6, MovCode
  <1>11. PICK h : h = b \o e /\ Coded(h, {m} \cup {r, m}, Cells)
    BY <1>8, <1>9, CodedConcat
  <1>13. Coded(a \o h, {r} \cup ({m} \cup {r, m}), Cells)
    BY <1>7, <1>11, CodedConcat
  <1>14. PICK g : g = (a \o h) \o f /\ Coded(g, ({r} \cup ({m} \cup {r, m})) \cup {d}, Cells)
    BY <1>10, <1>13, CodedConcat
  <1>15. Zero \in ({r} \cup ({m} \cup {r, m})) \cup {d} <=> Stops(i)
    BY <1>5, <1>6
  <1>16. IsCode(push) /\ IsCode(a) /\ IsCode(h) /\ IsCode(f) /\ IsCode(a \o h)
    BY <1>7, <1>10, <1>11, <1>13, CodedIsCode, RunShort DEF push
  <1>17. Compile(i) = push \o ((a \o h) \o f) \o pop
    <2>1. Compile(i) = push \o a \o h \o f \o pop
      BY <1>2, <1>6, <1>7, <1>8, <1>9, <1>10, <1>11, TwoParts
    <2>2. Associates(push, a, h) /\ Associates(push, a \o h, f)
      BY <1>16, CodeAssociative
    <2>3. push \o a \o h = push \o (a \o h) /\ push \o (a \o h) \o f = push \o ((a \o h) \o f)
      BY <2>2, Zenon DEF Associates
    <2> QED
      BY <2>1, <2>3, Zenon
  <1>18. Compile(i) = Bracket(R("rdx"), g)
    BY <1>14, <1>17 DEF Bracket, push, pop, RDX
  <1>19. g = MaddInside(i)
    BY <1>6, <1>7, <1>8, <1>9, <1>10, <1>11, <1>14 DEF MaddInside, c, d, n, m
  <1> QED
    BY <1>14, <1>15, <1>18, <1>19 DEF Bracketed

LEMMA MaddVerdict ==
    ASSUME NEW i \in [op : {"MADD"}, c : Widths, d : Gprs, n : Gprs, m : Register, a : Gprs]
    PROVE  Verdict(i)
  BY MaddBracket, BracketedVerdict

------------------------------------------------------------------------------
LEMMA CmpCode ==
    ASSUME NEW c \in Bytewide, NEW a, NEW b, IsHome(a, Cells), IsHome(b, Cells)
    PROVE  Coded(make_cmp_rr(c, a, b), {a, b}, Cells)
  <1>1. "cmp" \in IsTwo
    BY DEF IsTwo
  <1>2. Coded(make_rr_impl("cmp", c, a, b, TRUE, FALSE), {a, b}, Cells)
    BY <1>1, RrCode
  <1> QED
    BY <1>2 DEF make_cmp_rr

LEMMA CompareVerdict ==
    ASSUME NEW i,
           \/ i \in Operands2({"CMP", "CMN"}, Gprs, Register \cup Shifted(Shifts \cup Extensions))
           \/ i \in Operands2({"CMP", "CMN"}, Addresses, [k : {"imm"}, v : Short, lsl : Nat])
    PROVE  Verdict(i)
  <1> DEFINE c == i.c
             n == translate_reg(i.n)
             m == translate_reg(i.m.r)
  <1>1. /\ i.op \in {"CMP", "CMN"} /\ DOMAIN i = {"op", "c", "n", "m"} /\ i.n \in Gprs \cup Addresses /\ c \in Widths
        /\ \/ i.m.k = "reg" /\ i.m.r \in Gprs
           \/ i.m.k = "shift"
           \/ i.m.k = "imm" /\ i.m.v \in Short /\ i.n \in Addresses
    BY DEF Operands2, Register, Shifted
  <1>2. Compile(i) = translate_cmp_cmn(i)
    BY <1>1 DEF Compile, MemoryOps, Loads, Stores, Branches, compile_arith
  <1>3. IsHome(n, Cells) /\ c \in Bytewide /\ {"cmp", "add"} \subseteq IsTwo
    BY <1>1, HomeOf, WidthsAre DEF IsTwo, AluOps
  <1>4. XzrPanics(i) = IF i.op = "CMP" THEN {"n", "m"} ELSE {"m"}
    BY <1>1 DEF XzrPanics, Is
  <1>5. PICK r : r = RAX /\ IsHome(r, Cells) /\ IsTo(r, Cells) /\ r # Zero
    BY RaxHome
  <1>6. CASE i.m.k = "reg"
    <2>1. Compile(i) = IF i.op = "CMP" THEN make_cmp_rr(c, n, m) ELSE make_mov_rr(c, RAX, n) \o make_rr("add", c, RAX, m)
      BY <1>2, <1>6 DEF translate_cmp_cmn
    <2>2. IsHome(m, Cells) /\ ~HasNoForm(i)
      BY <1>1, <1>6, HomeOf DEF HasNoForm, Is
    <2>3. Zero \in (IF i.op = "CMP" THEN {n, m} ELSE {m}) <=> Stops(i)
      BY <1>1, <1>4, <1>6, <2>2, StopsFor, XzrOperand, HomeOf
    <2> HIDE DEF c, n, m
    <2>4. Coded(make_cmp_rr(c, n, m), {n, m}, Cells)
      BY <1>3, <2>2, CmpCode
    <2>5. PICK a : a = make_mov_rr(c, r, n) /\ Coded(a, {r}, Cells)
      BY <1>3, <1>5, MovCode
    <2>6. PICK b : b = make_rr("add", c, r, m) /\ Coded(b, {r, m}, Cells)
      BY <1>3, <1>5, <2>2, MakeRrCode
    <2>7. Coded(a \o b, {r} \cup {r, m}, Cells)
      BY <2>5, <2>6, CodedConcat
    <2>8. CASE i.op = "CMP"
      BY <2>1, <2>3, <2>4, <2>8, CodedVerdict
    <2>9. CASE i.op # "CMP"
      <3>1. Zero \in {r} \cup {r, m} <=> Stops(i)
        BY <1>5, <2>3, <2>9
      <3>2. Compile(i) = a \o b
        BY <1>5, <2>1, <2>5, <2>6, <2>9
      <3> QED
        BY <2>7, <3>1, <3>2, CodedVerdict
    <2> QED
      BY <2>8, <2>9
  <1>7. CASE i.m.k = "shift"
    <2>1. Compile(i) = panic
      BY <1>2, <1>7 DEF translate_cmp_cmn
    <2>2. Stops(i)
      BY <1>1, <1>7 DEF Stops, HasNoForm, Is
    <2> QED
      BY <2>1, <2>2, PanicVerdict
  <1>8. CASE i.m.k = "imm"
    <2>1. Compile(i) = IF i.op = "CMP" THEN make_ri("cmp", c, n, i.m.v) ELSE make_mov_rr(c, RAX, n) \o make_ri("add", c, RAX, i.m.v)
      BY <1>2, <1>8 DEF translate_cmp_cmn
    <2>2. i.m.v \in Int /\ ~HasNoForm(i) /\ i.n # "xzr"
      <3>1. i.m.v \in Int
        BY <1>1, <1>8 DEF Short
      <3> QED
        BY <1>1, <1>8, <3>1, GuestAssumption DEF HasNoForm, Is, Addresses
    <2>3. n # Zero
      BY <1>1, <2>2, HomeOf
    <2>4. ~Stops(i)
      BY <1>1, <1>4, <1>8, <2>2, StopsFor, XzrOperand
    <2> HIDE DEF c, n
    <2>5. Coded(make_ri("cmp", c, n, i.m.v), {n}, Cells)
      BY <1>3, <2>2, RiCode
    <2>6. PICK a : a = make_mov_rr(c, r, n) /\ Coded(a, {r}, Cells)
      BY <1>3, <1>5, MovCode
    <2>7. PICK b : b = make_ri("add", c, r, i.m.v) /\ Coded(b, {r}, Cells)
      BY <1>3, <1>5, <2>2, RiCode
    <2>8. Coded(a \o b, {r} \cup {r}, Cells)
      BY <2>6, <2>7, CodedConcat
    <2>9. CASE i.op = "CMP"
      <3>1. Zero \in {n} <=> Stops(i)
        BY <2>3, <2>4
      <3> QED
        BY <2>1, <2>5, <2>9, <3>1, CodedVerdict
    <2>10. CASE i.op # "CMP"
      <3>1. Zero \in {r} \cup {r} <=> Stops(i)
        BY <1>5, <2>4
      <3>2. Compile(i) = a \o b
        BY <1>5, <2>1, <2>6, <2>7, <2>10
      <3> QED
        BY <2>8, <3>1, <3>2, CodedVerdict
    <2> QED
      BY <2>9, <2>10
  <1> QED
    BY <1>1, <1>6, <1>7, <1>8

(* The bit that make_setcc puts into al. *)
LEMMA SetccCode ==
    ASSUME NEW cond
    PROVE  \E al : /\ al = (IF cond \in {"AL", "NV"} THEN I("mov", "b", RAX, N(1)) ELSE Iw("setcc", "b", RAX, RAX, jcc_cc[cond]))
                  /\ Coded(<<al>>, {}, Cells)
  <1>1. "mov" \in IsTwo /\ 1 \in Int
    BY DEF IsTwo
  <1>2. Coded(<<I("mov", "b", RAX, N(1))>>, {}, Cells)
    <2>1. \A o, w, n : o \in IsTwo /\ w \in Bytewide /\ n \in Int => Coded(<<I(o, w, RAX, N(n))>>, {}, Cells)
      BY RaxCode
    <2> QED
      BY <1>1, <2>1, WidthsAre
  <1>3. Coded(<<Iw("setcc", "b", RAX, RAX, jcc_cc[cond])>>, {}, Cells)
    <2>1. PICK r : r = RAX /\ IsHome(r, Cells) /\ IsFrom(r, Cells) /\ r # Zero
      BY RaxHome
    <2>2. \A w, x : w \in Bytewide => Coded(<<Iw("setcc", w, r, r, x)>>, {r, r}, Cells)
      BY <2>1, WideCode
    <2>3. Coded(<<Iw("setcc", "b", r, r, jcc_cc[cond])>>, {r, r}, Cells)
      BY <2>2, WidthsAre
    <2> QED
      BY <2>1, <2>3, CodedOperands
  <1> QED
    BY <1>2, <1>3

LEMMA SetVerdict ==
    ASSUME NEW i \in [op : {"CSET"}, c : Widths, d : Gprs, n : {"xzr"}, m : Constant({0}), cond : Conditions]
    PROVE  Verdict(i)
  <1> DEFINE d == translate_reg(i.d)
             bit == IF i.cond \in {"AL", "NV"} THEN I("mov", "b", RAX, N(1)) ELSE Iw("setcc", "b", RAX, RAX, jcc_cc[i.cond])
             move == CASE d.k = "reg"  -> <<Iw("movzx", "w", d, RAX, "b")>>
                       [] d.k = "cell" -> <<Iw("movzx", "w", RAX, RAX, "b"), I("mov", "w", d, RAX)>>
                       [] d.k = "zero" -> panic
  <1>1. i.op = "CSET" /\ DOMAIN i = {"op", "c", "d", "n", "m", "cond"} /\ i.d \in Gprs /\ i.m.k = "imm"
    BY DEF Constant
  <1>2. Compile(i) = <<bit>> \o move
    <2>1. Compile(i) = make_setcc(i.cond, d)
      BY <1>1 DEF Compile, MemoryOps, Loads, Stores, Branches, compile_arith
    <2> QED
      BY <2>1 DEF make_setcc
  <1>3. IsHome(d, Cells) /\ IsTo(d, Cells) /\ d.k \in {"reg", "cell", "zero"} /\ (d.k = "zero" <=> d = Zero)
    BY <1>1, HomeOf, HomeOperand, PlaceKinds
  <1>4. ~HasNoForm(i) /\ XzrPanics(i) = {"d"}
    BY <1>1 DEF XzrPanics, Is, HasNoForm
  <1>5. Zero \in {d} <=> Stops(i)
    BY <1>1, <1>4, StopsFor, XzrOperand, HomeOf
  <1>6. PICK al : al = bit /\ Coded(<<al>>, {}, Cells)
    BY SetccCode
  <1>7. Sound(<<al>>, {}, Cells)
    BY <1>6, CodedSound
  <1>8. Sound(move, {d}, Cells)
    <2>1. PICK r : r = RAX /\ IsHome(r, Cells) /\ IsFrom(r, Cells) /\ r # Zero
      BY RaxHome
    <2>2. \A w, x, t : w \in Bytewide /\ x \in Bytewide /\ IsHome(t, Cells) => Coded(<<Iw("movzx", w, t, r, x)>>, {t, r}, Cells)
      BY <2>1, WideCode
    <2>3. CASE d.k = "reg"
      <3>1. move = <<Iw("movzx", "w", d, RAX, "b")>>
        BY <2>3
      <3> HIDE DEF d, move
      <3>2. Coded(<<Iw("movzx", "w", d, r, "b")>>, {d, r}, Cells)
        BY <1>3, <2>2, WidthsAre
      <3>3. Coded(<<Iw("movzx", "w", d, r, "b")>>, {d}, Cells)
        BY <2>1, <3>2, CodedOperands
      <3> QED
        BY <2>1, <3>1, <3>3, CodedSound
    <2>4. CASE d.k = "cell"
      <3>1. move = <<Iw("movzx", "w", RAX, RAX, "b")>> \o <<I("mov", "w", d, RAX)>>
        BY <2>4, TwoParts
      <3> HIDE DEF d, move
      <3>2. Coded(<<Iw("movzx", "w", r, r, "b")>>, {r, r}, Cells)
        BY <2>1, <2>2, WidthsAre
      <3>3. Coded(<<I("mov", "w", d, r)>>, {d, r}, Cells)
        <4>1. \A o, w : o \in IsTwo /\ w \in Bytewide => Coded(<<I(o, w, d, r)>>, {d, r}, Cells)
          BY <1>3, <2>1, TwoCode
        <4>2. "mov" \in IsTwo
          BY DEF IsTwo
        <4> QED
          BY <4>1, <4>2, WidthsAre
      <3>4. Coded(<<Iw("movzx", "w", r, r, "b")>> \o <<I("mov", "w", d, r)>>, {r, r} \cup {d, r}, Cells)
        BY <3>2, <3>3, CodedConcat
      <3>5. Zero \in {r, r} \cup {d, r} <=> Zero \in {d}
        BY <2>1
      <3>6. Coded(<<Iw("movzx", "w", r, r, "b")>> \o <<I("mov", "w", d, r)>>, {d}, Cells)
        BY <3>4, <3>5, CodedOperands
      <3> QED
        BY <2>1, <3>1, <3>6, CodedSound
    <2>5. CASE d.k = "zero"
      <3>1. move = panic /\ Zero \in {d}
        BY <1>3, <2>5
      <3> HIDE DEF d, move
      <3> QED
        BY <3>1, PanicSound, SoundOperands
    <2> QED
      BY <1>3, <2>3, <2>4, <2>5
  <1> HIDE DEF d, bit, move
  <1>9. Sound(<<al>> \o move, {} \cup {d}, Cells)
    BY <1>7, <1>8, SoundConcat
  <1>10. Zero \in {} \cup {d} <=> Stops(i)
    BY <1>5
  <1>11. Compile(i) = <<al>> \o move
    BY <1>2, <1>6
  <1> QED
    BY <1>9, <1>10, <1>11, VerdictBy

------------------------------------------------------------------------------
(* The jump of a branch. *)
LEMMA RunBranch ==
    ASSUME NEW G, NEW s \in State(G), ~s.fault, ~s.taken, s.skip = 0, NEW cond
    PROVE  Run(s, make_branch_to_label(cond))
             = IF Holds(jcc_cc[inverse_condition[cond]], s.flags) THEN s ELSE [s EXCEPT !.taken = TRUE]
  <1> DEFINE b == <<[op |-> "leave"]>>
             cc == jcc_cc[inverse_condition[cond]]
  <1>1. Len(b) = 1
    OBVIOUS
  <1>2. IsCode(b)
    BY RunShort
  <1>3. Run(s, b) = [s EXCEPT !.taken = TRUE]
    <2>1. Run(s, b) = Effect(s, [op |-> "leave"])
      BY RunOne
    <2>2. Effect(s, [op |-> "leave"]) = [s EXCEPT !.taken = TRUE]
      BY DEF Effect, AluOps
    <2> QED
      BY <2>1, <2>2
  <1>4. make_branch_to_label(cond) = <<Iw("skip", "x", RAX, N(Len(b)), cc)>> \o b
    BY <1>1 DEF make_branch_to_label, make_jcc
  <1> HIDE DEF b, cc
  <1>5. Run(s, <<Iw("skip", "x", RAX, N(Len(b)), cc)>> \o b) = IF Holds(cc, s.flags) THEN s ELSE Run(s, b)
    BY <1>2, RunJump
  <1> QED
    BY <1>3, <1>4, <1>5 DEF cc

LEMMA BranchSound == \A cond : Sound(make_branch_to_label(cond), {}, Cells)
  <1> SUFFICES ASSUME NEW cond PROVE Sound(make_branch_to_label(cond), {}, Cells)
    OBVIOUS
  <1>1. Encodes(make_branch_to_label(cond), {} \cup {})
    <2>1. make_branch_to_label(cond) = <<Iw("skip", "x", RAX, N(1), jcc_cc[inverse_condition[cond]])>> \o <<[op |-> "leave"]>>
      BY DEF make_branch_to_label, make_jcc
    <2> QED
      BY <2>1, JumpEncodes, EncodesConcat
  <1>2. IsCode(make_branch_to_label(cond))
    BY <1>1 DEF Encodes, NoRefusal
  <1>3. ASSUME NEW s, Active(s, Cells) PROVE Rest(Run(s, make_branch_to_label(cond)), Cells)
    <2>1. s \in State(Cells) /\ ~s.fault /\ ~s.taken /\ s.skip = 0 /\ s.stack = <<>>
      BY <1>3 DEF Active, Rest
    <2>2. Run(s, make_branch_to_label(cond)) = IF Holds(jcc_cc[inverse_condition[cond]], s.flags) THEN s ELSE [s EXCEPT !.taken = TRUE]
      BY <2>1, RunBranch
    <2>3. Rest([s EXCEPT !.taken = TRUE], Cells)
      BY <2>1 DEF Rest, State
    <2>4. Rest(s, Cells)
      BY <1>3 DEF Active
    <2> QED
      BY <2>2, <2>3, <2>4
  <1>4. Settles(make_branch_to_label(cond), Cells)
    BY <1>2, <1>3, SettlesActive
  <1>5. Encodes(make_branch_to_label(cond), {})
    BY <1>1
  <1> QED
    BY <1>4, <1>5 DEF Sound

LEMMA BranchVerdict ==
    ASSUME NEW i,
           \/ i \in [op : {"B.cond"}, c : {"x"}, n : {"xzr"}, m : Constant({0}), cond : Conditions]
           \/ i \in Operands2({"CBZ", "CBNZ"}, Gprs, Constant({0}))
           \/ i \in [op : {"TBZ", "TBNZ"}, c : Widths, n : Gprs, m : Constant({0}), bit : 0 .. Bits[i.c] - 1]
    PROVE  Verdict(i)
  <1> DEFINE c == i.c
             n == translate_reg(i.n)
             cond == CASE i.op = "B.cond" -> i.cond [] i.op = "CBZ" -> "EQ" [] i.op = "CBNZ" -> "NE" [] i.op = "TBZ" -> "CC" [] i.op = "TBNZ" -> "CS"
             test == CASE i.op = "B.cond"           -> <<>>
                       [] i.op \in {"CBZ", "CBNZ"}  -> <<I("cmp", c, n, N(0))>>
                       [] i.op \in {"TBZ", "TBNZ"}  -> <<I("bt", c, n, N(i.bit))>>
  <1>1. /\ i.op \in {"B.cond", "CBZ", "CBNZ", "TBZ", "TBNZ"} /\ i.m.k = "imm" /\ c \in Widths /\ "n" \in DOMAIN i
        /\ i.op # "B.cond" => i.n \in Gprs
        /\ i.op \in {"TBZ", "TBNZ"} => i.bit \in 0 .. Bits[c] - 1
    BY DEF Operands2, Constant, Widths
  <1>2. Compile(i) = compile_branch(i)
    BY <1>1 DEF Compile, MemoryOps, Loads, Stores, Branches
  <1>3. c \in Bytewide
    BY <1>1, WidthsAre
  <1>4. ~HasNoForm(i) /\ XzrPanics(i) = IF i.op = "B.cond" THEN {} ELSE {"n"}
    BY <1>1 DEF XzrPanics, Is, HasNoForm
  <1>5. CASE i.op = "B.cond"
    <2>1. Compile(i) = make_branch_to_label(i.cond)
      BY <1>2, <1>5 DEF compile_branch
    <2>2. ~Stops(i)
      BY <1>4, <1>5, StopsFor
    <2>3. Sound(Compile(i), {}, Cells)
      BY <2>1, BranchSound
    <2> QED
      BY <2>2, <2>3, VerdictBy
  <1>6. CASE i.op # "B.cond"
    <2>1. Compile(i) = test \o make_branch_to_label(cond)
      <3>1. CASE i.op \in {"CBZ", "CBNZ"}
        BY <1>2, <3>1 DEF compile_branch, handle_cbz_cbnz
      <3>2. CASE i.op \in {"TBZ", "TBNZ"}
        BY <1>2, <3>2 DEF compile_branch, handle_tbz_tbnz
      <3> QED
        BY <1>1, <1>6, <3>1, <3>2
    <2>2. IsHome(n, Cells) /\ IsTo(n, Cells)
      BY <1>1, <1>6, HomeOf, HomeOperand
    <2>3. Zero \in {n} <=> Stops(i)
      BY <1>1, <1>4, <1>6, StopsFor, XzrOperand, HomeOf
    <2>4. Coded(test, {n}, Cells)
      <3>1. CASE i.op \in {"CBZ", "CBNZ"}
        <4>1. \A o, z : o \in IsTwo /\ z \in Int => Coded(<<I(o, c, n, N(z))>>, {n}, Cells)
          <5> HIDE DEF c, n
          <5> QED
            BY <1>3, <2>2, NumberCode
        <4>2. "cmp" \in IsTwo /\ 0 \in Int
          BY DEF IsTwo
        <4>3. test = <<I("cmp", c, n, N(0))>>
          BY <3>1
        <4> HIDE DEF c, n, test
        <4> QED
          BY <4>1, <4>2, <4>3
      <3>2. CASE i.op \in {"TBZ", "TBNZ"}
        <4>1. i.bit \in Nat
          <5>1. Bits[c] \in Nat
            BY <1>3, WidthFacts
          <5> QED
            BY <1>1, <3>2, <5>1
        <4>2. \A o : o \in {"bt", "shl", "shr", "sar"} => Coded(<<I(o, c, n, N(i.bit))>>, {n}, Cells)
          <5> HIDE DEF c, n
          <5> QED
            BY <1>3, <2>2, <4>1, ConstCode
        <4>3. test = <<I("bt", c, n, N(i.bit))>>
          BY <3>2
        <4> HIDE DEF c, n, test
        <4> QED
          BY <4>2, <4>3
      <3> QED
        BY <1>1, <1>6, <3>1, <3>2
    <2> HIDE DEF n, test, cond
    <2>5. Sound(test, {n}, Cells) /\ Sound(make_branch_to_label(cond), {}, Cells)
      BY <2>4, CodedSound, BranchSound
    <2>6. Sound(test \o make_branch_to_label(cond), {n} \cup {}, Cells)
      BY <2>5, SoundConcat
    <2>7. Zero \in {n} \cup {} <=> Stops(i)
      BY <2>3
    <2> QED
      BY <2>1, <2>6, <2>7, VerdictBy
  <1> QED
    BY <1>5, <1>6

(* One sequence or the other. *)
Choose2(cc, x, y) ==
    <<Iw("skip", "x", RAX, N(Len(x) + 1), cc)>> \o x \o <<Iw("skip", "x", RAX, N(Len(y)), "always")>> \o y

LEMMA RunChoice ==
    ASSUME NEW s, Active(s, Cells), NEW x, IsPlainCode(x, Cells), NEW y, IsCode(y), NEW cc
    PROVE  Run(s, Choose2(cc, x, y)) = (IF Holds(cc, s.flags) THEN Run(s, y) ELSE Run(s, x)) /\ IsCode(Choose2(cc, x, y))
  <1> DEFINE over == <<Iw("skip", "x", RAX, N(Len(y)), "always")>>
             first == <<Iw("skip", "x", RAX, N(Len(x) + 1), cc)>>
             t == Run(s, x)
  <1>1. IsCode(x) /\ IsCode(over) /\ IsCode(first) /\ Len(x) \in Nat /\ Len(over) = 1
    BY RunShort, CodeLength DEF IsPlainCode
  <1>2. Len(x \o over) = Len(x) + 1
    <2>1. PICK S, T : x \in Seq(S) /\ over \in Seq(T)
      BY <1>1 DEF IsCode
    <2>2. x \in Seq(S \cup T) /\ over \in Seq(S \cup T)
      BY <2>1
    <2> HIDE DEF over
    <2> QED
      BY <1>1, <2>2, ConcatProperties
  <1>3. s \in State(Cells) /\ ~s.fault /\ ~s.taken /\ s.skip = 0 /\ s.stack = <<>>
    BY DEF Active, Rest
  <1>4. PICK b : b = x \o over /\ IsCode(b) /\ Len(b) = Len(x) + 1
    <2> HIDE DEF over
    <2> QED
      BY <1>1, <1>2, RunConcat
  <1>5. first = <<Iw("skip", "x", RAX, N(Len(b)), cc)>>
    BY <1>4
  <1>6. Choose2(cc, x, y) = first \o b \o y
    <2>1. Choose2(cc, x, y) = first \o x \o over \o y
      BY DEF Choose2
    <2> HIDE DEF first, over
    <2>2. Associates(first, x, over)
      BY <1>1, CodeAssociative
    <2>3. first \o x \o over = first \o b
      BY <1>4, <2>2, Zenon DEF Associates
    <2> QED
      BY <2>1, <2>3, Zenon
  <1>7. Run(s, first \o b) = IF Holds(cc, s.flags) THEN s ELSE Run(s, b)
    <2> HIDE DEF first
    <2> QED
      BY <1>3, <1>4, <1>5, RunJump
  <1>8. Run(t, over \o y) = t
    <2>1. t \in State(Cells) /\ t.skip = 0
      BY <1>3, RunPlain DEF PlainStep
    <2>2. CASE t.fault \/ t.taken
      <3>1. IsCode(over \o y)
        <4> HIDE DEF over
        <4> QED
          BY <1>1, RunConcat
      <3> HIDE DEF over, t
      <3> QED
        BY <2>2, <3>1, RunStopped
    <2>3. CASE ~t.fault /\ ~t.taken
      <3> HIDE DEF t
      <3>1. Run(t, over \o y) = IF Holds("always", t.flags) THEN t ELSE Run(t, y)
        BY <2>1, <2>3, RunJump
      <3>2. Holds("always", t.flags)
        BY DEF Holds
      <3> QED
        BY <3>1, <3>2
    <2> QED
      BY <2>2, <2>3
  <1>9. Run(Run(s, b), y) = t
    <2> HIDE DEF over
    <2>1. Run(s, b) = Run(t, over)
      BY <1>1, <1>4, RunConcat
    <2>2. Run(t, over \o y) = Run(Run(t, over), y)
      BY <1>1, RunConcat
    <2> QED
      BY <1>8, <2>1, <2>2
  <1> HIDE DEF over, first, t
  <1>10. IsCode(first \o b)
    BY <1>1, <1>4, RunConcat
  <1>11. Run(s, first \o b \o y) = Run(Run(s, first \o b), y) /\ IsCode(first \o b \o y)
    BY <1>10, RunConcat
  <1>12. CASE Holds(cc, s.flags)
    BY <1>6, <1>7, <1>11, <1>12
  <1>13. CASE ~Holds(cc, s.flags)
    BY <1>6, <1>7, <1>9, <1>11, <1>13 DEF t
  <1> QED
    BY <1>12, <1>13

LEMMA SetFlagsCode ==
    ASSUME NEW nzcv \in ArmFlags
    PROVE  Coded(set_flags(nzcv), {}, Cells)
  <1>1. CASE nzcv = [n |-> 0, z |-> 0, c |-> 0, v |-> 0]
    <2>1. \A o, w, n : o \in IsTwo /\ w \in Bytewide /\ n \in Int => Coded(<<I(o, w, RAX, N(n))>>, {}, Cells)
      BY RaxCode
    <2>2. "mov" \in IsTwo /\ "add" \in IsTwo /\ 0 \in Int /\ 1 \in Int
      BY DEF IsTwo, AluOps
    <2>3. PICK a, b : /\ a = <<I("mov", "w", RAX, N(0))>> /\ Coded(a, {}, Cells)
                      /\ b = <<I("add", "w", RAX, N(1))>> /\ Coded(b, {}, Cells)
      BY <2>1, <2>2, WidthsAre
    <2>4. Coded(a \o b, {} \cup {}, Cells)
      BY <2>3, CodedConcat
    <2>5. set_flags(nzcv) = a \o b
      BY <1>1, <2>3, TwoParts DEF set_flags
    <2> QED
      BY <2>4, <2>5
  <1>2. CASE nzcv # [n |-> 0, z |-> 0, c |-> 0, v |-> 0]
    <2> DEFINE x == Iw("popf", "x", RAX, RAX, nzcv)
    <2>1. x.op = "popf" /\ x.to = RAX /\ x.from = RAX /\ x.arg = nzcv /\ DOMAIN x = {"op", "c", "to", "from", "arg"}
      BY DEF Iw
    <2>2. IsPlain(x, Cells)
      <3>1. nzcv \in FlagWords
        BY DEF ArmFlags, FlagWords
      <3>2. x.arg \in FlagWords /\ x = Iw("popf", "x", RAX, RAX, x.arg)
        BY <2>1, <3>1
      <3> HIDE DEF x
      <3> QED
        BY <3>2 DEF IsPlain
    <2> HIDE DEF x
    <2>3. RAX # Zero
      BY RaxHome
    <2>4. ~Unencodable(x)
      BY <2>1, <2>3 DEF Unencodable, Zero
    <2>5. Coded(<<x>>, {}, Cells)
      BY <2>1, <2>2, <2>4, OneCoded
    <2> QED
      BY <1>2, <2>5 DEF set_flags, x
  <1> QED
    BY <1>1, <1>2

LEMMA ChoiceSound ==
    ASSUME NEW x, Coded(x, {}, Cells), NEW y, NEW S, Coded(y, S, Cells), NEW cc
    PROVE  Sound(Choose2(cc, x, y), S, Cells)
  <1> DEFINE over == <<Iw("skip", "x", RAX, N(Len(y)), "always")>>
             first == <<Iw("skip", "x", RAX, N(Len(x) + 1), cc)>>
  <1>1. Encodes(first, {}) /\ Encodes(over, {}) /\ Encodes(x, {}) /\ Encodes(y, S)
    BY JumpEncodes, CodedSound
  <1>2. Choose2(cc, x, y) = first \o x \o over \o y
    BY DEF Choose2
  <1> HIDE DEF over, first
  <1>3. Encodes(first \o x \o over \o y, (({} \cup {}) \cup {}) \cup S)
    BY <1>1, EncodesConcat
  <1>4. Encodes(Choose2(cc, x, y), S)
    BY <1>2, <1>3
  <1>5. ASSUME Zero \notin S PROVE Settles(Choose2(cc, x, y), Cells)
    <2>1. IsPlainCode(x, Cells) /\ IsPlainCode(y, Cells)
      BY <1>5 DEF Coded, Good
    <2>2. Settles(x, Cells) /\ Settles(y, Cells) /\ IsCode(y)
      BY <2>1, PlainSettles DEF IsPlainCode
    <2>3. ASSUME NEW s, Active(s, Cells) PROVE Rest(Run(s, Choose2(cc, x, y)), Cells)
      <3>1. Run(s, Choose2(cc, x, y)) = (IF Holds(cc, s.flags) THEN Run(s, y) ELSE Run(s, x))
        BY <2>1, <2>2, <2>3, RunChoice
      <3>2. Rest(Run(s, x), Cells) /\ Rest(Run(s, y), Cells)
        BY <2>2, <2>3 DEF Settles, Active
      <3> QED
        BY <3>1, <3>2
    <2>4. IsCode(Choose2(cc, x, y))
      BY <1>4 DEF Encodes, NoRefusal
    <2> QED
      BY <2>3, <2>4, SettlesActive
  <1> QED
    BY <1>4, <1>5 DEF Sound

LEMMA ChooseVerdict ==
    ASSUME NEW i \in [op : {"CCMP"}, c : Widths, n : Gprs, m : Register \cup Constant(Short), cond : Conditions, nzcv : ArmFlags]
    PROVE  Verdict(i)
  <1> DEFINE c == i.c
             n == translate_reg(i.n)
             m == translate_reg(i.m.r)
             compare == IF i.m.k = "reg" THEN make_cmp_rr(c, n, m) ELSE make_ri("cmp", c, n, i.m.v)
             S == IF i.m.k = "reg" THEN {n, m} ELSE {n}
  <1>1. /\ i.op = "CCMP" /\ DOMAIN i = {"op", "c", "n", "m", "cond", "nzcv"} /\ i.n \in Gprs /\ c \in Widths /\ i.nzcv \in ArmFlags
        /\ \/ i.m.k = "reg" /\ i.m.r \in Gprs
           \/ i.m.k = "imm" /\ i.m.v \in Short
    BY DEF Register, Constant
  <1>2. Compile(i) = Choose2(jcc_cc[i.cond], set_flags(i.nzcv), compare)
    <2>1. Compile(i) = translate_ccmp(i)
      BY <1>1 DEF Compile, MemoryOps, Loads, Stores, Branches, compile_arith
    <2> QED
      BY <2>1 DEF translate_ccmp, make_jcc, Choose2
  <1>3. IsHome(n, Cells) /\ c \in Bytewide /\ (i.m.k = "reg" => IsHome(m, Cells))
    BY <1>1, HomeOf, WidthsAre
  <1>4. ~HasNoForm(i) /\ XzrPanics(i) = {"n", "m"}
    BY <1>1 DEF XzrPanics, Is, HasNoForm
  <1>5. Zero \in S <=> Stops(i)
    BY <1>1, <1>4, StopsFor, XzrOperand, HomeOf
  <1>6. Coded(compare, S, Cells)
    <2>1. CASE i.m.k = "reg"
      <3>1. compare = make_cmp_rr(c, n, m) /\ S = {n, m}
        BY <2>1
      <3> HIDE DEF c, n, m, compare, S
      <3>2. Coded(make_cmp_rr(c, n, m), {n, m}, Cells)
        BY <1>3, <2>1, CmpCode
      <3> QED
        BY <3>1, <3>2
    <2>2. CASE i.m.k = "imm"
      <3>1. compare = make_ri("cmp", c, n, i.m.v) /\ S = {n}
        BY <2>2
      <3>2. i.m.v \in Int /\ "cmp" \in IsTwo
        BY <1>1, <2>2 DEF Short, IsTwo
      <3> HIDE DEF c, n, compare, S
      <3>3. Coded(make_ri("cmp", c, n, i.m.v), {n}, Cells)
        BY <1>3, <3>2, RiCode
      <3> QED
        BY <3>1, <3>3
    <2> QED
      BY <1>1, <2>1, <2>2
  <1> HIDE DEF compare, S
  <1>7. Sound(Choose2(jcc_cc[i.cond], set_flags(i.nzcv), compare), S, Cells)
    BY <1>1, <1>6, SetFlagsCode, ChoiceSound
  <1> QED
    BY <1>2, <1>5, <1>7, VerdictBy

------------------------------------------------------------------------------
(* Loads and stores: what stands around a transfer. *)
Scratch(m)      == m.k = "ext" \/ is_indirect(translate_reg(m.base))
Borrowed(m, data)   == Scratch(m) /\ \E t \in data : is_indirect(t)
Base(m, c, data)    == IF Borrowed(m, data) THEN get_alt_reg(data, c) ELSE IF Scratch(m) THEN RAX ELSE translate_reg(m.base)
Formed(m, new)  ==
    CASE m.k = "ext" /\ m.by # "none" ->
            load_shifted(new, "x", translate_reg(m.r), "x", m) \o make_rr("add", "x", new, translate_reg(m.base))
      [] m.k = "ext" /\ m.by = "none" -> make_mov_rr("x", new, translate_reg(m.r)) \o make_rr("add", "x", new, translate_reg(m.base))
      [] m.k # "ext" /\ is_indirect(translate_reg(m.base)) -> make_mov_rr("x", new, translate_reg(m.base))
      [] OTHER -> <<>>
Moved(m, new)   == IF m.k = "pre" THEN <<I("add", "x", new, N(m.imm))>> ELSE <<>>
Posted(m, new)  == IF m.k = "post" THEN <<I("add", "x", new, N(m.imm))>> ELSE <<>>
Saved(m, new)   == IF m.k \in {"pre", "post"} /\ translate_reg(m.base).k = "cell"
                     THEN <<I("mov", "x", translate_reg(m.base), new)>> ELSE <<>>
Before(m, new)  == Formed(m, new) \o Moved(m, new)
After(m, new)   == Posted(m, new) \o Saved(m, new)
Around(m, new, x) == Before(m, new) \o x \o After(m, new)
IsMode(m)       == m \in Offset \cup Indexed

LEMMA ModeFacts ==
    ASSUME NEW m, IsMode(m)
    PROVE  /\ m.k \in {"off", "pre", "post", "ext"} /\ m.base \in Addresses /\ IsPlace(translate_reg(m.base), Cells)
           /\ m.k # "ext" => m.imm \in Int
           /\ m.k = "ext" => m.r \in Gprs /\ m.by \in {"none", "LSL", "UXTW", "SXTW", "SXTX"} /\ m.n \in Nat
  <1>1. m.k \in {"off", "pre", "post", "ext"} /\ m.base \in Addresses
    BY DEF IsMode, Offset, Indexed
  <1>2. m.base # "xzr" /\ m.base \in Gprs \cup Addresses
    BY <1>1, GuestAssumption DEF Addresses
  <1>3. IsPlace(translate_reg(m.base), Cells)
    BY <1>2, HomeOf DEF IsHome
  <1>4. m.k # "ext" => m.imm \in Int
    BY DEF IsMode, Offset, Indexed
  <1>5. m.k = "ext" => m.r \in Gprs /\ m.by \in {"none", "LSL", "UXTW", "SXTW", "SXTX"} /\ m.n \in Nat
    BY DEF IsMode, Offset, Indexed
  <1> QED
    BY <1>1, <1>3, <1>4, <1>5

(* get_alt_reg finds a register that holds no data. *)
LEMMA Alternate ==
    ASSUME NEW t, NEW u, NEW c
    PROVE  \E n \in {"r10", "r9", "r14"} : get_alt_reg({t, u}, c) = R(n) /\ (c = "x" => R(n) \notin {t, u})
  <1> DEFINE blocked == {r \in {"r10", "r9", "r14"} : c = "x" /\ R(r) \in {t, u}}
             P(r) == r = "r10" \/ ("r10" \in blocked /\ (r = "r9" \/ "r9" \in blocked))
             n == CHOOSE r \in {"r10", "r9", "r14"} \ blocked : P(r)
  <1>1. R("r10") # R("r9") /\ R("r10") # R("r14") /\ R("r9") # R("r14")
    BY DEF R
  <1>2. \E r \in {"r10", "r9", "r14"} \ blocked : P(r)
    <2>1. CASE "r10" \notin blocked
      BY <2>1
    <2>2. CASE "r10" \in blocked /\ "r9" \notin blocked
      BY <2>2
    <2>3. CASE "r10" \in blocked /\ "r9" \in blocked
      BY <1>1, <2>3
    <2> QED
      BY <2>1, <2>2, <2>3
  <1>3. n \in {"r10", "r9", "r14"} \ blocked
    BY <1>2
  <1>4. get_alt_reg({t, u}, c) = R(n)
    BY DEF get_alt_reg
  <1>5. c = "x" => R(n) \notin {t, u}
    BY <1>3
  <1> QED
    BY <1>3, <1>4, <1>5

HasBase(m, c, t, u) == \E n \in Names : Base(m, c, {t, u}) = R(n)

LEMMA BaseFacts ==
    ASSUME NEW m, IsMode(m), NEW c, NEW t, NEW u
    PROVE  HasBase(m, c, t, u)
  <1>1. CASE Borrowed(m, {t, u})
    <2>1. {"r10", "r9", "r14"} \subseteq Names
      BY DEF Names, Direct
    <2>2. PICK n \in {"r10", "r9", "r14"} : get_alt_reg({t, u}, c) = R(n) /\ (c = "x" => R(n) \notin {t, u})
      BY Alternate
    <2> QED
      BY <1>1, <2>1, <2>2 DEF HasBase, Base
  <1>2. CASE ~Borrowed(m, {t, u}) /\ Scratch(m)
    BY <1>2 DEF HasBase, Base, Names, RAX
  <1>3. CASE ~Borrowed(m, {t, u}) /\ ~Scratch(m)
    <2>1. Base(m, c, {t, u}) = translate_reg(m.base) /\ translate_reg(m.base).k # "cell"
      BY <1>3 DEF HasBase, Base, Scratch, is_indirect
    <2>2. IsPlace(translate_reg(m.base), Cells)
      BY ModeFacts
    <2>3. PICK v : v = translate_reg(m.base) /\ IsPlace(v, Cells) /\ v.k # "cell"
      BY <2>1, <2>2
    <2>4. v.at \in Names /\ v = R(v.at)
      BY <2>3, PlaceKinds
    <2> QED
      BY <2>1, <2>3, <2>4 DEF HasBase
  <1> QED
    BY <1>1, <1>2, <1>3

LEMMA EmptyParts ==
    ASSUME NEW a, IsCode(a)
    PROVE  <<>> \o a = a /\ a \o <<>> = a
  <1>1. PICK S : a \in Seq(S)
    BY DEF IsCode
  <1> QED
    BY <1>1, ConcatEmptySeq

LEMMA RegisterCode ==
    ASSUME NEW n \in Names
    PROVE  IsPlace(R(n), Cells) /\ IsHome(R(n), Cells) /\ IsTo(R(n), Cells) /\ IsFrom(R(n), Cells) /\ R(n) # Zero
  <1>1. IsPlace(R(n), Cells)
    BY DEF IsPlace
  <1> QED
    BY <1>1, NotZero, TargetIsSource DEF IsHome, IsTo, IsFrom

LEMMA StepCode ==
    ASSUME NEW n \in Names, NEW k \in Int
    PROVE  Coded(<<I("add", "x", R(n), N(k))>>, {}, Cells)
  <1>1. PICK r : r = R(n) /\ IsTo(r, Cells) /\ r # Zero
    BY RegisterCode
  <1>2. \A o, w : o \in IsTwo /\ w \in Bytewide => Coded(<<I(o, w, r, N(k))>>, {r}, Cells)
    BY <1>1, NumberCode
  <1>3. "add" \in IsTwo
    BY DEF IsTwo, AluOps
  <1>4. Coded(<<I("add", "x", r, N(k))>>, {r}, Cells)
    BY <1>2, <1>3, WidthsAre
  <1> QED
    BY <1>1, <1>4, CodedOperands

ModeOperands(m) == IF m.k = "ext" /\ m.by # "none" THEN {translate_reg(m.r)} ELSE {}

LEMMA FormedCode ==
    ASSUME NEW m, IsMode(m), NEW n \in Names
    PROVE  Coded(Formed(m, R(n)), ModeOperands(m), Cells)
  <1> DEFINE b == translate_reg(m.base)
             x == translate_reg(m.r)
  <1>1. PICK r : r = R(n) /\ IsPlace(r, Cells) /\ IsHome(r, Cells) /\ r # Zero
    BY RegisterCode
  <1>2. IsPlace(b, Cells) /\ IsHome(b, Cells) /\ b # Zero /\ "x" \in Bytewide /\ "add" \in IsTwo
    BY ModeFacts, PlaceKinds, WidthsAre DEF IsHome, IsTwo, AluOps
  <1>3. m.k = "ext" => IsHome(x, Cells) /\ m.by \notin {"ROR", "MSL"} /\ m.n \in Nat
    BY ModeFacts, HomeOf
  <1>4. CASE m.k = "ext" /\ m.by # "none"
    <2>1. Formed(m, r) = load_shifted(r, "x", x, "x", m) \o make_rr("add", "x", r, b)
      BY <1>4 DEF Formed
    <2>2. ModeOperands(m) = {x}
      BY <1>4 DEF ModeOperands
    <2> HIDE DEF b, x
    <2>3. \A w : w \in Bytewide => Coded(load_shifted(r, w, x, w, m), {x}, Cells)
      BY <1>1, <1>3, <1>4, ShiftedCode
    <2>4. \A w, o : w \in Bytewide /\ o \in IsTwo => Coded(make_rr(o, w, r, b), {r, b}, Cells)
      BY <1>1, <1>2, MakeRrCode
    <2>5. Coded(load_shifted(r, "x", x, "x", m) \o make_rr("add", "x", r, b), {x} \cup {r, b}, Cells)
      BY <1>2, <2>3, <2>4, CodedConcat
    <2>6. Zero \in {x} \cup {r, b} <=> Zero \in {x}
      BY <1>1, <1>2
    <2> QED
      BY <1>1, <2>1, <2>2, <2>5, <2>6, CodedOperands
  <1>5. CASE m.k = "ext" /\ m.by = "none"
    <2>1. Formed(m, r) = make_mov_rr("x", r, x) \o make_rr("add", "x", r, b)
      BY <1>5 DEF Formed
    <2>2. ModeOperands(m) = {}
      BY <1>5 DEF ModeOperands
    <2> HIDE DEF b, x
    <2>3. \A w : w \in Bytewide => Coded(make_mov_rr(w, r, x), {r}, Cells)
      BY <1>1, <1>3, <1>5, MovCode
    <2>4. \A w, o : w \in Bytewide /\ o \in IsTwo => Coded(make_rr(o, w, r, b), {r, b}, Cells)
      BY <1>1, <1>2, MakeRrCode
    <2>5. Coded(make_mov_rr("x", r, x) \o make_rr("add", "x", r, b), {r} \cup {r, b}, Cells)
      BY <1>2, <2>3, <2>4, CodedConcat
    <2>6. Zero \in {r} \cup {r, b} <=> Zero \in {}
      BY <1>1, <1>2
    <2> QED
      BY <1>1, <2>1, <2>2, <2>5, <2>6, CodedOperands
  <1>6. CASE m.k # "ext"
    <2>1. Formed(m, r) = IF is_indirect(b) THEN make_mov_rr("x", r, b) ELSE <<>>
      BY <1>6 DEF Formed
    <2>2. ModeOperands(m) = {}
      BY <1>6 DEF ModeOperands
    <2> HIDE DEF b
    <2>3. \A w : w \in Bytewide => Coded(make_mov_rr(w, r, b), {r}, Cells)
      BY <1>1, <1>2, MovCode
    <2>4. Zero \in {r} <=> Zero \in {}
      BY <1>1
    <2>5. Coded(make_mov_rr("x", r, b), {}, Cells) /\ Coded(<<>>, {}, Cells)
      BY <1>2, <2>3, <2>4, CodedOperands, EmptyCode
    <2> QED
      BY <1>1, <2>1, <2>2, <2>5
  <1> QED
    BY <1>4, <1>5, <1>6

LEMMA BeforeAfterCode ==
    ASSUME NEW m, IsMode(m), NEW n \in Names
    PROVE  Coded(Before(m, R(n)), ModeOperands(m), Cells) /\ Coded(After(m, R(n)), {}, Cells)
  <1>1. Coded(Moved(m, R(n)), {}, Cells) /\ Coded(Posted(m, R(n)), {}, Cells)
    BY ModeFacts, StepCode, EmptyCode DEF Moved, Posted
  <1>2. Coded(Saved(m, R(n)), {}, Cells)
    <2> DEFINE b == translate_reg(m.base)
    <2>1. PICK r : r = R(n) /\ IsFrom(r, Cells) /\ r # Zero
      BY RegisterCode
    <2>2. IsTo(b, Cells) /\ b # Zero
      BY ModeFacts, PlaceKinds, TargetIsSource DEF IsTo
    <2>3. Saved(m, r) = IF m.k \in {"pre", "post"} /\ b.k = "cell" THEN <<I("mov", "x", b, r)>> ELSE <<>>
      BY DEF Saved
    <2> HIDE DEF b
    <2>4. \A o, w : o \in IsTwo /\ w \in Bytewide => Coded(<<I(o, w, b, r)>>, {b, r}, Cells)
      BY <2>1, <2>2, TwoCode
    <2>5. "mov" \in IsTwo
      BY DEF IsTwo
    <2>6. Coded(<<I("mov", "x", b, r)>>, {b, r}, Cells)
      BY <2>4, <2>5, WidthsAre
    <2>7. Zero \in {b, r} <=> Zero \in {}
      BY <2>1, <2>2
    <2>8. Coded(<<I("mov", "x", b, r)>>, {}, Cells) /\ Coded(<<>>, {}, Cells)
      BY <2>6, <2>7, CodedOperands, EmptyCode
    <2> QED
      BY <2>1, <2>3, <2>8
  <1>3. Coded(Formed(m, R(n)), ModeOperands(m), Cells)
    BY FormedCode
  <1>4. Coded(Formed(m, R(n)) \o Moved(m, R(n)), ModeOperands(m) \cup {}, Cells)
    BY <1>1, <1>3, CodedConcat
  <1>5. Coded(Posted(m, R(n)) \o Saved(m, R(n)), {} \cup {}, Cells)
    BY <1>1, <1>2, CodedConcat
  <1> QED
    BY <1>4, <1>5, CodedOperands DEF Before, After

LEMMA AroundCode ==
    ASSUME NEW m, IsMode(m), NEW n \in Names, NEW x, NEW S, Coded(x, S, Cells)
    PROVE  Coded(Around(m, R(n), x), ModeOperands(m) \cup S, Cells)
  <1>1. Coded(Before(m, R(n)) \o x \o After(m, R(n)), ModeOperands(m) \cup S, Cells)
    BY BeforeAfterCode, CodedThree
  <1> QED
    BY <1>1 DEF Around

(* The whole of a load or store, around its transfer x. *)
Wrapped(m, c, data, x) ==
    IF Borrowed(m, data) THEN Bracket(Base(m, c, data), Around(m, Base(m, c, data), x)) ELSE Around(m, Base(m, c, data), x)

(* a is what process_addr_mode returns. *)
ModeOf(a, m, c, data, new) ==
    /\ new = Base(m, c, data)
    /\ a.code = (IF Borrowed(m, data) THEN <<I("push", "x", RSP, new)>> ELSE <<>>) \o Formed(m, new) \o Moved(m, new)
    /\ a.base = new /\ a.offset = IF m.k = "off" THEN m.imm ELSE 0
    /\ finalize_addr_mode(a) = After(m, new) \o (IF Borrowed(m, data) THEN <<I("pop", "x", new, RSP)>> ELSE <<>>)

LEMMA ModeIs ==
    ASSUME NEW m, IsMode(m), NEW c, NEW data
    PROVE  ModeOf(process_addr_mode(m, c, data), m, c, data, Base(m, c, data))
  BY ModeFacts DEF ModeOf, process_addr_mode, finalize_addr_mode, Base, Borrowed, Scratch, Formed, Moved, After, Posted, Saved

Wraps(m, c, data, x) ==
    process_addr_mode(m, c, data).code \o x \o finalize_addr_mode(process_addr_mode(m, c, data)) = Wrapped(m, c, data, x)

LEMMA WrappedIs ==
    ASSUME NEW m, IsMode(m), NEW c, NEW t, NEW u, NEW x, IsCode(x), NEW data, data = {t, u}
    PROVE  Wraps(m, c, data, x)
  <1> DEFINE a == process_addr_mode(m, c, data)
             new == Base(m, c, data)
             f == Formed(m, new)
             v == Moved(m, new)
             z == After(m, new)
             push == <<I("push", "x", RSP, new)>>
             pop == <<I("pop", "x", new, RSP)>>
  <1>1. PICK n \in Names : new = R(n)
    <2>1. HasBase(m, c, t, u)
      BY BaseFacts
    <2> QED
      BY <2>1 DEF HasBase
  <1>2. IsCode(f) /\ IsCode(v) /\ IsCode(z) /\ IsCode(push) /\ IsCode(pop)
    <2>1. Coded(Formed(m, R(n)), ModeOperands(m), Cells) /\ Coded(After(m, R(n)), {}, Cells)
      BY FormedCode, BeforeAfterCode
    <2>2. IsCode(Moved(m, R(n)))
      BY RunShort DEF Moved
    <2> QED
      BY <1>1, <2>1, <2>2, CodedIsCode, RunShort
  <1>3. a.code = (IF Borrowed(m, data) THEN push ELSE <<>>) \o f \o v
        /\ finalize_addr_mode(a) = z \o (IF Borrowed(m, data) THEN pop ELSE <<>>)
    <2>1. ModeOf(a, m, c, data, new)
      BY ModeIs
    <2> QED
      BY <2>1 DEF ModeOf
  <1>4. Before(m, new) = f \o v /\ Around(m, new, x) = f \o v \o x \o z
    BY DEF Before, Around
  <1>5. Wrapped(m, c, data, x) = IF Borrowed(m, data) THEN push \o (f \o v \o x \o z) \o pop ELSE f \o v \o x \o z
    BY <1>4 DEF Wrapped, Bracket
  <1>6. PICK w : w = a.code \o x \o finalize_addr_mode(a)
    OBVIOUS
  <1> HIDE DEF a, new, f, v, z, push, pop
  <1>7. CASE Borrowed(m, data)
    <2>1. w = (push \o f \o v \o x) \o (z \o pop)
      BY <1>3, <1>6, <1>7
    <2>2. IsCode(push \o f \o v \o x)
      BY <1>2, ConcatIsCode
    <2>3. Associates(push \o f \o v \o x, z, pop)
      BY <1>2, <2>2, CodeAssociative
    <2>4. w = push \o f \o v \o x \o z \o pop
      BY <2>1, <2>3, Zenon DEF Associates
    <2>5. FourIn(push, f, v, x, z, pop)
      BY <1>2, FourInside
    <2>6. w = push \o (f \o v \o x \o z) \o pop
      BY <2>4, <2>5, Zenon DEF FourIn
    <2> QED
      BY <1>5, <1>6, <1>7, <2>6 DEF a, Wraps
  <1>8. CASE ~Borrowed(m, data)
    <2>1. w = (<<>> \o f \o v \o x) \o (z \o <<>>)
      BY <1>3, <1>6, <1>8
    <2>2. <<>> \o f = f /\ z \o <<>> = z
      BY <1>2, EmptyParts
    <2>3. w = f \o v \o x \o z
      BY <2>1, <2>2
    <2> QED
      BY <1>5, <1>6, <1>8, <2>3 DEF a, Wraps
  <1> QED
    BY <1>7, <1>8

LEMMA WrappedVerdict ==
    ASSUME NEW i, NEW m, IsMode(m), NEW c, NEW t, NEW u, NEW x, NEW S, Coded(x, S, Cells),
           Compile(i) = Wrapped(m, c, {t, u}, x), Zero \in ModeOperands(m) \cup S <=> Stops(i)
    PROVE  Verdict(i)
  <1>1. PICK n \in Names : Base(m, c, {t, u}) = R(n)
    <2>1. HasBase(m, c, t, u)
      BY BaseFacts
    <2> QED
      BY <2>1 DEF HasBase
  <1>2. Coded(Around(m, R(n), x), ModeOperands(m) \cup S, Cells)
    BY AroundCode
  <1>3. CASE Borrowed(m, {t, u})
    <2>1. Compile(i) = Bracket(R(n), Around(m, R(n), x))
      BY <1>1, <1>3 DEF Wrapped
    <2> QED
      BY <1>2, <2>1, BracketVerdict
  <1>4. CASE ~Borrowed(m, {t, u})
    <2>1. Compile(i) = Around(m, R(n), x)
      BY <1>1, <1>4 DEF Wrapped
    <2> QED
      BY <1>2, <2>1, CodedVerdict
  <1> QED
    BY <1>3, <1>4

LEMMA PlaceAt ==
    ASSUME NEW n \in Names, NEW k \in Int
    PROVE  IsTo(M(n, k), Cells) /\ IsFrom(M(n, k), Cells) /\ M(n, k) # Zero
  BY NotZero DEF IsTo, IsFrom, IsTarget, IsSource

LEMMA StoreCode ==
    ASSUME NEW src, IsHome(src, Cells), NEW c \in Bytewide, NEW size \in Bytewide, NEW a, NEW n \in Names, NEW extra \in Int,
           a.base = R(n), a.offset \in Int
    PROVE  Coded(make_store(src, c, size, a, extra), {}, Cells)
  <1>1. memory_operand(a, extra) = M(n, a.offset + extra) /\ a.offset + extra \in Int
    BY OperandKinds DEF memory_operand
  <1>2. PICK p : p = memory_operand(a, extra) /\ IsTo(p, Cells) /\ p # Zero
    BY <1>1, PlaceAt
  <1>3. PICK v : v = reg_operand(src) /\ IsFrom(v, Cells) /\ v # Zero
    BY HomeOperand
  <1>4. Coded(pre_read(src, c), {}, Cells)
    BY PreReadCode
  <1>5. \A o : o \in IsTwo => Coded(<<I(o, size, p, v)>>, {p, v}, Cells)
    BY <1>2, <1>3, TwoCode
  <1>6. "mov" \in IsTwo
    BY DEF IsTwo
  <1>7. Coded(pre_read(src, c) \o <<I("mov", size, p, v)>>, {} \cup {p, v}, Cells)
    BY <1>4, <1>5, <1>6, CodedConcat
  <1>8. Zero \in {} \cup {p, v} <=> Zero \in {}
    BY <1>2, <1>3
  <1> QED
    BY <1>2, <1>3, <1>7, <1>8, CodedOperands DEF make_store

LEMMA PanicCode == Coded(panic, {Zero}, Cells)
  <1>1. Encodes(panic, {Zero})
    BY PanicSound DEF Sound
  <1> QED
    BY <1>1 DEF Coded, Bad, Encodes

LEMMA LoadCode ==
    ASSUME NEW dest, IsHome(dest, Cells), NEW c \in Widths, NEW size \in Bytewide, size = "x" => c = "x", NEW a, NEW n \in Names,
           NEW extra \in Int, a.base = R(n), a.offset \in Int, NEW signed \in BOOLEAN
    PROVE  Coded(make_load(dest, c, size, signed, a, extra), IF size \in {"b", "h"} /\ c = "x" THEN {Zero} ELSE {}, Cells)
  <1>1. memory_operand(a, extra) = M(n, a.offset + extra) /\ a.offset + extra \in Int
    BY OperandKinds DEF memory_operand
  <1>2. PICK p : p = memory_operand(a, extra) /\ IsFrom(p, Cells) /\ p # Zero
    BY <1>1, PlaceAt
  <1>3. PICK v : v = reg_operand(dest) /\ IsTo(v, Cells) /\ IsHome(v, Cells) /\ v # Zero
    BY HomeOperand
  <1>4. c \in {"w", "x"} /\ c \in Bytewide /\ size \in {"b", "h", "w", "x"}
    BY WidthsAre DEF Widths, Bytewide
  <1> DEFINE load == CASE size = c                    -> <<I("mov", c, v, p)>>
                       [] size = "w" /\ c = "x"       -> <<Iw("movsx", "x", v, p, "w")>>
                       [] size \in {"b", "h"} /\ c = "w" -> <<Iw(IF signed THEN "movsx" ELSE "movzx", "w", v, p, size)>>
                       [] size \in {"b", "h"} /\ c = "x" -> panic
             S == IF size \in {"b", "h"} /\ c = "x" THEN {Zero} ELSE {}
  <1>5. make_load(dest, c, size, signed, a, extra) = load \o post_write(dest, c)
    BY <1>2, <1>3 DEF make_load
  <1>6. Zero \in {v, p} <=> Zero \in {}
    BY <1>2, <1>3
  <1>7. \A o, w, x : o \in {"movzx", "movsx"} /\ w \in Bytewide /\ x \in Bytewide => Coded(<<Iw(o, w, v, p, x)>>, {v, p}, Cells)
    BY <1>2, <1>3, WideCode
  <1>8. \A o, w, x : o \in {"movzx", "movsx"} /\ w \in Bytewide /\ x \in Bytewide => Coded(<<Iw(o, w, v, p, x)>>, {}, Cells)
    BY <1>6, <1>7, CodedOperands
  <1>9. Coded(load, S, Cells)
    <2>1. CASE size = c
      <3>1. load = <<I("mov", c, v, p)>> /\ S = {}
        BY <1>4, <2>1
      <3>2. \A o : o \in IsTwo => Coded(<<I(o, c, v, p)>>, {v, p}, Cells)
        BY <1>2, <1>3, <1>4, TwoCode
      <3>3. "mov" \in IsTwo
        BY DEF IsTwo
      <3>4. Coded(<<I("mov", c, v, p)>>, {v, p}, Cells)
        BY <3>2, <3>3
      <3> HIDE DEF load, S
      <3> QED
        BY <1>6, <3>1, <3>4, CodedOperands
    <2>2. CASE size = "w" /\ c = "x"
      <3>1. load = <<Iw("movsx", "x", v, p, "w")>> /\ S = {}
        BY <2>2
      <3> HIDE DEF load, S
      <3> QED
        BY <1>8, <3>1, WidthsAre
    <2>3. CASE size \in {"b", "h"} /\ c = "w"
      <3>1. load = <<Iw(IF signed THEN "movsx" ELSE "movzx", "w", v, p, size)>> /\ S = {}
        BY <2>3
      <3>2. (IF signed THEN "movsx" ELSE "movzx") \in {"movzx", "movsx"}
        OBVIOUS
      <3> HIDE DEF load, S
      <3> QED
        BY <1>8, <3>1, <3>2, WidthsAre
    <2>4. CASE size \in {"b", "h"} /\ c = "x"
      <3>1. load = panic /\ S = {Zero}
        BY <2>4
      <3> HIDE DEF load, S
      <3> QED
        BY <3>1, PanicCode
    <2> QED
      BY <1>4, <2>1, <2>2, <2>3, <2>4
  <1> HIDE DEF load, S
  <1>10. Coded(post_write(dest, c), {}, Cells)
    BY <1>4, PreReadCode
  <1>11. Coded(load \o post_write(dest, c), S \cup {}, Cells)
    BY <1>9, <1>10, CodedConcat
  <1>12. Coded(load \o post_write(dest, c), S, Cells)
    BY <1>11
  <1> QED
    BY <1>5, <1>12 DEF S

LEMMA SingleVerdict ==
    ASSUME NEW i,
           i \in [op : Loads \cup Stores, c : Widths, d : Gprs, m : Offset \cup Indexed \cup [k : {"literal"}]],
           i.op = "LDRSW" => i.c = "x"
    PROVE  Verdict(i)
  <1> DEFINE c == i.c
             d == translate_reg(i.d)
             a == process_addr_mode(i.m, c, {d})
  <1>1. /\ i.op \in Loads \cup Stores /\ DOMAIN i = {"op", "c", "d", "m"} /\ i.d \in Gprs /\ c \in Widths
        /\ IsMode(i.m) \/ i.m.k = "literal"
    BY DEF IsMode
  <1>2. Compile(i) = compile_load_store(i)
    BY <1>1 DEF Compile, MemoryOps
  <1>3. IsHome(d, Cells) /\ c \in Bytewide
    BY <1>1, HomeOf, WidthsAre
  <1>4. CASE i.m.k = "literal"
    <2>1. Compile(i) = panic
      BY <1>2, <1>4 DEF compile_load_store
    <2>2. Stops(i)
      BY <1>4 DEF Stops, HasNoForm
    <2> QED
      BY <2>1, <2>2, PanicVerdict
  <1>5. CASE i.m.k # "literal"
    <2>0. IsMode(i.m)
      BY <1>1, <1>5
    <2>1. PICK n \in Names : Base(i.m, c, {d, d}) = R(n)
      <3>1. HasBase(i.m, c, d, d)
        BY <2>0, BaseFacts
      <3> HIDE DEF c, d
      <3> QED
        BY <3>1 DEF HasBase
    <2>2. {d, d} = {d}
      OBVIOUS
    <2>3. a.base = R(n) /\ a.offset \in Int
      <3>1. ModeOf(a, i.m, c, {d}, Base(i.m, c, {d}))
        BY <2>0, ModeIs
      <3> HIDE DEF a, c, d
      <3>2. Base(i.m, c, {d}) = R(n)
        BY <2>1, <2>2
      <3>3. a.base = R(n) /\ a.offset = IF i.m.k = "off" THEN i.m.imm ELSE 0
        BY <3>1, <3>2 DEF ModeOf
      <3> QED
        BY <2>0, <3>3, ModeFacts
    <2> DEFINE S == IF i.op \in {"LDRB", "LDRSB", "LDRH", "LDRSH"} /\ c = "x" THEN {Zero} ELSE {}
    <2>4. \E x : Compile(i) = a.code \o x \o finalize_addr_mode(a) /\ Coded(x, S, Cells)
      <3>1. CASE i.op \in Stores
        <4>1. PICK size \in Bytewide : compile_load_store(i) = load_store(i, FALSE, size, FALSE)
          <5>1. compile_load_store(i) = load_store(i, FALSE, IF i.op = "STR" THEN c ELSE IF i.op = "STRB" THEN "b" ELSE "h", FALSE)
            BY <1>5, <3>1 DEF compile_load_store, Stores
          <5> QED
            BY <1>3, <5>1, WidthsAre
        <4>2. Compile(i) = a.code \o make_store(d, c, size, a, 0) \o finalize_addr_mode(a)
          BY <1>2, <4>1 DEF load_store
        <4>3. S = {}
          BY <3>1 DEF Stores
        <4> HIDE DEF a, d, c, S
        <4>4. 0 \in Int
          OBVIOUS
        <4>5. Coded(make_store(d, c, size, a, 0), {}, Cells)
          BY <1>3, <2>3, <4>4, StoreCode
        <4> QED
          BY <4>2, <4>3, <4>5
      <3>2. CASE i.op \in Loads
        <4> DEFINE size == CASE i.op = "LDR" -> c [] i.op \in {"LDRB", "LDRSB"} -> "b" [] i.op \in {"LDRH", "LDRSH"} -> "h" [] i.op = "LDRSW" -> "w"
        <4>1. PICK signed \in BOOLEAN : compile_load_store(i) = load_store(i, TRUE, size, signed)
          <5>1. CASE i.op \in {"LDR", "LDRB", "LDRH"}
            BY <1>5, <5>1 DEF compile_load_store
          <5>2. CASE i.op \in {"LDRSB", "LDRSH", "LDRSW"}
            BY <1>5, <5>2 DEF compile_load_store
          <5> QED
            BY <3>2, <5>1, <5>2 DEF Loads
        <4>2. Compile(i) = a.code \o make_load(d, c, size, signed, a, 0) \o finalize_addr_mode(a)
          BY <1>2, <4>1 DEF load_store
        <4>3. size \in Bytewide /\ (size = "x" => c = "x") /\ (size \in {"b", "h"} <=> i.op \in {"LDRB", "LDRSB", "LDRH", "LDRSH"})
          BY <1>1, <1>3, <3>2 DEF Loads, Bytewide, Widths
        <4>4. c \in Widths /\ 0 \in Int
          BY <1>1
        <4> HIDE DEF a, d, c, size
        <4>5. Coded(make_load(d, c, size, signed, a, 0), IF size \in {"b", "h"} /\ c = "x" THEN {Zero} ELSE {}, Cells)
          BY <1>3, <2>3, <4>3, <4>4, LoadCode
        <4>6. Coded(make_load(d, c, size, signed, a, 0), S, Cells)
          BY <4>3, <4>5
        <4> QED
          BY <4>2, <4>3, <4>6
      <3> QED
        BY <1>1, <3>1, <3>2
    <2>5. PICK x : Compile(i) = a.code \o x \o finalize_addr_mode(a) /\ Coded(x, S, Cells)
      BY <2>4
    <2>6. IsCode(x)
      BY <2>5, CodedIsCode
    <2>7. Compile(i) = Wrapped(i.m, c, {d, d}, x)
      <3>1. Wraps(i.m, c, {d}, x)
        BY <2>0, <2>2, <2>6, WrappedIs
      <3> QED
        BY <2>2, <2>5, <3>1 DEF Wraps
    <2>8. Zero \in ModeOperands(i.m) \cup S <=> Stops(i)
      <3>1. HasNoForm(i) <=> i.op \in {"LDRB", "LDRSB", "LDRH", "LDRSH"} /\ c = "x"
        BY <1>1, <1>5 DEF HasNoForm, Is, Loads, Stores
      <3>2. XzrPanics(i) = IF i.m.k = "ext" /\ i.m.by # "none" THEN {"m"} ELSE {}
        BY <1>1 DEF XzrPanics, Is, MemoryOps, Loads, Stores
      <3>3. i.m.k = "ext" => i.m.r \in Gprs
        BY <2>0, ModeFacts
      <3>4. Zero \in ModeOperands(i.m) <=> i.m.k = "ext" /\ i.m.by # "none" /\ i.m.r = "xzr"
        BY <3>3, HomeOf DEF ModeOperands
      <3>5. "m" \in XzrOperands(i) <=> i.m.k \in {"reg", "shift", "ext"} /\ i.m.r = "xzr"
        BY XzrOperand
      <3> QED
        BY <3>1, <3>2, <3>4, <3>5 DEF Stops
    <2> HIDE DEF a, d, c, S
    <2> QED
      BY <2>0, <2>5, <2>7, <2>8, WrappedVerdict
  <1> QED
    BY <1>4, <1>5

LEMMA PairVerdict ==
    ASSUME NEW i, i \in [op : {"LDP", "STP"}, c : Widths, d : Gprs, d2 : Gprs, m : Offset]
    PROVE  Verdict(i)
  <1> DEFINE c == i.c
             d == translate_reg(i.d)
             e == translate_reg(i.d2)
             a == process_addr_mode(i.m, c, {d, e})
             gen(t, extra) == IF i.op = "LDP" THEN make_load(t, c, c, FALSE, a, extra) ELSE make_store(t, c, c, a, extra)
  <1>1. /\ i.op \in {"LDP", "STP"} /\ DOMAIN i = {"op", "c", "d", "d2", "m"} /\ i.d \in Gprs /\ i.d2 \in Gprs /\ c \in Widths
        /\ IsMode(i.m) /\ i.m.k # "ext" /\ i.m.k # "literal"
    BY DEF IsMode, Offset
  <1>2. Compile(i) = a.code \o gen(d, 0) \o gen(e, Bytes[c]) \o finalize_addr_mode(a)
    <2>1. Compile(i) = load_store_pair(i)
      BY <1>1 DEF Compile, MemoryOps, compile_load_store
    <2> QED
      BY <2>1 DEF load_store_pair
  <1>3. IsHome(d, Cells) /\ IsHome(e, Cells) /\ c \in Bytewide
    BY <1>1, HomeOf, WidthsAre
  <1>4. PICK n \in Names : Base(i.m, c, {d, e}) = R(n)
    <2>1. HasBase(i.m, c, d, e)
      BY <1>1, BaseFacts
    <2> HIDE DEF c, d, e
    <2> QED
      BY <2>1 DEF HasBase
  <1>5. a.base = R(n) /\ a.offset \in Int
    <2>1. ModeOf(a, i.m, c, {d, e}, Base(i.m, c, {d, e}))
      BY <1>1, ModeIs
    <2> HIDE DEF a, c, d, e
    <2> QED
      BY <1>1, <1>4, <2>1, ModeFacts DEF ModeOf
  <1>6. 0 \in Int /\ Bytes[c] \in Int
    BY <1>1 DEF Bytes, Widths
  <1>7. \A t, x : IsHome(t, Cells) /\ x \in Int => Coded(gen(t, x), {}, Cells)
    <2> SUFFICES ASSUME NEW t, NEW x \in Int, IsHome(t, Cells) PROVE Coded(gen(t, x), {}, Cells)
      OBVIOUS
    <2> HIDE DEF a
    <2>1. CASE i.op = "LDP"
      <3>1. gen(t, x) = make_load(t, c, c, FALSE, a, x)
        BY <2>1
      <3>2. c \in Widths /\ c \in Bytewide /\ c # "b" /\ c # "h"
        BY <1>1, <1>3 DEF Widths
      <3> HIDE DEF gen, c
      <3>3. \A q \in BOOLEAN : Coded(make_load(t, c, c, q, a, x), IF c \in {"b", "h"} /\ c = "x" THEN {Zero} ELSE {}, Cells)
        BY <1>5, <3>2, LoadCode
      <3>4. Coded(make_load(t, c, c, FALSE, a, x), IF c \in {"b", "h"} /\ c = "x" THEN {Zero} ELSE {}, Cells)
        BY <3>3
      <3> QED
        BY <3>1, <3>2, <3>4
    <2>2. CASE i.op # "LDP"
      <3>1. gen(t, x) = make_store(t, c, c, a, x)
        BY <2>2
      <3> HIDE DEF gen, c
      <3>2. Coded(make_store(t, c, c, a, x), {}, Cells)
        BY <1>3, <1>5, StoreCode
      <3> QED
        BY <3>1, <3>2
    <2> QED
      BY <2>1, <2>2
  <1>8. PICK x : x = gen(d, 0) /\ Coded(x, {}, Cells)
    <2> HIDE DEF gen
    <2> QED
      BY <1>3, <1>6, <1>7
  <1>9. PICK y : y = gen(e, Bytes[c]) /\ Coded(y, {}, Cells)
    <2> HIDE DEF gen
    <2> QED
      BY <1>3, <1>6, <1>7
  <1>10. Coded(x \o y, {} \cup {}, Cells)
    BY <1>8, <1>9, CodedConcat
  <1>11. IsCode(x) /\ IsCode(y) /\ IsCode(x \o y) /\ IsCode(a.code)
    <2>1. IsCode(Formed(i.m, R(n))) /\ IsCode(Moved(i.m, R(n)))
      BY <1>1, FormedCode, CodedIsCode, RunShort DEF Moved
    <2>2. PICK p : IsCode(p) /\ a.code = p \o Formed(i.m, R(n)) \o Moved(i.m, R(n))
      <3>1. ModeOf(a, i.m, c, {d, e}, Base(i.m, c, {d, e}))
        BY <1>1, ModeIs
      <3>2. \A z : IsCode(<<z>>) /\ IsCode(<<>>)
        BY RunShort
      <3> HIDE DEF a, c, d, e
      <3>3. PICK p : /\ p = IF Borrowed(i.m, {d, e}) THEN <<I("push", "x", RSP, Base(i.m, c, {d, e}))>> ELSE <<>>
                     /\ IsCode(p)
        BY <3>2
      <3> QED
        BY <1>4, <3>1, <3>3 DEF ModeOf
    <2>3. IsCode(a.code)
      BY <2>1, <2>2, ConcatIsCode
    <2> QED
      BY <1>8, <1>9, <1>10, <2>3, CodedIsCode
  <1>12. Compile(i) = Wrapped(i.m, c, {d, e}, x \o y)
    <2>1. a.code \o (x \o y) \o finalize_addr_mode(a) = Wrapped(i.m, c, {d, e}, x \o y)
      <3>1. Wraps(i.m, c, {d, e}, x \o y)
        BY <1>1, <1>11, WrappedIs
      <3> QED
        BY <3>1 DEF Wraps
    <2>2. Compile(i) = a.code \o x \o y \o finalize_addr_mode(a)
      BY <1>2, <1>8, <1>9
    <2> HIDE DEF a
    <2>3. Associates(a.code, x, y)
      BY <1>11, CodeAssociative
    <2> QED
      BY <2>1, <2>2, <2>3, Zenon DEF Associates
  <1>13. Zero \in ModeOperands(i.m) \cup ({} \cup {}) <=> Stops(i)
    <2>1. ~HasNoForm(i) /\ XzrPanics(i) = {}
      BY <1>1 DEF HasNoForm, Is, XzrPanics, MemoryOps, Loads, Stores
    <2>2. ModeOperands(i.m) = {}
      BY <1>1 DEF ModeOperands
    <2> QED
      BY <2>1, <2>2, StopsFor
  <1> HIDE DEF a, gen, d, e, c
  <1> QED
    BY <1>1, <1>10, <1>12, <1>13, WrappedVerdict

------------------------------------------------------------------------------
(* Every instruction's translation. *)
LEMMA CompileVerdict ==
    ASSUME NEW i, IsInstruction(i)
    PROVE  Verdict(i)
  <1>1. CASE IsArithmetic(i)
    <2>1. CASE \/ i \in Operands3({"ADD", "ADDS", "SUB", "SUBS"}, Gprs, Gprs, Register \cup Shifted(Shifts \cup Extensions))
               \/ i \in Operands3({"ADD", "ADDS", "SUB", "SUBS"}, Addresses, Addresses, [k : {"imm"}, v : Short, lsl : Nat])
      BY <2>1, AddSubVerdict
    <2>2. CASE \/ i \in Operands3({"AND", "ORR", "EOR"}, Gprs, Gprs, Register \cup Shifted(Shifts \cup {"ROR"}))
               \/ i \in Operands3({"AND", "ORR", "EOR"}, Addresses, Gprs, Constant(Words(i.c)))
      BY <2>2, LogicalVerdict
    <2>3. CASE i \in Operands3({"BIC"}, Gprs, Gprs, Register \cup Shifted(Shifts \cup {"ROR"}))
      BY <2>3, ClearVerdict
    <2>4. CASE i \in Operands3({"LSL", "LSR", "ASR"}, Gprs, Gprs, Register \cup Constant(0 .. Bits[i.c] - 1))
      BY <2>4, ShiftVerdict
    <2>5. CASE i \in Operands3({"UDIV", "SDIV"}, Gprs, Gprs, Register)
      BY <2>5, DivVerdict
    <2>6. CASE i \in [op : {"MADD"}, c : Widths, d : Gprs, n : Gprs, m : Register, a : Gprs]
      BY <2>6, MaddVerdict
    <2>7. CASE i \in [op : {"UBFIZ"}, c : Widths, d : Gprs, n : Gprs, m : Constant({0}), lsb : Nat, width : 1 .. Bits[i.c]]
      BY <2>7, FieldVerdict
    <2>8. i \in Operands3({"AND", "ORR", "EOR", "BIC"}, Gprs, Gprs, Register \cup Shifted(Shifts \cup {"ROR"})) =>
            \/ i \in Operands3({"AND", "ORR", "EOR"}, Gprs, Gprs, Register \cup Shifted(Shifts \cup {"ROR"}))
            \/ i \in Operands3({"BIC"}, Gprs, Gprs, Register \cup Shifted(Shifts \cup {"ROR"}))
      BY DEF Operands3
    <2> QED
      BY <1>1, <2>1, <2>2, <2>3, <2>4, <2>5, <2>6, <2>7, <2>8, Zenon DEF IsArithmetic
  <1>2. CASE IsMove(i)
    <2>1. CASE i \in Operands3({"MOV"}, Gprs \cup Addresses, {"xzr"}, [k : {"reg"}, r : Gprs \cup Addresses] \cup Constant(Words(i.c)))
      BY <2>1, MovVerdict
    <2>2. CASE i \in Operands3({"MOVK"}, Gprs, {"xzr"}, [k : {"imm"}, v : Words("h"), lsl : {Bits["h"] * k : k \in 0 .. Bytes[i.c] \div 2 - 1}])
      BY <2>2, MovkVerdict
    <2>3. CASE i \in [op : {"ADRP"}, c : {"x"}, d : Gprs, n : {"xzr"}, m : Constant(Words("x"))]
      BY <2>3, AddressVerdict
    <2>4. CASE \/ i \in Operands3({"SXTB", "SXTH"}, Gprs, Gprs, Constant({0}))
               \/ i \in [op : {"SXTW"}, c : {"x"}, d : Gprs, n : Gprs, m : Constant({0})]
               \/ i \in [op : {"UXTB", "UXTH"}, c : {"w"}, d : Gprs, n : Gprs, m : Constant({0})]
      <3>1. i \in [op : {"SXTB", "SXTH", "SXTW", "UXTB", "UXTH"}, c : Widths, d : Gprs, n : Gprs, m : Constant({0})]
        BY <2>4 DEF Operands3, Widths
      <3> QED
        BY <3>1, ExtendVerdict
    <2> QED
      BY <1>2, <2>1, <2>2, <2>3, <2>4, Zenon DEF IsMove
  <1>3. CASE IsConditional(i)
    <2>1. CASE \/ i \in Operands2({"CMP", "CMN"}, Gprs, Register \cup Shifted(Shifts \cup Extensions))
               \/ i \in Operands2({"CMP", "CMN"}, Addresses, [k : {"imm"}, v : Short, lsl : Nat])
      BY <2>1, CompareVerdict
    <2>2. CASE i \in [op : {"CCMP"}, c : Widths, n : Gprs, m : Register \cup Constant(Short), cond : Conditions, nzcv : ArmFlags]
      BY <2>2, ChooseVerdict
    <2>3. CASE i \in [op : {"CSEL"}, c : Widths, d : Gprs, n : Gprs, m : Register, cond : Conditions]
      BY <2>3, CselVerdict
    <2>4. CASE i \in [op : {"CSET"}, c : Widths, d : Gprs, n : {"xzr"}, m : Constant({0}), cond : Conditions]
      BY <2>4, SetVerdict
    <2>5. CASE \/ i \in [op : {"B.cond"}, c : {"x"}, n : {"xzr"}, m : Constant({0}), cond : Conditions]
               \/ i \in Operands2({"CBZ", "CBNZ"}, Gprs, Constant({0}))
               \/ i \in [op : {"TBZ", "TBNZ"}, c : Widths, n : Gprs, m : Constant({0}), bit : 0 .. Bits[i.c] - 1]
      BY <2>5, BranchVerdict
    <2> QED
      BY <1>3, <2>1, <2>2, <2>3, <2>4, <2>5, Zenon DEF IsConditional
  <1>4. CASE IsTransfer(i)
    BY <1>4, SingleVerdict, PairVerdict DEF IsTransfer
  <1> QED
    BY <1>1, <1>2, <1>3, <1>4 DEF IsInstruction

LEMMA Translation ==
    ASSUME NEW i, IsInstruction(i)
    PROVE  /\ Panics(Compile(i)) <=> Stops(i)
           /\ ~Stops(i) /\ ~Refused(Compile(i)) => Settles(Compile(i), Cells)
  <1>1. CASE Compile(i) = refuse /\ ~Stops(i)
    <2> DEFINE x == [op |-> "refuse"]
    <2>1. ~Unencodable(x) /\ x.op = "refuse"
      BY DEF Unencodable
    <2>2. refuse = <<x>> /\ DOMAIN refuse = {1} /\ refuse[1] = x
      BY DEF refuse
    <2> HIDE DEF x
    <2>3. ~Panics(refuse)
      BY <2>1, <2>2 DEF Panics
    <2>4. Refused(refuse)
      BY <2>1, <2>2 DEF Refused
    <2> QED
      BY <1>1, <2>3, <2>4
  <1>2. CASE Sound(Compile(i), IF Stops(i) THEN {Zero} ELSE {}, Cells)
    <2>1. PICK a : a = Compile(i) /\ Encodes(a, IF Stops(i) THEN {Zero} ELSE {}) /\ (~Stops(i) => Settles(a, Cells))
      BY <1>2 DEF Sound
    <2>2. NoRefusal(a) /\ (Encodable(a) <=> ~Stops(i))
      BY <2>1 DEF Encodes
    <2>3. IsCode(a) /\ DOMAIN a = 1 .. Len(a)
      BY <2>2, CodeLength DEF NoRefusal
    <2>4. Encodable(a) => ~Panics(a)
      BY <2>3 DEF Encodable, Panics
    <2>5. ~Encodable(a) => Panics(a)
      BY <2>2, PanicsIff DEF Bad
    <2> QED
      BY <2>1, <2>2, <2>4, <2>5
  <1> QED
    BY <1>1, <1>2, CompileVerdict DEF Verdict

------------------------------------------------------------------------------
(* The translator stops on the forms AbortsExact names, and on no other. *)
Decided ==
    /\ program \in Programs
    /\ phase \in {"arm", "translated", "refused", "aborted"}
    /\ phase # "arm" => (phase = "aborted" <=> \E j \in DOMAIN program : Stops(program[j]))

LEMMA DecidedStep == Decided /\ [Next]_vars => Decided'
  <1> SUFFICES ASSUME Decided, [Next]_vars PROVE Decided'
    OBVIOUS
  <1>1. CASE Translate
    <2>1. \A j \in DOMAIN program : Panics(Compile(program[j])) <=> Stops(program[j])
      BY ProgramAssumption, Translation DEF Decided
    <2>2. (\E j \in DOMAIN program : Panics(Compile(program[j]))) <=> (\E j \in DOMAIN program : Stops(program[j]))
      BY <2>1
    <2>3. program' = program /\ phase' = IF \E j \in DOMAIN program : Panics(Compile(program[j])) THEN "aborted" ELSE "translated"
      BY <1>1 DEF Translate
    <2> QED
      BY <2>2, <2>3 DEF Decided
  <1>2. CASE Execute
    <2>1. phase = "translated" /\ program' = program /\ phase' \in {"refused", "translated"}
      BY <1>2 DEF Execute
    <2> QED
      BY <2>1 DEF Decided
  <1>3. CASE UNCHANGED vars
    BY <1>3 DEF Decided, vars
  <1> QED
    BY <1>1, <1>2, <1>3 DEF Next

LEMMA DecidedAlways == Spec => []Decided
  <1>1. Init => Decided
    BY DEF Init, Decided
  <1> QED
    BY <1>1, DecidedStep, PTL DEF Spec

(* The translator panics on the forms HasNoForm and XzrPanics name, and on *)
(* no other, in every program and wherever they stand in it: the assembler *)
(* refuses an operand that is xzr, and a form the match has no arm for     *)
(* meets a todo!() (compile_chunk).                                        *)
THEOREM AbortsAreExact == Spec => []AbortsExact
  <1>1. Decided => AbortsExact
    BY DEF Decided, AbortsExact, Stops
  <1> QED
    BY <1>1, DecidedAlways, PTL

------------------------------------------------------------------------------
(* The guest's processor keeps its registers words. *)
ArmState == [reg : [Guests -> Words("x")], flags : ArmFlags, mem : Memory, taken : BOOLEAN]

LEMMA GuestNames ==
    /\ \A r \in Gprs : r \in Guests \/ r = "xzr"
    /\ \A r \in Addresses : r \in Guests /\ r # "xzr"
  BY GuestAssumption DEF Gprs, Addresses

LEMMA ReadType ==
    ASSUME NEW s \in ArmState, NEW c \in Bytewide, NEW r \in Gprs \cup Addresses
    PROVE  Read(s, c, r) \in Words(c) /\ Read(s, c, r) \in Nat
  <1>1. CASE r = "xzr"
    <2>1. Read(s, c, r) = 0
      BY <1>1 DEF Read
    <2>2. 0 \in Words(c)
      BY WidthFacts DEF Words
    <2> QED
      BY <2>1, <2>2
  <1>2. CASE r # "xzr"
    <2>1. s.reg[r] \in Words("x")
      BY <1>2, GuestNames DEF ArmState
    <2>2. s.reg[r] \in Int
      BY <2>1, WordFacts
    <2>3. Read(s, c, r) = Low(c, s.reg[r])
      BY <1>2 DEF Read
    <2> QED
      BY <2>2, <2>3, LowType
  <1> QED
    BY <1>1, <1>2

LEMMA WriteType ==
    ASSUME NEW s \in ArmState, NEW c \in Bytewide, NEW r \in Gprs \cup Addresses, NEW v \in Int
    PROVE  /\ Write(s, c, r, v) \in ArmState
           /\ Write(s, c, r, v).flags = s.flags /\ Write(s, c, r, v).mem = s.mem /\ Write(s, c, r, v).taken = s.taken
           /\ \A q \in Guests : Write(s, c, r, v).reg[q] = IF q = r THEN Low(c, v) ELSE s.reg[q]
  <1>1. Low(c, v) \in Words("x")
    BY LowType, WordFacts
  <1>2. CASE r = "xzr"
    BY <1>2, GuestAssumption DEF Write
  <1>3. CASE r # "xzr"
    <2>1. Write(s, c, r, v) = [s EXCEPT !.reg[r] = Low(c, v)] /\ r \in Guests
      BY <1>3, GuestNames DEF Write
    <2> QED
      BY <1>1, <2>1 DEF ArmState
  <1> QED
    BY <1>2, <1>3

SecondOK(m) ==
    \/ m.k = "reg" /\ m.r \in Gprs \cup Addresses
    \/ m.k = "imm" /\ m.v \in Int /\ m.lsl \in Nat
    \/ m.k = "shift" /\ m.r \in Gprs /\ m.by \in Shifts \cup Extensions /\ m.n \in Nat

LEMMA ExtendedType ==
    ASSUME NEW s \in ArmState, NEW c \in Bytewide, NEW r \in Gprs, NEW by \in Shifts \cup Extensions \cup {"none"}, NEW n \in Nat
    PROVE  Extended(s, c, r, by, n) \in Int
  <1>1. \A w : w \in Bytewide => Read(s, w, r) \in Nat
    BY ReadType
  <1>2. Pow2(n) \in Nat
    BY PowerType
  <1>3. \A w, v : w \in Bytewide /\ v \in Nat => v * Pow2(n) \in Int /\ Signed(w, v) * Pow2(n) \in Int
    <2>1. \A w, v : w \in Bytewide /\ v \in Nat => Signed(w, v) \in Int
      BY SignedFacts
    <2> QED
      BY <1>2, <2>1
  <1>4. Shift("shr", c, Read(s, c, r), n) \in Int /\ Shift("sar", c, Read(s, c, r), n) \in Int
    BY <1>1, ShiftType
  <1>5. by \in {"LSL", "LSR", "ASR", "UXTB", "SXTB", "UXTH", "SXTH", "UXTW", "SXTW", "UXTX", "SXTX", "none"}
    BY DEF Shifts, Extensions, Narrow
  <1> QED
    BY <1>1, <1>3, <1>4, <1>5, WidthsAre DEF Extended

LEMMA SecondType ==
    ASSUME NEW s \in ArmState, NEW c \in Bytewide, NEW m, SecondOK(m)
    PROVE  Second(s, c, m) \in Words(c) /\ Second(s, c, m) \in Nat
  <1>1. CASE m.k = "reg" /\ m.r \in Gprs \cup Addresses
    BY <1>1, ReadType, LowType DEF Second
  <1>2. CASE m.k = "imm" /\ m.v \in Int /\ m.lsl \in Nat
    <2>1. m.v * Pow2(m.lsl) \in Int
      BY <1>2, PowerType
    <2> QED
      BY <1>2, <2>1, LowType DEF Second
  <1>3. CASE m.k = "shift" /\ m.r \in Gprs /\ m.by \in Shifts \cup Extensions /\ m.n \in Nat
    <2>1. Extended(s, c, m.r, m.by, m.n) \in Int
      BY <1>3, ExtendedType
    <2> QED
      BY <1>3, <2>1, LowType DEF Second
  <1> QED
    BY <1>1, <1>2, <1>3 DEF SecondOK

LEMMA ConditionsAre ==
    Conditions = {"EQ", "NE", "LT", "GE", "GT", "LE", "CC", "CS", "HI", "LS", "VC", "VS", "MI", "PL", "AL", "NV"}
  BY DEF Conditions, jcc_cc

LEMMA ConditionType == \A cc \in Conditions : \A f : Condition(cc, f) \in BOOLEAN
  <1> SUFFICES ASSUME NEW cc \in Conditions, NEW f PROVE Condition(cc, f) \in BOOLEAN
    OBVIOUS
  <1>1. CASE cc \in {"EQ", "NE", "CS", "CC"}
    BY <1>1 DEF Condition
  <1>2. CASE cc \in {"MI", "PL", "VS", "VC"}
    BY <1>2 DEF Condition
  <1>3. CASE cc \in {"HI", "LS", "GE", "LT"}
    BY <1>3 DEF Condition
  <1>4. CASE cc \in {"GT", "LE", "AL", "NV"}
    BY <1>4 DEF Condition
  <1> QED
    BY <1>1, <1>2, <1>3, <1>4, ConditionsAre

LEMMA FlagsArm ==
    ASSUME NEW c \in Bytewide, NEW a \in Int, NEW b \in Int
    PROVE  AddFlags(c, a, b) \in ArmFlags /\ SubFlags(c, a, b) \in ArmFlags /\ ArmSubFlags(c, a, b) \in ArmFlags
  <1>1. \A p \in BOOLEAN : Bit(p) \in {0, 1}
    BY BitIs
  <1>2. AddFlags(c, a, b) \in ArmFlags
    <2>1. \A v, q, o : Flags(c, v, Bit(q), Bit(o)) \in ArmFlags
      BY DEF Flags, Bit, ArmFlags
    <2> QED
      BY <2>1 DEF AddFlags
  <1>3. SubFlags(c, a, b) \in ArmFlags
    <2>1. \A v, q, o : Flags(c, v, Bit(q), Bit(o)) \in ArmFlags
      BY DEF Flags, Bit, ArmFlags
    <2> QED
      BY <2>1 DEF SubFlags
  <1>4. \A f \in ArmFlags : [f EXCEPT !.c = 1 - @] \in ArmFlags
    BY DEF ArmFlags
  <1> QED
    BY <1>2, <1>3, <1>4 DEF ArmSubFlags

LEMMA CompareType ==
    ASSUME NEW s \in ArmState, NEW i, i.c \in Bytewide, i.n \in Gprs \cup Addresses, SecondOK(i.m), NEW op
    PROVE  Compare(s, i, op) \in ArmFlags
  <1>1. Read(s, i.c, i.n) \in Int /\ Second(s, i.c, i.m) \in Int
    BY ReadType, SecondType
  <1> QED
    BY <1>1, FlagsArm DEF Compare

LEMMA ArmQuotientType ==
    ASSUME NEW a \in Int, NEW b \in Int
    PROVE  ArmQuotient(a, b) \in Int
  <1> DEFINE x == IF a < 0 THEN -a ELSE a
             y == IF b < 0 THEN -b ELSE b
  <1>1. CASE b = 0
    BY <1>1 DEF ArmQuotient
  <1>2. CASE b # 0
    <2>1. x \in Int /\ y \in Nat \ {0}
      BY <1>2
    <2>2. x \div y \in Int
      <3> HIDE DEF x, y
      <3> QED
        BY <2>1, Division
    <2>3. ArmQuotient(a, b) = IF (a < 0) = (b < 0) THEN x \div y ELSE -(x \div y)
      BY <1>2 DEF ArmQuotient
    <2> HIDE DEF x, y
    <2> QED
      BY <2>2, <2>3
  <1> QED
    BY <1>1, <1>2

(* The value of every instruction that writes one. *)
IsValued(i) ==
    /\ i.c \in Bytewide /\ i.d \in Gprs \cup Addresses /\ i.n \in Gprs \cup Addresses /\ SecondOK(i.m)
    /\ \/ i.op \in {"ADD", "ADDS", "SUB", "SUBS", "AND", "ORR", "EOR", "BIC", "LSL", "LSR", "ASR", "MOV", "ADRP", "UDIV", "SDIV"}
       \/ i.op = "MOVK" /\ i.m.lsl \in Nat
       \/ i.op \in {"SXTB", "SXTH", "SXTW", "UXTB", "UXTH"} /\ i.n \in Gprs
       \/ i.op = "MADD" /\ i.a \in Gprs
       \/ i.op = "UBFIZ" /\ i.width \in Nat /\ i.lsb \in Nat
       \/ i.op = "CSEL" /\ i.cond \in Conditions
       \/ i.op = "CSET" /\ i.cond \in Conditions

LEMMA ResultType ==
    ASSUME NEW s \in ArmState, NEW i, IsValued(i)
    PROVE  Result(s, i) \in Int
  <1> DEFINE c == i.c
             a == Read(s, c, i.n)
             b == Second(s, c, i.m)
  <1>1. c \in Bytewide /\ a \in Nat /\ b \in Nat /\ a \in Words(c) /\ b \in Words(c)
    BY ReadType, SecondType DEF IsValued
  <1>2. \A v : v \in Nat => Complement(c, v) \in Int
    BY <1>1, LowType, WidthFacts DEF Complement
  <1> HIDE DEF a, b, c
  <1>3. CASE i.op \in {"ADD", "ADDS", "SUB", "SUBS", "MOV", "ADRP"}
    <2>1. Result(s, i) \in {a + b, a - b, b}
      BY <1>3 DEF Result, a, b, c
    <2> QED
      BY <1>1, <2>1
  <1>4. CASE i.op \in {"AND", "ORR", "EOR", "BIC"}
    <2>1. Result(s, i) \in {Combine("and", a, b), Combine("or", a, b), Combine("xor", a, b), Combine("and", a, Complement(c, b))}
      BY <1>4 DEF Result, a, b, c
    <2>2. \A o : o \in {"and", "or", "xor"} => Combine(o, a, b) \in Int /\ Combine(o, a, Complement(c, b)) \in Int
      <3>1. PICK x, y, z : x = a /\ y = b /\ z = Complement(c, b) /\ x \in Int /\ y \in Int /\ z \in Int
        BY <1>1, <1>2
      <3>2. ASSUME NEW o \in {"and", "or", "xor"} PROVE Combine(o, x, y) \in Int /\ Combine(o, x, z) \in Int
        <4>1. Combine(o, x, y) \in Nat
          BY <3>1, CombineType
        <4>2. Combine(o, x, z) \in Nat
          BY <3>1, CombineType
        <4> QED
          BY <4>1, <4>2
      <3> QED
        BY <3>1, <3>2
    <2> QED
      BY <2>1, <2>2
  <1>5. CASE i.op \in {"LSL", "LSR", "ASR"}
    <2>1. Result(s, i) \in {Shift("shl", c, a, b % Bits[c]), Shift("shr", c, a, b % Bits[c]), Shift("sar", c, a, b % Bits[c])}
      BY <1>5 DEF Result, a, b, c
    <2>2. Bits[c] \in Nat \ {0}
      BY <1>1, WidthFacts
    <2>3. b % Bits[c] \in Nat
      <3>1. PICK x, y : x = b /\ y = Bits[c] /\ x \in Int /\ y \in Nat \ {0}
        BY <1>1, <2>2
      <3>2. (x % y) \in Nat
        BY <3>1, Division
      <3> QED
        BY <3>1, <3>2
    <2>4. \A o : o \in {"shl", "shr", "sar"} => Shift(o, c, a, b % Bits[c]) \in Int
      BY <1>1, <2>3, ShiftType
    <2> QED
      BY <2>1, <2>4
  <1>6. CASE i.op = "MOVK"
    <2> DEFINE field == (Pow2(Bits["h"]) - 1) * Pow2(i.m.lsl)
               old == Read(s, c, i.d)
               mask == Complement(c, field)
    <2>1. Result(s, i) = Combine("and", old, mask) + b
      BY <1>6 DEF Result, b, c
    <2>2. old \in Nat
      BY <1>1, ReadType DEF IsValued
    <2>3. Combine("and", old, mask) \in Int
      <3>1. CASE mask \in Int
        BY <2>2, <3>1, CombineType
      <3>2. mask \in Int
        <4>1. Low(c, field) \in Int
          <5>1. Mod[c] \in Nat \ {0}
            BY <1>1, WidthFacts
          <5>2. CASE field \in Int
            BY <1>1, <5>2, LowType
          <5>3. field \in Int
            <6>1. i.m.lsl \in Nat
              BY <1>6 DEF IsValued
            <6>2. Pow2(i.m.lsl) \in Nat /\ Pow2(Bits["h"]) \in Nat
              BY <6>1, PowerType, WidthFacts, WidthsAre
            <6> QED
              BY <6>2
          <5> QED
            BY <5>2, <5>3
        <4>2. Mod[c] \in Nat
          BY <1>1, WidthFacts
        <4> QED
          BY <4>1, <4>2 DEF Complement
      <3> QED
        BY <3>1, <3>2
    <2> QED
      BY <1>1, <2>1, <2>3
  <1>7. CASE i.op \in {"UDIV", "SDIV"}
    <2>1. Result(s, i) \in {ArmQuotient(a, b), ArmQuotient(Signed(c, a), Signed(c, b))}
      BY <1>7 DEF Result, a, b, c
    <2>2. Signed(c, a) \in Int /\ Signed(c, b) \in Int
      BY <1>1, SignedFacts
    <2> QED
      BY <1>1, <2>1, <2>2, ArmQuotientType
  <1>8. CASE i.op \in {"SXTB", "SXTH", "SXTW", "UXTB", "UXTH"}
    <2>1. Result(s, i) = Extended(s, c, i.n, i.op, 0)
      BY <1>8 DEF Result, c
    <2>2. i.op \in Shifts \cup Extensions /\ i.n \in Gprs
      BY <1>8 DEF Extensions, Narrow, IsValued
    <2> QED
      BY <1>1, <2>1, <2>2, ExtendedType
  <1>9. CASE i.op = "MADD"
    <2>1. Result(s, i) = a * b + Read(s, c, i.a)
      BY <1>9 DEF Result, a, b, c
    <2>2. Read(s, c, i.a) \in Nat
      BY <1>1, <1>9, ReadType DEF IsValued
    <2> QED
      BY <1>1, <2>1, <2>2
  <1>10. CASE i.op = "UBFIZ"
    <2>1. Result(s, i) = (a % Pow2(i.width)) * Pow2(i.lsb)
      BY <1>10 DEF Result, a, c
    <2>2. Pow2(i.width) \in Nat \ {0} /\ Pow2(i.lsb) \in Nat
      BY <1>10, PowerType DEF IsValued
    <2>3. (a % Pow2(i.width)) \in Nat
      BY <1>1, <2>2, Division
    <2> QED
      BY <2>1, <2>2, <2>3
  <1>11. CASE i.op = "CSEL"
    <2>1. Result(s, i) \in {a, b}
      BY <1>11 DEF Result, a, b, c
    <2> QED
      BY <1>1, <2>1
  <1>12. CASE i.op = "CSET"
    <2>1. Result(s, i) = Bit(Condition(i.cond, s.flags))
      BY <1>12 DEF Result
    <2> QED
      BY <2>1 DEF Bit
  <1> QED
    BY <1>3, <1>4, <1>5, <1>6, <1>7, <1>8, <1>9, <1>10, <1>11, <1>12 DEF IsValued

LEMMA ModeGuest ==
    ASSUME NEW m, IsMode(m), NEW s \in ArmState
    PROVE  /\ ArmAddress(s, m) \in Words("x")
           /\ WriteBack(s, m) \in ArmState /\ WriteBack(s, m).flags = s.flags /\ WriteBack(s, m).mem = s.mem /\ WriteBack(s, m).taken = s.taken
  <1>1. m.base \in Guests /\ s.reg[m.base] \in Words("x")
    BY ModeFacts, GuestNames DEF ArmState
  <1>2. s.reg[m.base] \in Int
    BY <1>1, WordFacts
  <1>3. ArmAddress(s, m) \in Words("x")
    <2>1. CASE m.k = "ext"
      <3>1. m.by \in Shifts \cup Extensions \cup {"none"} /\ m.r \in Gprs /\ m.n \in Nat
        BY <2>1, ModeFacts DEF Shifts, Extensions, Narrow
      <3>2. Extended(s, "x", m.r, m.by, m.n) \in Int
        BY <3>1, ExtendedType, WidthsAre
      <3>3. ArmAddress(s, m) = Low("x", s.reg[m.base] + Extended(s, "x", m.r, m.by, m.n))
        BY <2>1 DEF ArmAddress
      <3> QED
        BY <1>2, <3>2, <3>3, LowType, WidthsAre
    <2>2. CASE m.k # "ext"
      <3>1. m.imm \in Int /\ m.k \in {"off", "pre", "post"}
        BY <2>2, ModeFacts
      <3>2. ArmAddress(s, m) = Low("x", s.reg[m.base] + IF m.k = "post" THEN 0 ELSE m.imm)
        BY <3>1 DEF ArmAddress
      <3>3. s.reg[m.base] + (IF m.k = "post" THEN 0 ELSE m.imm) \in Int
        BY <1>2, <3>1
      <3> QED
        BY <3>2, <3>3, LowType, WidthsAre
    <2> QED
      BY <2>1, <2>2
  <1>4. CASE m.k \in {"pre", "post"}
    <2>1. WriteBack(s, m) = [s EXCEPT !.reg[m.base] = Low("x", s.reg[m.base] + m.imm)]
      BY <1>4 DEF WriteBack
    <2>2. Low("x", s.reg[m.base] + m.imm) \in Words("x")
      <3>1. m.imm \in Int
        BY <1>4, ModeFacts
      <3>2. s.reg[m.base] + m.imm \in Int
        BY <1>2, <3>1
      <3> QED
        BY <3>2, LowType, WidthsAre
    <2> QED
      BY <1>1, <1>3, <2>1, <2>2 DEF ArmState
  <1>5. CASE m.k \notin {"pre", "post"}
    BY <1>3, <1>5 DEF WriteBack
  <1> QED
    BY <1>4, <1>5

LEMMA TransferType ==
    ASSUME NEW s \in ArmState, NEW i, IsTransfer(i), i.m.k # "literal"
    PROVE  Transfer(s, i) \in ArmState
  <1>1. /\ IsMode(i.m) /\ i.c \in Widths /\ i.d \in Gprs /\ i.op \in MemoryOps
        /\ i.op \in {"LDP", "STP"} => i.d2 \in Gprs
    BY DEF IsTransfer, IsMode, MemoryOps, Loads, Stores
  <1>2. PICK a, t : a = ArmAddress(s, i.m) /\ a \in Words("x") /\ t = WriteBack(s, i.m) /\ t \in ArmState /\ t.mem = s.mem
    BY <1>1, ModeGuest
  <1>3. i.c \in Bytewide /\ Size(i) \in Bytewide
    BY <1>1, WidthsAre DEF Size
  <1>4. PICK b : b = Low("x", a + Bytes[i.c]) /\ b \in Words("x")
    <2>1. a \in Int /\ Bytes[i.c] \in Int
      BY <1>1, <1>2, WordFacts DEF Bytes, Widths
    <2>2. a + Bytes[i.c] \in Int
      BY <2>1
    <2> QED
      BY <2>2, LowType, WidthsAre
  <1>5. s.mem \in Memory
    BY DEF ArmState
  <1>6. CASE i.op \in Loads
    <2>1. Transfer(s, i) = Write(t, i.c, i.d, Loaded(s, i, a))
      BY <1>2, <1>6 DEF Transfer, Loads, Stores
    <2>2. Loaded(s, i, a) \in Int
      <3>1. Load(s.mem, a) \in Int
        BY <1>2, <1>5, LoadType
      <3>2. Low(Size(i), Load(s.mem, a)) \in Int
        BY <1>3, <3>1, LowType
      <3>3. Signed(Size(i), Low(Size(i), Load(s.mem, a))) \in Int
        BY <1>3, <3>2, SignedFacts
      <3> QED
        BY <3>2, <3>3 DEF Loaded
    <2> QED
      BY <1>1, <1>2, <1>3, <2>1, <2>2, WriteType
  <1>7. CASE i.op \in Stores
    <2>1. Transfer(s, i) = [t EXCEPT !.mem = Store(t.mem, a, Size(i), Read(s, i.c, i.d))]
      BY <1>2, <1>7 DEF Transfer, Stores, Loads
    <2>2. Read(s, i.c, i.d) \in Int
      BY <1>1, <1>3, ReadType
    <2>3. Store(t.mem, a, Size(i), Read(s, i.c, i.d)) \in Memory
      BY <1>2, <1>3, <1>5, <2>2, StoreType
    <2> QED
      BY <1>2, <2>1, <2>3 DEF ArmState
  <1>8. CASE i.op = "LDP"
    <2>1. Transfer(s, i) = Write(Write(t, i.c, i.d, Load(s.mem, a)), i.c, i.d2, Load(s.mem, b))
      BY <1>2, <1>4, <1>8 DEF Transfer, Stores, Loads
    <2>2. Load(s.mem, a) \in Int /\ Load(s.mem, b) \in Int
      BY <1>2, <1>4, <1>5, LoadType
    <2>3. Write(t, i.c, i.d, Load(s.mem, a)) \in ArmState
      BY <1>1, <1>2, <1>3, <2>2, WriteType
    <2> QED
      BY <1>1, <1>3, <1>8, <2>1, <2>2, <2>3, WriteType
  <1>9. CASE i.op = "STP"
    <2>1. Transfer(s, i) = [t EXCEPT !.mem = Store(Store(t.mem, a, i.c, Read(s, i.c, i.d)), b, i.c, Read(s, i.c, i.d2))]
      BY <1>2, <1>4, <1>9 DEF Transfer, Stores, Loads
    <2>2. Read(s, i.c, i.d) \in Int /\ Read(s, i.c, i.d2) \in Int
      BY <1>1, <1>3, <1>9, ReadType
    <2>3. Store(t.mem, a, i.c, Read(s, i.c, i.d)) \in Memory
      BY <1>2, <1>3, <1>5, <2>2, StoreType
    <2>4. Store(Store(t.mem, a, i.c, Read(s, i.c, i.d)), b, i.c, Read(s, i.c, i.d2)) \in Memory
      BY <1>3, <1>4, <2>2, <2>3, StoreType
    <2> QED
      BY <1>2, <2>1, <2>4 DEF ArmState
  <1> QED
    BY <1>1, <1>6, <1>7, <1>8, <1>9 DEF MemoryOps

IsCompared(i) == i.c \in Bytewide /\ i.n \in Gprs \cup Addresses /\ SecondOK(i.m)
IsBranch(i)   == i.op \in Branches /\ (i.op = "B.cond" => i.cond \in Conditions)

LEMMA Classes ==
    ASSUME NEW i, IsInstruction(i), ~Stops(i)
    PROVE  \/ IsTransfer(i) /\ i.m.k # "literal" /\ i.op \in MemoryOps
           \/ i.op \in {"CMP", "CMN"} /\ IsCompared(i)
           \/ i.op = "CCMP" /\ IsCompared(i) /\ i.cond \in Conditions /\ i.nzcv \in ArmFlags
           \/ IsBranch(i)
           \/ IsValued(i) /\ IsCompared(i)
  <1>0. ~HasNoForm(i)
    BY DEF Stops
  <1>1. \A c \in Widths : c \in Bytewide /\ Bits[c] \in Nat /\ Words(c) \subseteq Nat
    BY WidthsAre, WidthFacts DEF Words
  <1>2. Short \subseteq Int
    BY DEF Short
  <1>3. "h" \in Bytewide /\ Bits["h"] \in Nat /\ Words("h") \subseteq Int /\ Words("x") \subseteq Int
    BY WidthsAre, WidthFacts DEF Words
  <1>4. "xzr" \in Gprs
    BY DEF Gprs
  <1>5. CASE IsArithmetic(i)
    <2>1. CASE i \in Operands3({"ADD", "ADDS", "SUB", "SUBS"}, Gprs, Gprs, Register \cup Shifted(Shifts \cup Extensions))
      BY <1>1, <2>1 DEF Operands3, Register, Shifted, IsValued, IsCompared, SecondOK
    <2>2. CASE i \in Operands3({"ADD", "ADDS", "SUB", "SUBS"}, Addresses, Addresses, [k : {"imm"}, v : Short, lsl : Nat])
      BY <1>1, <1>2, <2>2 DEF Operands3, IsValued, IsCompared, SecondOK
    <2>3. CASE i \in Operands3({"AND", "ORR", "EOR", "BIC"}, Gprs, Gprs, Register \cup Shifted(Shifts \cup {"ROR"}))
      <3>1. i.m.k # "shift"
        BY <1>0, <2>3 DEF HasNoForm, Is, Operands3
      <3>2. i.m \in Register
        BY <2>3, <3>1 DEF Operands3, Shifted
      <3> QED
        BY <1>1, <2>3, <3>2 DEF Operands3, Register, IsValued, IsCompared, SecondOK
    <2>4. CASE i \in Operands3({"AND", "ORR", "EOR"}, Addresses, Gprs, Constant(Words(i.c)))
      <3>1. i.m.k = "imm" /\ i.m.v \in Words(i.c) /\ i.m.lsl = 0 /\ i.c \in Widths
        BY <2>4 DEF Operands3, Constant
      <3>2. i.m.v \in Int
        BY <1>1, <3>1
      <3> QED
        BY <1>1, <2>4, <3>1, <3>2 DEF Operands3, IsValued, IsCompared, SecondOK
    <2>5. CASE i \in Operands3({"LSL", "LSR", "ASR"}, Gprs, Gprs, Register \cup Constant(0 .. Bits[i.c] - 1))
      <3>1. i.c \in Widths /\ (i.m.k = "imm" => i.m.v \in 0 .. Bits[i.c] - 1 /\ i.m.lsl = 0)
        BY <2>5 DEF Operands3, Constant, Register
      <3>2. i.m.k = "imm" => i.m.v \in Int
        BY <1>1, <3>1
      <3> QED
        BY <1>1, <2>5, <3>1, <3>2 DEF Operands3, Register, Constant, IsValued, IsCompared, SecondOK
    <2>6. CASE i \in Operands3({"UDIV", "SDIV"}, Gprs, Gprs, Register)
      BY <1>1, <2>6 DEF Operands3, Register, IsValued, IsCompared, SecondOK
    <2>7. CASE i \in [op : {"MADD"}, c : Widths, d : Gprs, n : Gprs, m : Register, a : Gprs]
      BY <1>1, <2>7 DEF Register, IsValued, IsCompared, SecondOK
    <2>8. CASE i \in [op : {"UBFIZ"}, c : Widths, d : Gprs, n : Gprs, m : Constant({0}), lsb : Nat, width : 1 .. Bits[i.c]]
      <3>1. i.c \in Widths /\ i.width \in 1 .. Bits[i.c] /\ i.lsb \in Nat
        BY <2>8
      <3>2. i.width \in Nat
        BY <1>1, <3>1
      <3> QED
        BY <1>1, <2>8, <3>2 DEF Constant, IsValued, IsCompared, SecondOK
    <2> QED
      BY <1>5, <2>1, <2>2, <2>3, <2>4, <2>5, <2>6, <2>7, <2>8, Zenon DEF IsArithmetic
  <1>6. CASE IsMove(i)
    <2>1. CASE i \in Operands3({"MOV"}, Gprs \cup Addresses, {"xzr"}, [k : {"reg"}, r : Gprs \cup Addresses] \cup Constant(Words(i.c)))
      <3>1. i.c \in Widths /\ (i.m.k = "imm" => i.m.v \in Words(i.c) /\ i.m.lsl = 0)
        BY <2>1 DEF Operands3, Constant
      <3>2. i.m.k = "imm" => i.m.v \in Int
        BY <1>1, <3>1
      <3> QED
        BY <1>1, <1>4, <2>1, <3>1, <3>2 DEF Operands3, Constant, IsValued, IsCompared, SecondOK
    <2>2. CASE i \in Operands3({"MOVK"}, Gprs, {"xzr"}, [k : {"imm"}, v : Words("h"), lsl : {Bits["h"] * k : k \in 0 .. Bytes[i.c] \div 2 - 1}])
      <3>1. \A k \in 0 .. Bytes[i.c] \div 2 - 1 : Bits["h"] * k \in Nat
        <4>1. Bits["h"] \in Nat
          BY <1>3
        <4> QED
          BY <4>1
      <3>2. i.m.k = "imm" /\ i.m.lsl \in Nat /\ i.m.v \in Int
        <4>1. i.m.lsl \in {Bits["h"] * k : k \in 0 .. Bytes[i.c] \div 2 - 1} /\ i.m.k = "imm" /\ i.m.v \in Words("h")
          BY <2>2 DEF Operands3
        <4> QED
          BY <1>3, <3>1, <4>1
      <3> QED
        BY <1>1, <1>4, <2>2, <3>2 DEF Operands3, IsValued, IsCompared, SecondOK
    <2>3. CASE i \in [op : {"ADRP"}, c : {"x"}, d : Gprs, n : {"xzr"}, m : Constant(Words("x"))]
      BY <1>1, <1>3, <1>4, <2>3 DEF Constant, IsValued, IsCompared, SecondOK, Widths
    <2>4. CASE \/ i \in Operands3({"SXTB", "SXTH"}, Gprs, Gprs, Constant({0}))
               \/ i \in [op : {"SXTW"}, c : {"x"}, d : Gprs, n : Gprs, m : Constant({0})]
               \/ i \in [op : {"UXTB", "UXTH"}, c : {"w"}, d : Gprs, n : Gprs, m : Constant({0})]
      <3>1. i \in [op : {"SXTB", "SXTH", "SXTW", "UXTB", "UXTH"}, c : Widths, d : Gprs, n : Gprs, m : Constant({0})]
        BY <2>4 DEF Operands3, Widths
      <3> QED
        BY <1>1, <3>1 DEF Constant, IsValued, IsCompared, SecondOK
    <2> QED
      BY <1>6, <2>1, <2>2, <2>3, <2>4, Zenon DEF IsMove
  <1>7. CASE IsConditional(i)
    <2>1. CASE i \in Operands2({"CMP", "CMN"}, Gprs, Register \cup Shifted(Shifts \cup Extensions))
      BY <1>1, <2>1 DEF Operands2, Register, Shifted, IsCompared, SecondOK
    <2>2. CASE i \in Operands2({"CMP", "CMN"}, Addresses, [k : {"imm"}, v : Short, lsl : Nat])
      BY <1>1, <1>2, <2>2 DEF Operands2, IsCompared, SecondOK
    <2>3. CASE i \in [op : {"CCMP"}, c : Widths, n : Gprs, m : Register \cup Constant(Short), cond : Conditions, nzcv : ArmFlags]
      <3>1. i.op = "CCMP" /\ i.c \in Bytewide /\ i.n \in Gprs /\ i.cond \in Conditions /\ i.nzcv \in ArmFlags
        BY <1>1, <2>3
      <3>2. SecondOK(i.m)
        <4>1. i.m \in Register \/ i.m \in Constant(Short)
          BY <2>3
        <4>2. CASE i.m \in Register
          BY <4>2 DEF Register, SecondOK
        <4>3. CASE i.m \in Constant(Short)
          <5>1. i.m.k = "imm" /\ i.m.v \in Short /\ i.m.lsl = 0
            BY <4>3 DEF Constant
          <5>2. i.m.v \in Int
            BY <1>2, <5>1
          <5> QED
            BY <5>1, <5>2 DEF SecondOK
        <4> QED
          BY <4>1, <4>2, <4>3
      <3> QED
        BY <3>1, <3>2 DEF IsCompared
    <2>4. CASE i \in [op : {"CSEL"}, c : Widths, d : Gprs, n : Gprs, m : Register, cond : Conditions]
      BY <1>1, <2>4 DEF Register, IsValued, IsCompared, SecondOK
    <2>5. CASE i \in [op : {"CSET"}, c : Widths, d : Gprs, n : {"xzr"}, m : Constant({0}), cond : Conditions]
      BY <1>1, <1>4, <2>5 DEF Constant, IsValued, IsCompared, SecondOK
    <2>6. CASE \/ i \in [op : {"B.cond"}, c : {"x"}, n : {"xzr"}, m : Constant({0}), cond : Conditions]
               \/ i \in Operands2({"CBZ", "CBNZ"}, Gprs, Constant({0}))
               \/ i \in [op : {"TBZ", "TBNZ"}, c : Widths, n : Gprs, m : Constant({0}), bit : 0 .. Bits[i.c] - 1]
      BY <2>6 DEF Operands2, IsBranch, Branches
    <2> QED
      BY <1>7, <2>1, <2>2, <2>3, <2>4, <2>5, <2>6, Zenon DEF IsConditional
  <1>8. CASE IsTransfer(i)
    <2>1. i.m.k # "literal"
      BY <1>0 DEF HasNoForm
    <2>2. i.op \in MemoryOps
      BY <1>8 DEF IsTransfer, MemoryOps
    <2> QED
      BY <1>8, <2>1, <2>2
  <1> QED
    BY <1>5, <1>6, <1>7, <1>8 DEF IsInstruction

LEMMA ArmStepType ==
    ASSUME NEW s \in ArmState, NEW i, IsInstruction(i), ~Stops(i)
    PROVE  ArmStep(s, i) \in ArmState
  <1>1. CASE IsTransfer(i) /\ i.m.k # "literal" /\ i.op \in MemoryOps
    <2>1. ArmStep(s, i) = Transfer(s, i)
      BY <1>1 DEF ArmStep, MemoryOps, Loads, Stores
    <2> QED
      BY <1>1, <2>1, TransferType
  <1>2. CASE i.op \in {"CMP", "CMN"} /\ IsCompared(i)
    <2>1. Compare(s, i, i.op) \in ArmFlags
      BY <1>2, CompareType DEF IsCompared
    <2>2. ArmStep(s, i) = [s EXCEPT !.flags = Compare(s, i, i.op)]
      BY <1>2 DEF ArmStep, MemoryOps, Loads, Stores
    <2> QED
      BY <2>1, <2>2 DEF ArmState
  <1>3. CASE i.op = "CCMP" /\ IsCompared(i) /\ i.cond \in Conditions /\ i.nzcv \in ArmFlags
    <2>1. Compare(s, i, "CMP") \in ArmFlags
      BY <1>3, CompareType DEF IsCompared
    <2>2. ArmStep(s, i) = [s EXCEPT !.flags = IF Condition(i.cond, s.flags) THEN Compare(s, i, "CMP") ELSE i.nzcv]
      BY <1>3 DEF ArmStep, MemoryOps, Loads, Stores
    <2> QED
      BY <1>3, <2>1, <2>2 DEF ArmState
  <1>4. CASE IsBranch(i)
    <2>1. CASE i.op = "B.cond"
      <3>1. Condition(i.cond, s.flags) \in BOOLEAN
        BY <1>4, <2>1, ConditionType DEF IsBranch
      <3>2. ArmStep(s, i) = [s EXCEPT !.taken = Condition(i.cond, s.flags)]
        BY <2>1 DEF ArmStep, MemoryOps, Loads, Stores
      <3> QED
        BY <3>1, <3>2 DEF ArmState
    <2>2. CASE i.op \in {"CBZ", "CBNZ"}
      <3>1. ArmStep(s, i) = [s EXCEPT !.taken = (Read(s, i.c, i.n) = 0) = (i.op = "CBZ")]
        BY <2>2 DEF ArmStep, MemoryOps, Loads, Stores
      <3> QED
        BY <3>1 DEF ArmState
    <2>3. CASE i.op \in {"TBZ", "TBNZ"}
      <3>1. ArmStep(s, i) = [s EXCEPT !.taken = ((Read(s, i.c, i.n) \div Pow2(i.bit)) % 2 = 0) = (i.op = "TBZ")]
        BY <2>3 DEF ArmStep, MemoryOps, Loads, Stores
      <3> QED
        BY <3>1 DEF ArmState
    <2> QED
      BY <1>4, <2>1, <2>2, <2>3 DEF IsBranch, Branches
  <1>5. CASE IsValued(i) /\ IsCompared(i)
    <2>1. Result(s, i) \in Int /\ i.c \in Bytewide /\ i.d \in Gprs \cup Addresses
      BY <1>5, ResultType DEF IsValued
    <2>2. Write(s, i.c, i.d, Result(s, i)) \in ArmState
      BY <2>1, WriteType
    <2>3. CASE i.op \in {"ADDS", "SUBS"}
      <3>1. Compare(s, i, i.op) \in ArmFlags
        BY <1>5, CompareType DEF IsCompared
      <3>2. ArmStep(s, i) = [Write(s, i.c, i.d, Result(s, i)) EXCEPT !.flags = Compare(s, i, i.op)]
        BY <2>3 DEF ArmStep, MemoryOps, Loads, Stores
      <3> QED
        BY <2>2, <3>1, <3>2 DEF ArmState
    <2>4. CASE i.op \notin {"ADDS", "SUBS"}
      <3>1. ArmStep(s, i) = Write(s, i.c, i.d, Result(s, i))
        BY <1>5, <2>4 DEF ArmStep, MemoryOps, Loads, Stores, IsValued
      <3> QED
        BY <2>2, <3>1
    <2> QED
      BY <2>3, <2>4
  <1> QED
    BY <1>1, <1>2, <1>3, <1>4, <1>5, Classes

------------------------------------------------------------------------------
(* Both processors of every world are in a state between two instructions. *)
Typed ==
    /\ Decided
    /\ pos \in 1 .. Len(program) + 1
    /\ \A v \in Valuations : worlds[v].arm \in ArmState /\ Rest(worlds[v].native, Cells)

LEMMA ArmRunType ==
    ASSUME NEW s \in ArmState, NEW i, IsInstruction(i), ~Stops(i)
    PROVE  ArmRun(s, i) \in ArmState
  BY ArmStepType DEF ArmRun

LEMMA ArmStartType ==
    ASSUME NEW v \in Valuations
    PROVE  ArmStart(v) \in ArmState
  <1>1. v.reg \in [Guests -> Words("x")] /\ v.flags \in ArmFlags
    BY ValuationAssumption
  <1>2. <<>> \in Memory
    <2>1. <<>> \in [{} -> Bytewide \X Nat] /\ {} \in SUBSET Words("x")
      OBVIOUS
    <2> QED
      BY <2>1 DEF Memory
  <1> QED
    BY <1>1, <1>2 DEF ArmStart, ArmState

LEMMA NativeStartType ==
    ASSUME NEW v \in Valuations
    PROVE  Rest(NativeStart(v), Cells)
  <1> DEFINE Guest(n) == {r \in Guests \cap DOMAIN Direct : Direct[r] = n}
             f == [n \in Range(Direct) \cup {"rax"} |-> IF Guest(n) = {} THEN 1 ELSE v.reg[CHOOSE r \in Guest(n) : TRUE]]
             g == [r \in Guests \ DOMAIN Direct |-> v.reg[r]]
  <1>1. v.reg \in [Guests -> Words("x")] /\ v.flags \in ArmFlags
    BY ValuationAssumption
  <1>2. Range(Direct) \cup {"rax"} = Names
    BY DEF Range, Names
  <1>3. 1 \in Words("x")
    BY WordFacts
  <1>4. f \in [Names -> Words("x")]
    <2>1. ASSUME NEW n \in Names
          PROVE  (IF Guest(n) = {} THEN 1 ELSE v.reg[CHOOSE r \in Guest(n) : TRUE]) \in Words("x")
      <3>1. CASE Guest(n) = {}
        BY <1>3, <3>1
      <3>2. CASE Guest(n) # {}
        <4>1. (CHOOSE r \in Guest(n) : TRUE) \in Guest(n)
          BY <3>2
        <4>2. (CHOOSE r \in Guest(n) : TRUE) \in Guests
          BY <4>1
        <4> QED
          BY <1>1, <3>2, <4>2
      <3> QED
        BY <3>1, <3>2
    <2> QED
      BY <1>2, <2>1
  <1>5. g \in [Cells -> Words("x")]
    BY <1>1 DEF Cells
  <1>6. v.flags \in FlagWords
    BY <1>1 DEF ArmFlags, FlagWords
  <1>7. <<>> \in Memory
    <2>1. <<>> \in [{} -> Bytewide \X Nat] /\ {} \in SUBSET Words("x")
      OBVIOUS
    <2> QED
      BY <2>1 DEF Memory
  <1>8. NativeStart(v) = [reg |-> f, cell |-> g, flags |-> v.flags, mem |-> <<>>, stack |-> <<>>, skip |-> 0,
                          fault |-> FALSE, taken |-> FALSE]
    BY DEF NativeStart
  <1> HIDE DEF f, g
  <1> QED
    BY <1>4, <1>5, <1>6, <1>7, <1>8 DEF Rest, State

LEMMA TypedInit == Init => Typed
  <1> SUFFICES ASSUME Init PROVE Typed
    OBVIOUS
  <1>1. Decided
    BY DEF Init, Decided
  <1>2. Len(program) \in Nat
    BY ProgramAssumption DEF Init
  <1>3. \A v \in Valuations : worlds[v].arm = ArmStart(v) /\ worlds[v].native = NativeStart(v)
    BY DEF Init, Start
  <1> QED
    BY <1>1, <1>2, <1>3, ArmStartType, NativeStartType DEF Init, Typed

LEMMA TypedStep == Typed /\ [Next]_vars => Typed'
  <1> SUFFICES ASSUME Typed, [Next]_vars PROVE Typed'
    OBVIOUS
  <1>1. Decided'
    BY DecidedStep DEF Typed
  <1>2. program' = program
    BY DEF Next, Translate, Execute, vars
  <1>3. CASE pos' = pos /\ worlds' = worlds
    BY <1>1, <1>2, <1>3 DEF Typed
  <1>4. CASE Execute /\ ~Refused(Compile(program[pos]))
    <2> DEFINE i == program[pos]
    <2>1. phase = "translated" /\ pos <= Len(program)
      BY <1>4 DEF Execute
    <2>2. /\ worlds' = [v \in Valuations |-> [arm    |-> ArmRun(worlds[v].arm, i),
                                              native |-> Run(worlds[v].native, Compile(i))]]
          /\ pos' = pos + 1
      BY <1>4 DEF Execute
    <2>3. Len(program) \in Nat /\ pos \in DOMAIN program /\ IsInstruction(i)
      BY <2>1, ProgramAssumption DEF Typed, Decided
    <2>4. ~Stops(i)
      BY <2>1, <2>3 DEF Typed, Decided
    <2>5. Settles(Compile(i), Cells)
      BY <1>4, <2>3, <2>4, Translation
    <2>6. ASSUME NEW v \in Valuations
          PROVE  worlds'[v].arm \in ArmState /\ Rest(worlds'[v].native, Cells)
      <3>1. worlds'[v].arm = ArmRun(worlds[v].arm, i) /\ worlds'[v].native = Run(worlds[v].native, Compile(i))
        BY <2>2
      <3>2. worlds[v].arm \in ArmState /\ Rest(worlds[v].native, Cells)
        BY DEF Typed
      <3>3. ArmRun(worlds[v].arm, i) \in ArmState
        BY <2>3, <2>4, <3>2, ArmRunType
      <3>4. Rest(Run(worlds[v].native, Compile(i)), Cells)
        BY <2>5, <3>2 DEF Settles
      <3> QED
        BY <3>1, <3>3, <3>4
    <2>7. pos' \in 1 .. Len(program') + 1
      BY <1>2, <2>1, <2>2, <2>3 DEF Typed
    <2> QED
      BY <1>1, <2>6, <2>7 DEF Typed
  <1> QED
    BY <1>3, <1>4 DEF Next, Translate, Execute, vars

LEMMA TypedAlways == Spec => []Typed
  BY TypedInit, TypedStep, PTL DEF Spec

(* The type invariant, for every program, width of the machine and set of  *)
(* start states: what a sequence of translated code pushes it also pops,   *)
(* whatever branches and faults there are inside it (load_store.rs and     *)
(* arith.rs).                                                              *)
THEOREM RegistersTyped == Spec => []InstrTypeOK
  <1>1. Typed => InstrTypeOK
    <2> SUFFICES ASSUME Typed PROVE InstrTypeOK
      OBVIOUS
    <2>1. ASSUME NEW v \in Valuations
          PROVE  /\ \A r \in Guests : worlds[v].arm.reg[r] \in Words("x")
                 /\ \A n \in DOMAIN worlds[v].native.reg : worlds[v].native.reg[n] \in Words("x")
                 /\ worlds[v].native.fault \/ worlds[v].native.stack = <<>>
      <3>1. worlds[v].arm \in ArmState /\ Rest(worlds[v].native, Cells)
        BY DEF Typed
      <3> QED
        BY <3>1 DEF ArmState, Rest, State
    <2> QED
      BY <2>1 DEF Typed, Decided, InstrTypeOK
  <1> QED
    BY <1>1, TypedAlways, PTL
==============================================================================
