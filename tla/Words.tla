-------------------------------- MODULE Words --------------------------------
(***************************************************************************)
(* Machine words, memory and condition flags, shared by the two processors *)
(* that NativeCode and ArmData describe.                                   *)
(*                                                                         *)
(* Widths keep their proportions: a byte has ByteBits bits (8 on the       *)
(* machine), and "b", "h", "w" and "x" are 1, 2, 4 and 8 bytes.  A flag    *)
(* the manual leaves undefined is Undef, neither 0 nor 1.                  *)
(***************************************************************************)
EXTENDS Integers, Sequences

CONSTANTS ByteBits,
          Content(_)   \* what an address holds that was not written yet

ASSUME ByteAssumption == ByteBits \in Nat \ {0}

Pow2(n) == LET power[k \in 0 .. n] == IF k = 0 THEN 1 ELSE 2 * power[k - 1] IN power[n]

Bytes  == [b |-> 1, h |-> 2, w |-> 4, x |-> 8]
Bits   == [c \in DOMAIN Bytes |-> ByteBits * Bytes[c]]
Mod    == [c \in DOMAIN Bytes |-> Pow2(Bits[c])]

Widths   == {"w", "x"}
Words(c) == 0 .. Mod[c] - 1
ArmFlags == [n : {0, 1}, z : {0, 1}, c : {0, 1}, v : {0, 1}]

Low(c, v)    == v % Mod[c]
Signed(c, v) == IF Low(c, v) < Mod[c] \div 2 THEN Low(c, v) ELSE Low(c, v) - Mod[c]
Complement(c, v) == Mod[c] - 1 - Low(c, v)
Bit(p)       == IF p THEN 1 ELSE 0
Undef        == 2

ASSUME ContentAssumption == \A a \in Words("x") : Content(a) \in Nat

(* The word whose bits are an "and", "or" or "xor" of those of a and b. *)
Combine(op, a, b) ==
    LET bit(v, k) == (v \div Pow2(k)) % 2
        digit(x, y) == CASE op = "and" -> x * y
                         [] op = "or"  -> x + y - x * y
                         [] op = "xor" -> (x + y) % 2
        sum[k \in 0 .. Bits["x"]] ==
            IF k = 0 THEN 0 ELSE sum[k - 1] + digit(bit(a, k - 1), bit(b, k - 1)) * Pow2(k - 1)
    IN  sum[Bits["x"]]

(* Memory: the last write to each address, with its width. *)
Load(mem, a)        == IF a \in DOMAIN mem THEN mem[a][2] ELSE Content(a)
Store(mem, a, c, v) == [z \in DOMAIN mem \cup {a} |-> IF z = a THEN <<c, Low(c, v)>> ELSE mem[z]]

Shift(op, c, v, n) ==
    CASE op = "shl" -> v * Pow2(n)
      [] op = "shr" -> Low(c, v) \div Pow2(n)
      [] op = "sar" -> Signed(c, v) \div Pow2(n)

(* Flags of a result, of a sum, and of a difference with a borrow in c. *)
Flags(c, v, carry, overflow) ==
    [z |-> Bit(Low(c, v) = 0), n |-> Bit(Signed(c, v) < 0), c |-> carry, v |-> overflow]
AddFlags(c, a, b) ==
    Flags(c, a + b, Bit(a + b >= Mod[c]), Bit(Signed(c, a) + Signed(c, b) # Signed(c, a + b)))
SubFlags(c, a, b) ==
    Flags(c, a - b, Bit(a < b), Bit(Signed(c, a) - Signed(c, b) # Signed(c, a - b)))
==============================================================================
