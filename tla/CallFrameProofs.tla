---------------------------- MODULE CallFrameProofs ----------------------------
(***************************************************************************)
(* The frame runner::call builds is right for every number of arguments:   *)
(* aligned, complete, and taken down without releasing more than was       *)
(* pushed.  The inductive invariant gives, for each point of the block,    *)
(* where rsp is and which of the words above it are in place.              *)
(***************************************************************************)
EXTENDS CallFrame, TLAPS

Words == Args \cup {Junk} \cup 0 .. MaxArgs
n     == Len(argv)
odd   == n % 2

(* rsp once argc is pushed. *)
Entry == -(n + odd) - 4

Terminated(sp) == mem[sp] = 0 /\ mem[sp + 1] = 0
CopiedFrom(c)  == \A i \in c + 1 .. n : mem[Entry + i] = argv[i]

TypeInv ==
    /\ argv \in Seq(Args) /\ n \in 0 .. MaxArgs
    /\ mem \in [-Depth .. -1 -> Words]
    /\ at \in {"align", "terminate", "reserve", "copy", "guest", "popArgs", "popAlign", "done"}

AtAlign     == at = "align"     => rsp = 0 /\ argc = n /\ add_align = odd
AtTerminate == at = "terminate" => rsp = -1 - odd /\ argc = n
AtReserve   == at = "reserve"   => rsp = -3 - odd /\ argc = n /\ Terminated(rsp)
AtCopy      == at = "copy"      => rsp = Entry /\ argc \in 0 .. n /\ mem[rsp] = n /\ Terminated(rsp + n + 1)
Copied      == at = "copy"      => CopiedFrom(argc)
AtGuest     == at = "guest"     => rsp = Entry /\ mem[rsp] = n /\ Terminated(rsp + n + 1) /\ CopiedFrom(0)
AtPopArgs   == at = "popArgs"   => rsp = Entry /\ mem[rsp] = n
AtPopAlign  == at = "popAlign"  => rsp = -1 - odd
AtDone      == at = "done"      => rsp \in -1 .. 0
Flag        == at \notin {"align", "done"} => mem[-1] = odd

FInv == /\ TypeInv /\ AtAlign /\ AtTerminate /\ AtReserve /\ AtCopy /\ Copied
        /\ AtGuest /\ AtPopArgs /\ AtPopAlign /\ AtDone /\ Flag

(* A frame is an even number of words. *)
LEMMA Parity ==
    ASSUME NEW k \in Nat
    PROVE  k % 2 \in {0, 1} /\ (-(k + (k % 2)) - 4) % 2 = 0
  BY SMT

LEMMA Start == Init => FInv
  <1> SUFFICES ASSUME Init PROVE FInv
    OBVIOUS
  <1>1. PICK k \in 0 .. MaxArgs : argv \in [1 .. k -> Args]
    BY DEF Init
  <1>2. argv \in Seq(Args) /\ n = k
    BY <1>1, ArgAssumption DEF n
  <1>3. mem \in [-Depth .. -1 -> Words]
    <2>1. {0, Junk} \subseteq Words
      BY ArgAssumption DEF Words
    <2>2. mem \in [-Depth .. -1 -> {0, Junk}]
      BY DEF Init
    <2> QED
      BY <2>1, <2>2
  <1> QED
    BY <1>1, <1>2, <1>3 DEF Init, FInv, TypeInv, AtAlign, AtTerminate, AtReserve, AtCopy, Copied, AtGuest,
       AtPopArgs, AtPopAlign, AtDone, Flag, odd, n

(* Places in the frame, as numbers below zero. *)
LEMMA Places ==
    ASSUME TypeInv
    PROVE  /\ n \in Nat /\ odd \in {0, 1} /\ odd \in Nat
           /\ odd \in 0 .. MaxArgs
           /\ Entry \in Int /\ Entry % 2 = 0
           /\ -Depth <= Entry /\ Entry + n + 2 < -1 - odd + 1
           /\ odd = 0 => Entry = -n - 4
           /\ odd = 1 => Entry = -n - 5
  <1>1. n \in Nat /\ n <= MaxArgs /\ MaxArgs \in Nat
    BY ArgAssumption, SMT DEF TypeInv
  <1>2. odd \in {0, 1} /\ Entry % 2 = 0
    BY <1>1, Parity DEF odd, Entry
  <1>3. odd <= n
    BY <1>1, SMT DEF odd
  <1> QED
    BY <1>1, <1>2, <1>3, SMT DEF Entry, Depth

LEMMA StepInv == FInv /\ [Next]_fvars => FInv'
  <1> SUFFICES ASSUME FInv, [Next]_fvars PROVE FInv'
    OBVIOUS
  <1> USE DEF FInv
  <1>p. /\ n \in Nat /\ n <= MaxArgs /\ MaxArgs \in Nat /\ Depth = MaxArgs + 5
        /\ odd \in {0, 1} /\ odd \in Words /\ n \in Words /\ 0 \in Words
        /\ Entry \in Int /\ -Depth <= Entry /\ Entry + n + 2 < -odd
        /\ Entry = -n - odd - 4
    <2>1. 0 .. MaxArgs \subseteq Words
      BY DEF Words
    <2>2. TypeInv /\ n \in 0 .. MaxArgs
      BY DEF TypeInv
    <2>3. /\ n \in Nat /\ odd \in {0, 1} /\ odd \in Nat /\ odd \in 0 .. MaxArgs
          /\ Entry \in Int /\ -Depth <= Entry /\ Entry + n + 2 < -1 - odd + 1
          /\ odd = 0 => Entry = -n - 4
          /\ odd = 1 => Entry = -n - 5
      BY <2>2, Places
    <2> HIDE DEF FInv
    <2>4. MaxArgs \in Nat
      BY ArgAssumption
    <2>5. /\ n <= MaxArgs /\ Entry + n + 2 < -odd /\ Entry = -n - odd - 4 /\ 0 \in 0 .. MaxArgs
      <3> HIDE DEF n, odd, Entry
      <3> QED
        BY <2>2, <2>3, <2>4, SMT
    <2> QED
      BY <2>1, <2>2, <2>3, <2>4, <2>5 DEF Depth
  <1>1. CASE AlignStack
    <2>1. UNCHANGED <<argv, argc, add_align>> /\ n' = n /\ odd' = odd /\ at = "align" /\ at' = "terminate"
      BY <1>1 DEF AlignStack, n, odd
    <2>2. rsp = 0 /\ argc = n /\ add_align = odd
      BY <2>1 DEF AtAlign
    <2>3. rsp' = -1 - odd
      BY <1>1, <1>p, <2>2, SMT DEF AlignStack
    <2>4. mem' = [mem EXCEPT ![-1] = odd] /\ -1 \in -Depth .. -1
      BY <1>1, <1>p, <2>2, SMT DEF AlignStack, Push
    <2>5. mem' \in [-Depth .. -1 -> Words] /\ mem'[-1] = odd
      BY <2>4, <1>p DEF TypeInv
    <2> QED
      BY <2>1, <2>2, <2>3, <2>5 DEF TypeInv, AtAlign, AtTerminate, AtReserve, AtCopy, Copied, AtGuest,
         AtPopArgs, AtPopAlign, AtDone, Flag
  <1>2. CASE PushTerminators
    <2>1. UNCHANGED <<argv, argc>> /\ n' = n /\ odd' = odd /\ at = "terminate" /\ at' = "reserve"
      BY <1>2 DEF PushTerminators, n, odd
    <2>2. rsp = -1 - odd /\ argc = n /\ mem[-1] = odd
      BY <2>1 DEF AtTerminate, Flag
    <2>3. /\ mem' = [[mem EXCEPT ![-2 - odd] = 0] EXCEPT ![-3 - odd] = 0]
          /\ rsp' = -3 - odd
          /\ -2 - odd \in -Depth .. -1 /\ -3 - odd \in -Depth .. -1 /\ -3 - odd # -2 - odd
          /\ -1 # -2 - odd /\ -1 # -3 - odd /\ -1 \in -Depth .. -1 /\ -3 - odd + 1 = -2 - odd
      <3>1. /\ rsp' = rsp - 2 /\ mem' = [[mem EXCEPT ![rsp - 1] = 0] EXCEPT ![rsp - 1 - 1] = 0]
        BY <1>2 DEF PushTerminators, Push
      <3>2. rsp - 1 = -2 - odd /\ rsp - 1 - 1 = -3 - odd /\ rsp - 2 = -3 - odd
        BY <2>2, <1>p, SMT
      <3>3. /\ -2 - odd \in -Depth .. -1 /\ -3 - odd \in -Depth .. -1 /\ -3 - odd # -2 - odd
            /\ -1 # -2 - odd /\ -1 # -3 - odd /\ -1 \in -Depth .. -1 /\ -3 - odd + 1 = -2 - odd
        BY <1>p, SMT
      <3> QED
        BY <3>1, <3>2, <3>3
    <2>4. /\ mem' \in [-Depth .. -1 -> Words]
          /\ mem'[-3 - odd] = 0 /\ mem'[-2 - odd] = 0 /\ mem'[-1] = odd
      BY <2>2, <2>3, <1>p DEF TypeInv
    <2>5. Terminated(rsp)'
      BY <2>3, <2>4 DEF Terminated
    <2> QED
      BY <2>1, <2>2, <2>3, <2>4, <2>5 DEF TypeInv, AtAlign, AtTerminate, AtReserve, AtCopy, Copied, AtGuest,
         AtPopArgs, AtPopAlign, AtDone, Flag
  <1>3. CASE ReserveArgv
    <2>1. UNCHANGED <<argv, argc>> /\ n' = n /\ odd' = odd /\ Entry' = Entry /\ at = "reserve" /\ at' = "copy"
      BY <1>3 DEF ReserveArgv, n, odd, Entry
    <2>2. rsp = -3 - odd /\ argc = n /\ Terminated(rsp) /\ mem[-1] = odd
      BY <2>1 DEF AtReserve, Flag
    <2>3. /\ mem' = [mem EXCEPT ![Entry] = n] /\ rsp' = Entry
          /\ Entry \in -Depth .. -1 /\ -1 \in -Depth .. -1 /\ -3 - odd \in -Depth .. -1 /\ -3 - odd + 1 \in -Depth .. -1
          /\ Entry # -1 /\ Entry # -3 - odd /\ Entry # -3 - odd + 1 /\ Entry + n + 1 = -3 - odd
      <3>1. rsp' = rsp - argc - 1 /\ mem' = [mem EXCEPT ![rsp - argc - 1] = argc]
        BY <1>3 DEF ReserveArgv, Push
      <3>2. rsp - argc - 1 = Entry
        BY <2>2, <1>p, SMT
      <3>3. /\ Entry \in -Depth .. -1 /\ -1 \in -Depth .. -1 /\ -3 - odd \in -Depth .. -1 /\ -3 - odd + 1 \in -Depth .. -1
            /\ Entry # -1 /\ Entry # -3 - odd /\ Entry # -3 - odd + 1 /\ Entry + n + 1 = -3 - odd
        BY <1>p, SMT
      <3> QED
        BY <3>1, <3>2, <3>3, <2>2
    <2>4. /\ mem' \in [-Depth .. -1 -> Words]
          /\ mem'[Entry] = n /\ mem'[-1] = odd /\ mem'[-3 - odd] = 0 /\ mem'[-3 - odd + 1] = 0
      BY <2>2, <2>3, <1>p DEF TypeInv, Terminated
    <2>5. Terminated(rsp + n + 1)'
      BY <2>1, <2>3, <2>4 DEF Terminated
    <2>6. CopiedFrom(argc)'
      <3>1. argc' = n /\ n' = n
        BY <2>1, <2>2
      <3>2. \A k \in Nat : k + 1 .. k = {}
        BY SMT
      <3> HIDE DEF n
      <3>3. n + 1 .. n = {}
        BY <3>2, <1>p
      <3>4. argc' + 1 .. n' = {}
        BY <3>1, <3>3
      <3> QED
        BY <3>4 DEF CopiedFrom
    <2>7. argc' \in 0 .. n'
      BY <2>1, <2>2, <1>p
    <2> QED
      BY <2>1, <2>2, <2>3, <2>4, <2>5, <2>6, <2>7 DEF TypeInv, AtAlign, AtTerminate, AtReserve, AtCopy, Copied,
         AtGuest, AtPopArgs, AtPopAlign, AtDone, Flag
  <1>4. CASE CopyArg
    <2>1. /\ UNCHANGED <<argv, rsp, add_align>> /\ n' = n /\ odd' = odd /\ Entry' = Entry
          /\ at = "copy" /\ at' = "copy" /\ argc # 0
      BY <1>4 DEF CopyArg, n, odd, Entry
    <2>2. rsp = Entry /\ argc \in 0 .. n /\ mem[Entry] = n /\ Terminated(Entry + n + 1) /\ CopiedFrom(argc) /\ mem[-1] = odd
      BY <2>1 DEF AtCopy, Copied, Flag
    <2> DEFINE c == argc - 1
    <2>3. argc' = c /\ mem' = [mem EXCEPT ![Entry + c + 1] = argv[c + 1]]
      BY <1>4, <2>2 DEF CopyArg
    <2>4. c \in 0 .. n /\ c + 1 \in 1 .. n /\ c + 1 = argc
      BY <2>1, <2>2, <1>p, SMT
    <2>5. /\ Entry + c + 1 \in -Depth .. -1 /\ Entry \in -Depth .. -1 /\ -1 \in -Depth .. -1
          /\ Entry + c + 1 # Entry /\ Entry + c + 1 # -1
          /\ Entry + n + 1 \in -Depth .. -1 /\ Entry + n + 1 + 1 \in -Depth .. -1
          /\ Entry + c + 1 # Entry + n + 1 /\ Entry + c + 1 # Entry + n + 1 + 1
      BY <2>4, <1>p, SMT
    <2>6. argv[c + 1] \in Words
      BY <2>4 DEF TypeInv, Words, n
    <2> HIDE DEF c
    <2>7. /\ mem' \in [-Depth .. -1 -> Words] /\ mem'[Entry] = n /\ mem'[-1] = odd
          /\ mem'[Entry + n + 1] = 0 /\ mem'[Entry + n + 1 + 1] = 0
          /\ mem'[Entry + c + 1] = argv[c + 1]
      BY <2>2, <2>3, <2>5, <2>6 DEF TypeInv, Terminated
    <2>8. \A i \in c + 1 .. n : mem'[Entry + i] = argv[i]
      <3> SUFFICES ASSUME NEW i \in c + 1 .. n PROVE mem'[Entry + i] = argv[i]
        OBVIOUS
      <3>1. CASE i = c + 1
        BY <3>1, <2>4, <2>7, <1>p, SMT
      <3>2. CASE i # c + 1
        <4>1. i \in argc + 1 .. n /\ Entry + i \in -Depth .. -1 /\ Entry + i # Entry + c + 1
          BY <3>2, <2>4, <1>p, SMT
        <4>2. mem[Entry + i] = argv[i]
          BY <4>1, <2>2 DEF CopiedFrom
        <4> QED
          BY <4>1, <4>2, <2>3 DEF TypeInv
      <3> QED
        BY <3>1, <3>2
    <2>9. CopiedFrom(argc)' /\ Terminated(rsp + n + 1)'
      BY <2>1, <2>2, <2>3, <2>7, <2>8 DEF CopiedFrom, Terminated
    <2> QED
      BY <2>1, <2>2, <2>3, <2>4, <2>7, <2>9 DEF TypeInv, AtAlign, AtTerminate, AtReserve, AtCopy, Copied,
         AtGuest, AtPopArgs, AtPopAlign, AtDone, Flag
  <1>5. CASE JumpToGuest
    <2>1. UNCHANGED <<argv, mem, rsp, argc, add_align>> /\ at = "copy" /\ at' = "guest" /\ argc = 0
      BY <1>5 DEF JumpToGuest
    <2> QED
      BY <2>1 DEF TypeInv, AtAlign, AtTerminate, AtReserve, AtCopy, Copied, AtGuest, AtPopArgs, AtPopAlign,
         AtDone, Flag, CopiedFrom, Terminated, n, odd, Entry
  <1>6. CASE GuestReturns
    <2>1. UNCHANGED <<argv, rsp, argc, add_align>> /\ n' = n /\ odd' = odd /\ Entry' = Entry
      BY <1>6 DEF GuestReturns, n, odd, Entry
    <2>2. at = "guest" /\ at' = "popArgs" /\ rsp = Entry /\ mem[Entry] = n /\ mem[-1] = odd
      BY <1>6 DEF GuestReturns, AtGuest, Flag
    <2>3. PICK below \in {0, Junk} : mem' = [a \in DOMAIN mem |-> IF a < rsp THEN below ELSE mem[a]]
      BY <1>6 DEF GuestReturns
    <2>4. below \in Words
      BY <1>p DEF Words
    <2>5. DOMAIN mem = -Depth .. -1
      BY DEF TypeInv
    <2>6. mem' \in [-Depth .. -1 -> Words]
      BY <2>3, <2>4, <2>5 DEF TypeInv
    <2>7. Entry \in -Depth .. -1 /\ -1 \in -Depth .. -1 /\ ~(Entry < Entry) /\ ~(-1 < Entry)
      BY <1>p, SMT
    <2>8. mem'[Entry] = n /\ mem'[-1] = odd
      BY <2>2, <2>3, <2>5, <2>7
    <2> QED
      BY <2>1, <2>2, <2>6, <2>8 DEF TypeInv, AtAlign, AtTerminate, AtReserve, AtCopy, Copied,
         AtGuest, AtPopArgs, AtPopAlign, AtDone, Flag
  <1>7. CASE PopArgs
    <2>1. UNCHANGED <<argv, mem, argc, add_align>> /\ n' = n /\ odd' = odd /\ at = "popArgs" /\ at' = "popAlign"
      BY <1>7 DEF PopArgs, n, odd
    <2>2. rsp = Entry /\ mem[rsp] = n /\ rsp < 0
      BY <2>1, <1>p, SMT DEF AtPopArgs
    <2>3. rsp' = rsp + 1 + n + 2
      BY <1>7, <2>2 DEF PopArgs, Word
    <2>4. rsp' = -1 - odd
      BY <2>2, <2>3, <1>p, SMT
    <2> QED
      BY <2>1, <2>4 DEF TypeInv, AtAlign, AtTerminate, AtReserve, AtCopy, Copied,
         AtGuest, AtPopArgs, AtPopAlign, AtDone, Flag
  <1>8. CASE PopAlign
    <2>1. UNCHANGED <<argv, mem, argc, add_align>> /\ n' = n /\ odd' = odd /\ at = "popAlign" /\ at' = "done"
      BY <1>8 DEF PopAlign, n, odd
    <2>2. rsp = -1 - odd /\ mem[-1] = odd
      BY <2>1 DEF AtPopAlign, Flag
    <2>3. rsp' \in -1 .. 0
      <3>1. CASE odd = 0
        <4>1. rsp = -1 /\ rsp < 0
          BY <3>1, <2>2, SMT
        <4>2. Word(rsp) = 0
          BY <4>1, <2>2, <3>1 DEF Word
        <4>3. rsp' = rsp + 1
          BY <1>8, <4>2 DEF PopAlign
        <4> QED
          BY <4>1, <4>3, SMT
      <3>2. CASE odd = 1
        <4>1. rsp = -2
          BY <3>2, <2>2, SMT
        <4>2. rsp' = rsp + 1 \/ rsp' = rsp + 2
          BY <1>8 DEF PopAlign
        <4> QED
          BY <4>1, <4>2, SMT
      <3> QED
        BY <3>1, <3>2, <1>p
    <2> QED
      BY <2>1, <2>3 DEF TypeInv, AtAlign, AtTerminate, AtReserve, AtCopy, Copied,
         AtGuest, AtPopArgs, AtPopAlign, AtDone, Flag
  <1>9. CASE Done \/ UNCHANGED fvars
    BY <1>9 DEF Done, fvars, TypeInv, AtAlign, AtTerminate, AtReserve, AtCopy, Copied, AtGuest, AtPopArgs,
       AtPopAlign, AtDone, Flag, CopiedFrom, Terminated, n, odd, Entry
  <1> QED
    BY <1>1, <1>2, <1>3, <1>4, <1>5, <1>6, <1>7, <1>8, <1>9 DEF Next

LEMMA Invariance == FrameSpec => []FInv
  BY Start, StepInv, PTL DEF FrameSpec

(* Whatever the number of arguments, the guest is entered with a 16-byte   *)
(* aligned stack (runner::call).                                           *)
THEOREM EntryIsAligned == FrameSpec => []EntryAligned
  <1>1. FInv => EntryAligned
    <2> SUFFICES ASSUME FInv, at = "guest" PROVE rsp % 2 = 0
      BY DEF EntryAligned
    <2>1. rsp = Entry /\ TypeInv
      BY DEF FInv, AtGuest
    <2> QED
      BY <2>1, Places
  <1> QED
    BY <1>1, Invariance, PTL

(* ... and finds argc, every argument in order, and both terminators.      *)
THEOREM EntryHasFrame == FrameSpec => []EntryFrame
  <1>1. FInv => EntryFrame
    <2> SUFFICES ASSUME FInv, at = "guest"
                 PROVE  /\ mem[rsp] = Len(argv)
                        /\ \A i \in 1 .. Len(argv) : mem[rsp + i] = argv[i]
                        /\ mem[rsp + Len(argv) + 1] = 0
                        /\ mem[rsp + Len(argv) + 2] = 0
      BY DEF EntryFrame
    <2>1. rsp = Entry /\ mem[rsp] = n /\ Terminated(rsp + n + 1) /\ CopiedFrom(0) /\ n = Len(argv) /\ n \in Nat
      BY Places DEF FInv, AtGuest, n
    <2>2. rsp + n + 1 + 1 = rsp + n + 2 /\ 0 + 1 = 1
      BY <2>1, Places, SMT DEF FInv
    <2> QED
      BY <2>1, <2>2 DEF Terminated, CopiedFrom
  <1> QED
    BY <1>1, Invariance, PTL

(* At every point of the block rsp stays within the frame: nothing of the  *)
(* caller's is popped.                                                     *)
THEOREM FrameIsBounded == FrameSpec => []FrameBounded
  <1>1. FInv => FrameBounded
    <2> SUFFICES ASSUME FInv PROVE FrameBounded
      OBVIOUS
    <2>1. /\ TypeInv /\ odd \in {0, 1} /\ n \in Nat /\ Entry \in Int /\ -Depth <= Entry /\ Entry <= 0
          /\ Depth \in Nat /\ Depth >= 5
      <3>1. TypeInv
        BY DEF FInv
      <3> QED
        BY <3>1, Places, ArgAssumption, SMT DEF Depth
    <2>2. \/ rsp \in {0, -1 - odd, -3 - odd, Entry}
          \/ rsp \in -1 .. 0
      BY DEF FInv, TypeInv, AtAlign, AtTerminate, AtReserve, AtCopy, AtGuest, AtPopArgs, AtPopAlign, AtDone
    <2> QED
      BY <2>1, <2>2, SMT DEF FrameBounded
  <1> QED
    BY <1>1, Invariance, PTL
==============================================================================
