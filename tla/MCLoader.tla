------------------------------- MODULE MCLoader -------------------------------
(* Instances of Loader: layouts of two segments at many alignments, and one  *)
(* layout with many symbol tables and libraries.                             *)
EXTENDS Loader

Perm(r, address, size, offset, filesz, align, w, x) ==
    [address |-> address, size |-> size, offset |-> offset, filesz |-> filesz, align |-> align, r |-> r, w |-> w, x |-> x]
Seg(address, size, offset, filesz, align, w, x) == Perm(TRUE, address, size, offset, filesz, align, w, x)
Code(n, align) == Seg(0, n, 0, n, align, FALSE, TRUE)

Plain(segments, length) ==
    [segments |-> segments, length |-> length, needed |-> << >>, symbols |-> << >>, relocs |-> << >>,
     init |-> 0, init_array |-> <<0, 0>>, entry |-> 1]

(* The second segment lies behind the first in the file and in memory. *)
Congruent(s) == s.offset % s.align = s.address % s.align
Layouts ==
    {Plain(<<c, s>>, s.offset + s.filesz + tail) :
        c \in {Code(n, a) : n \in {3, 6}, a \in {1, 4, 8}},
        s \in {t \in {Seg(at, f + z, o, f, a, w, x) : at \in {5, 6, 8, 12, 14}, f \in {0, 5}, z \in {0, 1, 4},
                                                      o \in {4, 6, 8, 12, 14}, a \in {4, 8, 16}, w \in BOOLEAN, x \in {FALSE}} :
                 Congruent(t) /\ t.size > 0},
        tail \in {0, 3}}
Later(e) == e.segments[2].offset >= e.segments[1].size /\ e.segments[2].address >= e.segments[1].size
OtherLayouts ==
    {Plain(<<Seg(4, 4, 0, 4, 4, FALSE, TRUE)>>, 4),
     Plain(<<Code(4, 4), Seg(4, 6, 4, 3, 4, TRUE, TRUE), Seg(13, 3, 13, 2, 4, TRUE, FALSE)>>, 16),
     Plain(<<Code(4, 4), Seg(16, 2, 6, 2, 4, FALSE, TRUE)>>, 8),
     Plain(<<Perm(FALSE, 0, 4, 0, 4, 4, FALSE, TRUE), Seg(4, 6, 4, 3, 4, TRUE, FALSE)>>, 8),
     Plain(<<Code(4, 4), Perm(FALSE, 6, 4, 6, 2, 4, FALSE, TRUE)>>, 8),
     Plain(<<Code(6, 8), Perm(FALSE, 10, 2, 10, 2, 4, FALSE, TRUE), Perm(FALSE, 13, 5, 13, 2, 4, TRUE, TRUE)>>, 16),
     [Plain(<<Code(4, 4)>>, 4) EXCEPT !.entry = 0]}

(* Code at 0..3, data at 4..11: slots at 4..6, the array at 8..9. *)
Linked(needed, symbols, relocs) ==
    [segments |-> <<Code(4, 4), Seg(4, 8, 4, 7, 4, TRUE, FALSE)>>, length |-> 12, needed |-> needed,
     symbols |-> symbols, relocs |-> relocs, init |-> 1, init_array |-> <<8, 2>>, entry |-> 3]
Rel(at, to) == [type |-> "RELATIVE", at |-> at, symbol |-> 0, addend |-> to]
Slot(type, at, k) == [type |-> type, at |-> at, symbol |-> k, addend |-> 0]
Sym(name, bind, default, defined, value) ==
    [name |-> name, bind |-> bind, default |-> default, defined |-> defined, value |-> value]

Libc == <<"lib", "c.so">>
Libm == <<"lib", "m.so">>
M    == <<"m.so">>
C    == <<"c.so">>
At(name) == <<"/">> \o name
Export(bind, function) == [bind |-> bind, function |-> function]
MCHost ==
    (At(Libc) :> [needs |-> << >>, symbols |-> [f |-> Export("GLOBAL", TRUE), start |-> Export("GLOBAL", TRUE)]]) @@
    (At(Libm) :> [needs |-> <<At(Libc)>>, symbols |-> [g |-> Export("WEAK", FALSE)]]) @@
    (At(M)    :> [needs |-> <<At(<<"h">>)>>, symbols |-> [g |-> Export("GLOBAL", TRUE), u |-> Export("GLOBAL", TRUE)]]) @@
    (At(<<"h">>) :> [needs |-> << >>, symbols |-> [f |-> Export("GLOBAL", FALSE), h |-> Export("GLOBAL", TRUE)]]) @@
    (At(C)    :> [needs |-> << >>, symbols |-> [f |-> Export("GLOBAL", TRUE), c |-> Export("UNIQUE", TRUE)]])
MCOpens == (Libc :> At(Libc)) @@ (Libm :> At(Libm)) @@ (M :> At(M)) @@ (<<"h">> :> At(<<"h">>)) @@ (C :> At(C))

MCStarted == <<<<>>, At(Libc)>>
Needs == {<<Libc>>, <<Libm>>, <<M, Libc>>, <<Libm, M>>, <<Libm, Libc, LdLinux>>, <<M, Libm, M>>, <<Libc, <<"none">>>>, <<Libm, <<"h">>, M>>}
Undefined == {Sym(n, b, TRUE, FALSE, 0) : n \in {"f", "g", "h", "start", "v"}, b \in {"GLOBAL", "WEAK"}}
Defined   == {Sym(n, b, d, TRUE, 2) : n \in {"f", "g"}, b \in {"GLOBAL", "WEAK", "UNIQUE"}, d \in BOOLEAN}
Locals    == {Sym(n, "LOCAL", TRUE, TRUE, 3) : n \in {"f", "g"}}
Inits == <<Rel(8, 2), Rel(9, 0)>>
(* A name has one entry besides local ones, and slots name that one. *)
LinkedFiles ==
    {Linked(needed, <<s, t>>, <<Slot("GLOB_DAT", 4, 1), Slot("JUMP_SLOT", 5, 1), Slot("GLOB_DAT", 6, 1)>> \o Inits) :
        needed \in Needs, s \in Undefined \cup Defined, t \in Locals \cup {Sym("u", "GLOBAL", TRUE, FALSE, 0)}}
    \cup {Linked(needed, <<s, Sym("u", "GLOBAL", TRUE, FALSE, 0)>>, <<Slot("GLOB_DAT", 4, 1), Slot("JUMP_SLOT", 5, 2), Slot("JUMP_SLOT", 6, 2)>> \o Inits) :
        needed \in {<<M>>, <<Libc, M>>, <<Libm, M>>}, s \in Undefined}
    \cup {Linked(needed, <<s, Sym("u", "GLOBAL", TRUE, FALSE, 0)>>, <<Slot("GLOB_DAT", 4, 1)>> \o Inits) :
        needed \in {<<C>>, <<C, Libc>>, <<Libc, C>>}, s \in {Sym(n, "GLOBAL", TRUE, FALSE, 0) : n \in {"c", "f", "start"}}}
    \cup {Linked(<<Libc>>, <<Sym("f", "GLOBAL", TRUE, FALSE, 0)>>, Inits \o <<[Slot("ABS64", 4, 1) EXCEPT !.addend = 1]>>)}

MCElfs == {e \in Layouts : Later(e)} \cup OtherLayouts \cup LinkedFiles

(* Room that begins at any page modulo the coarsest alignment, or that ends early. *)
MCTaken == {{}, {4}}
MCHints == {1, 2, 3, 4}
==============================================================================
