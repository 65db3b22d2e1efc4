------------------------------- MODULE MCLink -------------------------------
(***************************************************************************)
(* Main programs and callees for TLC.  The main object declares the prog   *)
(* arrays A and B and the hash map M; the callees share M, bring maps of   *)
(* their own and use globals and constants of several sizes.               *)
(***************************************************************************)
EXTENDS LinkRun

CONSTANTS A, B, M

instr(op, dst, src, off) ==
    [op |-> op, dst |-> dst, src |-> src, offset |-> off, region |-> NONE,
     tag |-> 0, sym |-> << >>, rodata_offset |-> 0]
ld_map(dst, id) == [instr("ld", dst, 0, 0) EXCEPT !.region = "map", !.tag = id]
ld_bss(dst, name) ==
    [instr("ld", dst, 0, 0) EXCEPT !.region = "bss", !.sym = << name >>]
ld_rodata(dst, off) ==
    [instr("ld", dst, 0, 0) EXCEPT !.region = "rodata", !.rodata_offset = off]

\* instr.idx, as the loader numbers the instructions of one object
decoded(body) ==
    [p \in DOMAIN body |->
        [idx |-> p - 1, op |-> body[p].op, dst |-> body[p].dst, src |-> body[p].src,
         offset |-> body[p].offset, region |-> body[p].region, tag |-> body[p].tag,
         sym |-> body[p].sym, rodata_offset |-> body[p].rodata_offset]]

mapdef(name, type, geometry) == [name |-> name, type |-> type, geometry |-> geometry]
sym(name, size) == [name |-> << name >>, size |-> size]

load(path, entry, ms, bs, ro, body) ==
    [path |-> path, entry |-> entry, entry_idx |-> 0, maps |-> ms, bss |-> bs,
     rodata |-> ro, instrs |-> decoded(body)]

TailCall == instr("tail", 0, 0, 0)
Exit == instr("exit", 0, 0, 0)
Call == instr("call", 0, 0, 0)
Other == instr("other", 0, 0, 0)
Jcc(off) == instr("jcc", 0, 0, off)
Ja(off) == instr("ja", 0, 0, off)
Mov == instr("mov", 2, 6, 0)
LdA(r) == ld_map(r, 1)
LdB(r) == ld_map(r, 2)

-----------------------------------------------------------------------------

main_maps == << mapdef(A, "prog_array", 0), mapdef(B, "prog_array", 0),
                mapdef(M, "hash", 1) >>

main(body, ro) ==
    load("main", "xdp", main_maps, << sym("x", 4), sym("y", 4) >>, ro, body)

\* Straight or with branches over one instruction: a register is loaded once, or
\* twice and joined, with the same object, another of its kind or another kind.
Words == [1 .. 3 -> { LdA(2), LdB(2), LdA(6), LdB(6), Mov, Call, Jcc(1), ld_bss(6, "y") }]

TailMains == { main(s \o << TailCall, Exit >>, << 1, 2, 3 >>) : s \in Words }

\* Layouts: a backward jump that is no loop, both edges to one block, a loop,
\* an entry behind another function, a body that does not end in EXIT, references
\* of every kind, also joined with each other, a call at the end of a block.
OtherMains ==
    { main(<< Ja(2), Other, Exit, ld_rodata(6, 1), Ja(-4) >>, << 1, 2, 3 >>),
      main(<< Jcc(2), Other, Exit, LdA(2), Jcc(-4), Exit >>, << >>),
      main(<< Jcc(0), ld_bss(6, "x"), Call, LdB(2), TailCall, Exit >>,
           << 1, 2, 3, 4, 5, 6, 7, 8 >>),
      main(<< LdA(6), Jcc(1), ld_bss(6, "y"), Other, Exit >>, << 4 >>),
      main(<< Other, Jcc(-2), Exit >>, << >>),
      main(<< Other, Other, Jcc(-2), LdA(2), TailCall, Exit >>, << >>),
      main(<< Jcc(1), Call, ld_map(2, 3), Call, LdA(2), TailCall, Exit >>, << 9 >>),
      [main(<< Other, Exit, Other, Exit >>, << >>) EXCEPT !.entry_idx = 2] }

-----------------------------------------------------------------------------

body_of(ro) == << ld_bss(6, "x"), ld_map(6, 1),
                  ld_rodata(6, ro), Jcc(1), Other, Exit >>

c1(size, geometry) ==
    load("one", "f", << mapdef(M, "hash", geometry), mapdef(NONE, "hash", 2) >>,
         << sym("x", size) >>, << 21, 22 >>, body_of(1))
c2 == load("two", "g", << mapdef(NONE, "hash", 2), mapdef(M, "hash", 1) >>,
           << sym("z", 2), sym("x", 2) >>, << 31 >>, body_of(0))
c3 == load("main", "h", main_maps, << sym("x", 4), sym("y", 4) >>, << 1, 2, 3 >>,
           << ld_bss(6, "y"), ld_map(2, 3), Exit >>)

tail(map, slot) == [map_name |-> map, slot |-> slot]

Callees ==
    { << >>, << << c1(8, 1), tail(A, 0) >> >>, << << c2, tail(B, NONE) >> >>,
      << << c1(8, 1), tail(A, 0) >>, << c2, tail(B, 1) >> >>,
      << << c2, tail(B, 0) >>, << c3, tail(A, 1) >> >> }

BadCallees ==
    { << << c1(8, 1), tail(A, 0) >>, << c2, tail(A, 1) >> >>,
      << << c1(8, 7), tail(A, 0) >> >>, << << c1(8, 1), tail(NONE, 0) >> >>,
      << << c1(8, 1), tail(M, 0) >> >>,
      << << [c1(8, 1) EXCEPT !.entry_idx = 3], tail(A, 0) >> >>,
      << << load("ch", "f", main_maps, << >>, << >>, << LdA(2), TailCall, Exit >>),
            tail(B, 0) >> >>,
      << << load("e", "f", << >>, << >>, << >>, << >>), tail(B, 0) >> >> }

\* Two entries of one object, whose x is not the main program's, and a function
\* with a static x of its own.
c4 == load("one", "h", << mapdef(M, "hash", 1), mapdef(NONE, "hash", 2) >>,
           << sym("x", 8) >>, << 21, 22 >>, << ld_bss(6, "x"), ld_map(6, 2), Exit >>)
c5 == load("five", "f", << >>,
           << sym("x", 8), [name |-> << "f", "x" >>, size |-> 4] >>, << >>,
           << ld_bss(6, "x"), [ld_bss(6, "x") EXCEPT !.sym = << "f", "x" >>], Exit >>)

SharedGlobals ==
    { << << c1(8, 1), tail(A, 0) >>, << c4, tail(B, 1) >> >>, << << c5, tail(A, 0) >> >> }

request(m, cs) ==
    [loads |-> << m >> \o [i \in DOMAIN cs |-> cs[i][1]],
     tails |-> [i \in DOMAIN cs |-> cs[i][2]]]

MCInputs ==
    { request(m, cs) : m \in TailMains \cup OtherMains, cs \in Callees }
    \cup { request(m, cs) : m \in OtherMains, cs \in BadCallees \cup SharedGlobals }

MCMapNames == {A, B, M}
=============================================================================
