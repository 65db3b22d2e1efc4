-------------------------------- MODULE Link --------------------------------
(***************************************************************************)
(* The linker of tail-called programs, bpf/link.py: the decoded objects    *)
(* of a main program and of its callees (--tail OBJ:ENTRY@MAP/SLOT) become *)
(* one instruction list, one map list and one set of globals.              *)
(*                                                                         *)
(* A load is what Loader.decode_binary returns for one object: its path,   *)
(* the entry symbol, entry_idx (the position of the entry in its section), *)
(* maps, bss symbols and the bytes of .rodata, and the instructions with   *)
(* their relocations: region, and reloc_tag as tag for a map id and as sym *)
(* for a .bss symbol.  Map ids count from 1.  A symbol name is a sequence  *)
(* of parts, so that the prefix "<entry>." is one more part.               *)
(***************************************************************************)
EXTENDS Integers, Sequences, FiniteSets

CONSTANTS
    Inputs,     \* what the user may ask for: [loads |-> ..., tails |-> ...]
    MapNames,   \* names that objects give their maps
    NONE        \* Python's None

VARIABLES
    loads, tails,   \* the arguments of link
    pc, cause,      \* where the linker is; which part raised an exception
    k, j,           \* the load, and the map or symbol of it, in progress
    maps, remaps,   \* _merge_maps: merged, and a remap per load
    bss, renames,   \* _merge_globals: sizes by tag, and a rename per load
    rodata, bases,  \* _merge_globals: blob, and its length before each load
    instrs, progs,  \* the linked instructions and the ProgRegions
    claimed         \* prog arrays that already have a callee

Instr == [idx : Nat, op : STRING, dst : Int, src : Int, offset : Int,
          region : {NONE, "map", "bss", "rodata"}, tag : Nat,
          sym : Seq(STRING), rodata_offset : Nat]
MapInfo == [name : MapNames \cup {NONE}, type : STRING, geometry : Int]
Symbol == [name : Seq(STRING), size : Nat]
Load == [path : STRING, entry : STRING, entry_idx : Nat, maps : Seq(MapInfo),
         bss : Seq(Symbol), rodata : Seq(Nat), instrs : Seq(Instr)]
TailSpec == [map_name : MapNames \cup {NONE}, slot : Nat \cup {NONE}]

symbols(load) == { load.bss[i].name : i \in DOMAIN load.bss }

\* What apply_relocations gives the instructions of one object: ids of its maps
\* and names of its .bss symbols.
relocated(load) ==
    \A p \in DOMAIN load.instrs :
        /\ load.instrs[p].region = "map" => load.instrs[p].tag \in DOMAIN load.maps
        /\ load.instrs[p].region = "bss" => load.instrs[p].sym \in symbols(load)

ASSUME InputsAssumption ==
    \A in \in Inputs :
        /\ in.loads \in Seq(Load) /\ in.tails \in Seq(TailSpec)
        /\ Len(in.loads) = Len(in.tails) + 1
        /\ \A l \in DOMAIN in.loads : relocated(in.loads[l])

link_vars == << loads, tails, pc, cause, k, j, maps, remaps, bss, renames,
                rodata, bases, instrs, progs, claimed >>

-----------------------------------------------------------------------------

Raise(who) == pc' = "error" /\ cause' = who

\* _map_key: a map is its name, or its place in its object when it has none.
map_key(info, id, path) ==
    IF info.name # NONE THEN << info.name >> ELSE << path, id >>

same_geometry(a, b) == a.type = b.type /\ a.geometry = b.geometry

\* The callees link refuses: one that tail-calls itself, or whose entry is not
\* the first function of its section.
chained(load) ==
    \E p \in DOMAIN load.instrs : load.instrs[p].op = "tail"

refused_callee(load) == chained(load) \/ load.entry_idx # 0

CheckTails ==
    /\ pc = "check"
    /\ \A c \in 2 .. Len(loads) : ~refused_callee(loads[c])
    /\ pc' = "maps"
    /\ UNCHANGED << loads, tails, cause, k, j, maps, remaps, bss, renames,
                    rodata, bases, instrs, progs, claimed >>

CheckTailsRaises ==
    /\ pc = "check"
    /\ \E c \in 2 .. Len(loads) : refused_callee(loads[c])
    /\ Raise("link")
    /\ UNCHANGED << loads, tails, k, j, maps, remaps, bss, renames, rodata,
                    bases, instrs, progs, claimed >>

-----------------------------------------------------------------------------
(* _merge_maps, one map of one load per step. *)

\* The merged id of a key: index.get(key) as the set of hits.
hits(key) == { m \in DOMAIN maps : maps[m].key = key }

AddMap(info, key) ==
    /\ hits(key) = {}
    /\ maps' = Append(maps, [name |-> info.name, type |-> info.type,
                             geometry |-> info.geometry, key |-> key])
    /\ remaps' = [remaps EXCEPT ![k] = Append(@, Len(maps) + 1)]

ShareMap(info, key) ==
    \E m \in hits(key) :
        /\ same_geometry(maps[m], info)
        /\ remaps' = [remaps EXCEPT ![k] = Append(@, m)]
        /\ UNCHANGED maps

MergeMap ==
    /\ pc = "maps" /\ j <= Len(loads[k].maps)
    /\ \E info \in { loads[k].maps[j] } :
       \E key \in { map_key(info, j, loads[k].path) } :
            AddMap(info, key) \/ ShareMap(info, key)
    /\ j' = j + 1
    /\ UNCHANGED << loads, tails, pc, cause, k, bss, renames, rodata, bases,
                    instrs, progs, claimed >>

MergeMapRaises ==
    /\ pc = "maps" /\ j <= Len(loads[k].maps)
    /\ \E m \in hits(map_key(loads[k].maps[j], j, loads[k].path)) :
            ~same_geometry(maps[m], loads[k].maps[j])
    /\ Raise("link")
    /\ UNCHANGED << loads, tails, k, j, maps, remaps, bss, renames, rodata,
                    bases, instrs, progs, claimed >>

\* The end of a load's maps: on to the next load, or to the globals.
MergeMapsDone ==
    /\ pc = "maps" /\ j > Len(loads[k].maps)
    /\ j' = 1
    /\ IF k < Len(loads) THEN k' = k + 1 /\ UNCHANGED pc
                         ELSE k' = 1 /\ pc' = "globals"
    /\ UNCHANGED << loads, tails, cause, maps, remaps, bss, renames, rodata,
                    bases, instrs, progs, claimed >>

-----------------------------------------------------------------------------
(* _merge_globals: the .bss symbols one by one, then the load's .rodata. *)

\* dict assignment
put(f, key, val) ==
    [x \in DOMAIN f \cup {key} |-> IF x = key THEN val ELSE f[x]]

\* A name met before with the same size is the same object; one met with
\* another size is renamed.
MergeSymbol ==
    /\ pc = "globals" /\ j <= Len(loads[k].bss)
    /\ \E sym \in { loads[k].bss[j] } :
       \E new \in { << loads[k].entry >> \o sym.name } :
          \/ /\ sym.name \notin DOMAIN bss
             /\ bss' = put(bss, sym.name, sym.size)
             /\ UNCHANGED renames
          \/ /\ sym.name \in DOMAIN bss /\ bss[sym.name] = sym.size
             /\ UNCHANGED << bss, renames >>
          \/ /\ sym.name \in DOMAIN bss /\ bss[sym.name] # sym.size
             /\ bss' = put(bss, new, sym.size)
             /\ renames' = [renames EXCEPT ![k] = put(@, sym.name, new)]
    /\ j' = j + 1
    /\ UNCHANGED << loads, tails, pc, cause, k, maps, remaps, rodata, bases,
                    instrs, progs, claimed >>

\* The blob is padded to a multiple of 8 after each load that adds to it.
padding(len) == [p \in 1 .. (8 - (len % 8)) % 8 |-> 0]

with_data(blob, data) ==
    IF data = << >> THEN blob
    ELSE blob \o data \o padding(Len(blob) + Len(data))

MergeRodata ==
    /\ pc = "globals" /\ j > Len(loads[k].bss)
    /\ bases' = Append(bases, Len(rodata))
    /\ rodata' = with_data(rodata, loads[k].rodata)
    /\ j' = 1
    /\ IF k < Len(loads) THEN k' = k + 1 /\ UNCHANGED pc
                         ELSE k' = 1 /\ pc' = "append"
    /\ UNCHANGED << loads, tails, cause, maps, remaps, bss, renames, instrs,
                    progs, claimed >>

-----------------------------------------------------------------------------
(* The bodies, one load per step. *)

\* Faulty variant: map references keep the id they have in their object.
retag_not_maps(instr, l, base) ==
    [instr EXCEPT
        !.idx = base + @,
        !.sym = IF instr.region = "bss" /\ @ \in DOMAIN renames[l]
                THEN renames[l][@] ELSE @,
        !.rodata_offset = IF instr.region = "rodata" THEN @ + bases[l] ELSE @]

\* _retag, and the new idx of the instruction.
retag(instr, l, base) ==
    [instr EXCEPT
        !.idx = base + @,
        !.tag = IF instr.region = "map" THEN remaps[l][@] ELSE @,
        !.sym = IF instr.region = "bss" /\ @ \in DOMAIN renames[l]
                THEN renames[l][@] ELSE @,
        !.rodata_offset = IF instr.region = "rodata" THEN @ + bases[l] ELSE @]

\* Faulty variant: the name in --tail OBJ:ENTRY@MAP/SLOT is ignored.
prog_arrays_any(want) == { m \in DOMAIN maps : maps[m].type = "prog_array" }

\* _prog_array_id: the candidates; it raises unless there is exactly one.
prog_arrays(want) ==
    { m \in DOMAIN maps : /\ maps[m].type = "prog_array"
                          /\ want # NONE => maps[m].name = want }

tail_of(l) == tails[l - 1]

bad_body(l) ==
    \/ loads[l].instrs = << >>
    \/ l < Len(loads) /\ loads[l].instrs[Len(loads[l].instrs)].op # "exit"
    \/ l > 1 /\ Cardinality(prog_arrays(tail_of(l).map_name)) # 1

region(l) ==
    [load   |-> l,
     start  |-> Len(instrs),
     end    |-> Len(instrs) + Len(loads[l].instrs) - 1,
     slot   |-> IF l = 1 THEN NONE ELSE tail_of(l).slot,
     map_id |-> IF l = 1 THEN NONE
                ELSE CHOOSE m \in prog_arrays(tail_of(l).map_name) : TRUE]

AppendBody ==
    /\ pc = "append" /\ ~bad_body(k)
    /\ instrs' = instrs \o [p \in DOMAIN loads[k].instrs |->
                               retag(loads[k].instrs[p], k, Len(instrs))]
    /\ progs' = Append(progs, region(k))
    /\ k' = k + 1
    /\ pc' = IF k < Len(loads) THEN "append" ELSE "claim"
    /\ j' = IF k < Len(loads) THEN j ELSE 2
    /\ UNCHANGED << loads, tails, cause, maps, remaps, bss, renames, rodata,
                    bases, claimed >>

AppendBodyRaises ==
    /\ pc = "append" /\ bad_body(k)
    /\ Raise("link")
    /\ UNCHANGED << loads, tails, k, j, maps, remaps, bss, renames, rodata,
                    bases, instrs, progs, claimed >>

\* One callee per prog array.
Claim ==
    /\ pc = "claim" /\ j <= Len(progs)
    /\ progs[j].map_id \notin claimed
    /\ claimed' = claimed \cup {progs[j].map_id}
    /\ j' = j + 1
    /\ UNCHANGED << loads, tails, pc, cause, k, maps, remaps, bss, renames,
                    rodata, bases, instrs, progs >>

ClaimRaises ==
    /\ pc = "claim" /\ j <= Len(progs)
    /\ progs[j].map_id \in claimed
    /\ Raise("link")
    /\ UNCHANGED << loads, tails, k, j, maps, remaps, bss, renames, rodata,
                    bases, instrs, progs, claimed >>

LinkReturn ==
    /\ pc = "claim" /\ j > Len(progs)
    /\ pc' = "linked"
    /\ UNCHANGED << loads, tails, cause, k, j, maps, remaps, bss, renames,
                    rodata, bases, instrs, progs, claimed >>

-----------------------------------------------------------------------------

LinkInit ==
    /\ \E in \in Inputs : loads = in.loads /\ tails = in.tails
    /\ pc = "check" /\ cause = NONE
    /\ k = 1 /\ j = 1
    /\ maps = << >> /\ remaps = [l \in DOMAIN loads |-> << >>]
    /\ bss = << >> /\ renames = [l \in DOMAIN loads |-> << >>]
    /\ rodata = << >> /\ bases = << >>
    /\ instrs = << >> /\ progs = << >>
    /\ claimed = {}

LinkNext ==
    \/ CheckTails \/ CheckTailsRaises
    \/ MergeMap \/ MergeMapRaises \/ MergeMapsDone
    \/ MergeSymbol \/ MergeRodata
    \/ AppendBody \/ AppendBodyRaises
    \/ Claim \/ ClaimRaises \/ LinkReturn

-----------------------------------------------------------------------------
(* Properties of the linked program. *)

\* Where load l's instruction p ended up.
linked(l, p) == instrs[progs[l].start + p]

Refs(kind) ==
    { r \in UNION { {l} \X (DOMAIN loads[l].instrs) : l \in DOMAIN loads } :
        loads[r[1]].instrs[r[2]].region = kind }

map_of(l, p) ==
    map_key(loads[l].maps[loads[l].instrs[p].tag], loads[l].instrs[p].tag,
            loads[l].path)

Finished == pc \notin {"check", "maps", "globals", "append", "claim", "error"}

\* Two map references are to the same merged map exactly when they are to one
\* map, and the merged map has the geometry the referring object declares.
map_refs_exact ==
    \A r \in Refs("map") :
        /\ \E info \in { loads[r[1]].maps[loads[r[1]].instrs[r[2]].tag] } :
              same_geometry(maps[linked(r[1], r[2]).tag], info)
        /\ \A s \in Refs("map") :
              linked(r[1], r[2]).tag = linked(s[1], s[2]).tag
                  <=> map_of(r[1], r[2]) = map_of(s[1], s[2])

\* No symbol of the object is what another one would be renamed to.  A static
\* variable x of the function f is the symbol f.x, so this is not always so.
no_clash(load) ==
    \A x, y \in symbols(load) : y # << load.entry >> \o x

\* Two .bss references of one object are to the same linked variable exactly
\* when they are to the same symbol, also when a name had to be renamed.  Two
\* callees of one object are compared when the same names were renamed in both:
\* a rename carries the entry, and splits a variable that two entries share.
bss_refs_exact ==
    \A r, s \in Refs("bss") :
        /\ loads[r[1]].path = loads[s[1]].path
        /\ renames[r[1]] = renames[s[1]]
        /\ no_clash(loads[r[1]]) /\ symbols(loads[r[1]]) = symbols(loads[s[1]])
        => (linked(r[1], r[2]).sym = linked(s[1], s[2]).sym
              <=> loads[r[1]].instrs[r[2]].sym = loads[s[1]].instrs[s[2]].sym)

\* From its offset after linking a .rodata reference finds the bytes that the
\* object's own .rodata has from the offset before, whatever the padding.
rodata_refs_exact ==
    \A r \in Refs("rodata") :
        \E own \in { loads[r[1]].rodata } :
        \E off \in { loads[r[1]].instrs[r[2]].rodata_offset } :
        \E at \in { linked(r[1], r[2]).rodata_offset } :
            \A i \in 1 .. Len(own) - off :
                at + i \in DOMAIN rodata /\ rodata[at + i] = own[off + i]

(***************************************************************************)
(* After link every reference of every body names the object it named      *)
(* before (link.py _merge_maps, _merge_globals, _retag): a map two objects *)
(* declare under one name is shared and every other map stays apart, the   *)
(* globals of one body stay apart, and constants keep their bytes.         *)
(***************************************************************************)
RefsExact == Finished => map_refs_exact /\ bss_refs_exact /\ rodata_refs_exact

-----------------------------------------------------------------------------
(* The inductive invariant behind RefsExact. *)

Keys == { << n >> : n \in MapNames \cup {NONE} } \cup (STRING \X Nat)
MergedMap == [name : MapNames \cup {NONE}, type : STRING, geometry : Int, key : Keys]

Region == [load : Nat, start : Nat, end : Int, slot : Nat \cup {NONE},
           map_id : Nat \cup {NONE}]

LinkTypeOK ==
    /\ loads \in Seq(Load) /\ tails \in Seq(TailSpec) /\ Len(loads) = Len(tails) + 1
    /\ \A l \in DOMAIN loads : relocated(loads[l])
    /\ k \in Nat \ {0} /\ j \in Nat \ {0}
    /\ maps \in Seq(MergedMap) /\ remaps \in [DOMAIN loads -> Seq(Nat)]
    /\ DOMAIN renames = DOMAIN loads
    /\ rodata \in Seq(Nat) /\ bases \in Seq(Nat)
    /\ instrs \in Seq(Instr) /\ progs \in Seq(Region)

\* Where k and j are, and how far each list has grown.
ProgressInv ==
    /\ pc = "check" => k = 1 /\ j = 1
    /\ pc \in {"maps", "globals", "append"} => k <= Len(loads)
    /\ pc \in {"check", "maps"} =>
        /\ j <= Len(loads[k].maps) + 1
        /\ \A l \in DOMAIN loads :
              Len(remaps[l]) = IF l < k THEN Len(loads[l].maps)
                               ELSE IF l = k THEN j - 1 ELSE 0
    /\ pc \notin {"check", "maps", "error"} =>
        \A l \in DOMAIN loads : Len(remaps[l]) = Len(loads[l].maps)
    /\ pc \in {"check", "maps"} => Len(bases) = 0
    /\ pc = "globals" => Len(bases) = k - 1
    /\ pc \notin {"check", "maps", "globals", "error"} => Len(bases) = Len(loads)
    /\ pc \in {"check", "maps", "globals"} => Len(progs) = 0 /\ Len(instrs) = 0
    /\ pc = "append" => Len(progs) = k - 1
    /\ Finished \/ pc = "claim" => Len(progs) = Len(loads)

\* A merged map stands for one key, and a remap leads to the map of its key.
MapsInv ==
    /\ \A m, n \in DOMAIN maps : maps[m].key = maps[n].key => m = n
    /\ \A l \in DOMAIN loads : \A i \in 1 .. Len(remaps[l]) :
          /\ i \in DOMAIN loads[l].maps
          /\ remaps[l][i] \in DOMAIN maps
          /\ maps[remaps[l][i]].key = map_key(loads[l].maps[i], i, loads[l].path)
          /\ same_geometry(maps[remaps[l][i]], loads[l].maps[i])

\* A rename adds the entry of its load, and each load's constants are in the
\* blob from its base on.
GlobalsInv ==
    /\ \A l \in DOMAIN loads : \A x \in DOMAIN renames[l] :
          x \in symbols(loads[l]) /\ renames[l][x] = << loads[l].entry >> \o x
    /\ \A l \in DOMAIN bases : \A i \in 1 .. Len(loads[l].rodata) :
          /\ bases[l] + i \in DOMAIN rodata
          /\ rodata[bases[l] + i] = loads[l].rodata[i]

\* Each body is in the list from its region's start on, with its references
\* retagged by its own remap, rename and base.
BodiesInv ==
    \A l \in DOMAIN progs : \A p \in DOMAIN loads[l].instrs :
        /\ progs[l].start + p \in DOMAIN instrs
        /\ linked(l, p) = retag(loads[l].instrs[p], l, progs[l].start)

LinkInv == LinkTypeOK /\ ProgressInv /\ MapsInv /\ GlobalsInv /\ BodiesInv
=============================================================================
