----------------------------- MODULE LinkProofs -----------------------------
(***************************************************************************)
(* RefsExact of module Link, for every request: whatever the objects, maps *)
(* and globals, after linking every reference names the object it named    *)
(* before.  The specification is LinkRun's, in which the linker's state    *)
(* stays as it is while the CFG is built, tracked and run.                 *)
(***************************************************************************)
EXTENDS LinkRun, SequenceTheorems, FiniteSetTheorems, TLAPS

link_data == << loads, tails, k, j, maps, remaps, bss, renames, rodata, bases,
                instrs, progs, claimed >>

-----------------------------------------------------------------------------
(* Facts about the linker's operators. *)

\* A map's key is a key.
LEMMA MapKeyType ==
    ASSUME NEW info \in MapInfo, NEW id \in Nat, NEW path \in STRING
    PROVE  map_key(info, id, path) \in Keys
  BY DEF map_key, Keys, MapInfo

\* The padding is a sequence of bytes.
LEMMA PaddingType ==
    ASSUME NEW n \in Nat
    PROVE  padding(n) \in Seq(Nat)
<1>1. (8 - (n % 8)) % 8 \in Nat
  OBVIOUS
<1>2. PICK c \in Nat : c = (8 - (n % 8)) % 8
  BY <1>1
<1>3. padding(n) = [p \in 1 .. c |-> 0]
  BY <1>2 DEF padding
<1> QED
  BY <1>3

\* with_data keeps the blob in front and puts the new bytes behind it.
LEMMA WithData ==
    ASSUME NEW blob \in Seq(Nat), NEW data \in Seq(Nat)
    PROVE  /\ with_data(blob, data) \in Seq(Nat)
           /\ Len(with_data(blob, data)) >= Len(blob) + Len(data)
           /\ \A i \in 1 .. Len(blob) : with_data(blob, data)[i] = blob[i]
           /\ \A i \in 1 .. Len(data) :
                 with_data(blob, data)[Len(blob) + i] = data[i]
<1>1. CASE data = << >>
  BY <1>1 DEF with_data
<1>2. CASE data # << >>
  <2> DEFINE pad == padding(Len(blob) + Len(data))
  <2>1. pad \in Seq(Nat)
    BY PaddingType
  <2>2. with_data(blob, data) = (blob \o data) \o pad
    BY <1>2 DEF with_data
  <2> HIDE DEF pad
  <2>3. /\ blob \o data \in Seq(Nat)
        /\ Len(blob \o data) = Len(blob) + Len(data)
        /\ \A i \in 1 .. Len(blob) + Len(data) :
              (blob \o data)[i] = IF i <= Len(blob) THEN blob[i]
                                  ELSE data[i - Len(blob)]
    BY ConcatProperties
  <2>4. PICK bd \in Seq(Nat) : bd = blob \o data
    BY <2>3
  <2>5. /\ bd \o pad \in Seq(Nat)
        /\ Len(bd \o pad) = Len(bd) + Len(pad)
        /\ \A i \in 1 .. Len(bd) + Len(pad) :
              (bd \o pad)[i] = IF i <= Len(bd) THEN bd[i] ELSE pad[i - Len(bd)]
    BY <2>1, ConcatProperties
  <2>6. /\ Len(blob) \in Nat /\ Len(data) \in Nat /\ Len(pad) \in Nat
        /\ Len(bd) = Len(blob) + Len(data)
    BY <2>1, <2>3, <2>4
  <2>7. PICK all \in Seq(Nat) : all = bd \o pad
    BY <2>5
  <2>8. all = with_data(blob, data)
    BY <2>2, <2>4, <2>7
  <2>9. \A i \in 1 .. Len(blob) : all[i] = blob[i]
    BY <2>3, <2>4, <2>5, <2>6, <2>7
  <2>10. \A i \in 1 .. Len(data) : all[Len(blob) + i] = data[i]
    <3> TAKE i \in 1 .. Len(data)
    <3>1. Len(blob) + i \in 1 .. Len(bd) + Len(pad) /\ Len(blob) + i <= Len(bd)
      BY <2>6
    <3>2. all[Len(blob) + i] = bd[Len(blob) + i]
      BY <2>5, <2>7, <3>1
    <3>3. bd[Len(blob) + i] = data[i]
      BY <2>3, <2>4, <2>6
    <3> QED
      BY <3>2, <3>3
  <2>11. Len(all) >= Len(blob) + Len(data)
    BY <2>5, <2>6, <2>7
  <2> QED
    BY <2>8, <2>9, <2>10, <2>11
<1> QED
  BY <1>1, <1>2

-----------------------------------------------------------------------------
(* The invariant: initially, and when nothing but pc changes. *)

\* The invariant holds of every request.
LEMMA LinkInvInit == Init => LinkInv
<1> SUFFICES ASSUME Init PROVE LinkInv
  OBVIOUS
<1> USE DEF Init, LinkInit
<1>1. PICK in \in Inputs : loads = in.loads /\ tails = in.tails
  OBVIOUS
<1>2. /\ loads \in Seq(Load) /\ tails \in Seq(TailSpec)
      /\ Len(loads) = Len(tails) + 1 /\ Len(loads) > 0
      /\ \A l \in DOMAIN loads : relocated(loads[l])
  BY <1>1, InputsAssumption
<1>3. LinkTypeOK
  BY <1>2 DEF LinkTypeOK
<1>4. loads[1] \in Load
  BY <1>2
<1>5. ProgressInv
  <2>1. loads[1].maps \in Seq(MapInfo)
    BY <1>4 DEF Load
  <2>2. 1 <= Len(loads) /\ 1 <= Len(loads[1].maps) + 1
    BY <1>2, <2>1
  <2>3. \A l \in DOMAIN loads : l \in Nat /\ ~(l < 1) /\ Len(remaps[l]) = 0
    BY <1>2
  <2> QED
    BY <2>2, <2>3 DEF ProgressInv, Finished
<1>6. MapsInv
  BY <1>2 DEF MapsInv
<1>7. GlobalsInv
  BY <1>2 DEF GlobalsInv
<1>8. BodiesInv
  BY <1>2 DEF BodiesInv
<1> QED
  BY <1>3, <1>5, <1>6, <1>7, <1>8 DEF LinkInv

\* The maps part depends on the maps only.
LEMMA MapsFrame ==
    MapsInv /\ UNCHANGED << loads, maps, remaps >> => MapsInv'
  BY DEF MapsInv, map_key, same_geometry

\* The globals part depends on the globals only.
LEMMA GlobalsFrame ==
    GlobalsInv /\ UNCHANGED << loads, renames, rodata, bases >> => GlobalsInv'
  BY DEF GlobalsInv, symbols

\* The bodies keep their place and their tags.
LEMMA BodiesFrame ==
    BodiesInv /\ UNCHANGED << loads, remaps, renames, bases, instrs, progs >>
        => BodiesInv'
<1> SUFFICES ASSUME BodiesInv,
                    UNCHANGED << loads, remaps, renames, bases, instrs, progs >>
             PROVE  BodiesInv'
  OBVIOUS
<1>1. \A instr, l, base : retag(instr, l, base)' = retag(instr, l, base)
  BY Zenon DEF retag
<1>2. \A l, p : linked(l, p)' = linked(l, p)
  BY DEF linked
<1> QED
  BY <1>1, <1>2, Zenon DEF BodiesInv

\* The types do not depend on pc.
LEMMA TypeFrame ==
    LinkTypeOK /\ UNCHANGED link_data => LinkTypeOK'
  BY DEF LinkTypeOK, link_data, relocated, symbols

\* A step that raises, or that belongs to a later stage, keeps the invariant.
LEMMA DataFrame ==
    /\ LinkInv /\ UNCHANGED link_data
    /\ pc' = "error" \/ (Finished /\ Finished') \/ pc' = pc
    => LinkInv'
<1> SUFFICES ASSUME LinkInv, UNCHANGED link_data,
                    pc' = "error" \/ (Finished /\ Finished') \/ pc' = pc
             PROVE  LinkInv'
  OBVIOUS
<1>1. LinkTypeOK' /\ MapsInv' /\ GlobalsInv' /\ BodiesInv'
  BY TypeFrame, MapsFrame, GlobalsFrame, BodiesFrame DEF LinkInv, link_data
<1>2. ProgressInv'
  <2>1. CASE pc' = "error"
    BY <2>1 DEF ProgressInv, Finished
  <2>2. CASE Finished /\ Finished'
    BY <2>2 DEF LinkInv, ProgressInv, Finished, link_data
  <2>3. CASE pc' = pc
    BY <2>3 DEF LinkInv, ProgressInv, Finished, link_data
  <2> QED
    BY <2>1, <2>2, <2>3
<1> QED
  BY <1>1, <1>2 DEF LinkInv

-----------------------------------------------------------------------------
(* _merge_maps. *)

\* The load in progress is one of the loads.
LEMMA LoadInProgress ==
    ASSUME LinkTypeOK, ProgressInv, pc \in {"maps", "globals", "append"}
    PROVE  k \in DOMAIN loads /\ loads[k] \in Load
  BY DEF LinkTypeOK, ProgressInv

\* Its remap has the maps in front of the one in progress.
LEMMA RemapInProgress ==
    ASSUME LinkTypeOK, ProgressInv, pc = "maps"
    PROVE  remaps[k] \in Seq(Nat) /\ Len(remaps[k]) = j - 1
<1>1. k \in DOMAIN loads
  BY LoadInProgress
<1>2. \A l \in DOMAIN loads :
         Len(remaps[l]) = IF l < k THEN Len(loads[l].maps)
                          ELSE IF l = k THEN j - 1 ELSE 0
  BY DEF ProgressInv
<1>3. k \in Nat /\ remaps[k] \in Seq(Nat)
  BY <1>1 DEF LinkTypeOK
<1>4. ~(k < k)
  BY <1>3
<1>5. Len(remaps[k]) = j - 1
  BY <1>1, <1>2, <1>4, Zenon
<1> QED
  BY <1>3, <1>5

\* What a step of the merge appends to the remap of the load in progress.
LEMMA RemapGrows ==
    ASSUME LinkTypeOK, ProgressInv, pc = "maps", j <= Len(loads[k].maps),
           NEW x \in Nat, remaps' = [remaps EXCEPT ![k] = Append(@, x)]
    PROVE  /\ k \in DOMAIN loads /\ j \in DOMAIN loads[k].maps
           /\ loads[k] \in Load /\ loads[k].maps[j] \in MapInfo
           /\ remaps' \in [DOMAIN loads -> Seq(Nat)]
           /\ Len(remaps[k]) = j - 1 /\ Len(remaps'[k]) = j /\ remaps'[k][j] = x
           /\ \A i \in 1 .. j - 1 : remaps'[k][i] = remaps[k][i]
           /\ \A l \in DOMAIN loads : l # k => remaps'[l] = remaps[l]
<1>1. k \in DOMAIN loads /\ loads[k] \in Load
  BY LoadInProgress
<1>2. loads[k].maps \in Seq(MapInfo)
  BY <1>1 DEF Load
<1>3. j \in DOMAIN loads[k].maps /\ loads[k].maps[j] \in MapInfo
  BY <1>2 DEF LinkTypeOK
<1>4. remaps[k] \in Seq(Nat) /\ Len(remaps[k]) = j - 1
  BY RemapInProgress
<1>5. PICK q \in Seq(Nat) : q = remaps[k]
  BY <1>4
<1>6. /\ Append(q, x) \in Seq(Nat) /\ Len(Append(q, x)) = j
      /\ Append(q, x)[j] = x /\ \A i \in 1 .. j - 1 : Append(q, x)[i] = q[i]
  BY <1>4, <1>5, AppendProperties DEF LinkTypeOK
<1>7. remaps'[k] = Append(q, x) /\ \A l \in DOMAIN loads : l # k => remaps'[l] = remaps[l]
  BY <1>1, <1>5 DEF LinkTypeOK
<1>8. remaps' \in [DOMAIN loads -> Seq(Nat)]
  BY <1>1, <1>5, <1>6 DEF LinkTypeOK
<1> QED
  BY <1>1, <1>3, <1>4, <1>5, <1>6, <1>7, <1>8

\* The lists of the later stages are still empty.
LEMMA MapsPhase ==
    ASSUME LinkInv, pc \in {"maps", "globals"}, UNCHANGED << instrs, progs >>
    PROVE  BodiesInv'
  BY DEF LinkInv, LinkTypeOK, ProgressInv, BodiesInv

\* The counters after a map was merged.
LEMMA MergeProgress ==
    ASSUME LinkInv, MergeMap, remaps' \in [DOMAIN loads -> Seq(Nat)],
           Len(remaps'[k]) = j, \A l \in DOMAIN loads : l # k => remaps'[l] = remaps[l]
    PROVE  ProgressInv'
<1> USE DEF LinkInv, MergeMap
<1>1. \A l \in DOMAIN loads :
        Len(remaps'[l]) = IF l < k THEN Len(loads[l].maps)
                          ELSE IF l = k THEN j ELSE 0
  BY DEF ProgressInv, LinkTypeOK
<1>2. k \in DOMAIN loads /\ loads[k] \in Load
  BY DEF ProgressInv, LinkTypeOK
<1>3. Len(loads[k].maps) \in Nat /\ j \in Nat
  BY <1>2 DEF Load, LinkTypeOK
<1>4. /\ pc' = "maps" /\ k' = k /\ j' = j + 1 /\ j <= Len(loads[k].maps)
      /\ UNCHANGED << loads, bases, progs, instrs >>
  OBVIOUS
<1>5. k <= Len(loads) /\ Len(bases) = 0 /\ Len(progs) = 0 /\ Len(instrs) = 0
  BY DEF ProgressInv
<1>6. j' <= Len(loads'[k'].maps) + 1 /\ j' - 1 = j
  BY <1>3, <1>4
<1> QED
  BY <1>1, <1>4, <1>5, <1>6 DEF ProgressInv, Finished

\* A map with a new key gets a merged map of its own.
LEMMA AddMapStep ==
    ASSUME LinkInv, MergeMap,
           AddMap(loads[k].maps[j], map_key(loads[k].maps[j], j, loads[k].path))
    PROVE  LinkInv'
<1> DEFINE info == loads[k].maps[j]
           key == map_key(info, j, loads[k].path)
           new == [name |-> info.name, type |-> info.type,
                   geometry |-> info.geometry, key |-> key]
<1>1. /\ pc = "maps" /\ j <= Len(loads[k].maps)
      /\ LinkTypeOK /\ ProgressInv
      /\ UNCHANGED << loads, tails, pc, cause, k, bss, renames, rodata, bases,
                      instrs, progs, claimed >>
      /\ j' = j + 1
  BY DEF LinkInv, MergeMap
<1>2. /\ hits(key) = {} /\ maps' = Append(maps, new)
      /\ remaps' = [remaps EXCEPT ![k] = Append(@, Len(maps) + 1)]
  BY DEF AddMap
<1>3. maps \in Seq(MergedMap) /\ Len(maps) + 1 \in Nat
  BY <1>1 DEF LinkTypeOK
<1>4. /\ k \in DOMAIN loads /\ j \in DOMAIN loads[k].maps
      /\ loads[k] \in Load /\ info \in MapInfo
      /\ remaps' \in [DOMAIN loads -> Seq(Nat)]
      /\ Len(remaps[k]) = j - 1 /\ Len(remaps'[k]) = j
      /\ remaps'[k][j] = Len(maps) + 1
      /\ \A i \in 1 .. j - 1 : remaps'[k][i] = remaps[k][i]
      /\ \A l \in DOMAIN loads : l # k => remaps'[l] = remaps[l]
  BY <1>1, <1>2, <1>3, RemapGrows
<1>5. j \in Nat /\ loads[k].path \in STRING
  BY <1>1, <1>4 DEF LinkTypeOK, Load
<1>6. new \in MergedMap
  BY <1>4, <1>5, MapKeyType DEF MergedMap, MapInfo
<1>7. new.key = key /\ same_geometry(new, info)
  BY DEF same_geometry
<1> HIDE DEF new
<1>8. /\ maps' \in Seq(MergedMap) /\ Len(maps') = Len(maps) + 1
      /\ \A m \in 1 .. Len(maps) : maps'[m] = maps[m]
      /\ maps'[Len(maps) + 1] = new
  BY <1>2, <1>3, <1>6, AppendProperties
<1>9. DOMAIN maps = 1 .. Len(maps) /\ DOMAIN maps' = 1 .. Len(maps) + 1
  BY <1>3, <1>8
<1>10. \A m \in DOMAIN maps : maps[m].key # key
  BY <1>2 DEF hits
<1>11. LinkTypeOK'
  BY <1>1, <1>4, <1>8 DEF LinkTypeOK, relocated, symbols
<1>12. ProgressInv'
  BY <1>4, MergeProgress
<1>13. MapsInv'
  <2>1. \A m, n \in DOMAIN maps' : maps'[m].key = maps'[n].key => m = n
    <3> SUFFICES ASSUME NEW m \in DOMAIN maps', NEW n \in DOMAIN maps',
                        maps'[m].key = maps'[n].key
                 PROVE  m = n
      OBVIOUS
    <3>1. \A x \in DOMAIN maps' : x \in DOMAIN maps \/ x = Len(maps) + 1
      BY <1>3, <1>9
    <3>2. CASE m \in DOMAIN maps /\ n \in DOMAIN maps
      BY <3>2, <1>8, <1>9 DEF LinkInv, MapsInv
    <3>3. CASE m \in DOMAIN maps /\ n = Len(maps) + 1
      BY <3>3, <1>7, <1>8, <1>9, <1>10
    <3>4. CASE m = Len(maps) + 1 /\ n \in DOMAIN maps
      BY <3>4, <1>7, <1>8, <1>9, <1>10
    <3> QED
      BY <3>1, <3>2, <3>3, <3>4
  <2>2. ASSUME NEW l \in DOMAIN loads, NEW i \in 1 .. Len(remaps'[l])
        PROVE  /\ i \in DOMAIN loads[l].maps
               /\ remaps'[l][i] \in DOMAIN maps'
               /\ maps'[remaps'[l][i]].key = map_key(loads[l].maps[i], i, loads[l].path)
               /\ same_geometry(maps'[remaps'[l][i]], loads[l].maps[i])
    <3>1. CASE l = k /\ i = j
      <4>1. remaps'[l][i] = Len(maps) + 1 /\ loads[l].maps[i] = info
        BY <3>1, <1>4
      <4> QED
        BY <3>1, <4>1, <1>3, <1>4, <1>7, <1>8, <1>9
    <3>2. CASE ~(l = k /\ i = j)
      <4>1. i \in 1 .. Len(remaps[l]) /\ remaps'[l][i] = remaps[l][i]
        BY <3>2, <1>4, <1>5
      <4>2. /\ i \in DOMAIN loads[l].maps
            /\ remaps[l][i] \in DOMAIN maps
            /\ maps[remaps[l][i]].key = map_key(loads[l].maps[i], i, loads[l].path)
            /\ same_geometry(maps[remaps[l][i]], loads[l].maps[i])
        BY <4>1 DEF LinkInv, MapsInv
      <4>3. maps'[remaps[l][i]] = maps[remaps[l][i]] /\ remaps[l][i] \in DOMAIN maps'
        BY <4>2, <1>3, <1>8, <1>9
      <4> QED
        BY <4>1, <4>2, <4>3
    <3> QED
      BY <3>1, <3>2
  <2>3. \A info_, id, path : map_key(info_, id, path)' = map_key(info_, id, path)
    BY DEF map_key
  <2> QED
    BY <2>1, <2>2, <1>1, Zenon DEF MapsInv, map_key, same_geometry
<1>14. GlobalsInv' /\ BodiesInv'
  BY <1>1, GlobalsFrame, MapsPhase DEF LinkInv
<1> QED
  BY <1>11, <1>12, <1>13, <1>14 DEF LinkInv

\* A map with a known key, declared alike, shares the merged map.
LEMMA ShareMapStep ==
    ASSUME LinkInv, MergeMap,
           ShareMap(loads[k].maps[j], map_key(loads[k].maps[j], j, loads[k].path))
    PROVE  LinkInv'
<1> DEFINE info == loads[k].maps[j]
           key == map_key(info, j, loads[k].path)
<1>1. /\ pc = "maps" /\ j <= Len(loads[k].maps)
      /\ LinkTypeOK /\ ProgressInv
      /\ UNCHANGED << loads, tails, pc, cause, k, bss, renames, rodata, bases,
                      instrs, progs, claimed >>
      /\ j' = j + 1
  BY DEF LinkInv, MergeMap
<1>2. PICK m \in DOMAIN maps :
        /\ maps[m].key = key /\ same_geometry(maps[m], info)
        /\ remaps' = [remaps EXCEPT ![k] = Append(@, m)]
        /\ maps' = maps
  BY DEF ShareMap, hits
<1>3. m \in Nat
  BY <1>1 DEF LinkTypeOK
<1>4. /\ k \in DOMAIN loads /\ j \in DOMAIN loads[k].maps
      /\ remaps' \in [DOMAIN loads -> Seq(Nat)]
      /\ Len(remaps[k]) = j - 1 /\ Len(remaps'[k]) = j
      /\ remaps'[k][j] = m
      /\ \A i \in 1 .. j - 1 : remaps'[k][i] = remaps[k][i]
      /\ \A l \in DOMAIN loads : l # k => remaps'[l] = remaps[l]
  BY <1>1, <1>2, <1>3, RemapGrows
<1>5. j \in Nat
  BY <1>1 DEF LinkTypeOK
<1>6. LinkTypeOK'
  BY <1>1, <1>2, <1>4 DEF LinkTypeOK, relocated, symbols
<1>7. ProgressInv'
  BY <1>4, MergeProgress
<1>8. MapsInv'
  <2>1. ASSUME NEW l \in DOMAIN loads, NEW i \in 1 .. Len(remaps'[l])
        PROVE  /\ i \in DOMAIN loads[l].maps
               /\ remaps'[l][i] \in DOMAIN maps
               /\ maps[remaps'[l][i]].key = map_key(loads[l].maps[i], i, loads[l].path)
               /\ same_geometry(maps[remaps'[l][i]], loads[l].maps[i])
    <3>1. CASE l = k /\ i = j
      BY <3>1, <1>2, <1>4
    <3>2. CASE ~(l = k /\ i = j)
      <4>1. i \in 1 .. Len(remaps[l]) /\ remaps'[l][i] = remaps[l][i]
        BY <3>2, <1>4, <1>5
      <4> QED
        BY <4>1 DEF LinkInv, MapsInv
    <3> QED
      BY <3>1, <3>2
  <2>2. \A x, y \in DOMAIN maps : maps[x].key = maps[y].key => x = y
    BY DEF LinkInv, MapsInv
  <2>3. loads' = loads /\ maps' = maps
    BY <1>1, <1>2
  <2> QED
    BY <2>1, <2>2, <2>3, Zenon DEF MapsInv, map_key, same_geometry
<1>9. GlobalsInv' /\ BodiesInv'
  BY <1>1, GlobalsFrame, MapsPhase DEF LinkInv
<1> QED
  BY <1>6, <1>7, <1>8, <1>9 DEF LinkInv

\* One map of one load.
LEMMA MergeMapStep == LinkInv /\ MergeMap => LinkInv'
<1> SUFFICES ASSUME LinkInv, MergeMap PROVE LinkInv'
  OBVIOUS
<1> DEFINE info == loads[k].maps[j]
           key == map_key(info, j, loads[k].path)
<1>1. AddMap(info, key) \/ ShareMap(info, key)
  BY Zenon DEF MergeMap
<1> QED
  BY <1>1, AddMapStep, ShareMapStep

\* The end of a load's maps.
LEMMA MergeMapsDoneStep == LinkInv /\ MergeMapsDone => LinkInv'
<1> SUFFICES ASSUME LinkInv, MergeMapsDone PROVE LinkInv'
  OBVIOUS
<1>1. /\ pc = "maps" /\ j > Len(loads[k].maps) /\ j' = 1
      /\ LinkTypeOK /\ ProgressInv /\ MapsInv /\ GlobalsInv
      /\ UNCHANGED << loads, tails, cause, maps, remaps, bss, renames, rodata,
                      bases, instrs, progs, claimed >>
  BY DEF LinkInv, MergeMapsDone
<1>2. /\ k \in DOMAIN loads /\ loads[k] \in Load /\ k \in Nat \ {0}
      /\ DOMAIN loads = 1 .. Len(loads) /\ Len(loads) \in Nat \ {0}
  BY <1>1, LoadInProgress DEF LinkTypeOK
<1>3. \A l \in DOMAIN loads : Len(loads[l].maps) \in Nat
  <2> TAKE l \in DOMAIN loads
  <2>1. loads[l] \in Load
    BY <1>1 DEF LinkTypeOK
  <2> QED
    BY <2>1 DEF Load
<1>4. \A l \in DOMAIN loads :
         Len(remaps[l]) = IF l < k THEN Len(loads[l].maps)
                          ELSE IF l = k THEN j - 1 ELSE 0
  BY <1>1 DEF ProgressInv
<1>5. j = Len(loads[k].maps) + 1
  <2>1. j <= Len(loads[k].maps) + 1
    BY <1>1 DEF ProgressInv
  <2>2. j \in Nat
    BY <1>1 DEF LinkTypeOK
  <2> QED
    BY <1>1, <1>2, <1>3, <2>1, <2>2
<1>6. \A l \in DOMAIN loads :
         Len(remaps[l]) = IF l <= k THEN Len(loads[l].maps) ELSE 0
  BY <1>2, <1>3, <1>4, <1>5
<1>7. Len(bases) = 0 /\ Len(progs) = 0 /\ Len(instrs) = 0
  BY <1>1 DEF ProgressInv
<1>8. LinkTypeOK' /\ ProgressInv'
  <2>1. CASE k < Len(loads)
    <3>1. k' = k + 1 /\ pc' = "maps"
      BY <1>1, <2>1 DEF MergeMapsDone
    <3>2. LinkTypeOK'
      BY <1>1, <1>2, <3>1 DEF LinkTypeOK, relocated, symbols
    <3>3. /\ k + 1 \in DOMAIN loads /\ k + 1 <= Len(loads)
          /\ 1 <= Len(loads[k + 1].maps) + 1
      BY <1>2, <1>3, <2>1
    <3>4. \A l \in DOMAIN loads :
             Len(remaps[l]) = IF l < k + 1 THEN Len(loads[l].maps)
                              ELSE IF l = k + 1 THEN 1 - 1 ELSE 0
      BY <1>2, <1>6
    <3>5. ProgressInv'
      BY <1>1, <1>7, <3>1, <3>3, <3>4 DEF ProgressInv, Finished
    <3> QED
      BY <3>2, <3>5
  <2>2. CASE ~(k < Len(loads))
    <3>1. k' = 1 /\ pc' = "globals"
      BY <1>1, <2>2 DEF MergeMapsDone
    <3>2. LinkTypeOK'
      BY <1>1, <3>1 DEF LinkTypeOK, relocated, symbols
    <3>3. \A l \in DOMAIN loads : Len(remaps[l]) = Len(loads[l].maps)
      BY <1>2, <1>6, <2>2
    <3>4. ProgressInv'
      BY <1>1, <1>2, <1>7, <3>1, <3>3 DEF ProgressInv, Finished
    <3> QED
      BY <3>2, <3>4
  <2> QED
    BY <2>1, <2>2
<1>9. MapsInv' /\ GlobalsInv' /\ BodiesInv'
  BY <1>1, MapsFrame, GlobalsFrame, BodiesFrame DEF LinkInv
<1> QED
  BY <1>8, <1>9 DEF LinkInv

-----------------------------------------------------------------------------
(* _merge_globals. *)

\* One symbol: a rename, if any, is the entry in front of the name.
LEMMA MergeSymbolStep == LinkInv /\ MergeSymbol => LinkInv'
<1> SUFFICES ASSUME LinkInv, MergeSymbol PROVE LinkInv'
  OBVIOUS
<1> DEFINE name == loads[k].bss[j].name
           new == << loads[k].entry >> \o name
<1>1. /\ pc = "globals" /\ pc' = pc /\ j <= Len(loads[k].bss) /\ j' = j + 1
      /\ LinkTypeOK /\ ProgressInv /\ MapsInv /\ GlobalsInv
      /\ UNCHANGED << loads, tails, cause, k, maps, remaps, rodata, bases,
                      instrs, progs, claimed >>
  BY DEF LinkInv, MergeSymbol
<1>2. renames' = renames \/ renames' = [renames EXCEPT ![k] = put(@, name, new)]
  BY Zenon DEF MergeSymbol
<1>3. k \in DOMAIN loads /\ loads[k] \in Load
  BY <1>1 DEF LinkTypeOK, ProgressInv
<1>4. name \in symbols(loads[k])
  <2>1. loads[k].bss \in Seq(Symbol) /\ j \in Nat \ {0}
    BY <1>1, <1>3 DEF Load, LinkTypeOK
  <2>2. j \in DOMAIN loads[k].bss
    BY <1>1, <2>1
  <2> QED
    BY <2>2 DEF symbols
<1>5. LinkTypeOK'
  BY <1>1, <1>2, <1>3 DEF LinkTypeOK, relocated, symbols
<1>6. ProgressInv'
  BY <1>1 DEF ProgressInv, Finished
<1>7. GlobalsInv'
  <2>1. ASSUME NEW l \in DOMAIN loads, NEW x \in DOMAIN renames'[l]
        PROVE  x \in symbols(loads[l]) /\ renames'[l][x] = << loads[l].entry >> \o x
    <3>1. CASE renames'[l] = renames[l]
      BY <3>1, <1>1 DEF GlobalsInv
    <3>2. CASE renames'[l] # renames[l]
      <4>1. l = k /\ renames'[l] = put(renames[k], name, new)
        BY <3>2, <1>1, <1>2, <1>3 DEF LinkTypeOK
      <4>2. /\ x \in DOMAIN renames[k] \cup {name}
            /\ renames'[l][x] = IF x = name THEN new ELSE renames[k][x]
        BY <4>1 DEF put
      <4> QED
        BY <4>1, <4>2, <1>1, <1>3, <1>4 DEF GlobalsInv
    <3> QED
      BY <3>1, <3>2
  <2> QED
    BY <2>1, <1>1 DEF GlobalsInv, symbols
<1>8. MapsInv' /\ BodiesInv'
  BY <1>1, MapsFrame, MapsPhase
<1> QED
  BY <1>5, <1>6, <1>7, <1>8 DEF LinkInv

\* The constants of one load, from the end of the blob on.
LEMMA MergeRodataStep == LinkInv /\ MergeRodata => LinkInv'
<1> SUFFICES ASSUME LinkInv, MergeRodata PROVE LinkInv'
  OBVIOUS
<1>1. /\ pc = "globals" /\ j' = 1
      /\ LinkTypeOK /\ ProgressInv /\ MapsInv /\ GlobalsInv
      /\ bases' = Append(bases, Len(rodata))
      /\ rodata' = with_data(rodata, loads[k].rodata)
      /\ UNCHANGED << loads, tails, cause, maps, remaps, bss, renames, instrs,
                      progs, claimed >>
  BY DEF LinkInv, MergeRodata
<1>2. /\ k \in DOMAIN loads /\ loads[k] \in Load /\ k \in Nat \ {0}
      /\ DOMAIN loads = 1 .. Len(loads) /\ Len(loads) \in Nat \ {0}
  BY <1>1, LoadInProgress DEF LinkTypeOK
<1>3. /\ rodata \in Seq(Nat) /\ Len(rodata) \in Nat
      /\ bases \in Seq(Nat) /\ Len(bases) = k - 1
      /\ loads[k].rodata \in Seq(Nat) /\ Len(loads[k].rodata) \in Nat
  <2>1. rodata \in Seq(Nat) /\ Len(rodata) \in Nat /\ bases \in Seq(Nat)
    BY <1>1 DEF LinkTypeOK
  <2>2. Len(bases) = k - 1
    BY <1>1 DEF ProgressInv
  <2>3. loads[k].rodata \in Seq(Nat)
    BY <1>2 DEF Load
  <2> QED
    BY <2>1, <2>2, <2>3
<1>4. /\ rodata' \in Seq(Nat)
      /\ Len(rodata') >= Len(rodata) + Len(loads[k].rodata)
      /\ \A i \in 1 .. Len(rodata) : rodata'[i] = rodata[i]
      /\ \A i \in 1 .. Len(loads[k].rodata) :
            rodata'[Len(rodata) + i] = loads[k].rodata[i]
  BY <1>1, <1>3, WithData
<1>5. /\ bases' \in Seq(Nat) /\ Len(bases') = k
      /\ \A l \in 1 .. k - 1 : bases'[l] = bases[l]
      /\ bases'[k] = Len(rodata)
  BY <1>1, <1>2, <1>3, AppendProperties
<1>6. /\ DOMAIN bases = 1 .. k - 1 /\ DOMAIN bases' = 1 .. k
      /\ DOMAIN rodata = 1 .. Len(rodata) /\ DOMAIN rodata' = 1 .. Len(rodata')
      /\ Len(rodata') \in Nat
  BY <1>2, <1>3, <1>4, <1>5
<1>6a. Len(rodata') >= Len(rodata)
  BY ONLY <1>3, <1>4, <1>6
<1>6b. DOMAIN rodata \subseteq DOMAIN rodata'
  BY ONLY <1>3, <1>6, <1>6a
<1>7. GlobalsInv'
  <2>1. ASSUME NEW l \in 1 .. k, NEW i \in 1 .. Len(loads[l].rodata)
        PROVE  /\ bases'[l] + i \in DOMAIN rodata'
               /\ rodata'[bases'[l] + i] = loads[l].rodata[i]
    <3>1. CASE l = k
      <4>1. bases'[l] = Len(rodata) /\ i \in 1 .. Len(loads[k].rodata)
        BY <3>1, <1>5
      <4>2. Len(rodata) + i \in DOMAIN rodata'
        BY <4>1, <1>3, <1>4, <1>6
      <4>3. rodata'[Len(rodata) + i] = loads[k].rodata[i]
        BY <4>1, <1>4
      <4> QED
        BY <3>1, <4>1, <4>2, <4>3
    <3>2. CASE l # k
      <4>1. l \in 1 .. k - 1 /\ l \in DOMAIN bases
        BY <3>2, <1>2, <1>6
      <4>2. bases[l] + i \in DOMAIN rodata /\ rodata[bases[l] + i] = loads[l].rodata[i]
        BY <4>1, <1>1 DEF GlobalsInv
      <4>3. bases'[l] = bases[l]
        BY <4>1, <1>5
      <4>4. bases[l] + i \in DOMAIN rodata'
        BY ONLY <4>2, <1>6b, Zenon
      <4>5. rodata'[bases[l] + i] = rodata[bases[l] + i]
        BY <4>2, <1>4, <1>6
      <4> QED
        BY <4>2, <4>3, <4>4, <4>5
    <3> QED
      BY <3>1, <3>2
  <2>2. loads' = loads /\ renames' = renames
    BY <1>1
  <2>3. \A l \in DOMAIN loads : \A x \in DOMAIN renames[l] :
           x \in symbols(loads[l]) /\ renames[l][x] = << loads[l].entry >> \o x
    BY <1>1 DEF GlobalsInv
  <2>4. \A l \in DOMAIN bases' : \A i \in 1 .. Len(loads'[l].rodata) :
           /\ bases'[l] + i \in DOMAIN rodata'
           /\ rodata'[bases'[l] + i] = loads'[l].rodata[i]
    BY <2>1, <2>2, <1>6
  <2>5. \A l \in DOMAIN loads' : \A x \in DOMAIN renames'[l] :
           x \in symbols(loads'[l]) /\ renames'[l][x] = << loads'[l].entry >> \o x
    BY <2>2, <2>3
  <2> QED
    BY <2>4, <2>5, Zenon DEF GlobalsInv, symbols
<1>8. /\ \A l \in DOMAIN loads : Len(remaps[l]) = Len(loads[l].maps)
      /\ Len(progs) = 0 /\ Len(instrs) = 0
  BY <1>1 DEF ProgressInv
<1>9. LinkTypeOK' /\ ProgressInv'
  <2>1. CASE k < Len(loads)
    <3>1. k' = k + 1 /\ pc' = "globals"
      BY <1>1, <2>1 DEF MergeRodata
    <3>2. LinkTypeOK'
      BY <1>1, <1>2, <1>4, <1>5, <3>1 DEF LinkTypeOK, relocated, symbols
    <3>3. k + 1 <= Len(loads) /\ Len(bases') = (k + 1) - 1
      BY <1>2, <1>5, <2>1
    <3>4. ProgressInv'
      BY <1>1, <1>8, <3>1, <3>3 DEF ProgressInv, Finished
    <3> QED
      BY <3>2, <3>4
  <2>2. CASE ~(k < Len(loads))
    <3>1. k' = 1 /\ pc' = "append"
      BY <1>1, <2>2 DEF MergeRodata
    <3>2. LinkTypeOK'
      BY <1>1, <1>4, <1>5, <3>1 DEF LinkTypeOK, relocated, symbols
    <3>3. 1 <= Len(loads) /\ Len(bases') = Len(loads) /\ Len(progs) = 1 - 1
      BY <1>2, <1>5, <1>8, <2>2
    <3>4. ProgressInv'
      BY <1>1, <1>8, <3>1, <3>3 DEF ProgressInv, Finished
    <3> QED
      BY <3>2, <3>4
  <2> QED
    BY <2>1, <2>2
<1>10. MapsInv' /\ BodiesInv'
  BY <1>1, MapsFrame, MapsPhase
<1> QED
  BY <1>7, <1>9, <1>10 DEF LinkInv

-----------------------------------------------------------------------------
(* The bodies. *)

\* _retag gives an instruction its merged map, its variable and its offset.
LEMMA RetagFields ==
    ASSUME NEW instr \in Instr, NEW l, NEW base \in Nat
    PROVE  /\ retag(instr, l, base).op = instr.op
           /\ retag(instr, l, base).tag =
                 IF instr.region = "map" THEN remaps[l][instr.tag] ELSE instr.tag
           /\ retag(instr, l, base).sym =
                 IF instr.region = "bss" /\ instr.sym \in DOMAIN renames[l]
                 THEN renames[l][instr.sym] ELSE instr.sym
           /\ retag(instr, l, base).rodata_offset =
                 IF instr.region = "rodata" THEN instr.rodata_offset + bases[l]
                 ELSE instr.rodata_offset
  BY DEF retag, Instr

\* A retagged instruction is an instruction.
LEMMA RetagType ==
    ASSUME LinkInv, pc = "append", NEW p \in DOMAIN loads[k].instrs, NEW base \in Nat
    PROVE  retag(loads[k].instrs[p], k, base) \in Instr
<1>1. k \in DOMAIN loads /\ loads[k] \in Load
  BY LoadInProgress DEF LinkInv
<1>2. loads[k].instrs \in Seq(Instr) /\ loads[k].entry \in STRING
  BY <1>1 DEF Load
<1>3. PICK ins \in Instr : ins = loads[k].instrs[p]
  BY <1>2
<1>4. ins.region = "map" => remaps[k][ins.tag] \in Nat
  <2> HAVE ins.region = "map"
  <2>1. ins.tag \in DOMAIN loads[k].maps
    BY <1>1, <1>3 DEF LinkInv, LinkTypeOK, relocated
  <2>2. loads[k].maps \in Seq(MapInfo)
    BY <1>1 DEF Load
  <2>3. remaps[k] \in Seq(Nat) /\ Len(remaps[k]) = Len(loads[k].maps)
    BY <1>1 DEF LinkInv, LinkTypeOK, ProgressInv
  <2> QED
    BY <2>1, <2>2, <2>3
<1>5. \A x \in DOMAIN renames[k] : renames[k][x] \in Seq(STRING)
  <2> TAKE x \in DOMAIN renames[k]
  <2>1. x \in symbols(loads[k]) /\ renames[k][x] = << loads[k].entry >> \o x
    BY <1>1 DEF LinkInv, GlobalsInv
  <2>2. loads[k].bss \in Seq(Symbol)
    BY <1>1 DEF Load
  <2>3. x \in Seq(STRING)
    <3>1. PICK i \in DOMAIN loads[k].bss : x = loads[k].bss[i].name
      BY <2>1 DEF symbols
    <3>2. loads[k].bss[i] \in Symbol
      BY <2>2
    <3> QED
      BY <3>1, <3>2 DEF Symbol
  <2>4. << loads[k].entry >> \in Seq(STRING)
    BY <1>2
  <2> QED
    BY <2>1, <2>3, <2>4
<1>6. bases[k] \in Nat
  BY <1>1 DEF LinkInv, LinkTypeOK, ProgressInv
<1>7. /\ ins.idx \in Nat /\ base + ins.idx \in Nat
      /\ ins.rodata_offset \in Nat /\ ins.rodata_offset + bases[k] \in Nat
      /\ ins.sym \in Seq(STRING) /\ ins.tag \in Nat
  BY <1>6 DEF Instr
<1>8. retag(ins, k, base) \in Instr
  BY <1>4, <1>5, <1>7 DEF retag, Instr
<1> QED
  BY <1>3, <1>8

\* The region of the next body.
LEMMA RegionType ==
    ASSUME LinkInv, pc = "append", ~bad_body(k)
    PROVE  region(k) \in Region /\ region(k).start = Len(instrs)
<1>1. k \in DOMAIN loads /\ loads[k] \in Load /\ k \in Nat \ {0}
  BY LoadInProgress DEF LinkInv, LinkTypeOK
<1>2. Len(instrs) \in Nat /\ Len(loads[k].instrs) \in Nat
  <2>1. instrs \in Seq(Instr)
    BY DEF LinkInv, LinkTypeOK
  <2>2. loads[k].instrs \in Seq(Instr)
    BY <1>1 DEF Load
  <2> QED
    BY <2>1, <2>2
<1>3. k # 1 => tail_of(k) \in TailSpec
  <2> HAVE k # 1
  <2>1. /\ tails \in Seq(TailSpec) /\ loads \in Seq(Load)
        /\ Len(loads) = Len(tails) + 1
    BY DEF LinkInv, LinkTypeOK
  <2>2. k - 1 \in 1 .. Len(tails)
    BY <1>1, <2>1
  <2> QED
    BY <2>1, <2>2 DEF tail_of
<1>4. k # 1 => (CHOOSE m \in prog_arrays(tail_of(k).map_name) : TRUE) \in Nat
  <2> HAVE k # 1
  <2>1. Cardinality(prog_arrays(tail_of(k).map_name)) = 1
    BY <1>1 DEF bad_body
  <2>2. prog_arrays(tail_of(k).map_name) # {}
    BY <2>1, FS_EmptySet
  <2>3. prog_arrays(tail_of(k).map_name) \subseteq Nat
    BY DEF prog_arrays, LinkInv, LinkTypeOK
  <2> QED
    BY <2>2, <2>3
<1> QED
  BY <1>1, <1>2, <1>3, <1>4 DEF region, Region, TailSpec

\* One body more.
LEMMA AppendBodyStep == LinkInv /\ AppendBody => LinkInv'
<1> SUFFICES ASSUME LinkInv, AppendBody PROVE LinkInv'
  OBVIOUS
<1> DEFINE body == [p \in DOMAIN loads[k].instrs |->
                       retag(loads[k].instrs[p], k, Len(instrs))]
           n == Len(loads[k].instrs)
<1>1. /\ pc = "append" /\ ~bad_body(k)
      /\ LinkTypeOK /\ ProgressInv /\ MapsInv /\ GlobalsInv /\ BodiesInv
      /\ instrs' = instrs \o body /\ progs' = Append(progs, region(k))
      /\ k' = k + 1
      /\ UNCHANGED << loads, tails, cause, maps, remaps, bss, renames, rodata,
                      bases, claimed >>
  BY DEF LinkInv, AppendBody
<1>2. /\ k \in DOMAIN loads /\ loads[k] \in Load /\ k \in Nat \ {0}
      /\ DOMAIN loads = 1 .. Len(loads) /\ Len(loads) \in Nat \ {0}
  BY <1>1, LoadInProgress DEF LinkTypeOK
<1>3. loads[k].instrs \in Seq(Instr) /\ n \in Nat /\ DOMAIN loads[k].instrs = 1 .. n
  BY <1>2 DEF Load
<1>4. instrs \in Seq(Instr) /\ Len(instrs) \in Nat /\ DOMAIN instrs = 1 .. Len(instrs)
  BY <1>1 DEF LinkTypeOK
<1>5. \A p \in DOMAIN loads[k].instrs :
         retag(loads[k].instrs[p], k, Len(instrs)) \in Instr
  BY <1>1, <1>4, RetagType
<1>6. body \in [1 .. n -> Instr]
  BY <1>3, <1>5
<1>7. body \in Seq(Instr) /\ Len(body) = n
  BY <1>3, <1>6
<1>8. \A p \in 1 .. n : body[p] = retag(loads[k].instrs[p], k, Len(instrs))
  BY <1>3
<1> HIDE DEF body
<1>9. /\ instrs' \in Seq(Instr) /\ Len(instrs') = Len(instrs) + n
      /\ \A i \in 1 .. Len(instrs) + n :
            instrs'[i] = IF i <= Len(instrs) THEN instrs[i] ELSE body[i - Len(instrs)]
  <2>1. instrs' = instrs \o body
    BY <1>1
  <2>2. /\ instrs \o body \in Seq(Instr) /\ Len(instrs \o body) = Len(instrs) + Len(body)
        /\ \A i \in 1 .. Len(instrs) + Len(body) :
              (instrs \o body)[i] =
                  IF i <= Len(instrs) THEN instrs[i] ELSE body[i - Len(instrs)]
    BY <1>4, <1>7, ConcatProperties, Zenon
  <2>3. Len(body) = n
    BY <1>7
  <2> HIDE DEF n
  <2> QED
    BY <2>1, <2>2, <2>3, Zenon
<1>10. region(k) \in Region /\ region(k).start = Len(instrs)
  BY <1>1, RegionType
<1>11. progs \in Seq(Region) /\ Len(progs) = k - 1
  BY <1>1 DEF LinkTypeOK, ProgressInv
<1>12. /\ progs' \in Seq(Region) /\ Len(progs') = k
       /\ \A l \in 1 .. k - 1 : progs'[l] = progs[l]
       /\ progs'[k] = region(k)
  BY <1>1, <1>2, <1>10, <1>11, AppendProperties
<1>13. DOMAIN progs = 1 .. k - 1 /\ DOMAIN progs' = 1 .. k
  BY <1>2, <1>11, <1>12
<1>14. DOMAIN instrs' = 1 .. Len(instrs) + n
  BY <1>9
<1>15. BodiesInv'
  <2>1. ASSUME NEW l \in 1 .. k, NEW p \in DOMAIN loads[l].instrs
        PROVE  /\ progs'[l].start + p \in DOMAIN instrs'
               /\ instrs'[progs'[l].start + p]
                    = retag(loads[l].instrs[p], l, progs'[l].start)
    <3>1. CASE l = k
      <4>1. progs'[l].start = Len(instrs) /\ p \in 1 .. n
        BY <3>1, <1>3, <1>10, <1>12
      <4>2. /\ Len(instrs) + p \in 1 .. Len(instrs) + n
            /\ ~(Len(instrs) + p <= Len(instrs))
            /\ (Len(instrs) + p) - Len(instrs) = p
        BY <4>1, <1>3, <1>4
      <4>3. instrs'[Len(instrs) + p] = body[p]
        BY <4>2, <1>9
      <4> QED
        BY <3>1, <4>1, <4>2, <4>3, <1>8, <1>14
    <3>2. CASE l # k
      <4>1. l \in 1 .. k - 1 /\ l \in DOMAIN progs
        BY <3>2, <1>2, <1>13
      <4>2. /\ progs[l].start + p \in DOMAIN instrs
            /\ instrs[progs[l].start + p] = retag(loads[l].instrs[p], l, progs[l].start)
        BY <4>1, <1>1 DEF BodiesInv, linked
      <4>3. progs'[l] = progs[l]
        BY <4>1, <1>12
      <4>4. PICK at \in DOMAIN instrs : at = progs[l].start + p
        BY <4>2
      <4>5. at \in DOMAIN instrs' /\ instrs'[at] = instrs[at]
        BY <1>3, <1>4, <1>9, <1>14
      <4> QED
        BY <4>2, <4>3, <4>4, <4>5
    <3> QED
      BY <3>1, <3>2
  <2>2. loads' = loads /\ remaps' = remaps /\ renames' = renames /\ bases' = bases
    BY <1>1
  <2>3. \A instr, l, base : retag(instr, l, base)' = retag(instr, l, base)
    BY <2>2, Zenon DEF retag
  <2> QED
    BY <2>1, <2>2, <2>3, <1>13, Zenon DEF BodiesInv, linked
<1>16. LinkTypeOK'
  <2>1. j' \in Nat \ {0}
    BY <1>1 DEF AppendBody, LinkTypeOK
  <2> QED
    BY <1>1, <1>2, <1>9, <1>12, <2>1 DEF LinkTypeOK, relocated, symbols
<1>17. ProgressInv'
  <2>1. /\ \A l \in DOMAIN loads : Len(remaps[l]) = Len(loads[l].maps)
        /\ Len(bases) = Len(loads)
    BY <1>1 DEF ProgressInv
  <2>2. CASE k < Len(loads)
    <3>1. pc' = "append" /\ k + 1 <= Len(loads) /\ k = (k + 1) - 1
      BY <1>1, <1>2, <2>2 DEF AppendBody
    <3> QED
      BY <1>1, <1>12, <2>1, <3>1 DEF ProgressInv, Finished
  <2>3. CASE ~(k < Len(loads))
    <3>1. pc' = "claim" /\ k = Len(loads)
      BY <1>1, <1>2, <2>3 DEF AppendBody
    <3> QED
      BY <1>1, <1>12, <2>1, <3>1 DEF ProgressInv, Finished
  <2> QED
    BY <2>2, <2>3
<1>18. MapsInv' /\ GlobalsInv'
  BY <1>1, MapsFrame, GlobalsFrame
<1> QED
  BY <1>15, <1>16, <1>17, <1>18 DEF LinkInv

-----------------------------------------------------------------------------
(* The other steps of the linker, and of the later stages. *)

\* Callees are checked, and the merge begins.
LEMMA CheckTailsStep == LinkInv /\ CheckTails => LinkInv'
<1> SUFFICES ASSUME LinkInv, CheckTails PROVE LinkInv'
  OBVIOUS
<1>1. pc = "check" /\ pc' = "maps" /\ UNCHANGED link_data
  BY DEF CheckTails, link_data
<1>2. LinkTypeOK' /\ MapsInv' /\ GlobalsInv' /\ BodiesInv'
  BY <1>1, TypeFrame, MapsFrame, GlobalsFrame, BodiesFrame DEF LinkInv, link_data
<1>3. k <= Len(loads)
  BY <1>1 DEF LinkInv, LinkTypeOK, ProgressInv
<1>4. ProgressInv'
  BY <1>1, <1>3 DEF LinkInv, ProgressInv, Finished, link_data
<1> QED
  BY <1>2, <1>4 DEF LinkInv

\* Claims only count the regions.
LEMMA ClaimStep == LinkInv /\ (Claim \/ LinkReturn) => LinkInv'
<1> SUFFICES ASSUME LinkInv, Claim \/ LinkReturn PROVE LinkInv'
  OBVIOUS
<1>1. /\ pc = "claim" /\ pc' \in {"claim", "linked"} /\ j' \in {j, j + 1}
      /\ UNCHANGED << loads, tails, k, maps, remaps, bss, renames, rodata, bases,
                      instrs, progs >>
  BY DEF Claim, LinkReturn
<1>2. LinkTypeOK'
  BY <1>1 DEF LinkInv, LinkTypeOK, relocated, symbols
<1>3. MapsInv' /\ GlobalsInv' /\ BodiesInv'
  BY <1>1, MapsFrame, GlobalsFrame, BodiesFrame DEF LinkInv
<1>4. ProgressInv'
  BY <1>1 DEF LinkInv, ProgressInv, Finished
<1> QED
  BY <1>2, <1>3, <1>4 DEF LinkInv

\* Every exception of the linker leaves its lists alone.
LEMMA RaiseStep ==
    CheckTailsRaises \/ MergeMapRaises \/ AppendBodyRaises \/ ClaimRaises
        => pc' = "error" /\ UNCHANGED link_data
  BY DEF CheckTailsRaises, MergeMapRaises, AppendBodyRaises, ClaimRaises, Raise,
         link_data

\* The later stages read what the linker made.
LEMMA RunStep ==
    \/ FindLeaders \/ BlockEdges \/ BlockEdgesRaises \/ MarkEntries
    \/ TrackBlock \/ TrackRaises \/ TrackStuck
    \/ StartRun \/ RunPlain \/ RunJump \/ RunTailCall \/ RunExit \/ RunRefused
    \/ Ended
    => /\ UNCHANGED link_data
       /\ pc' = "error" \/ (Finished /\ Finished') \/ pc' = pc
<1>1. FindLeaders => UNCHANGED link_data /\ Finished /\ Finished'
  BY DEF FindLeaders, link_data, Finished
<1>2. BlockEdges \/ TrackBlock \/ RunPlain \/ RunJump \/ RunTailCall \/ Ended
         => UNCHANGED link_data /\ pc' = pc
  BY DEF BlockEdges, TrackBlock, RunPlain, RunJump, RunTailCall, Ended, vars,
         link_vars, link_data
<1>3. BlockEdgesRaises \/ TrackRaises \/ TrackStuck
         => UNCHANGED link_data /\ pc' = "error"
  BY DEF BlockEdgesRaises, TrackRaises, TrackStuck, Raise, link_data
<1>4. MarkEntries \/ StartRun \/ RunExit \/ RunRefused
         => UNCHANGED link_data /\ Finished /\ Finished'
  BY DEF MarkEntries, StartRun, RunExit, RunRefused, link_data, Finished
<1> QED
  BY <1>1, <1>2, <1>3, <1>4

\* Every step keeps the invariant.
LEMMA LinkInvStep == LinkInv /\ [Next]_vars => LinkInv'
<1> SUFFICES ASSUME LinkInv, [Next]_vars PROVE LinkInv'
  OBVIOUS
<1>1. CASE CheckTails
  BY <1>1, CheckTailsStep
<1>2. CASE MergeMap
  BY <1>2, MergeMapStep
<1>3. CASE MergeMapsDone
  BY <1>3, MergeMapsDoneStep
<1>4. CASE MergeSymbol
  BY <1>4, MergeSymbolStep
<1>5. CASE MergeRodata
  BY <1>5, MergeRodataStep
<1>6. CASE AppendBody
  BY <1>6, AppendBodyStep
<1>7. CASE Claim \/ LinkReturn
  BY <1>7, ClaimStep
<1>8. CASE CheckTailsRaises \/ MergeMapRaises \/ AppendBodyRaises \/ ClaimRaises
  BY <1>8, RaiseStep, DataFrame
<1>9. CASE \/ FindLeaders \/ BlockEdges \/ BlockEdgesRaises \/ MarkEntries
           \/ TrackBlock \/ TrackRaises \/ TrackStuck
           \/ StartRun \/ RunPlain \/ RunJump \/ RunTailCall \/ RunExit \/ RunRefused
           \/ Ended
  BY <1>9, RunStep, DataFrame
<1>10. CASE UNCHANGED vars
  <2>1. UNCHANGED link_data /\ pc' = pc
    BY <1>10 DEF vars, link_vars, link_data
  <2> QED
    BY <2>1, DataFrame
<1> QED
  BY <1>1, <1>2, <1>3, <1>4, <1>5, <1>6, <1>7, <1>8, <1>9, <1>10 DEF Next, LinkNext

-----------------------------------------------------------------------------
(* What the invariant says of the references. *)

\* A reference is an instruction of a load, and its linked form is its retag.
LEMMA RefLinked ==
    ASSUME LinkInv, Finished, NEW kind, NEW r \in Refs(kind)
    PROVE  /\ r[1] \in DOMAIN loads /\ r[2] \in DOMAIN loads[r[1]].instrs
           /\ loads[r[1]] \in Load
           /\ loads[r[1]].instrs[r[2]] \in Instr
           /\ loads[r[1]].instrs[r[2]].region = kind
           /\ progs[r[1]].start \in Nat
           /\ linked(r[1], r[2]) = retag(loads[r[1]].instrs[r[2]], r[1], progs[r[1]].start)
<1>1. PICK l \in DOMAIN loads : r \in {l} \X (DOMAIN loads[l].instrs)
  BY DEF Refs
<1>2. r[1] \in DOMAIN loads /\ r[2] \in DOMAIN loads[r[1]].instrs
  BY <1>1
<1>3. loads[r[1]].instrs[r[2]].region = kind
  BY DEF Refs
<1>4. loads[r[1]] \in Load
  BY <1>2 DEF LinkInv, LinkTypeOK
<1>5. loads[r[1]].instrs[r[2]] \in Instr
  <2>1. loads[r[1]].instrs \in Seq(Instr)
    BY <1>4 DEF Load
  <2> QED
    BY <1>2, <2>1
<1>6. r[1] \in DOMAIN progs /\ progs[r[1]] \in Region
  BY <1>2 DEF LinkInv, LinkTypeOK, ProgressInv
<1>7. progs[r[1]].start \in Nat
  BY <1>6 DEF Region
<1>8. linked(r[1], r[2]) = retag(loads[r[1]].instrs[r[2]], r[1], progs[r[1]].start)
  BY <1>2, <1>6 DEF LinkInv, BodiesInv
<1> QED
  BY <1>2, <1>3, <1>4, <1>5, <1>7, <1>8

\* Map references.
LEMMA MapRefs == LinkInv /\ Finished => map_refs_exact
<1> SUFFICES ASSUME LinkInv, Finished PROVE map_refs_exact
  OBVIOUS
<1>1. ASSUME NEW r \in Refs("map")
      PROVE  /\ linked(r[1], r[2]).tag \in DOMAIN maps
             /\ maps[linked(r[1], r[2]).tag].key = map_of(r[1], r[2])
             /\ same_geometry(maps[linked(r[1], r[2]).tag],
                              loads[r[1]].maps[loads[r[1]].instrs[r[2]].tag])
  <2>1. /\ r[1] \in DOMAIN loads /\ r[2] \in DOMAIN loads[r[1]].instrs
        /\ loads[r[1]] \in Load
        /\ loads[r[1]].instrs[r[2]] \in Instr
        /\ loads[r[1]].instrs[r[2]].region = "map"
        /\ progs[r[1]].start \in Nat
        /\ linked(r[1], r[2]) = retag(loads[r[1]].instrs[r[2]], r[1], progs[r[1]].start)
    BY RefLinked
  <2>2. PICK ins \in Instr : ins = loads[r[1]].instrs[r[2]]
    BY <2>1
  <2>3. linked(r[1], r[2]).tag = remaps[r[1]][ins.tag]
    BY <2>1, <2>2, RetagFields
  <2>4. ins.tag \in DOMAIN loads[r[1]].maps
    BY <2>1, <2>2 DEF LinkInv, LinkTypeOK, relocated
  <2>5. ins.tag \in 1 .. Len(remaps[r[1]])
    <3>1. loads[r[1]].maps \in Seq(MapInfo)
      BY <2>1 DEF Load
    <3>2. Len(remaps[r[1]]) = Len(loads[r[1]].maps)
      BY <2>1 DEF LinkInv, ProgressInv, Finished
    <3> QED
      BY <2>4, <3>1, <3>2
  <2>6. /\ remaps[r[1]][ins.tag] \in DOMAIN maps
        /\ maps[remaps[r[1]][ins.tag]].key
             = map_key(loads[r[1]].maps[ins.tag], ins.tag, loads[r[1]].path)
        /\ same_geometry(maps[remaps[r[1]][ins.tag]], loads[r[1]].maps[ins.tag])
    BY <2>1, <2>5 DEF LinkInv, MapsInv
  <2> QED
    BY <2>2, <2>3, <2>6, Zenon DEF map_of
<1>2. \A r, s \in Refs("map") :
         linked(r[1], r[2]).tag = linked(s[1], s[2]).tag
             <=> map_of(r[1], r[2]) = map_of(s[1], s[2])
  <2>1. \A m, n \in DOMAIN maps : maps[m].key = maps[n].key => m = n
    BY DEF LinkInv, MapsInv
  <2> QED
    BY <1>1, <2>1, Zenon
<1> QED
  BY <1>1, <1>2, Zenon DEF map_refs_exact

\* References to global variables.
LEMMA BssRefs == LinkInv /\ Finished => bss_refs_exact
<1> SUFFICES ASSUME LinkInv, Finished,
                    NEW r \in Refs("bss"), NEW s \in Refs("bss"),
                    renames[r[1]] = renames[s[1]], no_clash(loads[r[1]]),
                    symbols(loads[r[1]]) = symbols(loads[s[1]])
             PROVE  linked(r[1], r[2]).sym = linked(s[1], s[2]).sym
                      <=> loads[r[1]].instrs[r[2]].sym = loads[s[1]].instrs[s[2]].sym
  BY Zenon DEF bss_refs_exact
<1> DEFINE ren == renames[r[1]]
           l == r[1]
<1>1. ASSUME NEW q \in Refs("bss"), renames[q[1]] = ren
      PROVE  /\ loads[q[1]].instrs[q[2]].sym \in symbols(loads[q[1]])
             /\ loads[q[1]].instrs[q[2]].sym \in Seq(STRING)
             /\ linked(q[1], q[2]).sym =
                  IF loads[q[1]].instrs[q[2]].sym \in DOMAIN ren
                  THEN ren[loads[q[1]].instrs[q[2]].sym]
                  ELSE loads[q[1]].instrs[q[2]].sym
  <2>1. /\ q[1] \in DOMAIN loads /\ q[2] \in DOMAIN loads[q[1]].instrs
        /\ loads[q[1]].instrs[q[2]] \in Instr
        /\ loads[q[1]].instrs[q[2]].region = "bss"
        /\ progs[q[1]].start \in Nat
        /\ linked(q[1], q[2]) = retag(loads[q[1]].instrs[q[2]], q[1], progs[q[1]].start)
    BY RefLinked
  <2>2. PICK ins \in Instr : ins = loads[q[1]].instrs[q[2]]
    BY <2>1
  <2>3. ins.sym \in symbols(loads[q[1]])
    BY <2>1, <2>2 DEF LinkInv, LinkTypeOK, relocated
  <2>4. linked(q[1], q[2]).sym =
           IF ins.sym \in DOMAIN renames[q[1]] THEN renames[q[1]][ins.sym] ELSE ins.sym
    BY <2>1, <2>2, RetagFields
  <2>5. ins.sym \in Seq(STRING)
    BY DEF Instr
  <2> QED
    BY <2>2, <2>3, <2>4, <2>5, <1>1, Zenon
<1>2. PICK x : x = loads[r[1]].instrs[r[2]].sym
  OBVIOUS
<1>3. PICK y : y = loads[s[1]].instrs[s[2]].sym
  OBVIOUS
<1>4. l \in DOMAIN loads /\ loads[l] \in Load
  BY RefLinked
<1>5. x \in symbols(loads[l]) /\ y \in symbols(loads[l])
  BY <1>1, <1>2, <1>3
<1>6. x \in Seq(STRING) /\ y \in Seq(STRING) /\ << loads[l].entry >> \in Seq(STRING)
  BY <1>1, <1>2, <1>3, <1>4 DEF Load
<1>7. \A z \in DOMAIN ren : ren[z] = << loads[l].entry >> \o z
  BY <1>4 DEF LinkInv, GlobalsInv
<1>8. << loads[l].entry >> \o x = << loads[l].entry >> \o y => x = y
  BY <1>6, ConcatSimplifications
<1>9. y # << loads[l].entry >> \o x /\ x # << loads[l].entry >> \o y
  BY <1>5 DEF no_clash
<1>10. /\ linked(r[1], r[2]).sym = IF x \in DOMAIN ren THEN ren[x] ELSE x
       /\ linked(s[1], s[2]).sym = IF y \in DOMAIN ren THEN ren[y] ELSE y
  BY <1>1, <1>2, <1>3, Zenon
<1> QED
  BY <1>2, <1>3, <1>7, <1>8, <1>9, <1>10, Zenon

\* References to constants.
LEMMA RodataRefs == LinkInv /\ Finished => rodata_refs_exact
<1> SUFFICES ASSUME LinkInv, Finished, NEW r \in Refs("rodata"),
                    NEW i \in 1 .. Len(loads[r[1]].rodata)
                                     - loads[r[1]].instrs[r[2]].rodata_offset
             PROVE  \E at \in { linked(r[1], r[2]).rodata_offset } :
                      /\ at + i \in DOMAIN rodata
                      /\ rodata[at + i] = loads[r[1]].rodata[
                            loads[r[1]].instrs[r[2]].rodata_offset + i]
  BY Zenon DEF rodata_refs_exact
<1>1. /\ r[1] \in DOMAIN loads /\ loads[r[1]] \in Load
      /\ loads[r[1]].instrs[r[2]] \in Instr
      /\ loads[r[1]].instrs[r[2]].region = "rodata"
      /\ progs[r[1]].start \in Nat
      /\ linked(r[1], r[2]) = retag(loads[r[1]].instrs[r[2]], r[1], progs[r[1]].start)
  BY RefLinked
<1>2. PICK ins \in Instr : ins = loads[r[1]].instrs[r[2]]
  BY <1>1
<1>3. linked(r[1], r[2]).rodata_offset = ins.rodata_offset + bases[r[1]]
  BY <1>1, <1>2, RetagFields
<1>4. ins.rodata_offset \in Nat
  BY DEF Instr
<1>5. Len(loads[r[1]].rodata) \in Nat
  <2>1. loads[r[1]].rodata \in Seq(Nat)
    BY <1>1 DEF Load
  <2> QED
    BY <2>1
<1>6. r[1] \in DOMAIN bases /\ bases[r[1]] \in Nat
  <2>1. loads \in Seq(Load) /\ bases \in Seq(Nat)
    BY DEF LinkInv, LinkTypeOK
  <2>2. Len(bases) = Len(loads)
    BY DEF LinkInv, ProgressInv, Finished
  <2>3. r[1] \in 1 .. Len(bases)
    BY <1>1, <2>1, <2>2
  <2> QED
    BY <2>1, <2>3
<1>7. i \in Nat /\ ins.rodata_offset + i \in 1 .. Len(loads[r[1]].rodata)
  <2>1. PICK n \in Nat : n = Len(loads[r[1]].rodata)
    BY <1>5
  <2>2. PICK off \in Nat : off = ins.rodata_offset
    BY <1>4
  <2>3. i \in 1 .. n - off
    BY <1>2, <2>1, <2>2, Zenon
  <2>4. i \in Nat /\ off + i \in 1 .. n
    BY <2>3
  <2> QED
    BY <2>1, <2>2, <2>4
<1>8. /\ bases[r[1]] + (ins.rodata_offset + i) \in DOMAIN rodata
      /\ rodata[bases[r[1]] + (ins.rodata_offset + i)]
            = loads[r[1]].rodata[ins.rodata_offset + i]
  BY <1>6, <1>7 DEF LinkInv, GlobalsInv
<1>9. bases[r[1]] + (ins.rodata_offset + i) = (ins.rodata_offset + bases[r[1]]) + i
  BY <1>4, <1>6, <1>7
<1> QED
  BY <1>2, <1>3, <1>8, <1>9

(***************************************************************************)
(* The linker's lists have the shape and the content LinkInv states, after *)
(* every step of the linker and of the stages behind it.                   *)
(***************************************************************************)
THEOREM LinkInvariant == Spec => []LinkInv
<1>1. Init => LinkInv
  BY LinkInvInit
<1>2. LinkInv /\ [Next]_vars => LinkInv'
  BY LinkInvStep
<1> QED
  BY <1>1, <1>2, PTL DEF Spec

(***************************************************************************)
(* For every set of objects the user may link, every reference of the      *)
(* linked program names the object it named before (_merge_maps,           *)
(* _merge_globals, _retag).                                                *)
(***************************************************************************)
THEOREM ReferencesAreExact == Spec => []RefsExact
<1>1. LinkInv => RefsExact
  BY MapRefs, BssRefs, RodataRefs DEF RefsExact
<1> QED
  BY <1>1, LinkInvariant, PTL
=============================================================================
