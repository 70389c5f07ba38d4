------------------------------ MODULE AoiSpace ------------------------------
(***************************************************************************)
(* The space of aoi.c with its map of objects as the hash table it is:     *)
(* slots with chains of next, a cursor lastfree that only falls, objects   *)
(* that are displaced from slots they do not own, slots of freed objects   *)
(* that keep their id and their place in a chain, and doubling.            *)
(***************************************************************************)
EXTENDS Aoi, Sequences, SequencesExt

CONSTANT PRE_ALLOC   \* slots of a new map: 16 in the code

ASSUME AoiSpaceAssumption == Ids \subseteq Nat /\ PRE_ALLOC \in Nat \ {0}

VARIABLE map

spaceVars == <<vars, map>>

INVALID_ID == -1

\* A slot: its id, whether it has an object, and the next slot of its chain.
EmptySlots(n) ==
  [i \in 0..(n - 1) |-> [id |-> INVALID_ID, obj |-> FALSE, next |-> -1]]

NewMap(n) == [size |-> n, lastfree |-> n - 1, slot |-> EmptySlots(n)]

mainposition(m, id) == id % m.size

\* The slots of a chain from slot s on, in order.
RECURSIVE Chain(_, _)
Chain(m, s) ==
  <<s>> \o (IF m.slot[s].next < 0 THEN <<>> ELSE Chain(m, m.slot[s].next))

\* The slot of an id, or -1.
Slot(m, id) ==
  LET c == Chain(m, mainposition(m, id))
      at == {i \in DOMAIN c : m.slot[c[i]].id = id}
  IN  IF at = {} THEN -1 ELSE c[CHOOSE i \in at : \A j \in at : i <= j]

RECURSIVE map_insert(_, _)

\* rehash: twice the slots, the ones with an object inserted again.
rehash(m) ==
  LET again(n, i) == IF m.slot[i].obj THEN map_insert(n, m.slot[i].id) ELSE n
  IN  FoldLeft(again, NewMap(2 * m.size), [i \in 1..m.size |-> i - 1])

\* map_insert: an id's own slot when it is empty; else, when that slot holds a
\* member of another chain, the slot is taken and the member goes elsewhere;
\* else a free slot below lastfree, linked behind the id's own.
map_insert(m, id) ==
  LET s == mainposition(m, id)
      own == m.slot[s]
      home == mainposition(m, own.id)
      free == {i \in 0..m.lastfree : m.slot[i].id = INVALID_ID}
      top == CHOOSE i \in free : \A j \in free : j <= i
      chain == Chain(m, home)
      before == CHOOSE i \in Range(chain) : m.slot[i].next = s
  IN  CASE own.id = INVALID_ID ->
             [m EXCEPT !.slot[s].id = id, !.slot[s].obj = TRUE]
        [] own.id # INVALID_ID /\ home # s ->
             LET taken == [m EXCEPT !.slot[before].next = own.next,
                                    !.slot[s] = [id |-> id, obj |-> TRUE, next |-> -1]]
             IN  IF own.obj THEN map_insert(taken, own.id) ELSE taken
        [] own.id # INVALID_ID /\ home = s /\ free # {} ->
             [m EXCEPT !.lastfree = top - 1,
                       !.slot[top] = [id |-> id, obj |-> TRUE, next |-> own.next],
                       !.slot[s].next = top]
        [] OTHER -> map_insert(rehash(m), id)

MapQueryStale(m, id) == IF Slot(m, id) >= 0 THEN m ELSE map_insert(m, id)

\* map_query: the slot of the id gets an object, or the id is inserted.
MapQuery(m, id) ==
  IF Slot(m, id) >= 0 THEN [m EXCEPT !.slot[Slot(m, id)].obj = TRUE]
  ELSE map_insert(m, id)

map_dropUnlinked(m, id) ==
  IF Slot(m, id) < 0 THEN m
  ELSE [m EXCEPT !.slot[Slot(m, id)] = [id |-> INVALID_ID, obj |-> FALSE, next |-> -1]]

\* map_drop: the slot keeps its id and stays in its chain.
map_drop(m, id) ==
  IF Slot(m, id) < 0 THEN m ELSE [m EXCEPT !.slot[Slot(m, id)].obj = FALSE]

\* The map after the objects that a step frees were dropped from it.
MapFreed(m, touched) ==
  LET freed == SetToSeq({id \in touched : objs'[id] = Absent})
  IN  FoldLeft(map_drop, m, freed)

-----------------------------------------------------------------------------
SpaceInit == Init /\ map = NewMap(PRE_ALLOC)

SpaceDrop(id) == aoi_drop(id) /\ map' = MapFreed(MapQuery(map, id), {id})

SpaceUpdate(id, w, m, pos) == aoi_update(id, w, m, pos) /\ map' = MapQuery(map, id)

SpaceMessage == aoi_message /\ map' = MapFreed(map, Live)

SpaceNext ==
  \/ \E id \in Ids : SpaceDrop(id)
  \/ \E id \in Ids : \E mode \in Modes[id], pos \in Points :
       SpaceUpdate(id, mode[1], mode[2], pos)
  \/ SpaceMessage

SpaceSpec == SpaceInit /\ [][SpaceNext]_spaceVars

-----------------------------------------------------------------------------
\* The map finds exactly the objects that are alive, through collisions,
\* displaced members, freed slots and doubling (map_query, map_insert,
\* map_drop, rehash).
MapFinds ==
  \A id \in Ids : (Slot(map, id) >= 0 /\ map.slot[Slot(map, id)].obj) <=> id \in Live

\* Every slot in use is on the chain of its id, and once only: what the walk
\* of map_insert asserts (aoi.c:95) and what map_foreach relies on.
MapChained ==
  \A i \in DOMAIN map.slot :
    map.slot[i].id # INVALID_ID => Slot(map, map.slot[i].id) = i
=============================================================================
