-------------------------------- MODULE Aoi ---------------------------------
(***************************************************************************)
(* lualib-src/skynet_aoi/aoi/aoi.c: which markers come near which          *)
(* watchers.  aoi_update moves an object or changes its mode; a small move *)
(* is not noticed (is_near), any other gives the object a new version and  *)
(* the MOVE mode.  aoi_message tests every pair with an object that has    *)
(* MOVE: a close pair is told to the callback, a pair at middle distance   *)
(* becomes a hot pair, watched by the following messages until one of its  *)
(* versions is outdated.  Hot pairs hold references, so that an object     *)
(* dropped meanwhile is freed only when its last pair is gone.             *)
(***************************************************************************)
EXTENDS Integers, FiniteSets

CONSTANTS Ids,         \* ids of objects
          Points,      \* positions, triples of coordinates
          Modes,       \* the modes <<watcher, marker>> its user gives an id
          Radius,      \* AOI_RADIS
          MaxVersion   \* bound: versions of an object

ASSUME AoiAssumption ==
  /\ IsFiniteSet(Ids)
  /\ \A p \in Points : \A i \in 1..3 : p[i] \in Int
  /\ Modes \in [Ids -> SUBSET (BOOLEAN \X BOOLEAN)]
  /\ Points # {} /\ Radius \in Nat \ {0} /\ MaxVersion \in Nat

VARIABLES objs,   \* id -> object, or Absent where there is none
          hot,    \* the hot pairs
          told,   \* callbacks for a pair since either got its version
          far     \* pairs found too far apart since then

vars == <<objs, hot, told, far>>

\* No object: what is left of one that was freed.
Absent ==
  [ref |-> 0, version |-> 0, watcher |-> FALSE, marker |-> FALSE, move |-> FALSE,
   drop |-> FALSE, last |-> CHOOSE p \in Points : TRUE,
   position |-> CHOOSE p \in Points : TRUE]

Object == [ref : Nat, version : Nat, watcher : BOOLEAN, marker : BOOLEAN,
           move : BOOLEAN, drop : BOOLEAN, last : Points, position : Points]

Pair == [watcher : Ids, marker : Ids, watcher_version : Nat, marker_version : Nat]

Live == {id \in Ids : objs[id] # Absent}

\* aoi_create
Init ==
  /\ objs = [id \in Ids |-> Absent]
  /\ hot = {}
  /\ told = [p \in Ids \X Ids |-> 0]
  /\ far = {}

-----------------------------------------------------------------------------
DIST2(p, q) == (p[1] - q[1]) * (p[1] - q[1]) + (p[2] - q[2]) * (p[2] - q[2])
                 + (p[3] - q[3]) * (p[3] - q[3])

is_near(p, q) == 4 * DIST2(p, q) < Radius * Radius

\* The tests of gen_pair and flush_pair.
Close(o, w, m) == DIST2(o[w].position, o[m].position) < Radius * Radius

TooFar(o, w, m) == DIST2(o[w].position, o[m].position) > 4 * Radius * Radius

\* new_object.  Its positions are whatever the memory held; both are written
\* before they are read.
new_object == [Absent EXCEPT !.ref = 1]

\* map_query: the object of an id, made when there is none.
map_query(id) == IF objs[id] = Absent THEN new_object ELSE objs[id]

\* drop_object, n times: freed and taken off the map at 0 references.
drop_object(o, n) == IF o.ref - n <= 0 THEN Absent ELSE [o EXCEPT !.ref = @ - n]

\* Pairs of versions that are outdated have nothing told or found about them.
Renew(id) ==
  /\ told' = [p \in Ids \X Ids |-> IF id \in {p[1], p[2]} THEN 0 ELSE told[p]]
  /\ far' = {p \in far : id \notin {p[1], p[2]}}

\* change_mode, for an object without DROP: an object that has no mode at all,
\* not even MOVE, counts as changed.
Changed(o, w, m) ==
  \/ ~o.watcher /\ ~o.marker /\ ~o.move
  \/ o.watcher # w
  \/ o.marker # m

-----------------------------------------------------------------------------
aoi_dropMarked(id) ==
  /\ LET o == map_query(id)
     IN  objs' = [objs EXCEPT ![id] =
                    IF o.drop THEN o ELSE drop_object([o EXCEPT !.drop = TRUE], 1)]
  /\ Renew(id)
  /\ UNCHANGED hot

\* aoi_update with 'd' in the mode.
aoi_drop(id) ==
  /\ LET o == map_query(id)
         d == [o EXCEPT !.watcher = FALSE, !.marker = FALSE, !.move = FALSE, !.drop = TRUE]
     IN  objs' = [objs EXCEPT ![id] = IF o.drop THEN o ELSE drop_object(d, 1)]
  /\ Renew(id)
  /\ UNCHANGED hot

aoi_updateReused(id, w, m, pos) ==
  /\ map_query(id).version < MaxVersion
  /\ LET o == map_query(id)
         u == [o EXCEPT !.drop = FALSE, !.watcher = w, !.marker = m, !.position = pos]
     IN  IF Changed(o, w, m) \/ ~is_near(pos, o.last)
         THEN /\ objs' = [objs EXCEPT ![id] =
                            [u EXCEPT !.last = pos, !.move = TRUE, !.version = @ + 1]]
              /\ Renew(id)
         ELSE /\ objs' = [objs EXCEPT ![id] = u]
              /\ UNCHANGED <<told, far>>
  /\ UNCHANGED hot

\* aoi_update with another mode: an object that was dropped and not yet freed
\* is taken back; a new mode or a larger move gives a new version.
aoi_update(id, w, m, pos) ==
  /\ map_query(id).version < MaxVersion
  /\ LET o == map_query(id)
         u == [o EXCEPT !.drop = FALSE, !.ref = IF o.drop THEN @ + 1 ELSE @,
                        !.watcher = w, !.marker = m, !.position = pos]
     IN  IF Changed(o, w, m) \/ ~is_near(pos, o.last)
         THEN /\ objs' = [objs EXCEPT ![id] =
                            [u EXCEPT !.last = pos, !.move = TRUE, !.version = @ + 1]]
              /\ Renew(id)
         ELSE /\ objs' = [objs EXCEPT ![id] = u]
              /\ UNCHANGED <<told, far>>
  /\ UNCHANGED hot

-----------------------------------------------------------------------------
\* How many references of an object the pairs of S hold.
Holds(S, id) == Cardinality({p \in S : id \in {p.watcher, p.marker}})

\* flush_pair's first test.
Outdated(p) ==
  LET w == objs[p.watcher] m == objs[p.marker]
  IN  \/ w.version # p.watcher_version \/ m.version # p.marker_version
      \/ w.drop \/ m.drop

\* flush_pair: the pairs it takes off the list, and the ones among them it
\* tells or finds too far apart.
Met == {p \in hot : ~Outdated(p) /\ Close(objs, p.watcher, p.marker)}

Parted == {p \in hot : ~Outdated(p) /\ TooFar(objs, p.watcher, p.marker)}

Flushed == {p \in hot : Outdated(p)} \union Met \union Parted

AfterFlush ==
  [id \in Ids |-> IF Holds(Flushed, id) = 0 THEN objs[id]
                  ELSE drop_object(objs[id], Holds(Flushed, id))]

\* set_push: the four sets.
watcher_static(o) == {id \in Ids : o[id].watcher /\ ~o[id].move}

watcher_move(o) == {id \in Ids : o[id].watcher /\ o[id].move}

marker_static(o) == {id \in Ids : o[id].marker /\ ~o[id].move}

marker_move(o) == {id \in Ids : o[id].marker /\ o[id].move}

TestedMoves(o) == {p \in watcher_move(o) \X marker_move(o) : p[1] # p[2]}

TestedAll(o) ==
  {p \in (watcher_static(o) \union watcher_move(o)) \X
           (marker_static(o) \union marker_move(o)) : p[1] # p[2]}

\* The pairs that the three gen_pair_list calls test.
Tested(o) ==
  {p \in (watcher_static(o) \X marker_move(o))
           \union (watcher_move(o) \X marker_static(o))
           \union (watcher_move(o) \X marker_move(o)) : p[1] # p[2]}

\* gen_pair: the pairs at middle distance become hot.
Middle(o) == {p \in Tested(o) : ~Close(o, p[1], p[2]) /\ ~TooFar(o, p[1], p[2])}

NewPairs(o) ==
  {[watcher |-> p[1], marker |-> p[2],
    watcher_version |-> o[p[1]].version, marker_version |-> o[p[2]].version] :
     p \in Middle(o)}

\* set_push clears MOVE of what it puts into a set.
Pushed(o) ==
  IF ~o.watcher /\ ~o.marker THEN o ELSE [o EXCEPT !.move = FALSE]

\* 1 for a pair that was met, and 1 for one tested and found close.
Calls(o, p) ==
  (IF \E h \in Met : h.watcher = p[1] /\ h.marker = p[2] THEN 1 ELSE 0)
    + (IF p \in Tested(o) /\ Close(o, p[1], p[2]) THEN 1 ELSE 0)

\* aoi_message: flush_pair, the sets, the new pairs.
aoi_message ==
  LET o == AfterFlush
      new == NewPairs(o)
      grab(id) == [o[id] EXCEPT !.ref = @ + Holds(new, id)]
  IN  /\ hot' = (hot \ Flushed) \union new
      /\ objs' = [id \in Ids |-> Pushed(grab(id))]
      /\ told' = [p \in Ids \X Ids |-> told[p] + Calls(o, p)]
      /\ far' = far \union {<<p.watcher, p.marker>> : p \in Parted}
                    \union {p \in Tested(o) : TooFar(o, p[1], p[2])}

Next ==
  \/ \E id \in Ids : aoi_drop(id)
  \/ \E id \in Ids : \E mode \in Modes[id], pos \in Points :
       aoi_update(id, mode[1], mode[2], pos)
  \/ aoi_message

Spec == Init /\ [][Next]_vars

-----------------------------------------------------------------------------
TypeOK ==
  /\ objs \in [Ids -> Object]
  /\ \A id \in Ids : objs[id].drop =>
       ~objs[id].watcher /\ ~objs[id].marker /\ ~objs[id].move
  /\ hot \subseteq Pair
  /\ told \in [Ids \X Ids -> Nat]
  /\ far \subseteq Ids \X Ids

\* An object's count of references is the map's, unless it is dropped, and one
\* for every hot pair it is in; no pair names an object that was freed, and
\* nothing is kept without a reference (drop_object, grab_object).
RefExact ==
  /\ \A p \in hot : p.watcher \in Live /\ p.marker \in Live /\ p.watcher # p.marker
  /\ \A id \in Live :
       /\ objs[id].ref = (IF objs[id].drop THEN 0 ELSE 1) + Holds(hot, id)
       /\ objs[id].ref > 0

\* A hot pair whose versions are current.
Watched(w, m) ==
  \E p \in hot : p.watcher = w /\ p.marker = m /\ ~Outdated(p)

\* Once a message has dealt with the versions of a watcher and a marker, their
\* pair has been told, or is hot, or was found too far apart: no pair falls
\* between the four sets and the hot list (aoi_message).
AccountedFor ==
  \A w, m \in Live :
    (w # m /\ objs[w].watcher /\ objs[m].marker /\ ~objs[w].move /\ ~objs[m].move) =>
      told[<<w, m>>] > 0 \/ Watched(w, m) \/ <<w, m>> \in far

\* A pair is told at most once for the same versions, and is not watched
\* afterwards (flush_pair drops the pair it tells, gen_pair_list visits a pair
\* in one of its three calls only).
ToldOnce ==
  \A w, m \in Ids : told[<<w, m>>] <= 1 /\ (told[<<w, m>>] = 1 => ~Watched(w, m))
=============================================================================
