----------------------------- MODULE AoiProofs ------------------------------
(***************************************************************************)
(* Proofs about Aoi, for any finite set of ids, any positions and modes    *)
(* and any radius.  That references are counted exactly is not inductive:  *)
(* aoi_message adds its new pairs to the ones it kept, and needs that none *)
(* of the new is among the kept.  Fresh says why: a pair whose versions    *)
(* are current has no object with MOVE, and only pairs with such an object *)
(* are tested.                                                             *)
(***************************************************************************)
EXTENDS Aoi, FiniteSetTheorems, TLAPS

(* A hot pair is no newer than its objects; one that is not outdated has
   already been dealt with by a message (set_push cleared MOVE). *)
Fresh ==
  \A p \in hot :
    /\ p.watcher_version <= objs[p.watcher].version
    /\ p.marker_version <= objs[p.marker].version
    /\ ~Outdated(p) => ~objs[p.watcher].move /\ ~objs[p.marker].move

AoiInv == TypeOK /\ RefExact /\ IsFiniteSet(hot) /\ Fresh

-----------------------------------------------------------------------------
(* Counting references *)

LEMMA HoldsType ==
  ASSUME NEW S, IsFiniteSet(S), NEW id
  PROVE  /\ Holds(S, id) \in Nat
         /\ Holds(S, id) = 0 <=> \A p \in S : id \notin {p.watcher, p.marker}
  <1> DEFINE H == {p \in S : id \in {p.watcher, p.marker}}
  <1>1. IsFiniteSet(H)
    BY FS_Subset
  <1>2. Cardinality(H) \in Nat /\ (Cardinality(H) = 0 <=> H = {})
    BY <1>1, FS_CardinalityType, FS_EmptySet
  <1> QED BY <1>2 DEF Holds

LEMMA HoldsDifference ==
  ASSUME NEW S, IsFiniteSet(S), NEW F \in SUBSET S, NEW id
  PROVE  Holds(S \ F, id) = Holds(S, id) - Holds(F, id)
  <1> DEFINE H(T) == {p \in T : id \in {p.watcher, p.marker}}
  <1>1. IsFiniteSet(H(S))
    BY FS_Subset
  <1>2. H(S \ F) = H(S) \ H(F) /\ H(S) \cap H(F) = H(F)
    OBVIOUS
  <1>3. Cardinality(H(S) \ H(F)) = Cardinality(H(S)) - Cardinality(H(S) \cap H(F))
    BY <1>1, FS_Difference
  <1> QED BY <1>2, <1>3 DEF Holds

LEMMA HoldsUnion ==
  ASSUME NEW S, IsFiniteSet(S), NEW T, IsFiniteSet(T), S \cap T = {}, NEW id
  PROVE  Holds(S \union T, id) = Holds(S, id) + Holds(T, id)
  <1> DEFINE A == {p \in S : id \in {p.watcher, p.marker}}
             B == {p \in T : id \in {p.watcher, p.marker}}
             C == {p \in S \union T : id \in {p.watcher, p.marker}}
  <1>1. IsFiniteSet(A) /\ IsFiniteSet(B)
    BY FS_Subset
  <1>2. C = A \union B /\ A \cap B = {}
    OBVIOUS
  <1>3. Holds(S, id) = Cardinality(A) /\ Holds(T, id) = Cardinality(B)
        /\ Holds(S \union T, id) = Cardinality(C)
    BY DEF Holds
  <1> HIDE DEF A, B, C
  <1>4. Cardinality(A \union B) = Cardinality(A) + Cardinality(B) - Cardinality(A \cap B)
    BY <1>1, FS_Union
  <1>5. Cardinality(A) \in Nat /\ Cardinality(B) \in Nat /\ Cardinality({}) = 0
    BY <1>1, FS_CardinalityType, FS_EmptySet
  <1>6. Cardinality(A \cap B) = 0
    BY <1>2, <1>5, Zenon
  <1>7. Cardinality(C) = Cardinality(A \union B)
    BY <1>2, Zenon
  <1> HIDE <1>2
  <1> QED BY <1>3, <1>4, <1>5, <1>6, <1>7

LEMMA NewPairsFinite ==
  ASSUME NEW o
  PROVE  IsFiniteSet(NewPairs(o))
  <1> DEFINE pair(p) ==
        [watcher |-> p[1], marker |-> p[2],
         watcher_version |-> o[p[1]].version, marker_version |-> o[p[2]].version]
             f == [p \in Middle(o) |-> pair(p)]
  <1>1. IsFiniteSet(Ids \X Ids)
    BY AoiAssumption, FS_Product
  <1>2. Middle(o) \in SUBSET (Ids \X Ids)
    BY DEF Middle, Tested, watcher_static, watcher_move, marker_static, marker_move
  <1>3. IsFiniteSet(Middle(o))
    BY <1>1, <1>2, FS_Subset
  <1>4. f \in Surjection(Middle(o), NewPairs(o))
    BY DEF Surjection, NewPairs
  <1> QED BY <1>3, <1>4, FS_Surjection

-----------------------------------------------------------------------------
(* Types of the objects *)

LEMMA AbsentType ==
  /\ Absent \in Object
  /\ Absent.ref = 0 /\ ~Absent.drop /\ ~Absent.watcher /\ ~Absent.marker /\ ~Absent.move
  <1>1. (CHOOSE p \in Points : TRUE) \in Points
    BY AoiAssumption
  <1> QED BY <1>1 DEF Absent, Object

(* What an object is when map_query has returned it. *)
LEMMA QueryType ==
  ASSUME TypeOK, RefExact, NEW id \in Ids
  PROVE  /\ map_query(id) \in Object
         /\ map_query(id).ref > 0
         /\ map_query(id).drop =>
              ~map_query(id).watcher /\ ~map_query(id).marker /\ ~map_query(id).move
  <1>1. CASE objs[id] = Absent
    BY <1>1, AbsentType DEF map_query, new_object, Object
  <1>2. CASE objs[id] # Absent
    BY <1>2 DEF map_query, TypeOK, RefExact, Live
  <1> QED BY <1>1, <1>2

LEMMA InitInv == Init => AoiInv
  <1> SUFFICES ASSUME Init PROVE AoiInv
    OBVIOUS
  <1>1. TypeOK
    BY AbsentType DEF Init, TypeOK
  <1> QED BY <1>1, FS_EmptySet DEF Init, AoiInv, RefExact, Fresh, Live

-----------------------------------------------------------------------------
(* aoi_update, with and without 'd' *)

LEMMA RenewType ==
  ASSUME TypeOK, NEW id \in Ids, Renew(id)
  PROVE  told' \in [Ids \X Ids -> Nat] /\ far' \subseteq Ids \X Ids
  BY DEF TypeOK, Renew

(* An object that may take the place of id's: its count is right, and its pairs
   are outdated unless it keeps its version and its MOVE. *)
Fits(id, n) ==
  /\ n \in Object
  /\ n.drop => ~n.watcher /\ ~n.marker /\ ~n.move
  /\ n = Absent => Holds(hot, id) = 0
  /\ n # Absent => n.ref = (IF n.drop THEN 0 ELSE 1) + Holds(hot, id) /\ n.ref > 0
  /\ (id \in Live /\ n # Absent) =>
       /\ n.version >= objs[id].version
       /\ \/ n.drop \/ n.version > objs[id].version
          \/ n.move = objs[id].move /\ ~objs[id].drop

(* A step that changes one object and no pair. *)
LEMMA OneObject ==
  ASSUME AoiInv, NEW id \in Ids, NEW n, Fits(id, n),
         hot' = hot, objs' = [objs EXCEPT ![id] = n],
         told' \in [Ids \X Ids -> Nat], far' \subseteq Ids \X Ids
  PROVE  AoiInv'
  <1> USE DEF AoiInv, Fits
  <1>1. TypeOK'
    BY DEF TypeOK
  <1>2. \A i \in Ids : objs'[i] = IF i = id THEN n ELSE objs[i]
    BY DEF TypeOK
  <1>3. n = Absent => \A p \in hot : id \notin {p.watcher, p.marker}
    BY HoldsType
  <1>4. \A p \in hot : p.watcher \in Ids /\ p.marker \in Ids
    BY DEF TypeOK, Pair
  <1>5. RefExact'
    <2>1. \A p \in hot : p.watcher \in Live' /\ p.marker \in Live' /\ p.watcher # p.marker
      BY <1>2, <1>3, <1>4 DEF RefExact, Live
    <2>2. \A i \in Live' :
            /\ objs'[i].ref = (IF objs'[i].drop THEN 0 ELSE 1) + Holds(hot, i)
            /\ objs'[i].ref > 0
      BY <1>2 DEF RefExact, Live
    <2>3. \A i : Holds(hot', i) = Holds(hot, i)
      OBVIOUS
    <2> QED BY <2>1, <2>2, <2>3 DEF RefExact, Holds
  <1>6. Fresh'
    <2> SUFFICES ASSUME NEW p \in hot
                 PROVE  /\ p.watcher_version <= objs'[p.watcher].version
                        /\ p.marker_version <= objs'[p.marker].version
                        /\ ~Outdated(p)' => ~objs'[p.watcher].move /\ ~objs'[p.marker].move
      BY DEF Fresh
    <2>1. /\ p.watcher \in Live /\ p.marker \in Live /\ p.watcher # p.marker
          /\ p.watcher_version <= objs[p.watcher].version
          /\ p.marker_version <= objs[p.marker].version
          /\ ~Outdated(p) => ~objs[p.watcher].move /\ ~objs[p.marker].move
      BY DEF RefExact, Fresh
    <2>2. /\ p.watcher_version \in Nat /\ p.marker_version \in Nat /\ n.version \in Nat
          /\ \A i \in Ids : objs[i].version \in Nat
      BY DEF TypeOK, Pair, Object
    <2>3. CASE id \notin {p.watcher, p.marker}
      BY <2>1, <2>3, <1>2, <1>4 DEF Outdated
    <2>4. CASE id = p.watcher
      BY <2>1, <2>2, <2>4, <1>2, <1>3, <1>4 DEF Outdated
    <2>5. CASE id = p.marker
      BY <2>1, <2>2, <2>5, <1>2, <1>3, <1>4 DEF Outdated
    <2> QED BY <2>3, <2>4, <2>5
  <1> QED BY <1>1, <1>5, <1>6

(* What an object's count is when map_query has returned it. *)
LEMMA QueryRef ==
  ASSUME AoiInv, NEW id \in Ids
  PROVE  /\ Holds(hot, id) \in Nat
         /\ map_query(id).ref = (IF map_query(id).drop THEN 0 ELSE 1) + Holds(hot, id)
         /\ id \in Live => map_query(id) = objs[id]
  <1>1. IsFiniteSet(hot)
    BY DEF AoiInv
  <1>2. Holds(hot, id) \in Nat
    BY <1>1, HoldsType
  <1>3. CASE objs[id] = Absent
    <2>1. \A p \in hot : id \notin {p.watcher, p.marker}
      BY <1>3 DEF RefExact, Live, AoiInv
    <2>2. Holds(hot, id) = 0
      BY <2>1, <1>1, HoldsType
    <2> QED BY <1>2, <1>3, <2>2, AbsentType DEF map_query, new_object, Object, Live
  <1>4. CASE objs[id] # Absent
    BY <1>2, <1>4 DEF map_query, RefExact, Live, AoiInv
  <1> QED BY <1>3, <1>4

LEMMA DropInv ==
  ASSUME AoiInv, NEW id \in Ids, aoi_drop(id)
  PROVE  AoiInv'
  <1> DEFINE q == map_query(id)
             d == [q EXCEPT !.watcher = FALSE, !.marker = FALSE, !.move = FALSE, !.drop = TRUE]
             n == IF q.drop THEN q ELSE drop_object(d, 1)
  <1>1. /\ q \in Object /\ q.ref > 0
        /\ q.drop => ~q.watcher /\ ~q.marker /\ ~q.move
    BY QueryType DEF AoiInv
  <1>2. d \in Object /\ d.drop /\ ~d.watcher /\ ~d.marker /\ ~d.move
        /\ d.ref = q.ref /\ d.version = q.version
    BY <1>1 DEF Object
  <1>3. hot' = hot /\ objs' = [objs EXCEPT ![id] = n]
        /\ told' \in [Ids \X Ids -> Nat] /\ far' \subseteq Ids \X Ids
    BY RenewType DEF aoi_drop, AoiInv
  <1>4. Holds(hot, id) \in Nat
    BY QueryRef
  <1>5. q.ref = (IF q.drop THEN 0 ELSE 1) + Holds(hot, id)
    BY QueryRef
  <1>6. id \in Live => q = objs[id]
    BY QueryRef
  <1>7. q.ref \in Nat /\ q.version \in Nat
    BY <1>1 DEF Object
  <1>8. ASSUME q.drop PROVE Fits(id, n)
    <2>1. n = q /\ n # Absent
      BY <1>8, AbsentType
    <2> HIDE DEF n, q
    <2> QED BY <2>1, <1>1, <1>5, <1>6, <1>7, <1>8 DEF Fits
  <1>9. ASSUME ~q.drop, q.ref = 1 PROVE Fits(id, n)
    <2>1. n = Absent
      BY <1>2, <1>9 DEF drop_object
    <2> HIDE DEF n, q
    <2> QED BY <2>1, <1>4, <1>5, <1>9, AbsentType DEF Fits
  <1>10. ASSUME ~q.drop, q.ref # 1 PROVE Fits(id, n)
    <2>1. n = [d EXCEPT !.ref = d.ref - 1]
      BY <1>1, <1>2, <1>7, <1>10 DEF drop_object
    <2> HIDE DEF n, q, d
    <2>2. /\ n \in Object /\ n.drop /\ ~n.watcher /\ ~n.marker /\ ~n.move
          /\ n.ref = q.ref - 1 /\ n.version = q.version /\ n.ref > 0
      BY <2>1, <1>1, <1>2, <1>7, <1>10 DEF Object
    <2> QED BY <2>2, <1>4, <1>5, <1>6, <1>7, <1>10, AbsentType DEF Fits
  <1>11. Fits(id, n)
    BY <1>8, <1>9, <1>10
  <1> HIDE DEF n
  <1> QED BY <1>3, <1>11, OneObject

LEMMA UpdateInv ==
  ASSUME AoiInv, NEW id \in Ids, NEW w \in BOOLEAN, NEW m \in BOOLEAN,
         NEW pos \in Points, aoi_update(id, w, m, pos)
  PROVE  AoiInv'
  <1> DEFINE q == map_query(id)
             r == IF q.drop THEN q.ref + 1 ELSE q.ref
             u == [q EXCEPT !.drop = FALSE, !.ref = r, !.watcher = w, !.marker = m,
                            !.position = pos]
             v == [u EXCEPT !.last = pos, !.move = TRUE, !.version = q.version + 1]
             seen == Changed(q, w, m) \/ ~is_near(pos, q.last)
             n == IF seen THEN v ELSE u
  <1>1. /\ q \in Object /\ q.ref > 0
        /\ q.drop => ~q.watcher /\ ~q.marker /\ ~q.move
    BY QueryType DEF AoiInv
  <1>2. /\ Holds(hot, id) \in Nat
        /\ q.ref = (IF q.drop THEN 0 ELSE 1) + Holds(hot, id)
        /\ id \in Live => q = objs[id]
    BY QueryRef
  <1>3. q.ref \in Nat /\ q.version \in Nat /\ r \in Nat /\ r = 1 + Holds(hot, id)
    BY <1>1, <1>2 DEF Object
  <1>4. /\ u \in Object /\ ~u.drop /\ u.ref = r /\ u.version = q.version
        /\ u.move = q.move
    BY <1>1, <1>3 DEF Object
  <1>5. v \in Object /\ ~v.drop /\ v.ref = r /\ v.version = q.version + 1
    <2> HIDE DEF u, q, r
    <2>1. q.version + 1 \in Nat
      BY <1>3
    <2> DEFINE k == q.version + 1
    <2> HIDE DEF k
    <2>2. v = [u EXCEPT !.last = pos, !.move = TRUE, !.version = k]
      BY DEF k
    <2>3. k \in Nat /\ u \in Object /\ ~u.drop /\ u.ref = r
      BY <2>1, <1>4 DEF k
    <2> HIDE DEF v
    <2>4. v \in Object /\ ~v.drop /\ v.ref = r /\ v.version = k
      BY <2>2, <2>3 DEF Object
    <2> QED BY <2>4 DEF k
  <1>6. q.drop => seen
    BY <1>1 DEF Changed
  <1>7. hot' = hot /\ objs' = [objs EXCEPT ![id] = n]
        /\ told' \in [Ids \X Ids -> Nat] /\ far' \subseteq Ids \X Ids
    <2>1. hot' = hot /\ objs' = [objs EXCEPT ![id] = n]
      BY DEF aoi_update
    <2>2. Renew(id) \/ UNCHANGED <<told, far>>
      BY DEF aoi_update
    <2> QED BY <2>1, <2>2, RenewType DEF AoiInv, TypeOK
  <1> HIDE DEF q, r, u, v, seen
  <1>8. Fits(id, n)
    BY <1>2, <1>3, <1>4, <1>5, <1>6, AbsentType DEF Fits
  <1> HIDE DEF n
  <1> QED BY <1>7, <1>8, OneObject

-----------------------------------------------------------------------------
(* aoi_message *)

(* The pairs that flush_pair leaves. *)
Kept == hot \ Flushed

LEMMA KeptCount ==
  ASSUME AoiInv, NEW id \in Ids
  PROVE  /\ IsFiniteSet(Kept) /\ IsFiniteSet(Flushed)
         /\ Holds(hot, id) \in Nat /\ Holds(Flushed, id) \in Nat /\ Holds(Kept, id) \in Nat
         /\ Holds(Kept, id) = Holds(hot, id) - Holds(Flushed, id)
  <1>1. IsFiniteSet(hot) /\ Flushed \in SUBSET hot
    BY DEF AoiInv, Flushed, Met, Parted
  <1>2. IsFiniteSet(Kept) /\ IsFiniteSet(Flushed)
    BY <1>1, FS_Subset DEF Kept
  <1>3. Holds(Kept, id) = Holds(hot, id) - Holds(Flushed, id)
    BY <1>1, HoldsDifference DEF Kept
  <1> QED BY <1>1, <1>2, <1>3, HoldsType

(* flush_pair frees the objects that were dropped, and leaves the others with
   the map's reference and one for each pair kept. *)
LEMMA AfterFlushed ==
  ASSUME AoiInv, NEW id \in Ids
  PROVE  /\ AfterFlush[id] \in Object
         /\ AfterFlush[id] = Absent => Holds(Kept, id) = 0
         /\ AfterFlush[id] # Absent =>
              /\ id \in Live /\ ~AfterFlush[id].drop
              /\ AfterFlush[id].version = objs[id].version
              /\ AfterFlush[id].move = objs[id].move
              /\ AfterFlush[id].ref = 1 + Holds(Kept, id)
  <1> DEFINE a == AfterFlush[id]
             h == Holds(hot, id)
             f == Holds(Flushed, id)
             k == Holds(Kept, id)
  <1>1. h \in Nat /\ f \in Nat /\ k \in Nat /\ k = h - f
    BY KeptCount
  <1>2. a = IF f = 0 THEN objs[id] ELSE drop_object(objs[id], f)
    BY DEF AfterFlush
  <1>3. objs[id] \in Object /\ objs[id].ref \in Nat
    BY DEF AoiInv, TypeOK, Object
  <1>4. CASE objs[id] = Absent
    <2>1. \A p \in hot : id \notin {p.watcher, p.marker}
      BY <1>4 DEF AoiInv, RefExact, Live
    <2>2. h = 0
      BY <2>1, HoldsType DEF AoiInv
    <2> HIDE DEF a, h, f, k
    <2> QED BY <1>1, <1>2, <1>4, <2>2, AbsentType DEF a, h, f, k
  <1>5. CASE objs[id] # Absent /\ objs[id].drop
    <2>1. objs[id].ref = h /\ h > 0
      BY <1>1, <1>5 DEF AoiInv, RefExact, Live
    <2>2. \A p \in hot : id \in {p.watcher, p.marker} => p \in Flushed
      BY <1>5 DEF Flushed, Outdated
    <2>3. \A p \in Kept : id \notin {p.watcher, p.marker}
      BY <2>2 DEF Kept
    <2>4. k = 0
      BY <2>3, KeptCount, HoldsType
    <2>5. a = Absent
      <3> HIDE DEF a, h, f, k
      <3> QED BY <1>1, <1>2, <2>1, <2>4 DEF drop_object
    <2> QED BY <2>4, <2>5, AbsentType
  <1>6. CASE objs[id] # Absent /\ ~objs[id].drop
    <2>1. objs[id].ref = 1 + h /\ id \in Live
      BY <1>1, <1>6 DEF AoiInv, RefExact, Live
    <2> HIDE DEF a, h, f, k
    <2>2. CASE f = 0
      BY <2>1, <2>2, <1>1, <1>2, <1>3, <1>6 DEF a, h, f, k
    <2>3. CASE f # 0
      <3>1. a = [objs[id] EXCEPT !.ref = objs[id].ref - f]
        BY <2>1, <2>3, <1>1, <1>2 DEF drop_object
      <3>2. objs[id].ref - f = 1 + k /\ 1 + k \in Nat
        BY <2>1, <1>1
      <3>3. /\ a \in Object /\ ~a.drop /\ a.version = objs[id].version
            /\ a.move = objs[id].move /\ a.ref = 1 + k
        BY <3>1, <3>2, <1>3, <1>6 DEF Object
      <3> QED BY <2>1, <3>3, <1>1, AbsentType DEF a, k
    <2> QED BY <2>2, <2>3
  <1> QED BY <1>4, <1>5, <1>6

(* What gen_pair makes of objects o: pairs of current versions, each with an
   object that has MOVE. *)
LEMMA NewPairsType ==
  ASSUME NEW o, NEW p \in NewPairs(o)
  PROVE  /\ p.watcher \in Ids /\ p.marker \in Ids /\ p.watcher # p.marker
         /\ o[p.watcher].watcher /\ o[p.marker].marker
         /\ o[p.watcher].move \/ o[p.marker].move
         /\ p = [watcher |-> p.watcher, marker |-> p.marker,
                 watcher_version |-> o[p.watcher].version,
                 marker_version |-> o[p.marker].version]
  <1>1. PICK t \in Middle(o) :
          p = [watcher |-> t[1], marker |-> t[2],
               watcher_version |-> o[t[1]].version, marker_version |-> o[t[2]].version]
    BY DEF NewPairs
  <1>2. /\ t[1] \in Ids /\ t[2] \in Ids /\ t[1] # t[2]
        /\ o[t[1]].watcher /\ o[t[2]].marker
        /\ o[t[1]].move \/ o[t[2]].move
    BY DEF Middle, Tested, watcher_static, watcher_move, marker_static, marker_move
  <1> QED BY <1>1, <1>2

LEMMA MessageInv ==
  ASSUME AoiInv, aoi_message
  PROVE  AoiInv'
  <1> DEFINE o == AfterFlush
             new == NewPairs(o)
             g(id) == [o[id] EXCEPT !.ref = o[id].ref + Holds(new, id)]
  <1>1. hot' = Kept \union new /\ objs' = [id \in Ids |-> Pushed(g(id))]
    BY DEF aoi_message, Kept
  <1>2. IsFiniteSet(Kept) /\ IsFiniteSet(new)
    <2>1. IsFiniteSet(hot) /\ Kept \in SUBSET hot
      BY DEF AoiInv, Kept
    <2> QED BY <2>1, FS_Subset, NewPairsFinite
  <1>3. Kept \cap new = {}
    <2> SUFFICES ASSUME NEW p \in Kept, p \in new PROVE FALSE
      OBVIOUS
    <2>1. p \in hot /\ ~Outdated(p)
      BY DEF Kept, Flushed
    <2>2. ~objs[p.watcher].move /\ ~objs[p.marker].move
      BY <2>1 DEF AoiInv, Fresh
    <2>3. /\ p.watcher \in Ids /\ p.marker \in Ids
          /\ o[p.watcher].watcher /\ o[p.marker].marker
          /\ o[p.watcher].move \/ o[p.marker].move
      BY NewPairsType
    <2>4. o[p.watcher] # Absent /\ o[p.marker] # Absent
      BY <2>3, AbsentType
    <2> HIDE DEF o
    <2>5. o[p.watcher].move = objs[p.watcher].move /\ o[p.marker].move = objs[p.marker].move
      BY <2>3, <2>4, AfterFlushed DEF o
    <2> QED BY <2>2, <2>3, <2>5
  <1>4. ASSUME NEW id \in Ids
        PROVE  /\ Holds(Kept, id) \in Nat /\ Holds(new, id) \in Nat
               /\ Holds(hot', id) = Holds(Kept, id) + Holds(new, id)
    BY <1>1, <1>2, <1>3, HoldsType, HoldsUnion
  <1>5. ASSUME NEW id \in Ids
        PROVE  /\ objs'[id] \in Object /\ ~objs'[id].drop
               /\ objs'[id] = Absent => Holds(hot', id) = 0
               /\ objs'[id] # Absent =>
                    /\ objs'[id].ref = 1 + Holds(hot', id)
                    /\ objs'[id].version = objs[id].version
                    /\ objs'[id].version = o[id].version
                    /\ objs'[id].move => objs[id].move
                    /\ o[id].watcher \/ o[id].marker => ~objs'[id].move
    <2>1. /\ Holds(Kept, id) \in Nat /\ Holds(new, id) \in Nat
          /\ Holds(hot', id) = Holds(Kept, id) + Holds(new, id)
      BY <1>4
    <2>2. objs'[id] = Pushed(g(id))
      BY <1>1
    <2>3. CASE o[id] = Absent
      <3>1. \A p \in new : id \notin {p.watcher, p.marker}
        BY <2>3, NewPairsType, AbsentType
      <3>2. Holds(new, id) = 0
        BY <3>1, <1>2, HoldsType
      <3>3. Holds(Kept, id) = 0
        BY <2>3, AfterFlushed
      <3> HIDE DEF o, new
      <3>4. g(id) = Absent
        BY <2>3, <3>2, AbsentType DEF Absent
      <3>5. objs'[id] = Absent
        BY <2>2, <3>4, AbsentType DEF Pushed
      <3> QED BY <3>2, <3>3, <3>5, <2>1, AbsentType
    <2>4. CASE o[id] # Absent
      <3>1. /\ o[id] \in Object /\ ~o[id].drop
            /\ o[id].version = objs[id].version /\ o[id].move = objs[id].move
            /\ o[id].ref = 1 + Holds(Kept, id)
        BY <2>4, AfterFlushed
      <3> HIDE DEF o, new
      <3> DEFINE x == g(id)
      <3>2. /\ x \in Object /\ ~x.drop /\ x.version = o[id].version
            /\ x.move = o[id].move /\ x.watcher = o[id].watcher /\ x.marker = o[id].marker
            /\ x.ref = 1 + Holds(hot', id)
        BY <3>1, <2>1 DEF Object
      <3>3. objs'[id] = Pushed(x)
        BY <2>2
      <3> HIDE DEF x
      <3>4. CASE ~x.watcher /\ ~x.marker
        <4>1. objs'[id] = x
          BY <3>3, <3>4 DEF Pushed
        <4> QED BY <4>1, <3>1, <3>2, <3>4, <2>1, AbsentType
      <3>5. CASE x.watcher \/ x.marker
        <4>1. objs'[id] = [x EXCEPT !.move = FALSE]
          BY <3>3, <3>5 DEF Pushed
        <4>2. /\ objs'[id] \in Object /\ ~objs'[id].drop /\ ~objs'[id].move
              /\ objs'[id].version = x.version /\ objs'[id].ref = x.ref
          BY <4>1, <3>2 DEF Object
        <4> QED BY <4>2, <3>1, <3>2, <3>5, <2>1, AbsentType
      <3> QED BY <3>4, <3>5
    <2> QED BY <2>3, <2>4
  <1>6. \A p \in hot' : p \in Pair /\ p.watcher # p.marker
    <2>1. \A p \in Kept : p \in Pair /\ p.watcher # p.marker
      BY DEF Kept, AoiInv, TypeOK, RefExact
    <2>2. ASSUME NEW p \in new PROVE p \in Pair /\ p.watcher # p.marker
      <3>1. \A id \in Ids : o[id].version \in Nat
        BY AfterFlushed DEF Object
      <3> HIDE DEF o
      <3> QED BY <3>1, NewPairsType DEF Pair
    <2> QED BY <1>1, <2>1, <2>2
  <1>7. IsFiniteSet(hot')
    BY <1>1, <1>2, FS_Union
  <1>8. TypeOK'
    <2>1. told' \in [Ids \X Ids -> Nat]
      <3>1. \A p \in Ids \X Ids : Calls(o, p) \in Nat
        BY DEF Calls
      <3>2. told' = [p \in Ids \X Ids |-> told[p] + Calls(o, p)]
        BY DEF aoi_message
      <3> HIDE DEF o
      <3> QED BY <3>1, <3>2 DEF AoiInv, TypeOK
    <2>2. far' \subseteq Ids \X Ids
      <3>1. Parted \subseteq Pair /\ Tested(o) \subseteq Ids \X Ids
        BY DEF Parted, AoiInv, TypeOK, Tested, watcher_static, watcher_move,
               marker_static, marker_move
      <3>2. far' = far \union {<<p.watcher, p.marker>> : p \in Parted}
                     \union {p \in Tested(o) : TooFar(o, p[1], p[2])}
        BY DEF aoi_message
      <3> HIDE DEF o
      <3> QED BY <3>1, <3>2 DEF AoiInv, TypeOK, Pair
    <2>3. objs' \in [Ids -> Object]
      BY <1>1, <1>5
    <2> QED BY <2>1, <2>2, <2>3, <1>5, <1>6 DEF TypeOK
  <1>9. \A p \in hot' : p.watcher \in Live' /\ p.marker \in Live'
    <2> SUFFICES ASSUME NEW p \in hot', NEW id \in {p.watcher, p.marker} PROVE id \in Live'
      OBVIOUS
    <2>1. id \in Ids
      BY <1>6 DEF Pair
    <2>2. Holds(hot', id) # 0
      BY <1>7, HoldsType
    <2> QED BY <2>1, <2>2, <1>5 DEF Live
  <1>10. RefExact'
    <2>1. \A id \in Live' :
            /\ objs'[id].ref = (IF objs'[id].drop THEN 0 ELSE 1) + Holds(hot', id)
            /\ objs'[id].ref > 0
      BY <1>4, <1>5 DEF Live
    <2> QED BY <2>1, <1>6, <1>9 DEF RefExact, Holds
  <1>11. Fresh'
    <2> SUFFICES ASSUME NEW p \in hot'
                 PROVE  /\ p.watcher_version <= objs'[p.watcher].version
                        /\ p.marker_version <= objs'[p.marker].version
                        /\ ~objs'[p.watcher].move /\ ~objs'[p.marker].move
      BY DEF Fresh
    <2>1. /\ p.watcher \in Ids /\ p.marker \in Ids
          /\ objs'[p.watcher] # Absent /\ objs'[p.marker] # Absent
      BY <1>9 DEF Live
    <2>2. CASE p \in Kept
      <3>1. p \in hot /\ ~Outdated(p)
        BY <2>2 DEF Kept, Flushed
      <3>2. /\ p.watcher_version <= objs[p.watcher].version
            /\ p.marker_version <= objs[p.marker].version
            /\ ~objs[p.watcher].move /\ ~objs[p.marker].move
        BY <3>1 DEF AoiInv, Fresh
      <3> HIDE DEF o
      <3> QED BY <3>2, <2>1, <1>5
    <2>3. CASE p \in new
      <3>1. /\ o[p.watcher].watcher /\ o[p.marker].marker
            /\ p.watcher_version = o[p.watcher].version
            /\ p.marker_version = o[p.marker].version
        BY <2>3, NewPairsType
      <3>2. objs'[p.watcher].version \in Nat /\ objs'[p.marker].version \in Nat
        BY <2>1, <1>5 DEF Object
      <3> HIDE DEF o
      <3> QED BY <3>1, <3>2, <2>1, <1>5
    <2> QED BY <1>1, <2>2, <2>3
  <1> QED BY <1>7, <1>8, <1>10, <1>11 DEF AoiInv

-----------------------------------------------------------------------------
LEMMA NextInv == AoiInv /\ [Next]_vars => AoiInv'
  <1> SUFFICES ASSUME AoiInv, [Next]_vars PROVE AoiInv'
    OBVIOUS
  <1>1. ASSUME NEW id \in Ids, aoi_drop(id) PROVE AoiInv'
    BY <1>1, DropInv
  <1>2. ASSUME NEW id \in Ids, NEW mode \in Modes[id], NEW pos \in Points,
               aoi_update(id, mode[1], mode[2], pos)
        PROVE  AoiInv'
    <2>1. mode[1] \in BOOLEAN /\ mode[2] \in BOOLEAN
      BY AoiAssumption
    <2> QED BY <1>2, <2>1, UpdateInv
  <1>3. ASSUME aoi_message PROVE AoiInv'
    BY <1>3, MessageInv
  <1>4. CASE UNCHANGED vars
    BY <1>4 DEF vars, AoiInv, TypeOK, RefExact, Fresh, Outdated, Live, Holds
  <1> QED BY <1>1, <1>2, <1>3, <1>4 DEF Next

(* Objects and pairs keep their types, and an object that is dropped and not
   yet freed has no mode (aoi_update, drop_object). *)
THEOREM AoiTypeCorrect == Spec => []TypeOK
  <1>1. AoiInv => TypeOK
    BY DEF AoiInv
  <1> QED BY <1>1, InitInv, NextInv, PTL DEF Spec

(* An object is freed when, and only when, the map and every hot pair have let
   go of it: the references are counted exactly in every reachable state. *)
THEOREM AoiRefExact == Spec => []RefExact
  <1>1. AoiInv => RefExact
    BY DEF AoiInv
  <1> QED BY <1>1, InitInv, NextInv, PTL DEF Spec

-----------------------------------------------------------------------------
(***************************************************************************)
(* The pairs: none falls between the four sets and the hot list, and none  *)
(* is told twice.  On top of AoiInv, which is about the objects and their  *)
(* references, the second needs that a pair already told has no object     *)
(* with MOVE: only such a pair can be tested again.                        *)
(***************************************************************************)

(* A pair told for its versions is neither watched nor about to be tested. *)
Told ==
  \A w, m \in Ids :
    /\ told[<<w, m>>] <= 1
    /\ told[<<w, m>>] = 1 => ~Watched(w, m) /\ ~objs[w].move /\ ~objs[m].move

PairInv == AoiInv /\ Told /\ AccountedFor

-----------------------------------------------------------------------------
(* aoi_update *)

(* An object with a mode is on the map. *)
LEMMA ModeLive ==
  ASSUME NEW id \in Ids, objs[id].watcher \/ objs[id].marker
  PROVE  id \in Live
  BY AbsentType DEF Live

(* A step that changes one object.  Either it forgets what was told and found
   about the object's pairs, and none of them has to be accounted for: the
   object has MOVE or no mode.  Or its pairs are as they were. *)
LEMMA OneObjectPairs ==
  ASSUME PairInv, NEW id \in Ids, NEW n,
         hot' = hot, objs' = [objs EXCEPT ![id] = n],
         \/ Renew(id) /\ (n.move \/ (~n.watcher /\ ~n.marker))
         \/ /\ UNCHANGED <<told, far>>
            /\ n.version = objs[id].version /\ n.drop = objs[id].drop
            /\ n.watcher = objs[id].watcher /\ n.marker = objs[id].marker
            /\ n.move = objs[id].move
  PROVE  Told' /\ AccountedFor'
  <1> USE DEF PairInv
  <1> DEFINE Same(i) == /\ objs'[i].version = objs[i].version
                        /\ objs'[i].drop = objs[i].drop
                        /\ objs'[i].watcher = objs[i].watcher
                        /\ objs'[i].marker = objs[i].marker
                        /\ objs'[i].move = objs[i].move
  <1>1. \A i \in Ids : objs'[i] = IF i = id THEN n ELSE objs[i]
    BY DEF AoiInv, TypeOK
  <1>2. \A i \in Ids \ {id} : Same(i)
    BY <1>1
  <1>3. ASSUME NEW w \in Ids, NEW m \in Ids, Same(w), Same(m)
        PROVE  Watched(w, m)' <=> Watched(w, m)
    BY <1>3 DEF Watched, Outdated
  <1>4. ASSUME NEW w \in Ids, NEW m \in Ids, Same(w), Same(m),
               told'[<<w, m>>] = told[<<w, m>>],
               <<w, m>> \in far' <=> <<w, m>> \in far
        PROVE  /\ told'[<<w, m>>] <= 1
               /\ told'[<<w, m>>] = 1 =>
                    ~Watched(w, m)' /\ ~objs'[w].move /\ ~objs'[m].move
               /\ (w # m /\ objs'[w].watcher /\ objs'[m].marker
                     /\ ~objs'[w].move /\ ~objs'[m].move) =>
                    told'[<<w, m>>] > 0 \/ Watched(w, m)' \/ <<w, m>> \in far'
    <2>1. Watched(w, m)' <=> Watched(w, m)
      BY <1>3, <1>4
    <2>2. objs[w].watcher => w \in Live
      BY ModeLive
    <2>3. objs[m].marker => m \in Live
      BY ModeLive
    <2> HIDE DEF Watched
    <2>4. (w # m /\ objs[w].watcher /\ objs[m].marker /\ ~objs[w].move /\ ~objs[m].move) =>
            told[<<w, m>>] > 0 \/ Watched(w, m) \/ <<w, m>> \in far
      BY <2>2, <2>3 DEF AccountedFor
    <2> QED BY <1>4, <2>1, <2>4 DEF Told
  <1>5. ASSUME NEW w \in Ids, NEW m \in Ids
        PROVE  /\ told'[<<w, m>>] <= 1
               /\ told'[<<w, m>>] = 1 =>
                    ~Watched(w, m)' /\ ~objs'[w].move /\ ~objs'[m].move
               /\ (w # m /\ objs'[w].watcher /\ objs'[m].marker
                     /\ ~objs'[w].move /\ ~objs'[m].move) =>
                    told'[<<w, m>>] > 0 \/ Watched(w, m)' \/ <<w, m>> \in far'
    <2>1. CASE Renew(id) /\ (n.move \/ (~n.watcher /\ ~n.marker))
      <3>1. CASE id \in {w, m}
        <4>1. told'[<<w, m>>] = 0
          BY <2>1, <3>1 DEF Renew
        <4> QED BY <1>1, <2>1, <3>1, <4>1
      <3>2. CASE id \notin {w, m}
        <4>1. /\ told'[<<w, m>>] = told[<<w, m>>]
              /\ <<w, m>> \in far' <=> <<w, m>> \in far
          BY <2>1, <3>2 DEF Renew
        <4>2. Same(w) /\ Same(m)
          BY <1>2, <3>2
        <4> QED BY <1>4, <4>1, <4>2
      <3> QED BY <3>1, <3>2
    <2>2. CASE /\ UNCHANGED <<told, far>>
               /\ n.version = objs[id].version /\ n.drop = objs[id].drop
               /\ n.watcher = objs[id].watcher /\ n.marker = objs[id].marker
               /\ n.move = objs[id].move
      <3>1. Same(w) /\ Same(m)
        BY <1>1, <2>2
      <3> QED BY <1>4, <2>2, <3>1
    <2> QED BY <2>1, <2>2
  <1>6. Told'
    BY <1>5 DEF Told
  <1>7. AccountedFor'
    BY <1>5 DEF AccountedFor, Live
  <1> QED BY <1>6, <1>7

LEMMA DropPairs ==
  ASSUME PairInv, NEW id \in Ids, aoi_drop(id)
  PROVE  Told' /\ AccountedFor'
  <1> DEFINE q == map_query(id)
             d == [q EXCEPT !.watcher = FALSE, !.marker = FALSE, !.move = FALSE, !.drop = TRUE]
             n == IF q.drop THEN q ELSE drop_object(d, 1)
  <1>1. q \in Object /\ (q.drop => ~q.watcher /\ ~q.marker)
    BY QueryType DEF PairInv, AoiInv
  <1>2. hot' = hot /\ objs' = [objs EXCEPT ![id] = n] /\ Renew(id)
    BY DEF aoi_drop
  <1>3. ~d.watcher /\ ~d.marker /\ d \in Object
    BY <1>1 DEF Object
  <1>4. ~drop_object(d, 1).watcher /\ ~drop_object(d, 1).marker
    <2> HIDE DEF d
    <2> QED BY <1>3, AbsentType DEF drop_object, Object
  <1>5. ~n.watcher /\ ~n.marker
    BY <1>1, <1>4
  <1> HIDE DEF n
  <1> QED BY <1>2, <1>5, OneObjectPairs

LEMMA UpdatePairs ==
  ASSUME PairInv, NEW id \in Ids, NEW w \in BOOLEAN, NEW m \in BOOLEAN,
         NEW pos \in Points, aoi_update(id, w, m, pos)
  PROVE  Told' /\ AccountedFor'
  <1> DEFINE q == map_query(id)
             u == [q EXCEPT !.drop = FALSE, !.ref = IF q.drop THEN q.ref + 1 ELSE q.ref,
                            !.watcher = w, !.marker = m, !.position = pos]
             v == [u EXCEPT !.last = pos, !.move = TRUE, !.version = u.version + 1]
             seen == Changed(q, w, m) \/ ~is_near(pos, q.last)
  <1>1. q \in Object /\ (q.drop => ~q.watcher /\ ~q.marker /\ ~q.move)
    BY QueryType DEF PairInv, AoiInv
  <1>2. CASE seen
    <2>1. hot' = hot /\ objs' = [objs EXCEPT ![id] = v] /\ Renew(id)
      BY <1>2 DEF aoi_update
    <2>2. v.move
      BY <1>1 DEF Object
    <2> HIDE DEF v
    <2> QED BY <2>1, <2>2, OneObjectPairs
  <1>3. CASE ~seen
    <2>1. hot' = hot /\ objs' = [objs EXCEPT ![id] = u] /\ UNCHANGED <<told, far>>
      BY <1>3 DEF aoi_update
    <2>2. ~q.drop /\ q.watcher = w /\ q.marker = m /\ (q.watcher \/ q.marker \/ q.move)
      BY <1>1, <1>3 DEF Changed
    <2>3. q = objs[id]
      <3>1. CASE objs[id] = Absent
        <4>1. ~q.watcher /\ ~q.marker /\ ~q.move
          BY <3>1, AbsentType DEF map_query, new_object, Object
        <4> QED BY <2>2, <4>1
      <3> QED BY <3>1 DEF map_query
    <2>4. /\ u.version = q.version /\ u.drop = FALSE /\ u.watcher = w /\ u.marker = m
          /\ u.move = q.move
      BY <1>1 DEF Object
    <2>5. q.drop = FALSE
      BY <1>1, <2>2 DEF Object
    <2> HIDE DEF u, q
    <2> QED BY <2>1, <2>2, <2>3, <2>4, <2>5, OneObjectPairs
  <1> QED BY <1>2, <1>3

-----------------------------------------------------------------------------
(* aoi_message *)

(* What flush_pair and the sets leave of an object.  Only an object with DROP
   is freed, and it has no mode. *)
LEMMA FlushedObject ==
  ASSUME AoiInv, NEW id \in Ids
  PROVE  /\ AfterFlush[id] \in Object /\ ~AfterFlush[id].drop
         /\ AfterFlush[id].watcher = objs[id].watcher
         /\ AfterFlush[id].marker = objs[id].marker
         /\ AfterFlush[id].move = objs[id].move
         /\ ~objs[id].drop => /\ AfterFlush[id].version = objs[id].version
                              /\ AfterFlush[id].position = objs[id].position
  <1> DEFINE a == AfterFlush[id]
             f == Holds(Flushed, id)
  <1>1. a = IF f = 0 THEN objs[id] ELSE drop_object(objs[id], f)
    BY DEF AfterFlush
  <1>2. /\ objs[id] \in Object
        /\ objs[id].drop => ~objs[id].watcher /\ ~objs[id].marker /\ ~objs[id].move
    BY DEF AoiInv, TypeOK
  <1>3. a \in Object /\ (a # Absent => id \in Live /\ ~a.drop)
    BY AfterFlushed
  <1>4. ~a.drop
    BY <1>3, AbsentType
  <1>5. CASE a = Absent
    <2>1. objs[id] = Absent \/ objs[id].drop
      <3> SUFFICES ASSUME objs[id] # Absent, ~objs[id].drop PROVE FALSE
        OBVIOUS
      <3>1. objs[id].ref = 1 + Holds(hot, id)
        BY DEF AoiInv, RefExact, Live
      <3>2. /\ Holds(hot, id) \in Nat /\ f \in Nat /\ Holds(Kept, id) \in Nat
            /\ Holds(Kept, id) = Holds(hot, id) - f
        BY KeptCount
      <3> HIDE DEF f, a
      <3>3. objs[id].ref - f > 0
        BY <3>1, <3>2
      <3>4. a = objs[id] \/ a = [objs[id] EXCEPT !.ref = objs[id].ref - f]
        BY <1>1, <3>1, <3>2, <3>3 DEF drop_object
      <3>5. a.ref > 0
        BY <1>2, <3>3, <3>4, <3>1, <3>2 DEF Object
      <3> QED BY <1>5, <3>5, AbsentType
    <2>2. objs[id].drop => /\ objs[id].watcher = FALSE /\ objs[id].marker = FALSE
                           /\ objs[id].move = FALSE
      BY <1>2 DEF Object
    <2>3. Absent.watcher = FALSE /\ Absent.marker = FALSE /\ Absent.move = FALSE
      BY AbsentType DEF Object
    <2> HIDE DEF a
    <2> QED BY <1>3, <1>4, <1>5, <2>1, <2>2, <2>3, AbsentType DEF a
  <1>6. CASE a # Absent
    <2> HIDE DEF a, f
    <2>1. a = objs[id] \/ a = [objs[id] EXCEPT !.ref = objs[id].ref - f]
      BY <1>1, <1>6 DEF drop_object
    <2>2. /\ a.watcher = objs[id].watcher /\ a.marker = objs[id].marker
          /\ a.move = objs[id].move /\ a.version = objs[id].version
          /\ a.position = objs[id].position
      BY <1>2, <2>1 DEF Object
    <2> QED BY <1>3, <1>4, <2>2 DEF a
  <1> QED BY <1>5, <1>6

LEMMA MessageObject ==
  ASSUME AoiInv, aoi_message, NEW id \in Ids
  PROVE  /\ ~objs'[id].drop
         /\ objs'[id].watcher = objs[id].watcher
         /\ objs'[id].marker = objs[id].marker
         /\ objs'[id].move => objs[id].move
         /\ objs[id].watcher \/ objs[id].marker => ~objs'[id].move
         /\ objs'[id].version = AfterFlush[id].version
         /\ ~objs[id].drop => objs'[id].version = objs[id].version
  <1> DEFINE o == AfterFlush
             new == NewPairs(o)
             x == [o[id] EXCEPT !.ref = o[id].ref + Holds(new, id)]
  <1>1. objs'[id] = Pushed(x)
    BY DEF aoi_message
  <1>2. /\ o[id] \in Object /\ ~o[id].drop
        /\ o[id].watcher = objs[id].watcher /\ o[id].marker = objs[id].marker
        /\ o[id].move = objs[id].move
        /\ ~objs[id].drop => o[id].version = objs[id].version
    BY FlushedObject
  <1> HIDE DEF o, new
  <1>3. /\ x.drop = o[id].drop /\ x.watcher = o[id].watcher /\ x.marker = o[id].marker
        /\ x.move = o[id].move /\ x.version = o[id].version
        /\ DOMAIN x = DOMAIN o[id]
    BY <1>2 DEF Object
  <1>4. "move" \in DOMAIN o[id]
    BY <1>2 DEF Object
  <1> HIDE DEF x
  <1> USE DEF o
  <1>5. CASE ~x.watcher /\ ~x.marker
    BY <1>1, <1>2, <1>3, <1>5 DEF Pushed
  <1>6. CASE x.watcher \/ x.marker
    <2>1. objs'[id] = [x EXCEPT !.move = FALSE]
      BY <1>1, <1>6 DEF Pushed
    <2> QED BY <2>1, <1>2, <1>3, <1>4, <1>6
  <1> QED BY <1>5, <1>6

(* What one message does with a pair: flush_pair deals with the one that is
   watched, gen_pair with the one that has an object with MOVE, and no pair is
   both.  Both go by the positions the objects have. *)
ToTest(w, m) ==
  /\ w # m /\ objs[w].watcher /\ objs[m].marker
  /\ objs[w].move \/ objs[m].move

LEMMA WatchedFacts ==
  ASSUME AoiInv, NEW w \in Ids, NEW m \in Ids, Watched(w, m)
  PROVE  ~objs[w].move /\ ~objs[m].move /\ ~objs[w].drop /\ ~objs[m].drop
  BY DEF AoiInv, Fresh, Watched, Outdated

LEMMA TestedPair ==
  ASSUME AoiInv, NEW w \in Ids, NEW m \in Ids
  PROVE  /\ <<w, m>> \in Tested(AfterFlush) <=> ToTest(w, m)
         /\ ToTest(w, m) => /\ ~objs[w].drop /\ ~objs[m].drop
                            /\ Close(AfterFlush, w, m) <=> Close(objs, w, m)
                            /\ TooFar(AfterFlush, w, m) <=> TooFar(objs, w, m)
  <1> DEFINE o == AfterFlush
  <1>1. \A i \in Ids : /\ o[i].watcher = objs[i].watcher /\ o[i].marker = objs[i].marker
                       /\ o[i].move = objs[i].move
    BY FlushedObject
  <1>2. \A i \in Ids : ~objs[i].drop => o[i].position = objs[i].position
    BY FlushedObject
  <1>3. \A i \in Ids : objs[i].watcher \/ objs[i].marker => ~objs[i].drop
    BY DEF AoiInv, TypeOK
  <1> HIDE DEF o
  <1>4. <<w, m>> \in Tested(o) <=> ToTest(w, m)
    BY <1>1 DEF Tested, ToTest, watcher_static, watcher_move, marker_static, marker_move
  <1>5. ASSUME ToTest(w, m)
        PROVE  ~objs[w].drop /\ ~objs[m].drop
               /\ o[w].position = objs[w].position /\ o[m].position = objs[m].position
    BY <1>2, <1>3, <1>5 DEF ToTest
  <1>6. ToTest(w, m) => /\ Close(o, w, m) <=> Close(objs, w, m)
                        /\ TooFar(o, w, m) <=> TooFar(objs, w, m)
    BY <1>5 DEF Close, TooFar
  <1> QED BY <1>4, <1>5, <1>6 DEF o

LEMMA MessagePair ==
  ASSUME AoiInv, aoi_message, NEW w \in Ids, NEW m \in Ids
  PROVE  /\ Watched(w, m)' <=>
              /\ Watched(w, m) \/ ToTest(w, m)
              /\ ~Close(objs, w, m) /\ ~TooFar(objs, w, m)
         /\ told'[<<w, m>>] = told[<<w, m>>]
              + (IF Watched(w, m) /\ Close(objs, w, m) THEN 1 ELSE 0)
              + (IF ToTest(w, m) /\ Close(objs, w, m) THEN 1 ELSE 0)
         /\ (Watched(w, m) \/ ToTest(w, m)) /\ TooFar(objs, w, m) => <<w, m>> \in far'
         /\ far \subseteq far'
  <1> DEFINE o == AfterFlush
             new == NewPairs(o)
  <1>1. hot' = Kept \union new
    BY DEF aoi_message, Kept
  <1>2. /\ \A i \in Ids : ~objs'[i].drop /\ objs'[i].version = o[i].version
        /\ \A i \in Ids : ~objs[i].drop => objs'[i].version = objs[i].version
    BY MessageObject
  <1>3. \A p \in hot : p.watcher \in Ids /\ p.marker \in Ids
    BY DEF AoiInv, TypeOK, Pair
  <1>4. /\ <<w, m>> \in Tested(o) <=> ToTest(w, m)
        /\ ToTest(w, m) => /\ Close(o, w, m) <=> Close(objs, w, m)
                           /\ TooFar(o, w, m) <=> TooFar(objs, w, m)
    BY TestedPair
  <1>5. (\E h \in Met : h.watcher = w /\ h.marker = m) <=> Watched(w, m) /\ Close(objs, w, m)
    BY DEF Met, Watched
  <1>6. (\E h \in Parted : h.watcher = w /\ h.marker = m) <=>
          Watched(w, m) /\ TooFar(objs, w, m)
    BY DEF Parted, Watched
  <1>7. (\E p \in Kept : p.watcher = w /\ p.marker = m) <=>
          Watched(w, m) /\ ~Close(objs, w, m) /\ ~TooFar(objs, w, m)
    BY DEF Kept, Flushed, Met, Parted, Watched
  <1>8. (\E p \in new : p.watcher = w /\ p.marker = m) <=>
          ToTest(w, m) /\ ~Close(objs, w, m) /\ ~TooFar(objs, w, m)
    <2> HIDE DEF o
    <2>1. (\E p \in new : p.watcher = w /\ p.marker = m) <=> <<w, m>> \in Middle(o)
      <3>1. ASSUME NEW p \in new, p.watcher = w, p.marker = m PROVE <<w, m>> \in Middle(o)
        <4>1. PICK t \in Middle(o) :
                p = [watcher |-> t[1], marker |-> t[2],
                     watcher_version |-> o[t[1]].version, marker_version |-> o[t[2]].version]
          BY <3>1 DEF NewPairs
        <4>2. t \in Ids \X Ids
          BY DEF Middle, Tested, watcher_static, watcher_move, marker_static, marker_move
        <4>3. t = <<w, m>>
          BY <3>1, <4>1, <4>2
        <4> QED BY <4>3
      <3>2. ASSUME <<w, m>> \in Middle(o) PROVE \E p \in new : p.watcher = w /\ p.marker = m
        <4> DEFINE p == [watcher |-> w, marker |-> m, watcher_version |-> o[w].version,
                         marker_version |-> o[m].version]
        <4>1. p \in new
          BY <3>2 DEF NewPairs
        <4> QED BY <4>1
      <3> QED BY <3>1, <3>2
    <2> QED BY <2>1, <1>4 DEF Middle
  <1>9. \A p \in hot' : ~Outdated(p)'
    <2>1. ASSUME NEW p \in Kept PROVE ~Outdated(p)'
      <3>1. p \in hot /\ ~Outdated(p)
        BY DEF Kept, Flushed
      <3> HIDE DEF o
      <3> QED BY <3>1, <1>2, <1>3 DEF Outdated
    <2>2. ASSUME NEW p \in new PROVE ~Outdated(p)'
      <3>1. /\ p.watcher \in Ids /\ p.marker \in Ids
            /\ p.watcher_version = o[p.watcher].version
            /\ p.marker_version = o[p.marker].version
        BY NewPairsType
      <3> HIDE DEF o
      <3> QED BY <3>1, <1>2 DEF Outdated
    <2> QED BY <1>1, <2>1, <2>2
  <1>10. Watched(w, m)' <=> \E p \in Kept \union new : p.watcher = w /\ p.marker = m
    BY <1>1, <1>9 DEF Watched
  <1>11. told'[<<w, m>>] = told[<<w, m>>] + Calls(o, <<w, m>>)
    BY DEF aoi_message
  <1>12. far' = far \union {<<p.watcher, p.marker>> : p \in Parted}
                    \union {p \in Tested(o) : TooFar(o, p[1], p[2])}
    BY DEF aoi_message
  <1>13. told[<<w, m>>] \in Nat
    BY DEF AoiInv, TypeOK
  <1> HIDE DEF o, new
  <1>14. Calls(o, <<w, m>>) = (IF Watched(w, m) /\ Close(objs, w, m) THEN 1 ELSE 0)
                                + (IF ToTest(w, m) /\ Close(objs, w, m) THEN 1 ELSE 0)
    BY <1>4, <1>5 DEF Calls
  <1>15. (Watched(w, m) \/ ToTest(w, m)) /\ TooFar(objs, w, m) => <<w, m>> \in far'
    <2>1. CASE Watched(w, m) /\ TooFar(objs, w, m)
      BY <1>6, <1>12, <2>1
    <2>2. CASE ToTest(w, m) /\ TooFar(objs, w, m)
      BY <1>4, <1>12, <2>2
    <2> QED BY <2>1, <2>2
  <1> QED BY <1>7, <1>8, <1>10, <1>11, <1>12, <1>13, <1>14, <1>15

LEMMA MessagePairs ==
  ASSUME PairInv, aoi_message
  PROVE  Told' /\ AccountedFor'
  <1> USE DEF PairInv
  <1>1. ASSUME NEW w \in Ids, NEW m \in Ids
        PROVE  /\ told'[<<w, m>>] <= 1
               /\ told'[<<w, m>>] = 1 =>
                    ~Watched(w, m)' /\ ~objs'[w].move /\ ~objs'[m].move
               /\ (w # m /\ objs'[w].watcher /\ objs'[m].marker
                     /\ ~objs'[w].move /\ ~objs'[m].move) =>
                    told'[<<w, m>>] > 0 \/ Watched(w, m)' \/ <<w, m>> \in far'
    <2>1. /\ objs'[w].watcher = objs[w].watcher /\ objs'[m].marker = objs[m].marker
          /\ objs'[w].move => objs[w].move
          /\ objs'[m].move => objs[m].move
          /\ objs[w].watcher => ~objs'[w].move
          /\ objs[m].marker => ~objs'[m].move
      BY MessageObject
    <2>2. Watched(w, m) => ~objs[w].move /\ ~objs[m].move
      BY WatchedFacts
    <2>3. objs[w].watcher => w \in Live
      BY ModeLive
    <2>4. objs[m].marker => m \in Live
      BY ModeLive
    <2> DEFINE W == Watched(w, m)
               V == Watched(w, m)'
               T == ToTest(w, m)
               C == Close(objs, w, m)
               F == TooFar(objs, w, m)
    <2>5. (w # m /\ objs[w].watcher /\ objs[m].marker /\ ~objs[w].move /\ ~objs[m].move) =>
            told[<<w, m>>] > 0 \/ W \/ <<w, m>> \in far
      BY <2>3, <2>4 DEF AccountedFor
    <2>6. told[<<w, m>>] \in Nat /\ told[<<w, m>>] <= 1
          /\ (told[<<w, m>>] = 1 => ~W /\ ~objs[w].move /\ ~objs[m].move)
      BY DEF Told, AoiInv, TypeOK
    <2>7. /\ V <=> (W \/ T) /\ ~C /\ ~F
          /\ told'[<<w, m>>] = told[<<w, m>>] + (IF W /\ C THEN 1 ELSE 0)
                                 + (IF T /\ C THEN 1 ELSE 0)
          /\ (W \/ T) /\ F => <<w, m>> \in far'
          /\ far \subseteq far'
      BY MessagePair
    <2>8. T <=> /\ w # m /\ objs[w].watcher /\ objs[m].marker
                /\ objs[w].move \/ objs[m].move
      BY DEF ToTest
    <2>9. W => ~objs[w].move /\ ~objs[m].move
      BY <2>2
    <2> HIDE DEF W, V, T, C, F
    <2>10. ~(W /\ T)
      BY <2>8, <2>9
    <2>11. told'[<<w, m>>] <= 1
      BY <2>6, <2>7, <2>8, <2>10
    <2>12. ASSUME told'[<<w, m>>] = 1 PROVE ~V /\ ~objs'[w].move /\ ~objs'[m].move
      <3>1. CASE told[<<w, m>>] = 1
        BY <2>1, <2>6, <2>7, <2>8, <3>1
      <3>2. CASE told[<<w, m>>] = 0
        <4>1. C /\ (W \/ T)
          BY <2>7, <2>12, <3>2
        <4> QED BY <2>1, <2>7, <2>8, <2>9, <4>1
      <3> QED BY <2>6, <3>1, <3>2
    <2>13. ASSUME w # m, objs'[w].watcher, objs'[m].marker
           PROVE  told'[<<w, m>>] > 0 \/ V \/ <<w, m>> \in far'
      BY <2>1, <2>5, <2>6, <2>7, <2>8, <2>13
    <2> QED BY <2>11, <2>12, <2>13 DEF V
  <1>2. Told'
    BY <1>1 DEF Told
  <1>3. AccountedFor'
    BY <1>1 DEF AccountedFor, Live
  <1> QED BY <1>2, <1>3

-----------------------------------------------------------------------------
LEMMA PairInit == Init => PairInv
  <1> SUFFICES ASSUME Init PROVE PairInv
    OBVIOUS
  <1>1. AoiInv
    BY InitInv
  <1>2. Told
    BY DEF Init, Told, Watched
  <1>3. AccountedFor
    BY DEF Init, AccountedFor, Live
  <1> QED BY <1>1, <1>2, <1>3 DEF PairInv

LEMMA PairNext == PairInv /\ [Next]_vars => PairInv'
  <1> SUFFICES ASSUME PairInv, [Next]_vars PROVE Told' /\ AccountedFor'
    BY NextInv DEF PairInv
  <1>1. ASSUME NEW id \in Ids, aoi_drop(id) PROVE Told' /\ AccountedFor'
    BY <1>1, DropPairs
  <1>2. ASSUME NEW id \in Ids, NEW mode \in Modes[id], NEW pos \in Points,
               aoi_update(id, mode[1], mode[2], pos)
        PROVE  Told' /\ AccountedFor'
    <2>1. mode[1] \in BOOLEAN /\ mode[2] \in BOOLEAN
      BY AoiAssumption
    <2> QED BY <1>2, <2>1, UpdatePairs
  <1>3. ASSUME aoi_message PROVE Told' /\ AccountedFor'
    BY <1>3, MessagePairs
  <1>4. CASE UNCHANGED vars
    BY <1>4 DEF vars, PairInv, Told, AccountedFor, Watched, Outdated, Live
  <1> QED BY <1>1, <1>2, <1>3, <1>4 DEF Next

(* A watcher and a marker that a message has dealt with were told to the
   callback, or are watched as a hot pair, or were found too far apart:
   whatever the objects do in whatever order, aoi_message loses no pair. *)
THEOREM AoiAccountedFor == Spec => []AccountedFor
  <1>1. PairInv => AccountedFor
    BY DEF PairInv
  <1> QED BY <1>1, PairInit, PairNext, PTL DEF Spec

(* The callback is called at most once for the same versions of a watcher and a
   marker, and their pair is not watched afterwards. *)
THEOREM AoiToldOnce == Spec => []ToldOnce
  <1>1. PairInv => ToldOnce
    BY DEF PairInv, Told, ToldOnce
  <1> QED BY <1>1, PairInit, PairNext, PTL DEF Spec
==============================================================================
