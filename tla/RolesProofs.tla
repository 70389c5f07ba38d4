---------------------------- MODULE RolesProofs -----------------------------
(***************************************************************************)
(* Proofs about Roles, for any players, agents and modules and any bounds: *)
(* its types, that a uin is one player's (UinOwned), that a module is      *)
(* passed over only when the database has its data (HashMeansSaved), and   *)
(* what a player who never shares an agent can rely on.  None of these     *)
(* is inductive: what reaches the database was carried there by coroutines *)
(* and module objects, whichever agent they are on and whatever else runs  *)
(* on it.  The invariant says of each of these carriers that all it can    *)
(* hold of a uin is that uin's record.                                     *)
(***************************************************************************)
EXTENDS Roles, WellFoundedInduction, TLAPS

(* TypeOK but for the uins of the calls, which Waits has. *)
Typed ==
  /\ profile \in [Players -> Uins \union {None}]
  /\ saved \in [Mods -> [Uins -> Data]]
  /\ max_uin \in 0..MaxUin
  /\ owner \in [Uins -> Players \union {None}]
  /\ free \subseteq Agents
  /\ session \in [Agents -> Players \union {None}]
  /\ late \in [Agents -> SUBSET Players]
  /\ profiled \in [Agents -> [player : Players \union {None}, data : Uins \union {None}]]
  /\ mods \in [Agents -> [Mods -> [uin : Uins \union {None}, born : Players \union {None}, data : Data]]]
  /\ hashcodes \in [Agents -> [Mods -> (Uins \X Data) \union {None}]]
  /\ threads \subseteq Thread
  /\ mixed \subseteq Players

(* The one record a module ever has of a uin. *)
Rec(k, u) == IF k = "property" THEN owner[u] ELSE Blank

Stored ==
  /\ \A u \in Uins : u > max_uin => owner[u] = None
  /\ \A k \in Mods, u \in Uins : saved[k][u] \in {None, Rec(k, u)}
  /\ \A p \in Players : profile[p] # None => owner[profile[p]] = p

(* _profiled of an agent names a uin of its own player. *)
Profiled ==
  \A a \in Agents : profiled[a].data # None =>
    profiled[a].player # None /\ owner[profiled[a].data] = profiled[a].player

(* The modules of an agent are of one uin, and hold its records or nothing. *)
Modules ==
  \A a \in Agents, k \in Mods :
    LET m == mods[a][k]
    IN  /\ m.uin = None => m = NoMod
        /\ m.uin # None => /\ m.data \in {None, Rec(k, m.uin)}
                           /\ m.born # None => owner[m.uin] = m.born
        /\ \A l \in Mods : mods[a][l].uin = m.uin /\ mods[a][l].born = m.born

Hashed ==
  \A a \in Agents, k \in Mods :
    LET h == hashcodes[a][k] IN h # None => h[2] # None /\ saved[k][h[1]] = h[2]

(* What a coroutine waits for and holds. *)
Waits(t) ==
  /\ t.pc \in {"profile", "hincrby"} /\ t.same => profiled[t.agent].player = t.player
  /\ t.pc = "profile" /\ t.served =>
       t.val = None \/ (t.val \in Uins /\ owner[t.val] = t.player)
  /\ t.pc = "hincrby" /\ t.served => t.val \in Uins /\ owner[t.val] = t.player
  /\ t.pc = "proxy" =>
       /\ t.key \in Uins /\ owner[t.key] = t.player
       /\ t.made # None => t.made = t.player
  /\ t.pc = "load" =>
       /\ t.key \in Uins
       /\ \A k \in Mods : mods[t.agent][k].uin # None
       /\ t.made # None => owner[t.key] = t.made
       /\ t.held => mods[t.agent][Order[t.at]].uin = t.key
       /\ t.served => t.val \in {None, Rec(Order[t.at], t.key)}
  /\ t.pc = "save" =>
       /\ t.key \in Uins
       /\ t.val # None /\ t.val = Rec(Order[t.at], t.key)
       /\ t.served => saved[Order[t.at]][t.key] = t.val
  /\ t.pc = "commit" => t.key \in Uins /\ t.val \in Players /\ owner[t.key] = t.val

(* What each kind of coroutine may wait for. *)
Phased ==
  \A t \in threads :
    /\ t.kind = "logout" => t.pc = "save"
    /\ t.pc \in {"init", "profile"} => t.kind = "start"
    /\ t.pc \in {"hincrby", "commit"} => t.kind = "born"

RolesInv ==
  /\ Typed /\ Phased /\ Stored /\ Profiled /\ Modules /\ Hashed
  /\ \A t \in threads : Waits(t)

-----------------------------------------------------------------------------
(* The order of the modules *)

LEMMA OrderFacts ==
  /\ Len(Order) \in Nat /\ Len(Order) # 0 /\ DOMAIN Order = 1..Len(Order)
  /\ \A j \in DOMAIN Order : Order[j] \in Mods
  /\ \A k \in Mods : \E j \in DOMAIN Order : Order[j] = k
  /\ "property" \in Mods
  BY RolesAssumption DEF Mods, ToSet

(* NatLessThanWellFounded and WFMin state it of the relation < . *)
LEMMA LeastIndex ==
  ASSUME NEW U \in SUBSET Nat, U # {}
  PROVE  \E k \in U : \A l \in U : k <= l
  <1> DEFINE R == OpToRel(<, Nat)
  <1>1. IsWellFoundedOn(R, Nat)
    BY NatLessThanWellFounded, Zenon
  <1>2. \A k, l \in Nat : l < k => <<l, k>> \in R
    BY DEF OpToRel
  <1> HIDE DEF R
  <1>3. PICK k \in U : \A l \in U : ~(<<l, k>> \in R)
    BY <1>1, WFMin
  <1>4. ASSUME NEW l \in U PROVE k <= l
    <2>1. k \in Nat /\ l \in Nat /\ ~(l < k)
      BY <1>2, <1>3, <1>4
    <2> QED BY <2>1
  <1> QED BY <1>4

(* The module on_mod_save comes to: it is one of those not passed over, and
   every one before it is passed over. *)
First(U) == CHOOSE k \in U : \A l \in U : k <= l

LEMMA FirstUnsaved ==
  ASSUME NEW M, NEW H, NEW i, Unsaved(M, H, i) # {}
  PROVE  /\ First(Unsaved(M, H, i)) \in Unsaved(M, H, i)
         /\ \A l \in Unsaved(M, H, i) : First(Unsaved(M, H, i)) <= l
  <1> DEFINE U == Unsaved(M, H, i)
  <1>1. U \in SUBSET Nat
    BY OrderFacts DEF Unsaved
  <1> HIDE DEF U
  <1>2. \E k \in U : \A l \in U : k <= l
    BY <1>1, LeastIndex DEF U
  <1> QED BY <1>2 DEF First, U

-----------------------------------------------------------------------------
(* on_mod_save *)

Mod == [uin : Uins \union {None}, born : Players \union {None}, data : Data]

(* The modules a coroutine may come to save. *)
Savable(M) ==
  /\ M \in [Mods -> Mod]
  /\ \A k \in Mods : /\ M[k].uin = None => M[k] = NoMod
                     /\ M[k].uin # None => M[k].data \in {None, Rec(k, M[k].uin)}

(* How a coroutine goes on from the loop: it saves a record, or commits the
   profile, or it has ended. *)
LEMMA SaveFromWaits ==
  ASSUME Typed, Profiled, NEW t \in Thread, NEW M, Savable(M), NEW H, NEW i,
         NEW x \in SaveFrom(t, M, H, i)
  PROVE  /\ x \in Thread /\ ~x.served
         /\ x.kind = t.kind /\ x.agent = t.agent /\ x.player = t.player
         /\ x.same = t.same /\ x.held = t.held
         /\ \/ /\ x.pc = "save" /\ Unsaved(M, H, i) # {}
               /\ x.at = First(Unsaved(M, H, i))
               /\ x.key \in Uins /\ x.key = M[Order[x.at]].uin
               /\ x.val = M[Order[x.at]].data
               /\ x.val # None /\ x.val = Rec(Order[x.at], x.key)
            \/ /\ x.pc = "commit" /\ Unsaved(M, H, i) = {} /\ t.kind = "born"
               /\ x.key = profiled[t.agent].data /\ x.val = profiled[t.agent].player
               /\ x.key \in Uins /\ x.val \in Players /\ owner[x.key] = x.val
  <1> DEFINE U == Unsaved(M, H, i)
             j == First(U)
             m == M[Order[j]]
             d == profiled[t.agent]
  <1>1. SaveFrom(t, M, H, i) =
          IF U = {} THEN AfterSaves(t)
          ELSE IF m.data = None THEN {}
          ELSE {[t EXCEPT !.pc = "save", !.at = j, !.key = m.uin, !.val = m.data,
                          !.served = FALSE]}
    BY DEF SaveFrom, First
  <1>2. CASE U # {}
    <2>1. j \in U
      BY <1>2, FirstUnsaved
    <2>2. j \in DOMAIN Order /\ Order[j] \in Mods /\ m # NoMod
      BY <2>1, OrderFacts DEF Unsaved
    <2> HIDE DEF U, j
    <2>3. /\ m \in Mod /\ m.uin # None
          /\ m.data \in {None, Rec(Order[j], m.uin)}
      BY <2>2 DEF Savable
    <2>4. /\ m.data # None
          /\ x = [t EXCEPT !.pc = "save", !.at = j, !.key = m.uin, !.val = m.data,
                          !.served = FALSE]
      BY <1>1, <1>2
    <2>5. m.uin \in Uins /\ m.data \in Data
      BY <2>3 DEF Mod
    <2> HIDE DEF m
    <2>6. /\ x \in Thread /\ ~x.served
          /\ x.kind = t.kind /\ x.agent = t.agent /\ x.player = t.player
          /\ x.same = t.same /\ x.held = t.held
          /\ x.pc = "save" /\ x.at = j /\ x.key = m.uin /\ x.val = m.data
      BY <2>2, <2>4, <2>5 DEF Thread
    <2> QED BY <1>2, <2>3, <2>4, <2>5, <2>6 DEF U, j, m
  <1>3. CASE U = {}
    <2>1. /\ t.kind = "born" /\ d.data # None
          /\ x = [t EXCEPT !.pc = "commit", !.key = d.data, !.val = d.player, !.served = FALSE]
      BY <1>1, <1>3 DEF AfterSaves
    <2>2. t.agent \in Agents
      BY DEF Thread
    <2>3. d.data \in Uins /\ d.player \in Players /\ owner[d.data] = d.player
      BY <2>1, <2>2 DEF Typed, Profiled
    <2> HIDE DEF d, U
    <2>4. /\ x \in Thread /\ ~x.served
          /\ x.kind = t.kind /\ x.agent = t.agent /\ x.player = t.player
          /\ x.same = t.same /\ x.held = t.held
          /\ x.pc = "commit" /\ x.key = d.data /\ x.val = d.player
      BY <2>1, <2>3 DEF Thread, Data
    <2> QED BY <1>3, <2>1, <2>3, <2>4 DEF U, d
  <1> QED BY <1>2, <1>3

(* One coroutine goes on, or none. *)
LEMMA SaveFromOne ==
  ASSUME NEW t, NEW M, NEW H, NEW i,
         NEW x \in SaveFrom(t, M, H, i), NEW y \in SaveFrom(t, M, H, i)
  PROVE  x = y
  <1> DEFINE U == Unsaved(M, H, i)
             m == M[Order[First(U)]]
  <1>1. SaveFrom(t, M, H, i) =
          IF U = {} THEN AfterSaves(t)
          ELSE IF m.data = None THEN {}
          ELSE {[t EXCEPT !.pc = "save", !.at = First(U), !.key = m.uin, !.val = m.data,
                          !.served = FALSE]}
    BY DEF SaveFrom, First
  <1> HIDE DEF U, m
  <1> QED BY <1>1 DEF AfterSaves

LEMMA ModulesSavable ==
  ASSUME Typed, Modules, NEW a \in Agents
  PROVE  Savable(mods[a])
  BY DEF Typed, Modules, Savable, Mod

-----------------------------------------------------------------------------
LEMMA RolesInit == Init => RolesInv
  <1> SUFFICES ASSUME Init PROVE RolesInv
    OBVIOUS
  <1>1. Typed
    BY RolesAssumption DEF Init, Typed, Everywhere, NoMod, Data, Uins
  <1>2. Stored /\ Profiled /\ Modules /\ Hashed
    BY DEF Init, Stored, Profiled, Modules, Hashed, Everywhere, NoMod
  <1> QED BY <1>1, <1>2 DEF Init, RolesInv, Phased

-----------------------------------------------------------------------------
(* The databases.  They only add: a uin that was given and a record that was
   written stay what they are. *)
Grows ==
  /\ \A u \in Uins : owner[u] # None => owner'[u] = owner[u]
  /\ \A k \in Mods, u \in Uins : saved[k][u] # None => saved'[k][u] = saved[k][u]

LEMMA RecGrows ==
  ASSUME Grows, NEW k \in Mods, NEW u \in Uins, Rec(k, u) # None
  PROVE  Rec(k, u)' = Rec(k, u)
  BY DEF Grows, Rec

LEMMA GrowsKeeps ==
  ASSUME RolesInv, Grows, UNCHANGED agentVars
  PROVE  /\ Profiled' /\ Modules' /\ Hashed'
         /\ \A x \in threads : Waits(x)'
  <1> USE DEF RolesInv, agentVars
  <1>1. \A k \in Mods, u \in Uins : Rec(k, u) # None => Rec(k, u)' = Rec(k, u)
    BY RecGrows
  <1>2. Profiled'
    BY DEF Profiled, Typed, Grows
  <1>3. Modules'
    <2> SUFFICES ASSUME NEW a \in Agents, NEW k \in Mods
                 PROVE  LET m == mods[a][k]
                        IN  /\ m.uin = None => m = NoMod
                            /\ m.uin # None => /\ m.data \in {None, Rec(k, m.uin)'}
                                               /\ m.born # None => owner'[m.uin] = m.born
                            /\ \A l \in Mods : mods[a][l].uin = m.uin
                                               /\ mods[a][l].born = m.born
      BY DEF Modules
    <2> DEFINE m == mods[a][k]
    <2>1. m.uin \in Uins \union {None}
      BY DEF Typed
    <2>2. /\ m.uin = None => m = NoMod
          /\ m.uin # None => /\ m.data \in {None, Rec(k, m.uin)}
                             /\ m.born # None => owner[m.uin] = m.born
          /\ \A l \in Mods : mods[a][l].uin = m.uin /\ mods[a][l].born = m.born
      BY DEF Modules
    <2>3. m.uin # None /\ m.data # None => Rec(k, m.uin)' = Rec(k, m.uin)
      BY <1>1, <2>1, <2>2
    <2>4. m.uin # None /\ m.born # None => owner'[m.uin] = owner[m.uin]
      BY <2>1, <2>2 DEF Grows
    <2> HIDE DEF m
    <2> QED BY <2>2, <2>3, <2>4 DEF m
  <1>4. Hashed'
    <2> SUFFICES ASSUME NEW a \in Agents, NEW k \in Mods, hashcodes[a][k] # None
                 PROVE  /\ hashcodes[a][k][2] # None
                        /\ saved'[k][hashcodes[a][k][1]] = hashcodes[a][k][2]
      BY DEF Hashed
    <2>1. hashcodes[a][k][1] \in Uins
      BY DEF Typed
    <2>2. /\ hashcodes[a][k][2] # None
          /\ saved[k][hashcodes[a][k][1]] = hashcodes[a][k][2]
      BY DEF Hashed
    <2> QED BY <2>1, <2>2 DEF Grows
  <1>5. ASSUME NEW x \in threads PROVE Waits(x)'
    <2>1. x \in Thread /\ Waits(x)
      BY DEF Typed
    <2>2. x.at \in DOMAIN Order /\ Order[x.at] \in Mods
      BY <2>1, OrderFacts DEF Thread
    <2>3. x.key \in Uins /\ Rec(Order[x.at], x.key) # None =>
            Rec(Order[x.at], x.key)' = Rec(Order[x.at], x.key)
      BY <1>1, <2>2
    <2>4. x.player # None
      BY <2>1, RolesAssumption DEF Thread
    <2>5. CASE x.pc \in {"profile", "hincrby", "commit", "init", "proxy"}
      BY <2>1, <2>4, <2>5, RolesAssumption DEF Waits, Grows
    <2>6. CASE x.pc = "load"
      BY <2>1, <2>2, <2>3, <2>6 DEF Waits, Grows
    <2>7. CASE x.pc = "save"
      BY <2>1, <2>2, <2>3, <2>7 DEF Waits, Grows
    <2> QED BY <2>1, <2>5, <2>6, <2>7 DEF Thread
  <1> QED BY <1>2, <1>3, <1>4, <1>5

(* The coroutine t goes on as n, or has ended. *)
LEMMA GoesOnKeeps ==
  ASSUME RolesInv, NEW t \in threads, NEW U, GoesOn(t, U),
         \A n \in U : /\ n.kind = t.kind /\ n.agent = t.agent
                      /\ n.kind = "logout" => n.pc = "save"
                      /\ n.pc \in {"init", "profile"} => n.kind = "start"
                      /\ n.pc \in {"hincrby", "commit"} => n.kind = "born"
  PROVE  Phased'
  BY DEF GoesOn, Phased, RolesInv

LEMMA AnsweredFacts ==
  ASSUME RolesInv, NEW t \in threads, NEW v \in Data \union Uins, Answered(t, v)
  PROVE  \E n \in Thread :
           /\ n = [t EXCEPT !.served = TRUE, !.val = v]
           /\ threads' = (threads \ {t}) \union {n} /\ GoesOn(t, {n})
           /\ n.kind = t.kind /\ n.agent = t.agent /\ n.player = t.player /\ n.pc = t.pc
           /\ n.at = t.at /\ n.key = t.key /\ n.made = t.made
           /\ n.same = t.same /\ n.held = t.held /\ n.served /\ n.val = v
  <1> DEFINE n == [t EXCEPT !.served = TRUE, !.val = v]
  <1>1. t \in Thread
    BY DEF RolesInv, Typed
  <1>2. /\ n \in Thread
        /\ n.kind = t.kind /\ n.agent = t.agent /\ n.player = t.player /\ n.pc = t.pc
        /\ n.at = t.at /\ n.key = t.key /\ n.made = t.made
        /\ n.same = t.same /\ n.held = t.held /\ n.served /\ n.val = v
    BY <1>1 DEF Thread
  <1> QED BY <1>2 DEF Answered, GoesOn

(* One coroutine gets its answer v. *)
LEMMA AnsweredKeeps ==
  ASSUME RolesInv, NEW t \in threads, NEW v \in Data \union Uins, Answered(t, v),
         Grows, UNCHANGED <<agentVars, free, mixed>>,
         Stored',
         saved' \in [Mods -> [Uins -> Data]], profile' \in [Players -> Uins \union {None}],
         max_uin' \in 0..MaxUin, owner' \in [Uins -> Players \union {None}],
         t.pc = "profile" => v = None \/ (v \in Uins /\ owner'[v] = t.player),
         t.pc = "hincrby" => v \in Uins /\ owner'[v] = t.player,
         t.pc = "load" => v \in {None, Rec(Order[t.at], t.key)'},
         t.pc = "save" => v = t.val /\ saved'[Order[t.at]][t.key] = v,
         t.pc = "commit" => v = t.val
  PROVE  RolesInv'
  <1>1. PICK n \in Thread :
           /\ threads' = (threads \ {t}) \union {n} /\ GoesOn(t, {n})
           /\ n.kind = t.kind /\ n.agent = t.agent /\ n.player = t.player /\ n.pc = t.pc
           /\ n.at = t.at /\ n.key = t.key /\ n.made = t.made
           /\ n.same = t.same /\ n.held = t.held /\ n.served /\ n.val = v
    BY AnsweredFacts
  <1>2. Profiled' /\ Modules' /\ Hashed' /\ \A x \in threads : Waits(x)'
    BY GrowsKeeps
  <1>3. Phased'
    <2>1. /\ t.kind = "logout" => t.pc = "save"
          /\ t.pc \in {"init", "profile"} => t.kind = "start"
          /\ t.pc \in {"hincrby", "commit"} => t.kind = "born"
      BY DEF RolesInv, Phased
    <2> QED BY <1>1, <2>1, GoesOnKeeps
  <1>4. Typed'
    <2>1. threads' \subseteq Thread
      BY <1>1 DEF RolesInv, Typed
    <2> QED BY <2>1 DEF RolesInv, Typed, agentVars
  <1>5. Waits(n)'
    <2>1. Waits(t)'
      BY <1>2
    <2> QED BY <1>1, <2>1 DEF Waits
  <1>6. \A x \in threads' : Waits(x)'
    BY <1>1, <1>2, <1>5
  <1> QED BY <1>2, <1>3, <1>4, <1>6 DEF RolesInv

LEMMA ServeInv ==
  ASSUME RolesInv, NEW t \in threads, Serve(t)
  PROVE  RolesInv'
  <1>1. t \in Thread /\ Waits(t) /\ Typed /\ Stored
    BY DEF RolesInv, Typed
  <1>2. UNCHANGED <<agentVars, free, mixed>>
    BY DEF Serve
  <1>3. /\ t.agent \in Agents /\ t.player \in Players /\ t.player # None
        /\ t.at \in DOMAIN Order /\ Order[t.at] \in Mods
    BY <1>1, OrderFacts, RolesAssumption DEF Thread
  <1>4. ASSUME UNCHANGED dbVars
        PROVE  /\ Grows /\ Stored'
               /\ saved' \in [Mods -> [Uins -> Data]]
               /\ profile' \in [Players -> Uins \union {None}]
               /\ max_uin' \in 0..MaxUin /\ owner' \in [Uins -> Players \union {None}]
    BY <1>1, <1>4 DEF dbVars, Grows, Stored, Rec, Typed
  <1>6. CASE ServeProfile(t)
    <2>1. Answered(t, profile[t.player]) /\ t.pc = "profile" /\ UNCHANGED dbVars
      BY <1>6 DEF ServeProfile
    <2>2. profile[t.player] \in Data \union Uins
      BY <1>1, <1>3 DEF Typed, Data
    <2>3. \/ profile[t.player] = None
          \/ profile[t.player] \in Uins /\ owner'[profile[t.player]] = t.player
      BY <1>1, <1>3, <2>1 DEF Typed, Stored, dbVars
    <2> QED BY <1>2, <1>4, <2>1, <2>2, <2>3, AnsweredKeeps
  <1>7. CASE ServeHincrby(t)
    <2>1. PICK n \in (max_uin + 1)..MaxUin :
            /\ max_uin' = n /\ owner' = [owner EXCEPT ![n] = t.player] /\ Answered(t, n)
      BY <1>7 DEF ServeHincrby
    <2>2. t.pc = "hincrby" /\ UNCHANGED <<profile, saved>>
      BY <1>7 DEF ServeHincrby
    <2>3. max_uin \in Nat /\ MaxUin \in Nat /\ n \in Uins /\ n > max_uin
      BY <1>1, RolesAssumption DEF Typed, Uins
    <2>4. owner[n] = None
      BY <1>1, <2>3 DEF Stored
    <2>5. \A u \in Uins : owner'[u] = IF u = n THEN t.player ELSE owner[u]
      BY <1>1, <2>1 DEF Typed
    <2>6. Grows
      BY <2>2, <2>4, <2>5 DEF Grows
    <2>7. Stored'
      <3>1. \A u \in Uins : u > max_uin' => owner'[u] = None
        <4> SUFFICES ASSUME NEW u \in Uins, u > n PROVE owner'[u] = None
          BY <2>1
        <4>1. u > max_uin /\ u # n
          BY <2>3 DEF Uins
        <4> QED BY <1>1, <2>5, <4>1 DEF Stored
      <3>2. ASSUME NEW k \in Mods, NEW u \in Uins PROVE saved'[k][u] \in {None, Rec(k, u)'}
        BY <1>1, <2>2, <2>4, <2>5 DEF Stored, Rec
      <3>3. ASSUME NEW p \in Players, profile'[p] # None PROVE owner'[profile'[p]] = p
        <4>1. profile[p] \in Uins /\ owner[profile[p]] = p
          BY <1>1, <2>2, <3>3 DEF Stored, Typed
        <4> QED BY <2>2, <2>4, <2>5, <4>1, RolesAssumption
      <3> QED BY <3>1, <3>2, <3>3 DEF Stored
    <2>8. /\ saved' \in [Mods -> [Uins -> Data]] /\ profile' \in [Players -> Uins \union {None}]
          /\ max_uin' \in 0..MaxUin /\ owner' \in [Uins -> Players \union {None}]
      <3>1. max_uin' \in 0..MaxUin
        BY <2>1, <2>3
      <3> QED BY <1>1, <1>3, <2>1, <2>2, <3>1 DEF Typed
    <2>9. n \in Data \union Uins /\ owner'[n] = t.player
      BY <2>3, <2>5
    <2> QED BY <1>2, <2>1, <2>2, <2>3, <2>6, <2>7, <2>8, <2>9, AnsweredKeeps
  <1>8. CASE ServeLoad(t)
    <2> DEFINE v == saved[Order[t.at]][t.key]
    <2>1. Answered(t, v) /\ t.pc = "load" /\ UNCHANGED dbVars
      BY <1>8 DEF ServeLoad
    <2>2. t.key \in Uins
      BY <1>1, <2>1 DEF Waits
    <2>3. v \in Data \union Uins /\ v \in {None, Rec(Order[t.at], t.key)'}
      BY <1>1, <1>3, <2>1, <2>2 DEF Typed, Stored, dbVars, Rec
    <2> HIDE DEF v
    <2> QED BY <1>2, <1>4, <2>1, <2>3, AnsweredKeeps
  <1>9. CASE ServeSave(t)
    <2> DEFINE k == Order[t.at]
    <2>1. /\ Answered(t, t.val) /\ t.pc = "save" /\ UNCHANGED <<profile, max_uin, owner>>
          /\ saved' = [saved EXCEPT ![k][t.key] = t.val]
      BY <1>9 DEF ServeSave
    <2>2. t.key \in Uins /\ t.val # None /\ t.val = Rec(k, t.key)
      BY <1>1, <2>1 DEF Waits
    <2>3. t.val \in Data \union Uins
      BY <1>1 DEF Thread
    <2>4. t.val \in Data
      BY <1>1, <2>2 DEF Rec, Typed, Data
    <2>5. \A l \in Mods, u \in Uins :
            saved'[l][u] = IF l = k /\ u = t.key THEN t.val ELSE saved[l][u]
      BY <1>1, <1>3, <2>1, <2>2 DEF Typed
    <2>6. \A l, u : Rec(l, u)' = Rec(l, u)
      BY <2>1 DEF Rec
    <2>7. Grows
      BY <1>1, <2>1, <2>2, <2>5 DEF Grows, Stored
    <2>8. Stored'
      BY <1>1, <2>1, <2>2, <2>5, <2>6 DEF Stored
    <2>9. /\ saved' \in [Mods -> [Uins -> Data]] /\ profile' \in [Players -> Uins \union {None}]
          /\ max_uin' \in 0..MaxUin /\ owner' \in [Uins -> Players \union {None}]
      BY <1>1, <1>3, <2>1, <2>2, <2>4 DEF Typed
    <2>10. saved'[k][t.key] = t.val
      BY <1>3, <2>2, <2>5
    <2> QED BY <1>2, <2>1, <2>3, <2>7, <2>8, <2>9, <2>10, AnsweredKeeps
  <1>10. CASE ServeCommit(t)
    <2>1. /\ Answered(t, t.val) /\ t.pc = "commit" /\ UNCHANGED <<saved, max_uin, owner>>
          /\ profile' = [profile EXCEPT ![t.val] = t.key]
      BY <1>10 DEF ServeCommit
    <2>2. t.key \in Uins /\ t.val \in Players /\ owner[t.key] = t.val
      BY <1>1, <2>1 DEF Waits
    <2>3. t.val \in Data \union Uins
      BY <1>1 DEF Thread
    <2>4. Grows
      BY <2>1 DEF Grows
    <2>5. Stored'
      BY <1>1, <2>1, <2>2 DEF Stored, Rec, Typed
    <2>6. /\ saved' \in [Mods -> [Uins -> Data]] /\ profile' \in [Players -> Uins \union {None}]
          /\ max_uin' \in 0..MaxUin /\ owner' \in [Uins -> Players \union {None}]
      BY <1>1, <2>1, <2>2 DEF Typed
    <2> QED BY <1>2, <2>1, <2>3, <2>4, <2>5, <2>6, AnsweredKeeps
  <1> QED BY <1>6, <1>7, <1>8, <1>9, <1>10 DEF Serve

-----------------------------------------------------------------------------
(* The stretches of code from an answer to the next call *)

(* A coroutine that keeps what it waits for when other objects take the place
   of those on its agent. *)
LEMMA WaitsKept ==
  ASSUME NEW x, Waits(x), UNCHANGED dbVars,
         x.pc \in {"profile", "hincrby"} /\ x.same =>
           profiled'[x.agent].player = profiled[x.agent].player,
         x.pc = "load" =>
           /\ \A k \in Mods : mods'[x.agent][k].uin # None
           /\ x.held => mods'[x.agent][Order[x.at]].uin = mods[x.agent][Order[x.at]].uin
  PROVE  Waits(x)'
  <1>1. \A k, u : Rec(k, u)' = Rec(k, u)
    BY DEF Rec, dbVars
  <1> QED BY <1>1 DEF Waits, dbVars

(* t goes on as n and F is what its step makes of the others on its agent. *)
LEMMA OthersKeep ==
  ASSUME RolesInv, NEW t \in threads, NEW F, NEW n,
         threads' = ((threads \ On(t.agent)) \union {F[o] : o \in On(t.agent) \ {t}})
                      \union {n},
         \A o \in On(t.agent) : F[o].kind = o.kind /\ F[o].agent = o.agent /\ F[o].pc = o.pc,
         n.kind = t.kind, n.agent = t.agent, t.kind # "logout",
         n.pc \in {"init", "profile"} => n.kind = "start",
         n.pc \in {"hincrby", "commit"} => n.kind = "born"
  PROVE  Phased'
  BY DEF RolesInv, On, Phased

LEMMA RegProfileInv ==
  ASSUME RolesInv, NEW t \in threads, t.served, reg_profile(t),
         UNCHANGED <<dbVars, session, late, mixed>>
  PROVE  RolesInv'
  <1> DEFINE a == t.agent
             n == [t EXCEPT !.pc = "profile", !.same = TRUE, !.served = FALSE]
             f(o) == [o EXCEPT !.same = FALSE]
             F == [o \in On(a) |-> f(o)]
  <1>1. /\ t \in Thread /\ a \in Agents /\ t.player \in Players /\ t.kind = "start"
        /\ Typed /\ Stored /\ Profiled /\ Modules /\ Hashed
        /\ \A x \in threads : x \in Thread /\ Waits(x)
    BY DEF RolesInv, Typed, Thread, reg_profile, Phased
  <1>2. /\ profiled' = [profiled EXCEPT ![a] = [player |-> t.player, data |-> None]]
        /\ threads' = ((threads \ On(a)) \union {f(o) : o \in On(a) \ {t}}) \union {n}
        /\ UNCHANGED <<mods, hashcodes, free>>
    BY DEF reg_profile, Others
  <1>3. /\ n \in Thread /\ n.kind = "start" /\ n.agent = a /\ n.player = t.player
        /\ n.pc = "profile" /\ ~n.served
    BY <1>1 DEF Thread
  <1>4. ASSUME NEW o \in threads
        PROVE  /\ f(o) \in Thread /\ ~f(o).same
               /\ f(o).kind = o.kind /\ f(o).agent = o.agent /\ f(o).player = o.player
               /\ f(o).pc = o.pc /\ f(o).at = o.at /\ f(o).key = o.key /\ f(o).val = o.val
               /\ f(o).made = o.made /\ f(o).held = o.held /\ f(o).served = o.served
    <2>1. o \in Thread
      BY <1>1
    <2> QED BY <2>1 DEF Thread
  <1>5. \A b \in Agents :
          profiled'[b] = IF b = a THEN [player |-> t.player, data |-> None] ELSE profiled[b]
    BY <1>1, <1>2 DEF Typed
  <1> HIDE DEF n, f
  <1>6. On(a) \subseteq threads /\ \A o \in threads : o \in On(a) <=> o.agent = a
    BY DEF On
  <1>7. Typed'
    <2>1. threads' \subseteq Thread
      BY <1>1, <1>2, <1>3, <1>4, <1>6
    <2>2. profiled' \in [Agents -> [player : Players \union {None}, data : Uins \union {None}]]
      BY <1>1, <1>2 DEF Typed
    <2> QED BY <1>1, <1>2, <2>1, <2>2 DEF Typed, dbVars
  <1>8. Stored' /\ Modules' /\ Hashed'
    BY <1>1, <1>2 DEF Stored, Modules, Hashed, Rec, dbVars
  <1>9. Profiled'
    BY <1>1, <1>5 DEF Profiled, dbVars
  <1>10. Phased'
    <2>1. threads' = ((threads \ On(a)) \union {F[o] : o \in On(a) \ {t}}) \union {n}
      BY <1>2
    <2>2. \A o \in On(a) : F[o].kind = o.kind /\ F[o].agent = o.agent /\ F[o].pc = o.pc
      BY <1>4, <1>6
    <2>3. /\ n.kind = t.kind /\ n.agent = t.agent /\ t.kind # "logout"
          /\ n.pc \in {"init", "profile"} => n.kind = "start"
          /\ n.pc \in {"hincrby", "commit"} => n.kind = "born"
      BY <1>1, <1>2, <1>3
    <2> HIDE DEF F, a
    <2> QED BY <2>1, <2>2, <2>3, OthersKeep DEF a
  <1>11. ASSUME NEW x \in threads' PROVE Waits(x)'
    <2>1. CASE x \in threads \ On(a)
      <3>1. x \in Thread /\ Waits(x) /\ x.agent # a /\ x.agent \in Agents
        BY <1>1, <1>6, <2>1 DEF Thread
      <3>2. /\ profiled'[x.agent] = profiled[x.agent] /\ mods' = mods
            /\ x.pc = "load" => \A k \in Mods : mods[x.agent][k].uin # None
        BY <1>2, <1>5, <3>1 DEF Waits
      <3> QED BY <3>1, <3>2, WaitsKept
    <2>2. CASE x = n
      BY <1>1, <1>3, <1>5, <2>2 DEF Waits
    <2>3. CASE \E o \in On(a) \ {t} : x = f(o)
      <3>1. PICK o \in threads : x = f(o)
        BY <1>6, <2>3
      <3>2. Waits(o)
        BY <1>1
      <3>3. Waits(x)
        BY <1>4, <3>1, <3>2 DEF Waits
      <3>4. mods' = mods /\ ~x.same
            /\ (x.pc = "load" => \A k \in Mods : mods[x.agent][k].uin # None)
        BY <1>2, <1>4, <3>1, <3>3 DEF Waits
      <3> QED BY <3>3, <3>4, WaitsKept
    <2> QED BY <1>2, <2>1, <2>2, <2>3
  <1> QED BY <1>7, <1>8, <1>9, <1>10, <1>11 DEF RolesInv

(* self._data of the object t called: the players of the agents' objects stay,
   and the uin is one of its player's. *)
LEMMA SetProfileKeeps ==
  ASSUME RolesInv, NEW t \in threads, t.pc \in {"profile", "hincrby"},
         NEW u \in Uins \union {None}, u # None => owner[u] = t.player,
         SetProfile(t, u), UNCHANGED dbVars
  PROVE  /\ profiled' \in [Agents -> [player : Players \union {None}, data : Uins \union {None}]]
         /\ \A b \in Agents : profiled'[b].player = profiled[b].player
         /\ \A b \in Agents : b # t.agent \/ ~t.same => profiled'[b] = profiled[b]
         /\ t.same => profiled'[t.agent].data = u
         /\ Profiled'
  <1>1. /\ t \in Thread /\ t.agent \in Agents /\ t.player \in Players /\ t.player # None
        /\ Typed /\ Profiled /\ Waits(t)
    BY RolesAssumption DEF RolesInv, Typed, Thread
  <1>2. CASE ~t.same
    <2>1. profiled' = profiled
      BY <1>2 DEF SetProfile
    <2> QED BY <1>1, <1>2, <2>1 DEF Profiled, Typed, dbVars
  <1>3. CASE t.same
    <2> DEFINE a == t.agent
    <2>1. profiled' = [profiled EXCEPT ![a].data = u]
      BY <1>3 DEF SetProfile
    <2>2. profiled[a].player = t.player
      BY <1>1, <1>3 DEF Waits
    <2>3. profiled' \in [Agents -> [player : Players \union {None}, data : Uins \union {None}]]
      BY <1>1, <2>1 DEF Typed
    <2>4. /\ \A b \in Agents : profiled'[b].player = profiled[b].player
          /\ \A b \in Agents : b # a => profiled'[b] = profiled[b]
          /\ profiled'[a].data = u
      BY <1>1, <2>1 DEF Typed
    <2>5. Profiled'
      BY <1>1, <2>2, <2>4 DEF Profiled, dbVars
    <2> QED BY <1>3, <2>3, <2>4, <2>5
  <1> QED BY <1>2, <1>3

(* set_uin, after the profile object has the uin. *)
LEMMA SetUinInv ==
  ASSUME RolesInv, NEW t \in threads, t.pc \in {"profile", "hincrby"},
         t.val \in Uins, owner[t.val] = t.player,
         NEW b \in Players \union {None}, b \in {None, t.player},
         SetProfile(t, t.val), set_uin(t, t.val, b),
         UNCHANGED <<dbVars, session, late, mixed, mods, hashcodes, free>>
  PROVE  RolesInv'
  <1>1. /\ t \in Thread /\ t.agent \in Agents /\ t.kind # "logout" /\ Typed
    BY DEF RolesInv, Typed, Thread, Phased
  <1>2. PICK n : n = [t EXCEPT !.pc = "proxy", !.key = t.val, !.made = b, !.served = TRUE,
                               !.val = None]
    OBVIOUS
  <1>3. threads' = (threads \ {t}) \union {n} /\ GoesOn(t, {n})
    BY <1>2 DEF set_uin, GoesOn
  <1>4. /\ n \in Thread /\ n.kind = t.kind /\ n.agent = t.agent /\ n.player = t.player
        /\ n.pc = "proxy" /\ n.key = t.val /\ n.made = b
    <2>1. None \in Data
      BY DEF Data
    <2> QED BY <1>1, <1>2, <2>1 DEF Thread
  <1>5. /\ profiled' \in [Agents -> [player : Players \union {None}, data : Uins \union {None}]]
        /\ \A c \in Agents : profiled'[c].player = profiled[c].player
        /\ Profiled'
    BY SetProfileKeeps
  <1>6. Typed'
    BY <1>1, <1>3, <1>4, <1>5 DEF Typed, dbVars
  <1>7. Stored' /\ Hashed' /\ Modules'
    BY DEF Stored, Hashed, Modules, Rec, dbVars, RolesInv
  <1>8. Phased'
    BY <1>1, <1>3, <1>4, GoesOnKeeps
  <1>9. ASSUME NEW x \in threads PROVE Waits(x)'
    <2>1. x \in Thread /\ Waits(x) /\ x.agent \in Agents
      BY DEF RolesInv, Typed, Thread
    <2>2. /\ profiled'[x.agent].player = profiled[x.agent].player /\ mods' = mods
          /\ x.pc = "load" => \A k \in Mods : mods[x.agent][k].uin # None
      BY <1>5, <2>1 DEF Waits
    <2> QED BY <2>1, <2>2, WaitsKept
  <1>10. Waits(n)'
    BY <1>4 DEF Waits, dbVars
  <1> QED BY <1>3, <1>5, <1>6, <1>7, <1>8, <1>9, <1>10 DEF RolesInv

LEMMA TriggerInv ==
  ASSUME RolesInv, NEW t \in threads, t.served, trigger_mods(t),
         UNCHANGED <<dbVars, session, late, mixed>>
  PROVE  RolesInv'
  <1> DEFINE a == t.agent
             u == t.key
             b == t.made
             n == [t EXCEPT !.pc = "load", !.at = 1, !.held = TRUE, !.served = FALSE]
             f(o) == [o EXCEPT !.held = FALSE]
             F == [o \in On(a) |-> f(o)]
             new == [uin |-> u, born |-> b, data |-> None]
  <1>1. /\ t \in Thread /\ a \in Agents /\ t.kind # "logout" /\ t.pc = "proxy"
        /\ Typed /\ Stored /\ Profiled /\ Modules /\ Hashed
        /\ \A x \in threads : x \in Thread /\ Waits(x)
    BY DEF RolesInv, Typed, Thread, Phased, trigger_mods
  <1>2. /\ UNCHANGED <<profiled, hashcodes, free>>
        /\ mods' = [mods EXCEPT ![a] = [k \in Mods |-> new]]
        /\ threads' = ((threads \ On(a)) \union {f(o) : o \in On(a) \ {t}}) \union {n}
    BY DEF trigger_mods, reg_mods, Others
  <1>3. /\ n \in Thread /\ n.kind = t.kind /\ n.agent = a /\ n.pc = "load" /\ ~n.served
        /\ n.key = u /\ n.made = b /\ n.at = 1
    <2>1. 1 \in DOMAIN Order
      BY OrderFacts
    <2> QED BY <1>1, <2>1 DEF Thread
  <1>4. ASSUME NEW o \in threads
        PROVE  /\ f(o) \in Thread /\ ~f(o).held
               /\ f(o).kind = o.kind /\ f(o).agent = o.agent /\ f(o).player = o.player
               /\ f(o).pc = o.pc /\ f(o).at = o.at /\ f(o).key = o.key /\ f(o).val = o.val
               /\ f(o).made = o.made /\ f(o).same = o.same /\ f(o).served = o.served
    <2>1. o \in Thread
      BY <1>1
    <2> QED BY <2>1 DEF Thread
  <1>5. \A c \in Agents : mods'[c] = IF c = a THEN [k \in Mods |-> new] ELSE mods[c]
    BY <1>1, <1>2 DEF Typed
  <1>6. /\ u \in Uins /\ b \in Players \union {None}
        /\ b # None => owner[u] = b
    BY <1>1 DEF Waits, Thread
  <1>7. /\ new \in Mod /\ u # None
        /\ new.uin = u /\ new.born = b /\ new.data = None
    BY <1>6, RolesAssumption DEF Mod, Data, Uins
  <1> HIDE DEF n, f, new, u, b
  <1>8. On(a) \subseteq threads /\ \A o \in threads : o \in On(a) <=> o.agent = a
    BY DEF On
  <1>9. Typed'
    <2>1. threads' \subseteq Thread
      BY <1>1, <1>2, <1>3, <1>4, <1>8
    <2>2. mods' \in [Agents -> [Mods -> Mod]]
      BY <1>1, <1>2, <1>7 DEF Typed, Mod
    <2> QED BY <1>1, <1>2, <2>1, <2>2 DEF Typed, dbVars, Mod
  <1>10. Stored' /\ Hashed' /\ Profiled'
    BY <1>1, <1>2 DEF Stored, Hashed, Profiled, Rec, dbVars
  <1>11. Modules'
    <2> SUFFICES ASSUME NEW c \in Agents, NEW k \in Mods
                 PROVE  LET m == mods'[c][k]
                        IN  /\ m.uin = None => m = NoMod
                            /\ m.uin # None => /\ m.data \in {None, Rec(k, m.uin)}
                                               /\ m.born # None => owner[m.uin] = m.born
                            /\ \A l \in Mods : mods'[c][l].uin = m.uin
                                               /\ mods'[c][l].born = m.born
      BY DEF Modules, Rec, dbVars
    <2>1. CASE c = a
      <3>1. \A l \in Mods : mods'[c][l] = new
        BY <1>5, <2>1
      <3> QED BY <1>6, <1>7, <3>1
    <2>2. CASE c # a
      <3>1. mods'[c] = mods[c]
        BY <1>5, <2>2
      <3> QED BY <1>1, <3>1 DEF Modules
    <2> QED BY <2>1, <2>2
  <1>12. Phased'
    <2>1. threads' = ((threads \ On(a)) \union {F[o] : o \in On(a) \ {t}}) \union {n}
      BY <1>2
    <2>2. \A o \in On(a) : F[o].kind = o.kind /\ F[o].agent = o.agent /\ F[o].pc = o.pc
      BY <1>4, <1>8
    <2>3. /\ n.kind = t.kind /\ n.agent = t.agent /\ t.kind # "logout"
          /\ n.pc \in {"init", "profile"} => n.kind = "start"
          /\ n.pc \in {"hincrby", "commit"} => n.kind = "born"
      BY <1>1, <1>3
    <2> HIDE DEF F, a
    <2> QED BY <2>1, <2>2, <2>3, OthersKeep DEF a
  <1>13. ASSUME NEW x \in threads' PROVE Waits(x)'
    <2>1. CASE x \in threads \ On(a)
      <3>1. x \in Thread /\ Waits(x) /\ x.agent # a /\ x.agent \in Agents
        BY <1>1, <1>8, <2>1 DEF Thread
      <3>2. /\ profiled'[x.agent].player = profiled[x.agent].player
            /\ mods'[x.agent] = mods[x.agent]
            /\ x.pc = "load" => \A k \in Mods : mods[x.agent][k].uin # None
        BY <1>2, <1>5, <3>1 DEF Waits
      <3> QED BY <3>1, <3>2, WaitsKept
    <2>2. CASE x = n
      <3>1. Order[1] \in Mods
        BY OrderFacts
      <3>2. \A k \in Mods : mods'[a][k].uin = u
        BY <1>1, <1>5, <1>7
      <3> QED BY <1>3, <1>6, <1>7, <2>2, <3>1, <3>2 DEF Waits, dbVars
    <2>3. CASE \E o \in On(a) \ {t} : x = f(o)
      <3>1. PICK o \in On(a) : x = f(o)
        BY <1>8, <2>3
      <3>2. Waits(o) /\ o \in threads /\ o.agent = a
        BY <1>1, <1>8
      <3>3. Waits(x) /\ x.agent = a /\ ~x.held
        BY <1>4, <3>1, <3>2 DEF Waits
      <3>4. /\ \A k \in Mods : mods'[a][k].uin # None
            /\ profiled'[a].player = profiled[a].player
        BY <1>1, <1>2, <1>5, <1>7
      <3> QED BY <3>3, <3>4, WaitsKept
    <2> QED BY <1>2, <2>1, <2>2, <2>3
  <1> QED BY <1>9, <1>10, <1>11, <1>12, <1>13 DEF RolesInv

LEMMA CheckBornInv ==
  ASSUME RolesInv, NEW t \in threads, t.served, check_born(t),
         UNCHANGED <<dbVars, session, late, mixed>>
  PROVE  RolesInv'
  <1>1. /\ t.pc = "profile" /\ t.kind = "start" /\ t \in Thread /\ Waits(t) /\ Typed
        /\ SetProfile(t, t.val) /\ UNCHANGED <<mods, hashcodes, free>>
    BY DEF RolesInv, check_born, Phased, Typed
  <1>2. t.val = None \/ (t.val \in Uins /\ owner[t.val] = t.player)
    BY <1>1 DEF Waits
  <1>3. CASE t.val # None
    <2>1. set_uin(t, t.val, None)
      BY <1>3 DEF check_born
    <2> QED BY <1>1, <1>2, <1>3, <2>1, SetUinInv
  <1>4. CASE t.val = None
    <2>1. GoesOn(t, {}) /\ UNCHANGED mods
      BY <1>1, <1>4 DEF check_born
    <2>2. threads' = threads \ {t}
      BY <2>1 DEF GoesOn
    <2>3. /\ profiled' \in [Agents -> [player : Players \union {None}, data : Uins \union {None}]]
          /\ \A c \in Agents : profiled'[c].player = profiled[c].player
          /\ Profiled'
      BY <1>1, <1>4, SetProfileKeeps
    <2>4. Typed'
      BY <1>1, <2>1, <2>2, <2>3 DEF Typed, dbVars
    <2>5. Stored' /\ Hashed' /\ Modules'
      BY <1>1, <2>1 DEF Stored, Hashed, Modules, Rec, dbVars, RolesInv
    <2>6. Phased'
      BY <1>1, <2>1, GoesOnKeeps
    <2>7. ASSUME NEW x \in threads' PROVE Waits(x)'
      <3>1. x \in Thread /\ Waits(x) /\ x.agent \in Agents
        BY <2>2 DEF RolesInv, Typed, Thread
      <3>2. /\ profiled'[x.agent].player = profiled[x.agent].player /\ mods' = mods
            /\ x.pc = "load" => \A k \in Mods : mods[x.agent][k].uin # None
        BY <2>1, <2>3, <3>1 DEF Waits
      <3> QED BY <3>1, <3>2, WaitsKept
    <2> QED BY <2>3, <2>4, <2>5, <2>6, <2>7 DEF RolesInv
  <1> QED BY <1>3, <1>4

LEMMA DoBornInv ==
  ASSUME RolesInv, NEW t \in threads, t.served, do_born(t),
         UNCHANGED <<dbVars, session, late, mixed>>
  PROVE  RolesInv'
  <1>1. /\ t.pc = "hincrby" /\ t \in Thread /\ Waits(t)
        /\ SetProfile(t, t.val) /\ set_uin(t, t.val, t.player)
        /\ UNCHANGED <<mods, hashcodes, free>>
    BY DEF RolesInv, do_born, Typed
  <1>2. t.val \in Uins /\ owner[t.val] = t.player /\ t.player \in Players \union {None}
    BY <1>1 DEF Waits, Thread
  <1> QED BY <1>1, <1>2, SetUinInv

(* What a loaded module holds: what the answer was, or what is made of it. *)
Loaded(t) ==
  IF t.val # None THEN t.val ELSE IF Order[t.at] = "property" THEN t.made ELSE Blank

(* The modules of t's agent when t goes on from a load. *)
AfterLoad(t) ==
  IF Loaded(t) # None /\ t.held
  THEN [mods[t.agent] EXCEPT ![Order[t.at]].data = Loaded(t)] ELSE mods[t.agent]

(* How t goes on from a load. *)
NextLoad(t) ==
  [t EXCEPT !.at = t.at + 1, !.key = AfterLoad(t)[Order[t.at + 1]].uin,
            !.made = AfterLoad(t)[Order[t.at + 1]].born,
            !.held = TRUE, !.served = FALSE, !.val = None]

FromLoad(t) ==
  IF Loaded(t) = None THEN {}
  ELSE IF t.at = Len(Order) THEN SaveFrom(t, AfterLoad(t), hashcodes[t.agent], 1)
  ELSE {NextLoad(t)}

LEMMA LoadedSteps ==
  ASSUME Typed, NEW t \in Thread, loaded(t)
  PROVE  /\ t.pc = "load"
         /\ mods' = [mods EXCEPT ![t.agent] = AfterLoad(t)]
         /\ GoesOn(t, FromLoad(t))
         /\ UNCHANGED <<profiled, hashcodes, free>>
  <1> DEFINE a == t.agent
             M == IF t.held THEN [mods[a] EXCEPT ![Order[t.at]].data = Loaded(t)] ELSE mods[a]
  <1>1. /\ t.pc = "load"
        /\ mods' = [mods EXCEPT ![a] = IF Loaded(t) = None THEN mods[a] ELSE M]
        /\ UNCHANGED <<profiled, hashcodes, free>>
    BY DEF loaded, Loaded
  <1>2. GoesOn(t, IF Loaded(t) = None THEN {}
                  ELSE IF t.at = Len(Order) THEN SaveFrom(t, M, hashcodes[a], 1)
                  ELSE {[t EXCEPT !.at = t.at + 1, !.key = M[Order[t.at + 1]].uin,
                                  !.made = M[Order[t.at + 1]].born,
                                  !.held = TRUE, !.served = FALSE, !.val = None]})
    BY DEF loaded, Loaded
  <1>3. Loaded(t) # None => AfterLoad(t) = M
    BY DEF AfterLoad
  <1>4. Loaded(t) = None => AfterLoad(t) = mods[a]
    BY DEF AfterLoad
  <1> HIDE DEF M
  <1> QED BY <1>1, <1>2, <1>3, <1>4 DEF FromLoad, NextLoad

LEMMA AfterLoadType ==
  ASSUME RolesInv, NEW t \in threads, t.pc = "load", t.served
  PROVE  /\ Loaded(t) # None => Loaded(t) = Rec(Order[t.at], t.key)
         /\ Savable(AfterLoad(t))
         /\ \A k \in Mods : /\ AfterLoad(t)[k].uin = mods[t.agent][k].uin
                            /\ AfterLoad(t)[k].born = mods[t.agent][k].born
                            /\ k # Order[t.at] => AfterLoad(t)[k] = mods[t.agent][k]
         /\ Loaded(t) # None /\ t.held => AfterLoad(t)[Order[t.at]].data = Loaded(t)
  <1> DEFINE a == t.agent
             k == Order[t.at]
  <1>1. /\ t \in Thread /\ a \in Agents /\ k \in Mods /\ Waits(t)
        /\ Typed /\ Modules
    BY OrderFacts DEF RolesInv, Typed, Thread
  <1>2. /\ t.key \in Uins /\ t.val \in {None, Rec(k, t.key)}
        /\ t.made # None => owner[t.key] = t.made
        /\ t.held => mods[a][k].uin = t.key
        /\ \A l \in Mods : mods[a][l].uin # None
    BY <1>1 DEF Waits
  <1>3. Loaded(t) # None => Loaded(t) = Rec(k, t.key)
    BY <1>2 DEF Loaded, Rec
  <1>4. Savable(mods[a]) /\ mods[a] \in [Mods -> Mod]
    BY <1>1, ModulesSavable DEF Savable
  <1>5. CASE Loaded(t) # None /\ t.held
    <2>1. AfterLoad(t) = [mods[a] EXCEPT ![k].data = Loaded(t)]
      BY <1>5 DEF AfterLoad
    <2>2. Loaded(t) \in Data
      BY <1>1, <1>2, <1>3, <1>5 DEF Rec, Typed, Data
    <2> DEFINE A == AfterLoad(t)
    <2>3. /\ A \in [Mods -> Mod]
          /\ \A l \in Mods : A[l].uin = mods[a][l].uin /\ A[l].born = mods[a][l].born
          /\ \A l \in Mods : l # k => A[l] = mods[a][l]
          /\ A[k].data = Loaded(t)
      BY <1>1, <1>4, <2>1, <2>2 DEF Mod
    <2> HIDE DEF A
    <2>4. Savable(A)
      BY <1>1, <1>2, <1>3, <1>4, <1>5, <2>3 DEF Savable
    <2> QED BY <1>3, <2>3, <2>4 DEF A
  <1>6. CASE ~(Loaded(t) # None /\ t.held)
    <2>1. AfterLoad(t) = mods[a]
      BY <1>6 DEF AfterLoad
    <2> QED BY <1>3, <1>4, <1>6, <2>1
  <1> QED BY <1>5, <1>6

(* The coroutines of SaveFrom, when the databases stay as they are. *)
LEMMA SaveFromKeeps ==
  ASSUME Typed, Profiled, NEW t \in Thread, NEW M, Savable(M), NEW H, NEW i,
         NEW x \in SaveFrom(t, M, H, i), UNCHANGED dbVars
  PROVE  /\ x \in Thread /\ Waits(x)' /\ x.kind = t.kind /\ x.agent = t.agent
         /\ x.pc \in {"save", "commit"}
         /\ x.pc = "commit" => x.kind = "born"
  <1>1. /\ x \in Thread /\ ~x.served /\ x.kind = t.kind /\ x.agent = t.agent
        /\ \/ /\ x.pc = "save" /\ x.key \in Uins
              /\ x.val # None /\ x.val = Rec(Order[x.at], x.key)
           \/ /\ x.pc = "commit" /\ t.kind = "born"
              /\ x.key \in Uins /\ x.val \in Players /\ owner[x.key] = x.val
    BY SaveFromWaits
  <1>2. Waits(x)'
    BY <1>1 DEF Waits, Rec, dbVars
  <1> QED BY <1>1, <1>2

LEMMA FromLoadKeeps ==
  ASSUME RolesInv, NEW t \in threads, t.served, loaded(t), UNCHANGED dbVars,
         NEW x \in FromLoad(t)
  PROVE  /\ x \in Thread /\ Waits(x)' /\ x.kind = t.kind /\ x.agent = t.agent
         /\ x.pc \in {"load", "save", "commit"}
         /\ x.pc = "commit" => x.kind = "born"
         /\ x.pc = "load" => t.pc = "load"
  <1> DEFINE a == t.agent
             A == AfterLoad(t)
  <1>1. /\ t \in Thread /\ a \in Agents /\ Waits(t) /\ Typed /\ Profiled /\ Modules
        /\ t.at \in DOMAIN Order
    BY DEF RolesInv, Typed, Thread
  <1>2. t.pc = "load" /\ mods' = [mods EXCEPT ![a] = A]
    BY <1>1, LoadedSteps
  <1>3. /\ Savable(A)
        /\ \A k \in Mods : A[k].uin = mods[a][k].uin /\ A[k].born = mods[a][k].born
    BY <1>2, AfterLoadType
  <1>4. CASE t.at = Len(Order)
    <2>1. x \in SaveFrom(t, A, hashcodes[a], 1)
      BY <1>4 DEF FromLoad
    <2> HIDE DEF A
    <2> QED BY <1>1, <1>3, <2>1, SaveFromKeeps
  <1>5. CASE t.at # Len(Order)
    <2> DEFINE l == Order[t.at + 1]
    <2>1. x = NextLoad(t)
      BY <1>5 DEF FromLoad
    <2>2. t.at + 1 \in DOMAIN Order /\ l \in Mods
      BY <1>1, <1>5, OrderFacts
    <2>3. /\ A[l].uin \in Uins /\ A[l].born \in Players \union {None}
          /\ A[l].born # None => owner[A[l].uin] = A[l].born
          /\ \A k \in Mods : A[k].uin # None
      BY <1>1, <1>2, <1>3, <2>2 DEF Modules, Typed, Waits
    <2>4. mods'[a] = A
      BY <1>1, <1>2 DEF Typed
    <2> HIDE DEF A, l
    <2>5. x = [t EXCEPT !.at = t.at + 1, !.key = A[l].uin, !.made = A[l].born,
                        !.held = TRUE, !.served = FALSE, !.val = None]
      BY <2>1 DEF NextLoad, A, l
    <2>6. None \in Data
      BY DEF Data
    <2>7. /\ x \in Thread /\ x.pc = "load" /\ x.kind = t.kind /\ x.agent = a /\ ~x.served
          /\ x.at = t.at + 1 /\ x.key = A[l].uin /\ x.made = A[l].born
      BY <1>1, <1>2, <2>2, <2>3, <2>5, <2>6 DEF Thread
    <2>8. Waits(x)'
      BY <2>3, <2>4, <2>7 DEF Waits, dbVars, l
    <2> QED BY <1>2, <2>7, <2>8
  <1> QED BY <1>4, <1>5

LEMMA FromLoadOne ==
  ASSUME NEW t, NEW x \in FromLoad(t), NEW y \in FromLoad(t)
  PROVE  x = y
  BY SaveFromOne DEF FromLoad

LEMMA LoadedInv ==
  ASSUME RolesInv, NEW t \in threads, t.served, loaded(t),
         UNCHANGED <<dbVars, session, late, mixed>>
  PROVE  RolesInv'
  <1> DEFINE a == t.agent
             A == AfterLoad(t)
  <1>1. /\ t \in Thread /\ a \in Agents /\ Typed /\ Stored /\ Profiled /\ Modules /\ Hashed
    BY DEF RolesInv, Typed, Thread
  <1>2. /\ t.pc = "load" /\ mods' = [mods EXCEPT ![a] = A]
        /\ GoesOn(t, FromLoad(t))
        /\ UNCHANGED <<profiled, hashcodes, free>>
    BY <1>1, LoadedSteps
  <1>3. /\ Savable(A)
        /\ \A k \in Mods : A[k].uin = mods[a][k].uin /\ A[k].born = mods[a][k].born
    BY <1>2, AfterLoadType
  <1> HIDE DEF A
  <1>4. \A c \in Agents : mods'[c] = IF c = a THEN A ELSE mods[c]
    BY <1>1, <1>2 DEF Typed
  <1>5. threads' = (threads \ {t}) \union FromLoad(t)
    BY <1>2 DEF GoesOn
  <1>6. \A x \in FromLoad(t) :
          /\ x \in Thread /\ Waits(x)' /\ x.kind = t.kind /\ x.agent = a
          /\ x.pc \in {"load", "save", "commit"}
          /\ x.pc = "commit" => x.kind = "born"
    BY FromLoadKeeps
  <1>7. Typed'
    <2>1. threads' \subseteq Thread
      BY <1>1, <1>5, <1>6 DEF Typed
    <2>2. mods' \in [Agents -> [Mods -> Mod]]
      BY <1>1, <1>2, <1>3 DEF Typed, Mod, Savable
    <2> QED BY <1>1, <1>2, <2>1, <2>2 DEF Typed, dbVars, Mod
  <1>8. Stored' /\ Hashed' /\ Profiled'
    BY <1>1, <1>2 DEF Stored, Hashed, Profiled, Rec, dbVars
  <1>9. Modules'
    <2> SUFFICES ASSUME NEW c \in Agents, NEW k \in Mods
                 PROVE  LET m == mods'[c][k]
                        IN  /\ m.uin = None => m = NoMod
                            /\ m.uin # None => /\ m.data \in {None, Rec(k, m.uin)}
                                               /\ m.born # None => owner[m.uin] = m.born
                            /\ \A l \in Mods : mods'[c][l].uin = m.uin
                                               /\ mods'[c][l].born = m.born
      BY DEF Modules, Rec, dbVars
    <2>1. CASE c = a
      <3>1. mods'[c] = A
        BY <1>4, <2>1
      <3>2. /\ mods[a][k].uin # None /\ mods[a][k].born # None =>
                 owner[mods[a][k].uin] = mods[a][k].born
            /\ \A l \in Mods : mods[a][l].uin = mods[a][k].uin
                               /\ mods[a][l].born = mods[a][k].born
        BY <1>1 DEF Modules
      <3> QED BY <1>3, <3>1, <3>2 DEF Savable
    <2>2. CASE c # a
      <3>1. mods'[c] = mods[c]
        BY <1>4, <2>2
      <3> QED BY <1>1, <3>1 DEF Modules
    <2> QED BY <2>1, <2>2
  <1>10. Phased'
    <2>1. t.kind # "logout"
      BY <1>2 DEF RolesInv, Phased
    <2>2. \A x \in FromLoad(t) :
            /\ x.kind = t.kind /\ x.agent = a
            /\ x.kind = "logout" => x.pc = "save"
            /\ x.pc \in {"init", "profile"} => x.kind = "start"
            /\ x.pc \in {"hincrby", "commit"} => x.kind = "born"
      BY <1>6, <2>1
    <2> QED BY <1>2, <2>2, GoesOnKeeps
  <1>11. ASSUME NEW x \in threads PROVE Waits(x)'
    <2>1. x \in Thread /\ Waits(x) /\ x.agent \in Agents /\ Order[x.at] \in Mods
      BY OrderFacts DEF RolesInv, Typed, Thread
    <2>2. \A k \in Mods : mods'[x.agent][k].uin = mods[x.agent][k].uin
      BY <1>3, <1>4, <2>1
    <2>3. x.pc = "load" => \A k \in Mods : mods'[x.agent][k].uin # None
      BY <2>1, <2>2 DEF Waits
    <2>4. profiled' = profiled
      BY <1>2
    <2> QED BY <2>1, <2>2, <2>3, <2>4, WaitsKept
  <1>12. \A x \in threads' : Waits(x)'
    BY <1>5, <1>6, <1>11
  <1> QED BY <1>7, <1>8, <1>9, <1>10, <1>12 DEF RolesInv

(* The hash codes of t's agent after a save. *)
AfterSave(t) == [hashcodes[t.agent] EXCEPT ![Order[t.at]] = nhcode(t)]

LEMMA AfterSaveType ==
  ASSUME RolesInv, NEW t \in threads, t.pc = "save", t.served
  PROVE  /\ AfterSave(t) \in [Mods -> (Uins \X Data) \union {None}]
         /\ \A k \in Mods : LET h == AfterSave(t)[k] IN
              h # None => h[2] # None /\ saved[k][h[1]] = h[2]
  <1> DEFINE a == t.agent
             k == Order[t.at]
  <1>1. t \in Thread /\ a \in Agents /\ k \in Mods /\ Waits(t) /\ Typed /\ Hashed
    BY OrderFacts DEF RolesInv, Typed, Thread
  <1>2. /\ t.key \in Uins /\ t.val # None /\ t.val = Rec(k, t.key)
        /\ saved[k][t.key] = t.val
    BY <1>1 DEF Waits
  <1>3. t.val \in Data
    BY <1>1, <1>2 DEF Typed
  <1>4. nhcode(t) \in Uins \X Data /\ nhcode(t)[1] = t.key /\ nhcode(t)[2] = t.val
    BY <1>2, <1>3 DEF nhcode, hashcode
  <1>5. hashcodes[a] \in [Mods -> (Uins \X Data) \union {None}]
    BY <1>1 DEF Typed
  <1>6. \A l \in Mods : AfterSave(t)[l] = IF l = k THEN nhcode(t) ELSE hashcodes[a][l]
    BY <1>5 DEF AfterSave
  <1>7. AfterSave(t) \in [Mods -> (Uins \X Data) \union {None}]
    BY <1>1, <1>4, <1>5 DEF AfterSave
  <1> QED BY <1>1, <1>2, <1>4, <1>6, <1>7 DEF Hashed

LEMMA ModSavedInv ==
  ASSUME RolesInv, NEW t \in threads, t.served, mod_saved(t),
         UNCHANGED <<dbVars, session, late, mixed>>
  PROVE  RolesInv'
  <1> DEFINE a == t.agent
             H == AfterSave(t)
             U == SaveFrom(t, mods[a], H, t.at + 1)
  <1>1. /\ t \in Thread /\ a \in Agents /\ Typed /\ Stored /\ Profiled /\ Modules /\ Hashed
    BY DEF RolesInv, Typed, Thread
  <1>2. /\ t.pc = "save" /\ hashcodes' = [hashcodes EXCEPT ![a] = H]
        /\ GoesOn(t, U)
        /\ free' = IF Recycles(t, mods[a], H, t.at + 1) THEN free \union {a} ELSE free
        /\ UNCHANGED <<profiled, mods>>
    BY DEF mod_saved, AfterSave
  <1>3. /\ H \in [Mods -> (Uins \X Data) \union {None}]
        /\ \A k \in Mods : H[k] # None => H[k][2] # None /\ saved[k][H[k][1]] = H[k][2]
    BY <1>2, AfterSaveType
  <1> HIDE DEF H
  <1>4. Savable(mods[a])
    BY <1>1, ModulesSavable
  <1>5. \A x \in U : /\ x \in Thread /\ Waits(x)' /\ x.kind = t.kind /\ x.agent = a
                     /\ x.pc \in {"save", "commit"}
                     /\ x.pc = "commit" => x.kind = "born"
    BY <1>1, <1>4, SaveFromKeeps
  <1> HIDE DEF U
  <1>8. threads' = (threads \ {t}) \union U
    BY <1>2 DEF GoesOn
  <1>9. Typed'
    <2>1. threads' \subseteq Thread
      BY <1>1, <1>5, <1>8 DEF Typed
    <2>2. hashcodes' \in [Agents -> [Mods -> (Uins \X Data) \union {None}]]
      BY <1>1, <1>2, <1>3 DEF Typed
    <2>3. free' \subseteq Agents
      BY <1>1, <1>2 DEF Typed
    <2> QED BY <1>1, <1>2, <2>1, <2>2, <2>3 DEF Typed, dbVars
  <1>10. Stored' /\ Profiled' /\ Modules'
    BY <1>1, <1>2 DEF Stored, Profiled, Modules, Rec, dbVars
  <1>11. Hashed'
    <2>1. \A c \in Agents : hashcodes'[c] = IF c = a THEN H ELSE hashcodes[c]
      BY <1>1, <1>2 DEF Typed
    <2> QED BY <1>1, <1>3, <2>1 DEF Hashed, dbVars
  <1>12. Phased'
    <2>1. \A x \in U : /\ x.kind = t.kind /\ x.agent = a
                       /\ x.kind = "logout" => x.pc = "save"
                       /\ x.pc \in {"init", "profile"} => x.kind = "start"
                       /\ x.pc \in {"hincrby", "commit"} => x.kind = "born"
      BY <1>5
    <2> QED BY <1>2, <2>1, GoesOnKeeps
  <1>13. ASSUME NEW x \in threads PROVE Waits(x)'
    <2>1. Waits(x)
      BY DEF RolesInv
    <2>2. mods' = mods /\ profiled' = profiled
      BY <1>2
    <2>3. x.pc = "load" => \A k \in Mods : mods'[x.agent][k].uin # None
      BY <2>1, <2>2 DEF Waits
    <2> QED BY <2>1, <2>2, <2>3, WaitsKept
  <1>14. \A x \in threads' : Waits(x)'
    BY <1>5, <1>8, <1>13
  <1> QED BY <1>9, <1>10, <1>11, <1>12, <1>14 DEF RolesInv

(* A coroutine ends and leaves everything as it is. *)
LEMMA EndsInv ==
  ASSUME RolesInv, NEW t \in threads, GoesOn(t, {}),
         UNCHANGED <<dbVars, agentVars, free, mixed>>
  PROVE  RolesInv'
  <1>1. threads' = threads \ {t}
    BY DEF GoesOn
  <1>2. Typed' /\ Stored' /\ Profiled' /\ Modules' /\ Hashed'
    BY <1>1 DEF RolesInv, Typed, Stored, Profiled, Modules, Hashed, Rec, dbVars, agentVars
  <1>3. Phased'
    BY <1>1, GoesOnKeeps
  <1>4. \A x \in threads' : Waits(x)'
    BY <1>1 DEF RolesInv, Waits, Rec, dbVars, agentVars
  <1> QED BY <1>2, <1>3, <1>4 DEF RolesInv

LEMMA CommittedInv ==
  ASSUME RolesInv, NEW t \in threads, committed(t),
         UNCHANGED <<dbVars, session, late, mixed>>
  PROVE  RolesInv'
  BY EndsInv DEF committed, agentVars

LEMMA FailInv ==
  ASSUME RolesInv, NEW t \in threads, Fail(t)
  PROVE  RolesInv'
  BY EndsInv DEF Fail

LEMMA ResumeInv ==
  ASSUME RolesInv, NEW t \in threads, Resume(t)
  PROVE  RolesInv'
  BY RegProfileInv, CheckBornInv, DoBornInv, TriggerInv, LoadedInv, ModSavedInv, CommittedInv
     DEF Resume

-----------------------------------------------------------------------------
(* Commands *)

LEMMA NewThreadType ==
  ASSUME NEW kind \in {"start", "born", "logout"}, NEW a \in Agents, NEW p \in Players,
         NEW i \in 1..MaxRunning
  PROVE  NewThread(kind, a, p, i) \in Thread
  BY OrderFacts DEF NewThread, Thread, Data

LEMMA MixesType ==
  ASSUME Typed, NEW a \in Agents, NEW p \in Players, NEW i, Mixes(a, p, i)
  PROVE  mixed' \subseteq Players
  BY DEF Typed, Mixes, On, Thread

(* A coroutine begins, and nothing else happens to the modules. *)
LEMMA BeginsKeeps ==
  ASSUME RolesInv, NEW U, threads' = threads \union U,
         \A x \in U : x \in Thread /\ Waits(x)',
         UNCHANGED <<dbVars, profiled, mods, hashcodes>>
  PROVE  /\ threads' \subseteq Thread
         /\ Stored' /\ Profiled' /\ Modules' /\ Hashed'
         /\ \A x \in threads' : Waits(x)'
  <1>1. threads' \subseteq Thread
    BY DEF RolesInv, Typed
  <1>2. Stored' /\ Profiled' /\ Modules' /\ Hashed'
    BY DEF RolesInv, Stored, Profiled, Modules, Hashed, Rec, dbVars
  <1>3. ASSUME NEW x \in threads PROVE Waits(x)'
    <2>1. Waits(x)
      BY DEF RolesInv
    <2> QED BY <2>1 DEF Waits, Rec, dbVars
  <1> QED BY <1>1, <1>2, <1>3

LEMMA StartInv ==
  ASSUME RolesInv, NEW p \in Players, NEW a \in Agents, start(p, a)
  PROVE  RolesInv'
  <1>1. /\ free' = free \ {a} /\ session' = [session EXCEPT ![a] = p]
        /\ late' = [late EXCEPT ![a] = @ \union ({session[a]} \ {None})]
        /\ UNCHANGED <<dbVars, profiled, mods, hashcodes>>
    BY DEF start
  <1>2. PICK i \in 1..MaxRunning : /\ threads' = threads \union {NewThread("start", a, p, i)}
                                  /\ Mixes(a, p, i)
    BY DEF start
  <1>3. PICK n \in Thread : /\ threads' = threads \union {n}
                           /\ n.pc = "init" /\ n.kind = "start" /\ n.agent = a
    BY <1>2, NewThreadType DEF NewThread
  <1>4. Waits(n)'
    BY <1>3 DEF Waits
  <1>5. /\ threads' \subseteq Thread
        /\ Stored' /\ Profiled' /\ Modules' /\ Hashed'
        /\ \A x \in threads' : Waits(x)'
    <2> DEFINE U == {n}
    <2>1. threads' = threads \union U /\ \A x \in U : x \in Thread /\ Waits(x)'
      BY <1>3, <1>4
    <2> HIDE DEF U
    <2> QED BY <1>1, <2>1, BeginsKeeps
  <1>6. mixed' \subseteq Players
    BY <1>2, MixesType DEF RolesInv
  <1>7. /\ session' \in [Agents -> Players \union {None}]
        /\ late' \in [Agents -> SUBSET Players]
        /\ free' \subseteq Agents
    BY <1>1 DEF RolesInv, Typed
  <1>8. Typed'
    BY <1>1, <1>5, <1>6, <1>7 DEF RolesInv, Typed, dbVars
  <1>9. Phased'
    BY <1>3 DEF RolesInv, Phased
  <1> QED BY <1>5, <1>8, <1>9 DEF RolesInv

(* The coroutine that born makes. *)
LEMMA BornSteps ==
  ASSUME Typed, NEW a \in Agents, born(a)
  PROVE  \E n \in Thread :
           /\ threads' = threads \union {n}
           /\ n.pc = "hincrby" /\ n.kind = "born" /\ n.agent = a
           /\ n.player = session[a] /\ ~n.served /\ n.same /\ n.held
  <1>1. PICK p : p = session[a]
    OBVIOUS
  <1>2. p # None /\ p \in Players
    BY <1>1 DEF born, Typed
  <1>3. PICK i \in 1..MaxRunning :
          threads' = threads \union
            {[NewThread("born", a, p, i) EXCEPT !.pc = "hincrby", !.served = FALSE]}
    BY <1>1 DEF born
  <1>4. PICK m \in Thread : m = NewThread("born", a, p, i)
    BY <1>2, NewThreadType
  <1>5. m.kind = "born" /\ m.agent = a /\ m.player = p /\ m.same /\ m.held
    BY <1>4 DEF NewThread
  <1>6. PICK n : n = [m EXCEPT !.pc = "hincrby", !.served = FALSE]
    OBVIOUS
  <1>7. /\ n \in Thread /\ n.pc = "hincrby" /\ n.kind = "born" /\ n.agent = a
        /\ n.player = p /\ ~n.served /\ n.same /\ n.held
    BY <1>5, <1>6 DEF Thread
  <1> QED BY <1>1, <1>3, <1>4, <1>6, <1>7

LEMMA BornInv ==
  ASSUME RolesInv, NEW a \in Agents, born(a)
  PROVE  RolesInv'
  <1>1. PICK n \in Thread :
          /\ threads' = threads \union {n}
          /\ n.pc = "hincrby" /\ n.kind = "born" /\ n.agent = a
          /\ n.player = session[a] /\ ~n.served
    BY BornSteps DEF RolesInv
  <1>2. /\ session[a] \in Players /\ profiled[a].player = session[a]
        /\ UNCHANGED <<dbVars, agentVars, free>>
        /\ \E i \in 1..MaxRunning : Mixes(a, session[a], i)
    BY DEF born, RolesInv, Typed
  <1>3. Waits(n)'
    BY <1>1, <1>2 DEF Waits, agentVars
  <1>4. /\ threads' \subseteq Thread
        /\ Stored' /\ Profiled' /\ Modules' /\ Hashed'
        /\ \A x \in threads' : Waits(x)'
    <2>1. UNCHANGED <<dbVars, profiled, mods, hashcodes>>
      BY <1>2 DEF agentVars
    <2> DEFINE U == {n}
    <2>2. threads' = threads \union U /\ \A x \in U : x \in Thread /\ Waits(x)'
      BY <1>1, <1>3
    <2> HIDE DEF U
    <2> QED BY <2>1, <2>2, BeginsKeeps
  <1>5. mixed' \subseteq Players
    BY <1>2, MixesType DEF RolesInv
  <1>6. Typed'
    BY <1>2, <1>4, <1>5 DEF RolesInv, Typed, dbVars, agentVars
  <1>7. Phased'
    BY <1>1 DEF RolesInv, Phased
  <1> QED BY <1>4, <1>6, <1>7 DEF RolesInv

(* The coroutine that logout makes, t before its first save. *)
LEMMA LogoutSteps ==
  ASSUME Typed, NEW p \in Players, NEW a \in Agents, logout(p, a)
  PROVE  \E t \in Thread, i \in 1..MaxRunning :
           /\ t.kind = "logout" /\ t.agent = a /\ t.player = p /\ t.same /\ t.held
           /\ threads' = threads \union SaveFrom(t, mods[a], hashcodes[a], 1)
           /\ free' = IF Recycles(t, mods[a], hashcodes[a], 1) THEN free \union {a} ELSE free
           /\ Mixes(a, p, i)
  <1>1. PICK i \in 1..MaxRunning :
          /\ threads' = threads \union SaveFrom(NewThread("logout", a, p, i), mods[a], hashcodes[a], 1)
          /\ free' = IF Recycles(NewThread("logout", a, p, i), mods[a], hashcodes[a], 1)
                     THEN free \union {a} ELSE free
          /\ Mixes(a, p, i)
    BY DEF logout
  <1>2. PICK t \in Thread : t = NewThread("logout", a, p, i)
    BY NewThreadType
  <1>3. t.kind = "logout" /\ t.agent = a /\ t.player = p /\ t.same /\ t.held
    BY <1>2 DEF NewThread
  <1> QED BY <1>1, <1>2, <1>3

LEMMA LogoutInv ==
  ASSUME RolesInv, NEW p \in Players, NEW a \in Agents, logout(p, a)
  PROVE  RolesInv'
  <1>1. PICK t \in Thread, i \in 1..MaxRunning :
          /\ t.kind = "logout" /\ t.agent = a
          /\ threads' = threads \union SaveFrom(t, mods[a], hashcodes[a], 1)
          /\ free' = IF Recycles(t, mods[a], hashcodes[a], 1) THEN free \union {a} ELSE free
          /\ Mixes(a, p, i)
    BY LogoutSteps DEF RolesInv
  <1>2. /\ session' \in [Agents -> Players \union {None}]
        /\ late' \in [Agents -> SUBSET Players]
        /\ free' \subseteq Agents
    <2>1. free' \subseteq Agents
      BY <1>1 DEF RolesInv, Typed
    <2>2. \/ session' = [session EXCEPT ![a] = None] /\ late' = late
          \/ session' = session /\ late' = [late EXCEPT ![a] = late[a] \ {p}]
      BY DEF logout
    <2> QED BY <2>1, <2>2 DEF RolesInv, Typed
  <1>3. UNCHANGED <<dbVars, profiled, mods, hashcodes>>
    BY DEF logout
  <1> DEFINE U == SaveFrom(t, mods[a], hashcodes[a], 1)
  <1>4. \A x \in U : /\ x \in Thread /\ Waits(x)' /\ x.kind = "logout" /\ x.pc = "save"
    <2>1. Savable(mods[a])
      BY ModulesSavable DEF RolesInv
    <2>2. UNCHANGED dbVars
      BY <1>3
    <2> QED BY <1>1, <2>1, <2>2, SaveFromKeeps DEF RolesInv
  <1> HIDE DEF U
  <1>5. threads' = threads \union U
    BY <1>1 DEF U
  <1>6. /\ threads' \subseteq Thread
        /\ Stored' /\ Profiled' /\ Modules' /\ Hashed'
        /\ \A x \in threads' : Waits(x)'
    BY <1>3, <1>4, <1>5, BeginsKeeps
  <1>7. mixed' \subseteq Players
    BY <1>1, MixesType DEF RolesInv
  <1>8. Typed'
    BY <1>2, <1>3, <1>6, <1>7 DEF RolesInv, Typed, dbVars
  <1>9. Phased'
    BY <1>4, <1>5 DEF RolesInv, Phased
  <1> QED BY <1>6, <1>8, <1>9 DEF RolesInv

LEMMA CrashInv ==
  ASSUME RolesInv, crash
  PROVE  RolesInv'
  <1>1. Typed'
    BY RolesAssumption DEF RolesInv, crash, Typed, Everywhere, NoMod, Data, Uins, dbVars
  <1>2. Stored'
    BY DEF RolesInv, crash, Stored, Rec, dbVars
  <1>3. Profiled' /\ Modules' /\ Hashed'
    BY DEF crash, Profiled, Modules, Hashed, Everywhere, NoMod
  <1> QED BY <1>1, <1>2, <1>3 DEF crash, RolesInv, Phased

LEMMA RolesNext == RolesInv /\ [Next]_vars => RolesInv'
  <1> SUFFICES ASSUME RolesInv, [Next]_vars PROVE RolesInv'
    OBVIOUS
  <1>1. ASSUME NEW p \in Players, NEW a \in Agents, start(p, a) \/ logout(p, a)
        PROVE  RolesInv'
    BY <1>1, StartInv, LogoutInv
  <1>2. ASSUME NEW a \in Agents, born(a) PROVE RolesInv'
    BY <1>2, BornInv
  <1>3. ASSUME NEW t \in threads, Serve(t) \/ Resume(t) \/ Fail(t) PROVE RolesInv'
    BY <1>3, ServeInv, ResumeInv, FailInv
  <1>4. CASE crash
    BY <1>4, CrashInv
  <1>5. CASE UNCHANGED vars
    BY <1>5 DEF vars, dbVars, agentVars, RolesInv, Typed, Phased, Stored, Profiled, Modules,
                Hashed, Waits, Rec
  <1> QED BY <1>1, <1>2, <1>3, <1>4, <1>5 DEF Next

-----------------------------------------------------------------------------
(* The databases, the agents and the coroutines keep their types, and every call
   that is about a role has a uin, which set_uin asserts (check_born, do_born). *)
THEOREM RolesTypeCorrect == Spec => []TypeOK
  <1>1. RolesInv => TypeOK
    BY DEF RolesInv, Typed, TypeOK, Waits
  <1> QED BY <1>1, RolesInit, RolesNext, PTL DEF Spec

(* Whatever coroutines of whatever players run on an agent at once, a profile
   names only a uin that was given to its player, and a property record names
   only the player its uin was given to. *)
THEOREM RolesUinOwned == Spec => []UinOwned
  <1>1. RolesInv => UinOwned
    BY OrderFacts DEF RolesInv, Stored, Rec, UinOwned
  <1> QED BY <1>1, RolesInit, RolesNext, PTL DEF Spec

(* A hash code an agent keeps is that of the record the database has, however
   many saves of the same agent were under way when it was kept. *)
THEOREM RolesHashMeansSaved == Spec => []HashMeansSaved
  <1>1. RolesInv => HashMeansSaved
    BY DEF RolesInv, Hashed, HashMeansSaved
  <1> QED BY <1>1, RolesInit, RolesNext, PTL DEF Spec

-----------------------------------------------------------------------------
(***************************************************************************)
(* On top of RolesInv: a role that a profile names has all its records     *)
(* (RoleComplete), and an agent goes back to the pool only with modules    *)
(* the database has (RecycledSaved).  Both are about the players whose     *)
(* coroutines never shared an agent, so the invariant says what sharing    *)
(* is: the coroutine of a player not in mixed is alone on its agent, and   *)
(* still has the profile object and the module it called.  It may not be   *)
(* the only one of its player, who may have another agent as well, and     *)
(* what it finds on its agent may be another player's.  Then it says how   *)
(* far such a coroutine has come: which modules it has loaded, which       *)
(* records it has saved, and that they are all of the uin it will commit;  *)
(* and of a logout, whoever runs beside it, that the modules it has been   *)
(* through are saved unless one who is mixed has replaced them.            *)
(***************************************************************************)

(* Coroutines on one agent are mixed.  A coroutine that is alone still has the
   profile object and the module it called. *)
Solo ==
  /\ \A t, o \in threads : t.agent = o.agent /\ t # o => t.player \in mixed
  /\ \A t \in threads : t.player \notin mixed => t.same /\ t.held

(* Whose profile an agent has while a born runs. *)
Known ==
  \A t \in threads : t.kind = "born" =>
    profiled[t.agent].player \in {t.player} \union mixed

(* How far a start or a born has come that is alone on its agent. *)
Works(t) ==
  /\ t.pc = "profile" /\ t.served /\ t.val # None =>
       \A k \in Mods : saved[k][t.val] # None
  /\ t.pc \in {"proxy", "load", "save", "commit"} => profiled[t.agent].data = t.key
  /\ t.pc \in {"load", "save", "commit"} => \A k \in Mods : mods[t.agent][k].uin = t.key
  /\ t.pc \in {"proxy", "load"} =>
       /\ t.kind = "start" => \A k \in Mods : saved[k][t.key] # None
       /\ t.kind = "born" => t.made # None
  /\ t.pc = "load" =>
       /\ t.kind = "start" /\ t.served => t.val # None
       /\ t.kind = "born" => \A k \in Mods : mods[t.agent][k].born # None
       /\ \A j \in DOMAIN Order : j < t.at => mods[t.agent][Order[j]].data # None
  /\ t.pc \in {"save", "commit"} => \A k \in Mods : mods[t.agent][k].data # None
  /\ t.pc = "save" => \A j \in DOMAIN Order : j < t.at => saved[Order[j]][t.key] # None

(* A profile about to be written. *)
Commits(t) ==
  /\ t.val \in {t.player} \union mixed
  /\ t.val \notin mixed => \A k \in Mods : saved[k][t.key] # None

(* Modules that only one who is mixed has made, or t itself. *)
Theirs(t) == \A k \in Mods : owner[mods[t.agent][k].uin] \in {t.player} \union mixed

(* A module that the next start of its agent may drop. *)
Kept(k, m) ==
  \/ m = NoMod
  \/ owner[m.uin] \in mixed
  \/ m.data # None /\ saved[k][m.uin] = m.data

(* How far a logout has come. *)
Leaves(t) ==
  /\ \A j \in DOMAIN Order : j < t.at => Kept(Order[j], mods[t.agent][Order[j]])
  /\ LET m == mods[t.agent][Order[t.at]]
     IN  m = NoMod \/ owner[m.uin] \in mixed \/ (m.uin = t.key /\ m.data = t.val)

Carries(t) ==
  /\ t.kind # "logout" /\ t.player \notin mixed => Works(t)
  /\ t.pc = "commit" => Commits(t)
  /\ t.pc = "load" => Theirs(t)
  /\ t.kind = "logout" => Leaves(t)

SharingInv ==
  /\ RolesInv /\ Solo /\ Known /\ RoleComplete
  /\ \A t \in threads : Carries(t)

-----------------------------------------------------------------------------
(* A step of one coroutine *)

Like(x, o) == x.kind = o.kind /\ x.agent = o.agent /\ x.player = o.player

(* What nobody takes back: a record that was written, and whose a uin is. *)
Adds ==
  /\ \A k \in Mods, u \in Uins : saved[k][u] # None => saved'[k][u] = saved[k][u]
  /\ \A u \in Uins : owner[u] # None => owner'[u] = owner[u]

(* t goes on as N, a set of at most one; F is what becomes of the others, which
   changes nothing of those on other agents.  The databases only add, but for
   the profile that t commits; modules that t has changed are its own, or of one
   who is mixed. *)
Apart(t, N, F) ==
  /\ threads' = {F[o] : o \in threads \ {t}} \union N
  /\ \A o \in threads : /\ Like(F[o], o) /\ F[o].pc = o.pc /\ F[o].val = o.val
                        /\ F[o].key = o.key /\ F[o].at = o.at /\ F[o].served = o.served
                        /\ o.agent # t.agent => F[o] = o
  /\ \A x \in N : Like(x, t)
  /\ \A x, y \in N : x = y
  /\ mixed' = mixed
  /\ \A b \in Agents \ {t.agent} : profiled'[b] = profiled[b] /\ mods'[b] = mods[b]
  /\ \/ mods'[t.agent] = mods[t.agent]
     \/ \A k \in Mods : owner'[mods'[t.agent][k].uin] \in {t.player} \union mixed
  /\ Adds
  /\ \A p \in Players : profile'[p] # profile[p] =>
       t.pc = "commit" /\ p = t.val /\ profile'[p] = t.key

LEMMA ThreadFacts ==
  ASSUME RolesInv, NEW x \in threads
  PROVE  /\ x \in Thread /\ x.agent \in Agents /\ x.player \in Players /\ x.player # None
         /\ x.at \in DOMAIN Order /\ Order[x.at] \in Mods
         /\ Waits(x)
  BY OrderFacts, RolesAssumption DEF RolesInv, Typed, Thread

LEMMA MixedOwner ==
  ASSUME RolesInv, Adds, NEW u \in Uins, owner[u] \in mixed
  PROVE  owner'[u] = owner[u]
  <1>1. mixed \subseteq Players /\ None \notin Players
    BY RolesAssumption DEF RolesInv, Typed
  <1> QED BY <1>1 DEF Adds

LEMMA ModFacts ==
  ASSUME RolesInv, NEW a \in Agents, NEW k \in Mods
  PROVE  /\ mods[a][k] = NoMod \/ mods[a][k].uin \in Uins
         /\ mods[a][k].uin \in Uins \union {None}
  BY DEF RolesInv, Typed, Modules

(* A profile that changes is that of a complete role. *)
LEMMA ProfileKept ==
  ASSUME SharingInv, NEW t \in threads, NEW N, NEW F, Apart(t, N, F),
         NEW p \in Players, p \notin mixed, profile'[p] # profile[p]
  PROVE  profile'[p] = t.key /\ \A k \in Mods : saved[k][t.key] # None
  <1>1. t.pc = "commit" /\ t.val = p /\ profile'[p] = t.key
    BY DEF Apart
  <1>2. Commits(t)
    BY <1>1 DEF SharingInv, Carries
  <1> QED BY <1>1, <1>2 DEF Commits

(* What the others keep. *)
LEMMA OtherWorks ==
  ASSUME SharingInv, NEW t \in threads, NEW N, NEW F, Apart(t, N, F),
         NEW x \in threads, x # t, x.kind # "logout", x.player \notin mixed
  PROVE  F[x] = x /\ Works(x)'
  <1>1. /\ x \in Thread /\ x.agent \in Agents /\ Waits(x) /\ Works(x)
    BY ThreadFacts DEF SharingInv, Carries
  <1>2. x.agent # t.agent
    BY DEF SharingInv, Solo
  <1>3. /\ profiled'[x.agent] = profiled[x.agent]
        /\ mods'[x.agent] = mods[x.agent] /\ F[x] = x
    BY <1>1, <1>2 DEF Apart
  <1>4. \A k \in Mods, u \in Uins : saved[k][u] # None => saved'[k][u] # None
    BY DEF Apart, Adds
  <1>5. \A j \in DOMAIN Order : Order[j] \in Mods
    BY OrderFacts
  <1>6. CASE x.pc = "profile"
    <2>1. x.served /\ x.val # None => x.val \in Uins
      BY <1>1, <1>6 DEF Waits
    <2> QED BY <1>1, <1>3, <1>4, <1>6, <2>1 DEF Works
  <1>7. CASE x.pc \in {"proxy", "load", "save", "commit"}
    <2>1. x.key \in Uins
      BY <1>1, <1>7 DEF Waits
    <2>2. CASE x.pc \in {"proxy", "load"}
      BY <1>1, <1>3, <1>4, <2>1, <2>2 DEF Works
    <2>3. CASE x.pc \in {"save", "commit"}
      BY <1>1, <1>3, <1>4, <1>5, <2>1, <2>3 DEF Works
    <2> QED BY <1>7, <2>2, <2>3
  <1>8. CASE x.pc \in {"init", "hincrby"}
    BY <1>3, <1>8 DEF Works
  <1> QED BY <1>1, <1>6, <1>7, <1>8 DEF Thread

LEMMA OtherCommits ==
  ASSUME SharingInv, NEW t \in threads, NEW N, NEW F, Apart(t, N, F),
         NEW x \in threads, x.pc = "commit"
  PROVE  Commits(F[x])'
  <1>1. x.key \in Uins /\ Commits(x)
    BY ThreadFacts DEF SharingInv, Carries, Waits
  <1>2. PICK y : y = F[x]
    OBVIOUS
  <1>3. y.player = x.player /\ y.val = x.val /\ y.key = x.key
    BY <1>2 DEF Apart, Like
  <1>4. mixed' = mixed
    BY DEF Apart
  <1>5. x.val \notin mixed => \A k \in Mods : saved'[k][x.key] # None
    BY <1>1 DEF Commits, Apart, Adds
  <1>6. Commits(y)'
    BY <1>1, <1>3, <1>4, <1>5 DEF Commits
  <1> QED BY <1>2, <1>6

(* A module on the agent of another coroutine is as it was, or is of one who is
   mixed; what was kept of it is kept. *)
LEMMA OtherModules ==
  ASSUME SharingInv, RolesInv', NEW t \in threads, NEW N, NEW F, Apart(t, N, F),
         NEW x \in threads, x # t, NEW k \in Mods
  PROVE  /\ \/ mods'[x.agent][k] = mods[x.agent][k]
            \/ owner'[mods'[x.agent][k].uin] \in mixed
         /\ Kept(k, mods[x.agent][k]) => Kept(k, mods[x.agent][k])'
  <1>1. x.agent \in Agents /\ t.agent \in Agents /\ RolesInv /\ mixed' = mixed /\ Adds
    BY ThreadFacts DEF SharingInv, Apart
  <1>2. \/ mods'[x.agent][k] = mods[x.agent][k]
        \/ owner'[mods'[x.agent][k].uin] \in mixed
    <2>1. CASE x.agent = t.agent
      <3>1. t.player \in mixed
        BY <2>1 DEF SharingInv, Solo
      <3> QED BY <2>1, <3>1 DEF Apart
    <2>2. CASE x.agent # t.agent
      BY <1>1, <2>2 DEF Apart
    <2> QED BY <2>1, <2>2
  <1>3. ASSUME mods'[x.agent][k] = mods[x.agent][k], Kept(k, mods[x.agent][k])
        PROVE  Kept(k, mods[x.agent][k])'
    <2>1. PICK m : m = mods[x.agent][k]
      OBVIOUS
    <2>2. m = NoMod \/ m.uin \in Uins
      BY <1>1, <2>1, ModFacts
    <2>3. m.uin \in Uins /\ owner[m.uin] \in mixed => owner'[m.uin] \in mixed
      BY <1>1, MixedOwner
    <2>4. m.uin \in Uins /\ m.data # None /\ saved[k][m.uin] = m.data => saved'[k][m.uin] = m.data
      BY <1>1 DEF Adds
    <2> QED BY <1>1, <1>3, <2>1, <2>2, <2>3, <2>4 DEF Kept
  <1>4. ASSUME owner'[mods'[x.agent][k].uin] \in mixed
        PROVE  Kept(k, mods[x.agent][k])'
    BY <1>1, <1>4 DEF Kept
  <1> QED BY <1>2, <1>3, <1>4

LEMMA OtherTheirs ==
  ASSUME SharingInv, RolesInv', NEW t \in threads, NEW N, NEW F, Apart(t, N, F),
         NEW x \in threads, x # t, x.pc = "load"
  PROVE  Theirs(F[x])'
  <1>1. PICK y : y = F[x]
    OBVIOUS
  <1>2. /\ y.agent = x.agent /\ y.player = x.player /\ mixed' = mixed /\ Adds
        /\ x.agent \in Agents /\ x.player # None /\ Theirs(x) /\ RolesInv /\ Waits(x)
    BY <1>1, ThreadFacts DEF Apart, Like, SharingInv, Carries
  <1>3. ASSUME NEW k \in Mods
        PROVE  owner'[mods'[x.agent][k].uin] \in {x.player} \union mixed
    <2>1. CASE mods'[x.agent][k] = mods[x.agent][k]
      <3>1. PICK u : u = mods[x.agent][k].uin
        OBVIOUS
      <3>2. u \in Uins /\ owner[u] \in {x.player} \union mixed
        <4>1. u # None
          BY <1>2, <3>1 DEF Waits
        <4> QED BY <1>2, <3>1, <4>1, ModFacts DEF Theirs
      <3>3. owner'[u] = owner[u]
        BY <1>2, <3>2, MixedOwner DEF Adds
      <3> QED BY <2>1, <3>1, <3>2, <3>3
    <2>2. CASE owner'[mods'[x.agent][k].uin] \in mixed
      BY <2>2
    <2> QED BY <2>1, <2>2, OtherModules
  <1>4. Theirs(y)'
    BY <1>2, <1>3 DEF Theirs
  <1> QED BY <1>1, <1>4

LEMMA OtherLeaves ==
  ASSUME SharingInv, RolesInv', NEW t \in threads, NEW N, NEW F, Apart(t, N, F),
         NEW x \in threads, x # t, x.kind = "logout"
  PROVE  Leaves(F[x])'
  <1>1. PICK y : y = F[x]
    OBVIOUS
  <1>2. /\ y.agent = x.agent /\ y.at = x.at /\ y.key = x.key /\ y.val = x.val
        /\ mixed' = mixed /\ Adds
        /\ x.agent \in Agents /\ Leaves(x) /\ RolesInv /\ Order[x.at] \in Mods
    BY <1>1, ThreadFacts DEF Apart, Like, SharingInv, Carries
  <1>3. ASSUME NEW j \in DOMAIN Order, j < x.at
        PROVE  Kept(Order[j], mods[x.agent][Order[j]])'
    <2>1. Order[j] \in Mods /\ Kept(Order[j], mods[x.agent][Order[j]])
      BY <1>2, <1>3, OrderFacts DEF Leaves
    <2> QED BY <2>1, OtherModules
  <1>4. LET m == mods'[x.agent][Order[x.at]]
        IN  m = NoMod \/ owner'[m.uin] \in mixed \/ (m.uin = x.key /\ m.data = x.val)
    <2>1. CASE mods'[x.agent][Order[x.at]] = mods[x.agent][Order[x.at]]
      <3>1. PICK m : m = mods[x.agent][Order[x.at]]
        OBVIOUS
      <3>2. m = NoMod \/ m.uin \in Uins
        BY <1>2, <3>1, ModFacts
      <3>3. m = NoMod \/ owner[m.uin] \in mixed \/ (m.uin = x.key /\ m.data = x.val)
        BY <1>2, <3>1 DEF Leaves
      <3>4. m.uin \in Uins /\ owner[m.uin] \in mixed => owner'[m.uin] \in mixed
        BY <1>2, MixedOwner
      <3> QED BY <2>1, <3>1, <3>2, <3>3, <3>4
    <2>2. CASE owner'[mods'[x.agent][Order[x.at]].uin] \in mixed
      BY <2>2
    <2> QED BY <1>2, <2>1, <2>2, OtherModules
  <1>5. Leaves(y)'
    <2>1. \A j \in DOMAIN Order : j < y.at => Kept(Order[j], mods[y.agent][Order[j]])'
      BY <1>2, <1>3
    <2>2. LET m == mods'[y.agent][Order[y.at]]
          IN  m = NoMod \/ owner'[m.uin] \in mixed' \/ (m.uin = y.key /\ m.data = y.val)
      BY <1>2, <1>4
    <2> QED BY <2>1, <2>2 DEF Leaves, Kept
  <1> QED BY <1>1, <1>5

(* A coroutine after the step is one of N, or what another became of. *)
LEMMA Parents ==
  ASSUME SharingInv, NEW t \in threads, NEW N, NEW F, Apart(t, N, F)
  PROVE  /\ \A x \in threads' : x \in N \/ \E o \in threads \ {t} : x = F[o]
         /\ \A x, y \in threads' : x.agent = y.agent /\ x # y => x.player \in mixed'
  <1>1. \A x \in threads' : x \in N \/ \E o \in threads \ {t} : x = F[o]
    BY DEF Apart
  <1>2. (\A o \in threads : Like(F[o], o)) /\ mixed' = mixed
    BY DEF Apart
  <1>3. (\A x \in N : Like(x, t)) /\ (\A x, y \in N : x = y)
    BY DEF Apart
  <1>4. ASSUME NEW x \in threads', NEW y \in threads'
        PROVE  \E o, q \in threads : Like(x, o) /\ Like(y, q) /\ (x # y => o # q)
    <2>1. CASE x \in N /\ y \in N
      BY <1>3, <2>1
    <2>2. CASE x \in N /\ \E q \in threads \ {t} : y = F[q]
      BY <1>2, <1>3, <2>2
    <2>3. CASE (\E o \in threads \ {t} : x = F[o]) /\ y \in N
      BY <1>2, <1>3, <2>3
    <2>4. CASE (\E o \in threads \ {t} : x = F[o]) /\ (\E q \in threads \ {t} : y = F[q])
      BY <1>2, <2>4
    <2> QED BY <1>1, <2>1, <2>2, <2>3, <2>4
  <1>5. \A x, y \in threads' : x.agent = y.agent /\ x # y => x.player \in mixed'
    BY <1>2, <1>4 DEF Like, SharingInv, Solo
  <1> QED BY <1>1, <1>5

LEMMA ApartComplete ==
  ASSUME SharingInv, NEW t \in threads, NEW N, NEW F, Apart(t, N, F), Typed'
  PROVE  RoleComplete'
  <1> SUFFICES ASSUME NEW p \in Players \ mixed', profile'[p] # None, NEW k \in Mods
               PROVE  saved'[k][profile'[p]] # None
    BY DEF RoleComplete
  <1>1. p \in Players \ mixed /\ profile'[p] \in Uins
    BY DEF Apart, Typed
  <1>2. saved[k][profile'[p]] # None
    <2>1. CASE profile'[p] = profile[p]
      BY <1>1, <2>1 DEF SharingInv, RoleComplete
    <2>2. CASE profile'[p] # profile[p]
      BY <1>1, <2>2, ProfileKept
    <2> QED BY <2>1, <2>2
  <1> QED BY <1>1, <1>2 DEF Apart, Adds

(* So a step of t has only to show what it makes of t and of its agent. *)
LEMMA ApartKeeps ==
  ASSUME SharingInv, RolesInv', NEW t \in threads, NEW N, NEW F, Apart(t, N, F), Known',
         \A x \in N : t.player \notin mixed => x.same /\ x.held,
         \A x \in N : Carries(x)'
  PROVE  SharingInv'
  <1>1. /\ \A x \in threads' : x \in N \/ \E o \in threads \ {t} : x = F[o]
        /\ \A x, y \in threads' : x.agent = y.agent /\ x # y => x.player \in mixed'
    BY Parents
  <1>2. mixed' = mixed
    BY DEF Apart
  <1>3. \A x \in N : Like(x, t)
    BY DEF Apart
  <1>4. \A o \in threads : Like(F[o], o) /\ F[o].pc = o.pc
                           /\ (o.agent # t.agent => F[o] = o)
    BY DEF Apart
  <1>5. \A o \in threads \ {t} : o.player \notin mixed => F[o] = o /\ o.same /\ o.held
    BY <1>4 DEF SharingInv, Solo
  <1>6. Solo'
    <2>1. \A x \in threads' : x.player \notin mixed => x.same /\ x.held
      BY <1>1, <1>3, <1>4, <1>5 DEF Like
    <2> QED BY <1>1, <1>2, <2>1 DEF Solo
  <1>7. ASSUME NEW o \in threads \ {t} PROVE Carries(F[o])'
    <2>1. F[o].pc = "commit" => Commits(F[o])'
      BY <1>4, OtherCommits
    <2>2. F[o].pc = "load" => Theirs(F[o])'
      BY <1>4, OtherTheirs
    <2>3. F[o].kind = "logout" => Leaves(F[o])'
      BY <1>4, OtherLeaves DEF Like
    <2>4. F[o].kind # "logout" /\ F[o].player \notin mixed' => Works(F[o])'
      <3> SUFFICES ASSUME F[o].kind # "logout", F[o].player \notin mixed'
                   PROVE  Works(F[o])'
        OBVIOUS
      <3>1. o.kind # "logout" /\ o.player \notin mixed
        BY <1>2, <1>4 DEF Like
      <3>2. F[o] = o /\ Works(o)'
        BY <3>1, OtherWorks
      <3> QED BY <3>2
    <2>5. PICK y : y = F[o]
      OBVIOUS
    <2>6. Carries(y)'
      BY <2>1, <2>2, <2>3, <2>4, <2>5 DEF Carries
    <2> QED BY <2>5, <2>6
  <1>8. ASSUME NEW x \in threads' PROVE Carries(x)'
    <2>1. CASE x \in N
      BY <2>1
    <2>2. CASE \E o \in threads \ {t} : x = F[o]
      BY <1>7, <2>2
    <2> QED BY <1>1, <2>1, <2>2
  <1>9. RoleComplete'
    BY ApartComplete DEF RolesInv
  <1> QED BY <1>6, <1>8, <1>9 DEF SharingInv

(* Known stays when the agents' profile objects stay. *)
LEMMA KnownKept ==
  ASSUME SharingInv, NEW t \in threads, NEW N, NEW F, Apart(t, N, F),
         \A a \in Agents : profiled'[a].player = profiled[a].player
  PROVE  Known'
  <1>1. /\ mixed' = mixed
        /\ \A x \in N : Like(x, t)
        /\ \A o \in threads : Like(F[o], o)
        /\ threads' = {F[o] : o \in threads \ {t}} \union N
    BY DEF Apart
  <1>2. \A x \in threads' : \E o \in threads : Like(x, o)
    BY <1>1
  <1>3. \A o \in threads : o.agent \in Agents
    BY ThreadFacts DEF SharingInv
  <1> QED BY <1>1, <1>2, <1>3 DEF SharingInv, Known, Like

(* A step that changes nothing of the other coroutines. *)
LEMMA GoesOnApart ==
  ASSUME SharingInv, NEW t \in threads, NEW N, GoesOn(t, N),
         \A x \in N : Like(x, t), \A x, y \in N : x = y, mixed' = mixed,
         \A b \in Agents \ {t.agent} : profiled'[b] = profiled[b] /\ mods'[b] = mods[b],
         \/ mods'[t.agent] = mods[t.agent]
         \/ \A k \in Mods : owner'[mods'[t.agent][k].uin] \in {t.player} \union mixed,
         Adds,
         \A p \in Players : profile'[p] # profile[p] =>
           t.pc = "commit" /\ p = t.val /\ profile'[p] = t.key
  PROVE  \E F : Apart(t, N, F)
  <1>1. PICK F : F = [o \in threads |-> o]
    OBVIOUS
  <1>2. {F[o] : o \in threads \ {t}} = threads \ {t}
    BY <1>1
  <1>3. \A o \in threads : F[o] = o
    BY <1>1
  <1>4. Apart(t, N, F)
    BY <1>2, <1>3 DEF Apart, GoesOn, Like
  <1> QED BY <1>4

(* A step that changes no database. *)
LEMMA SameDb ==
  ASSUME UNCHANGED dbVars
  PROVE  /\ Adds
         /\ \A p \in Players : profile'[p] = profile[p]
         /\ saved' = saved /\ owner' = owner
  BY DEF dbVars, Adds

-----------------------------------------------------------------------------
(* The databases *)

LEMMA ServeSharing ==
  ASSUME SharingInv, NEW t \in threads, Serve(t)
  PROVE  SharingInv'
  <1> USE DEF SharingInv
  <1>1. /\ t \in Thread /\ t.agent \in Agents /\ t.player \in Players /\ Waits(t)
        /\ Order[t.at] \in Mods /\ Typed /\ Stored /\ Carries(t)
    BY ThreadFacts DEF RolesInv
  <1>2. RolesInv'
    BY ServeInv
  <1>3. UNCHANGED <<agentVars, free, mixed>>
    BY DEF Serve
  <1>4. /\ profile[t.player] \in Uins \union {None}
        /\ t.pc = "load" => t.key \in Uins /\ saved[Order[t.at]][t.key] \in Data
        /\ t.pc = "save" => t.key \in Uins /\ t.val # None /\ t.val = Rec(Order[t.at], t.key)
        /\ t.pc = "commit" => t.key \in Uins /\ t.val \in Players
    BY <1>1 DEF Typed, Waits
  <1>5. PICK v \in Data \union Uins :
          /\ Answered(t, v)
          /\ t.pc = "profile" => v = profile[t.player]
          /\ t.pc = "load" => v = saved[Order[t.at]][t.key]
          /\ t.pc \in {"save", "commit"} => v = t.val
    <2>2. CASE ServeProfile(t)
      BY <1>4, <2>2 DEF Data, ServeProfile
    <2>3. CASE ServeHincrby(t)
      <3>1. PICK n \in (max_uin + 1)..MaxUin : Answered(t, n)
        BY <2>3 DEF ServeHincrby
      <3>2. n \in Uins
        BY <1>1, <3>1, RolesAssumption DEF Typed, Uins
      <3>3. t.pc = "hincrby"
        BY <2>3 DEF ServeHincrby
      <3> QED BY <3>1, <3>2, <3>3
    <2>4. CASE ServeLoad(t)
      <3>1. t.pc = "load" /\ Answered(t, saved[Order[t.at]][t.key])
        BY <2>4 DEF ServeLoad
      <3> QED BY <1>4, <3>1
    <2>5. CASE ServeSave(t)
      <3>1. t.pc = "save" /\ Answered(t, t.val) /\ t.val \in Data \union Uins
        BY <1>1, <2>5 DEF ServeSave, Thread
      <3> QED BY <3>1
    <2>6. CASE ServeCommit(t)
      <3>1. t.pc = "commit" /\ Answered(t, t.val) /\ t.val \in Data \union Uins
        BY <1>1, <2>6 DEF ServeCommit, Thread
      <3> QED BY <3>1
    <2> QED BY <2>2, <2>3, <2>4, <2>5, <2>6 DEF Serve
  <1>6. PICK n \in Thread :
          /\ GoesOn(t, {n})
          /\ n.kind = t.kind /\ n.agent = t.agent /\ n.player = t.player /\ n.pc = t.pc
          /\ n.at = t.at /\ n.key = t.key /\ n.made = t.made
          /\ n.same = t.same /\ n.held = t.held /\ n.served /\ n.val = v
    BY <1>5, AnsweredFacts
  <1>7. Adds
    <2>1. CASE ServeSave(t)
      <3>1. saved' = [saved EXCEPT ![Order[t.at]][t.key] = t.val] /\ t.pc = "save"
            /\ owner' = owner
        BY <2>1 DEF ServeSave
      <3>2. \A k \in Mods, u \in Uins : saved[k][u] \in {None, Rec(k, u)}
        BY <1>1 DEF Stored
      <3> QED BY <1>1, <1>4, <3>1, <3>2 DEF Typed, Adds
    <2>2. CASE ServeHincrby(t)
      <3>1. PICK w \in (max_uin + 1)..MaxUin : owner' = [owner EXCEPT ![w] = t.player]
        BY <2>2 DEF ServeHincrby
      <3>2. w \in Uins /\ w > max_uin
        BY <1>1, <3>1, RolesAssumption DEF Typed, Uins
      <3>3. owner[w] = None
        BY <1>1, <3>2 DEF Stored
      <3>4. saved' = saved
        BY <2>2 DEF ServeHincrby
      <3> QED BY <1>1, <3>1, <3>2, <3>3, <3>4 DEF Typed, Adds
    <2>3. CASE ~ServeSave(t) /\ ~ServeHincrby(t)
      <3>1. saved' = saved /\ owner' = owner
        BY <2>3 DEF Serve, ServeProfile, ServeLoad, ServeCommit, dbVars
      <3> QED BY <3>1 DEF Adds
    <2> QED BY <2>1, <2>2, <2>3
  <1>8. \A p \in Players : profile'[p] # profile[p] =>
             t.pc = "commit" /\ p = t.val /\ profile'[p] = t.key
    <2>1. CASE ServeCommit(t)
      <3>1. profile' = [profile EXCEPT ![t.val] = t.key] /\ t.pc = "commit"
        BY <2>1 DEF ServeCommit
      <3> QED BY <1>1, <1>4, <3>1 DEF Typed
    <2>2. CASE ~ServeCommit(t)
      <3>1. profile' = profile
        BY <2>2 DEF Serve, ServeProfile, ServeHincrby, ServeLoad, ServeSave, dbVars
      <3> QED BY <3>1
    <2> QED BY <2>1, <2>2
  <1>9. PICK N : N = {n}
    OBVIOUS
  <1>10. PICK F : Apart(t, N, F)
    <2>1. GoesOn(t, N) /\ (\A x \in N : Like(x, t)) /\ (\A x, y \in N : x = y)
      BY <1>6, <1>9 DEF Like
    <2>2. mixed' = mixed /\ profiled' = profiled /\ mods' = mods
      BY <1>3 DEF agentVars
    <2> QED BY <1>7, <1>8, <2>1, <2>2, GoesOnApart
  <1>11. Known'
    <2>1. profiled' = profiled
      BY <1>3 DEF agentVars
    <2> QED BY <1>6, <1>9, <1>10, <2>1, KnownKept
  <1>12. UNCHANGED <<profiled, mods, mixed>>
    BY <1>3 DEF agentVars
  <1>13. ASSUME t.player \notin mixed, t.kind # "logout" PROVE Works(n)'
    <2>1. Works(t)
      BY <1>1, <1>13 DEF Carries
    <2>2. \A k \in Mods, u \in Uins : saved[k][u] # None => saved'[k][u] # None
      BY <1>7 DEF Adds
    <2>3. CASE t.pc = "profile"
      <3>1. v # None => v \in Uins /\ \A k \in Mods : saved[k][v] # None
        BY <1>1, <1>4, <1>5, <1>13, <2>3 DEF RoleComplete
      <3> QED BY <1>6, <2>2, <2>3, <3>1 DEF Works
    <2>4. CASE t.pc = "load"
      <3>1. t.kind = "start" => \A k \in Mods : saved[k][t.key] # None
        BY <2>1, <2>4 DEF Works
      <3>2. t.kind = "start" => v # None
        BY <1>1, <1>5, <2>4, <3>1
      <3>3. t.kind = "start" => \A k \in Mods : saved'[k][t.key] # None
        BY <1>4, <2>2, <2>4, <3>1
      <3> QED BY <1>6, <1>12, <2>1, <2>4, <3>2, <3>3 DEF Works
    <2>5. CASE t.pc = "save"
      <3>1. ASSUME NEW j \in DOMAIN Order, j < t.at PROVE saved'[Order[j]][t.key] # None
        <4>1. saved[Order[j]][t.key] # None /\ Order[j] \in Mods /\ t.key \in Uins
          BY <1>4, <2>1, <2>5, <3>1, OrderFacts DEF Works
        <4> QED BY <2>2, <4>1
      <3> QED BY <1>6, <1>12, <2>1, <2>5, <3>1 DEF Works
    <2>6. CASE t.pc = "commit"
      BY <1>6, <1>12, <2>1, <2>6 DEF Works
    <2>7. CASE t.pc \in {"init", "hincrby", "proxy"}
      <3>1. t.pc # "proxy"
        BY DEF Serve, ServeProfile, ServeHincrby, ServeLoad, ServeSave, ServeCommit
      <3> QED BY <1>6, <2>7, <3>1 DEF Works
    <2> QED BY <1>1, <2>3, <2>4, <2>5, <2>6, <2>7 DEF Thread
  <1>14. n.pc = "commit" => Commits(n)'
    <2> SUFFICES ASSUME n.pc = "commit" PROVE Commits(n)'
      OBVIOUS
    <2>1. Commits(t) /\ v = t.val /\ mixed' = mixed /\ t.key \in Uins
      BY <1>1, <1>3, <1>4, <1>5, <1>6 DEF Carries
    <2>2. t.val \notin mixed => \A k \in Mods : saved'[k][t.key] # None
      BY <1>7, <2>1 DEF Commits, Adds
    <2> QED BY <1>6, <2>1, <2>2 DEF Commits
  <1>15. n.pc = "load" => Theirs(n)'
    <2> SUFFICES ASSUME n.pc = "load" PROVE Theirs(n)'
      OBVIOUS
    <2>1. Theirs(t) /\ owner' = owner
      BY <1>1, <1>6 DEF Carries, Serve, ServeProfile, ServeHincrby, ServeLoad, ServeSave,
                        ServeCommit, dbVars
    <2> QED BY <1>6, <1>12, <2>1 DEF Theirs
  <1>16. n.kind = "logout" => Leaves(n)'
    <2> SUFFICES ASSUME n.kind = "logout" PROVE Leaves(n)'
      OBVIOUS
    <2>1. Leaves(t) /\ t.pc = "save" /\ v = t.val
      BY <1>1, <1>5, <1>6 DEF Carries, RolesInv, Phased
    <2>2. owner' = owner
      BY <2>1 DEF Serve, ServeProfile, ServeHincrby, ServeLoad, ServeSave, ServeCommit, dbVars
    <2>3. ASSUME NEW j \in DOMAIN Order, j < t.at
          PROVE  Kept(Order[j], mods[t.agent][Order[j]])'
      <3>1. PICK m : m = mods[t.agent][Order[j]]
        OBVIOUS
      <3>2. Order[j] \in Mods /\ Kept(Order[j], m)
        BY <2>1, <2>3, <3>1, OrderFacts DEF Leaves
      <3>3. m = NoMod \/ m.uin \in Uins
        BY <1>1, <3>1, <3>2, ModFacts
      <3>4. m.uin \in Uins /\ m.data # None /\ saved[Order[j]][m.uin] = m.data =>
              saved'[Order[j]][m.uin] = m.data
        BY <1>7, <3>2 DEF Adds
      <3> QED BY <1>12, <2>2, <3>1, <3>2, <3>3, <3>4 DEF Kept
    <2>4. \A j \in DOMAIN Order : j < n.at => Kept(Order[j], mods[n.agent][Order[j]])'
      BY <1>6, <2>3
    <2>5. LET m == mods'[n.agent][Order[n.at]]
          IN  m = NoMod \/ owner'[m.uin] \in mixed' \/ (m.uin = n.key /\ m.data = n.val)
      BY <1>6, <1>12, <2>1, <2>2 DEF Leaves
    <2> QED BY <2>4, <2>5 DEF Leaves, Kept
  <1>17. /\ \A x \in N : t.player \notin mixed => x.same /\ x.held
         /\ \A x \in N : Carries(x)'
    <2>1. Carries(n)'
      BY <1>6, <1>12, <1>13, <1>14, <1>15, <1>16 DEF Carries
    <2>2. t.player \notin mixed => n.same /\ n.held
      BY <1>6 DEF Solo
    <2> QED BY <1>9, <2>1, <2>2
  <1> HIDE DEF SharingInv
  <1> QED BY <1>2, <1>10, <1>11, <1>17, ApartKeeps

-----------------------------------------------------------------------------
(* The stretches of code from an answer to the next call *)

(* A step that replaces what the others on t's agent hold: G is what becomes of
   them, and n of t. *)
Replaces(t, G, n) ==
  /\ threads' = ((threads \ On(t.agent)) \union {G[o] : o \in On(t.agent) \ {t}}) \union {n}
  /\ \A o \in On(t.agent) : /\ Like(G[o], o) /\ G[o].pc = o.pc /\ G[o].val = o.val
                            /\ G[o].key = o.key /\ G[o].at = o.at /\ G[o].served = o.served
  /\ Like(n, t)
  /\ \A b \in Agents \ {t.agent} : profiled'[b] = profiled[b] /\ mods'[b] = mods[b]
  /\ \/ mods'[t.agent] = mods[t.agent]
     \/ \A k \in Mods : owner'[mods'[t.agent][k].uin] \in {t.player} \union mixed

LEMMA OthersApart ==
  ASSUME SharingInv, NEW t \in threads, NEW n, NEW G, Replaces(t, G, n),
         UNCHANGED <<dbVars, mixed>>
  PROVE  \E F : Apart(t, {n}, F)
  <1> USE DEF Replaces
  <1>1. PICK F : F = [o \in threads |-> IF o.agent = t.agent THEN G[o] ELSE o]
    OBVIOUS
  <1>2. \A o \in threads : F[o] = IF o.agent = t.agent THEN G[o] ELSE o
    BY <1>1
  <1>3. threads' = {F[o] : o \in threads \ {t}} \union {n}
    <2>1. {F[o] : o \in threads \ {t}} =
            (threads \ On(t.agent)) \union {G[o] : o \in On(t.agent) \ {t}}
      BY <1>2 DEF On
    <2> QED BY <2>1
  <1>4. \A o \in threads : /\ Like(F[o], o) /\ F[o].pc = o.pc /\ F[o].val = o.val
                           /\ F[o].key = o.key /\ F[o].at = o.at /\ F[o].served = o.served
                           /\ o.agent # t.agent => F[o] = o
    BY <1>2 DEF On, Like
  <1>5. Adds /\ \A p \in Players : profile'[p] = profile[p]
    BY SameDb
  <1>6. Apart(t, {n}, F)
    BY <1>3, <1>4, <1>5 DEF Apart
  <1> QED BY <1>6

(* t goes on as n: what has to be shown then. *)
LEMMA OneGoesOn ==
  ASSUME SharingInv, RolesInv', NEW t \in threads, NEW n, NEW F, Apart(t, {n}, F), Known',
         t.player \notin mixed => n.same /\ n.held,
         n.kind # "logout" /\ n.pc # "commit", n.player = t.player,
         t.player \notin mixed => Works(n)',
         n.pc = "load" => Theirs(n)'
  PROVE  SharingInv'
  <1>1. PICK N : N = {n}
    OBVIOUS
  <1>2. mixed' = mixed
    BY DEF Apart
  <1>3. Carries(n)'
    BY <1>2 DEF Carries
  <1>4. /\ Apart(t, N, F)
        /\ \A x \in N : t.player \notin mixed => x.same /\ x.held
        /\ \A x \in N : Carries(x)'
    BY <1>1, <1>3
  <1> QED BY <1>4, ApartKeeps

(* t ends, and its agent keeps its modules. *)
LEMMA OneEnds ==
  ASSUME SharingInv, RolesInv', NEW t \in threads, GoesOn(t, {}),
         UNCHANGED <<dbVars, mods, mixed>>,
         \A c \in Agents : profiled'[c].player = profiled[c].player,
         \A c \in Agents \ {t.agent} : profiled'[c] = profiled[c]
  PROVE  SharingInv'
  <1>1. PICK N : N = {}
    OBVIOUS
  <1>2. PICK F : Apart(t, N, F)
    <2>1. GoesOn(t, N) /\ (\A x \in N : Like(x, t)) /\ (\A x, y \in N : x = y)
      BY <1>1
    <2>2. Adds /\ \A p \in Players : profile'[p] = profile[p]
      BY SameDb
    <2> QED BY <2>1, <2>2, GoesOnApart
  <1>3. Known'
    BY <1>2, KnownKept
  <1>4. /\ \A x \in N : t.player \notin mixed => x.same /\ x.held
        /\ \A x \in N : Carries(x)'
    BY <1>1
  <1> QED BY <1>2, <1>3, <1>4, ApartKeeps

LEMMA RegProfileSharing ==
  ASSUME SharingInv, NEW t \in threads, t.served, reg_profile(t),
         UNCHANGED <<dbVars, session, late, mixed>>
  PROVE  SharingInv'
  <1> DEFINE a == t.agent
  <1>1. /\ t \in Thread /\ a \in Agents /\ t.player \in Players /\ t.kind = "start"
        /\ Typed /\ t.pc = "init" /\ RolesInv
    BY ThreadFacts DEF SharingInv, RolesInv, Phased, reg_profile
  <1>2. RolesInv'
    BY <1>1, RegProfileInv
  <1>3. PICK n : n = [t EXCEPT !.pc = "profile", !.same = TRUE, !.served = FALSE]
    OBVIOUS
  <1>4. PICK G : G = [o \in On(a) |-> [o EXCEPT !.same = FALSE]]
    OBVIOUS
  <1>5. /\ profiled' = [profiled EXCEPT ![a] = [player |-> t.player, data |-> None]]
        /\ threads' = ((threads \ On(a)) \union {[o EXCEPT !.same = FALSE] : o \in On(a) \ {t}})
                        \union {n}
        /\ UNCHANGED <<mods, hashcodes, free>>
    BY <1>3 DEF reg_profile, Others
  <1>6. threads' = ((threads \ On(a)) \union {G[o] : o \in On(a) \ {t}}) \union {n}
    BY <1>4, <1>5
  <1>7. /\ n.kind = t.kind /\ n.agent = a /\ n.player = t.player /\ n.pc = "profile"
        /\ ~n.served /\ n.same /\ n.held = t.held
    BY <1>1, <1>3 DEF Thread
  <1>8. ASSUME NEW o \in On(a)
        PROVE  /\ Like(G[o], o) /\ G[o].pc = o.pc /\ G[o].val = o.val
               /\ G[o].key = o.key /\ G[o].at = o.at /\ G[o].served = o.served
    <2>1. o \in Thread
      BY <1>1 DEF On, Typed
    <2> QED BY <1>4, <2>1 DEF Thread, Like
  <1>9. \A b \in Agents :
          profiled'[b] = IF b = a THEN [player |-> t.player, data |-> None] ELSE profiled[b]
    BY <1>1, <1>5 DEF Typed
  <1>10. PICK F : Apart(t, {n}, F)
    <2>1. Like(n, t)
      BY <1>7 DEF Like
    <2>2. /\ \A b \in Agents \ {a} : profiled'[b] = profiled[b] /\ mods'[b] = mods[b]
          /\ mods'[a] = mods[a]
      BY <1>5, <1>9
    <2>3. Replaces(t, G, n)
      BY <1>6, <1>8, <2>1, <2>2 DEF Replaces
    <2> QED BY <2>3, OthersApart
  <1>11. Known'
    <2>1. /\ mixed' = mixed
          /\ \A o \in threads : Like(F[o], o) /\ F[o].pc = o.pc
          /\ threads' = {F[o] : o \in threads \ {t}} \union {n}
      BY <1>10 DEF Apart
    <2>2. ASSUME NEW x \in threads', x.kind = "born"
          PROVE  profiled'[x.agent].player \in {x.player} \union mixed
      <3>1. PICK o \in threads \ {t} : x = F[o]
        BY <1>1, <1>7, <2>1, <2>2
      <3>2. o.kind = "born" /\ o.agent = x.agent /\ o.player = x.player /\ o.agent \in Agents
        BY <1>1, <2>1, <2>2, <3>1, ThreadFacts DEF Like
      <3>3. CASE o.agent = a
        <4>1. t.player \in mixed
          BY <3>1, <3>3 DEF SharingInv, Solo
        <4> QED BY <1>9, <3>2, <3>3, <4>1
      <3>4. CASE o.agent # a
        BY <1>9, <3>2, <3>4 DEF SharingInv, Known
      <3> QED BY <3>3, <3>4
    <2> QED BY <2>1, <2>2 DEF Known
  <1>12. t.player \notin mixed => n.same /\ n.held /\ Works(n)'
    BY <1>7 DEF SharingInv, Solo, Works
  <1>13. n.kind # "logout" /\ n.pc # "commit" /\ n.pc # "load"
    BY <1>1, <1>7
  <1> QED BY <1>2, <1>7, <1>10, <1>11, <1>12, <1>13, OneGoesOn

(* trigger_mods to the call in set_uin. *)
LEMMA SetUinSharing ==
  ASSUME SharingInv, NEW t \in threads, t.served, t.pc \in {"profile", "hincrby"},
         t.val \in Uins, owner[t.val] = t.player,
         NEW b \in Players \union {None}, t.kind = "born" => b # None,
         SetProfile(t, t.val), set_uin(t, t.val, b),
         UNCHANGED <<dbVars, mods, mixed>>, RolesInv'
  PROVE  SharingInv'
  <1> DEFINE a == t.agent
             u == t.val
  <1>1. /\ t \in Thread /\ a \in Agents /\ t.player \in Players /\ t.kind # "logout"
        /\ Typed /\ RolesInv /\ u # None /\ Carries(t)
    BY ThreadFacts, RolesAssumption DEF SharingInv, RolesInv, Phased, Uins
  <1>2. PICK n : n = [t EXCEPT !.pc = "proxy", !.key = u, !.made = b, !.served = TRUE,
                               !.val = None]
    OBVIOUS
  <1>3. PICK N : N = {n}
    OBVIOUS
  <1>4. GoesOn(t, N)
    BY <1>2, <1>3 DEF set_uin
  <1>5. /\ n.kind = t.kind /\ n.agent = a /\ n.player = t.player /\ n.pc = "proxy"
        /\ n.same = t.same /\ n.held = t.held /\ n.key = u /\ n.made = b
    BY <1>1, <1>2 DEF Thread
  <1>6. /\ \A c \in Agents : profiled'[c].player = profiled[c].player
        /\ \A c \in Agents : c # a \/ ~t.same => profiled'[c] = profiled[c]
        /\ t.same => profiled'[a].data = u
    BY <1>1, SetProfileKeeps
  <1>7. PICK F : Apart(t, N, F)
    <2>1. (\A x \in N : Like(x, t)) /\ (\A x, y \in N : x = y)
      BY <1>3, <1>5 DEF Like
    <2>2. Adds /\ \A p \in Players : profile'[p] = profile[p]
      BY SameDb
    <2>3. \A c \in Agents \ {a} : profiled'[c] = profiled[c] /\ mods'[c] = mods[c]
      BY <1>6
    <2> QED BY <1>4, <2>1, <2>2, <2>3, GoesOnApart
  <1>8. Known'
    BY <1>6, <1>7, KnownKept
  <1>9. ASSUME t.player \notin mixed PROVE n.same /\ n.held /\ Works(n)'
    <2>1. t.same /\ t.held /\ Works(t)
      BY <1>1, <1>9 DEF SharingInv, Solo, Carries
    <2>2. t.kind = "start" => \A k \in Mods : saved'[k][u] # None
      <3>1. t.kind = "start" => t.pc = "profile"
        BY DEF SharingInv, RolesInv, Phased
      <3> QED BY <1>1, <2>1, <3>1 DEF Works, dbVars
    <2>3. profiled'[a].data = u
      BY <1>6, <2>1
    <2> QED BY <1>5, <2>1, <2>2, <2>3 DEF Works
  <1>10. n.kind # "logout" /\ n.pc # "commit" /\ n.pc # "load" /\ Apart(t, {n}, F)
    BY <1>1, <1>3, <1>5, <1>7
  <1> QED BY <1>5, <1>8, <1>9, <1>10, OneGoesOn

(* trigger_mods from there. *)
LEMMA TriggerSharing ==
  ASSUME SharingInv, NEW t \in threads, t.served, trigger_mods(t),
         UNCHANGED <<dbVars, session, late, mixed>>
  PROVE  SharingInv'
  <1> DEFINE a == t.agent
             u == t.key
             b == t.made
  <1>1. /\ t \in Thread /\ a \in Agents /\ t.player \in Players /\ t.kind # "logout"
        /\ Typed /\ RolesInv /\ t.pc = "proxy" /\ Carries(t) /\ Waits(t)
    BY ThreadFacts DEF SharingInv, RolesInv, Phased, trigger_mods
  <1>2. PICK n : n = [t EXCEPT !.pc = "load", !.at = 1, !.held = TRUE, !.served = FALSE]
    OBVIOUS
  <1>3. PICK G : G = [o \in On(a) |-> [o EXCEPT !.held = FALSE]]
    OBVIOUS
  <1>4. /\ mods' = [mods EXCEPT ![a] = [k \in Mods |-> [uin |-> u, born |-> b, data |-> None]]]
        /\ threads' = ((threads \ On(a)) \union {[o EXCEPT !.held = FALSE] : o \in On(a) \ {t}})
                        \union {n}
        /\ profiled' = profiled
    BY <1>2 DEF trigger_mods, reg_mods, Others
  <1>5. threads' = ((threads \ On(a)) \union {G[o] : o \in On(a) \ {t}}) \union {n}
    BY <1>3, <1>4
  <1>6. /\ n.kind = t.kind /\ n.agent = a /\ n.player = t.player /\ n.pc = "load"
        /\ ~n.served /\ n.same = t.same /\ n.held /\ n.at = 1 /\ n.key = u /\ n.made = b
    BY <1>1, <1>2 DEF Thread
  <1>7. ASSUME NEW o \in On(a)
        PROVE  /\ Like(G[o], o) /\ G[o].pc = o.pc /\ G[o].val = o.val
               /\ G[o].key = o.key /\ G[o].at = o.at /\ G[o].served = o.served
    <2>1. o \in Thread
      BY <1>1 DEF On, Typed
    <2> QED BY <1>3, <2>1 DEF Thread, Like
  <1>8. /\ \A c \in Agents \ {a} : mods'[c] = mods[c]
        /\ \A k \in Mods : mods'[a][k].uin = u /\ mods'[a][k].born = b
    BY <1>1, <1>4 DEF Typed
  <1>9. u \in Uins /\ owner[u] = t.player /\ owner' = owner
    BY <1>1 DEF Waits, dbVars
  <1>10. \A k \in Mods : owner'[mods'[a][k].uin] \in {t.player} \union mixed
    BY <1>8, <1>9
  <1>11. PICK F : Apart(t, {n}, F)
    <2>1. Like(n, t)
      BY <1>6 DEF Like
    <2>2. \A c \in Agents \ {a} : profiled'[c] = profiled[c] /\ mods'[c] = mods[c]
      BY <1>4, <1>8
    <2>3. Replaces(t, G, n)
      BY <1>5, <1>7, <1>10, <2>1, <2>2 DEF Replaces
    <2> QED BY <2>3, OthersApart
  <1>12. Known'
    BY <1>4, <1>11, KnownKept
  <1>13. ASSUME t.player \notin mixed PROVE n.same /\ n.held /\ Works(n)'
    <2>1. t.same /\ Works(t)
      BY <1>1, <1>13 DEF SharingInv, Solo, Carries
    <2>2. /\ profiled[a].data = u
          /\ t.kind = "start" => \A k \in Mods : saved[k][u] # None
          /\ t.kind = "born" => b # None
      BY <1>1, <2>1 DEF Works
    <2>3. \A j \in DOMAIN Order : ~(j < 1)
      BY OrderFacts
    <2> QED BY <1>4, <1>6, <1>8, <2>1, <2>2, <2>3 DEF Works, dbVars
  <1>14. Theirs(n)'
    BY <1>6, <1>10 DEF Theirs
  <1>15. RolesInv'
    BY <1>1, TriggerInv
  <1> QED BY <1>1, <1>6, <1>11, <1>12, <1>13, <1>14, <1>15, OneGoesOn

LEMMA CheckBornSharing ==
  ASSUME SharingInv, NEW t \in threads, t.served, check_born(t),
         UNCHANGED <<dbVars, session, late, mixed>>
  PROVE  SharingInv'
  <1>1. /\ t.pc = "profile" /\ t.kind = "start" /\ t \in Thread /\ Waits(t) /\ Typed
        /\ t.agent \in Agents /\ RolesInv /\ SetProfile(t, t.val)
        /\ UNCHANGED <<mods, hashcodes, free>>
    BY ThreadFacts DEF SharingInv, RolesInv, check_born, Phased
  <1>2. RolesInv'
    BY <1>1, CheckBornInv
  <1>3. t.val = None \/ (t.val \in Uins /\ owner[t.val] = t.player)
    BY <1>1 DEF Waits
  <1>4. CASE t.val # None
    <2>1. set_uin(t, t.val, None)
      BY <1>4 DEF check_born
    <2> QED BY <1>1, <1>2, <1>3, <1>4, <2>1, SetUinSharing
  <1>5. CASE t.val = None
    <2>1. GoesOn(t, {})
      BY <1>5 DEF check_born
    <2>2. /\ \A c \in Agents : profiled'[c].player = profiled[c].player
          /\ \A c \in Agents \ {t.agent} : profiled'[c] = profiled[c]
      BY <1>1, <1>5, SetProfileKeeps
    <2> QED BY <1>1, <1>2, <2>1, <2>2, OneEnds
  <1> QED BY <1>4, <1>5

LEMMA DoBornSharing ==
  ASSUME SharingInv, NEW t \in threads, t.served, do_born(t),
         UNCHANGED <<dbVars, session, late, mixed>>
  PROVE  SharingInv'
  <1>1. /\ t.pc = "hincrby" /\ Waits(t) /\ RolesInv
        /\ SetProfile(t, t.val) /\ set_uin(t, t.val, t.player)
        /\ UNCHANGED <<mods, hashcodes, free>>
        /\ t.player \in Players \union {None} /\ t.player # None
    BY ThreadFacts DEF SharingInv, do_born
  <1>2. RolesInv'
    BY <1>1, DoBornInv
  <1>3. t.val \in Uins /\ owner[t.val] = t.player
    BY <1>1 DEF Waits
  <1> QED BY <1>1, <1>2, <1>3, SetUinSharing

(* Hash codes that on_mod_save may go by. *)
Hashes(H) ==
  /\ H \in [Mods -> (Uins \X Data) \union {None}]
  /\ \A k \in Mods : H[k] # None => H[k][2] # None /\ saved[k][H[k][1]] = H[k][2]

(* A module that is passed over has its data in the database. *)
LEMMA PassedKept ==
  ASSUME NEW M, Savable(M), NEW H, Hashes(H), NEW i \in Nat,
         NEW j \in DOMAIN Order, j >= i, j \notin Unsaved(M, H, i)
  PROVE  LET m == M[Order[j]]
         IN  m = NoMod \/ (m.data # None /\ saved[Order[j]][m.uin] = m.data)
  <1> DEFINE k == Order[j]
             m == M[k]
  <1> SUFFICES ASSUME m # NoMod
               PROVE  m.data # None /\ saved[k][m.uin] = m.data
    OBVIOUS
  <1>1. k \in Mods /\ m \in Mod
    BY OrderFacts DEF Savable
  <1>2. m.uin \in Uins
    BY <1>1 DEF Savable, Mod
  <1>3. m.data # None /\ H[k] = <<m.uin, m.data>>
    BY DEF Unsaved, hashcode
  <1>4. <<m.uin, m.data>> \in Nat \X (Players \union {Blank})
    BY <1>1, <1>2, <1>3 DEF Mod, Data, Uins
  <1>5. H[k] # None
    BY <1>3, <1>4, RolesAssumption
  <1> HIDE DEF k, m
  <1>6. saved[k][H[k][1]] = H[k][2]
    BY <1>1, <1>5 DEF Hashes
  <1>7. H[k][1] = m.uin /\ H[k][2] = m.data
    BY <1>3
  <1> QED BY <1>3, <1>6, <1>7

(* What a coroutine alone on its agent has when it comes to module i of the
   loop of saves, with modules M and hash codes H: all of its role is loaded,
   and the records of the modules before i are saved. *)
Saving(t, M, H, i) ==
  /\ Savable(M) /\ t.key \in Uins
  /\ \A k \in Mods : M[k].uin = t.key /\ M[k].data # None
  /\ Hashes(H)
  /\ \A j \in DOMAIN Order : j < i => saved[Order[j]][t.key] # None
  /\ i \in Nat
  /\ profiled[t.agent].data = t.key

LEMMA PassedOver ==
  ASSUME NEW t, NEW M, NEW H, NEW i, Saving(t, M, H, i),
         NEW j \in DOMAIN Order, j \notin Unsaved(M, H, i)
  PROVE  saved[Order[j]][t.key] # None
  <1>1. Order[j] \in Mods /\ j \in Nat /\ i \in Nat
    BY OrderFacts DEF Saving
  <1>2. CASE j < i
    BY <1>2 DEF Saving
  <1>3. CASE j >= i
    <2>1. PICK m : m = M[Order[j]]
      OBVIOUS
    <2>2. m.uin = t.key /\ m.data # None
      BY <1>1, <2>1 DEF Saving
    <2>3. m = NoMod \/ (m.data # None /\ saved[Order[j]][m.uin] = m.data)
      BY <1>1, <1>3, <2>1, PassedKept DEF Saving
    <2>4. m # NoMod
      BY <2>2 DEF NoMod
    <2> QED BY <2>2, <2>3, <2>4
  <1> QED BY <1>1, <1>2, <1>3

LEMMA SaveFromWorks ==
  ASSUME SharingInv, NEW t \in Thread, NEW M, NEW H, NEW i, Saving(t, M, H, i),
         NEW x \in SaveFrom(t, M, H, i)
  PROVE  /\ x.key = t.key
         /\ x.pc = "save" => \A j \in DOMAIN Order : j < x.at => saved[Order[j]][t.key] # None
         /\ x.pc = "commit" => \A k \in Mods : saved[k][t.key] # None
  <1>1. Typed /\ Profiled /\ Savable(M)
    BY DEF SharingInv, RolesInv, Saving
  <1>2. \/ /\ x.pc = "save" /\ Unsaved(M, H, i) # {}
           /\ x.at = First(Unsaved(M, H, i))
           /\ x.key = M[Order[x.at]].uin
        \/ /\ x.pc = "commit" /\ Unsaved(M, H, i) = {}
           /\ x.key = profiled[t.agent].data
    BY <1>1, SaveFromWaits
  <1>3. CASE x.pc = "save"
    <2>1. Unsaved(M, H, i) # {} /\ x.at = First(Unsaved(M, H, i))
      BY <1>2, <1>3
    <2>2. x.at \in Unsaved(M, H, i) /\ \A l \in Unsaved(M, H, i) : x.at <= l
      BY <2>1, FirstUnsaved
    <2>3. x.at \in DOMAIN Order /\ Order[x.at] \in Mods
      BY <2>2, OrderFacts DEF Unsaved
    <2>4. x.key = t.key
      BY <1>2, <1>3, <2>3 DEF Saving
    <2>5. ASSUME NEW j \in DOMAIN Order, j < x.at PROVE saved[Order[j]][t.key] # None
      <3>1. j \notin Unsaved(M, H, i)
        BY <2>2, <2>3, <2>5, OrderFacts
      <3> QED BY <3>1, PassedOver
    <2> QED BY <1>3, <2>4, <2>5
  <1>4. CASE x.pc = "commit"
    <2>1. Unsaved(M, H, i) = {} /\ x.key = t.key
      BY <1>2, <1>4 DEF Saving
    <2>2. \A j \in DOMAIN Order : saved[Order[j]][t.key] # None
      BY <2>1, PassedOver
    <2>3. \A k \in Mods : saved[k][t.key] # None
      BY <2>2, OrderFacts
    <2> QED BY <1>4, <2>1, <2>3
  <1> QED BY <1>2, <1>3, <1>4

(* What goes on from the loop of saves, for a step that changes no record. *)
LEMMA SavingGoesOn ==
  ASSUME SharingInv, NEW t \in threads, t.player \notin mixed, t.kind # "logout",
         NEW M, NEW H, NEW i, Saving(t, M, H, i), NEW x \in SaveFrom(t, M, H, i),
         mods'[t.agent] = M, UNCHANGED <<dbVars, profiled>>
  PROVE  Works(x)'
  <1>1. /\ t \in Thread /\ t.agent \in Agents /\ Typed /\ Profiled /\ Savable(M)
    BY ThreadFacts DEF SharingInv, RolesInv, Saving
  <1>2. /\ x.kind = t.kind /\ x.agent = t.agent /\ x.player = t.player
        /\ x.pc \in {"save", "commit"}
    BY <1>1, SaveFromWaits
  <1>3. /\ x.key = t.key
        /\ x.pc = "save" => \A j \in DOMAIN Order : j < x.at => saved[Order[j]][t.key] # None
    BY <1>1, SaveFromWorks
  <1>4. /\ profiled[t.agent].data = t.key
        /\ \A k \in Mods : M[k].uin = t.key /\ M[k].data # None
    BY DEF Saving
  <1> QED BY <1>2, <1>3, <1>4 DEF Works, dbVars

(* A profile that the loop of saves comes to commit. *)
LEMMA SavingCommits ==
  ASSUME SharingInv, NEW t \in threads,
         NEW M, Savable(M), NEW H, NEW i, t.player \notin mixed => Saving(t, M, H, i),
         NEW x \in SaveFrom(t, M, H, i), x.pc = "commit", UNCHANGED <<dbVars, mixed>>
  PROVE  Commits(x)'
  <1>1. /\ t \in Thread /\ t.agent \in Agents /\ Typed /\ Profiled
    BY ThreadFacts DEF SharingInv, RolesInv
  <1>2. /\ x.player = t.player /\ t.kind = "born"
        /\ x.val = profiled[t.agent].player
    BY <1>1, SaveFromWaits
  <1>3. x.val \in {x.player} \union mixed
    BY <1>2 DEF SharingInv, Known
  <1>4. ASSUME x.val \notin mixed PROVE \A k \in Mods : saved[k][x.key] # None
    <2>1. t.player \notin mixed
      BY <1>2, <1>3, <1>4
    <2> QED BY <1>1, <2>1, SaveFromWorks
  <1> QED BY <1>2, <1>3, <1>4 DEF Commits, dbVars

(* A logout that has been through the modules before i comes to its next save. *)
LEMMA SavingLeaves ==
  ASSUME Typed, Profiled, NEW t \in Thread, t.kind = "logout",
         NEW M, Savable(M), NEW H, Hashes(H), NEW i \in Nat,
         \A j \in DOMAIN Order : j < i => Kept(Order[j], M[Order[j]]),
         NEW x \in SaveFrom(t, M, H, i),
         mods'[t.agent] = M, UNCHANGED dbVars, mixed \subseteq mixed'
  PROVE  Leaves(x)'
  <1>1. /\ x.agent = t.agent /\ x.pc = "save" /\ Unsaved(M, H, i) # {}
        /\ x.at = First(Unsaved(M, H, i))
        /\ x.key = M[Order[x.at]].uin /\ x.val = M[Order[x.at]].data
    BY SaveFromWaits
  <1>2. x.at \in Unsaved(M, H, i) /\ \A l \in Unsaved(M, H, i) : x.at <= l
    BY <1>1, FirstUnsaved
  <1>3. x.at \in DOMAIN Order
    BY <1>2 DEF Unsaved
  <1>4. ASSUME NEW j \in DOMAIN Order, j < x.at
        PROVE  Kept(Order[j], M[Order[j]])
    <2>1. CASE j < i
      BY <2>1
    <2>2. CASE j >= i
      <3>1. j \notin Unsaved(M, H, i)
        BY <1>2, <1>3, <1>4, OrderFacts
      <3> QED BY <2>2, <3>1, PassedKept DEF Kept
    <2> QED BY <2>1, <2>2, OrderFacts
  <1>5. \A j \in DOMAIN Order : j < x.at => Kept(Order[j], M[Order[j]])
    BY <1>4
  <1>6. saved' = saved /\ owner' = owner
    BY DEF dbVars
  <1>7. \A j \in DOMAIN Order : j < x.at => Kept(Order[j], mods[x.agent][Order[j]])'
    BY <1>1, <1>5, <1>6 DEF Kept
  <1> QED BY <1>1, <1>6, <1>7 DEF Leaves, Kept

(* How a coroutine alone on its agent goes on from a load. *)
LEMMA LoadWorks ==
  ASSUME SharingInv, NEW t \in threads, t.served, t.pc = "load", t.player \notin mixed
  PROVE  /\ Loaded(t) # None /\ t.held /\ t.same /\ Works(t) /\ t.kind # "logout"
         /\ \A k \in Mods : AfterLoad(t)[k].uin = t.key
         /\ \A j \in DOMAIN Order : j <= t.at => AfterLoad(t)[Order[j]].data # None
  <1> DEFINE A == AfterLoad(t)
  <1>1. /\ RolesInv /\ t \in Thread /\ t.agent \in Agents /\ t.at \in DOMAIN Order
        /\ Order[t.at] \in Mods /\ t.kind # "logout" /\ Phased
    BY ThreadFacts DEF SharingInv, RolesInv, Phased
  <1>2. t.held /\ t.same /\ Works(t)
    BY <1>1 DEF SharingInv, Solo, Carries
  <1>3. t.kind \in {"start", "born"}
    BY <1>1 DEF Thread
  <1>4. Loaded(t) # None
    <2>1. t.kind = "start" => t.val # None
      BY <1>2 DEF Works
    <2>2. t.kind = "born" => t.made # None
      BY <1>2 DEF Works
    <2> QED BY <1>3, <2>1, <2>2, RolesAssumption DEF Loaded
  <1>5. /\ \A k \in Mods : /\ A[k].uin = mods[t.agent][k].uin
                           /\ k # Order[t.at] => A[k] = mods[t.agent][k]
        /\ A[Order[t.at]].data = Loaded(t)
    BY <1>1, <1>2, <1>4, AfterLoadType
  <1> HIDE DEF A
  <1>6. \A k \in Mods : A[k].uin = t.key
    BY <1>2, <1>5 DEF Works
  <1>7. ASSUME NEW j \in DOMAIN Order, j <= t.at PROVE A[Order[j]].data # None
    <2>1. CASE Order[j] = Order[t.at]
      BY <1>4, <1>5, <2>1
    <2>2. CASE Order[j] # Order[t.at]
      <3>1. j < t.at
        BY <1>1, <1>7, <2>2, OrderFacts
      <3>2. mods[t.agent][Order[j]].data # None
        BY <1>2, <3>1 DEF Works
      <3> QED BY <1>5, <2>2, <3>2, OrderFacts
    <2> QED BY <2>1, <2>2
  <1> QED BY <1>1, <1>2, <1>4, <1>6, <1>7 DEF A

LEMMA AgentHashes ==
  ASSUME RolesInv, NEW a \in Agents
  PROVE  Hashes(hashcodes[a])
  BY DEF RolesInv, Typed, Hashed, Hashes

(* Then, at the last module, it goes on to save. *)
LEMMA LoadSaving ==
  ASSUME SharingInv, NEW t \in threads, t.served, t.pc = "load", t.player \notin mixed,
         t.at = Len(Order)
  PROVE  Saving(t, AfterLoad(t), hashcodes[t.agent], 1)
  <1> DEFINE A == AfterLoad(t)
  <1>1. /\ RolesInv /\ t.agent \in Agents /\ Waits(t)
    BY ThreadFacts DEF SharingInv
  <1>2. Works(t) /\ \A k \in Mods : A[k].uin = t.key
    BY LoadWorks
  <1>3. \A j \in DOMAIN Order : A[Order[j]].data # None
    BY LoadWorks, OrderFacts
  <1>4. Savable(A)
    BY <1>1, AfterLoadType
  <1> HIDE DEF A
  <1>5. \A k \in Mods : A[k].data # None
    BY <1>3, OrderFacts
  <1>6. Hashes(hashcodes[t.agent])
    BY <1>1, AgentHashes
  <1>7. t.key \in Uins /\ profiled[t.agent].data = t.key
    BY <1>1, <1>2 DEF Waits, Works
  <1>8. \A j \in DOMAIN Order : ~(j < 1)
    BY OrderFacts
  <1>9. Saving(t, A, hashcodes[t.agent], 1)
    BY <1>2, <1>4, <1>5, <1>6, <1>7, <1>8 DEF Saving
  <1> QED BY <1>9 DEF A

LEMMA LoadedSharing ==
  ASSUME SharingInv, NEW t \in threads, t.served, loaded(t),
         UNCHANGED <<dbVars, session, late, mixed>>
  PROVE  SharingInv'
  <1> DEFINE a == t.agent
  <1>1. /\ t \in Thread /\ a \in Agents /\ Typed /\ Profiled /\ RolesInv
        /\ t.at \in DOMAIN Order /\ Carries(t)
    BY ThreadFacts DEF SharingInv, RolesInv
  <1>2. PICK N : N = FromLoad(t)
    OBVIOUS
  <1>3. PICK A : A = AfterLoad(t)
    OBVIOUS
  <1>4. /\ t.pc = "load" /\ mods' = [mods EXCEPT ![a] = A] /\ GoesOn(t, N)
        /\ UNCHANGED <<profiled, hashcodes, free>>
    BY <1>1, <1>2, <1>3, LoadedSteps
  <1>5. RolesInv' /\ t.kind # "logout"
    BY <1>1, <1>4, LoadedInv DEF RolesInv, Phased
  <1>6. \A c \in Agents : mods'[c] = IF c = a THEN A ELSE mods[c]
    BY <1>1, <1>4 DEF Typed
  <1>7. /\ Savable(A)
        /\ \A k \in Mods : A[k].uin = mods[a][k].uin /\ A[k].born = mods[a][k].born
    BY <1>1, <1>3, <1>4, AfterLoadType
  <1>8. \A k \in Mods : owner'[mods'[a][k].uin] \in {t.player} \union mixed
    <2>1. Theirs(t) /\ owner' = owner
      BY <1>1, <1>4 DEF Carries, dbVars
    <2>2. mods'[a] = A
      BY <1>1, <1>6
    <2> QED BY <1>7, <2>1, <2>2 DEF Theirs
  <1>9. /\ Adds /\ \A p \in Players : profile'[p] = profile[p]
        /\ \A c \in Agents \ {a} : profiled'[c] = profiled[c] /\ mods'[c] = mods[c]
    BY <1>4, <1>6, SameDb
  <1>10. CASE Loaded(t) = None \/ t.at = Len(Order)
    <2>1. ASSUME t.player \notin mixed PROVE Saving(t, A, hashcodes[a], 1)
      <3>1. Loaded(t) # None
        BY <1>4, <2>1, LoadWorks
      <3> QED BY <1>3, <1>4, <1>10, <2>1, <3>1, LoadSaving
    <2>2. N = {} \/ N = SaveFrom(t, A, hashcodes[a], 1)
      BY <1>2, <1>3, <1>10 DEF FromLoad
    <2>3. \A x \in N : x \in SaveFrom(t, A, hashcodes[a], 1)
      BY <2>2
    <2>4. \A x \in N : /\ Like(x, t) /\ x.same = t.same /\ x.held = t.held
                       /\ x.pc \in {"save", "commit"}
      BY <1>1, <1>7, <2>3, SaveFromWaits DEF Like
    <2>5. \A x, y \in N : x = y
      BY <2>3, SaveFromOne
    <2>6. PICK F : Apart(t, N, F)
      BY <1>4, <1>8, <1>9, <2>4, <2>5, GoesOnApart
    <2>7. Known'
      BY <1>4, <2>6, KnownKept
    <2>8. ASSUME NEW x \in N, t.player \notin mixed
          PROVE  x.same /\ x.held /\ Works(x)'
      <3>1. t.same /\ t.held
        BY <1>4, <2>8, LoadWorks
      <3>2. Works(x)'
        BY <1>1, <1>4, <1>5, <1>6, <2>1, <2>3, <2>8, SavingGoesOn
      <3> QED BY <2>4, <2>8, <3>1, <3>2
    <2>9. \A x \in N : x.pc = "commit" => Commits(x)'
      BY <1>7, <2>1, <2>3, SavingCommits
    <2>10. \A x \in N : Carries(x)'
      BY <1>5, <2>4, <2>8, <2>9 DEF Carries, Like
    <2> QED BY <1>5, <2>6, <2>7, <2>8, <2>10, ApartKeeps
  <1>11. CASE Loaded(t) # None /\ t.at # Len(Order)
    <2>1. PICK n : n = NextLoad(t)
      OBVIOUS
    <2>2. N = {n}
      BY <1>2, <1>11, <2>1 DEF FromLoad
    <2>3. t.at + 1 \in DOMAIN Order /\ Order[t.at + 1] \in Mods
      BY <1>1, <1>11, OrderFacts
    <2>4. PICK m : m = A[Order[t.at + 1]]
      OBVIOUS
    <2>5. /\ n.kind = t.kind /\ n.agent = a /\ n.player = t.player /\ n.pc = "load"
          /\ n.at = t.at + 1 /\ n.key = m.uin /\ n.made = m.born
          /\ n.same = t.same /\ n.held /\ ~n.served
      <3>1. n = [t EXCEPT !.at = t.at + 1, !.key = m.uin, !.made = m.born,
                          !.held = TRUE, !.served = FALSE, !.val = None]
        BY <1>3, <2>1, <2>4 DEF NextLoad
      <3> QED BY <1>1, <1>4, <3>1 DEF Thread
    <2>6. PICK F : Apart(t, N, F)
      <3>1. (\A x \in N : Like(x, t)) /\ (\A x, y \in N : x = y)
        BY <2>2, <2>5 DEF Like
      <3> QED BY <1>4, <1>8, <1>9, <3>1, GoesOnApart
    <2>7. Known'
      BY <1>4, <2>6, KnownKept
    <2>8. ASSUME t.player \notin mixed PROVE n.same /\ n.held /\ Works(n)'
      <3>1. /\ t.held /\ t.same /\ Works(t)
            /\ \A k \in Mods : A[k].uin = t.key
            /\ \A j \in DOMAIN Order : j <= t.at => A[Order[j]].data # None
        BY <1>3, <1>4, <2>8, LoadWorks
      <3>2. n.key = t.key /\ (t.kind = "born" => n.made # None)
        <4>1. t.kind = "born" => \A k \in Mods : mods[a][k].born # None
          BY <1>4, <3>1 DEF Works
        <4> QED BY <1>7, <2>3, <2>4, <2>5, <3>1, <4>1
      <3>3. \A j \in DOMAIN Order : j < n.at => A[Order[j]].data # None
        <4>1. \A j \in DOMAIN Order : j < n.at => j <= t.at
          BY <1>1, <2>5, OrderFacts
        <4> QED BY <3>1, <4>1
      <3>4. mods'[a] = A
        BY <1>1, <1>6
      <3>5. /\ profiled[a].data = t.key
            /\ t.kind = "start" => \A k \in Mods : saved[k][t.key] # None
            /\ t.kind = "born" => \A k \in Mods : mods[a][k].born # None
        BY <1>4, <3>1 DEF Works
      <3>6. Works(n)'
        BY <1>4, <1>7, <2>5, <3>1, <3>2, <3>3, <3>4, <3>5 DEF Works, dbVars
      <3> QED BY <2>5, <3>1, <3>6
    <2>9. Apart(t, {n}, F) /\ n.pc # "commit" /\ n.kind # "logout" /\ Theirs(n)'
      BY <1>5, <1>8, <2>2, <2>5, <2>6 DEF Theirs, Apart
    <2> QED BY <1>5, <2>5, <2>7, <2>8, <2>9, OneGoesOn
  <1> QED BY <1>10, <1>11

(* A logout that has saved a module has been through one more. *)
LEMMA SavedKept ==
  ASSUME SharingInv, NEW t \in threads, t.served, t.kind = "logout"
  PROVE  \A j \in DOMAIN Order : j < t.at + 1 =>
           Kept(Order[j], mods[t.agent][Order[j]])
  <1>1. /\ t.pc = "save" /\ Leaves(t) /\ Waits(t) /\ t.at \in DOMAIN Order
    BY ThreadFacts DEF SharingInv, Carries, RolesInv, Phased
  <1>2. t.val # None /\ saved[Order[t.at]][t.key] = t.val
    BY <1>1 DEF Waits
  <1>3. Kept(Order[t.at], mods[t.agent][Order[t.at]])
    BY <1>1, <1>2 DEF Leaves, Kept
  <1>4. \A j \in DOMAIN Order : j < t.at + 1 => j < t.at \/ j = t.at
    BY <1>1, OrderFacts
  <1> QED BY <1>1, <1>3, <1>4 DEF Leaves

LEMMA ModSavedSharing ==
  ASSUME SharingInv, NEW t \in threads, t.served, mod_saved(t),
         UNCHANGED <<dbVars, session, late, mixed>>
  PROVE  SharingInv'
  <1> DEFINE a == t.agent
             M == mods[a]
             i == t.at + 1
  <1>1. /\ t \in Thread /\ a \in Agents /\ Typed /\ Profiled /\ Modules /\ RolesInv
        /\ t.at \in DOMAIN Order /\ Waits(t) /\ Carries(t)
    BY ThreadFacts DEF SharingInv, RolesInv
  <1>2. PICK H : H = AfterSave(t)
    OBVIOUS
  <1>3. PICK N : N = SaveFrom(t, M, H, i)
    OBVIOUS
  <1>4. t.pc = "save" /\ GoesOn(t, N) /\ UNCHANGED <<profiled, mods>>
    BY <1>2, <1>3 DEF mod_saved, AfterSave
  <1>5. RolesInv'
    BY <1>1, ModSavedInv
  <1>6. Savable(M)
    BY <1>1, ModulesSavable
  <1>7. Hashes(H) /\ i \in Nat
    BY <1>1, <1>2, <1>4, AfterSaveType, OrderFacts DEF Hashes
  <1>8. ASSUME t.kind # "logout", t.player \notin mixed PROVE Saving(t, M, H, i)
    <2>1. Works(t)
      BY <1>1, <1>8 DEF Carries
    <2>2. /\ profiled[a].data = t.key
          /\ \A k \in Mods : M[k].uin = t.key /\ M[k].data # None
          /\ \A j \in DOMAIN Order : j < t.at => saved[Order[j]][t.key] # None
      BY <1>4, <2>1 DEF Works
    <2>3. t.key \in Uins /\ saved[Order[t.at]][t.key] # None
      BY <1>1, <1>4 DEF Waits
    <2>4. \A j \in DOMAIN Order : j < i => j < t.at \/ j = t.at
      BY <1>1, OrderFacts
    <2>5. \A j \in DOMAIN Order : j < i => saved[Order[j]][t.key] # None
      BY <2>2, <2>3, <2>4
    <2> HIDE DEF i, M
    <2> QED BY <1>6, <1>7, <2>2, <2>3, <2>5 DEF Saving
  <1>9. t.kind = "logout" => \A j \in DOMAIN Order : j < i => Kept(Order[j], M[Order[j]])
    BY SavedKept
  <1> HIDE DEF i, M
  <1>10. \A x \in N : /\ Like(x, t) /\ x.same = t.same /\ x.held = t.held
                      /\ x.pc \in {"save", "commit"}
                      /\ (x.pc = "commit" => t.kind = "born")
    BY <1>1, <1>3, <1>6, SaveFromWaits DEF Like
  <1>11. \A x, y \in N : x = y
    BY <1>3, SaveFromOne
  <1>12. PICK F : Apart(t, N, F)
    <2>1. Adds /\ \A p \in Players : profile'[p] = profile[p]
      BY SameDb
    <2> QED BY <1>4, <1>10, <1>11, <2>1, GoesOnApart
  <1>13. Known'
    BY <1>4, <1>12, KnownKept
  <1>14. mods'[a] = M
    BY <1>4 DEF M
  <1>15. ASSUME NEW x \in N PROVE Carries(x)'
    <2>1. x \in SaveFrom(t, M, H, i)
      BY <1>3
    <2>2. ASSUME t.kind # "logout", t.player \notin mixed PROVE Works(x)'
      BY <1>4, <1>8, <1>14, <2>1, <2>2, SavingGoesOn
    <2>3. ASSUME x.pc = "commit" PROVE Commits(x)'
      <3>1. t.kind # "logout"
        BY <1>10, <2>3
      <3> QED BY <1>4, <1>6, <1>8, <2>1, <2>3, <3>1, SavingCommits
    <2>4. ASSUME t.kind = "logout" PROVE Leaves(x)'
      BY <1>1, <1>6, <1>7, <1>9, <1>14, <2>1, <2>4, SavingLeaves
    <2> QED BY <1>10, <2>2, <2>3, <2>4 DEF Carries, Like
  <1>16. \A x \in N : t.player \notin mixed => x.same /\ x.held
    BY <1>10 DEF SharingInv, Solo
  <1> QED BY <1>5, <1>12, <1>13, <1>15, <1>16, ApartKeeps

LEMMA CommittedSharing ==
  ASSUME SharingInv, NEW t \in threads, committed(t),
         UNCHANGED <<dbVars, session, late, mixed>>
  PROVE  SharingInv'
  <1>1. RolesInv'
    BY CommittedInv DEF SharingInv
  <1>2. GoesOn(t, {}) /\ UNCHANGED <<profiled, mods>>
    BY DEF committed
  <1> QED BY <1>1, <1>2, OneEnds

LEMMA FailSharing ==
  ASSUME SharingInv, NEW t \in threads, Fail(t)
  PROVE  SharingInv'
  <1>1. RolesInv'
    BY FailInv DEF SharingInv
  <1>2. GoesOn(t, {}) /\ UNCHANGED <<dbVars, profiled, mods, mixed>>
    BY DEF Fail, agentVars
  <1> QED BY <1>1, <1>2, OneEnds

LEMMA ResumeSharing ==
  ASSUME SharingInv, NEW t \in threads, Resume(t)
  PROVE  SharingInv'
  BY RegProfileSharing, CheckBornSharing, DoBornSharing, TriggerSharing, LoadedSharing,
     ModSavedSharing, CommittedSharing DEF Resume

-----------------------------------------------------------------------------
(* Commands *)

(* A command on agent a begins the coroutines of U, at most one: whoever runs on
   a is mixed then, and so is the one that begins beside them. *)
Begins(a, U) ==
  /\ threads' = threads \union U
  /\ \A x \in U : /\ x.agent = a /\ x.same /\ x.held
                  /\ \/ x.kind = "logout" /\ x.pc = "save" /\ Leaves(x)'
                     \/ x.kind = "start" /\ x.pc = "init"
                     \/ x.kind = "born" /\ x.pc = "hincrby" /\ profiled[a].player = x.player
  /\ \A x, y \in U : x = y
  /\ mixed \subseteq mixed'
  /\ \A t \in On(a) : t.player \in mixed'
  /\ On(a) # {} => \A x \in U : x.player \in mixed'
  /\ UNCHANGED <<dbVars, profiled, mods>>

LEMMA MixesFacts ==
  ASSUME NEW a, NEW p, NEW i, Mixes(a, p, i)
  PROVE  /\ mixed \subseteq mixed'
         /\ \A t \in On(a) : t.player \in mixed'
         /\ On(a) # {} => p \in mixed'
  BY DEF Mixes

LEMMA BeginsSharing ==
  ASSUME SharingInv, RolesInv', NEW a \in Agents, NEW U, Begins(a, U)
  PROVE  SharingInv'
  <1>1. \A x \in threads' : x.player \notin mixed' =>
          x \in U \/ (x \in threads /\ x.agent # a /\ x.player \notin mixed)
    BY DEF Begins, On
  <1>2. Solo'
    <2>1. ASSUME NEW x \in threads', NEW y \in threads', x.agent = y.agent, x # y
          PROVE  x.player \in mixed'
      <3>1. CASE x \in U /\ y \in U
        BY <2>1, <3>1 DEF Begins
      <3>2. CASE x.agent = a /\ ~(x \in U /\ y \in U)
        BY <2>1, <3>2 DEF Begins, On
      <3>3. CASE x.agent # a
        <4>1. x \in threads /\ y \in threads
          BY <2>1, <3>3 DEF Begins
        <4>2. x.player \in mixed
          BY <2>1, <4>1 DEF SharingInv, Solo
        <4> QED BY <4>2 DEF Begins
      <3> QED BY <3>1, <3>2, <3>3 DEF Begins
    <2>2. ASSUME NEW x \in threads', x.player \notin mixed' PROVE x.same /\ x.held
      BY <1>1, <2>2 DEF Begins, SharingInv, Solo
    <2> QED BY <2>1, <2>2 DEF Solo
  <1>3. Known'
    BY DEF Begins, SharingInv, Known
  <1>4. UNCHANGED <<profile, saved, owner, profiled, mods>> /\ mixed \subseteq mixed'
    BY DEF Begins, dbVars
  <1>5. ASSUME NEW x \in threads PROVE Carries(x)'
    <2>1. Carries(x)
      BY DEF SharingInv
    <2>2. Works(x) => Works(x)'
      BY <1>4 DEF Works
    <2>3. (Commits(x) => Commits(x)') /\ (Theirs(x) => Theirs(x)')
      BY <1>4 DEF Commits, Theirs
    <2>4. Leaves(x) => Leaves(x)'
      BY <1>4 DEF Leaves, Kept
    <2> QED BY <1>4, <2>1, <2>2, <2>3, <2>4 DEF Carries
  <1>6. ASSUME NEW x \in U PROVE Carries(x)'
    <2>1. CASE x.kind = "logout" /\ x.pc = "save" /\ Leaves(x)'
      BY <2>1 DEF Carries
    <2>2. CASE x.kind # "logout" /\ x.pc \in {"init", "hincrby"}
      BY <2>2 DEF Carries, Works
    <2> QED BY <2>1, <2>2 DEF Begins
  <1>7. \A x \in threads' : Carries(x)'
    BY <1>5, <1>6 DEF Begins
  <1>8. RoleComplete'
    BY <1>4 DEF SharingInv, RoleComplete
  <1> QED BY <1>2, <1>3, <1>7, <1>8 DEF SharingInv

LEMMA StartSharing ==
  ASSUME SharingInv, NEW p \in Players, NEW a \in Agents, start(p, a)
  PROVE  SharingInv'
  <1>1. RolesInv'
    BY StartInv DEF SharingInv
  <1>2. PICK i \in 1..MaxRunning : /\ threads' = threads \union {NewThread("start", a, p, i)}
                                  /\ Mixes(a, p, i)
    BY DEF start
  <1>3. PICK n : n = NewThread("start", a, p, i)
    OBVIOUS
  <1>4. n.kind = "start" /\ n.agent = a /\ n.player = p /\ n.pc = "init" /\ n.same /\ n.held
    BY <1>3 DEF NewThread
  <1>5. PICK U : U = {n}
    OBVIOUS
  <1>6. threads' = threads \union U /\ UNCHANGED <<dbVars, profiled, mods>>
    BY <1>2, <1>3, <1>5 DEF start
  <1>7. Begins(a, U)
    BY <1>2, <1>4, <1>5, <1>6, MixesFacts DEF Begins
  <1> QED BY <1>1, <1>7, BeginsSharing

LEMMA BornSharing ==
  ASSUME SharingInv, NEW a \in Agents, born(a)
  PROVE  SharingInv'
  <1>1. RolesInv' /\ Typed
    BY BornInv DEF SharingInv, RolesInv
  <1>2. PICK n \in Thread :
          /\ threads' = threads \union {n}
          /\ n.pc = "hincrby" /\ n.kind = "born" /\ n.agent = a
          /\ n.player = session[a] /\ ~n.served /\ n.same /\ n.held
    BY <1>1, BornSteps
  <1>3. PICK U : U = {n}
    OBVIOUS
  <1>4. /\ profiled[a].player = session[a]
        /\ UNCHANGED <<dbVars, profiled, mods>>
        /\ \E i \in 1..MaxRunning : Mixes(a, session[a], i)
    BY DEF born, agentVars
  <1>5. Begins(a, U)
    BY <1>2, <1>3, <1>4, MixesFacts DEF Begins
  <1> QED BY <1>1, <1>5, BeginsSharing

LEMMA LogoutSharing ==
  ASSUME SharingInv, NEW p \in Players, NEW a \in Agents, logout(p, a)
  PROVE  SharingInv'
  <1>1. /\ RolesInv' /\ Typed /\ Profiled /\ Modules /\ RolesInv
    BY LogoutInv DEF SharingInv, RolesInv
  <1>2. PICK t \in Thread, i \in 1..MaxRunning :
          /\ t.kind = "logout" /\ t.agent = a /\ t.player = p /\ t.same /\ t.held
          /\ threads' = threads \union SaveFrom(t, mods[a], hashcodes[a], 1)
          /\ Mixes(a, p, i)
    BY <1>1, LogoutSteps
  <1>3. PICK U : U = SaveFrom(t, mods[a], hashcodes[a], 1)
    OBVIOUS
  <1>4. threads' = threads \union U /\ UNCHANGED <<dbVars, profiled, mods>>
    BY <1>2, <1>3 DEF logout
  <1>5. /\ mixed \subseteq mixed'
        /\ \A x \in On(a) : x.player \in mixed'
        /\ On(a) # {} => p \in mixed'
    BY <1>2, MixesFacts
  <1>6. Savable(mods[a]) /\ Hashes(hashcodes[a])
    BY <1>1, ModulesSavable, AgentHashes
  <1>7. \A x \in U : /\ x.kind = "logout" /\ x.agent = a /\ x.player = p
                     /\ x.same /\ x.held /\ x.pc = "save"
    BY <1>1, <1>2, <1>3, <1>6, SaveFromWaits
  <1>8. \A x, y \in U : x = y
    BY <1>3, SaveFromOne
  <1>9. ASSUME NEW x \in U PROVE Leaves(x)'
    <2>1. \A j \in DOMAIN Order : ~(j < 1)
      BY OrderFacts
    <2>2. mods'[t.agent] = mods[a] /\ UNCHANGED dbVars /\ x \in SaveFrom(t, mods[a], hashcodes[a], 1)
      BY <1>2, <1>3, <1>4, <1>9
    <2> QED BY <1>1, <1>2, <1>5, <1>6, <2>1, <2>2, SavingLeaves
  <1>10. Begins(a, U)
    BY <1>4, <1>5, <1>7, <1>8, <1>9 DEF Begins
  <1> QED BY <1>1, <1>10, BeginsSharing

LEMMA CrashSharing ==
  ASSUME SharingInv, crash
  PROVE  SharingInv'
  <1>1. RolesInv'
    BY CrashInv DEF SharingInv
  <1>2. threads' = {}
    BY DEF crash
  <1>3. Solo' /\ Known'
    BY <1>2 DEF Solo, Known
  <1>4. RoleComplete'
    BY DEF SharingInv, RoleComplete, crash, dbVars
  <1> QED BY <1>1, <1>2, <1>3, <1>4 DEF SharingInv

-----------------------------------------------------------------------------
LEMMA SharingInit == Init => SharingInv
  <1> SUFFICES ASSUME Init PROVE SharingInv
    OBVIOUS
  <1>1. RolesInv
    BY RolesInit
  <1>2. threads = {}
    BY DEF Init
  <1>3. Solo /\ Known
    BY <1>2 DEF Solo, Known
  <1>4. RoleComplete
    BY DEF Init, RoleComplete
  <1> QED BY <1>1, <1>2, <1>3, <1>4 DEF SharingInv

LEMMA SharingNext == SharingInv /\ [Next]_vars => SharingInv'
  <1> SUFFICES ASSUME SharingInv, [Next]_vars PROVE SharingInv'
    OBVIOUS
  <1>1. ASSUME NEW p \in Players, NEW a \in Agents, start(p, a) \/ logout(p, a)
        PROVE  SharingInv'
    BY <1>1, StartSharing, LogoutSharing
  <1>2. ASSUME NEW a \in Agents, born(a) PROVE SharingInv'
    BY <1>2, BornSharing
  <1>3. ASSUME NEW t \in threads, Serve(t) \/ Resume(t) \/ Fail(t) PROVE SharingInv'
    BY <1>3, ServeSharing, ResumeSharing, FailSharing
  <1>4. CASE crash
    BY <1>4, CrashSharing
  <1>5. CASE UNCHANGED vars
    <2>1. RolesInv'
      BY <1>5, RolesNext DEF SharingInv
    <2>2. UNCHANGED <<profile, saved, owner, profiled, mods, threads, mixed>>
      BY <1>5 DEF vars, dbVars, agentVars
    <2>3. Solo' /\ Known' /\ RoleComplete'
      BY <2>2 DEF SharingInv, Solo, Known, RoleComplete
    <2>4. \A t \in threads : Carries(t) => Carries(t)'
      BY <2>2 DEF Carries, Works, Commits, Theirs, Leaves, Kept
    <2> QED BY <2>1, <2>2, <2>3, <2>4 DEF SharingInv
  <1> QED BY <1>1, <1>2, <1>3, <1>4, <1>5 DEF Next

(* A profile that names a role names one whose records are all in the database,
   wherever a call failed or the node stopped, for every player none of whose
   coroutines shared an agent, on however many agents they ran: born writes the
   profile after the last save (do_born, on_mod_save). *)
THEOREM RolesRoleComplete == Spec => []RoleComplete
  <1>1. SharingInv => RoleComplete
    BY DEF SharingInv
  <1> QED BY <1>1, SharingInit, SharingNext, PTL DEF Spec

-----------------------------------------------------------------------------
(* The agent that is given back *)

(* What RecycledSaved says of a step. *)
Recycling ==
  \A a \in free' \ free, k \in Mods :
    LET m == mods'[a][k]
    IN  m # NoMod /\ owner'[m.uin] \notin mixed' => m.data # None /\ saved'[k][m.uin] = m.data

(* A logout that recycles, with hash codes H, has been through every module. *)
LEMMA RecyclesKept ==
  ASSUME NEW M, Savable(M), NEW H, Hashes(H), NEW i \in Nat, Unsaved(M, H, i) = {},
         \A j \in DOMAIN Order : j < i => Kept(Order[j], M[Order[j]]), NEW k \in Mods
  PROVE  Kept(k, M[k])
  <1>1. PICK j \in DOMAIN Order : Order[j] = k
    BY OrderFacts
  <1>2. CASE j < i
    BY <1>1, <1>2
  <1>3. CASE j >= i
    <2>1. j \notin Unsaved(M, H, i)
      OBVIOUS
    <2> QED BY <1>1, <1>3, <2>1, PassedKept DEF Kept
  <1> QED BY <1>1, <1>2, <1>3, OrderFacts

LEMMA LogoutRecycles ==
  ASSUME SharingInv, NEW p \in Players, NEW a \in Agents, logout(p, a)
  PROVE  Recycling
  <1>1. Typed /\ Modules /\ RolesInv
    BY DEF SharingInv, RolesInv
  <1>2. PICK t \in Thread, i \in 1..MaxRunning :
          /\ free' = IF Recycles(t, mods[a], hashcodes[a], 1) THEN free \union {a} ELSE free
          /\ Mixes(a, p, i)
    BY <1>1, LogoutSteps
  <1>3. mixed \subseteq mixed' /\ UNCHANGED <<saved, owner, mods>>
    BY <1>2, MixesFacts DEF logout, dbVars
  <1>4. Savable(mods[a]) /\ Hashes(hashcodes[a])
    BY <1>1, ModulesSavable, AgentHashes
  <1>5. \A j \in DOMAIN Order : ~(j < 1)
    BY OrderFacts
  <1>6. ASSUME Recycles(t, mods[a], hashcodes[a], 1), NEW k \in Mods
        PROVE  Kept(k, mods[a][k])
    BY <1>4, <1>5, <1>6, RecyclesKept DEF Recycles
  <1> QED BY <1>2, <1>3, <1>6 DEF Recycling, Kept

LEMMA ModSavedRecycles ==
  ASSUME SharingInv, NEW t \in threads, t.served, mod_saved(t), UNCHANGED <<dbVars, mixed>>
  PROVE  Recycling
  <1> DEFINE a == t.agent
  <1>1. /\ a \in Agents /\ Typed /\ Modules /\ RolesInv /\ t.at \in DOMAIN Order
    BY ThreadFacts DEF SharingInv, RolesInv
  <1>2. PICK H : H = AfterSave(t)
    OBVIOUS
  <1>3. /\ t.pc = "save" /\ mods' = mods
        /\ free' = IF Recycles(t, mods[a], H, t.at + 1) THEN free \union {a} ELSE free
    BY <1>2 DEF mod_saved, AfterSave
  <1>4. UNCHANGED <<saved, owner, mixed>>
    BY DEF dbVars
  <1>5. Savable(mods[a]) /\ Hashes(H) /\ t.at + 1 \in Nat
    BY <1>1, <1>2, <1>3, ModulesSavable, AfterSaveType, OrderFacts DEF Hashes
  <1>6. ASSUME Recycles(t, mods[a], H, t.at + 1), NEW k \in Mods
        PROVE  Kept(k, mods[a][k])
    <2>1. t.kind = "logout" /\ Unsaved(mods[a], H, t.at + 1) = {}
      BY <1>6 DEF Recycles
    <2> QED BY <1>5, <2>1, SavedKept, RecyclesKept
  <1> QED BY <1>3, <1>4, <1>6 DEF Recycling, Kept

(* Whoever an agent served and whatever failed on it, it goes back to the pool
   with modules whose data the database has, but for those of a player who
   shared an agent: the logout has saved them or found their hash codes
   (on_mod_save), and the next start may drop them (reg_mods). *)
THEOREM RolesRecycledSaved == Spec => RecycledSaved
  <1>1. SharingInv /\ [Next]_vars => [Recycling]_vars
    <2> SUFFICES ASSUME SharingInv, Next PROVE Recycling
      OBVIOUS
    <2>1. ASSUME NEW p \in Players, NEW a \in Agents, start(p, a) PROVE Recycling
      BY <2>1 DEF start, Recycling
    <2>2. ASSUME NEW p \in Players, NEW a \in Agents, logout(p, a) PROVE Recycling
      BY <2>2, LogoutRecycles
    <2>3. ASSUME NEW a \in Agents, born(a) PROVE Recycling
      BY <2>3 DEF born, Recycling
    <2>4. ASSUME NEW t \in threads, Serve(t) \/ Fail(t) PROVE Recycling
      BY <2>4 DEF Serve, Fail, Recycling
    <2>5. ASSUME NEW t \in threads, Resume(t) PROVE Recycling
      <3>1. CASE mod_saved(t)
        BY <2>5, <3>1, ModSavedRecycles DEF Resume
      <3>2. CASE free' = free
        BY <3>2 DEF Recycling
      <3> QED BY <2>5, <3>1, <3>2 DEF Resume, reg_profile, check_born, do_born, trigger_mods,
                                     loaded, committed
    <2>6. CASE crash
      BY <2>6 DEF crash, Everywhere, Recycling
    <2> QED BY <2>1, <2>2, <2>3, <2>4, <2>5, <2>6 DEF Next
  <1>2. RecycledSaved <=> [][Recycling]_vars
    BY PTL DEF RecycledSaved, Recycling
  <1> QED BY <1>1, <1>2, SharingInit, SharingNext, PTL DEF Spec
=============================================================================
