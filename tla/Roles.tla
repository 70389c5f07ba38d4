------------------------------- MODULE Roles --------------------------------
(***************************************************************************)
(* How an agent makes, loads and saves a player's role                     *)
(* (service/agent/cmds, service/agent/mods).  start loads the profile of   *)
(* the player's account and, when it names a role on this server, the      *)
(* role's modules; born makes a role under a new uin, the modules first    *)
(* and the profile last; logout saves what changed and gives the agent     *)
(* back to the pool.  Each is a coroutine that yields at every call, of a  *)
(* database or another service, and ends where a call raises an error; the *)
(* agent's modules, the profile object and the hash codes are shared by    *)
(* the coroutines that run on it.  The agents' save timer is no part of    *)
(* the model: skynet_timermgr never adds it.                               *)
(***************************************************************************)
EXTENDS Integers, Sequences, FiniteSets, SequencesExt

CONSTANTS Players,      \* accounts (openid)
          Agents,
          Order,        \* the backend modules, in the order of pairs
          None, Blank,  \* no data; a battle record, which has none of its own
          MaxUin, MaxLogins,   \* bounds
          MaxFaults,    \* bound: calls that fail and crashes of the node
          MaxRunning,   \* bound: coroutines on an agent at once
          MaxThreads    \* bound: coroutines at once

Mods == ToSet(Order)

\* None stands for nil: it is no player, no uin, no record and no hash code.
ASSUME RolesAssumption ==
  /\ {MaxUin, MaxLogins, MaxFaults, MaxRunning, MaxThreads} \subseteq Nat
  /\ Order \in Seq(STRING) /\ "property" \in Mods
  /\ None \notin Players \union {Blank} \union Nat \union (Nat \X (Players \union {Blank}))

Uins == 1..MaxUin

Data == Players \union {None, Blank}

VARIABLES
  profile,    \* db: the uin of a player's role, or None
  saved,      \* db: of each module, the record of each uin
  max_uin,    \* redis: the last uin given out
  owner,      \* the player each uin was given to
  free,       \* agents in the pool
  session,    \* the player whose client an agent was last started for
  late,       \* players with an older client whose logout is still to come
  profiled,   \* _profiled of an agent: its player and the uin in its data
  mods,       \* _backends of an agent
  hashcodes,  \* _hashcodes of an agent
  threads,    \* coroutines that wait for an answer
  mixed,      \* players whose coroutines ran on an agent beside others
  logins, faults

dbVars == <<profile, saved, max_uin, owner>>
agentVars == <<session, late, profiled, mods, hashcodes>>
vars == <<dbVars, agentVars, free, threads, mixed, logins, faults>>

\* A module that was never registered.
NoMod == [uin |-> None, born |-> None, data |-> None]

Everywhere(x) == [a \in Agents |-> x]

Init ==
  /\ session = Everywhere(None)
  /\ late = Everywhere({})
  /\ profiled = Everywhere([player |-> None, data |-> None])
  /\ mods = Everywhere([k \in Mods |-> NoMod])
  /\ hashcodes = Everywhere([k \in Mods |-> None])
  /\ free = Agents
  /\ threads = {}
  /\ profile = [p \in Players |-> None]
  /\ saved = [k \in Mods |-> [u \in Uins |-> None]]
  /\ max_uin = 0
  /\ owner = [u \in Uins |-> None]
  /\ mixed = {}
  /\ logins = 0
  /\ faults = 0

-----------------------------------------------------------------------------
(* Coroutines.  One waits at pc for the answer to a call; served says that  *)
(* the database has done its part, or that there is none in the call.       *)

Thread == [kind : {"start", "born", "logout"}, agent : Agents, player : Players,
           no : 1..MaxRunning,               \* tells those of an agent apart
           pc : {"init", "profile", "hincrby", "proxy", "load", "save", "commit"},
           at : DOMAIN Order,                \* the module it has come to
           key : Uins \union {None},         \* the uin of the call
           val : Data \union Uins,           \* what is written, or the answer
           made : Players \union {None},     \* _born of the module it loads
           same : BOOLEAN,                   \* its profile object is still _profiled
           held : BOOLEAN,                   \* the module it loads is still in _backends
           served : BOOLEAN]

On(a) == {t \in threads : t.agent = a}

NewThread(kind, a, p, n) ==
  [kind |-> kind, agent |-> a, player |-> p, no |-> n, pc |-> "init", at |-> 1,
   key |-> None, val |-> None, made |-> None, same |-> TRUE, held |-> TRUE, served |-> TRUE]

\* Coroutine n, for p, begins on a: whoever still runs there is mixed with it.
Mixes(a, p, n) ==
  /\ Cardinality(threads) < MaxThreads
  /\ \A i \in 1..n : (i = n) = (\A t \in On(a) : t.no # i)
  /\ mixed' = IF On(a) = {} THEN mixed ELSE mixed \union {p} \union {t.player : t \in On(a)}

\* t goes on as u, a set with one coroutine, or with none when t has ended.
GoesOn(t, u) == threads' = (threads \ {t}) \union u

\* The other coroutines of t's agent, once t has replaced what they hold.
Others(t, f(_)) == (threads \ On(t.agent)) \union {f(o) : o \in On(t.agent) \ {t}}

-----------------------------------------------------------------------------
(* The databases *)

Answered(t, val) == GoesOn(t, {[t EXCEPT !.served = TRUE, !.val = val]})

ServeProfile(t) ==
  /\ t.pc = "profile"
  /\ Answered(t, profile[t.player])
  /\ UNCHANGED dbVars

\* hincrby adds a random number from 1 to 10.
ServeHincrby(t) ==
  /\ t.pc = "hincrby"
  /\ \E n \in (max_uin + 1)..MaxUin :
       /\ max_uin' = n
       /\ owner' = [owner EXCEPT ![n] = t.player]
       /\ Answered(t, n)
  /\ UNCHANGED <<profile, saved>>

ServeLoad(t) ==
  /\ t.pc = "load"
  /\ Answered(t, saved[Order[t.at]][t.key])
  /\ UNCHANGED dbVars

ServeSave(t) ==
  /\ t.pc = "save"
  /\ saved' = [saved EXCEPT ![Order[t.at]][t.key] = t.val]
  /\ Answered(t, t.val)
  /\ UNCHANGED <<profile, max_uin, owner>>

ServeCommit(t) ==
  /\ t.pc = "commit"
  /\ profile' = [profile EXCEPT ![t.val] = t.key]
  /\ Answered(t, t.val)
  /\ UNCHANGED <<saved, max_uin, owner>>

Serve(t) ==
  /\ ~t.served
  /\ \/ ServeProfile(t) \/ ServeHincrby(t)
     \/ ServeLoad(t) \/ ServeSave(t) \/ ServeCommit(t)
  /\ UNCHANGED <<agentVars, free, mixed, logins, faults>>

-----------------------------------------------------------------------------
(* on_mod_save *)

hashcodeData(u, data) == <<None, data>>

\* What is hashed of a module: its record, which holds the uin.  Records that
\* differ are taken to have different codes; the code has 32 bits (lua-hash.c).
hashcode(u, data) == <<u, data>>

UnsavedLoaded(M, H, i) ==
  {j \in DOMAIN Order : /\ j >= i /\ M[Order[j]] # NoMod /\ M[Order[j]].data # None
                        /\ H[Order[j]] # hashcode(M[Order[j]].uin, M[Order[j]].data)}

\* The modules from i on that on_mod_save does not pass over.
Unsaved(M, H, i) ==
  {j \in DOMAIN Order : /\ j >= i /\ M[Order[j]] # NoMod
                        /\ \/ M[Order[j]].data = None
                           \/ H[Order[j]] # hashcode(M[Order[j]].uin, M[Order[j]].data)}

\* What follows the saves: born saves the profile of whatever object _profiled
\* now is, which must have data; logout gives the agent back.
AfterSaves(t) ==
  LET d == profiled[t.agent]
  IN  IF t.kind = "born" /\ d.data # None
      THEN {[t EXCEPT !.pc = "commit", !.key = d.data, !.val = d.player, !.served = FALSE]}
      ELSE {}

\* t runs the loop from i on, with modules M and hash codes H: to the next
\* save, to a module without data (an assertion), or to its end.
SaveFrom(t, M, H, i) ==
  LET U == Unsaved(M, H, i)
      j == CHOOSE k \in U : \A l \in U : k <= l
      m == M[Order[j]]
  IN  IF U = {} THEN AfterSaves(t)
      ELSE IF m.data = None THEN {}
      ELSE {[t EXCEPT !.pc = "save", !.at = j, !.key = m.uin, !.val = m.data, !.served = FALSE]}

\* The logout that has saved everything.
Recycles(t, M, H, i) == t.kind = "logout" /\ Unsaved(M, H, i) = {}

-----------------------------------------------------------------------------
(* The stretches of code from an answer to the next call *)

\* New module objects for the role u.
reg_mods(u, born) == [k \in Mods |-> [uin |-> u, born |-> born, data |-> None]]

\* trigger_mods, to the call in set_uin that makes the proxy of the battle node.
set_uin(t, u, born) ==
  GoesOn(t, {[t EXCEPT !.pc = "proxy", !.key = u, !.made = born, !.served = TRUE, !.val = None]})

\* trigger_mods from there: reg_mods, to the first load.
trigger_mods(t) ==
  /\ t.pc = "proxy"
  /\ mods' = [mods EXCEPT ![t.agent] = reg_mods(t.key, t.made)]
  /\ threads' = Others(t, LAMBDA o : [o EXCEPT !.held = FALSE]) \union
                  {[t EXCEPT !.pc = "load", !.at = 1, !.held = TRUE, !.served = FALSE]}
  /\ UNCHANGED <<profiled, hashcodes, free>>

SetProfileNow(t, u) == profiled' = [profiled EXCEPT ![t.agent].data = u]

\* self._data of the object that t called, which may not be _profiled any more.
SetProfile(t, u) ==
  profiled' = IF t.same THEN [profiled EXCEPT ![t.agent].data = u] ELSE profiled

\* start, once the protocol is loaded: reg_profile and profiled:load.
reg_profile(t) ==
  /\ t.pc = "init"
  /\ profiled' = [profiled EXCEPT ![t.agent] = [player |-> t.player, data |-> None]]
  /\ threads' = Others(t, LAMBDA o : [o EXCEPT !.same = FALSE]) \union
                  {[t EXCEPT !.pc = "profile", !.same = TRUE, !.served = FALSE]}
  /\ UNCHANGED <<mods, hashcodes, free>>

check_bornAlways(t) ==
  /\ t.pc = "profile"
  /\ SetProfile(t, t.val)
  /\ set_uin(t, t.val, None)
  /\ UNCHANGED <<mods, hashcodes, free>>

\* start: no role yet, or the role is to be loaded.
check_born(t) ==
  /\ t.pc = "profile"
  /\ SetProfile(t, t.val)
  /\ IF t.val = None THEN GoesOn(t, {}) ELSE set_uin(t, t.val, None)
  /\ UNCHANGED <<mods, hashcodes, free>>

\* born, once it has its uin.
do_born(t) ==
  /\ t.pc = "hincrby"
  /\ SetProfile(t, t.val)
  /\ set_uin(t, t.val, t.player)
  /\ UNCHANGED <<mods, hashcodes, free>>

\* load of a module: a record that is not there is made, for property from what
\* born was given, without which it is an error.
loaded(t) ==
  LET a == t.agent
      k == Order[t.at]
      rec == IF t.val # None THEN t.val ELSE IF k = "property" THEN t.made ELSE Blank
      M == IF t.held THEN [mods[a] EXCEPT ![k].data = rec] ELSE mods[a]
      next == M[Order[t.at + 1]]
  IN  /\ t.pc = "load"
      /\ mods' = [mods EXCEPT ![a] = IF rec = None THEN @ ELSE M]
      /\ GoesOn(t, IF rec = None THEN {}
                   ELSE IF t.at = Len(Order) THEN SaveFrom(t, M, hashcodes[a], 1)
                   ELSE {[t EXCEPT !.at = @ + 1, !.key = next.uin, !.made = next.born,
                                   !.held = TRUE, !.served = FALSE, !.val = None]})
      /\ UNCHANGED <<profiled, hashcodes, free>>

nhcodeAfter(t) ==
  LET m == mods[t.agent][Order[t.at]] IN hashcode(m.uin, m.data)

\* The hash code that was taken before the save.
nhcode(t) == hashcode(t.key, t.val)

\* on_mod_save, after the save of a module.
mod_saved(t) ==
  LET a == t.agent
      H == [hashcodes[a] EXCEPT ![Order[t.at]] = nhcode(t)]
  IN  /\ t.pc = "save"
      /\ hashcodes' = [hashcodes EXCEPT ![a] = H]
      /\ GoesOn(t, SaveFrom(t, mods[a], H, t.at + 1))
      /\ free' = IF Recycles(t, mods[a], H, t.at + 1) THEN free \union {a} ELSE free
      /\ UNCHANGED <<profiled, mods>>

committed(t) ==
  /\ t.pc = "commit"
  /\ GoesOn(t, {})
  /\ UNCHANGED <<profiled, mods, hashcodes, free>>

Resume(t) ==
  /\ t.served
  /\ \/ reg_profile(t) \/ check_born(t) \/ do_born(t) \/ trigger_mods(t)
     \/ loaded(t) \/ mod_saved(t) \/ committed(t)
  /\ UNCHANGED <<dbVars, session, late, mixed, logins, faults>>

\* A call raises an error, whatever the other side has done: the coroutine ends
\* and leaves the agent as it is, a logout without giving it back.
Fail(t) ==
  /\ faults < MaxFaults
  /\ GoesOn(t, {})
  /\ faults' = faults + 1
  /\ UNCHANGED <<dbVars, agentVars, free, mixed, logins>>

-----------------------------------------------------------------------------
(* Commands *)

\* start, from a hub that got the agent from the pool, for the first or another
\* login of the player, or kept it for one who connects again.
start(p, a) ==
  /\ logins < MaxLogins
  /\ a \in free \/ session[a] = p
  /\ free' = free \ {a}
  /\ session' = [session EXCEPT ![a] = p]
  /\ late' = [late EXCEPT ![a] = @ \union ({session[a]} \ {None})]
  /\ \E n \in 1..MaxRunning :
       /\ threads' = threads \union {NewThread("start", a, p, n)}
       /\ Mixes(a, p, n)
  /\ logins' = logins + 1
  /\ UNCHANGED <<dbVars, profiled, mods, hashcodes, faults>>

\* born, forked for the client the agent answers to, whether or not it has a
\* role or has asked before; it works on the profile object that an earlier
\* start of this player has made.
born(a) ==
  LET p == session[a]
  IN  /\ p # None /\ profiled[a].player = p
      /\ max_uin + Cardinality({t \in threads : t.pc = "hincrby" /\ ~t.served}) < MaxUin
      /\ \E n \in 1..MaxRunning :
           /\ threads' = threads \union
                {[NewThread("born", a, p, n) EXCEPT !.pc = "hincrby", !.served = FALSE]}
           /\ Mixes(a, p, n)
      /\ UNCHANGED <<dbVars, agentVars, free, logins, faults>>

\* logout of p, whose client is gone: the one the agent answers to, or an older
\* one, of a player who has connected again or from whom the agent was taken.
logout(p, a) ==
  /\ \/ session[a] = p /\ session' = [session EXCEPT ![a] = None] /\ UNCHANGED late
     \/ p \in late[a] /\ late' = [late EXCEPT ![a] = @ \ {p}] /\ UNCHANGED session
  /\ \E n \in 1..MaxRunning :
       LET t == NewThread("logout", a, p, n)
       IN  /\ threads' = threads \union SaveFrom(t, mods[a], hashcodes[a], 1)
           /\ free' = IF Recycles(t, mods[a], hashcodes[a], 1) THEN free \union {a} ELSE free
           /\ Mixes(a, p, n)
  /\ UNCHANGED <<dbVars, profiled, mods, hashcodes, logins, faults>>

\* The node stops and is started again.
crash ==
  /\ faults < MaxFaults
  /\ session' = Everywhere(None)
  /\ late' = Everywhere({})
  /\ profiled' = Everywhere([player |-> None, data |-> None])
  /\ mods' = Everywhere([k \in Mods |-> NoMod])
  /\ hashcodes' = Everywhere([k \in Mods |-> None])
  /\ free' = Agents
  /\ threads' = {}
  /\ faults' = faults + 1
  /\ UNCHANGED <<dbVars, mixed, logins>>

Next ==
  \/ \E p \in Players, a \in Agents : start(p, a) \/ logout(p, a)
  \/ \E a \in Agents : born(a)
  \/ \E t \in threads : Serve(t) \/ Resume(t) \/ Fail(t)
  \/ crash

Spec == Init /\ [][Next]_vars

-----------------------------------------------------------------------------
\* A call that is about a role has its uin, which set_uin asserts.
TypeOK ==
  /\ profile \in [Players -> Uins \union {None}]
  /\ saved \in [Mods -> [Uins -> Data]]
  /\ max_uin \in 0..MaxUin
  /\ owner \in [Uins -> Players \union {None}]
  /\ free \subseteq Agents
  /\ session \in [Agents -> Players \union {None}]
  /\ late \in [Agents -> SUBSET Players]
  /\ profiled \in [Agents -> [player : Players \union {None}, data : Uins \union {None}]]
  /\ mods \in [Agents -> [Mods -> [uin : Uins \union {None}, born : Players \union {None}, data : Data]]]
  /\ hashcodes \in [Agents -> [Mods -> (Uins \X Data) \union {None}]]
  /\ threads \subseteq Thread
  /\ \A t \in threads : t.pc \in {"proxy", "load", "save", "commit"} => t.key \in Uins
  /\ mixed \subseteq Players

\* A uin is one player's: the profile that names it is of the player it was
\* given to, and so is the name in its property record, whichever coroutine on
\* whichever agent wrote them (profiled.lua, propertyd.lua).
UinOwned ==
  /\ \A p \in Players : profile[p] # None => owner[profile[p]] = p
  /\ \A u \in Uins : saved["property"][u] \in {None, owner[u]}

\* A role that a profile names has all its records, also when the node stops
\* between two writes: born saves the profile last.  Otherwise the next start
\* fails in propertyd's assertion.  Players whose coroutines shared an agent
\* are left out.
RoleComplete ==
  \A p \in Players \ mixed : profile[p] # None =>
    \A k \in Mods : saved[k][profile[p]] # None

\* A logout gives the agent back only when the database has all that the agent
\* holds of a role, whoever it served before and whatever failed in between: the
\* next start drops these modules (on_mod_save, reg_mods).  Roles of players
\* whose coroutines shared an agent are left out.
RecycledSaved ==
  [][\A a \in free' \ free, k \in Mods :
       LET m == mods'[a][k]
       IN  m # NoMod /\ owner'[m.uin] \notin mixed' =>
             m.data # None /\ saved'[k][m.uin] = m.data]_vars

\* on_mod_save passes over a module only when the database has its data: a hash
\* code is that of a record the agent has written.
HashMeansSaved ==
  \A a \in Agents, k \in Mods :
    LET h == hashcodes[a][k] IN h # None => saved[k][h[1]] = h[2]
=============================================================================
