---------------------------- MODULE SessionProofs ---------------------------
(***************************************************************************)
(* Proofs about Session, for any number of players, sockets, requests and  *)
(* agents and whatever the clients do: the login lock, and the gate's      *)
(* routing and accounting.  Each invariant lives in the variables of one   *)
(* service, so each proof first shows what any step of the system does to  *)
(* that service (LoginView, GateView) and then that this is harmless.      *)
(***************************************************************************)
EXTENDS Session, FiniteSetTheorems, TLAPS

-----------------------------------------------------------------------------
(* The login master *)

(* Everything a step of the system may do to the login master's lock. *)
LEMMA LoginView ==
    ASSUME [Next]_vars
    PROVE  \/ attempt' = attempt /\ user_login' = user_login
           \/ \E l \in Logins : \/ Unauthorized(l) \/ Accessed(l)
                                \/ HandlerOk(l) \/ HandlerFailed(l)
           \/ \E l \in Logins, uid \in Uids : Refuse(l, uid) \/ EnterHandler(l, uid)
  <1>1. CASE UNCHANGED vars
    BY <1>1 DEF vars, loginVars
  <1>2. CASE Client
    BY <1>2 DEF Client, LoginUnauthorized, LoginRefused, LoginEnter,
         GateOpenRefused, GateOpen, GateClose, GateCloseUnknown,
         GateCloseBegin, ClientHandshake, loginVars
  <1>3. CASE LoginStep
    BY <1>3 DEF LoginStep, LoginAccess, LoginOk, LoginFailed, LoginForget,
         LoginLogout
  <1>4. CASE GateStep
    BY <1>4 DEF GateStep, GateConnected, GateKickUnknown, GateKickRaw,
         GateKickBegin, GateRegister, GateClose, GateCloseUnknown,
         GateCloseBegin, GateCloseEnd, GateKickEnd, loginVars
  <1>5. CASE HubStep
    BY <1>5 DEF HubStep, HubDoConnect, HubDoLogout, HubDoForget, HubDoKick,
         HubGotAgent, HubStarted, HubStartFailed, HubRegistered, HubRefuses,
         HubRejects, HubSlaveKick, HubFirst, HubReconnects, SendLogouts,
         loginVars
  <1>6. CASE PoolStep
    BY <1>6 DEF PoolStep, PoolGet, PoolMiss, PoolCreated, PoolExpands, PoolRecycle, loginVars
  <1>7. ASSUME NEW a \in Agents, AgentStep(a)
        PROVE  attempt' = attempt /\ user_login' = user_login
    BY <1>7 DEF AgentStep, AgentDoStart, AgentGone, AgentDoLogout,
         AgentDoSaved, AgentDoSaveRaised, AgentAnswers, AgentRaises, loginVars
  <1>8. ASSUME NEW S \in SUBSET Uids, Timeout(S)
        PROVE  attempt' = attempt /\ user_login' = user_login
    BY <1>8 DEF Timeout, SendLogouts
  <1> QED BY <1>1, <1>2, <1>3, <1>4, <1>5, <1>6, <1>7, <1>8 DEF Next

(* Coroutine l is inside login_handler for uid. *)
Inside(l, uid) == attempt[l].uid = uid /\ attempt[l].pc \in InHandler

LoginInv ==
    /\ attempt \in [Logins -> [pc: AttemptPc, uid: Uids \cup {None}]]
    /\ \A uid \in Uids :
          /\ uid \in user_login <=> \E l \in Logins : Inside(l, uid)
          /\ \A k, l \in Logins : Inside(k, uid) /\ Inside(l, uid) => k = l

LEMMA LoginInvStep ==
    ASSUME LoginInv, [Next]_vars
    PROVE  LoginInv'
  <1> USE DEF LoginInv, Inside, InHandler, AttemptPc
  <1>1. CASE attempt' = attempt /\ user_login' = user_login
    BY <1>1
  <1>2. ASSUME NEW l \in Logins, Unauthorized(l) PROVE LoginInv'
    BY <1>2 DEF Unauthorized
  <1>3. ASSUME NEW l \in Logins, Accessed(l) PROVE LoginInv'
    BY <1>3 DEF Accessed
  <1>4. ASSUME NEW l \in Logins, HandlerOk(l) PROVE LoginInv'
    BY <1>4 DEF HandlerOk
  <1>5. ASSUME NEW l \in Logins, HandlerFailed(l) PROVE LoginInv'
    BY <1>5 DEF HandlerFailed
  <1>6. ASSUME NEW l \in Logins, NEW uid \in Uids, Refuse(l, uid)
        PROVE  LoginInv'
    BY <1>6 DEF Refuse
  <1>7. ASSUME NEW l \in Logins, NEW uid \in Uids, EnterHandler(l, uid)
        PROVE  LoginInv'
    BY <1>7 DEF EnterHandler
  <1> QED BY <1>1, <1>2, <1>3, <1>4, <1>5, <1>6, <1>7, LoginView

(* user_login is exactly the set of uids with a coroutine in login_handler *)
(* and no uid has two, whatever the order of sockets, answers and errors.  *)
THEOREM LoginLockHolds == Spec => []LoginLock
  <1>1. Init => LoginInv
    BY DEF Init, LoginInit, LoginInv, Inside, InHandler, AttemptPc
  <1>2. LoginInv /\ [Next]_vars => LoginInv'
    BY LoginInvStep
  <1>3. LoginInv => LoginLock
    BY DEF LoginInv, LoginLock, Inside
  <1> QED BY <1>1, <1>2, <1>3, PTL DEF Spec

-----------------------------------------------------------------------------
(* The gate *)

(* gated and gateserver keep their tables. *)
GateTablesKept ==
    /\ sock' = sock /\ gs' = gs /\ connection' = connection
    /\ client_number' = client_number

(* Everything a step of the system may do to the gate's tables. *)
GateActs ==
    \/ GateTablesKept
    \/ Connected \/ KickRaw \/ KickBegin \/ Register
    \/ \E fd \in Fds : \/ OpenRefused(fd) \/ Open(fd) \/ CloseUnknown(fd)
                       \/ CloseBegin(fd) \/ CloseEnd(fd) \/ KickEnd(fd)

LEMMA GateView ==
    ASSUME [Next]_vars
    PROVE  GateActs
  <1> USE DEF GateActs
  <1>1. CASE UNCHANGED vars
    BY <1>1 DEF vars, gateVars, GateTablesKept
  <1>2. CASE Client
    BY <1>2 DEF Client, LoginUnauthorized, LoginRefused, LoginEnter,
         GateOpenRefused, GateOpen, GateClose, GateCloseUnknown,
         GateCloseBegin, ClientHandshake, gateVars, GateTablesKept
  <1>3. CASE LoginStep
    BY <1>3 DEF LoginStep, LoginAccess, LoginOk, LoginFailed, LoginForget,
         gateVars, GateTablesKept
  <1>4. CASE GateStep
    BY <1>4 DEF GateStep, GateConnected, GateKickUnknown, KickUnknown,
         GateKickRaw, GateKickBegin, GateRegister, GateClose,
         GateCloseUnknown, GateCloseBegin, GateCloseEnd, GateKickEnd,
         GateTablesKept
  <1>5. CASE HubStep
    BY <1>5 DEF HubStep, HubDoConnect, HubDoLogout, HubDoForget, HubDoKick,
         HubGotAgent, HubStarted, HubStartFailed, HubRegistered, HubRefuses,
         HubRejects, HubSlaveKick, HubFirst, HubReconnects, GateRecv,
         gateVars, GateTablesKept
  <1>6. CASE PoolStep
    BY <1>6 DEF PoolStep, PoolGet, PoolMiss, PoolCreated, PoolExpands, PoolRecycle,
         gateVars, GateTablesKept
  <1>7. ASSUME NEW a \in Agents, AgentStep(a) PROVE GateTablesKept
    BY <1>7 DEF AgentStep, AgentDoStart, AgentGone, AgentDoLogout,
         AgentDoSaved, AgentDoSaveRaised, AgentAnswers, AgentRaises, gateVars, GateTablesKept
  <1>8. ASSUME NEW S \in SUBSET Uids, Timeout(S) PROVE GateTablesKept
    BY <1>8 DEF Timeout, gateVars, GateTablesKept
  <1> QED BY <1>1, <1>2, <1>3, <1>4, <1>5, <1>6, <1>7, <1>8 DEF Next

(* The sockets gateserver knows. *)
Known == {fd \in Fds : gs[fd] # "nil"}

(* A socket that was never accepted is unknown, one that is open and       *)
(* dispatched has a connection.                                            *)
GateShape ==
    /\ sock \in [Fds -> SockState]
    /\ gs \in [Fds -> {"nil", "true", "false"}]
    /\ \A fd \in Fds : sock[fd] = "none" => gs[fd] = "nil"
    /\ Routable

(* client_number counts the known sockets. *)
Counted ==
    /\ IsFiniteSet(Known)
    /\ client_number = Cardinality(Known)
    /\ client_number <= MaxClient

GateInv == GateShape /\ Counted

(* Known, and so the count, is the same when gs moves between "true" and   *)
(* "false" only.                                                           *)
LEMMA KnownKept ==
    ASSUME GateInv, client_number' = client_number,
           \A fd \in Fds : gs'[fd] = "nil" <=> gs[fd] = "nil"
    PROVE  Counted'
  <1>1. Known' = Known
    BY DEF Known
  <1> QED BY <1>1 DEF GateInv, Counted

(* A socket that was unknown and becomes known is counted. *)
LEMMA KnownAdded ==
    ASSUME GateInv, NEW fd \in Fds, gs[fd] = "nil", client_number < MaxClient,
           gs' = [gs EXCEPT ![fd] = "true"], client_number' = client_number + 1
    PROVE  Counted'
  <1>1. Known' = Known \cup {fd} /\ fd \notin Known
    BY DEF Known, GateInv, GateShape
  <1>2. IsFiniteSet(Known) /\ client_number = Cardinality(Known)
    BY DEF GateInv, Counted
  <1>3. IsFiniteSet(Known') /\ Cardinality(Known') = Cardinality(Known) + 1
    BY <1>1, <1>2, FS_AddElement
  <1>4. Cardinality(Known) \in Nat
    BY <1>2, FS_CardinalityType
  <1> QED BY <1>2, <1>3, <1>4, GateAssumption DEF Counted

(* close_fd uncounts a socket exactly if it was known. *)
LEMMA KnownRemoved ==
    ASSUME GateInv, NEW fd \in Fds,
           gs' = [gs EXCEPT ![fd] = "nil"],
           client_number' = client_number - (IF gs[fd] # "nil" THEN 1 ELSE 0)
    PROVE  Counted'
  <1>1. Known' = Known \ {fd} /\ (fd \in Known <=> gs[fd] # "nil")
    BY DEF Known, GateInv, GateShape
  <1>2. /\ IsFiniteSet(Known) /\ client_number = Cardinality(Known)
        /\ client_number <= MaxClient
    BY DEF GateInv, Counted
  <1>3. /\ IsFiniteSet(Known')
        /\ Cardinality(Known') = IF fd \in Known THEN Cardinality(Known) - 1
                                 ELSE Cardinality(Known)
    BY <1>1, <1>2, FS_RemoveElement
  <1>4. Cardinality(Known) \in Nat
    BY <1>2, FS_CardinalityType
  <1> QED BY <1>1, <1>2, <1>3, <1>4, GateAssumption DEF Counted

(* The gate's invariant is preserved, through overlapping kicks and closes *)
(* that each wait for the hub in the middle.                               *)
LEMMA GateInvStep ==
    ASSUME GateInv, [Next]_vars
    PROVE  GateInv'
  <1>s. GateShape
    BY DEF GateInv
  <1>e. SUFFICES GateShape' /\ Counted'
    BY DEF GateInv
  <1>1. CASE GateTablesKept
    <2>1. GateShape'
      BY <1>1, <1>s DEF GateTablesKept, GateShape, Routable
    <2> QED BY <1>1, <2>1, KnownKept DEF GateTablesKept
  <1>2. CASE Connected
    <2>1. GateShape'
      <3> DEFINE c == Head(gateq).fd
      <3>1. /\ DOMAIN connection' = DOMAIN connection \cup {c}
            /\ sock' = [sock EXCEPT ![c] = IF gs[c] = "true" THEN "open" ELSE @]
            /\ gs' = gs
        BY <1>2 DEF Connected
      <3> HIDE DEF c
      <3>2. sock' \in [Fds -> SockState]
        BY <1>s, <3>1 DEF GateShape, SockState
      <3>3. Routable'
        BY <1>s, <3>1 DEF GateShape, Routable
      <3> QED BY <1>s, <3>1, <3>2, <3>3 DEF GateShape
    <2>2. gs' = gs /\ client_number' = client_number
      BY <1>2 DEF Connected
    <2> QED BY <2>1, <2>2, KnownKept
  <1>3. CASE KickRaw
    <2>1. GateShape'
      BY <1>3, <1>s DEF KickRaw, CloseClient, Drop, GateShape, Routable, SockState
    <2>2. /\ client_number' = client_number
          /\ \A fd \in Fds : gs'[fd] = "nil" <=> gs[fd] = "nil"
      BY <1>3, <1>s DEF KickRaw, CloseClient, GateShape
    <2> QED BY <2>1, <2>2, KnownKept
  <1>4. CASE KickBegin
    <2>1. GateShape' /\ gs' = gs /\ client_number' = client_number
      BY <1>4, <1>s DEF KickBegin, GateShape, Routable
    <2> QED BY <2>1, KnownKept
  <1>5. CASE Register
    <2>1. GateShape'
      BY <1>5, <1>s DEF Register, GateShape, Routable
    <2>2. gs' = gs /\ client_number' = client_number
      BY <1>5 DEF Register
    <2> QED BY <2>1, <2>2, KnownKept
  <1>6. ASSUME NEW fd \in Fds, OpenRefused(fd) PROVE GateShape' /\ Counted'
    <2>1. GateShape' /\ gs' = gs /\ client_number' = client_number
      BY <1>6, <1>s DEF OpenRefused, GateShape, Routable, SockState
    <2> QED BY <2>1, KnownKept
  <1>7. ASSUME NEW fd \in Fds, Open(fd) PROVE GateShape' /\ Counted'
    <2>1. GateShape'
      BY <1>7, <1>s DEF Open, GateShape, Routable, SockState
    <2>2. gs[fd] = "nil"
      BY <1>7, <1>s DEF Open, GateShape
    <2>3. Counted'
      BY <1>7, <2>2, KnownAdded DEF Open
    <2> QED BY <2>1, <2>3
  <1>8. ASSUME NEW fd \in Fds, CloseUnknown(fd) PROVE GateShape' /\ Counted'
    <2>1. GateShape'
      BY <1>8, <1>s DEF CloseUnknown, GateShape, Routable, SockState
    <2>2. Counted'
      BY <1>8, KnownRemoved DEF CloseUnknown
    <2> QED BY <2>1, <2>2
  <1>9. ASSUME NEW fd \in Fds, CloseBegin(fd) PROVE GateShape' /\ Counted'
    <2>1. GateShape' /\ gs' = gs /\ client_number' = client_number
      BY <1>9, <1>s DEF CloseBegin, GateShape, Routable, SockState
    <2> QED BY <2>1, KnownKept
  <1>10. ASSUME NEW fd \in Fds, CloseEnd(fd) PROVE GateShape' /\ Counted'
    <2>1. GateShape'
      BY <1>10, <1>s DEF CloseEnd, Drop, GateShape, Routable
    <2>2. Counted'
      BY <1>10, KnownRemoved DEF CloseEnd
    <2> QED BY <2>1, <2>2
  <1>11. ASSUME NEW fd \in Fds, KickEnd(fd) PROVE GateShape' /\ Counted'
    <2>1. GateShape'
      BY <1>11, <1>s DEF KickEnd, CloseClient, Drop, GateShape, Routable, SockState
    <2>2. /\ client_number' = client_number
          /\ \A f \in Fds : gs'[f] = "nil" <=> gs[f] = "nil"
      BY <1>11, <1>s DEF KickEnd, CloseClient, GateShape
    <2> QED BY <2>1, <2>2, KnownKept
  <1> QED
    BY <1>1, <1>2, <1>3, <1>4, <1>5, <1>6, <1>7, <1>8, <1>9, <1>10, <1>11,
       GateView DEF GateActs

(* The gate's invariant holds in every reachable state. *)
THEOREM GateInductive == Spec => []GateInv
  <1>1. Init => GateInv
    <2> SUFFICES ASSUME Init PROVE GateInv
      OBVIOUS
    <2>1. Known = {} /\ client_number = 0
      BY DEF Init, GateInit, Known
    <2>2. /\ IsFiniteSet(Known) /\ client_number = Cardinality(Known)
          /\ client_number <= MaxClient
      BY <2>1, FS_EmptySet, GateAssumption
    <2>3. GateShape
      BY DEF Init, GateInit, GateShape, Routable, SockState
    <2> QED BY <2>2, <2>3 DEF GateInv, Counted
  <1>2. GateInv /\ [Next]_vars => GateInv'
    BY GateInvStep
  <1> QED BY <1>1, <1>2, PTL DEF Spec

(* Whenever gateserver dispatches a client's message gated has a           *)
(* connection to route it by: handler.message never indexes nil.           *)
THEOREM RoutableHolds == Spec => []Routable
  <1>1. GateInv => Routable
    BY DEF GateInv, GateShape
  <1> QED BY <1>1, GateInductive, PTL

(* client_number is exactly the number of sockets gateserver knows, and    *)
(* stays within maxclient, for any number of sockets, kicks and closes.    *)
THEOREM ClientNumberExactHolds == Spec => []ClientNumberExact
  <1>1. GateInv => ClientNumberExact
    BY DEF GateInv, Counted, ClientNumberExact, Known
  <1> QED BY <1>1, GateInductive, PTL
=============================================================================
