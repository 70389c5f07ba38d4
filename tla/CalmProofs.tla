----------------------------- MODULE CalmProofs -----------------------------
(***************************************************************************)
(* Proofs about Session for clients that neither log in twice nor present  *)
(* a token twice (Relogin and Reconnect are FALSE), for any number of      *)
(* clients, sockets, requests and agents, with or without the timeout.     *)
(* Then a uid has one login, a login one handshake, and nothing is kicked: *)
(* a socket goes from accepted to open to closed, and a session ends when  *)
(* its socket closes.                                                      *)
(***************************************************************************)
EXTENDS HandshakeProofs

Calm == ~Relogin /\ ~Reconnect

-----------------------------------------------------------------------------
(* The invariant *)

(* A mailbox has a message of M, and no two of them. *)
Has(q, M) == \E i \in DOMAIN q : q[i] \in M
Single(q, M) == \A i, j \in DOMAIN q : q[i] \in M /\ q[j] \in M => i = j

(* A uid has one login, a login has one request, and the request that was
   accepted is the one whose socket the user object has. *)
Working == {"get", "start", "register", "done"}

OneEach ==
    /\ \A k, l \in Logins : attempt[k].uid # None /\ attempt[k].uid = attempt[l].uid => k = l
    /\ \A q, r \in Requests : hs[q].tok # None /\ hs[q].tok = hs[r].tok => q = r
    /\ \A l \in Logins : attempt[l].pc \in {"accessed", "200"} => user[l].uid = attempt[l].uid
    /\ \A l \in Logins : attempt[l].pc = "new" => attempt[l].uid = None
    /\ \A uid \in Uids : User_Map[uid] # None => attempt[User_Map[uid]].uid = uid
    /\ \A r \in Requests : /\ hs[r].pc = "none" => hs[r].tok = None
                           /\ hs[r].pc # "none" => hs[r].uid = attempt[hs[r].tok].uid
                           /\ hs[r].pc \in Working => UserOf(r).conn = hs[r].fd
    /\ \A l \in Logins : user[l].conn # None =>
          /\ attempt[l].pc \notin {"new", "login"}
          /\ \E r \in Requests : hs[r].tok = l /\ hs[r].pc # "sent"

Kicks == {m \in HubMsg \cup GateMsg : m.type = "kick"}

NoKicks ==
    /\ user_online = {}
    /\ ~Has(hubq, Kicks) /\ ~Has(gateq, Kicks)
    /\ \A fd \in Fds : kicking[fd] = 0
    /\ \A r \in Requests : hs[r].pc # "unauthorized"

(* The life of a socket: the hub is told of it once, and answers once. *)
Connects(fd) == {m \in HubMsg : m.type = "connect" /\ m.fd = fd}
Connecteds(fd) == {m \in GateMsg : m.type = "connected" /\ m.fd = fd}

Socket(fd) ==
    /\ sock[fd] # "closing"
    /\ Single(hubq, Connects(fd)) /\ Single(gateq, Connecteds(fd))
    /\ ~(Has(hubq, Connects(fd)) /\ Has(gateq, Connecteds(fd)))
    /\ Has(hubq, Connects(fd)) \/ Has(gateq, Connecteds(fd)) => sock[fd] = "accepted"
    /\ sock[fd] = "accepted" => gs[fd] = "true" /\ fd \notin DOMAIN connection
    /\ sock[fd] = "open" => fd \in DOMAIN connection
    /\ sock[fd] = "none" => fd \notin DOMAIN connection
    /\ fd \in closing => sock[fd] = "closed"
    /\ fd \in FD_Map => sock[fd] # "none"
    /\ \A r \in Requests : hs[r].fd = fd => sock[fd] \in {"open", "closed"}

Sockets == \A fd \in Fds : Socket(fd)

(* The gate has bound the socket of r. *)
Settled(r) == hs[r].pc = "done" \/ [type |-> "registered", req |-> r, res |-> TRUE] \in HubR

(* A logout of a bound connection is the end of the session that bound it. *)
Ends ==
    /\ \A m \in Pending(hubq, {"logout"}) :
          /\ sock[m.fd] = "closed"
          /\ m.uid # None => \E r \in Requests : hs[r].uid = m.uid /\ hs[r].fd = m.fd /\ Settled(r)
    /\ \A r \in Requests :
          hs[r].pc \in Working /\ User_Map[hs[r].uid] = None => sock[hs[r].fd] = "closed"

(* hubd is about to forget a socket that is bound or closed. *)
Forgets(fd) ==
    {m \in HubMsg : \/ m.type = "logout" /\ m.uid = None /\ m.fd = fd
                    \/ m.type = "registered" /\ m.res = TRUE /\ hs[m.req].fd = fd}

Forgetting ==
    \A fd \in FD_Map : Bound(fd) \/ sock[fd] = "closed" => Has(hubq, Forgets(fd))

(* Who has an agent: the pool, a request that waits for it (twice), the
   session of a request, and then the logout on its way back to the pool. *)
Holds(r, a) ==
    /\ hs[r].pc \in {"start", "register", "done"} /\ UserOf(r).agent = a
    /\ hs[r].pc = "start" \/ sock[hs[r].fd] # "closed"

Gots(a) == {m \in HubMsg : m.type = "got" /\ m.agent = a}
Leaves(a) == {m \in HubMsg : m.type = "logout" /\ m.uid # None /\ m.agent = a}
Quits == {m \in AgentMsg : m.type = "logout"}

Places == {"pool", "spawn", "got", "held", "hub", "agent", "save", "recycle"}

At(a, p) ==
    CASE p = "pool" -> Has(pool, {a})
      [] p = "spawn" -> \E w \in spawning : w.agent = a
      [] p = "got" -> Has(hubq, Gots(a))
      [] p = "held" -> \E r \in Requests : Holds(r, a)
      [] p = "hub" -> Has(hubq, Leaves(a))
      [] p = "agent" -> Has(agentq[a], Quits)
      [] p = "save" -> saving[a] # 0
      [] p = "recycle" -> recycling[a] # 0

OnceAt(a, p) ==
    CASE p = "pool" -> Single(pool, {a})
      [] p = "spawn" -> \A v, w \in spawning : v.agent = a /\ w.agent = a => v = w
      [] p = "got" -> Single(hubq, Gots(a))
      [] p = "held" -> \A q, r \in Requests : Holds(q, a) /\ Holds(r, a) => q = r
      [] p = "hub" -> Single(hubq, Leaves(a))
      [] p = "agent" -> Single(agentq[a], Quits)
      [] p = "save" -> saving[a] <= 1
      [] p = "recycle" -> recycling[a] <= 1

(* An agent that was created and not killed. *)
Lives(a) == a <= spawned /\ a \in agent_map

Placed(a) ==
    /\ \A x \in Places : OnceAt(a, x)
    /\ \A x, y \in Places : At(a, x) /\ At(a, y) => x = y
    /\ \A x \in Places : At(a, x) => Lives(a)

OnePlace == \A a \in Agents : Placed(a)

(* The agent a session was started on has the session's socket. *)
OwnFd ==
    /\ \A a \in Agents : \A m \in AgentR(a) : m.fd = UserOf(m.req).conn
    /\ \A c \in loading : agentfd[c.agent] = UserOf(c.req).conn
    /\ \A m \in HubR : m.type = "started" =>
          agentfd[UserOf(m.req).agent] = UserOf(m.req).conn
    /\ \A r \in Requests :
          hs[r].pc \in {"register", "done"} /\ sock[hs[r].fd] # "closed" =>
            agentfd[UserOf(r).agent] = UserOf(r).conn
-----------------------------------------------------------------------------
(* Mailboxes *)

LEMMA HasAppend ==
    ASSUME NEW S, NEW q \in Seq(S), NEW m \in S, NEW M
    PROVE  /\ Has(Append(q, m), M) <=> Has(q, M) \/ m \in M
           /\ Single(q, M) /\ (m \in M => ~Has(q, M)) => Single(Append(q, m), M)
  <1> DEFINE p == Append(q, m)
             k == Len(q) + 1
  <1>1. /\ DOMAIN p = DOMAIN q \cup {k} /\ k \notin DOMAIN q /\ p[k] = m
        /\ \A i \in DOMAIN q : p[i] = q[i]
    BY AppendFacts
  <1> HIDE DEF p, k
  <1>2. Has(p, M) <=> Has(q, M) \/ m \in M
    BY <1>1 DEF Has
  <1>3. Single(q, M) /\ (m \in M => ~Has(q, M)) => Single(p, M)
    BY <1>1 DEF Has, Single
  <1> QED BY <1>2, <1>3 DEF p

LEMMA HasTail ==
    ASSUME NEW S, NEW q \in Seq(S), q # <<>>, NEW M
    PROVE  /\ Has(q, M) <=> Head(q) \in M \/ Has(Tail(q), M)
           /\ Single(q, M) => /\ Single(Tail(q), M)
                              /\ Head(q) \in M => ~Has(Tail(q), M)
  <1> DEFINE p == Tail(q)
             h == Head(q)
  <1>1. /\ h = q[1] /\ 1 \in DOMAIN q
        /\ \A i \in DOMAIN p : i \in Nat /\ i + 1 \in DOMAIN q /\ p[i] = q[i + 1]
        /\ \A i \in DOMAIN q : i # 1 => i - 1 \in DOMAIN p /\ q[i] = p[i - 1]
    BY TailFacts
  <1>0. 0 \notin DOMAIN p
    <2>1. p \in Seq(S)
      BY TailFacts
    <2> QED BY <2>1, LenProperties
  <1> HIDE DEF p, h
  <1>2. Has(q, M) <=> h \in M \/ Has(p, M)
    BY <1>1 DEF Has
  <1>3. ASSUME Single(q, M) PROVE Single(p, M) /\ (h \in M => ~Has(p, M))
    <2>1. ASSUME NEW i \in DOMAIN p, NEW j \in DOMAIN p, p[i] \in M, p[j] \in M PROVE i = j
      <3>1. i \in Nat /\ j \in Nat /\ i + 1 = j + 1
        BY <1>1, <1>3, <2>1 DEF Single
      <3> QED BY <3>1
    <2>2. ASSUME h \in M, NEW i \in DOMAIN p, p[i] \in M PROVE FALSE
      <3>1. i \in Nat /\ i + 1 = 1
        BY <1>1, <1>3, <2>2 DEF Single
      <3> QED BY <1>0, <3>1
    <2> QED BY <2>1, <2>2 DEF Single, Has
  <1> QED BY <1>2, <1>3 DEF p, h

(* hubd, or the gate, gets or takes a message whose type is in T. *)
HubMail(T) ==
    \/ hubq' = hubq
    \/ \E m \in HubMsg : m.type \in T /\ hubq' = Append(hubq, m)
    \/ hubq # <<>> /\ Head(hubq).type \in T /\ hubq' = Tail(hubq)

GateMail(T) ==
    \/ gateq' = gateq
    \/ \E m \in GateMsg : m.type \in T /\ gateq' = Append(gateq, m)
    \/ gateq # <<>> /\ Head(gateq).type \in T /\ gateq' = Tail(gateq)

(* Messages of other types stay. *)
LEMMA HubMailKept ==
    ASSUME HandshakeInv, NEW T, HubMail(T), NEW M, \A m \in M : m.type \notin T
    PROVE  /\ Has(hubq', M) <=> Has(hubq, M)
           /\ Single(hubq, M) => Single(hubq', M)
  <1>1. hubq \in Seq(HubMsg)
    BY DEF HandshakeInv, TypeOK, HubTypeOK
  <1>2. ASSUME NEW m \in HubMsg, m.type \in T, hubq' = Append(hubq, m)
        PROVE  /\ Has(hubq', M) <=> Has(hubq, M)
               /\ Single(hubq, M) => Single(hubq', M)
    BY <1>1, <1>2, HasAppend
  <1>3. ASSUME hubq # <<>>, Head(hubq).type \in T, hubq' = Tail(hubq)
        PROVE  /\ Has(hubq', M) <=> Has(hubq, M)
               /\ Single(hubq, M) => Single(hubq', M)
    BY <1>1, <1>3, HasTail
  <1> QED BY <1>2, <1>3 DEF HubMail

LEMMA GateMailKept ==
    ASSUME HandshakeInv, NEW T, GateMail(T), NEW M, \A m \in M : m.type \notin T
    PROVE  /\ Has(gateq', M) <=> Has(gateq, M)
           /\ Single(gateq, M) => Single(gateq', M)
  <1>1. gateq \in Seq(GateMsg)
    BY DEF HandshakeInv, TypeOK, GateTypeOK
  <1>2. ASSUME NEW m \in GateMsg, m.type \in T, gateq' = Append(gateq, m)
        PROVE  /\ Has(gateq', M) <=> Has(gateq, M)
               /\ Single(gateq, M) => Single(gateq', M)
    BY <1>1, <1>2, HasAppend
  <1>3. ASSUME gateq # <<>>, Head(gateq).type \in T, gateq' = Tail(gateq)
        PROVE  /\ Has(gateq', M) <=> Has(gateq, M)
               /\ Single(gateq, M) => Single(gateq', M)
    BY <1>1, <1>3, HasTail
  <1> QED BY <1>2, <1>3 DEF GateMail

-----------------------------------------------------------------------------
(* The steps there are *)

Base == OneEach /\ NoKicks /\ Sockets

(* The steps of the pool and of the agents. *)
BackStep ==
    \/ \E r \in Requests : PoolGet(r) \/ PoolMiss(r)
    \/ \E w \in spawning : PoolCreated(w) \/ PoolExpands(w)
    \/ \E a \in Agents : PoolRecycle(a) \/ AgentStep(a)

(* The steps of hubd that move a handshake. *)
HubMoves ==
    \/ \E r \in Requests : HubRefuses(r) \/ HubFirst(r)
    \/ HubGotAgent \/ HubStarted \/ HubStartFailed \/ HubRegistered

(* The other ones. *)
LoginSteps ==
    \/ \E l \in Logins : LoginUnauthorized(l) \/ LoginAccess(l) \/ LoginOk(l) \/ LoginFailed(l)
    \/ \E l \in Logins, uid \in Uids : LoginRefused(l, uid) \/ LoginEnter(l, uid)
    \/ \E uid \in Uids : LoginForget(uid)

GateSteps ==
    \/ \E fd \in Fds : \/ GateOpenRefused(fd) \/ GateOpen(fd)
                       \/ GateCloseBegin(fd) \/ GateCloseEnd(fd)
    \/ GateConnected \/ GateRegister

CalmStep ==
    \/ UNCHANGED vars
    \/ BackStep \/ HubMoves \/ LoginSteps \/ GateSteps
    \/ \E r \in Requests, fd \in Fds, l \in Logins : ClientHandshake(r, fd, l)
    \/ HubDoConnect \/ HubDoLogout \/ HubDoForget
    \/ \E S \in SUBSET Uids : Timeout(S)

LEMMA NoKickHead ==
    ASSUME HandshakeInv, Base
    PROVE  ~HubHas("kick") /\ ~GateHas("kick")
  <1>1. hubq \in Seq(HubMsg) /\ gateq \in Seq(GateMsg)
    BY DEF HandshakeInv, TypeOK, HubTypeOK, GateTypeOK
  <1>2. ASSUME hubq # <<>>, Head(hubq).type = "kick" PROVE FALSE
    <2>1. Head(hubq) \in Kicks
      BY <1>1, <1>2, TailFacts DEF Kicks
    <2> QED BY <1>1, <1>2, <2>1, HasTail DEF Base, NoKicks
  <1>3. ASSUME gateq # <<>>, Head(gateq).type = "kick" PROVE FALSE
    <2>1. Head(gateq) \in Kicks
      BY <1>1, <1>3, TailFacts DEF Kicks
    <2> QED BY <1>1, <1>3, <2>1, HasTail DEF Base, NoKicks
  <1> QED BY <1>2, <1>3 DEF HubHas, GateHas

(* A handshake that hubd takes: its token is the one the uid has, and no
   other handshake presented it. *)
LEMMA TakenHandshake ==
    ASSUME HandshakeInv, Base, NEW r, HubHas("handshake"), r = Head(hubq).req
    PROVE  /\ r \in Requests /\ hs[r].pc = "sent" /\ hs[r].tok \in Logins
           /\ User_Map[hs[r].uid] \in {None, hs[r].tok} /\ user[hs[r].tok].conn = None
  <1>1. Head(hubq) \in HubR /\ Head(hubq).type = "handshake"
    BY HubHead DEF HubHas, ReqTypes
  <1>2. r \in Requests /\ hs[r].pc = "sent"
    <2>1. PICK m \in HubR : m = Head(hubq)
      BY <1>1
    <2> QED BY <1>1, <2>1, HubAlone DEF Awaits
  <1>3. hs[r].tok \in Logins /\ hs[r].uid \in Uids /\ hs[r].uid = attempt[hs[r].tok].uid
    BY <1>2 DEF HandshakeInv, Presented, Base, OneEach
  <1>4. User_Map[hs[r].uid] \in {None, hs[r].tok}
    <2> DEFINE k == User_Map[hs[r].uid]
    <2>1. k \in Logins \cup {None}
      BY <1>3 DEF HandshakeInv, TypeOK, HubTypeOK
    <2>2. ASSUME k # None PROVE k = hs[r].tok
      <3>1. attempt[k].uid = hs[r].uid /\ hs[r].uid # None
        BY <1>3, <2>2, EntitiesAssumption DEF Base, OneEach
      <3>2. \A i, j \in Logins : attempt[i].uid # None /\ attempt[i].uid = attempt[j].uid => i = j
        BY DEF Base, OneEach
      <3> HIDE DEF k
      <3> QED BY <1>3, <2>1, <2>2, <3>1, <3>2
    <2> QED BY <2>2
  <1>5. user[hs[r].tok].conn = None
    <2> SUFFICES ASSUME user[hs[r].tok].conn # None PROVE FALSE
      OBVIOUS
    <2>1. PICK q \in Requests : hs[q].tok = hs[r].tok /\ hs[q].pc # "sent"
      BY <1>3 DEF Base, OneEach
    <2>2. q = r
      BY <1>2, <1>3, <2>1, EntitiesAssumption DEF Base, OneEach
    <2> QED BY <1>2, <2>1, <2>2
  <1> QED BY <1>2, <1>3, <1>4, <1>5

(* Nothing is kicked, no token is refused as another's or presented again,
   and gated knows the sockets it closes. *)
LEMMA CalmNext ==
    ASSUME HandshakeInv, Base, [Next]_vars
    PROVE  CalmStep
  <1>1. ASSUME NEW fd \in Fds PROVE ~GateCloseUnknown(fd) /\ ~GateKickEnd(fd)
    BY DEF GateCloseUnknown, CloseUnknown, GateKickEnd, KickEnd, Base, Sockets, Socket, NoKicks
  <1>2. ~GateKickUnknown /\ ~GateKickRaw /\ ~GateKickBegin /\ ~HubDoKick
    BY NoKickHead DEF GateKickUnknown, KickUnknown, GateKickRaw, KickRaw, GateKickBegin,
       KickBegin, HubDoKick, HubKick
  <1>3. ASSUME NEW r \in Requests PROVE ~HubRejects(r) /\ ~HubSlaveKick(r) /\ ~HubReconnects(r)
    <2>1. ~HubSlaveKick(r)
      BY DEF HubSlaveKick, SlaveKick, Base, NoKicks
    <2>2. ~HubRejects(r)
      BY TakenHandshake DEF HubRejects, HandshakeUnauthorized
    <2>3. ~HubReconnects(r)
      BY TakenHandshake DEF HubReconnects, HandshakeReconnect
    <2> QED BY <2>1, <2>2, <2>3
  <1>4. CASE Client
    BY <1>1, <1>4 DEF Client, GateClose, CalmStep, LoginSteps, GateSteps
  <1>5. CASE LoginStep
    BY <1>5 DEF LoginStep, CalmStep, LoginSteps
  <1>6. CASE GateStep
    BY <1>1, <1>2, <1>6 DEF GateStep, GateClose, CalmStep, GateSteps
  <1>7. CASE HubStep
    BY <1>2, <1>3, <1>7 DEF HubStep, CalmStep, HubMoves
  <1>8. CASE PoolStep \/ \E a \in Agents : AgentStep(a)
    BY <1>8 DEF PoolStep, CalmStep, BackStep
  <1> QED BY <1>4, <1>5, <1>6, <1>7, <1>8 DEF Next, CalmStep

(* What a step of hubd does that moves the handshake r. *)
HubMove(r) ==
    /\ hubq # <<>> /\ Head(hubq).type \in ReqTypes /\ Head(hubq).req = r
    /\ hubq' = Tail(hubq) /\ hs[r].pc = Awaits(Head(hubq).type)
    /\ hs[r].tok \in Logins
    /\ \A q \in Requests : /\ q # r => hs'[q] = hs[q]
                           /\ hs'[q].fd = hs[q].fd /\ hs'[q].tok = hs[q].tok
                           /\ hs'[q].uid = hs[q].uid
    /\ \/ Head(hubq).type = "handshake" /\ hs[r].pc = "sent" /\ hs'[r].pc \in {"refused", "get"}
       \/ Head(hubq).type = "got" /\ hs[r].pc = "get" /\ hs'[r].pc = "start"
       \/ Head(hubq).type = "started" /\ hs[r].pc = "start" /\ hs'[r].pc = "register"
       \/ Head(hubq).type = "failed" /\ hs[r].pc = "start" /\ hs'[r].pc = "error"
       \/ /\ Head(hubq).type = "registered" /\ hs[r].pc = "register"
          /\ hs'[r].pc = IF Head(hubq).res THEN "done" ELSE "asserted"
    /\ \A l \in Logins : /\ l # hs[r].tok => user'[l] = user[l]
                         /\ user'[l].uid = user[l].uid
    /\ user'[hs[r].tok].conn = IF hs'[r].pc = "get" THEN hs[r].fd ELSE user[hs[r].tok].conn
    /\ user'[hs[r].tok].agent = IF hs'[r].pc = "start" THEN Head(hubq).agent
                                ELSE user[hs[r].tok].agent
    /\ hs'[r].pc = "get" => User_Map[hs[r].uid] = hs[r].tok
    /\ FD_Map' = IF hs'[r].pc = "done" THEN FD_Map \ {hs[r].fd} ELSE FD_Map
    /\ GateMail({"register"})
    /\ UNCHANGED <<loginVars, User_Map, sock, gs, connection, kicking, closing>>

LEMMA HubMovesView ==
    ASSUME HandshakeInv, Base, HubMoves
    PROVE  \E r \in Requests : HubMove(r)
  <1>t. gateq \in Seq(GateMsg) /\ hubq \in Seq(HubMsg) /\ user \in UserType
    BY DEF HandshakeInv, TypeOK, GateTypeOK, HubTypeOK, UserType
  <1>1. ASSUME NEW r, NEW p \in HsPc, hubq # <<>>, Head(hubq).type \in ReqTypes,
               hubq' = Tail(hubq), r = Head(hubq).req, HsTo(r, p)
        PROVE  /\ r \in Requests /\ hs[r].pc = Awaits(Head(hubq).type) /\ hs[r].tok \in Logins
               /\ \A q \in Requests : /\ q # r => hs'[q] = hs[q]
                                      /\ hs'[q].fd = hs[q].fd /\ hs'[q].tok = hs[q].tok
                                      /\ hs'[q].uid = hs[q].uid
               /\ hs'[r].pc = p
    <2>1. r \in Requests /\ hs[r].pc = Awaits(Head(hubq).type) /\ hs[r].tok \in Logins
      BY <1>1, HubAnswer
    <2> QED BY <1>1, <2>1, HsToFacts DEF HsTo
  <1>2. ASSUME NEW r \in Requests, HubRefuses(r) PROVE HubMove(r)
    <2>1. /\ hubq # <<>> /\ Head(hubq).type = "handshake" /\ hubq' = Tail(hubq)
          /\ r = Head(hubq).req /\ HsTo(r, "refused") /\ UNCHANGED <<User_Map, user, FD_Map>>
          /\ UNCHANGED <<loginVars, gateVars>>
      BY <1>2 DEF HubRefuses, HandshakeRefused, HubHas
    <2>2. "refused" \in HsPc /\ "handshake" \in ReqTypes /\ Awaits("handshake") = "sent"
      BY DEF HsPc, Outcome, ReqTypes, Awaits
    <2>3. /\ hs[r].pc = "sent" /\ hs[r].tok \in Logins
          /\ \A q \in Requests : /\ q # r => hs'[q] = hs[q]
                                 /\ hs'[q].fd = hs[q].fd /\ hs'[q].tok = hs[q].tok
                                 /\ hs'[q].uid = hs[q].uid
          /\ hs'[r].pc = "refused"
      BY <1>1, <2>1, <2>2
    <2> QED BY <2>1, <2>2, <2>3 DEF HubMove, GateMail, gateVars
  <1>3. ASSUME NEW r \in Requests, HubFirst(r) PROVE HubMove(r)
    <2>1. /\ hubq # <<>> /\ Head(hubq).type = "handshake" /\ hubq' = Tail(hubq)
          /\ r = Head(hubq).req /\ HsTo(r, "get") /\ UNCHANGED <<User_Map, FD_Map>>
          /\ UNCHANGED <<loginVars, gateVars>> /\ User_Map[hs[r].uid] = hs[r].tok
          /\ hs[r].fd \in FD_Map /\ user' = [user EXCEPT ![hs[r].tok].conn = hs[r].fd]
      BY <1>3 DEF HubFirst, HandshakeFirst, HubHas, TokenAccepted
    <2>2. "get" \in HsPc /\ "handshake" \in ReqTypes /\ Awaits("handshake") = "sent"
      BY DEF HsPc, Outcome, ReqTypes, Awaits
    <2>3. /\ hs[r].pc = "sent" /\ hs[r].tok \in Logins
          /\ \A q \in Requests : /\ q # r => hs'[q] = hs[q]
                                 /\ hs'[q].fd = hs[q].fd /\ hs'[q].tok = hs[q].tok
                                 /\ hs'[q].uid = hs[q].uid
          /\ hs'[r].pc = "get"
      BY <1>1, <2>1, <2>2
    <2>4. hs[r].fd \in Fds
      BY <2>1 DEF HandshakeInv, TypeOK, HubTypeOK
    <2>5. /\ \A k \in Logins : user'[k].uid = user[k].uid /\ user'[k].agent = user[k].agent
          /\ \A k \in Logins : k # hs[r].tok => user'[k] = user[k]
          /\ user'[hs[r].tok].conn = hs[r].fd
      BY <2>1, <2>3, <2>4, UserConnFacts
    <2> QED BY <2>1, <2>2, <2>3, <2>5 DEF HubMove, GateMail, gateVars
  <1>4. ASSUME HubGotAgent PROVE \E r \in Requests : HubMove(r)
    <2>1. PICK r : r = Head(hubq).req
      OBVIOUS
    <2>2. /\ hubq # <<>> /\ Head(hubq).type = "got" /\ hubq' = Tail(hubq)
          /\ HsTo(r, "start") /\ UNCHANGED <<User_Map, FD_Map>>
          /\ UNCHANGED <<loginVars, gateVars>>
          /\ user' = [user EXCEPT ![hs[r].tok].agent = Head(hubq).agent]
      BY <1>4, <2>1 DEF HubGotAgent, GotAgent, HubHas
    <2>3. "start" \in HsPc /\ "got" \in ReqTypes /\ Awaits("got") = "get"
      BY DEF HsPc, Outcome, ReqTypes, Awaits
    <2>4. /\ r \in Requests /\ hs[r].pc = "get" /\ hs[r].tok \in Logins
          /\ \A q \in Requests : /\ q # r => hs'[q] = hs[q]
                                 /\ hs'[q].fd = hs[q].fd /\ hs'[q].tok = hs[q].tok
                                 /\ hs'[q].uid = hs[q].uid
          /\ hs'[r].pc = "start"
      BY <1>1, <2>1, <2>2, <2>3
    <2>5. Head(hubq).agent \in Agents
      BY <1>t, <2>2, TailFacts, HubMsgFacts
    <2>6. /\ \A k \in Logins : user'[k].uid = user[k].uid /\ user'[k].conn = user[k].conn
          /\ \A k \in Logins : k # hs[r].tok => user'[k] = user[k]
          /\ user'[hs[r].tok].agent = Head(hubq).agent
      BY <2>2, <2>4, <2>5, UserAgentFacts
    <2>7. HubMove(r)
      BY <2>1, <2>2, <2>3, <2>4, <2>6 DEF HubMove, GateMail, gateVars
    <2> QED BY <2>4, <2>7
  <1>5. ASSUME HubStarted PROVE \E r \in Requests : HubMove(r)
    <2>1. PICK r : r = Head(hubq).req
      OBVIOUS
    <2>2. /\ hubq # <<>> /\ Head(hubq).type = "started" /\ hubq' = Tail(hubq)
          /\ HsTo(r, "register") /\ UNCHANGED <<User_Map, user, FD_Map, loginVars>>
          /\ GateRecv([type |-> "register", req |-> r, fd |-> hs[r].fd,
                       uid |-> user[hs[r].tok].uid, agent |-> user[hs[r].tok].agent])
      BY <1>5, <2>1 DEF HubStarted, Started, HubHas
    <2>3. "register" \in HsPc /\ "started" \in ReqTypes /\ Awaits("started") = "start"
      BY DEF HsPc, Outcome, ReqTypes, Awaits
    <2>4. /\ r \in Requests /\ hs[r].pc = "start" /\ hs[r].tok \in Logins
          /\ \A q \in Requests : /\ q # r => hs'[q] = hs[q]
                                 /\ hs'[q].fd = hs[q].fd /\ hs'[q].tok = hs[q].tok
                                 /\ hs'[q].uid = hs[q].uid
          /\ hs'[r].pc = "register"
      BY <1>1, <2>1, <2>2, <2>3
    <2>5. GateMail({"register"})
      <3> DEFINE m == [type |-> "register", req |-> r, fd |-> hs[r].fd,
                       uid |-> user[hs[r].tok].uid, agent |-> user[hs[r].tok].agent]
      <3>1. hs[r].fd \in Fds /\ attempt[hs[r].tok].pc = "200" /\ UserOf(r).agent # None
        BY <2>4 DEF HandshakeInv, Presented
      <3>2. user[hs[r].tok].uid \in Uids /\ user[hs[r].tok].agent \in Agents
        BY <1>t, <2>4, <3>1 DEF HandshakeInv, Granted, UserOf, UserType
      <3>3. m \in GateMsg
        BY <2>4, <3>1, <3>2 DEF GateMsg
      <3> QED BY <2>2, <3>3 DEF GateMail, GateRecv
    <2>6. HubMove(r)
      BY <2>1, <2>2, <2>3, <2>4, <2>5 DEF HubMove, GateRecv
    <2> QED BY <2>4, <2>6
  <1>6. ASSUME HubStartFailed PROVE \E r \in Requests : HubMove(r)
    <2>1. PICK r : r = Head(hubq).req
      OBVIOUS
    <2>2. /\ hubq # <<>> /\ Head(hubq).type = "failed" /\ hubq' = Tail(hubq)
          /\ HsTo(r, "error") /\ UNCHANGED <<User_Map, user, FD_Map, loginVars, gateVars>>
      BY <1>6, <2>1 DEF HubStartFailed, StartFailed, HubHas
    <2>3. "error" \in HsPc /\ "failed" \in ReqTypes /\ Awaits("failed") = "start"
      BY DEF HsPc, Outcome, ReqTypes, Awaits
    <2>4. /\ r \in Requests /\ hs[r].pc = "start" /\ hs[r].tok \in Logins
          /\ \A q \in Requests : /\ q # r => hs'[q] = hs[q]
                                 /\ hs'[q].fd = hs[q].fd /\ hs'[q].tok = hs[q].tok
                                 /\ hs'[q].uid = hs[q].uid
          /\ hs'[r].pc = "error"
      BY <1>1, <2>1, <2>2, <2>3
    <2>5. HubMove(r)
      BY <2>1, <2>2, <2>3, <2>4 DEF HubMove, GateMail, gateVars
    <2> QED BY <2>4, <2>5
  <1>7. ASSUME HubRegistered PROVE \E r \in Requests : HubMove(r)
    <2>1. PICK r : r = Head(hubq).req
      OBVIOUS
    <2> DEFINE p == IF Head(hubq).res THEN "done" ELSE "asserted"
    <2>2. /\ hubq # <<>> /\ Head(hubq).type = "registered" /\ hubq' = Tail(hubq)
          /\ HsTo(r, p) /\ UNCHANGED <<User_Map, user, loginVars, gateVars>>
          /\ FD_Map' = IF Head(hubq).res THEN FD_Map \ {hs[r].fd} ELSE FD_Map
      BY <1>7, <2>1 DEF HubRegistered, Registered, HubHas
    <2>3. p \in HsPc /\ "registered" \in ReqTypes /\ Awaits("registered") = "register"
      BY DEF HsPc, Outcome, ReqTypes, Awaits
    <2>4. /\ r \in Requests /\ hs[r].pc = "register" /\ hs[r].tok \in Logins
          /\ \A q \in Requests : /\ q # r => hs'[q] = hs[q]
                                 /\ hs'[q].fd = hs[q].fd /\ hs'[q].tok = hs[q].tok
                                 /\ hs'[q].uid = hs[q].uid
          /\ hs'[r].pc = p
      BY <1>1, <2>1, <2>2, <2>3
    <2>5. HubMove(r)
      BY <2>1, <2>2, <2>3, <2>4 DEF HubMove, GateMail, gateVars
    <2> QED BY <2>4, <2>5
  <1> QED BY <1>2, <1>3, <1>4, <1>5, <1>6, <1>7 DEF HubMoves

(* The pool and the agents tell hubd, and nobody else. *)
LEMMA BackView ==
    ASSUME HandshakeInv, BackStep
    PROVE  /\ HubMail({"got", "started", "failed"})
           /\ UNCHANGED <<loginVars, gateVars, User_Map, user, FD_Map, hs>>
  <1>t. /\ pool \in Seq(Agents) /\ loading \subseteq [req: Requests, agent: Agents]
        /\ spawning \subseteq [req: Requests, agent: Agents \cup {None}, left: 1..ExpandBy]
        /\ agentq \in [Agents -> Seq(AgentMsg)]
    BY DEF HandshakeInv, TypeOK, PoolTypeOK
  <1>1. ASSUME NEW r \in Requests, PoolGet(r)
        PROVE  /\ HubMail({"got", "started", "failed"})
               /\ UNCHANGED <<loginVars, gateVars, User_Map, user, FD_Map, hs>>
    <2>1. pool[Len(pool)] \in Agents
      BY <1>t, <1>1, FrontFacts DEF PoolGet, GetPooled
    <2>2. [type |-> "got", req |-> r, agent |-> pool[Len(pool)]] \in HubMsg
      BY <2>1 DEF HubMsg
    <2> QED BY <1>1, <2>2 DEF PoolGet, HubRecv, HubMail
  <1>2. ASSUME NEW w \in spawning, PoolExpands(w)
        PROVE  /\ HubMail({"got", "started", "failed"})
               /\ UNCHANGED <<loginVars, gateVars, User_Map, user, FD_Map, hs>>
    <2>1. w.agent \in Agents /\ w.req \in Requests
      BY <1>t, <1>2 DEF PoolExpands, ExpandPool
    <2>2. [type |-> "got", req |-> w.req, agent |-> w.agent] \in HubMsg
      BY <2>1 DEF HubMsg
    <2> QED BY <1>2, <2>2 DEF PoolExpands, HubRecv, HubMail, hubVars
  <1>3. ASSUME NEW a \in Agents, NEW r \in Requests,
               \/ AgentAnswers([req |-> r, agent |-> a])
               \/ AgentRaises([req |-> r, agent |-> a])
        PROVE  /\ HubMail({"got", "started", "failed"})
               /\ UNCHANGED <<loginVars, gateVars, User_Map, user, FD_Map, hs>>
    <2>1. PICK t \in {"started", "failed"} : HubRecv([type |-> t, req |-> r])
      BY <1>3 DEF AgentAnswers, AgentRaises
    <2>2. [type |-> t, req |-> r] \in HubMsg
      BY DEF HubMsg
    <2> QED BY <1>3, <2>1, <2>2 DEF AgentAnswers, AgentRaises, HubRecv, HubMail
  <1>4. ASSUME NEW a \in Agents, AgentGone(a)
        PROVE  /\ HubMail({"got", "started", "failed"})
               /\ UNCHANGED <<loginVars, gateVars, User_Map, user, FD_Map, hs>>
    <2>1. CASE AgentHas(a, "start")
      <3>1. Head(agentq[a]).req \in Requests
        BY <1>t, <2>1, TailFacts, AgentMsgFacts DEF AgentHas
      <3>2. [type |-> "failed", req |-> Head(agentq[a]).req] \in HubMsg
        BY <3>1 DEF HubMsg
      <3> QED BY <1>4, <2>1, <3>2 DEF AgentGone, HubRecv, HubMail
    <2>2. CASE ~AgentHas(a, "start")
      BY <1>4, <2>2 DEF AgentGone, HubMail, hubVars
    <2> QED BY <2>1, <2>2
  <1>5. ASSUME \/ \E r \in Requests : PoolMiss(r)
               \/ \E w \in spawning : PoolCreated(w)
               \/ \E a \in Agents : \/ PoolRecycle(a) \/ AgentDoStart(a)
                                    \/ AgentDoLogout(a) \/ AgentDoSaved(a)
                                    \/ AgentDoSaveRaised(a)
        PROVE  /\ HubMail({"got", "started", "failed"})
               /\ UNCHANGED <<loginVars, gateVars, User_Map, user, FD_Map, hs>>
    BY <1>5 DEF PoolMiss, PoolCreated, PoolRecycle, AgentDoStart, AgentDoLogout, AgentDoSaved,
       AgentDoSaveRaised, hubVars, HubMail
  <1>6. ASSUME NEW a \in Agents, AgentStep(a)
        PROVE  /\ HubMail({"got", "started", "failed"})
               /\ UNCHANGED <<loginVars, gateVars, User_Map, user, FD_Map, hs>>
    BY <1>3, <1>4, <1>5, <1>6 DEF AgentStep
  <1> QED BY <1>1, <1>2, <1>5, <1>6 DEF BackStep

(* The login master changes hubd's tables only by access, for a login whose
   token nobody can have presented. *)
LEMMA LoginStepsView ==
    ASSUME HandshakeInv, Base, LoginSteps
    PROVE  /\ UNCHANGED <<hubq, FD_Map, hs, gateVars, poolVars, agentVars>>
           /\ \A r \in Requests : hs[r].pc # "none" => UserOf(r)' = UserOf(r)
           /\ \A uid \in Uids : User_Map[uid] # None => User_Map'[uid] # None
  <1>1. ASSUME NEW l \in Logins, LoginUnauthorized(l) \/ LoginOk(l) \/ LoginFailed(l)
        PROVE  UNCHANGED <<hubVars, gateVars, poolVars, agentVars>>
    BY <1>1 DEF LoginUnauthorized, LoginOk, LoginFailed
  <1>2. ASSUME NEW l \in Logins, NEW uid \in Uids, LoginRefused(l, uid) \/ LoginEnter(l, uid)
        PROVE  UNCHANGED <<hubVars, gateVars, poolVars, agentVars>>
    BY <1>2 DEF LoginRefused, LoginEnter, Base, NoKicks
  <1>3. ASSUME NEW uid \in Uids, LoginForget(uid)
        PROVE  UNCHANGED <<hubVars, gateVars, poolVars, agentVars>>
    BY <1>3 DEF LoginForget
  <1>4. ASSUME UNCHANGED <<hubVars, gateVars, poolVars, agentVars>>
        PROVE  /\ UNCHANGED <<hubq, FD_Map, hs, gateVars, poolVars, agentVars>>
               /\ \A r \in Requests : hs[r].pc # "none" => UserOf(r)' = UserOf(r)
               /\ \A uid \in Uids : User_Map[uid] # None => User_Map'[uid] # None
    BY <1>4 DEF hubVars, UserOf
  <1>5. ASSUME NEW l \in Logins, LoginAccess(l)
        PROVE  /\ UNCHANGED <<hubq, FD_Map, hs, gateVars, poolVars, agentVars>>
               /\ \A r \in Requests : hs[r].pc # "none" => UserOf(r)' = UserOf(r)
               /\ \A uid \in Uids : User_Map[uid] # None => User_Map'[uid] # None
    <2>1. /\ UNCHANGED <<hubq, FD_Map, hs, gateVars, poolVars, agentVars>>
          /\ attempt[l].pc = "login" /\ User_Map' = [User_Map EXCEPT ![attempt[l].uid] = l]
          /\ \A k \in Logins : k # l => user'[k] = user[k]
      BY <1>5 DEF LoginAccess, Access, Accessed, HandshakeInv, TypeOK, HubTypeOK
    <2>2. \A r \in Requests : hs[r].pc # "none" => hs[r].tok \in Logins /\ hs[r].tok # l
      BY <2>1 DEF HandshakeInv, Presented
    <2>3. \A uid \in Uids : User_Map[uid] # None => User_Map'[uid] # None
      BY <2>1, EntitiesAssumption DEF HandshakeInv, TypeOK, HubTypeOK
    <2> QED BY <2>1, <2>2, <2>3 DEF UserOf
  <1> QED BY <1>1, <1>2, <1>3, <1>4, <1>5 DEF LoginSteps

-----------------------------------------------------------------------------
(* One login for a uid, one handshake for a login *)

(* The tables OneEach is about stay, or uids leave User_Map. *)
LEMMA OneEachKept ==
    ASSUME Base, attempt' = attempt, hs' = hs, user' = user,
           \A uid \in Uids : User_Map'[uid] \in {None, User_Map[uid]}
    PROVE  OneEach'
  BY DEF Base, OneEach, UserOf

LEMMA OneEachLogin ==
    ASSUME Calm, HandshakeInv, Base, LoginSteps
    PROVE  OneEach'
  <1>t. /\ attempt \in [Logins -> [pc: AttemptPc, uid: Uids \cup {None}]]
        /\ User_Map \in [Uids -> Logins \cup {None}] /\ user \in UserType
    BY DEF HandshakeInv, TypeOK, LoginTypeOK, HubTypeOK, UserType
  <1>n. None \notin Uids /\ None \notin Logins /\ None \notin Fds
    BY EntitiesAssumption
  <1>h. hs' = hs
    BY LoginStepsView
  (* A login moves on, with the uid it has. *)
  <1>1. ASSUME NEW l \in Logins, NEW p \in AttemptPc, attempt' = [attempt EXCEPT ![l].pc = p],
               attempt[l].pc # "200", UNCHANGED <<user, User_Map>>, p \notin {"new", "login"},
               p \in {"accessed", "200"} => attempt[l].pc = "accessed"
        PROVE  OneEach'
    <2>1. /\ \A k \in Logins : k # l => attempt'[k] = attempt[k]
          /\ attempt'[l].pc = p /\ \A k \in Logins : attempt'[k].uid = attempt[k].uid
      BY <1>t, <1>1
    <2>2. \A r \in Requests : hs[r].pc # "none" => hs[r].tok \in Logins
      BY DEF HandshakeInv, Presented
    <2> QED BY <1>t, <1>h, <1>1, <2>1, <2>2 DEF Base, OneEach, UserOf
  (* A login gets its uid. *)
  <1>2. ASSUME NEW l \in Logins, NEW uid \in Uids, NEW p \in {"406", "login"},
               attempt[l].pc = "new", attempt' = [attempt EXCEPT ![l] = [pc |-> p, uid |-> uid]],
               MayLogIn(uid), UNCHANGED <<user, User_Map>>
        PROVE  OneEach'
    <2>1. /\ \A k \in Logins : k # l => attempt'[k] = attempt[k]
          /\ attempt'[l].pc = p /\ attempt'[l].uid = uid
      BY <1>t, <1>2
    <2>2. \A k \in Logins : attempt[k].uid # uid
      BY <1>2 DEF Calm, MayLogIn
    <2>3. /\ attempt[l].uid = None
          /\ \A u \in Uids : User_Map[u] # None => User_Map[u] \in Logins /\ User_Map[u] # l
          /\ \A r \in Requests : hs[r].pc # "none" => hs[r].tok \in Logins /\ hs[r].tok # l
      BY <1>t, <1>n, <1>2 DEF Base, OneEach, HandshakeInv, Presented
    <2>4. \A i, j \in Logins : attempt'[i].uid # None /\ attempt'[i].uid = attempt'[j].uid => i = j
      BY <2>1, <2>2 DEF Base, OneEach
    <2> QED BY <1>h, <1>2, <2>1, <2>3, <2>4 DEF Base, OneEach, UserOf
  <1>3. ASSUME NEW l \in Logins, LoginUnauthorized(l) PROVE OneEach'
    BY <1>1, <1>3 DEF LoginUnauthorized, Unauthorized, hubVars, AttemptPc
  <1>4. ASSUME NEW l \in Logins, LoginOk(l) PROVE OneEach'
    BY <1>1, <1>4 DEF LoginOk, HandlerOk, hubVars, AttemptPc
  <1>5. ASSUME NEW l \in Logins, LoginFailed(l) PROVE OneEach'
    BY <1>1, <1>5 DEF LoginFailed, HandlerFailed, InHandler, hubVars, AttemptPc
  <1>6. ASSUME NEW l \in Logins, NEW uid \in Uids, LoginRefused(l, uid) PROVE OneEach'
    BY <1>2, <1>6 DEF LoginRefused, Refuse, hubVars
  <1>7. ASSUME NEW l \in Logins, NEW uid \in Uids, LoginEnter(l, uid) PROVE OneEach'
    BY <1>2, <1>7 DEF LoginEnter, EnterHandler, hubVars, Base, NoKicks
  <1>8. ASSUME NEW uid \in Uids, LoginForget(uid) PROVE OneEach'
    BY <1>8, OneEachKept DEF LoginForget, LoginLogout, hubVars
  <1>9. ASSUME NEW l \in Logins, LoginAccess(l) PROVE OneEach'
    <2>1. /\ attempt[l].pc = "login" /\ attempt' = [attempt EXCEPT ![l].pc = "accessed"]
          /\ User_Map' = [User_Map EXCEPT ![attempt[l].uid] = l]
          /\ user' = [user EXCEPT ![l] = [uid |-> attempt[l].uid, conn |-> None, agent |-> None]]
      BY <1>9 DEF LoginAccess, Accessed, Access
    <2>2. /\ \A k \in Logins : k # l => attempt'[k] = attempt[k]
          /\ attempt'[l].pc = "accessed" /\ \A k \in Logins : attempt'[k].uid = attempt[k].uid
      BY <1>t, <2>1 DEF AttemptPc
    <2>3. /\ \A k \in Logins : k # l => user'[k] = user[k]
          /\ user'[l].uid = attempt[l].uid /\ user'[l].conn = None
      BY <1>t, <2>1 DEF UserType
    <2>4. \A r \in Requests : hs[r].pc # "none" => hs[r].tok \in Logins /\ hs[r].tok # l
      BY <2>1 DEF HandshakeInv, Presented
    <2>5. attempt[l].uid \in Uids
      BY <2>1 DEF HandshakeInv, Granted
    <2>6. \A u \in Uids : User_Map'[u] # None => attempt'[User_Map'[u]].uid = u
      <3> SUFFICES ASSUME NEW u \in Uids, User_Map'[u] # None
                   PROVE  attempt'[User_Map'[u]].uid = u
        OBVIOUS
      <3>1. User_Map'[u] = IF u = attempt[l].uid THEN l ELSE User_Map[u]
        BY <1>t, <2>1
      <3>2. User_Map[u] \in Logins \cup {None}
        BY <1>t
      <3> QED BY <2>2, <3>1, <3>2 DEF Base, OneEach
    <2>7. \A r \in Requests : hs[r].pc # "none" =>
             attempt'[hs[r].tok].uid = attempt[hs[r].tok].uid /\ user'[hs[r].tok] = user[hs[r].tok]
      BY <2>2, <2>3, <2>4
    <2>8. /\ \A i, j \in Logins : attempt'[i].uid # None /\ attempt'[i].uid = attempt'[j].uid => i = j
          /\ \A k \in Logins : attempt'[k].pc \in {"accessed", "200"} => user'[k].uid = attempt'[k].uid
          /\ \A k \in Logins : attempt'[k].pc = "new" => attempt'[k].uid = None
      BY <2>2, <2>3 DEF Base, OneEach
    <2>9. \A k \in Logins : user'[k].conn # None =>
            /\ attempt'[k].pc \notin {"new", "login"}
            /\ \E r \in Requests : hs[r].tok = k /\ hs[r].pc # "sent"
      BY <2>2, <2>3 DEF Base, OneEach
    <2>10. \A r \in Requests : /\ hs[r].pc = "none" => hs[r].tok = None
                               /\ hs[r].pc # "none" => hs[r].uid = attempt'[hs[r].tok].uid
                               /\ hs[r].pc \in Working => user'[hs[r].tok].conn = hs[r].fd
      BY <2>7 DEF Base, OneEach, Working, UserOf
    <2>11. \A q, r \in Requests : hs[q].tok # None /\ hs[q].tok = hs[r].tok => q = r
      BY DEF Base, OneEach
    <2> QED BY <1>h, <2>6, <2>8, <2>9, <2>10, <2>11 DEF OneEach, UserOf
  <1> QED BY <1>3, <1>4, <1>5, <1>6, <1>7, <1>8, <1>9 DEF LoginSteps

LEMMA OneEachPresents ==
    ASSUME Calm, HandshakeInv, Base, NEW r \in Requests, NEW fd \in Fds, NEW l \in Logins,
           ClientHandshake(r, fd, l)
    PROVE  OneEach'
  <1>1. /\ attempt[l].pc = "200" /\ hs[r].pc = "none" /\ \A q \in Requests : hs[q].tok # l
        /\ hs' = [hs EXCEPT ![r] = [pc |-> "sent", fd |-> fd, tok |-> l, uid |-> attempt[l].uid]]
        /\ UNCHANGED <<attempt, User_Map, user>>
    BY DEF ClientHandshake, Present, loginVars, Calm
  <1>2. /\ \A q \in Requests : q # r => hs'[q] = hs[q]
        /\ hs'[r].pc = "sent" /\ hs'[r].tok = l /\ hs'[r].uid = attempt[l].uid
    BY <1>1 DEF HandshakeInv, TypeOK, HubTypeOK
  <1>3. hs[r].tok = None
    BY <1>1 DEF Base, OneEach
  <1>4. \A k \in Logins : user[k].conn # None =>
           \E q \in Requests : hs'[q].tok = k /\ hs'[q].pc # "sent"
    <2> SUFFICES ASSUME NEW k \in Logins, user[k].conn # None
                 PROVE  \E q \in Requests : hs'[q].tok = k /\ hs'[q].pc # "sent"
      OBVIOUS
    <2>1. PICK q \in Requests : hs[q].tok = k /\ hs[q].pc # "sent"
      BY DEF Base, OneEach
    <2> QED BY <1>2, <1>3, <2>1, EntitiesAssumption
  <1> QED BY <1>1, <1>2, <1>4 DEF Base, OneEach, Working, UserOf

LEMMA OneEachMoves ==
    ASSUME HandshakeInv, Base, NEW r \in Requests, HubMove(r)
    PROVE  OneEach'
  <1>1. /\ hs[r].tok \in Logins /\ hs[r].pc # "none" /\ hs'[r].pc \notin {"none", "sent"}
        /\ \A q \in Requests : /\ q # r => hs'[q] = hs[q]
                               /\ hs'[q].fd = hs[q].fd /\ hs'[q].tok = hs[q].tok
                               /\ hs'[q].uid = hs[q].uid
        /\ \A l \in Logins : /\ l # hs[r].tok => user'[l] = user[l]
                             /\ user'[l].uid = user[l].uid
        /\ user'[hs[r].tok].conn = IF hs'[r].pc = "get" THEN hs[r].fd ELSE user[hs[r].tok].conn
        /\ hs'[r].pc \in Working /\ hs'[r].pc # "get" => hs[r].pc \in Working
        /\ UNCHANGED <<attempt, User_Map>>
    BY DEF HubMove, loginVars, Working
  <1>2. \A q \in Requests : q # r /\ hs[q].pc # "none" => hs[q].tok \in Logins /\ hs[q].tok # hs[r].tok
    <2>1. hs[r].tok # None
      BY <1>1, EntitiesAssumption
    <2> QED BY <2>1 DEF HandshakeInv, Presented, Base, OneEach
  <1>3. attempt[hs[r].tok].pc = "200"
    BY <1>1 DEF HandshakeInv, Presented
  <1>4. \A k \in Logins : user'[k].conn # None =>
           /\ attempt[k].pc \notin {"new", "login"}
           /\ \E q \in Requests : hs'[q].tok = k /\ hs'[q].pc # "sent"
    <2> SUFFICES ASSUME NEW k \in Logins, user'[k].conn # None
                 PROVE  /\ attempt[k].pc \notin {"new", "login"}
                        /\ \E q \in Requests : hs'[q].tok = k /\ hs'[q].pc # "sent"
      OBVIOUS
    <2>1. CASE k = hs[r].tok
      BY <1>1, <1>3, <2>1
    <2>2. CASE k # hs[r].tok
      <3>1. user[k].conn # None
        BY <1>1, <2>2
      <3>2. PICK q \in Requests : hs[q].tok = k /\ hs[q].pc # "sent"
        BY <3>1 DEF Base, OneEach
      <3> QED BY <1>1, <2>2, <3>1, <3>2 DEF Base, OneEach
    <2> QED BY <2>1, <2>2
  <1>5. \A q \in Requests : hs'[q].pc \in Working => user'[hs[q].tok].conn = hs[q].fd
    <2> SUFFICES ASSUME NEW q \in Requests, hs'[q].pc \in Working
                 PROVE  user'[hs[q].tok].conn = hs[q].fd
      OBVIOUS
    <2>1. CASE q = r
      BY <1>1, <2>1 DEF Base, OneEach, UserOf
    <2>2. CASE q # r
      BY <1>1, <1>2, <2>2 DEF Base, OneEach, UserOf, Working
    <2> QED BY <2>1, <2>2
  <1> QED BY <1>1, <1>4, <1>5 DEF Base, OneEach, UserOf

-----------------------------------------------------------------------------
(* The messages of the other steps *)

(* The steps of the gate, and those of hubd that serve no handshake, leave
   the logins, the handshakes and the user objects alone. *)
QuietStep ==
    GateSteps \/ HubDoConnect \/ HubDoLogout \/ HubDoForget \/ \E S \in SUBSET Uids : Timeout(S)

LEMMA QuietView ==
    ASSUME HandshakeInv, Base, QuietStep
    PROVE  /\ UNCHANGED <<attempt, user_online, hs, user, kicking>>
           /\ \A uid \in Uids : User_Map'[uid] \in {None, User_Map[uid]}
           /\ HubMail(IF GateRegister THEN {"registered"} ELSE {"connect", "logout"})
           /\ GateMail({"connected", "register"})
  <1>t. hubq \in Seq(HubMsg) /\ User_Map \in [Uids -> Logins \cup {None}]
    BY DEF HandshakeInv, TypeOK, HubTypeOK
  <1>0. ASSUME UNCHANGED hubVars
        PROVE  /\ UNCHANGED <<hs, user, User_Map>>
               /\ HubMail({"connect", "logout"})
    BY <1>0 DEF hubVars, HubMail
  <1>1. ASSUME NEW fd \in Fds, GateOpenRefused(fd) \/ GateCloseEnd(fd) PROVE
          /\ UNCHANGED <<attempt, user_online, hs, user, kicking, User_Map>>
          /\ HubMail({"connect", "logout"}) /\ GateMail({"connected", "register"})
    BY <1>0, <1>1 DEF GateOpenRefused, OpenRefused, GateCloseEnd, CloseEnd, GateMail, loginVars
  <1>2. ASSUME NEW fd \in Fds, GateOpen(fd) PROVE
          /\ UNCHANGED <<attempt, user_online, hs, user, kicking, User_Map>>
          /\ HubMail({"connect", "logout"}) /\ GateMail({"connected", "register"})
    <2>1. [type |-> "connect", fd |-> fd] \in HubMsg
      BY DEF HubMsg
    <2>2. HubMail({"connect", "logout"})
      BY <1>2, <2>1 DEF GateOpen, HubRecv, HubMail
    <2> QED BY <1>2, <2>2 DEF GateOpen, Open, GateMail, HubRecv, loginVars
  <1>3. ASSUME NEW fd \in Fds, GateCloseBegin(fd) PROVE
          /\ UNCHANGED <<attempt, user_online, hs, user, kicking, User_Map>>
          /\ HubMail({"connect", "logout"}) /\ GateMail({"connected", "register"})
    <2>1. LogoutMsg(fd) \in HubMsg
      BY <1>3 DEF GateCloseBegin, CloseBegin, LogoutMsg, HubMsg, HandshakeInv, TypeOK,
         GateTypeOK, Conn
    <2>2. LogoutMsg(fd).type = "logout"
      BY DEF LogoutMsg
    <2>3. HubMail({"connect", "logout"})
      BY <1>3, <2>1, <2>2 DEF GateCloseBegin, HubRecv, HubMail
    <2> QED BY <1>3, <2>3 DEF GateCloseBegin, CloseBegin, GateMail, HubRecv, loginVars
  <1>4. ASSUME GateConnected PROVE
          /\ UNCHANGED <<attempt, user_online, hs, user, kicking, User_Map>>
          /\ HubMail({"connect", "logout"}) /\ GateMail({"connected", "register"})
    <2>1. UNCHANGED hubVars
      BY <1>4 DEF GateConnected
    <2>2. GateMail({"connected", "register"})
      BY <1>4 DEF GateConnected, Connected, GateHas, GateMail
    <2> QED BY <1>0, <1>4, <2>1, <2>2 DEF GateConnected, Connected, loginVars
  <1>5. ASSUME GateRegister PROVE
          /\ UNCHANGED <<attempt, user_online, hs, user, kicking, User_Map>>
          /\ HubMail({"registered"}) /\ GateMail({"connected", "register"})
    <2>1. gateq # <<>> /\ Head(gateq).type = "register" /\ gateq' = Tail(gateq)
      BY <1>5 DEF GateRegister, Register, GateHas
    <2>2. Head(gateq).req \in Requests
      BY <2>1, GateHead, GateMsgFacts
    <2> DEFINE b == Head(gateq).fd \in DOMAIN connection
    <2>3. b \in BOOLEAN /\ HubRecv([type |-> "registered", req |-> Head(gateq).req, res |-> b])
      BY <1>5 DEF GateRegister
    <2> HIDE DEF b
    <2>4. [type |-> "registered", req |-> Head(gateq).req, res |-> b] \in HubMsg
      BY <2>2, <2>3 DEF HubMsg
    <2>5. HubMail({"registered"})
      BY <2>3, <2>4 DEF HubRecv, HubMail
    <2>6. GateMail({"connected", "register"})
      BY <2>1 DEF GateMail
    <2> QED BY <1>5, <2>3, <2>5, <2>6 DEF GateRegister, Register, HubRecv, loginVars
  <1>6. ASSUME HubDoConnect PROVE
          /\ UNCHANGED <<attempt, user_online, hs, user, kicking, User_Map>>
          /\ HubMail({"connect", "logout"}) /\ GateMail({"connected", "register"})
    <2>1. /\ hubq # <<>> /\ Head(hubq).type = "connect" /\ hubq' = Tail(hubq)
          /\ gateq' = Append(gateq, [type |-> "connected", fd |-> Head(hubq).fd])
          /\ UNCHANGED <<attempt, user_online, hs, user, kicking, User_Map>>
      BY <1>6 DEF HubDoConnect, HubConnect, HubHas, GateRecv, loginVars
    <2>2. [type |-> "connected", fd |-> Head(hubq).fd] \in GateMsg
      BY <1>t, <2>1, TailFacts, HubMsgFacts DEF GateMsg
    <2> QED BY <2>1, <2>2 DEF HubMail, GateMail
  <1>7. ASSUME HubDoLogout PROVE
          /\ UNCHANGED <<attempt, user_online, hs, user, kicking>>
          /\ \A uid \in Uids : User_Map'[uid] \in {None, User_Map[uid]}
          /\ HubMail({"connect", "logout"}) /\ GateMail({"connected", "register"})
    BY <1>t, <1>7 DEF HubDoLogout, HubLogout, HubHas, SendLogouts, gateVars, HubMail, GateMail
  <1>8. ASSUME HubDoForget PROVE
          /\ UNCHANGED <<attempt, user_online, hs, user, kicking, User_Map>>
          /\ HubMail({"connect", "logout"}) /\ GateMail({"connected", "register"})
    BY <1>8 DEF HubDoForget, HubForget, HubHas, loginVars, gateVars, HubMail, GateMail
  <1>9. ASSUME NEW S \in SUBSET Uids, Timeout(S) PROVE
          /\ UNCHANGED <<attempt, user_online, hs, user, kicking>>
          /\ \A uid \in Uids : User_Map'[uid] \in {None, User_Map[uid]}
          /\ HubMail({"connect", "logout"}) /\ GateMail({"connected", "register"})
    BY <1>9 DEF Timeout, Reap, SendLogouts, gateVars, HubMail, GateMail
  <1>10. CASE GateRegister
    BY <1>5, <1>10
  <1>11. CASE ~GateRegister
    BY <1>1, <1>2, <1>3, <1>4, <1>6, <1>7, <1>8, <1>9, <1>11 DEF QuietStep, GateSteps
  <1> QED BY <1>10, <1>11

LEMMA OneEachStep ==
    ASSUME Calm, HandshakeInv, Base, CalmStep
    PROVE  OneEach'
  <1>1. CASE UNCHANGED vars
    BY <1>1, OneEachKept DEF vars, loginVars, hubVars
  <1>2. CASE BackStep
    BY <1>2, BackView, OneEachKept DEF loginVars
  <1>3. CASE QuietStep
    BY <1>3, QuietView, OneEachKept
  <1> QED BY <1>1, <1>2, <1>3, HubMovesView, OneEachMoves, OneEachLogin, OneEachPresents
          DEF CalmStep, QuietStep

-----------------------------------------------------------------------------
(* Nobody is kicked *)

LEMMA NoKicksKept ==
    ASSUME HandshakeInv, Base, NEW T, HubMail(T), "kick" \notin T, NEW U, GateMail(U),
           "kick" \notin U, user_online' = {}, kicking' = kicking,
           \A r \in Requests : hs'[r].pc # "unauthorized"
    PROVE  NoKicks'
  <1>1. /\ \A m \in Kicks : m.type \notin T
        /\ \A m \in Kicks : m.type \notin U
    BY DEF Kicks
  <1>2. Has(hubq', Kicks) <=> Has(hubq, Kicks)
    BY <1>1, HubMailKept
  <1>3. Has(gateq', Kicks) <=> Has(gateq, Kicks)
    BY <1>1, GateMailKept
  <1>4. Kicks' = Kicks
    BY DEF Kicks
  <1> QED BY <1>2, <1>3, <1>4 DEF Base, NoKicks

LEMMA PresentsView ==
    ASSUME HandshakeInv, NEW r \in Requests, NEW fd \in Fds, NEW l \in Logins,
           ClientHandshake(r, fd, l)
    PROVE  /\ attempt[l].pc = "200" /\ sock[fd] = "open" /\ hs[r].pc = "none"
           /\ \A q \in Requests : q # r => hs'[q] = hs[q]
           /\ hs'[r].pc = "sent" /\ hs'[r].fd = fd /\ hs'[r].tok = l /\ hs'[r].uid = attempt[l].uid
           /\ hubq' = Append(hubq, [type |-> "handshake", req |-> r])
           /\ HubMail({"handshake"})
           /\ UNCHANGED <<User_Map, user, FD_Map, loginVars, gateVars, poolVars, agentVars>>
  <1>1. /\ attempt[l].pc = "200" /\ sock[fd] = "open" /\ hs[r].pc = "none"
        /\ hs' = [hs EXCEPT ![r] = [pc |-> "sent", fd |-> fd, tok |-> l, uid |-> attempt[l].uid]]
        /\ hubq' = Append(hubq, [type |-> "handshake", req |-> r])
        /\ UNCHANGED <<User_Map, user, FD_Map, loginVars, gateVars, poolVars, agentVars>>
    BY DEF ClientHandshake, Present, RoutedToHub
  <1>2. /\ \A q \in Requests : q # r => hs'[q] = hs[q]
        /\ hs'[r].pc = "sent" /\ hs'[r].fd = fd /\ hs'[r].tok = l /\ hs'[r].uid = attempt[l].uid
    BY <1>1 DEF HandshakeInv, TypeOK, HubTypeOK
  <1>3. [type |-> "handshake", req |-> r] \in HubMsg
    BY DEF HubMsg
  <1>4. HubMail({"handshake"})
    BY <1>1, <1>3 DEF HubMail
  <1> QED BY <1>1, <1>2, <1>4

LEMMA NoKicksStep ==
    ASSUME HandshakeInv, Base, CalmStep
    PROVE  NoKicks'
  <1>0. user_online = {} /\ \A r \in Requests : hs[r].pc # "unauthorized"
    BY DEF Base, NoKicks
  <1>1. CASE UNCHANGED vars
    <2>1. UNCHANGED <<user_online, hubq, gateq, kicking, hs>>
      BY <1>1 DEF vars, loginVars, hubVars, gateVars
    <2>2. HubMail({}) /\ GateMail({})
      BY <2>1 DEF HubMail, GateMail
    <2> QED BY <1>0, <2>1, <2>2, NoKicksKept
  <1>2. CASE BackStep
    <2>1. GateMail({})
      BY <1>2, BackView DEF gateVars, GateMail
    <2> QED BY <1>0, <1>2, <2>1, BackView, NoKicksKept DEF loginVars, gateVars
  <1>3. CASE QuietStep
    <2>1. "kick" \notin (IF GateRegister THEN {"registered"} ELSE {"connect", "logout"})
      OBVIOUS
    <2> QED BY <1>0, <1>3, <2>1, QuietView, NoKicksKept
  <1>4. CASE HubMoves
    <2>1. PICK r \in Requests : HubMove(r)
      BY <1>4, HubMovesView
    <2>2. HubMail(ReqTypes) /\ "kick" \notin ReqTypes
      BY <2>1 DEF HubMove, HubMail, ReqTypes
    <2>3. \A q \in Requests : hs'[q].pc # "unauthorized"
      BY <1>0, <2>1 DEF HubMove
    <2> QED BY <1>0, <2>1, <2>2, <2>3, NoKicksKept DEF HubMove, loginVars
  <1>5. CASE LoginSteps
    <2>1. user_online' = {}
      BY <1>0, <1>5 DEF LoginSteps, LoginUnauthorized, Unauthorized, LoginAccess, Accessed,
         LoginOk, HandlerOk, LoginFailed, HandlerFailed, LoginRefused, Refuse, LoginEnter,
         EnterHandler, LoginForget, LoginLogout
    <2>2. HubMail({}) /\ GateMail({})
      BY <1>5, LoginStepsView DEF HubMail, GateMail, gateVars
    <2> QED BY <1>0, <1>5, <2>1, <2>2, LoginStepsView, NoKicksKept DEF gateVars
  <1>6. ASSUME NEW r \in Requests, NEW fd \in Fds, NEW l \in Logins, ClientHandshake(r, fd, l)
        PROVE  NoKicks'
    <2>1. GateMail({})
      BY <1>6, PresentsView DEF gateVars, GateMail
    <2>2. \A q \in Requests : hs'[q].pc # "unauthorized"
      <3>1. hs'[r].pc = "sent" /\ \A q \in Requests : q # r => hs'[q] = hs[q]
        BY <1>6, PresentsView
      <3> QED BY <1>0, <3>1
    <2> QED BY <1>0, <1>6, <2>1, <2>2, PresentsView, NoKicksKept DEF loginVars, gateVars
  <1> QED BY <1>1, <1>2, <1>3, <1>4, <1>5, <1>6 DEF CalmStep, QuietStep

-----------------------------------------------------------------------------
(* The life of a socket *)

LEMMA SocketKept ==
    ASSUME Base, NEW fd \in Fds,
           /\ Has(hubq', Connects(fd)) <=> Has(hubq, Connects(fd))
           /\ Single(hubq, Connects(fd)) => Single(hubq', Connects(fd)),
           /\ Has(gateq', Connecteds(fd)) <=> Has(gateq, Connecteds(fd))
           /\ Single(gateq, Connecteds(fd)) => Single(gateq', Connecteds(fd)),
           sock'[fd] = sock[fd], gs'[fd] = gs[fd],
           fd \in DOMAIN connection' <=> fd \in DOMAIN connection,
           fd \in closing' => fd \in closing,
           fd \in FD_Map' => fd \in FD_Map \/ sock[fd] # "none",
           \A r \in Requests : hs'[r].fd = hs[r].fd \/ sock[hs'[r].fd] = "open"
    PROVE  Socket(fd)'
  <1>1. Connects(fd)' = Connects(fd) /\ Connecteds(fd)' = Connecteds(fd)
    BY DEF Connects, Connecteds
  <1>2. Socket(fd)
    BY DEF Base, Sockets
  <1> QED BY <1>1, <1>2 DEF Socket

LEMMA SocketsKept ==
    ASSUME HandshakeInv, Base, NEW T, HubMail(T), "connect" \notin T,
           NEW U, GateMail(U), "connected" \notin U, UNCHANGED <<sock, gs, closing>>,
           DOMAIN connection' = DOMAIN connection, FD_Map' \subseteq FD_Map,
           \A r \in Requests : hs'[r].fd = hs[r].fd \/ sock[hs'[r].fd] = "open"
    PROVE  Sockets'
  <1> SUFFICES ASSUME NEW fd \in Fds PROVE Socket(fd)'
    BY DEF Sockets
  <1>1. /\ \A m \in Connects(fd) : m.type \notin T
        /\ \A m \in Connecteds(fd) : m.type \notin U
    BY DEF Connects, Connecteds
  <1>2. /\ Has(hubq', Connects(fd)) <=> Has(hubq, Connects(fd))
        /\ Single(hubq, Connects(fd)) => Single(hubq', Connects(fd))
    BY <1>1, HubMailKept
  <1>3. /\ Has(gateq', Connecteds(fd)) <=> Has(gateq, Connecteds(fd))
        /\ Single(gateq, Connecteds(fd)) => Single(gateq', Connecteds(fd))
    BY <1>1, GateMailKept
  <1> QED BY <1>2, <1>3, SocketKept

(* A socket is accepted, and hubd is to be told. *)
LEMMA SocketsOpen ==
    ASSUME HandshakeInv, Base, NEW fd \in Fds, GateOpen(fd)
    PROVE  Sockets'
  <1> DEFINE m == [type |-> "connect", fd |-> fd]
  <1>t. hubq \in Seq(HubMsg) /\ sock \in [Fds -> SockState] /\ gs \in [Fds -> {"nil", "true", "false"}]
    BY DEF HandshakeInv, TypeOK, HubTypeOK, GateTypeOK
  <1>1. /\ sock[fd] = "none" /\ sock' = [sock EXCEPT ![fd] = "accepted"]
        /\ gs' = [gs EXCEPT ![fd] = "true"] /\ hubq' = Append(hubq, m)
        /\ UNCHANGED <<gateq, connection, closing, FD_Map, hs>>
    BY DEF GateOpen, Open, HubRecv
  <1>2. m \in HubMsg /\ m \in Connects(fd) /\ \A g \in Fds : g # fd => m \notin Connects(g)
    BY DEF HubMsg, Connects
  <1> HIDE DEF m
  <1>3. Socket(fd)'
    <2>1. Socket(fd)
      BY DEF Base, Sockets
    <2>2. Connects(fd)' = Connects(fd) /\ Connecteds(fd)' = Connecteds(fd)
      BY DEF Connects, Connecteds
    <2>3. ~Has(hubq, Connects(fd)) /\ ~Has(gateq, Connecteds(fd))
      BY <1>1, <2>1 DEF Socket
    <2>4. Single(hubq', Connects(fd))
      BY <1>t, <1>1, <1>2, <2>1, <2>3, HasAppend DEF Socket
    <2>5. sock'[fd] = "accepted" /\ gs'[fd] = "true" /\ fd \notin DOMAIN connection
          /\ fd \notin closing /\ \A r \in Requests : hs[r].fd # fd
      BY <1>t, <1>1, <2>1 DEF Socket, SockState
    <2> QED BY <1>1, <2>1, <2>2, <2>3, <2>4, <2>5 DEF Socket
  <1>4. ASSUME NEW g \in Fds, g # fd PROVE Socket(g)'
    <2>1. /\ Has(hubq', Connects(g)) <=> Has(hubq, Connects(g))
          /\ Single(hubq, Connects(g)) => Single(hubq', Connects(g))
      BY <1>t, <1>1, <1>2, <1>4, HasAppend
    <2>2. sock'[g] = sock[g] /\ gs'[g] = gs[g]
      BY <1>t, <1>1, <1>4
    <2> QED BY <1>1, <2>1, <2>2, SocketKept
  <1> QED BY <1>3, <1>4 DEF Sockets

(* hubd is told of a socket and answers. *)
LEMMA SocketsConnect ==
    ASSUME HandshakeInv, Base, HubDoConnect
    PROVE  Sockets'
  <1>t. hubq \in Seq(HubMsg) /\ gateq \in Seq(GateMsg)
    BY DEF HandshakeInv, TypeOK, HubTypeOK, GateTypeOK
  <1>h. hubq # <<>> /\ Head(hubq).type = "connect"
    BY DEF HubDoConnect, HubConnect, HubHas
  <1>p. PICK fd \in Fds : fd = Head(hubq).fd
    BY <1>t, <1>h, TailFacts, HubMsgFacts
  <1> DEFINE m == [type |-> "connected", fd |-> fd]
  <1>1. /\ hubq # <<>> /\ Head(hubq).type = "connect" /\ hubq' = Tail(hubq)
        /\ gateq' = Append(gateq, m) /\ FD_Map' = FD_Map \cup {fd}
        /\ UNCHANGED <<sock, gs, connection, closing, hs>>
    BY <1>p DEF HubDoConnect, HubConnect, HubHas, GateRecv
  <1>2. Head(hubq) \in Connects(fd) /\ \A g \in Fds : g # fd => Head(hubq) \notin Connects(g)
    BY <1>t, <1>p, <1>1, TailFacts DEF Connects
  <1>3. m \in GateMsg /\ m \in Connecteds(fd) /\ \A g \in Fds : g # fd => m \notin Connecteds(g)
    BY DEF GateMsg, Connecteds
  <1> HIDE DEF m
  <1>4. Socket(fd)'
    <2>1. Socket(fd)
      BY DEF Base, Sockets
    <2>2. Connects(fd)' = Connects(fd) /\ Connecteds(fd)' = Connecteds(fd)
      BY DEF Connects, Connecteds
    <2>3. Has(hubq, Connects(fd)) /\ ~Has(hubq', Connects(fd)) /\ Single(hubq', Connects(fd))
      BY <1>t, <1>1, <1>2, <2>1, HasTail DEF Socket
    <2>4. ~Has(gateq, Connecteds(fd)) /\ sock[fd] = "accepted"
      BY <2>1, <2>3 DEF Socket
    <2>5. Single(gateq', Connecteds(fd))
      BY <1>t, <1>1, <1>3, <2>1, <2>4, HasAppend DEF Socket
    <2> QED BY <1>1, <2>1, <2>2, <2>3, <2>4, <2>5 DEF Socket
  <1>5. ASSUME NEW g \in Fds, g # fd PROVE Socket(g)'
    <2>1. /\ Has(hubq', Connects(g)) <=> Has(hubq, Connects(g))
          /\ Single(hubq, Connects(g)) => Single(hubq', Connects(g))
      BY <1>t, <1>1, <1>2, <1>5, HasTail
    <2>2. /\ Has(gateq', Connecteds(g)) <=> Has(gateq, Connecteds(g))
          /\ Single(gateq, Connecteds(g)) => Single(gateq', Connecteds(g))
      BY <1>t, <1>1, <1>3, <1>5, HasAppend
    <2> QED BY <1>1, <1>5, <2>1, <2>2, SocketKept
  <1> QED BY <1>4, <1>5 DEF Sockets

(* The gate has the answer and opens the socket. *)
LEMMA SocketsConnected ==
    ASSUME HandshakeInv, Base, GateConnected
    PROVE  Sockets'
  <1>t. gateq \in Seq(GateMsg) /\ sock \in [Fds -> SockState]
    BY DEF HandshakeInv, TypeOK, GateTypeOK
  <1>h. gateq # <<>> /\ Head(gateq).type = "connected"
    BY DEF GateConnected, Connected, GateHas
  <1>p. PICK fd \in Fds : fd = Head(gateq).fd
    BY <1>t, <1>h, TailFacts, GateMsgFacts
  <1>1. /\ gateq' = Tail(gateq) /\ DOMAIN connection' = DOMAIN connection \cup {fd}
        /\ sock' = [sock EXCEPT ![fd] = IF gs[fd] = "true" THEN "open" ELSE @]
        /\ UNCHANGED <<hubq, gs, closing, FD_Map, hs>>
    BY <1>p DEF GateConnected, Connected, hubVars
  <1>2. Head(gateq) \in Connecteds(fd) /\ \A g \in Fds : g # fd => Head(gateq) \notin Connecteds(g)
    BY <1>t, <1>h, <1>p, TailFacts DEF Connecteds
  <1>3. Socket(fd)'
    <2>1. Socket(fd)
      BY DEF Base, Sockets
    <2>2. Connects(fd)' = Connects(fd) /\ Connecteds(fd)' = Connecteds(fd)
      BY DEF Connects, Connecteds
    <2>3. Has(gateq, Connecteds(fd)) /\ ~Has(gateq', Connecteds(fd)) /\ Single(gateq', Connecteds(fd))
      BY <1>t, <1>h, <1>1, <1>2, <2>1, HasTail DEF Socket
    <2>4. ~Has(hubq, Connects(fd)) /\ sock[fd] = "accepted" /\ gs[fd] = "true"
      BY <2>1, <2>3 DEF Socket
    <2>5. sock'[fd] = "open"
      BY <1>t, <1>1, <2>4
    <2> QED BY <1>1, <2>1, <2>2, <2>3, <2>4, <2>5 DEF Socket
  <1>4. ASSUME NEW g \in Fds, g # fd PROVE Socket(g)'
    <2>1. /\ Has(gateq', Connecteds(g)) <=> Has(gateq, Connecteds(g))
          /\ Single(gateq, Connecteds(g)) => Single(gateq', Connecteds(g))
      BY <1>t, <1>h, <1>1, <1>2, <1>4, HasTail
    <2>2. sock'[g] = sock[g]
      BY <1>t, <1>1, <1>4
    <2> QED BY <1>1, <1>4, <2>1, <2>2, SocketKept
  <1> QED BY <1>3, <1>4 DEF Sockets

(* A socket is refused, or closes, or its close is over. *)
LEMMA SocketsClose ==
    ASSUME HandshakeInv, Base, NEW fd \in Fds,
           GateOpenRefused(fd) \/ GateCloseBegin(fd) \/ GateCloseEnd(fd)
    PROVE  Sockets'
  <1>t. /\ hubq \in Seq(HubMsg) /\ sock \in [Fds -> SockState]
        /\ gs \in [Fds -> {"nil", "true", "false"}]
    BY DEF HandshakeInv, TypeOK, HubTypeOK, GateTypeOK
  <1>1. /\ UNCHANGED <<gateq, FD_Map, hs>>
        /\ \A g \in Fds : g # fd => /\ sock'[g] = sock[g] /\ gs'[g] = gs[g]
                                    /\ g \in DOMAIN connection' <=> g \in DOMAIN connection
                                    /\ g \in closing' => g \in closing
        /\ sock[fd] \in {"none", "open", "closed"} /\ sock'[fd] = "closed"
    <2>1. Socket(fd)
      BY DEF Base, Sockets
    <2>2. CASE GateOpenRefused(fd)
      BY <1>t, <2>2 DEF GateOpenRefused, OpenRefused, hubVars, SockState
    <2>3. CASE GateCloseBegin(fd)
      BY <1>t, <2>1, <2>3 DEF GateCloseBegin, CloseBegin, HubRecv, SockState, Socket
    <2>4. CASE GateCloseEnd(fd)
      BY <1>t, <2>1, <2>4 DEF GateCloseEnd, CloseEnd, Drop, hubVars, SockState, Socket
    <2> QED BY <2>2, <2>3, <2>4
  <1>2. HubMail({"logout"})
    <2>1. CASE GateCloseBegin(fd)
      <3>1. LogoutMsg(fd) \in HubMsg /\ LogoutMsg(fd).type = "logout"
        BY <2>1 DEF GateCloseBegin, CloseBegin, LogoutMsg, HubMsg, HandshakeInv, TypeOK,
           GateTypeOK, Conn
      <3> QED BY <2>1, <3>1 DEF GateCloseBegin, HubRecv, HubMail
    <2>2. CASE GateOpenRefused(fd) \/ GateCloseEnd(fd)
      BY <2>2 DEF GateOpenRefused, GateCloseEnd, hubVars, HubMail
    <2> QED BY <2>1, <2>2
  <1>3. \A g \in Fds : /\ Has(hubq', Connects(g)) <=> Has(hubq, Connects(g))
                       /\ Single(hubq, Connects(g)) => Single(hubq', Connects(g))
    <2> SUFFICES ASSUME NEW g \in Fds
                 PROVE  /\ Has(hubq', Connects(g)) <=> Has(hubq, Connects(g))
                        /\ Single(hubq, Connects(g)) => Single(hubq', Connects(g))
      OBVIOUS
    <2>1. \A m \in Connects(g) : m.type \notin {"logout"}
      BY DEF Connects
    <2> QED BY <1>2, <2>1, HubMailKept
  <1>4. ASSUME NEW g \in Fds, g # fd PROVE Socket(g)'
    BY <1>1, <1>3, <1>4, SocketKept
  <1>5. Socket(fd)'
    <2>1. Socket(fd)
      BY DEF Base, Sockets
    <2>2. Connects(fd)' = Connects(fd) /\ Connecteds(fd)' = Connecteds(fd)
      BY DEF Connects, Connecteds
    <2>3. ~Has(hubq', Connects(fd)) /\ ~Has(gateq, Connecteds(fd)) /\ Single(hubq', Connects(fd))
      BY <1>1, <1>3, <2>1 DEF Socket
    <2> QED BY <1>1, <2>1, <2>2, <2>3 DEF Socket
  <1> QED BY <1>4, <1>5 DEF Sockets

LEMMA SocketsStep ==
    ASSUME HandshakeInv, Base, CalmStep
    PROVE  Sockets'
  <1>1. CASE UNCHANGED vars
    <2>1. UNCHANGED <<hubq, FD_Map, hs, gateq, sock, gs, connection, closing>>
      BY <1>1 DEF vars, hubVars, gateVars
    <2>2. HubMail({}) /\ GateMail({})
      BY <2>1 DEF HubMail, GateMail
    <2> QED BY <2>1, <2>2, SocketsKept
  <1>2. CASE BackStep
    <2>1. GateMail({})
      BY <1>2, BackView DEF gateVars, GateMail
    <2> QED BY <1>2, <2>1, BackView, SocketsKept DEF gateVars
  <1>3. CASE HubMoves
    <2>1. PICK r \in Requests : HubMove(r)
      BY <1>3, HubMovesView
    <2>2. HubMail(ReqTypes) /\ "connect" \notin ReqTypes
      BY <2>1 DEF HubMove, HubMail, ReqTypes
    <2>3. /\ UNCHANGED <<sock, gs, connection, closing>> /\ GateMail({"register"})
          /\ FD_Map' \subseteq FD_Map /\ \A q \in Requests : hs'[q].fd = hs[q].fd
      BY <2>1 DEF HubMove
    <2> QED BY <2>2, <2>3, SocketsKept
  <1>4. CASE LoginSteps
    <2>1. HubMail({}) /\ GateMail({})
      BY <1>4, LoginStepsView DEF HubMail, GateMail, gateVars
    <2> QED BY <1>4, <2>1, LoginStepsView, SocketsKept DEF gateVars
  <1>5. ASSUME NEW r \in Requests, NEW fd \in Fds, NEW l \in Logins, ClientHandshake(r, fd, l)
        PROVE  Sockets'
    <2>1. GateMail({})
      BY <1>5, PresentsView DEF gateVars, GateMail
    <2>2. /\ \A q \in Requests : hs'[q].fd = hs[q].fd \/ sock[hs'[q].fd] = "open"
      <3>1. hs'[r].fd = fd /\ sock[fd] = "open" /\ \A q \in Requests : q # r => hs'[q] = hs[q]
        BY <1>5, PresentsView
      <3> QED BY <3>1
    <2>3. /\ UNCHANGED <<FD_Map, sock, gs, connection, closing>> /\ HubMail({"handshake"})
      BY <1>5, PresentsView DEF gateVars
    <2> QED BY <2>1, <2>2, <2>3, SocketsKept
  <1>6. CASE HubDoLogout \/ HubDoForget \/ \E S \in SUBSET Uids : Timeout(S)
    <2>1. HubMail({"logout"}) /\ FD_Map' \subseteq FD_Map
      BY <1>6 DEF HubDoLogout, HubLogout, HubDoForget, HubForget, HubHas, Timeout, Reap, HubMail
    <2>2. UNCHANGED <<gateVars, hs>>
      BY <1>6 DEF HubDoLogout, HubLogout, HubDoForget, HubForget, Timeout, Reap
    <2>3. GateMail({})
      BY <2>2 DEF gateVars, GateMail
    <2> QED BY <2>1, <2>2, <2>3, SocketsKept DEF gateVars
  <1>7. CASE GateRegister
    <2>1. HubMail({"registered"})
      <3>1. Head(gateq).req \in Requests
        BY <1>7, GateHead, GateMsgFacts DEF GateRegister, Register, GateHas
      <3> DEFINE b == Head(gateq).fd \in DOMAIN connection
                 m == [type |-> "registered", req |-> Head(gateq).req, res |-> b]
      <3>2. m \in HubMsg /\ m.type = "registered"
        BY <3>1 DEF HubMsg
      <3>3. hubq' = Append(hubq, m)
        BY <1>7 DEF GateRegister, HubRecv
      <3> HIDE DEF m
      <3> QED BY <3>2, <3>3 DEF HubMail
    <2>2. GateMail({"register"})
      BY <1>7 DEF GateRegister, Register, GateHas, GateMail
    <2>3. /\ UNCHANGED <<hs, FD_Map, sock, gs, closing>> /\ DOMAIN connection' = DOMAIN connection
      BY <1>7 DEF GateRegister, Register, HubRecv
    <2> QED BY <2>1, <2>2, <2>3, SocketsKept
  <1> QED BY <1>1, <1>2, <1>3, <1>4, <1>5, <1>6, <1>7, SocketsOpen, SocketsConnect,
             SocketsConnected, SocketsClose DEF CalmStep, GateSteps

LEMMA BaseNext ==
    ASSUME Calm, HandshakeInv, Base, CalmStep
    PROVE  Base'
  BY OneEachStep, NoKicksStep, SocketsStep DEF Base

-----------------------------------------------------------------------------
(* What stays as it is *)

(* A message stays until hubd takes it. *)
LEMMA HubKeeps ==
    ASSUME HandshakeInv, NEW T, HubMail(T), NEW m \in HubR
    PROVE  \/ m \in HubR'
           \/ m.type \in T /\ hubq # <<>> /\ Head(hubq) = m /\ hubq' = Tail(hubq)
  <1>1. hubq \in Seq(HubMsg)
    BY DEF HandshakeInv, TypeOK, HubTypeOK
  <1>2. CASE hubq' = hubq
    BY <1>2 DEF HubR
  <1>3. ASSUME NEW n \in HubMsg, hubq' = Append(hubq, n) PROVE m \in HubR'
    BY <1>1, <1>3, PendingAppend DEF HubR
  <1>4. CASE hubq # <<>> /\ Head(hubq).type \in T /\ hubq' = Tail(hubq)
    BY <1>4, HubTakes
  <1> QED BY <1>2, <1>3, <1>4 DEF HubMail

(* A socket that has closed stays closed. *)
LEMMA SockSteps ==
    ASSUME HandshakeInv, Base, CalmStep
    PROVE  \A fd \in Fds : sock[fd] = "closed" => sock'[fd] = "closed"
  <1> SUFFICES ASSUME NEW g \in Fds, sock[g] = "closed" PROVE sock'[g] = "closed"
    OBVIOUS
  <1>t. sock \in [Fds -> SockState] /\ gateq \in Seq(GateMsg)
    BY DEF HandshakeInv, TypeOK, GateTypeOK
  <1>1. CASE UNCHANGED sock
    BY <1>1
  <1>2. ASSUME NEW fd \in Fds,
               GateOpenRefused(fd) \/ GateOpen(fd) \/ GateCloseBegin(fd) \/ GateCloseEnd(fd)
        PROVE  sock'[g] = "closed"
    BY <1>t, <1>2 DEF GateOpenRefused, OpenRefused, GateOpen, Open, GateCloseBegin, CloseBegin,
       GateCloseEnd, CloseEnd
  <1>3. CASE GateConnected
    <2>1. gateq # <<>> /\ Head(gateq).type = "connected"
      BY <1>3 DEF GateConnected, Connected, GateHas
    <2>2. PICK fd \in Fds : fd = Head(gateq).fd
      BY <1>t, <2>1, TailFacts, GateMsgFacts
    <2>3. Head(gateq) \in Connecteds(fd)
      BY <1>t, <2>1, <2>2, TailFacts DEF Connecteds
    <2>4. Has(gateq, Connecteds(fd))
      BY <1>t, <2>1, <2>3, HasTail
    <2>5. fd # g
      BY <2>4 DEF Base, Sockets, Socket
    <2> QED BY <1>t, <1>3, <2>2, <2>5 DEF GateConnected, Connected
  <1>4. CASE GateRegister \/ HubDoConnect \/ HubDoLogout \/ HubDoForget
             \/ \E S \in SUBSET Uids : Timeout(S)
    BY <1>1, <1>4 DEF GateRegister, Register, HubDoConnect, GateRecv, HubDoLogout, HubDoForget,
       Timeout, gateVars
  <1>5. CASE UNCHANGED vars
    BY <1>1, <1>5 DEF vars, gateVars
  <1>6. CASE BackStep
    BY <1>1, <1>6, BackView DEF gateVars
  <1>7. CASE HubMoves
    BY <1>1, <1>7, HubMovesView DEF HubMove
  <1>8. CASE LoginSteps
    BY <1>1, <1>8, LoginStepsView DEF gateVars
  <1>9. ASSUME NEW r \in Requests, NEW fd \in Fds, NEW l \in Logins, ClientHandshake(r, fd, l)
        PROVE  UNCHANGED sock
    BY <1>9, PresentsView DEF gateVars
  <1> QED BY <1>1, <1>2, <1>3, <1>4, <1>5, <1>6, <1>7, <1>8, <1>9 DEF CalmStep, GateSteps

(* A request keeps what it was made with, and what it was granted. *)
LEMMA RequestSteps ==
    ASSUME HandshakeInv, Base, CalmStep
    PROVE  \A r \in Requests : hs[r].pc # "none" =>
              /\ hs'[r].fd = hs[r].fd /\ hs'[r].tok = hs[r].tok /\ hs'[r].uid = hs[r].uid
              /\ Settled(r) => Settled(r)'
  <1> SUFFICES ASSUME NEW r \in Requests, hs[r].pc # "none"
               PROVE  /\ hs'[r].fd = hs[r].fd /\ hs'[r].tok = hs[r].tok /\ hs'[r].uid = hs[r].uid
                      /\ Settled(r) => Settled(r)'
    OBVIOUS
  <1> DEFINE m == [type |-> "registered", req |-> r, res |-> TRUE]
  <1>1. ASSUME hs'[r] = hs[r], NEW T, HubMail(T), "registered" \notin T
        PROVE  /\ hs'[r].fd = hs[r].fd /\ hs'[r].tok = hs[r].tok /\ hs'[r].uid = hs[r].uid
               /\ Settled(r) => Settled(r)'
    <2>1. m \in HubR => m \in HubR'
      BY <1>1, HubKeeps
    <2> QED BY <1>1, <2>1 DEF Settled
  <1>2. CASE UNCHANGED vars
    <2>1. UNCHANGED <<hs, hubq>>
      BY <1>2 DEF vars, hubVars
    <2>2. HubMail({})
      BY <2>1 DEF HubMail
    <2> QED BY <1>1, <2>1, <2>2
  <1>3. CASE BackStep
    BY <1>1, <1>3, BackView
  <1>4. CASE QuietStep
    <2>1. CASE ~GateRegister
      BY <1>1, <1>4, <2>1, QuietView
    <2>2. CASE GateRegister
      <3>1. hs' = hs /\ HubMail({"registered"})
        BY <1>4, <2>2, QuietView
      <3>2. \E n \in HubMsg : hubq' = Append(hubq, n)
        <4>1. Head(gateq).req \in Requests
          BY <2>2, GateHead, GateMsgFacts DEF GateRegister, Register, GateHas
        <4> DEFINE n == [type |-> "registered", req |-> Head(gateq).req,
                         res |-> Head(gateq).fd \in DOMAIN connection]
        <4>2. n \in HubMsg
          BY <4>1 DEF HubMsg
        <4>3. hubq' = Append(hubq, n)
          BY <2>2 DEF GateRegister, HubRecv
        <4> QED BY <4>2, <4>3
      <3>3. m \in HubR => m \in HubR'
        <4>1. hubq \in Seq(HubMsg)
          BY DEF HandshakeInv, TypeOK, HubTypeOK
        <4> QED BY <3>2, <4>1, PendingAppend DEF HubR
      <3> QED BY <3>1, <3>3 DEF Settled
    <2> QED BY <2>1, <2>2
  <1>5. ASSUME NEW q \in Requests, HubMove(q)
        PROVE  /\ hs'[r].fd = hs[r].fd /\ hs'[r].tok = hs[r].tok /\ hs'[r].uid = hs[r].uid
               /\ Settled(r) => Settled(r)'
    <2>1. hs'[r].fd = hs[r].fd /\ hs'[r].tok = hs[r].tok /\ hs'[r].uid = hs[r].uid
      BY <1>5 DEF HubMove
    <2>2. HubMail(ReqTypes)
      BY <1>5 DEF HubMove, HubMail
    <2>3. ASSUME m \in HubR PROVE Settled(r)'
      <3>1. CASE m \in HubR'
        BY <3>1 DEF Settled
      <3>2. CASE Head(hubq) = m
        BY <1>5, <3>2 DEF HubMove, Settled
      <3> QED BY <2>2, <2>3, <3>1, <3>2, HubKeeps
    <2>4. ASSUME hs[r].pc = "done" PROVE Settled(r)'
      BY <1>5, <2>4 DEF HubMove, Settled
    <2> QED BY <2>1, <2>3, <2>4 DEF Settled
  <1>6. CASE LoginSteps
    <2>1. HubMail({}) /\ hs' = hs
      BY <1>6, LoginStepsView DEF HubMail
    <2> QED BY <1>1, <2>1
  <1>7. ASSUME NEW q \in Requests, NEW fd \in Fds, NEW l \in Logins, ClientHandshake(q, fd, l)
        PROVE  /\ hs'[r].fd = hs[r].fd /\ hs'[r].tok = hs[r].tok /\ hs'[r].uid = hs[r].uid
               /\ Settled(r) => Settled(r)'
    <2>1. hs[q].pc = "none" /\ HubMail({"handshake"}) /\ \A p \in Requests : p # q => hs'[p] = hs[p]
      BY <1>7, PresentsView
    <2> QED BY <1>1, <2>1
  <1> QED BY <1>2, <1>3, <1>4, <1>5, <1>6, <1>7, HubMovesView DEF CalmStep, QuietStep

-----------------------------------------------------------------------------
(* hubd forgets a user when the socket of its session has closed *)

LEMMA SettledKnown ==
    ASSUME HandshakeInv, NEW r \in Requests, Settled(r)
    PROVE  hs[r].pc \in {"register", "done"}
  <1> DEFINE m == [type |-> "registered", req |-> r, res |-> TRUE]
  <1>1. ASSUME m \in HubR PROVE hs[r].pc = "register"
    <2>1. hs[m.req].pc = Awaits(m.type)
      BY <1>1, HubAlone
    <2> QED BY <2>1 DEF Awaits
  <1> QED BY <1>1 DEF Settled

(* The uid of a session is its request's, and no other request has it. *)
LEMMA OneRequest ==
    ASSUME HandshakeInv, Base, NEW r \in Requests, hs[r].pc # "none"
    PROVE  /\ UserOf(r).uid = hs[r].uid /\ hs[r].uid \in Uids /\ hs[r].fd \in Fds
           /\ hs[r].tok \in Logins /\ attempt[hs[r].tok].uid = hs[r].uid
           /\ \A q \in Requests : hs[q].pc # "none" /\ hs[q].uid = hs[r].uid => q = r
  <1>1. /\ hs[r].tok \in Logins /\ hs[r].uid \in Uids /\ attempt[hs[r].tok].pc = "200"
        /\ attempt[hs[r].tok].uid = hs[r].uid /\ hs[r].fd \in Fds
    BY DEF HandshakeInv, Presented, Base, OneEach
  <1>2. UserOf(r).uid = hs[r].uid
    BY <1>1 DEF Base, OneEach, UserOf
  <1>3. ASSUME NEW q \in Requests, hs[q].pc # "none", hs[q].uid = hs[r].uid PROVE q = r
    <2>1. hs[q].tok \in Logins /\ attempt[hs[q].tok].uid = hs[r].uid
      BY <1>3 DEF HandshakeInv, Presented, Base, OneEach
    <2>2. hs[q].tok = hs[r].tok
      BY <1>1, <2>1, EntitiesAssumption DEF Base, OneEach
    <2> QED BY <1>1, <2>2, EntitiesAssumption DEF Base, OneEach
  <1> QED BY <1>1, <1>2, <1>3

LEMMA EndsKept ==
    ASSUME HandshakeInv, Base, Ends, CalmStep,
           Pending(hubq', {"logout"}) \subseteq Pending(hubq, {"logout"}),
           \A r \in Requests : hs'[r].pc \in Working =>
               hs[r].pc \in Working \/ (hs[r].pc # "none" /\ User_Map[hs[r].uid] # None),
           \A uid \in Uids : User_Map[uid] # None => User_Map'[uid] # None
    PROVE  Ends'
  <1>1. /\ \A r \in Requests : hs[r].pc # "none" =>
              /\ hs'[r].fd = hs[r].fd /\ hs'[r].uid = hs[r].uid
              /\ Settled(r) => Settled(r)'
        /\ \A fd \in Fds : sock[fd] = "closed" => sock'[fd] = "closed"
    BY RequestSteps, SockSteps
  <1>2. ASSUME NEW m \in Pending(hubq', {"logout"})
        PROVE  /\ sock'[m.fd] = "closed"
               /\ m.uid # None => \E r \in Requests : hs'[r].uid = m.uid /\ hs'[r].fd = m.fd /\ Settled(r)'
    <2>1. m \in Pending(hubq, {"logout"})
      BY <1>2
    <2>2. m.fd \in Fds
      <3>1. hubq \in Seq(HubMsg)
        BY DEF HandshakeInv, TypeOK, HubTypeOK
      <3>2. m \in HubMsg /\ m.type = "logout"
        BY <2>1, <3>1, ElementOfSeq DEF Pending
      <3> QED BY <3>2, HubMsgFacts
    <2>3. sock'[m.fd] = "closed"
      BY <1>1, <2>1, <2>2 DEF Ends
    <2>4. ASSUME m.uid # None
          PROVE  \E r \in Requests : hs'[r].uid = m.uid /\ hs'[r].fd = m.fd /\ Settled(r)'
      <3>1. PICK r \in Requests : hs[r].uid = m.uid /\ hs[r].fd = m.fd /\ Settled(r)
        BY <2>1, <2>4 DEF Ends
      <3>2. hs[r].pc # "none"
        BY <3>1, SettledKnown
      <3> QED BY <1>1, <3>1, <3>2
    <2> QED BY <2>3, <2>4
  <1>3. ASSUME NEW r \in Requests, hs'[r].pc \in Working, User_Map'[hs'[r].uid] = None
        PROVE  sock'[hs'[r].fd] = "closed"
    <2>1. hs[r].pc # "none"
      BY <1>3 DEF Working
    <2>2. hs'[r].fd = hs[r].fd /\ hs'[r].uid = hs[r].uid /\ hs[r].uid \in Uids /\ hs[r].fd \in Fds
      BY <1>1, <2>1 DEF HandshakeInv, Presented
    <2> QED BY <1>1, <1>3, <2>2 DEF Ends
  <1>4. Pending(hubq, {"logout"})' = Pending(hubq', {"logout"})
    BY DEF Pending
  <1> QED BY <1>2, <1>3, <1>4 DEF Ends

(* Messages other than logouts. *)
LEMMA LogoutsKept ==
    ASSUME HandshakeInv, NEW T, HubMail(T),
           "logout" \notin T \/ (hubq # <<>> /\ hubq' = Tail(hubq))
    PROVE  Pending(hubq', {"logout"}) \subseteq Pending(hubq, {"logout"})
  <1>1. hubq \in Seq(HubMsg)
    BY DEF HandshakeInv, TypeOK, HubTypeOK
  <1>2. CASE hubq # <<>> /\ hubq' = Tail(hubq)
    BY <1>1, <1>2, PendingTail
  <1>3. ASSUME NEW m \in HubMsg, m.type \in T, hubq' = Append(hubq, m), "logout" \notin T
        PROVE  Pending(hubq', {"logout"}) = Pending(hubq, {"logout"})
    <2>1. m.type \notin {"logout"}
      BY <1>3
    <2> QED BY <1>1, <1>3, <2>1, PendingAppend
  <1> QED BY <1>2, <1>3 DEF HubMail

(* A bound connection closes. *)
LEMMA EndsClose ==
    ASSUME HandshakeInv, Base, Ends, CalmStep, NEW fd \in Fds, GateCloseBegin(fd)
    PROVE  Ends'
  <1> DEFINE m == LogoutMsg(fd)
  <1>t. hubq \in Seq(HubMsg) /\ sock \in [Fds -> SockState]
    BY DEF HandshakeInv, TypeOK, HubTypeOK, GateTypeOK
  <1>1. /\ fd \in DOMAIN connection /\ hubq' = Append(hubq, m) /\ UNCHANGED <<User_Map, hs>>
        /\ sock' = [sock EXCEPT ![fd] = "closed"]
    BY DEF GateCloseBegin, CloseBegin, HubRecv
  <1>2. /\ m \in HubMsg /\ m.type = "logout" /\ m.fd = fd /\ m.uid = connection[fd].uid
    BY <1>1 DEF LogoutMsg, HubMsg, HandshakeInv, TypeOK, GateTypeOK, Conn
  <1> HIDE DEF m
  <1>3. Pending(hubq', {"logout"}) = Pending(hubq, {"logout"}) \cup {m}
    <2>1. m.type \in {"logout"}
      BY <1>2
    <2> QED BY <1>t, <1>1, <1>2, <2>1, PendingAppend
  <1>4. /\ \A r \in Requests : hs[r].pc # "none" => (Settled(r) => Settled(r)')
        /\ \A g \in Fds : sock[g] = "closed" => sock'[g] = "closed"
    BY RequestSteps, SockSteps
  <1>5. sock'[fd] = "closed"
    BY <1>t, <1>1 DEF SockState
  <1>6. ASSUME NEW n \in Pending(hubq', {"logout"})
        PROVE  /\ sock'[n.fd] = "closed"
               /\ n.uid # None => \E r \in Requests : hs'[r].uid = n.uid /\ hs'[r].fd = n.fd /\ Settled(r)'
    <2>1. CASE n = m
      <3>1. ASSUME m.uid # None
            PROVE  \E r \in Requests : hs'[r].uid = m.uid /\ hs'[r].fd = m.fd /\ Settled(r)'
        <4>1. Bound(fd)
          BY <1>1, <1>2, <3>1 DEF Bound
        <4>2. PICK r \in Requests : BoundBy(fd, r)
          BY <4>1 DEF HandshakeInv, Bindings
        <4>3. Settled(r) /\ hs[r].fd = fd /\ UserOf(r).uid = connection[fd].uid
          BY <4>2 DEF BoundBy, Settled
        <4>4. hs[r].pc # "none"
          BY <4>3, SettledKnown
        <4>5. hs[r].uid = m.uid
          BY <1>2, <4>3, <4>4, OneRequest
        <4> QED BY <1>1, <1>2, <1>4, <4>3, <4>4, <4>5
      <3> QED BY <1>2, <1>5, <2>1, <3>1
    <2>2. CASE n \in Pending(hubq, {"logout"})
      <3>1. n \in HubMsg /\ n.type = "logout"
        BY <1>t, <2>2, ElementOfSeq DEF Pending
      <3>2. sock'[n.fd] = "closed"
        BY <1>4, <2>2, <3>1, HubMsgFacts DEF Ends
      <3>3. ASSUME n.uid # None
            PROVE  \E r \in Requests : hs'[r].uid = n.uid /\ hs'[r].fd = n.fd /\ Settled(r)'
        <4>1. PICK r \in Requests : hs[r].uid = n.uid /\ hs[r].fd = n.fd /\ Settled(r)
          BY <2>2, <3>3 DEF Ends
        <4>2. hs[r].pc # "none"
          BY <4>1, SettledKnown
        <4> QED BY <1>1, <1>4, <4>1, <4>2
      <3> QED BY <3>2, <3>3
    <2> QED BY <1>3, <2>1, <2>2
  <1>7. ASSUME NEW r \in Requests, hs'[r].pc \in Working, User_Map'[hs'[r].uid] = None
        PROVE  sock'[hs'[r].fd] = "closed"
    <2>1. hs[r].fd \in Fds /\ hs[r].pc \in Working /\ User_Map[hs[r].uid] = None
      BY <1>1, <1>7 DEF HandshakeInv, Presented, Working
    <2> QED BY <1>1, <1>4, <2>1 DEF Ends
  <1>8. Pending(hubq, {"logout"})' = Pending(hubq', {"logout"})
    BY DEF Pending
  <1> QED BY <1>6, <1>7, <1>8 DEF Ends

(* hubd takes a logout, or reaps users that have no socket. *)
LEMMA EndsUsers ==
    ASSUME HandshakeInv, Base, Ends, CalmStep, hs' = hs,
           Pending(hubq', {"logout"}) \subseteq Pending(hubq, {"logout"}),
           \A r \in Requests : hs[r].pc \in Working /\ User_Map'[hs[r].uid] = None =>
               User_Map[hs[r].uid] = None \/ sock[hs[r].fd] = "closed"
    PROVE  Ends'
  <1>t. hubq \in Seq(HubMsg)
    BY DEF HandshakeInv, TypeOK, HubTypeOK
  <1>4. /\ \A r \in Requests : hs[r].pc # "none" => (Settled(r) => Settled(r)')
        /\ \A g \in Fds : sock[g] = "closed" => sock'[g] = "closed"
    BY RequestSteps, SockSteps
  <1>6. ASSUME NEW n \in Pending(hubq', {"logout"})
        PROVE  /\ sock'[n.fd] = "closed"
               /\ n.uid # None => \E r \in Requests : hs'[r].uid = n.uid /\ hs'[r].fd = n.fd /\ Settled(r)'
    <2>2. n \in Pending(hubq, {"logout"})
      OBVIOUS
    <2>3. n \in HubMsg /\ n.type = "logout"
      BY <1>t, <2>2, ElementOfSeq DEF Pending
    <2>4. sock'[n.fd] = "closed"
      BY <1>4, <2>2, <2>3, HubMsgFacts DEF Ends
    <2>5. ASSUME n.uid # None
          PROVE  \E r \in Requests : hs'[r].uid = n.uid /\ hs'[r].fd = n.fd /\ Settled(r)'
      <3>1. PICK r \in Requests : hs[r].uid = n.uid /\ hs[r].fd = n.fd /\ Settled(r)
        BY <2>2, <2>5 DEF Ends
      <3>2. hs[r].pc # "none"
        BY <3>1, SettledKnown
      <3> QED BY <1>4, <3>1, <3>2
    <2> QED BY <2>4, <2>5
  <1>7. ASSUME NEW r \in Requests, hs'[r].pc \in Working, User_Map'[hs'[r].uid] = None
        PROVE  sock'[hs'[r].fd] = "closed"
    <2>1. hs[r].fd \in Fds /\ hs[r].pc \in Working /\ User_Map'[hs[r].uid] = None
      BY <1>7 DEF HandshakeInv, Presented, Working
    <2>2. User_Map[hs[r].uid] = None \/ sock[hs[r].fd] = "closed"
      BY <2>1
    <2> QED BY <1>4, <2>1, <2>2 DEF Ends
  <1>8. Pending(hubq, {"logout"})' = Pending(hubq', {"logout"})
    BY DEF Pending
  <1> QED BY <1>6, <1>7, <1>8 DEF Ends

LEMMA EndsLogout ==
    ASSUME HandshakeInv, Base, Ends, CalmStep, HubDoLogout
    PROVE  Ends'
  <1> DEFINE m == Head(hubq)
  <1>1. /\ hubq # <<>> /\ m.type = "logout" /\ m.uid # None /\ hubq' = Tail(hubq) /\ hs' = hs
        /\ User_Map' = [User_Map EXCEPT ![m.uid] = None]
    BY DEF HubDoLogout, HubLogout, HubHas
  <1>2. m \in Pending(hubq, {"logout"})
    BY <1>1, HubHead
  <1>3. PICK q \in Requests : hs[q].uid = m.uid /\ hs[q].fd = m.fd /\ Settled(q)
    BY <1>1, <1>2 DEF Ends
  <1>4. Pending(hubq', {"logout"}) \subseteq Pending(hubq, {"logout"})
    BY <1>1, HubTakes DEF Pending
  <1> HIDE DEF m
  <1>5. ASSUME NEW r \in Requests, hs[r].pc \in Working, User_Map'[hs[r].uid] = None
        PROVE  User_Map[hs[r].uid] = None \/ sock[hs[r].fd] = "closed"
    <2>1. hs[r].pc # "none" /\ hs[q].pc # "none"
      BY <1>3, <1>5, SettledKnown DEF Working
    <2>2. hs[r].uid \in Uids /\ (hs[r].uid = m.uid => r = q)
      BY <1>3, <2>1, OneRequest
    <2>3. CASE hs[r].uid = m.uid
      BY <1>2, <1>3, <2>2, <2>3 DEF Ends
    <2>4. CASE hs[r].uid # m.uid
      BY <1>1, <1>5, <2>2, <2>4 DEF HandshakeInv, TypeOK, HubTypeOK
    <2> QED BY <2>3, <2>4
  <1> QED BY <1>1, <1>4, <1>5, EndsUsers

LEMMA EndsTimeout ==
    ASSUME HandshakeInv, Base, Ends, CalmStep, NEW S \in SUBSET Uids, Timeout(S)
    PROVE  Ends'
  <1>1. /\ hs' = hs /\ hubq' = hubq
        /\ S \subseteq {uid \in Uids : User_Map[uid] # None /\ user[User_Map[uid]].conn = None}
        /\ User_Map' = [uid \in Uids |-> IF uid \in S THEN None ELSE User_Map[uid]]
    BY DEF Timeout, Reap
  <1>2. ASSUME NEW r \in Requests, hs[r].pc \in Working, User_Map'[hs[r].uid] = None
        PROVE  User_Map[hs[r].uid] = None
    <2> SUFFICES ASSUME User_Map[hs[r].uid] # None PROVE FALSE
      OBVIOUS
    <2>1. hs[r].pc # "none"
      BY <1>2 DEF Working
    <2>2. /\ hs[r].uid \in Uids /\ hs[r].tok \in Logins /\ attempt[hs[r].tok].uid = hs[r].uid
          /\ hs[r].fd \in Fds
      BY <2>1, OneRequest
    <2> DEFINE k == User_Map[hs[r].uid]
    <2>3. k \in Logins
      BY <2>2 DEF HandshakeInv, TypeOK, HubTypeOK
    <2>4. attempt[k].uid = hs[r].uid
      BY <2>2 DEF Base, OneEach
    <2>5. \A i, j \in Logins : attempt[i].uid # None /\ attempt[i].uid = attempt[j].uid => i = j
      BY DEF Base, OneEach
    <2>6. hs[r].uid \in S
      BY <1>1, <1>2, <2>2
    <2>7. user[k].conn = None
      BY <1>1, <2>6
    <2> HIDE DEF k
    <2>8. k = hs[r].tok
      BY <2>2, <2>3, <2>4, <2>5, EntitiesAssumption
    <2>9. user[hs[r].tok].conn = hs[r].fd
      BY <1>2 DEF Base, OneEach, UserOf
    <2> QED BY <2>2, <2>7, <2>8, <2>9, EntitiesAssumption
  <1>3. Pending(hubq', {"logout"}) \subseteq Pending(hubq, {"logout"})
    BY <1>1
  <1> QED BY <1>1, <1>2, <1>3, EndsUsers

LEMMA EndsStep ==
    ASSUME HandshakeInv, Base, Ends, CalmStep
    PROVE  Ends'
  <1>0. ASSUME hs' = hs, User_Map' = User_Map, NEW T, HubMail(T), "logout" \notin T
        PROVE  Ends'
    BY <1>0, LogoutsKept, EndsKept
  <1>1. CASE UNCHANGED vars
    <2>1. UNCHANGED <<hs, hubq, User_Map>>
      BY <1>1 DEF vars, hubVars
    <2>2. HubMail({})
      BY <2>1 DEF HubMail
    <2> QED BY <1>0, <2>1, <2>2
  <1>2. CASE BackStep
    BY <1>0, <1>2, BackView
  <1>3. CASE HubMoves
    <2>1. PICK r \in Requests : HubMove(r)
      BY <1>3, HubMovesView
    <2>2. HubMail(ReqTypes) /\ "logout" \notin ReqTypes
      BY <2>1 DEF HubMove, HubMail, ReqTypes
    <2>3. \A q \in Requests : hs'[q].pc \in Working =>
             hs[q].pc \in Working \/ (hs[q].pc # "none" /\ User_Map[hs[q].uid] # None)
      <3>1. \A q \in Requests : q # r => hs'[q] = hs[q]
        BY <2>1 DEF HubMove
      <3>2. /\ hs'[r].pc \in Working => hs[r].pc \in Working \/ hs'[r].pc = "get"
            /\ hs[r].pc # "none" /\ hs[r].tok \in Logins
            /\ hs'[r].pc = "get" => User_Map[hs[r].uid] = hs[r].tok
        BY <2>1 DEF HubMove, Working
      <3> QED BY <3>1, <3>2, EntitiesAssumption
    <2>4. User_Map' = User_Map
      BY <2>1 DEF HubMove
    <2> QED BY <2>2, <2>3, <2>4, LogoutsKept, EndsKept
  <1>4. CASE LoginSteps
    <2>1. HubMail({}) /\ hs' = hs /\ \A uid \in Uids : User_Map[uid] # None => User_Map'[uid] # None
      BY <1>4, LoginStepsView DEF HubMail
    <2> QED BY <2>1, LogoutsKept, EndsKept
  <1>5. ASSUME NEW r \in Requests, NEW fd \in Fds, NEW l \in Logins, ClientHandshake(r, fd, l)
        PROVE  Ends'
    <2>1. /\ HubMail({"handshake"}) /\ User_Map' = User_Map /\ hs'[r].pc = "sent"
          /\ \A q \in Requests : q # r => hs'[q] = hs[q]
      BY <1>5, PresentsView
    <2>2. \A q \in Requests : hs'[q].pc \in Working => hs[q].pc \in Working
      BY <2>1 DEF Working
    <2> QED BY <2>1, <2>2, LogoutsKept, EndsKept
  <1>6. CASE GateRegister
    <2>1. HubMail({"registered"}) /\ hs' = hs /\ User_Map' = User_Map
      BY <1>6, QuietView DEF QuietStep, GateSteps, GateRegister, HubRecv
    <2> QED BY <1>0, <2>1
  <1>7. ASSUME NEW fd \in Fds, GateOpenRefused(fd) \/ GateCloseEnd(fd)
        PROVE  Ends'
    <2>1. UNCHANGED <<hs, hubq, User_Map>>
      BY <1>7 DEF GateOpenRefused, GateCloseEnd, hubVars
    <2>2. HubMail({})
      BY <2>1 DEF HubMail
    <2> QED BY <1>0, <2>1, <2>2
  <1>8. ASSUME NEW fd \in Fds, GateOpen(fd) PROVE Ends'
    <2>1. [type |-> "connect", fd |-> fd] \in HubMsg
      BY DEF HubMsg
    <2>2. HubMail({"connect"}) /\ hs' = hs /\ User_Map' = User_Map
      BY <1>8, <2>1 DEF GateOpen, HubRecv, HubMail
    <2> QED BY <1>0, <2>2
  <1>9. CASE HubDoConnect
    <2>1. HubMail({"connect"}) /\ hs' = hs /\ User_Map' = User_Map
      BY <1>9 DEF HubDoConnect, HubConnect, HubHas, HubMail
    <2> QED BY <1>0, <2>1
  <1>10. CASE HubDoForget
    <2>1. HubMail({"logout"}) /\ hubq # <<>> /\ hubq' = Tail(hubq) /\ hs' = hs /\ User_Map' = User_Map
      BY <1>10 DEF HubDoForget, HubForget, HubHas, HubMail
    <2> QED BY <2>1, LogoutsKept, EndsKept
  <1>11. CASE GateConnected
    <2>1. UNCHANGED <<hs, hubq, User_Map>>
      BY <1>11 DEF GateConnected, hubVars
    <2>2. HubMail({})
      BY <2>1 DEF HubMail
    <2> QED BY <1>0, <2>1, <2>2
  <1> QED BY <1>1, <1>2, <1>3, <1>4, <1>5, <1>6, <1>7, <1>8, <1>9, <1>10, <1>11,
             EndsClose, EndsLogout, EndsTimeout DEF CalmStep, GateSteps

-----------------------------------------------------------------------------
(* hubd forgets the sockets *)

LEMMA AppendNotTail ==
    ASSUME NEW S, NEW q \in Seq(S), NEW m \in S, q # <<>>
    PROVE  Append(q, m) # Tail(q)
  <1> DEFINE p == Append(q, m)
             t == Tail(q)
  <1>1. Len(p) = Len(q) + 1 /\ Len(t) = Len(q) - 1 /\ Len(q) \in Nat
    BY AppendProperties, HeadTailProperties
  <1> HIDE DEF p, t
  <1>2. p # t
    BY <1>1
  <1> QED BY <1>2 DEF p, t

(* What makes hubd forget a socket stays until hubd takes it. *)
LEMMA ForgetsKept ==
    ASSUME HandshakeInv, Base, CalmStep, NEW T, HubMail(T), NEW fd \in Fds, Has(hubq, Forgets(fd)),
           ~(hubq # <<>> /\ Head(hubq) \in Forgets(fd) /\ Head(hubq).type \in T /\ hubq' = Tail(hubq))
    PROVE  Has(hubq', Forgets(fd)')
  <1>t. hubq \in Seq(HubMsg)
    BY DEF HandshakeInv, TypeOK, HubTypeOK
  <1>1. PICK i \in DOMAIN hubq : hubq[i] \in Forgets(fd)
    BY DEF Has
  <1>2. PICK m : m = hubq[i] /\ m \in Forgets(fd)
    BY <1>1
  <1>3. Has(hubq', {m})
    <2>0. Has(hubq, {m})
      BY <1>2 DEF Has
    <2>1. ASSUME NEW n \in HubMsg, hubq' = Append(hubq, n) PROVE Has(hubq', {m})
      BY <1>t, <2>0, <2>1, HasAppend
    <2>2. CASE hubq # <<>> /\ Head(hubq).type \in T /\ hubq' = Tail(hubq)
      <3>1. Head(hubq) # m
        BY <1>2, <2>2
      <3> QED BY <1>t, <2>0, <2>2, <3>1, HasTail
    <2> QED BY <2>0, <2>1, <2>2 DEF HubMail
  <1>4. m \in Forgets(fd)'
    <2>1. CASE m.type = "logout"
      BY <1>2, <2>1 DEF Forgets
    <2>2. CASE m.type # "logout"
      <3>1. m \in HubMsg /\ m.type = "registered" /\ m.res = TRUE /\ hs[m.req].fd = fd
        BY <1>2, <2>2 DEF Forgets
      <3>2. m \in HubR
        BY <1>2, <3>1 DEF HubR, Pending, ReqTypes
      <3>3. m.req \in Requests /\ hs[m.req].pc # "none"
        BY <3>2, InFlight
      <3>4. hs'[m.req].fd = fd
        BY <3>1, <3>3, RequestSteps
      <3> QED BY <3>1, <3>4 DEF Forgets
    <2> QED BY <2>1, <2>2
  <1> QED BY <1>3, <1>4 DEF Has

Forgotten(fd) ==
    fd \in FD_Map /\ (Bound(fd) \/ sock[fd] = "closed") => Has(hubq, Forgets(fd))

LEMMA ForgottenKept ==
    ASSUME HandshakeInv, Base, Forgetting, CalmStep, NEW T, HubMail(T), NEW fd \in Fds,
           fd \in FD_Map' => fd \in FD_Map,
           Bound(fd)' \/ sock'[fd] = "closed" => Bound(fd) \/ sock[fd] = "closed",
           fd \in FD_Map' =>
             ~(hubq # <<>> /\ Head(hubq) \in Forgets(fd) /\ Head(hubq).type \in T /\ hubq' = Tail(hubq))
    PROVE  Forgotten(fd)'
  <1>1. SUFFICES ASSUME fd \in FD_Map', Bound(fd)' \/ sock'[fd] = "closed"
                 PROVE  Has(hubq', Forgets(fd)')
    BY DEF Forgotten
  <1>2. Has(hubq, Forgets(fd))
    BY <1>1 DEF Forgetting
  <1> QED BY <1>1, <1>2, ForgetsKept

LEMMA ForgottenAll ==
    ASSUME HandshakeInv', \A fd \in Fds : Forgotten(fd)'
    PROVE  Forgetting'
  <1>1. FD_Map' \subseteq Fds
    BY DEF HandshakeInv, TypeOK, HubTypeOK
  <1> QED BY <1>1 DEF Forgetting, Forgotten

LEMMA ForgettingConnect ==
    ASSUME HandshakeInv, Base, Forgetting, CalmStep, HubDoConnect, NEW fd \in Fds
    PROVE  Forgotten(fd)'
  <1>t. hubq \in Seq(HubMsg)
    BY DEF HandshakeInv, TypeOK, HubTypeOK
  <1>1. /\ hubq # <<>> /\ Head(hubq).type = "connect" /\ hubq' = Tail(hubq)
        /\ FD_Map' = FD_Map \cup {Head(hubq).fd} /\ UNCHANGED <<sock, connection>>
    BY DEF HubDoConnect, HubConnect, HubHas, GateRecv
  <1>2. HubMail({"connect"}) /\ Head(hubq) \notin Forgets(fd)
    BY <1>1 DEF HubMail, Forgets
  <1>3. CASE fd # Head(hubq).fd
    BY <1>1, <1>2, <1>3, ForgottenKept DEF Bound
  <1>4. CASE fd = Head(hubq).fd
    <2>1. Head(hubq) \in Connects(fd)
      BY <1>t, <1>1, <1>4, TailFacts DEF Connects
    <2>2. Has(hubq, Connects(fd))
      BY <1>t, <1>1, <2>1, HasTail
    <2>3. sock[fd] = "accepted" /\ fd \notin DOMAIN connection
      BY <2>2 DEF Base, Sockets, Socket
    <2> QED BY <1>1, <2>3 DEF Forgotten, Bound
  <1> QED BY <1>3, <1>4

LEMMA ForgettingClose ==
    ASSUME HandshakeInv, Base, Forgetting, CalmStep, NEW g \in Fds, GateCloseBegin(g), NEW fd \in Fds
    PROVE  Forgotten(fd)'
  <1> DEFINE m == LogoutMsg(g)
  <1>t. hubq \in Seq(HubMsg) /\ sock \in [Fds -> SockState]
    BY DEF HandshakeInv, TypeOK, HubTypeOK, GateTypeOK
  <1>1. /\ g \in DOMAIN connection /\ hubq' = Append(hubq, m) /\ UNCHANGED <<connection, FD_Map>>
        /\ sock' = [sock EXCEPT ![g] = "closed"]
    BY DEF GateCloseBegin, CloseBegin, HubRecv
  <1>2. /\ m \in HubMsg /\ m.type = "logout" /\ m.fd = g /\ m.uid = connection[g].uid
    BY <1>1 DEF LogoutMsg, HubMsg, HandshakeInv, TypeOK, GateTypeOK, Conn
  <1> HIDE DEF m
  <1>3. HubMail({"logout"}) /\ ~(hubq # <<>> /\ hubq' = Tail(hubq))
    BY <1>t, <1>1, <1>2, AppendNotTail DEF HubMail
  <1>4. Bound(fd)' <=> Bound(fd)
    BY <1>1 DEF Bound
  <1>5. CASE fd # g
    <2>1. sock'[fd] = sock[fd]
      BY <1>t, <1>1, <1>5
    <2> QED BY <1>1, <1>3, <1>4, <2>1, ForgottenKept
  <1>6. CASE fd = g /\ m.uid # None
    <2>1. Bound(fd)
      BY <1>1, <1>2, <1>6 DEF Bound
    <2> QED BY <1>1, <1>3, <2>1, ForgottenKept
  <1>7. CASE fd = g /\ m.uid = None
    <2>1. m \in Forgets(fd)'
      BY <1>2, <1>7 DEF Forgets
    <2>2. Has(hubq', Forgets(fd)')
      BY <1>t, <1>1, <1>2, <2>1, HasAppend
    <2> QED BY <2>2 DEF Forgotten
  <1> QED BY <1>5, <1>6, <1>7

LEMMA ForgettingRegister ==
    ASSUME HandshakeInv, Base, Forgetting, CalmStep, GateRegister, NEW fd \in Fds
    PROVE  Forgotten(fd)'
  <1>t. hubq \in Seq(HubMsg)
    BY DEF HandshakeInv, TypeOK, HubTypeOK
  <1>p. PICK m : m = Head(gateq)
    OBVIOUS
  <1> DEFINE n == [type |-> "registered", req |-> m.req, res |-> m.fd \in DOMAIN connection]
  <1>1. /\ gateq # <<>> /\ m.type = "register"
        /\ connection' = IF m.fd \notin DOMAIN connection THEN connection
                         ELSE [connection EXCEPT ![m.fd] = [uid |-> m.uid, agent |-> m.agent]]
        /\ hubq' = Append(hubq, n) /\ UNCHANGED <<sock, FD_Map, hs>>
    BY <1>p DEF GateRegister, Register, GateHas, HubRecv
  <1>2. m \in GateR /\ m.req \in Requests
    BY <1>p, <1>1, GateHead, GateMsgFacts
  <1>3. n \in HubMsg /\ n.type = "registered" /\ n.req = m.req
    BY <1>2 DEF HubMsg
  <1>r. ASSUME m.fd \in DOMAIN connection PROVE n.res = TRUE
    BY <1>r
  <1> HIDE DEF n
  <1>4. HubMail({"registered"}) /\ ~(hubq # <<>> /\ hubq' = Tail(hubq))
    BY <1>t, <1>1, <1>3, AppendNotTail DEF HubMail
  <1>5. CASE m.fd \in DOMAIN connection /\ fd = m.fd
    <2>1. hs'[m.req].fd = fd
      BY <1>1, <1>2, <1>5 DEF HandshakeInv, Answers
    <2>2. n \in Forgets(fd)'
      BY <1>3, <1>r, <1>5, <2>1 DEF Forgets
    <2>3. Has(hubq', Forgets(fd)')
      BY <1>t, <1>1, <1>3, <2>2, HasAppend
    <2> QED BY <2>3 DEF Forgotten
  <1>6. CASE ~(m.fd \in DOMAIN connection /\ fd = m.fd)
    <2>1. Bound(fd)' => Bound(fd)
      BY <1>1, <1>6 DEF Bound
    <2> QED BY <1>1, <1>4, <2>1, ForgottenKept
  <1> QED BY <1>5, <1>6

LEMMA ForgettingMoves ==
    ASSUME HandshakeInv, Base, Forgetting, CalmStep, NEW r \in Requests, HubMove(r), NEW fd \in Fds
    PROVE  Forgotten(fd)'
  <1>1. /\ HubMail(ReqTypes) /\ UNCHANGED <<sock, connection>>
        /\ fd \in FD_Map' => fd \in FD_Map
    BY DEF HubMove, HubMail
  <1>2. ASSUME Head(hubq) \in Forgets(fd) PROVE fd \notin FD_Map'
    <2>1. Head(hubq).type = "registered" /\ Head(hubq).res = TRUE /\ hs[r].fd = fd
      BY <1>2 DEF HubMove, Forgets, ReqTypes
    <2> QED BY <2>1 DEF HubMove
  <1> QED BY <1>1, <1>2, ForgottenKept DEF Bound

LEMMA ForgettingStep ==
    ASSUME HandshakeInv, Base, Forgetting, CalmStep, HandshakeInv'
    PROVE  Forgetting'
  <1> SUFFICES ASSUME NEW fd \in Fds PROVE Forgotten(fd)'
    BY ForgottenAll
  <1>0. ASSUME UNCHANGED <<FD_Map, connection, sock>>, NEW T, HubMail(T),
               "logout" \notin T, "registered" \notin T
        PROVE  Forgotten(fd)'
    <2>1. ASSUME NEW m \in Forgets(fd) PROVE m.type \notin T
      BY <1>0 DEF Forgets
    <2> QED BY <1>0, <2>1, ForgottenKept DEF Bound
  <1>1. CASE UNCHANGED vars
    <2>1. UNCHANGED <<hubq, FD_Map, connection, sock>>
      BY <1>1 DEF vars, hubVars, gateVars
    <2>2. HubMail({})
      BY <2>1 DEF HubMail
    <2> QED BY <1>0, <2>1, <2>2
  <1>2. CASE BackStep
    BY <1>0, <1>2, BackView DEF gateVars
  <1>3. CASE HubMoves
    BY <1>3, HubMovesView, ForgettingMoves
  <1>4. CASE LoginSteps
    <2>1. HubMail({}) /\ UNCHANGED <<FD_Map, connection, sock>>
      BY <1>4, LoginStepsView DEF HubMail, gateVars
    <2> QED BY <1>0, <2>1
  <1>5. ASSUME NEW r \in Requests, NEW g \in Fds, NEW l \in Logins, ClientHandshake(r, g, l)
        PROVE  Forgotten(fd)'
    <2>1. HubMail({"handshake"}) /\ UNCHANGED <<FD_Map, connection, sock>>
      BY <1>5, PresentsView DEF gateVars
    <2> QED BY <1>0, <2>1
  <1>6. CASE HubDoLogout
    <2>1. /\ hubq # <<>> /\ Head(hubq).type = "logout" /\ Head(hubq).uid # None
          /\ hubq' = Tail(hubq) /\ UNCHANGED <<FD_Map, connection, sock>>
      BY <1>6 DEF HubDoLogout, HubLogout, HubHas, gateVars
    <2>2. HubMail({"logout"}) /\ Head(hubq) \notin Forgets(fd)
      BY <2>1 DEF HubMail, Forgets
    <2> QED BY <2>1, <2>2, ForgottenKept DEF Bound
  <1>7. CASE HubDoForget
    <2>1. /\ hubq # <<>> /\ Head(hubq).type = "logout" /\ Head(hubq).uid = None
          /\ hubq' = Tail(hubq) /\ UNCHANGED <<connection, sock>>
          /\ FD_Map' = FD_Map \ {Head(hubq).fd}
      BY <1>7 DEF HubDoForget, HubForget, HubHas, gateVars
    <2>2. HubMail({"logout"}) /\ (Head(hubq) \in Forgets(fd) => fd \notin FD_Map')
      BY <2>1 DEF HubMail, Forgets
    <2> QED BY <2>1, <2>2, ForgottenKept DEF Bound
  <1>8. ASSUME NEW S \in SUBSET Uids, Timeout(S) PROVE Forgotten(fd)'
    <2>1. HubMail({}) /\ UNCHANGED <<FD_Map, connection, sock>>
      BY <1>8 DEF Timeout, Reap, HubMail, gateVars
    <2> QED BY <1>0, <2>1
  <1>t. sock \in [Fds -> SockState] /\ gateq \in Seq(GateMsg)
    BY DEF HandshakeInv, TypeOK, GateTypeOK
  <1>9. ASSUME NEW g \in Fds, GateOpenRefused(g) \/ GateOpen(g) PROVE Forgotten(fd)'
    <2>1. /\ sock[g] = "none" /\ UNCHANGED <<FD_Map, connection>>
          /\ g # fd => sock'[fd] = sock[fd]
      BY <1>t, <1>9 DEF GateOpenRefused, OpenRefused, GateOpen, Open, HubRecv, hubVars
    <2>2. HubMail({"connect"})
      <3>1. [type |-> "connect", fd |-> g] \in HubMsg
        BY DEF HubMsg
      <3> QED BY <1>9, <3>1 DEF GateOpenRefused, GateOpen, HubRecv, hubVars, HubMail
    <2>3. CASE fd = g
      <3>1. fd \notin FD_Map'
        BY <2>1, <2>3 DEF Base, Sockets, Socket
      <3> QED BY <3>1 DEF Forgotten
    <2>4. CASE fd # g
      <3>1. \A m \in Forgets(fd) : m.type \notin {"connect"}
        BY DEF Forgets
      <3> QED BY <2>1, <2>2, <2>4, <3>1, ForgottenKept DEF Bound
    <2> QED BY <2>3, <2>4
  <1>10. ASSUME NEW g \in Fds, GateCloseEnd(g) PROVE Forgotten(fd)'
    <2>1. UNCHANGED <<FD_Map, sock, hubq>> /\ (Bound(fd)' => Bound(fd))
      BY <1>10 DEF GateCloseEnd, CloseEnd, Drop, hubVars, Bound
    <2>2. HubMail({})
      BY <2>1 DEF HubMail
    <2> QED BY <2>1, <2>2, ForgottenKept
  <1>11. CASE GateConnected
    <2>1. UNCHANGED <<FD_Map, hubq>> /\ (Bound(fd)' => Bound(fd))
      BY <1>11 DEF GateConnected, Connected, hubVars, Bound
    <2>2. HubMail({})
      BY <2>1 DEF HubMail
    <2>3. sock'[fd] = "closed" => sock[fd] = "closed"
      BY <1>t, <1>11 DEF GateConnected, Connected
    <2> QED BY <2>1, <2>2, <2>3, ForgottenKept
  <1> QED BY <1>1, <1>2, <1>3, <1>4, <1>5, <1>6, <1>7, <1>8, <1>9, <1>10, <1>11,
             ForgettingConnect, ForgettingClose, ForgettingRegister DEF CalmStep, GateSteps

-----------------------------------------------------------------------------
(* Where an agent is *)

Keeps(b, x) == (At(b, x)' => At(b, x)) /\ (OnceAt(b, x) => OnceAt(b, x)')

(* An agent stays where it is, or is nowhere any more. *)
LEMMA PlaceKept ==
    ASSUME NEW b, Placed(b), \A x \in Places : Keeps(b, x), Lives(b) => Lives(b)'
    PROVE  Placed(b)'
  BY DEF Placed, Keeps

(* An agent goes from p to s, or is new. *)
LEMMA PlaceMoved ==
    ASSUME NEW b, Placed(b), NEW p \in Places, NEW s \in Places,
           At(b, p) \/ ~Lives(b), p # s => ~At(b, p)',
           \A x \in Places \ {s} : Keeps(b, x), OnceAt(b, s)', Lives(b)'
    PROVE  Placed(b)'
  <1>1. \A x \in Places : OnceAt(b, x)'
    BY DEF Placed, Keeps
  <1>2. \A x \in Places : At(b, x)' => x = s
    BY DEF Placed, Keeps
  <1> QED BY <1>1, <1>2 DEF Placed

LEMMA LivesOn ==
    ASSUME NEW b, Lives(b), spawned' = spawned, agent_map' = agent_map
    PROVE  Lives(b)'
  BY DEF Lives

(* An agent that was in p is nowhere any more: it was killed. *)
LEMMA PlaceLeft ==
    ASSUME NEW b, Placed(b), NEW p \in Places, At(b, p), ~At(b, p)',
           \A x \in Places : Keeps(b, x)
    PROVE  Placed(b)'
  <1>1. \A x \in Places : ~At(b, x)'
    BY DEF Placed, Keeps
  <1> QED BY <1>1 DEF Placed, Keeps

(* The places one by one. *)
LEMMA KeepPool ==
    ASSUME NEW b, pool' = pool
    PROVE  Keeps(b, "pool")
  BY DEF Keeps, At, OnceAt

LEMMA KeepSpawn ==
    ASSUME NEW b, \A w \in spawning' : w.agent = b => w \in spawning
    PROVE  Keeps(b, "spawn")
  BY DEF Keeps, At, OnceAt

LEMMA MailKept ==
    ASSUME NEW S, NEW q \in Seq(S), NEW p, NEW M,
           \/ p = q \/ (q # <<>> /\ p = Tail(q))
           \/ \E m \in S : m \notin M /\ p = Append(q, m)
    PROVE  /\ Has(p, M) => Has(q, M)
           /\ Single(q, M) => Single(p, M)
  <1>1. CASE p = q
    BY <1>1
  <1>2. CASE q # <<>> /\ p = Tail(q)
    BY <1>2, HasTail
  <1>3. ASSUME NEW m \in S, m \notin M, p = Append(q, m)
        PROVE  /\ Has(p, M) => Has(q, M)
               /\ Single(q, M) => Single(p, M)
    BY <1>3, HasAppend
  <1> QED BY <1>1, <1>2, <1>3

LEMMA KeepGot ==
    ASSUME HandshakeInv, NEW b,
           \/ hubq' = hubq \/ (hubq # <<>> /\ hubq' = Tail(hubq))
           \/ \E m \in HubMsg : m \notin Gots(b) /\ hubq' = Append(hubq, m)
    PROVE  Keeps(b, "got")
  <1>t. hubq \in Seq(HubMsg)
    BY DEF HandshakeInv, TypeOK, HubTypeOK
  <1>1. /\ Has(hubq', Gots(b)) => Has(hubq, Gots(b))
        /\ Single(hubq, Gots(b)) => Single(hubq', Gots(b))
    BY <1>t, MailKept
  <1>2. Gots(b)' = Gots(b)
    BY DEF Gots
  <1> QED BY <1>1, <1>2 DEF Keeps, At, OnceAt

LEMMA KeepHub ==
    ASSUME HandshakeInv, NEW b,
           \/ hubq' = hubq \/ (hubq # <<>> /\ hubq' = Tail(hubq))
           \/ \E m \in HubMsg : m \notin Leaves(b) /\ hubq' = Append(hubq, m)
    PROVE  Keeps(b, "hub")
  <1>t. hubq \in Seq(HubMsg)
    BY DEF HandshakeInv, TypeOK, HubTypeOK
  <1>1. /\ Has(hubq', Leaves(b)) => Has(hubq, Leaves(b))
        /\ Single(hubq, Leaves(b)) => Single(hubq', Leaves(b))
    BY <1>t, MailKept
  <1>2. Leaves(b)' = Leaves(b)
    BY DEF Leaves
  <1> QED BY <1>1, <1>2 DEF Keeps, At, OnceAt

LEMMA KeepHeld ==
    ASSUME NEW b, \A r \in Requests : Holds(r, b)' => Holds(r, b)
    PROVE  Keeps(b, "held")
  BY DEF Keeps, At, OnceAt

LEMMA KeepAgent ==
    ASSUME HandshakeInv, NEW b \in Agents,
           \/ agentq'[b] = agentq[b] \/ (agentq[b] # <<>> /\ agentq'[b] = Tail(agentq[b]))
           \/ \E m \in AgentMsg : m \notin Quits /\ agentq'[b] = Append(agentq[b], m)
    PROVE  Keeps(b, "agent")
  <1>t. agentq[b] \in Seq(AgentMsg)
    BY DEF HandshakeInv, TypeOK, PoolTypeOK
  <1> DEFINE q == agentq[b]
             p == agentq'[b]
  <1> HIDE DEF q, p
  <1>1. \/ p = q \/ (q # <<>> /\ p = Tail(q))
        \/ \E m \in AgentMsg : m \notin Quits /\ p = Append(q, m)
    BY DEF p, q
  <1>2. q \in Seq(AgentMsg)
    BY <1>t DEF q
  <1>3. /\ Has(p, Quits) => Has(q, Quits)
        /\ Single(q, Quits) => Single(p, Quits)
    BY <1>1, <1>2, MailKept
  <1>4. Quits' = Quits
    BY DEF Quits
  <1> QED BY <1>3, <1>4 DEF Keeps, At, OnceAt, p, q

LEMMA KeepSave ==
    ASSUME NEW b, saving'[b] = saving[b]
    PROVE  Keeps(b, "save")
  BY DEF Keeps, At, OnceAt

LEMMA KeepRecycle ==
    ASSUME NEW b, recycling'[b] = recycling[b]
    PROVE  Keeps(b, "recycle")
  BY DEF Keeps, At, OnceAt

(* Nobody takes an agent, or gives it back. *)
LEMMA PlacesKept ==
    ASSUME HandshakeInv, NEW b \in Agents, Placed(b),
           Keeps(b, "pool"), Keeps(b, "spawn"), Keeps(b, "got"), Keeps(b, "held"),
           Keeps(b, "hub"), Keeps(b, "agent"), Keeps(b, "save"), Keeps(b, "recycle"),
           spawned' \in {spawned, spawned + 1}, b \in agent_map => b \in agent_map'
    PROVE  Placed(b)'
  <1>1. \A x \in Places : Keeps(b, x)
    BY DEF Places
  <1>2. b \in Nat /\ spawned \in Nat
    BY EntitiesAssumption DEF Agents, HandshakeInv, TypeOK, PoolTypeOK
  <1>3. Lives(b) => Lives(b)'
    BY <1>2 DEF Lives
  <1> QED BY <1>1, <1>3, PlaceKept

(* A request gets its agent from agent_mgr, and in no other way. *)
LEMMA HeldSteps ==
    ASSUME HandshakeInv, Base, CalmStep, NEW r \in Requests, NEW b \in Agents, Holds(r, b)'
    PROVE  Holds(r, b) \/ (HubMove(r) /\ hs'[r].pc = "start" /\ Head(hubq).agent = b)
  <1>1. hs'[r].pc \in {"start", "register", "done"}
    BY DEF Holds
  <1>2. ASSUME hs'[r] = hs[r], hs[r].pc # "none" => UserOf(r)' = UserOf(r) PROVE Holds(r, b)
    <2>1. hs[r].fd \in Fds
      BY <1>1, <1>2 DEF HandshakeInv, Presented
    <2>2. sock[hs[r].fd] = "closed" => sock'[hs[r].fd] = "closed"
      BY <2>1, SockSteps
    <2> QED BY <1>1, <1>2, <2>2 DEF Holds
  <1>3. ASSUME hs' = hs, user' = user PROVE Holds(r, b)
    BY <1>2, <1>3 DEF UserOf
  <1>4. CASE UNCHANGED vars
    BY <1>3, <1>4 DEF vars, hubVars
  <1>5. CASE BackStep
    BY <1>3, <1>5, BackView
  <1>6. CASE QuietStep
    BY <1>3, <1>6, QuietView
  <1>7. CASE LoginSteps
    BY <1>2, <1>7, LoginStepsView
  <1>8. ASSUME NEW q \in Requests, NEW fd \in Fds, NEW l \in Logins, ClientHandshake(q, fd, l)
        PROVE  Holds(r, b)
    <2>1. /\ user' = user /\ hs'[q].pc = "sent" /\ \A p \in Requests : p # q => hs'[p] = hs[p]
      BY <1>8, PresentsView
    <2>2. r # q
      BY <1>1, <2>1
    <2> QED BY <1>2, <2>1, <2>2 DEF UserOf
  <1>9. ASSUME NEW q \in Requests, HubMove(q)
        PROVE  Holds(r, b) \/ (HubMove(r) /\ hs'[r].pc = "start" /\ Head(hubq).agent = b)
    <2>1. CASE q # r
      <3>1. hs'[r] = hs[r] /\ hs[r].pc # "none"
        BY <1>1, <1>9, <2>1 DEF HubMove
      <3>2. hs[r].tok \in Logins /\ hs[r].tok # hs[q].tok
        BY <2>1, <3>1, EntitiesAssumption DEF HandshakeInv, Presented, Base, OneEach
      <3>3. UserOf(r)' = UserOf(r)
        BY <1>9, <3>1, <3>2 DEF HubMove, UserOf
      <3> QED BY <1>2, <3>1, <3>3
    <2>2. CASE q = r
      <3>1. /\ hs'[r].fd = hs[r].fd /\ hs'[r].tok = hs[r].tok /\ sock' = sock
            /\ user'[hs[r].tok].agent = IF hs'[r].pc = "start" THEN Head(hubq).agent
                                        ELSE user[hs[r].tok].agent
            /\ hs'[r].pc = "register" => hs[r].pc = "start"
            /\ hs'[r].pc = "done" => hs[r].pc = "register"
        BY <1>9, <2>2 DEF HubMove
      <3>2. user'[hs[r].tok].agent = b
        BY <3>1 DEF Holds, UserOf
      <3>3. CASE hs'[r].pc = "start"
        BY <1>9, <2>2, <3>1, <3>2, <3>3
      <3>4. CASE hs'[r].pc # "start"
        BY <1>1, <3>1, <3>2, <3>4 DEF Holds, UserOf
      <3> QED BY <3>3, <3>4
    <2> QED BY <2>1, <2>2
  <1> QED BY <1>4, <1>5, <1>6, <1>7, <1>8, <1>9, HubMovesView DEF CalmStep, QuietStep

(* The same without one. *)
LEMMA HeldKept ==
    ASSUME HandshakeInv, Base, CalmStep, NEW b \in Agents,
           ~(hubq # <<>> /\ Head(hubq).type = "got" /\ hubq' = Tail(hubq) /\ Head(hubq).agent = b)
    PROVE  Keeps(b, "held")
  <1>1. ASSUME NEW r \in Requests, Holds(r, b)' PROVE Holds(r, b)
    BY <1>1, HeldSteps DEF HubMove
  <1> QED BY <1>1, KeepHeld

LEMMA HeldStill ==
    ASSUME HandshakeInv, Base, CalmStep, NEW b \in Agents,
           hubq' = hubq \/ \E m \in HubMsg : hubq' = Append(hubq, m)
    PROVE  Keeps(b, "held")
  <1>1. hubq \in Seq(HubMsg)
    BY DEF HandshakeInv, TypeOK, HubTypeOK
  <1>2. ASSUME hubq # <<>> PROVE Tail(hubq) # hubq
    <2>1. Len(Tail(hubq)) = Len(hubq) - 1 /\ Len(hubq) \in Nat
      BY <1>1, <1>2, HeadTailProperties, LenProperties
    <2> QED BY <2>1
  <1>3. hubq # <<>> => hubq' # Tail(hubq)
    BY <1>1, <1>2, AppendNotTail
  <1> QED BY <1>3, HeldKept

(* The top of the pool is taken. *)
LEMMA HasFront ==
    ASSUME NEW S, NEW q \in Seq(S), q # <<>>, NEW M
    PROVE  LET p == SubSeq(q, 1, Len(q) - 1)
           IN  /\ Has(p, M) => Has(q, M)
               /\ Single(q, M) => Single(p, M) /\ (q[Len(q)] \in M => ~Has(p, M))
  <1> DEFINE n == Len(q) - 1
             p == SubSeq(q, 1, n)
  <1>1. Len(q) \in Nat /\ Len(q) > 0 /\ DOMAIN q = 1..Len(q)
    BY EmptySeq, LenProperties
  <1>2. n \in Int /\ n >= 0 /\ Len(q) = n + 1 /\ DOMAIN q = 1..(n + 1)
    BY <1>1
  <1>3. \A i \in 1..n : q[i] \in S
    BY <1>1, ElementOfSeq
  <1> HIDE DEF n
  <1>4. /\ p \in Seq(S) /\ Len(p) = IF 1 <= n THEN n - 1 + 1 ELSE 0
        /\ \A i \in 1..(n - 1 + 1) : p[i] = q[1 + i - 1]
    BY <1>2, <1>3, SubSeqProperties
  <1>5. Len(p) = n
    BY <1>2, <1>4
  <1>6. DOMAIN p = 1..n
    BY <1>4, <1>5, LenProperties
  <1>7. \A i \in DOMAIN p : i \in DOMAIN q /\ i # Len(q) /\ p[i] = q[i]
    BY <1>2, <1>4, <1>6
  <1> HIDE DEF p
  <1>8. Len(q) \in DOMAIN q
    BY <1>2
  <1>9. /\ Has(p, M) => Has(q, M)
        /\ Single(q, M) => Single(p, M) /\ (q[Len(q)] \in M => ~Has(p, M))
    BY <1>7, <1>8 DEF Has, Single
  <1> QED BY <1>9 DEF p, n

(* What PlaceMoved needs, place by place. *)
LEMMA SpawnedNat == ASSUME HandshakeInv, NEW b \in Agents PROVE b \in Nat /\ spawned \in Nat
  BY EntitiesAssumption DEF Agents, HandshakeInv, TypeOK, PoolTypeOK

(* From the pool to the request that asked. *)
LEMMA PlaceGet ==
    ASSUME HandshakeInv, Base, CalmStep, NEW r \in Requests, PoolGet(r), NEW b \in Agents, Placed(b)
    PROVE  Placed(b)'
  <1>t. pool \in Seq(Agents) /\ hubq \in Seq(HubMsg)
    BY DEF HandshakeInv, TypeOK, PoolTypeOK, HubTypeOK
  <1> DEFINE a == pool[Len(pool)]
             m == [type |-> "got", req |-> r, agent |-> a]
  <1>1. /\ pool # <<>> /\ pool' = SubSeq(pool, 1, Len(pool) - 1) /\ hubq' = Append(hubq, m)
        /\ UNCHANGED <<agent_map, spawned, spawning, agentVars>>
    BY DEF PoolGet, GetPooled, HubRecv
  <1>2. a \in Agents
    BY <1>t, <1>1, FrontFacts
  <1>3. m \in HubMsg /\ m \notin Leaves(b) /\ (a = b <=> m \in Gots(b))
    BY <1>2 DEF HubMsg, Leaves, Gots
  <1> HIDE DEF m
  <1>4. /\ Has(pool', {b}) => Has(pool, {b})
        /\ Single(pool, {b}) => Single(pool', {b}) /\ (a \in {b} => ~Has(pool', {b}))
    BY <1>t, <1>1, HasFront
  <1>5. Keeps(b, "pool")
    BY <1>4 DEF Keeps, At, OnceAt
  <1>6. Keeps(b, "spawn") /\ Keeps(b, "agent") /\ Keeps(b, "save") /\ Keeps(b, "recycle")
    BY <1>1, KeepSpawn, KeepAgent, KeepSave, KeepRecycle DEF agentVars
  <1>7. Keeps(b, "hub")
    BY <1>1, <1>3, KeepHub
  <1>8. Keeps(b, "held")
    BY <1>1, <1>3, HeldStill
  <1>9. CASE a # b
    <2>1. Keeps(b, "got")
      BY <1>1, <1>3, <1>9, KeepGot
    <2> QED BY <1>1, <1>5, <1>6, <1>7, <1>8, <2>1, PlacesKept
  <1>10. CASE a = b
    <2>1. At(b, "pool") /\ ~At(b, "pool")'
      <3>1. pool # <<>> => Len(pool) \in DOMAIN pool
        BY <1>t, EmptySeq, LenProperties
      <3>2. Has(pool, {b})
        BY <1>1, <1>10, <3>1 DEF Has
      <3>3. Single(pool, {b})
        BY DEF Placed, OnceAt, Places
      <3> QED BY <1>4, <1>10, <3>2, <3>3 DEF At
    <2>2. ~Has(hubq, Gots(b)) /\ Single(hubq, Gots(b)) /\ Lives(b)
      BY <2>1 DEF Placed, Places, At, OnceAt
    <2>3. OnceAt(b, "got")'
      <3>1. Single(hubq', Gots(b))
        BY <1>t, <1>1, <1>3, <2>2, HasAppend
      <3> QED BY <3>1 DEF OnceAt, Gots
    <2>4. \A x \in Places \ {"got"} : Keeps(b, x)
      BY <1>5, <1>6, <1>7, <1>8 DEF Places
    <2>5. "pool" \in Places /\ "got" \in Places
      BY DEF Places
    <2> QED BY <1>1, <2>1, <2>2, <2>3, <2>4, <2>5, LivesOn, PlaceMoved
  <1> QED BY <1>9, <1>10

(* A new agent, for a request. *)
LEMMA PlaceCreated ==
    ASSUME HandshakeInv, Base, CalmStep, NEW w \in spawning, PoolCreated(w), NEW b \in Agents, Placed(b)
    PROVE  Placed(b)'
  <1>t. spawning \subseteq [req: Requests, agent: Agents \cup {None}, left: 1..ExpandBy]
    BY DEF HandshakeInv, TypeOK, PoolTypeOK
  <1> DEFINE v == [w EXCEPT !.agent = NewAgent]
  <1>1. /\ w.agent = None /\ spawned' = spawned + 1 /\ spawning' = (spawning \ {w}) \cup {v}
        /\ agent_map' = agent_map \cup {spawned + 1}
        /\ UNCHANGED <<hubq, pool, agentVars>>
    BY DEF PoolCreated, GetCreated, NewService, NewAgent, hubVars
  <1>2. v.agent = spawned + 1
    BY <1>t DEF NewAgent
  <1> HIDE DEF v
  <1>3. /\ Keeps(b, "pool") /\ Keeps(b, "got") /\ Keeps(b, "hub") /\ Keeps(b, "agent")
        /\ Keeps(b, "save") /\ Keeps(b, "recycle")
    BY <1>1, KeepPool, KeepGot, KeepHub, KeepAgent, KeepSave, KeepRecycle DEF agentVars
  <1>4. Keeps(b, "held")
    BY <1>1, HeldStill
  <1>5. CASE b # spawned + 1
    <2>1. Keeps(b, "spawn")
      BY <1>1, <1>2, <1>5, KeepSpawn
    <2> QED BY <1>1, <1>3, <1>4, <2>1, PlacesKept
  <1>6. CASE b = spawned + 1
    <2>1. ~Lives(b) /\ Lives(b)'
      BY <1>1, <1>6, SpawnedNat DEF Lives
    <2>2. \A x \in spawning : x.agent # b
      BY <2>1 DEF Placed, Places, At
    <2>3. OnceAt(b, "spawn")'
      BY <1>1, <2>2 DEF OnceAt
    <2>4. \A x \in Places \ {"spawn"} : Keeps(b, x)
      BY <1>3, <1>4 DEF Places
    <2>5. "spawn" \in Places
      BY DEF Places
    <2> QED BY <2>1, <2>3, <2>4, <2>5, PlaceMoved
  <1> QED BY <1>5, <1>6

(* A new agent for the pool; after the last one the request gets its own. *)
LEMMA PlaceExpands ==
    ASSUME HandshakeInv, Base, CalmStep, NEW w \in spawning, PoolExpands(w), NEW b \in Agents, Placed(b)
    PROVE  Placed(b)'
  <1>t. /\ spawning \subseteq [req: Requests, agent: Agents \cup {None}, left: 1..ExpandBy]
        /\ pool \in Seq(Agents) /\ hubq \in Seq(HubMsg)
    BY DEF HandshakeInv, TypeOK, PoolTypeOK, HubTypeOK
  <1> DEFINE v == [w EXCEPT !.left = @ - 1]
             m == [type |-> "got", req |-> w.req, agent |-> w.agent]
  <1>1. /\ w.agent # None /\ spawned < MaxAgents /\ spawned' = spawned + 1
        /\ pool' = Append(pool, spawned + 1) /\ UNCHANGED agentVars
        /\ agent_map' = agent_map \cup {spawned + 1}
        /\ spawning' = (spawning \ {w}) \cup IF w.left = 1 THEN {} ELSE {v}
        /\ w.left = 1 => hubq' = Append(hubq, m)
        /\ w.left # 1 => hubq' = hubq
    BY DEF PoolExpands, ExpandPool, NewService, NewAgent, hubVars, HubRecv
  <1>2. w.agent \in Agents /\ w.req \in Requests /\ v.agent = w.agent
    BY <1>t, <1>1
  <1>3. m \in HubMsg /\ m \notin Leaves(b) /\ (w.agent = b <=> m \in Gots(b))
    BY <1>2 DEF HubMsg, Leaves, Gots
  <1> HIDE DEF v, m
  <1>4. spawned + 1 \in Agents
    BY <1>1, EntitiesAssumption, SpawnedNat DEF Agents
  <1>5. Keeps(b, "hub") /\ Keeps(b, "agent") /\ Keeps(b, "save") /\ Keeps(b, "recycle")
    BY <1>1, <1>3, KeepHub, KeepAgent, KeepSave, KeepRecycle DEF agentVars
  <1>6. Keeps(b, "held")
    BY <1>1, <1>3, HeldStill
  <1>7. /\ Has(pool', {b}) <=> Has(pool, {b}) \/ spawned + 1 \in {b}
        /\ Single(pool, {b}) /\ (spawned + 1 \in {b} => ~Has(pool, {b})) => Single(pool', {b})
    BY <1>t, <1>1, <1>4, HasAppend
  <1>8. CASE b = spawned + 1
    <2>1. ~Lives(b) /\ Lives(b)'
      BY <1>1, <1>8, SpawnedNat DEF Lives
    <2>2. ~At(b, "pool") /\ ~At(b, "spawn")
      BY <2>1 DEF Placed, Places
    <2>3. w.agent # b
      BY <2>2 DEF At
    <2>4. Keeps(b, "got") /\ Keeps(b, "spawn")
      BY <1>1, <1>2, <1>3, <2>3, KeepGot, KeepSpawn
    <2>5. OnceAt(b, "pool")'
      BY <1>7, <2>2 DEF OnceAt, At, Placed, Places
    <2>6. \A x \in Places \ {"pool"} : Keeps(b, x)
      BY <1>5, <1>6, <2>4 DEF Places
    <2>7. "pool" \in Places
      BY DEF Places
    <2> QED BY <2>1, <2>5, <2>6, <2>7, PlaceMoved
  <1>9. CASE b # spawned + 1
    <2>1. Keeps(b, "pool")
      BY <1>7, <1>9 DEF Keeps, At, OnceAt
    <2>2. CASE w.agent # b
      <3>1. Keeps(b, "got") /\ Keeps(b, "spawn")
        BY <1>1, <1>2, <1>3, <2>2, KeepGot, KeepSpawn
      <3> QED BY <1>1, <1>5, <1>6, <2>1, <3>1, PlacesKept
    <2>3. CASE w.agent = b
      <3>0. At(b, "spawn") /\ \A u \in spawning : u.agent = b => u = w
        BY <2>3 DEF At, Placed, Places, OnceAt
      <3>1. Lives(b) /\ Lives(b)'
        <4>1. Lives(b)
          BY <3>0 DEF Placed, Places
        <4> QED BY <1>1, <4>1, SpawnedNat DEF Lives
      <3>2. CASE w.left = 1
        <4>1. ~At(b, "spawn")'
          BY <1>1, <3>0, <3>2 DEF At
        <4>2. ~Has(hubq, Gots(b)) /\ Single(hubq, Gots(b))
          BY <3>0 DEF Placed, Places, At, OnceAt
        <4>3. Single(hubq', Gots(b))
          <5>1. hubq' = Append(hubq, m)
            BY <1>1, <3>2
          <5> QED BY <1>t, <1>3, <4>2, <5>1, HasAppend
        <4>4. OnceAt(b, "got")'
          BY <4>3 DEF OnceAt, Gots
        <4>5. Keeps(b, "spawn")
          BY <4>1, <1>1, <3>2, KeepSpawn
        <4>6. \A x \in Places \ {"got"} : Keeps(b, x)
          BY <1>5, <1>6, <2>1, <4>5 DEF Places
        <4>7. "spawn" \in Places /\ "got" \in Places
          BY DEF Places
        <4> QED BY <3>0, <3>1, <4>1, <4>4, <4>6, <4>7, PlaceMoved
      <3>3. CASE w.left # 1
        <4>1. Keeps(b, "got")
          BY <1>1, <3>3, KeepGot
        <4>2. OnceAt(b, "spawn")'
          BY <1>1, <3>0, <3>3 DEF OnceAt
        <4>3. \A x \in Places \ {"spawn"} : Keeps(b, x)
          BY <1>5, <1>6, <2>1, <4>1 DEF Places
        <4>4. "spawn" \in Places
          BY DEF Places
        <4> QED BY <3>0, <3>1, <4>2, <4>3, <4>4, PlaceMoved
      <3> QED BY <3>2, <3>3
    <2> QED BY <2>2, <2>3
  <1> QED BY <1>8, <1>9

(* Back to the pool, or killed. *)
LEMMA PlaceRecycle ==
    ASSUME HandshakeInv, Base, CalmStep, NEW a \in Agents, PoolRecycle(a), NEW b \in Agents, Placed(b)
    PROVE  Placed(b)'
  <1>t. pool \in Seq(Agents) /\ recycling \in [Agents -> Nat]
    BY DEF HandshakeInv, TypeOK, PoolTypeOK
  <1>1. /\ recycling[a] > 0 /\ recycling' = [recycling EXCEPT ![a] = @ - 1]
        /\ \/ pool' = pool /\ agent_map' = agent_map \ {a}
           \/ pool' = Append(pool, a) /\ agent_map' = agent_map
        /\ UNCHANGED <<hubq, spawned, spawning, agentq, saving>>
    BY DEF PoolRecycle, Recycle, hubVars
  <1>2. /\ Keeps(b, "spawn") /\ Keeps(b, "got") /\ Keeps(b, "hub") /\ Keeps(b, "agent")
        /\ Keeps(b, "save") /\ Keeps(b, "held")
    BY <1>1, KeepSpawn, KeepGot, KeepHub, KeepAgent, KeepSave, HeldStill
  <1>3. ASSUME pool' = Append(pool, a)
        PROVE  /\ Has(pool', {b}) <=> Has(pool, {b}) \/ a \in {b}
               /\ Single(pool, {b}) /\ (a \in {b} => ~Has(pool, {b})) => Single(pool', {b})
    BY <1>t, <1>3, HasAppend
  <1>4. CASE a # b
    <2>1. Keeps(b, "recycle")
      BY <1>t, <1>1, <1>4, KeepRecycle
    <2>2. Keeps(b, "pool")
      BY <1>1, <1>3, <1>4 DEF Keeps, At, OnceAt
    <2> QED BY <1>1, <1>2, <1>4, <2>1, <2>2, PlacesKept
  <1>5. CASE a = b
    <2>1. At(b, "recycle") /\ recycling[b] <= 1
      BY <1>1, <1>5 DEF At, Placed, Places, OnceAt
    <2>2. recycling'[b] = 0
      BY <1>t, <1>1, <1>5, <2>1
    <2>3. ~Has(pool, {b}) /\ Single(pool, {b}) /\ Lives(b)
      BY <2>1 DEF Placed, Places, At, OnceAt
    <2>4. OnceAt(b, "pool")'
      BY <1>1, <1>3, <2>3 DEF OnceAt
    <2>5. ~At(b, "recycle")' /\ Keeps(b, "recycle")
      BY <2>2 DEF At, Keeps, OnceAt
    <2>6. \A x \in Places \ {"pool"} : Keeps(b, x)
      BY <1>2, <2>5 DEF Places
    <2>7. "recycle" \in Places /\ "pool" \in Places
      BY DEF Places
    <2>8. CASE pool' = pool
      <3>1. \A x \in Places : Keeps(b, x)
        BY <2>6, <2>8, KeepPool
      <3> QED BY <2>1, <2>5, <2>7, <3>1, PlaceLeft
    <2>9. CASE agent_map' = agent_map
      <3>1. Lives(b)'
        BY <1>1, <2>3, <2>9 DEF Lives
      <3> QED BY <2>1, <2>4, <2>5, <2>6, <2>7, <3>1, PlaceMoved
    <2> QED BY <1>1, <2>8, <2>9
  <1> QED BY <1>4, <1>5

(* The agent gets its logout and saves, and then asks to be recycled. *)
LEMMA PlaceSaves ==
    ASSUME HandshakeInv, Base, CalmStep, NEW a \in Agents, AgentDoLogout(a), NEW b \in Agents, Placed(b)
    PROVE  Placed(b)'
  <1>t. agentq \in [Agents -> Seq(AgentMsg)] /\ saving \in [Agents -> Nat]
    BY DEF HandshakeInv, TypeOK, PoolTypeOK
  <1>1. /\ agentq[a] # <<>> /\ Head(agentq[a]).type = "logout"
        /\ agentq' = [agentq EXCEPT ![a] = Tail(@)] /\ saving' = [saving EXCEPT ![a] = @ + 1]
        /\ UNCHANGED <<hubq, poolVars, recycling>>
    BY DEF AgentDoLogout, AgentLogout, AgentHas, hubVars
  <1>2. /\ Keeps(b, "pool") /\ Keeps(b, "spawn") /\ Keeps(b, "got") /\ Keeps(b, "hub")
        /\ Keeps(b, "recycle") /\ Keeps(b, "held") /\ spawned' = spawned /\ agent_map' = agent_map
    BY <1>1, KeepPool, KeepSpawn, KeepGot, KeepHub, KeepRecycle, HeldStill DEF poolVars
  <1>3. Keeps(b, "agent")
    BY <1>t, <1>1, KeepAgent
  <1>4. CASE a # b
    <2>1. Keeps(b, "save")
      BY <1>t, <1>1, <1>4, KeepSave
    <2> QED BY <1>2, <1>3, <2>1, PlacesKept
  <1>5. CASE a = b
    <2> DEFINE q == agentq[b]
    <2>0. q \in Seq(AgentMsg) /\ q # <<>> /\ agentq'[b] = Tail(q) /\ Head(q) \in Quits
      <3>1. q \in Seq(AgentMsg) /\ q # <<>> /\ agentq'[b] = Tail(q)
        BY <1>t, <1>1, <1>5
      <3>2. Head(q) \in AgentMsg
        BY <3>1, TailFacts
      <3> QED BY <1>1, <1>5, <3>1, <3>2 DEF Quits
    <2>1. Single(q, Quits)
      BY DEF Placed, Places, OnceAt
    <2> HIDE DEF q
    <2>2. Has(q, Quits) /\ ~Has(Tail(q), Quits)
      BY <2>0, <2>1, HasTail
    <2>3. At(b, "agent") /\ ~At(b, "agent")'
      BY <2>0, <2>2 DEF At, Quits, q
    <2>4. saving[b] = 0 /\ Lives(b)
      BY <2>3 DEF Placed, Places, At
    <2>5. saving'[b] = 1
      BY <1>t, <1>1, <1>5, <2>4
    <2>6. OnceAt(b, "save")'
      BY <2>5 DEF OnceAt
    <2>7. \A x \in Places \ {"save"} : Keeps(b, x)
      BY <1>2, <1>3 DEF Places
    <2>8. "agent" \in Places /\ "save" \in Places
      BY DEF Places
    <2> QED BY <1>2, <2>3, <2>4, <2>6, <2>7, <2>8, LivesOn, PlaceMoved
  <1> QED BY <1>4, <1>5

LEMMA PlaceSaved ==
    ASSUME HandshakeInv, Base, CalmStep, NEW a \in Agents, AgentDoSaved(a) \/ AgentDoSaveRaised(a),
           NEW b \in Agents, Placed(b)
    PROVE  Placed(b)'
  <1>t. recycling \in [Agents -> Nat] /\ saving \in [Agents -> Nat]
    BY DEF HandshakeInv, TypeOK, PoolTypeOK
  <1>1. /\ saving[a] > 0 /\ saving' = [saving EXCEPT ![a] = @ - 1]
        /\ \/ recycling' = [recycling EXCEPT ![a] = @ + 1]
           \/ recycling' = recycling
        /\ UNCHANGED <<hubq, poolVars, agentq>>
    BY DEF AgentDoSaved, AgentSaved, AgentDoSaveRaised, AgentSaveRaised, hubVars
  <1>2. /\ Keeps(b, "pool") /\ Keeps(b, "spawn") /\ Keeps(b, "got") /\ Keeps(b, "hub")
        /\ Keeps(b, "agent") /\ Keeps(b, "held") /\ spawned' = spawned /\ agent_map' = agent_map
    BY <1>1, KeepPool, KeepSpawn, KeepGot, KeepHub, KeepAgent, HeldStill DEF poolVars
  <1>3. CASE a # b
    <2>1. Keeps(b, "save") /\ Keeps(b, "recycle")
      BY <1>t, <1>1, <1>3, KeepSave, KeepRecycle
    <2> QED BY <1>2, <2>1, PlacesKept
  <1>4. CASE a = b
    <2>1. At(b, "save") /\ saving[b] <= 1
      BY <1>1, <1>4 DEF At, Placed, Places, OnceAt
    <2>2. recycling[b] = 0 /\ Lives(b)
      BY <2>1 DEF Placed, Places, At
    <2>3. saving'[b] = 0 /\ recycling'[b] <= 1
      BY <1>t, <1>1, <1>4, <2>1, <2>2
    <2>4. ~At(b, "save")' /\ Keeps(b, "save") /\ OnceAt(b, "recycle")'
      BY <2>3 DEF At, OnceAt, Keeps
    <2>5. \A x \in Places \ {"recycle"} : Keeps(b, x)
      BY <1>2, <2>4 DEF Places
    <2>6. "save" \in Places /\ "recycle" \in Places
      BY DEF Places
    <2> QED BY <1>2, <2>1, <2>2, <2>4, <2>5, <2>6, LivesOn, PlaceMoved
  <1> QED BY <1>3, <1>4

(* hubd tells the agent that its client is gone. *)
LEMMA PlaceLogout ==
    ASSUME HandshakeInv, Base, CalmStep, HubDoLogout, NEW b \in Agents, Placed(b)
    PROVE  Placed(b)'
  <1>t. hubq \in Seq(HubMsg) /\ agentq \in [Agents -> Seq(AgentMsg)]
    BY DEF HandshakeInv, TypeOK, HubTypeOK, PoolTypeOK
  <1>p. PICK h : h = Head(hubq)
    OBVIOUS
  <1> DEFINE m == [type |-> "logout"]
  <1>1. /\ hubq # <<>> /\ h.type = "logout" /\ h.uid # None /\ hubq' = Tail(hubq)
        /\ agentq' = [agentq EXCEPT ![h.agent] = Append(@, m)]
        /\ UNCHANGED <<poolVars, saving, recycling>>
    BY <1>p DEF HubDoLogout, HubLogout, HubHas, AgentRecv
  <1>2. h \in HubMsg /\ (h \in Leaves(b) <=> h.agent = b)
    BY <1>t, <1>p, <1>1, TailFacts DEF Leaves
  <1>3. m \in AgentMsg /\ m \in Quits
    BY DEF AgentMsg, Quits
  <1> HIDE DEF m
  <1>4. /\ Keeps(b, "pool") /\ Keeps(b, "spawn") /\ Keeps(b, "got") /\ Keeps(b, "hub")
        /\ Keeps(b, "save") /\ Keeps(b, "recycle") /\ spawned' = spawned /\ agent_map' = agent_map
    BY <1>1, KeepPool, KeepSpawn, KeepGot, KeepHub, KeepSave, KeepRecycle DEF poolVars
  <1>5. Keeps(b, "held")
    BY <1>p, <1>1, HeldKept
  <1>6. CASE h.agent # b
    <2>1. Keeps(b, "agent")
      BY <1>t, <1>1, <1>6, KeepAgent
    <2> QED BY <1>4, <1>5, <2>1, PlacesKept
  <1>7. CASE h.agent = b
    <2>1. Single(hubq, Leaves(b))
      BY DEF Placed, Places, OnceAt
    <2>2. Has(hubq, Leaves(b)) /\ ~Has(hubq', Leaves(b))
      BY <1>t, <1>p, <1>1, <1>2, <1>7, <2>1, HasTail
    <2>3. At(b, "hub") /\ ~At(b, "hub")'
      BY <2>2 DEF At, Leaves
    <2>4. ~Has(agentq[b], Quits) /\ Single(agentq[b], Quits) /\ Lives(b)
      BY <2>3 DEF Placed, Places, At, OnceAt
    <2>5. agentq[b] \in Seq(AgentMsg) /\ agentq'[b] = Append(agentq[b], m)
      BY <1>t, <1>1, <1>7
    <2>6. Single(agentq'[b], Quits)
      BY <1>3, <2>4, <2>5, HasAppend
    <2>7. OnceAt(b, "agent")'
      BY <2>6 DEF OnceAt, Quits
    <2>8. \A x \in Places \ {"agent"} : Keeps(b, x)
      BY <1>4, <1>5 DEF Places
    <2>9. "hub" \in Places /\ "agent" \in Places
      BY DEF Places
    <2> QED BY <1>4, <2>3, <2>4, <2>7, <2>8, <2>9, LivesOn, PlaceMoved
  <1> QED BY <1>6, <1>7

(* The request that asked has its agent. *)
LEMMA PlaceGot ==
    ASSUME HandshakeInv, Base, CalmStep, HubGotAgent, NEW b \in Agents, Placed(b)
    PROVE  Placed(b)'
  <1>t. hubq \in Seq(HubMsg) /\ agentq \in [Agents -> Seq(AgentMsg)]
    BY DEF HandshakeInv, TypeOK, HubTypeOK, PoolTypeOK
  <1>p. PICK h : h = Head(hubq)
    OBVIOUS
  <1>1. /\ hubq # <<>> /\ h.type = "got" /\ hubq' = Tail(hubq)
        /\ agentq' = [agentq EXCEPT ![h.agent] = Append(@, StartMsg(h.req))]
        /\ UNCHANGED <<poolVars, saving, recycling>>
    BY <1>p DEF HubGotAgent, GotAgent, HubHas, AgentRecv
  <1>2. h \in HubMsg /\ (h \in Gots(b) <=> h.agent = b)
    BY <1>t, <1>p, <1>1, TailFacts DEF Gots
  <1>3. StartMsg(h.req) \in AgentMsg /\ StartMsg(h.req) \notin Quits
    <2>1. h \in HubR
      BY <1>p, <1>1, HubHead DEF ReqTypes
    <2>2. h.req \in Requests /\ hs[h.req].pc = "get"
      BY <1>1, <2>1, HubAlone DEF Awaits
    <2>3. hs[h.req].fd \in Fds /\ user[hs[h.req].tok].conn = hs[h.req].fd
      BY <2>2 DEF HandshakeInv, Presented, Base, OneEach, UserOf, Working
    <2> QED BY <2>2, <2>3 DEF StartMsg, AgentMsg, Quits
  <1>4. /\ Keeps(b, "pool") /\ Keeps(b, "spawn") /\ Keeps(b, "got") /\ Keeps(b, "hub")
        /\ Keeps(b, "save") /\ Keeps(b, "recycle") /\ spawned' = spawned /\ agent_map' = agent_map
    BY <1>1, KeepPool, KeepSpawn, KeepGot, KeepHub, KeepSave, KeepRecycle DEF poolVars
  <1>5. Keeps(b, "agent")
    <2>1. CASE h.agent # b
      BY <1>t, <1>1, <2>1, KeepAgent
    <2>2. CASE h.agent = b
      <3>1. agentq'[b] = Append(agentq[b], StartMsg(h.req))
        BY <1>t, <1>1, <2>2
      <3> QED BY <1>3, <3>1, KeepAgent
    <2> QED BY <2>1, <2>2
  <1>6. CASE h.agent # b
    <2>1. Keeps(b, "held")
      BY <1>p, <1>6, HeldKept
    <2> QED BY <1>4, <1>5, <2>1, PlacesKept
  <1>7. CASE h.agent = b
    <2>1. Single(hubq, Gots(b))
      BY DEF Placed, Places, OnceAt
    <2>2. Has(hubq, Gots(b)) /\ ~Has(hubq', Gots(b))
      BY <1>t, <1>p, <1>1, <1>2, <1>7, <2>1, HasTail
    <2>3. At(b, "got") /\ ~At(b, "got")'
      BY <2>2 DEF At, Gots
    <2>4. Lives(b) /\ \A r \in Requests : ~Holds(r, b)
      BY <2>3 DEF Placed, Places, At
    <2>5. \A r \in Requests : Holds(r, b)' => r = h.req
      BY <1>p, <2>4, HeldSteps DEF HubMove
    <2>6. OnceAt(b, "held")'
      BY <2>5 DEF OnceAt
    <2>7. \A x \in Places \ {"held"} : Keeps(b, x)
      BY <1>4, <1>5 DEF Places
    <2>8. "got" \in Places /\ "held" \in Places
      BY DEF Places
    <2> QED BY <1>4, <2>3, <2>4, <2>6, <2>7, <2>8, LivesOn, PlaceMoved
  <1> QED BY <1>6, <1>7

(* The socket of a session closes: the gate tells hubd to log its agent out. *)
LEMMA PlaceClose ==
    ASSUME HandshakeInv, Base, CalmStep, NEW fd \in Fds, GateCloseBegin(fd),
           NEW b \in Agents, Placed(b)
    PROVE  Placed(b)'
  <1> DEFINE m == LogoutMsg(fd)
  <1>t. hubq \in Seq(HubMsg) /\ sock \in [Fds -> SockState]
    BY DEF HandshakeInv, TypeOK, HubTypeOK, GateTypeOK
  <1>1. /\ fd \in DOMAIN connection /\ sock[fd] \in {"open", "closing"}
        /\ sock' = [sock EXCEPT ![fd] = "closed"] /\ hubq' = Append(hubq, m)
        /\ UNCHANGED <<poolVars, agentVars, hs, user>>
    BY DEF GateCloseBegin, CloseBegin, HubRecv
  <1>2. /\ m \in HubMsg /\ m.type = "logout" /\ m.uid = connection[fd].uid
        /\ m.agent = connection[fd].agent
    BY <1>1 DEF LogoutMsg, HubMsg, HandshakeInv, TypeOK, GateTypeOK, Conn
  <1> HIDE DEF m
  <1>3. m \notin Gots(b) /\ (m \in Leaves(b) <=> m.uid # None /\ m.agent = b)
    BY <1>2 DEF Gots, Leaves
  <1>4. /\ Keeps(b, "pool") /\ Keeps(b, "spawn") /\ Keeps(b, "got") /\ Keeps(b, "agent")
        /\ Keeps(b, "save") /\ Keeps(b, "recycle") /\ spawned' = spawned /\ agent_map' = agent_map
    BY <1>1, <1>2, <1>3, KeepPool, KeepSpawn, KeepGot, KeepAgent, KeepSave, KeepRecycle
       DEF poolVars, agentVars
  <1>5. Keeps(b, "held")
    BY <1>1, <1>2, HeldStill
  <1>6. CASE m \notin Leaves(b)
    <2>1. Keeps(b, "hub")
      BY <1>1, <1>2, <1>6, KeepHub
    <2> QED BY <1>4, <1>5, <2>1, PlacesKept
  <1>7. CASE m \in Leaves(b)
    <2>1. Bound(fd) /\ connection[fd].agent = b
      BY <1>1, <1>2, <1>3, <1>7 DEF Bound
    <2>2. PICK r \in Requests : BoundBy(fd, r)
      BY <2>1 DEF HandshakeInv, Bindings
    <2>3. Settled(r) /\ hs[r].fd = fd /\ UserOf(r).agent = b
      BY <2>1, <2>2 DEF BoundBy, Settled
    <2>4. hs[r].pc \in {"register", "done"}
      BY <2>3, SettledKnown
    <2>5. Holds(r, b)
      BY <1>1, <2>3, <2>4 DEF Holds
    <2>6. At(b, "held") /\ \A q \in Requests : Holds(q, b) => q = r
      BY <2>5 DEF At, Placed, Places, OnceAt
    <2>7. ~At(b, "held")'
      <3> SUFFICES ASSUME NEW q \in Requests, Holds(q, b)' PROVE FALSE
        BY DEF At
      <3>1. Holds(q, b)
        BY <1>5, <1>1, <1>t, <1>2, HeldSteps, AppendNotTail DEF HubMove
      <3>2. q = r
        BY <2>6, <3>1
      <3>3. sock'[hs'[r].fd] = "closed" /\ hs'[r].pc \in {"register", "done"}
        BY <1>t, <1>1, <2>3, <2>4 DEF SockState
      <3> QED BY <3>2, <3>3 DEF Holds
    <2>8. ~Has(hubq, Leaves(b)) /\ Single(hubq, Leaves(b)) /\ Lives(b)
      BY <2>6 DEF Placed, Places, At, OnceAt
    <2>9. Single(hubq', Leaves(b))
      BY <1>t, <1>1, <1>2, <2>8, HasAppend
    <2>10. OnceAt(b, "hub")'
      BY <2>9 DEF OnceAt, Leaves
    <2>11. \A x \in Places \ {"hub"} : Keeps(b, x)
      BY <1>4, <1>5 DEF Places
    <2>12. "held" \in Places /\ "hub" \in Places
      BY DEF Places
    <2> QED BY <1>4, <2>6, <2>7, <2>8, <2>10, <2>11, <2>12, LivesOn, PlaceMoved
  <1> QED BY <1>6, <1>7

(* The other steps leave the agents where they are. *)
LEMMA PlaceStays ==
    ASSUME HandshakeInv, Base, CalmStep, NEW b \in Agents, Placed(b),
           \/ hubq' = hubq
           \/ \E m \in HubMsg : m.type \notin {"got", "logout"} /\ hubq' = Append(hubq, m)
           \/ hubq # <<>> /\ Head(hubq).type # "got" /\ hubq' = Tail(hubq),
           \/ agentq' = agentq
           \/ \E a \in Agents : agentq[a] # <<>> /\ agentq' = [agentq EXCEPT ![a] = Tail(@)],
           \A w \in spawning' : w.agent = b => w \in spawning,
           UNCHANGED <<pool, agent_map, spawned, saving, recycling>>
    PROVE  Placed(b)'
  <1>1. \A m \in HubMsg : m.type \notin {"got", "logout"} => m \notin Gots(b) /\ m \notin Leaves(b)
    BY DEF Gots, Leaves
  <1>2. Keeps(b, "got") /\ Keeps(b, "hub")
    BY <1>1, KeepGot, KeepHub
  <1>3. Keeps(b, "held")
    <2>1. CASE hubq' = hubq \/ \E m \in HubMsg : hubq' = Append(hubq, m)
      BY <2>1, HeldStill
    <2>2. CASE hubq # <<>> /\ Head(hubq).type # "got" /\ hubq' = Tail(hubq)
      BY <2>2, HeldKept
    <2> QED BY <2>1, <2>2
  <1>4. Keeps(b, "agent")
    <2>1. \/ agentq'[b] = agentq[b]
          \/ agentq[b] # <<>> /\ agentq'[b] = Tail(agentq[b])
      BY DEF HandshakeInv, TypeOK, PoolTypeOK
    <2> QED BY <2>1, KeepAgent
  <1>5. Keeps(b, "pool") /\ Keeps(b, "spawn") /\ Keeps(b, "save") /\ Keeps(b, "recycle")
    BY KeepPool, KeepSpawn, KeepSave, KeepRecycle
  <1> QED BY <1>2, <1>3, <1>4, <1>5, PlacesKept

LEMMA OnePlaceStep ==
    ASSUME HandshakeInv, Base, OnePlace, CalmStep
    PROVE  OnePlace'
  <1> SUFFICES ASSUME NEW b \in Agents PROVE Placed(b)'
    BY DEF OnePlace
  <1>0. Placed(b)
    BY DEF OnePlace
  <1>1. ASSUME UNCHANGED <<hubq, poolVars, agentVars>> PROVE Placed(b)'
    BY <1>0, <1>1, PlaceStays DEF poolVars, agentVars
  <1>2. CASE UNCHANGED vars
    BY <1>1, <1>2 DEF vars, hubVars
  <1>3. CASE LoginSteps
    BY <1>1, <1>3, LoginStepsView
  <1>4. ASSUME NEW fd \in Fds, GateOpenRefused(fd) \/ GateCloseEnd(fd) PROVE Placed(b)'
    BY <1>1, <1>4 DEF GateOpenRefused, GateCloseEnd, hubVars
  <1>5. CASE GateConnected
    BY <1>1, <1>5 DEF GateConnected, hubVars
  <1>6. ASSUME NEW S \in SUBSET Uids, Timeout(S) PROVE Placed(b)'
    BY <1>1, <1>6 DEF Timeout, Reap
  <1>7. ASSUME NEW m \in HubMsg, m.type \notin {"got", "logout"}, hubq' = Append(hubq, m),
               UNCHANGED <<poolVars, agentVars>>
        PROVE  Placed(b)'
    BY <1>0, <1>7, PlaceStays DEF poolVars, agentVars
  <1>8. ASSUME NEW fd \in Fds, GateOpen(fd) PROVE Placed(b)'
    <2>1. [type |-> "connect", fd |-> fd] \in HubMsg
      BY DEF HubMsg
    <2> QED BY <1>7, <1>8, <2>1 DEF GateOpen, HubRecv
  <1>9. CASE GateRegister
    <2>1. Head(gateq).req \in Requests
      BY <1>9, GateHead, GateMsgFacts DEF GateRegister, Register, GateHas
    <2> DEFINE m == [type |-> "registered", req |-> Head(gateq).req,
                     res |-> Head(gateq).fd \in DOMAIN connection]
    <2>2. m \in HubMsg /\ m.type = "registered"
      BY <2>1 DEF HubMsg
    <2>3. hubq' = Append(hubq, m) /\ UNCHANGED <<poolVars, agentVars>>
      BY <1>9 DEF GateRegister, HubRecv
    <2> HIDE DEF m
    <2> QED BY <1>7, <2>2, <2>3
  <1>10. ASSUME NEW r \in Requests, NEW fd \in Fds, NEW l \in Logins, ClientHandshake(r, fd, l)
         PROVE  Placed(b)'
    <2>1. [type |-> "handshake", req |-> r] \in HubMsg
      BY DEF HubMsg
    <2>2. hubq' = Append(hubq, [type |-> "handshake", req |-> r]) /\ UNCHANGED <<poolVars, agentVars>>
      BY <1>10, PresentsView
    <2> QED BY <1>7, <2>1, <2>2
  <1>11. ASSUME hubq # <<>>, Head(hubq).type # "got", hubq' = Tail(hubq),
                UNCHANGED <<pool, agent_map, spawned, spawning, agentVars>>
         PROVE  Placed(b)'
    BY <1>0, <1>11, PlaceStays DEF agentVars
  <1>12. CASE HubDoConnect \/ HubDoForget
    BY <1>11, <1>12 DEF HubDoConnect, HubConnect, HubDoForget, HubForget, HubHas, poolVars
  <1>13. ASSUME NEW r \in Requests, HubRefuses(r) \/ HubFirst(r) PROVE Placed(b)'
    BY <1>11, <1>13 DEF HubRefuses, HandshakeRefused, HubFirst, HandshakeFirst, AskAgent, HubHas,
       poolVars
  <1>14. CASE HubStarted \/ HubStartFailed \/ HubRegistered
    BY <1>11, <1>14 DEF HubStarted, Started, HubStartFailed, StartFailed, HubRegistered, Registered,
       HubHas, poolVars
  <1>15. ASSUME NEW r \in Requests, PoolMiss(r) PROVE Placed(b)'
    <2>1. /\ spawning' = spawning \cup {[req |-> r, agent |-> None, left |-> ExpandBy]}
          /\ UNCHANGED <<hubq, pool, agent_map, spawned, agentVars>>
      BY <1>15 DEF PoolMiss, GetMiss, hubVars
    <2>2. \A w \in spawning' : w.agent = b => w \in spawning
      BY <2>1, EntitiesAssumption
    <2> QED BY <1>0, <2>1, <2>2, PlaceStays DEF agentVars
  <1>16. ASSUME NEW a \in Agents, AgentDoStart(a) PROVE Placed(b)'
    BY <1>0, <1>16, PlaceStays DEF AgentDoStart, AgentStart, AgentHas, hubVars, poolVars
  <1>17. ASSUME NEW a \in Agents, NEW r \in Requests,
                \/ AgentAnswers([req |-> r, agent |-> a])
                \/ AgentRaises([req |-> r, agent |-> a])
         PROVE  Placed(b)'
    <2>1. PICK t \in {"started", "failed"} : HubRecv([type |-> t, req |-> r])
      BY <1>17 DEF AgentAnswers, AgentRaises
    <2>2. [type |-> t, req |-> r] \in HubMsg
      BY DEF HubMsg
    <2>3. UNCHANGED <<poolVars, agentq, saving, recycling>>
      BY <1>17 DEF AgentAnswers, AgentRaises, AgentStarted
    <2> QED BY <1>0, <2>1, <2>2, <2>3, PlaceStays DEF HubRecv, poolVars
  <1>18. ASSUME NEW a \in Agents, AgentGone(a) PROVE Placed(b)'
    <2>1. /\ agentq[a] # <<>> /\ agentq' = [agentq EXCEPT ![a] = Tail(@)]
          /\ UNCHANGED <<pool, agent_map, spawned, spawning, saving, recycling>>
      BY <1>18 DEF AgentGone, AgentDead, poolVars
    <2>2. CASE AgentHas(a, "start")
      <3>1. Head(agentq[a]).req \in Requests
        <4>1. agentq[a] \in Seq(AgentMsg)
          BY DEF HandshakeInv, TypeOK, PoolTypeOK
        <4> QED BY <2>2, <4>1, TailFacts, AgentMsgFacts DEF AgentHas
      <3> DEFINE m == [type |-> "failed", req |-> Head(agentq[a]).req]
      <3>2. m \in HubMsg /\ m.type = "failed"
        BY <3>1 DEF HubMsg
      <3>3. hubq' = Append(hubq, m)
        BY <1>18, <2>2 DEF AgentGone, HubRecv
      <3> HIDE DEF m
      <3>4. \E n \in HubMsg : n.type \notin {"got", "logout"} /\ hubq' = Append(hubq, n)
        BY <3>2, <3>3
      <3> QED BY <1>0, <2>1, <3>4, PlaceStays
    <2>3. CASE ~AgentHas(a, "start")
      <3>1. hubq' = hubq
        BY <1>18, <2>3 DEF AgentGone, hubVars
      <3> QED BY <1>0, <2>1, <3>1, PlaceStays
    <2> QED BY <2>2, <2>3
  <1>19. CASE BackStep
    BY <1>0, <1>15, <1>16, <1>17, <1>18, <1>19, PlaceGet, PlaceCreated, PlaceExpands, PlaceRecycle,
       PlaceSaves, PlaceSaved DEF BackStep, AgentStep
  <1>20. CASE HubMoves
    BY <1>0, <1>13, <1>14, <1>20, PlaceGot DEF HubMoves
  <1>21. CASE GateSteps
    BY <1>0, <1>4, <1>5, <1>8, <1>9, <1>21, PlaceClose DEF GateSteps
  <1> QED BY <1>0, <1>2, <1>3, <1>6, <1>10, <1>12, <1>19, <1>20, <1>21, PlaceLogout DEF CalmStep

-----------------------------------------------------------------------------
(* OwnFd *)

WithAgent == {"start", "register", "done"}

(* A request keeps its agent, and moves on when its agent has started. *)
LEMMA UserSteps ==
    ASSUME HandshakeInv, Base, CalmStep, NEW r \in Requests
    PROVE  /\ hs[r].pc \in WithAgent =>
                UserOf(r)'.conn = UserOf(r).conn /\ UserOf(r)'.agent = UserOf(r).agent
           /\ hs'[r].pc \in {"register", "done"} =>
                \/ hs[r].pc \in {"register", "done"}
                \/ hs[r].pc = "start" /\ \E m \in HubR : m.type = "started" /\ m.req = r
  <1> DEFINE G == /\ hs[r].pc \in WithAgent =>
                       UserOf(r)'.conn = UserOf(r).conn /\ UserOf(r)'.agent = UserOf(r).agent
                  /\ hs'[r].pc \in {"register", "done"} =>
                       \/ hs[r].pc \in {"register", "done"}
                       \/ hs[r].pc = "start" /\ \E m \in HubR : m.type = "started" /\ m.req = r
  <1>1. ASSUME hs'[r] = hs[r], hs[r].pc # "none" => UserOf(r)' = UserOf(r) PROVE G
    BY <1>1 DEF WithAgent
  <1>2. ASSUME hs' = hs, user' = user PROVE G
    BY <1>1, <1>2 DEF UserOf
  <1>3. CASE UNCHANGED vars
    BY <1>2, <1>3 DEF vars, hubVars
  <1>4. CASE BackStep
    BY <1>2, <1>4, BackView
  <1>5. CASE QuietStep
    BY <1>2, <1>5, QuietView
  <1>6. CASE LoginSteps
    BY <1>1, <1>6, LoginStepsView
  <1>7. ASSUME NEW q \in Requests, NEW fd \in Fds, NEW l \in Logins, ClientHandshake(q, fd, l)
        PROVE  G
    <2>1. /\ user' = user /\ hs[q].pc = "none" /\ hs'[q].pc = "sent"
          /\ \A p \in Requests : p # q => hs'[p] = hs[p]
      BY <1>7, PresentsView
    <2>2. CASE r = q
      BY <2>1, <2>2 DEF WithAgent
    <2>3. CASE r # q
      BY <1>1, <2>1, <2>3 DEF UserOf
    <2> QED BY <2>2, <2>3
  <1>8. ASSUME NEW q \in Requests, HubMove(q) PROVE G
    <2>1. CASE q # r
      <3>1. hs'[r] = hs[r]
        BY <1>8, <2>1 DEF HubMove
      <3>2. ASSUME hs[r].pc # "none" PROVE UserOf(r)' = UserOf(r)
        <4>1. hs[r].tok \in Logins /\ hs[r].tok # hs[q].tok
          BY <2>1, <3>2, EntitiesAssumption DEF HandshakeInv, Presented, Base, OneEach
        <4> QED BY <1>8, <3>1, <4>1 DEF HubMove, UserOf
      <3> QED BY <1>1, <3>1, <3>2
    <2>2. CASE q = r
      <3>1. /\ hs'[r].tok = hs[r].tok /\ hubq # <<>> /\ Head(hubq).req = r
            /\ Head(hubq).type \in ReqTypes
            /\ user'[hs[r].tok].conn = IF hs'[r].pc = "get" THEN hs[r].fd ELSE user[hs[r].tok].conn
            /\ user'[hs[r].tok].agent = IF hs'[r].pc = "start" THEN Head(hubq).agent
                                        ELSE user[hs[r].tok].agent
            /\ hs[r].pc \in WithAgent => hs'[r].pc \notin {"get", "start"}
            /\ hs'[r].pc = "register" => hs[r].pc = "start" /\ Head(hubq).type = "started"
            /\ hs'[r].pc = "done" => hs[r].pc = "register"
        BY <1>8, <2>2 DEF HubMove, WithAgent
      <3>2. Head(hubq) \in HubR
        BY <3>1, HubHead
      <3> QED BY <3>1, <3>2 DEF UserOf
    <2> QED BY <2>1, <2>2
  <1> QED BY <1>3, <1>4, <1>5, <1>6, <1>7, <1>8, HubMovesView DEF CalmStep, QuietStep

(* A step leaves the sockets of the agents alone, or sets the one of an agent
   to its session's; what it starts has the session's socket. *)
LEMMA OwnFdKept ==
    ASSUME HandshakeInv, Base, OwnFd, CalmStep,
           \A a \in Agents : \A m \in AgentR(a)' : m \in AgentR(a) \/ m.fd = UserOf(m.req)'.conn,
           \A c \in loading' : c \in loading \/ agentfd'[c.agent] = UserOf(c.req)'.conn,
           \A m \in HubR' : m.type = "started" =>
               m \in HubR \/ agentfd'[UserOf(m.req)'.agent] = UserOf(m.req)'.conn,
           \A b \in Agents, r \in Requests : Holds(r, b) =>
               agentfd'[b] = agentfd[b] \/ agentfd'[b] = UserOf(r).conn
    PROVE  OwnFd'
  <1>0. /\ \A a \in Agents : \A m \in AgentR(a) : m.req \in Requests
        /\ \A c \in loading : c.req \in Requests /\ c.agent \in Agents
        /\ \A m \in HubR : m.req \in Requests
    BY InFlight
  <1>1. ASSUME NEW a \in Agents, NEW m \in AgentR(a)' PROVE m.fd = UserOf(m.req)'.conn
    <2>1. CASE m \in AgentR(a)
      <3>1. hs[m.req].pc = "start" /\ m.fd = UserOf(m.req).conn
        BY <2>1 DEF HandshakeInv, Answers, OwnFd
      <3> QED BY <1>0, <2>1, <3>1, UserSteps DEF WithAgent
    <2> QED BY <1>1, <2>1
  (* An agent that a session holds. *)
  <1>2. ASSUME NEW r \in Requests, hs[r].pc \in WithAgent, hs[r].pc = "start" \/ sock[hs[r].fd] # "closed",
               agentfd[UserOf(r).agent] = UserOf(r).conn
        PROVE  agentfd'[UserOf(r)'.agent] = UserOf(r)'.conn
    <2>1. UserOf(r).agent \in Agents
      BY <1>2 DEF WithAgent, HandshakeInv, Presented, UserOf, TypeOK, HubTypeOK
    <2>2. Holds(r, UserOf(r).agent)
      BY <1>2 DEF Holds, WithAgent
    <2>3. UserOf(r)'.conn = UserOf(r).conn /\ UserOf(r)'.agent = UserOf(r).agent
      BY <1>2, UserSteps
    <2>4. agentfd'[UserOf(r).agent] = UserOf(r).conn
      BY <1>2, <2>1, <2>2
    <2> QED BY <2>3, <2>4
  <1>3. ASSUME NEW c \in loading' PROVE agentfd'[c.agent] = UserOf(c.req)'.conn
    <2>1. CASE c \in loading
      <3>1. /\ c.req \in Requests /\ hs[c.req].pc = "start" /\ UserOf(c.req).agent = c.agent
            /\ agentfd[c.agent] = UserOf(c.req).conn
        BY <1>0, <2>1 DEF HandshakeInv, Answers, OwnFd
      <3>2. UserOf(c.req)'.agent = c.agent
        BY <3>1, UserSteps DEF WithAgent
      <3> QED BY <1>2, <3>1, <3>2 DEF WithAgent
    <2> QED BY <1>3, <2>1
  <1>4. ASSUME NEW m \in HubR', m.type = "started"
        PROVE  agentfd'[UserOf(m.req)'.agent] = UserOf(m.req)'.conn
    <2>1. CASE m \in HubR
      <3>1. m.req \in Requests /\ hs[m.req].pc = "start" /\ agentfd[UserOf(m.req).agent] = UserOf(m.req).conn
        BY <1>0, <1>4, <2>1 DEF HandshakeInv, Answers, Awaits, OwnFd
      <3> QED BY <1>2, <3>1 DEF WithAgent
    <2> QED BY <1>4, <2>1
  <1>5. ASSUME NEW r \in Requests, hs'[r].pc \in {"register", "done"}, sock'[hs'[r].fd] # "closed"
        PROVE  agentfd'[UserOf(r)'.agent] = UserOf(r)'.conn
    <2>1. \/ hs[r].pc \in {"register", "done"}
          \/ hs[r].pc = "start" /\ \E m \in HubR : m.type = "started" /\ m.req = r
      BY <1>5, UserSteps
    <2>2. hs[r].pc # "none" /\ hs'[r].fd = hs[r].fd /\ hs[r].fd \in Fds
      <3>1. hs[r].pc # "none"
        BY <2>1
      <3> QED BY <3>1, RequestSteps DEF HandshakeInv, Presented
    <2>3. sock[hs[r].fd] # "closed"
      BY <1>5, <2>2, SockSteps
    <2>4. agentfd[UserOf(r).agent] = UserOf(r).conn
      BY <2>1, <2>3 DEF OwnFd
    <2> QED BY <1>2, <2>1, <2>3, <2>4 DEF WithAgent
  <1> QED BY <1>1, <1>3, <1>4, <1>5 DEF OwnFd

(* The other steps. *)
LEMMA StartedKept ==
    ASSUME HandshakeInv, NEW T, HubMail(T), "started" \notin T
    PROVE  \A m \in HubR' : m.type = "started" => m \in HubR
  <1>t. hubq \in Seq(HubMsg)
    BY DEF HandshakeInv, TypeOK, HubTypeOK
  <1>1. ASSUME NEW m \in HubMsg, m.type \in T, hubq' = Append(hubq, m), NEW n \in HubR', n.type = "started"
        PROVE  n \in HubR
    <2>1. HubR' \subseteq HubR \cup {m}
      BY <1>t, <1>1, PendingAppend DEF HubR
    <2> QED BY <1>1, <2>1
  <1>2. ASSUME hubq # <<>>, hubq' = Tail(hubq) PROVE HubR' \subseteq HubR
    BY <1>t, <1>2, PendingTail DEF HubR
  <1>3. ASSUME hubq' = hubq PROVE HubR' = HubR
    BY <1>3 DEF HubR
  <1> QED BY <1>1, <1>2, <1>3 DEF HubMail

LEMMA OwnFdStays ==
    ASSUME HandshakeInv, Base, OwnFd, CalmStep, NEW T, HubMail(T), "started" \notin T,
           agentfd' = agentfd, loading' \subseteq loading,
           \A a \in Agents : AgentR(a)' \subseteq AgentR(a)
    PROVE  OwnFd'
  BY StartedKept, OwnFdKept

LEMMA OwnFdStarts ==
    ASSUME HandshakeInv, Base, OnePlace, OwnFd, CalmStep, NEW a \in Agents, AgentDoStart(a)
    PROVE  OwnFd'
  <1>1. PICK h : h = Head(agentq[a])
    OBVIOUS
  <1>2. /\ agentq[a] # <<>> /\ h.type = "start" /\ agentq' = [agentq EXCEPT ![a] = Tail(@)]
        /\ agentfd' = [agentfd EXCEPT ![a] = h.fd]
        /\ loading' = loading \cup {[req |-> h.req, agent |-> a]}
        /\ UNCHANGED <<hubq, user, hs>>
    BY <1>1 DEF AgentDoStart, AgentStart, AgentHas, hubVars
  <1>3. h \in AgentR(a) /\ \A b \in Agents : AgentR(b)' \subseteq AgentR(b)
    BY <1>1, <1>2, AgentTakes
  <1>4. /\ h.req \in Requests /\ hs[h.req].pc = "start" /\ UserOf(h.req).agent = a
        /\ h.fd = UserOf(h.req).conn
    BY <1>3, InFlight DEF HandshakeInv, Answers, OwnFd
  <1>5. agentfd \in [Agents -> Fds \cup {None}]
    BY DEF HandshakeInv, TypeOK, PoolTypeOK
  <1>6. agentfd'[a] = UserOf(h.req).conn /\ \A b \in Agents : b # a => agentfd'[b] = agentfd[b]
    BY <1>2, <1>4, <1>5
  <1>7. \A r \in Requests : UserOf(r)' = UserOf(r)
    BY <1>2 DEF UserOf
  <1>8. \A r \in Requests : Holds(r, a) => r = h.req
    <2>1. Holds(h.req, a)
      BY <1>4 DEF Holds
    <2>2. \A q, r \in Requests : Holds(q, a) /\ Holds(r, a) => q = r
      BY DEF OnePlace, Placed, Places, OnceAt
    <2> QED BY <1>4, <2>1, <2>2
  <1>9. \A b \in Agents, r \in Requests : Holds(r, b) =>
            agentfd'[b] = agentfd[b] \/ agentfd'[b] = UserOf(r).conn
    BY <1>6, <1>8
  <1>10. \A c \in loading' : c \in loading \/ agentfd'[c.agent] = UserOf(c.req)'.conn
    BY <1>2, <1>4, <1>6, <1>7
  <1>11. HubR' = HubR
    BY <1>2 DEF HubR
  <1> QED BY <1>3, <1>9, <1>10, <1>11, OwnFdKept

LEMMA OwnFdAnswers ==
    ASSUME HandshakeInv, Base, OwnFd, CalmStep, NEW a \in Agents, NEW r \in Requests,
           \/ AgentAnswers([req |-> r, agent |-> a])
           \/ AgentRaises([req |-> r, agent |-> a])
    PROVE  OwnFd'
  <1> DEFINE c == [req |-> r, agent |-> a]
  <1>1. PICK t \in {"started", "failed"} : HubRecv([type |-> t, req |-> r])
    BY DEF AgentAnswers, AgentRaises
  <1> DEFINE m == [type |-> t, req |-> r]
  <1>2. c \in loading /\ loading' \subseteq loading /\ UNCHANGED <<agentq, agentfd>>
    BY DEF AgentAnswers, AgentRaises, AgentStarted
  <1>3. m \in HubMsg /\ hubq' = Append(hubq, m) /\ UNCHANGED <<user, hs>>
    BY <1>1 DEF HubMsg, HubRecv
  <1>4. /\ UserOf(r).agent = a /\ agentfd[a] = UserOf(r).conn
        /\ UserOf(r)' = UserOf(r)
    BY <1>2, <1>3 DEF HandshakeInv, Answers, OwnFd, UserOf
  <1>5. HubR' \subseteq HubR \cup {m}
    <2>1. hubq \in Seq(HubMsg)
      BY DEF HandshakeInv, TypeOK, HubTypeOK
    <2> HIDE DEF m
    <2> QED BY <1>3, <2>1, PendingAppend DEF HubR
  <1>6. \A n \in HubR' : n.type = "started" =>
            n \in HubR \/ agentfd'[UserOf(n.req)'.agent] = UserOf(n.req)'.conn
    BY <1>2, <1>4, <1>5
  <1>7. \A b \in Agents : AgentR(b)' = AgentR(b)
    BY <1>2 DEF AgentR
  <1> QED BY <1>2, <1>6, <1>7, OwnFdKept

LEMMA OwnFdGot ==
    ASSUME HandshakeInv, Base, OwnFd, CalmStep, HubGotAgent
    PROVE  OwnFd'
  <1>1. PICK h : h = Head(hubq)
    OBVIOUS
  <1>2. /\ hubq # <<>> /\ h.type = "got" /\ hubq' = Tail(hubq)
        /\ agentq' = [agentq EXCEPT ![h.agent] = Append(@, StartMsg(h.req))]
        /\ UNCHANGED <<agentfd, loading>>
    BY <1>1 DEF HubGotAgent, GotAgent, HubHas, AgentRecv
  <1>3. h \in HubR /\ h \in HubMsg
    BY <1>1, <1>2, HubHead DEF ReqTypes
  <1>4. h.agent \in Agents /\ h.req \in Requests /\ hs[h.req].pc = "get" /\ NoAgent(h.req)
    BY <1>2, <1>3, HubAlone, HubMsgFacts DEF Awaits
  <1>5. StartMsg(h.req) \in AgentMsg /\ StartMsg(h.req).req = h.req
        /\ StartMsg(h.req).fd = UserOf(h.req).conn /\ StartMsg(h.req).type = "start"
    <2>1. hs[h.req].fd \in Fds /\ user[hs[h.req].tok].conn = hs[h.req].fd
      BY <1>4 DEF HandshakeInv, Presented, Base, OneEach, UserOf, Working
    <2> QED BY <1>4, <2>1 DEF StartMsg, AgentMsg, UserOf
  <1>6. UserOf(h.req)'.conn = UserOf(h.req).conn
    <2>1. PICK r \in Requests : HubMove(r)
      BY HubMovesView DEF HubMoves
    <2>2. r = h.req /\ hs'[r].pc = "start"
      BY <1>1, <1>2, <2>1 DEF HubMove
    <2> QED BY <2>1, <2>2 DEF HubMove, UserOf
  <1>7. \A a \in Agents : AgentR(a)' \subseteq AgentR(a) \cup {StartMsg(h.req)}
    <2>1. \A n \in AgentR(h.agent) : n.req # h.req
      BY <1>4 DEF NoAgent
    <2>2. PICK s \in AgentMsg : s = StartMsg(h.req)
      BY <1>5
    <2>3. PICK b \in Agents : b = h.agent
      BY <1>4
    <2>4. s.req = h.req /\ s.type = "start" /\ agentq' = [agentq EXCEPT ![b] = Append(@, s)]
      BY <1>2, <1>5, <2>2, <2>3
    <2>5. \A n \in AgentR(b) : n.req # s.req
      BY <2>1, <2>3, <2>4
    <2>6. AgentR(b)' = AgentR(b) \cup {s}
      BY <2>4, <2>5, AgentGets
    <2>7. \A a \in Agents : a # b => AgentR(a)' = AgentR(a)
      BY <2>4, <2>5, AgentGets
    <2> QED BY <2>2, <2>6, <2>7
  <1>8. HubR' \subseteq HubR
    BY <1>2, HubTakes
  <1> QED BY <1>2, <1>5, <1>6, <1>7, <1>8, OwnFdKept

LEMMA OwnFdStep ==
    ASSUME HandshakeInv, Base, OnePlace, OwnFd, CalmStep
    PROVE  OwnFd'
  <1>t. hubq \in Seq(HubMsg)
    BY DEF HandshakeInv, TypeOK, HubTypeOK
  <1>1. ASSUME NEW T, HubMail(T), "started" \notin T, UNCHANGED <<agentq, agentfd, loading>> PROVE OwnFd'
    <2>1. \A a \in Agents : AgentR(a)' \subseteq AgentR(a)
      BY <1>1 DEF AgentR
    <2> QED BY <1>1, <2>1, OwnFdStays
  <1>2. ASSUME hubq' = hubq, UNCHANGED <<agentq, agentfd, loading>> PROVE OwnFd'
    <2>1. HubMail({})
      BY <1>2 DEF HubMail
    <2> QED BY <1>1, <1>2, <2>1
  <1>3. CASE UNCHANGED vars
    BY <1>2, <1>3 DEF vars, hubVars, agentVars
  <1>4. CASE LoginSteps
    BY <1>2, <1>4, LoginStepsView DEF agentVars
  <1>5. ASSUME NEW r \in Requests, NEW fd \in Fds, NEW l \in Logins, ClientHandshake(r, fd, l)
        PROVE  OwnFd'
    <2>1. HubMail({"handshake"}) /\ UNCHANGED agentVars
      BY <1>5, PresentsView
    <2> QED BY <1>1, <2>1 DEF agentVars
  <1>6. ASSUME QuietStep, UNCHANGED agentVars PROVE OwnFd'
    <2>1. PICK T : HubMail(T) /\ "started" \notin T
      BY <1>6, QuietView
    <2> QED BY <1>1, <1>6, <2>1 DEF agentVars
  <1>7. CASE GateSteps
    <2>1. UNCHANGED agentVars
      BY <1>7 DEF GateSteps, GateOpenRefused, GateOpen, GateCloseBegin, GateCloseEnd,
         GateConnected, GateRegister
    <2> QED BY <1>6, <1>7, <2>1 DEF QuietStep
  <1>8. CASE HubDoConnect \/ HubDoForget \/ \E S \in SUBSET Uids : Timeout(S)
    <2>1. UNCHANGED agentVars
      BY <1>8 DEF HubDoConnect, HubDoForget, Timeout
    <2> QED BY <1>6, <1>8, <2>1 DEF QuietStep
  <1>9. CASE HubDoLogout
    <2>1. PICK b : b = Head(hubq).agent
      OBVIOUS
    <2>2. /\ hubq # <<>> /\ Head(hubq).type = "logout" /\ Head(hubq).uid # None
          /\ agentq' = [agentq EXCEPT ![b] = Append(@, [type |-> "logout"])]
          /\ UNCHANGED <<agentfd, loading>>
      BY <1>9, <2>1 DEF HubDoLogout, HubLogout, HubHas, AgentRecv
    <2>3. b \in Agents
      <3>1. Head(hubq) \in HubMsg /\ Head(hubq) \in Pending(hubq, {"logout"})
        BY <2>2, HubHead
      <3>2. Head(hubq).agent # None
        BY <2>2, <3>1 DEF HandshakeInv, Bindings
      <3> QED BY <2>1, <2>2, <3>1, <3>2, HubMsgFacts
    <2>4. PICK n \in AgentMsg : n = [type |-> "logout"]
      BY DEF AgentMsg
    <2>5. n.type # "start" /\ agentq' = [agentq EXCEPT ![b] = Append(@, n)]
      BY <2>2, <2>4
    <2>6. \A a \in Agents : AgentR(a)' \subseteq AgentR(a)
      BY <2>3, <2>5, AgentGets
    <2>7. PICK T : HubMail(T) /\ "started" \notin T
      BY <1>9, QuietView DEF QuietStep
    <2> QED BY <2>2, <2>6, <2>7, OwnFdStays
  <1>10. ASSUME hubq # <<>>, hubq' = Tail(hubq), UNCHANGED <<agentq, agentfd, loading>> PROVE OwnFd'
    <2>1. HubR' \subseteq HubR /\ \A a \in Agents : AgentR(a)' = AgentR(a)
      BY <1>10, HubTakes DEF AgentR
    <2> QED BY <1>10, <2>1, OwnFdKept
  <1>11. ASSUME HubMoves, ~HubGotAgent PROVE OwnFd'
    <2>1. hubq # <<>> /\ hubq' = Tail(hubq)
      BY <1>11, HubMovesView DEF HubMove
    <2>2. UNCHANGED agentVars
      BY <1>11 DEF HubMoves, HubRefuses, HubFirst, AskAgent, HubStarted, HubStartFailed, HubRegistered
    <2> QED BY <1>10, <2>1, <2>2 DEF agentVars
  <1>12. ASSUME NEW a \in Agents, AgentGone(a) PROVE OwnFd'
    <2>1. /\ agentq[a] # <<>> /\ agentq' = [agentq EXCEPT ![a] = Tail(@)]
          /\ UNCHANGED <<agentfd, loading>>
      BY <1>12 DEF AgentGone, AgentDead
    <2>2. \A b \in Agents : AgentR(b)' \subseteq AgentR(b)
      BY <2>1, AgentTakes
    <2>3. HubMail({"failed"})
      <3>1. CASE AgentHas(a, "start")
        <4>1. Head(agentq[a]).req \in Requests
          BY <2>1, <3>1, AgentTakes, AgentMsgFacts DEF AgentHas
        <4>2. [type |-> "failed", req |-> Head(agentq[a]).req] \in HubMsg
          BY <4>1 DEF HubMsg
        <4> QED BY <1>12, <3>1, <4>2 DEF AgentGone, HubRecv, HubMail
      <3>2. CASE ~AgentHas(a, "start")
        BY <1>12, <3>2 DEF AgentGone, hubVars, HubMail
      <3> QED BY <3>1, <3>2
    <2> QED BY <2>1, <2>2, <2>3, OwnFdStays
  <1>13. ASSUME NEW a \in Agents, AgentDoLogout(a) PROVE OwnFd'
    <2>1. /\ agentq[a] # <<>> /\ agentq' = [agentq EXCEPT ![a] = Tail(@)]
          /\ UNCHANGED <<hubq, agentfd, loading>>
      BY <1>13 DEF AgentDoLogout, AgentLogout, AgentHas, hubVars
    <2>2. \A b \in Agents : AgentR(b)' \subseteq AgentR(b)
      BY <2>1, AgentTakes
    <2>3. HubMail({})
      BY <2>1 DEF HubMail
    <2> QED BY <2>1, <2>2, <2>3, OwnFdStays
  <1>14. ASSUME NEW a \in Agents, AgentDoSaved(a) \/ AgentDoSaveRaised(a) \/ PoolRecycle(a)
         PROVE  OwnFd'
    BY <1>2, <1>14 DEF AgentDoSaved, AgentSaved, AgentDoSaveRaised, AgentSaveRaised, PoolRecycle,
       Recycle, hubVars
  <1>15. ASSUME NEW r \in Requests, PoolGet(r) \/ PoolMiss(r) PROVE OwnFd'
    <2>1. UNCHANGED <<agentq, agentfd, loading>>
      BY <1>15 DEF PoolGet, GetPooled, PoolMiss, GetMiss, agentVars
    <2>2. HubMail({"got"})
      <3>1. CASE PoolMiss(r)
        BY <3>1 DEF PoolMiss, hubVars, HubMail
      <3>2. CASE PoolGet(r)
        <4>1. pool # <<>> /\ pool \in Seq(Agents)
          BY <3>2 DEF PoolGet, GetPooled, HandshakeInv, TypeOK, PoolTypeOK
        <4>2. pool[Len(pool)] \in Agents
          BY <4>1, EmptySeq, LenProperties, ElementOfSeq
        <4>3. [type |-> "got", req |-> r, agent |-> pool[Len(pool)]] \in HubMsg
          BY <4>2 DEF HubMsg
        <4> QED BY <3>2, <4>3 DEF PoolGet, HubRecv, HubMail
      <3> QED BY <1>15, <3>1, <3>2
    <2> QED BY <1>1, <2>1, <2>2
  <1>16. ASSUME NEW w \in spawning, PoolCreated(w) \/ PoolExpands(w) PROVE OwnFd'
    <2>1. UNCHANGED <<agentq, agentfd, loading>>
      BY <1>16 DEF PoolCreated, GetCreated, PoolExpands, ExpandPool, agentVars
    <2>2. HubMail({"got"})
      <3>1. ASSUME hubq' = hubq PROVE HubMail({"got"})
        BY <3>1 DEF HubMail
      <3>2. CASE PoolCreated(w)
        BY <3>1, <3>2 DEF PoolCreated, hubVars
      <3>3. CASE PoolExpands(w)
        <4>1. w.agent \in Agents /\ w.req \in Requests
          BY <3>3 DEF PoolExpands, ExpandPool, HandshakeInv, TypeOK, PoolTypeOK
        <4>2. [type |-> "got", req |-> w.req, agent |-> w.agent] \in HubMsg
          BY <4>1 DEF HubMsg
        <4>3. CASE w.left = 1
          BY <3>3, <4>2, <4>3 DEF PoolExpands, HubRecv, HubMail
        <4>4. CASE w.left # 1
          BY <3>1, <3>3, <4>4 DEF PoolExpands, hubVars
        <4> QED BY <4>3, <4>4
      <3> QED BY <1>16, <3>2, <3>3
    <2> QED BY <1>1, <2>1, <2>2
  <1>17. CASE BackStep
    BY <1>12, <1>13, <1>14, <1>15, <1>16, <1>17, OwnFdStarts, OwnFdAnswers DEF BackStep, AgentStep
  <1> QED BY <1>3, <1>4, <1>5, <1>7, <1>8, <1>9, <1>11, <1>17, OwnFdGot DEF CalmStep

-----------------------------------------------------------------------------
(* The invariant is inductive *)

SessionInv == Base /\ Ends /\ Forgetting /\ OnePlace /\ OwnFd

LEMMA SessionInit == Init => SessionInv
  <1> SUFFICES ASSUME Init PROVE SessionInv
    OBVIOUS
  <1>1. /\ attempt = [l \in Logins |-> [pc |-> "new", uid |-> None]] /\ user_online = {}
        /\ hubq = <<>> /\ User_Map = [uid \in Uids |-> None] /\ FD_Map = {}
        /\ user = [l \in Logins |-> [uid |-> None, conn |-> None, agent |-> None]]
        /\ hs = [r \in Requests |-> [pc |-> "none", fd |-> None, tok |-> None, uid |-> None]]
        /\ gateq = <<>> /\ sock = [fd \in Fds |-> "none"] /\ connection = <<>>
        /\ kicking = [fd \in Fds |-> 0] /\ closing = {}
    BY DEF Init, LoginInit, HubInit, GateInit
  <1>2. /\ pool = <<>> /\ spawning = {} /\ agentq = [a \in Agents |-> <<>>] /\ loading = {}
        /\ saving = [a \in Agents |-> 0] /\ recycling = [a \in Agents |-> 0]
    BY DEF Init, PoolInit
  <1>3. \A M : ~Has(<<>>, M) /\ Single(<<>>, M)
    BY DEF Has, Single
  <1>4. HubR = {} /\ Pending(hubq, {"logout"}) = {} /\ \A a \in Agents : AgentR(a) = {}
    BY <1>1, <1>2 DEF HubR, AgentR, Pending
  <1>5. OneEach
    BY <1>1 DEF OneEach, Working
  <1>6. NoKicks
    BY <1>1, <1>3 DEF NoKicks
  <1>7. Sockets
    <2> SUFFICES ASSUME NEW fd \in Fds PROVE Socket(fd)
      BY DEF Sockets
    <2>1. \A r \in Requests : hs[r].fd # fd
      BY <1>1, EntitiesAssumption
    <2> QED BY <1>1, <1>3, <2>1 DEF Socket
  <1>8. Ends
    BY <1>1, <1>4 DEF Ends, Working
  <1>9. Forgetting
    BY <1>1 DEF Forgetting
  <1>10. OnePlace
    <2> SUFFICES ASSUME NEW a \in Agents PROVE Placed(a)
      BY DEF OnePlace
    <2>1. \A r \in Requests : ~Holds(r, a)
      BY <1>1 DEF Holds
    <2>2. \A x \in Places : ~At(a, x)
      BY <1>1, <1>2, <1>3, <2>1 DEF Places, At
    <2>3. \A x \in Places : OnceAt(a, x)
      <3>1. /\ Single(pool, {a}) /\ Single(hubq, Gots(a)) /\ Single(hubq, Leaves(a))
            /\ Single(agentq[a], Quits) /\ saving[a] = 0 /\ recycling[a] = 0 /\ spawning = {}
        BY <1>1, <1>2, <1>3
      <3>2. /\ OnceAt(a, "pool") /\ OnceAt(a, "got") /\ OnceAt(a, "hub") /\ OnceAt(a, "agent")
            /\ OnceAt(a, "save") /\ OnceAt(a, "recycle")
        BY <3>1 DEF OnceAt
      <3>3. OnceAt(a, "spawn")
        BY <3>1 DEF OnceAt
      <3>4. OnceAt(a, "held")
        BY <2>1 DEF OnceAt
      <3> QED BY <3>2, <3>3, <3>4 DEF Places
    <2> QED BY <2>2, <2>3 DEF Placed
  <1>11. OwnFd
    BY <1>1, <1>2, <1>4 DEF OwnFd
  <1> QED BY <1>5, <1>6, <1>7, <1>8, <1>9, <1>10, <1>11 DEF SessionInv, Base

LEMMA SessionNext ==
    ASSUME Calm, HandshakeInv, SessionInv, [Next]_vars
    PROVE  SessionInv'
  <1>1. CalmStep
    BY CalmNext DEF SessionInv
  <1>2. HandshakeInv'
    BY HandshakeNext
  <1> QED BY <1>1, <1>2, BaseNext, EndsStep, ForgettingStep, OnePlaceStep, OwnFdStep DEF SessionInv

(* When no client logs in or presents its token a second time, then at     *)
(* every moment: a uid has one login and a login one handshake, nothing is *)
(* kicked, a user is dropped from User_Map only when its socket has        *)
(* closed, hubd is about to forget every socket it need not remember, an   *)
(* agent is in one place, and the agent of a session has its socket.       *)
THEOREM SessionInductive == Calm => (Spec => [](HandshakeInv /\ SessionInv))
  <1> SUFFICES ASSUME Calm PROVE Spec => [](HandshakeInv /\ SessionInv)
    OBVIOUS
  <1>1. Init => HandshakeInv /\ SessionInv
    BY HandshakeInit, SessionInit
  <1>2. HandshakeInv /\ SessionInv /\ [Next]_vars => (HandshakeInv /\ SessionInv)'
    BY HandshakeNext, SessionNext
  <1> QED BY <1>1, <1>2, PTL DEF Spec

-----------------------------------------------------------------------------
(* What it is for *)

(* The request whose session a playing client has. *)
LEMMA PlayedBy ==
    ASSUME HandshakeInv, SessionInv, NEW fd \in Fds, Playing(fd)
    PROVE  \E r \in Requests :
              /\ hs[r].pc \in {"register", "done"} /\ hs[r].fd = fd /\ sock[fd] = "open"
              /\ hs[r].uid = connection[fd].uid /\ UserOf(r).agent = connection[fd].agent
              /\ connection[fd].agent \in Agents /\ Holds(r, connection[fd].agent)
              /\ UserOf(r).conn = fd
  <1>1. Bound(fd) /\ sock[fd] = "open"
    BY DEF Playing
  <1>2. PICK r \in Requests : BoundBy(fd, r)
    BY <1>1 DEF HandshakeInv, Bindings
  <1>3. Settled(r)
    BY <1>2 DEF BoundBy, Settled
  <1>4. hs[r].pc \in {"register", "done"}
    BY <1>3, SettledKnown
  <1>5. hs[r].uid = connection[fd].uid
    BY <1>2, <1>4, OneRequest DEF BoundBy, SessionInv
  <1>6. UserOf(r).agent = connection[fd].agent /\ connection[fd].agent \in Agents
    BY <1>2, <1>4 DEF BoundBy, HandshakeInv, Presented, UserOf, TypeOK, HubTypeOK
  <1>7. UserOf(r).conn = fd
    BY <1>2, <1>4 DEF BoundBy, SessionInv, Base, OneEach, Working
  <1>8. Holds(r, connection[fd].agent) /\ hs[r].fd = fd
    BY <1>1, <1>2, <1>4, <1>6 DEF Holds, BoundBy
  <1> QED BY <1>1, <1>4, <1>5, <1>6, <1>7, <1>8

(* hubd's User_Map has the uid of every client that plays, whenever the    *)
(* timeout loop runs: a user whose handshake is under way has a conn, and  *)
(* a logout that drops a user follows the close of its own socket.         *)
THEOREM SessionKnownHolds == Calm => (Spec => []SessionKnown)
  <1>1. HandshakeInv /\ SessionInv => SessionKnown
    <2> SUFFICES ASSUME HandshakeInv, SessionInv, NEW fd \in Fds, Playing(fd)
                 PROVE  User_Map[connection[fd].uid] # None
      BY DEF SessionKnown
    <2>1. PICK r \in Requests : /\ hs[r].pc \in {"register", "done"} /\ hs[r].fd = fd /\ sock[fd] = "open"
                                /\ hs[r].uid = connection[fd].uid
      BY PlayedBy
    <2> QED BY <2>1 DEF SessionInv, Ends, Working
  <1> QED BY <1>1, SessionInductive, PTL

(* Once the messages are handled, hubd's FD_Map holds open sockets only:   *)
(* the socket of a client that left in the middle of its handshake is      *)
(* forgotten too, by the logout without a uid or by CMD.handshake's last   *)
(* statement.                                                              *)
THEOREM ClosedForgottenHolds == Calm => (Spec => []ClosedForgotten)
  <1>1. HandshakeInv /\ SessionInv => ClosedForgotten
    <2> SUFFICES ASSUME HandshakeInv, SessionInv, Quiet, NEW fd \in FD_Map, sock[fd] = "closed"
                 PROVE  FALSE
      BY DEF ClosedForgotten
    <2>1. Has(hubq, Forgets(fd))
      BY DEF SessionInv, Forgetting
    <2>2. hubq = <<>>
      BY DEF Quiet
    <2> QED BY <2>1, <2>2 DEF Has
  <1> QED BY <1>1, SessionInductive, PTL

(* An agent serves one client: agent_slave's pool has no agent twice and   *)
(* none that a client is playing with, and two clients that play have two  *)
(* agents, through expand_pool, force_save and recycle.                    *)
THEOREM AgentExclusiveHolds == Calm => (Spec => []AgentExclusive)
  <1>1. HandshakeInv /\ SessionInv => AgentExclusive
    <2> SUFFICES ASSUME HandshakeInv, SessionInv PROVE AgentExclusive
      OBVIOUS
    <2>1. \A a \in Agents : Placed(a)
      BY DEF SessionInv, OnePlace
    <2>2. ASSUME NEW i \in DOMAIN pool, NEW j \in DOMAIN pool, pool[i] = pool[j] PROVE i = j
      <3>1. pool[i] \in Agents
        BY DEF HandshakeInv, TypeOK, PoolTypeOK
      <3>2. Single(pool, {pool[i]})
        BY <2>1, <3>1 DEF Placed, Places, OnceAt
      <3> QED BY <2>2, <3>2 DEF Single
    <2>3. ASSUME NEW fd \in Fds, Playing(fd), NEW i \in DOMAIN pool, pool[i] = connection[fd].agent
          PROVE  FALSE
      <3>1. PICK r \in Requests : connection[fd].agent \in Agents /\ Holds(r, connection[fd].agent)
        BY <2>3, PlayedBy
      <3>2. PICK a \in Agents : a = connection[fd].agent
        BY <3>1
      <3>3. At(a, "held") /\ At(a, "pool")
        BY <2>3, <3>1, <3>2 DEF At, Has
      <3> QED BY <2>1, <3>3 DEF Placed, Places
    <2>4. ASSUME NEW fd \in Fds, Playing(fd), NEW g \in Fds, Playing(g),
                 connection[g].agent = connection[fd].agent
          PROVE  g = fd
      <3>1. PICK a \in Agents : a = connection[fd].agent
        BY <2>4, PlayedBy
      <3>2. PICK r \in Requests : Holds(r, a) /\ hs[r].fd = fd
        BY <2>4, <3>1, PlayedBy
      <3>3. PICK q \in Requests : Holds(q, a) /\ hs[q].fd = g
        BY <2>4, <3>1, PlayedBy
      <3>4. q = r
        BY <2>1, <3>2, <3>3 DEF Placed, Places, OnceAt
      <3> QED BY <3>2, <3>3, <3>4
    <2> QED BY <2>2, <2>3, <2>4 DEF AgentExclusive
  <1> QED BY <1>1, SessionInductive, PTL

(* The agent a client's messages are routed to has that client's socket as *)
(* its _fd, so client.lua drops none of them, also after the agent was     *)
(* recycled from another session.                                          *)
THEOREM ClientHeardHolds == Calm => (Spec => []ClientHeard)
  <1>1. HandshakeInv /\ SessionInv => ClientHeard
    <2> SUFFICES ASSUME HandshakeInv, SessionInv, NEW fd \in Fds, Playing(fd)
                 PROVE  agentfd[connection[fd].agent] = fd
      BY DEF ClientHeard
    <2>1. PICK r \in Requests : /\ hs[r].pc \in {"register", "done"} /\ hs[r].fd = fd /\ sock[fd] = "open"
                                /\ UserOf(r).agent = connection[fd].agent /\ UserOf(r).conn = fd
      BY PlayedBy
    <2> QED BY <2>1 DEF SessionInv, OwnFd
  <1> QED BY <1>1, SessionInductive, PTL

(* The agent a handshake waits for is alive, for every number of clients   *)
(* and agents: agent_slave kills an agent only on its way back to the pool, *)
(* where no start can be.                                                  *)
THEOREM StartAliveHolds == Calm => (Spec => []StartAlive)
  <1>1. HandshakeInv /\ SessionInv => StartAlive
    <2> SUFFICES ASSUME HandshakeInv, SessionInv, NEW r \in Requests, hs[r].pc = "start"
                 PROVE  user[hs[r].tok].agent \in agent_map
      BY DEF StartAlive
    <2>1. UserOf(r).agent \in Agents
      BY DEF HandshakeInv, Presented, UserOf, SessionInv, TypeOK, HubTypeOK
    <2>2. At(UserOf(r).agent, "held") /\ "held" \in Places
      BY DEF At, Holds, Places
    <2>3. Lives(UserOf(r).agent)
      BY <2>1, <2>2 DEF SessionInv, OnePlace, Placed
    <2> QED BY <2>3 DEF Lives, UserOf
  <1> QED BY <1>1, SessionInductive, PTL
=============================================================================
