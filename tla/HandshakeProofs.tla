--------------------------- MODULE HandshakeProofs --------------------------
(***************************************************************************)
(* Proofs about Session, for any number of clients, sockets, requests and  *)
(* agents and whatever the clients do: its types, that one token gets one  *)
(* agent (OneAgentPerToken), and that a connection is bound only by a      *)
(* handshake on it (RegisteredByToken).  A handshake is a coroutine of     *)
(* hubd that waits for one answer at a time; the answer, or the question,  *)
(* is a message of some service or a coroutine of the pool or of an agent. *)
(* The invariant says that there is at most one of these for a handshake,  *)
(* that it is the one the coroutine waits for, and that it agrees with the *)
(* user object the coroutine captured.                                     *)
(***************************************************************************)
EXTENDS Session, MailboxLemmas

(* The messages of a mailbox that have one of the types T. *)
Pending(q, T) == {m \in {q[i] : i \in DOMAIN q} : m.type \in T}

(* No two of them are of the same request. *)
Once(q, T) ==
    \A i, j \in DOMAIN q :
        q[i].type \in T /\ q[j].type \in T /\ q[i].req = q[j].req => i = j

(* What hubd's coroutine waits for when a message of its request arrives. *)
Awaits(type) ==
    CASE type = "handshake" -> "sent"
      [] type = "got" -> "get"
      [] type \in {"started", "failed"} -> "start"
      [] OTHER -> "register"

ReqTypes == {"handshake", "got", "started", "failed", "registered"}

HubR == Pending(hubq, ReqTypes)
GateR == Pending(gateq, {"register"})
AgentR(a) == Pending(agentq[a], {"start"})

(* The user object a request captured. *)
UserOf(r) == user[hs[r].tok]

(* Each request has one message or coroutine at most. *)
Flights ==
    /\ Once(hubq, ReqTypes)
    /\ Once(gateq, {"register"})
    /\ \A a \in Agents : Once(agentq[a], {"start"})
    /\ \A m \in HubR :
          /\ m.req \notin gets
          /\ \A w \in spawning : w.req # m.req
          /\ \A c \in loading : c.req # m.req
          /\ \A n \in GateR : n.req # m.req
          /\ \A a \in Agents : \A n \in AgentR(a) : n.req # m.req
    /\ \A w \in spawning : /\ w.req \notin gets
                           /\ \A v \in spawning : v.req = w.req => v = w
    /\ \A c \in loading, a \in Agents : \A n \in AgentR(a) : n.req # c.req

(* It is what the request waits for. *)
Answers ==
    /\ \A m \in HubR : /\ hs[m.req].pc = Awaits(m.type)
                       /\ m.type = "started" => agentfd[UserOf(m.req).agent] # None
    /\ \A r \in gets : hs[r].pc = "get"
    /\ \A w \in spawning : hs[w.req].pc = "get"
    /\ \A a \in Agents : \A m \in AgentR(a) :
          hs[m.req].pc = "start" /\ UserOf(m.req).agent = a
    /\ \A c \in loading : /\ hs[c.req].pc = "start" /\ UserOf(c.req).agent = c.agent
                          /\ agentfd[c.agent] # None
    /\ \A m \in GateR : /\ hs[m.req].pc = "register" /\ hs[m.req].fd = m.fd
                        /\ UserOf(m.req).uid = m.uid /\ UserOf(m.req).agent = m.agent
                        /\ agentfd[m.agent] # None

(* What a login was granted. *)
Granted ==
    \A l \in Logins :
        /\ attempt[l].pc \notin {"new", "401"} => attempt[l].uid \in Uids
        /\ attempt[l].pc \in {"accessed", "200"} => user[l].uid \in Uids
        /\ user[l].agent # None => user[l].conn # None

(* What a request knows, and the user object it works on. *)
Presented ==
    \A r \in Requests : hs[r].pc # "none" =>
        /\ hs[r].fd \in Fds /\ hs[r].tok \in Logins /\ hs[r].uid \in Uids
        /\ attempt[hs[r].tok].pc = "200"
        /\ hs[r].pc \in {"get", "start", "register", "done"} => UserOf(r).conn # None
        /\ hs[r].pc \in {"start", "register", "done"} => UserOf(r).agent # None

(* The request that bound a connection: it has ended, or hubd is about to be
   told. *)
BoundBy(fd, r) ==
    /\ hs[r].fd = fd
    /\ hs[r].pc = "done" \/ [type |-> "registered", req |-> r, res |-> TRUE] \in HubR
    /\ UserOf(r).uid = connection[fd].uid /\ UserOf(r).agent = connection[fd].agent

Bindings ==
    /\ \A fd \in DOMAIN connection : connection[fd].uid = None <=> connection[fd].agent = None
    /\ \A m \in Pending(hubq, {"logout"}) : m.uid # None => m.agent # None
    /\ \A fd \in Fds : Bound(fd) => /\ agentfd[connection[fd].agent] # None
                                    /\ \E r \in Requests : BoundBy(fd, r)

HandshakeInv ==
    /\ TypeOK /\ Granted /\ Presented /\ OneAgentPerToken
    /\ Flights /\ Answers /\ Bindings

-----------------------------------------------------------------------------
(* Mailboxes *)

LEMMA PendingAppend ==
    ASSUME NEW S, NEW q \in Seq(S), NEW m \in S, NEW T
    PROVE  /\ m.type \in T => Pending(Append(q, m), T) = Pending(q, T) \cup {m}
           /\ m.type \notin T => Pending(Append(q, m), T) = Pending(q, T)
           /\ Once(q, T) /\ (m.type \in T => \A n \in Pending(q, T) : n.req # m.req)
                => Once(Append(q, m), T)
  <1> DEFINE p == Append(q, m)
             k == Len(q) + 1
  <1>1. /\ DOMAIN p = DOMAIN q \cup {k} /\ k \notin DOMAIN q /\ p[k] = m
        /\ \A i \in DOMAIN q : p[i] = q[i]
    BY AppendFacts
  <1> HIDE DEF p, k
  <1>2. {p[i] : i \in DOMAIN p} = {q[i] : i \in DOMAIN q} \cup {m}
    BY <1>1
  <1>3. /\ m.type \in T => Pending(p, T) = Pending(q, T) \cup {m}
        /\ m.type \notin T => Pending(p, T) = Pending(q, T)
    BY <1>2 DEF Pending
  <1>4. ASSUME Once(q, T), m.type \in T => \A n \in Pending(q, T) : n.req # m.req
        PROVE  Once(p, T)
    <2> SUFFICES ASSUME NEW i \in DOMAIN p, NEW j \in DOMAIN p,
                        p[i].type \in T, p[j].type \in T, p[i].req = p[j].req
                 PROVE  i = j
      BY DEF Once
    <2>1. CASE i \in DOMAIN q /\ j \in DOMAIN q
      BY <1>1, <1>4, <2>1 DEF Once
    <2>2. CASE i = k /\ j \in DOMAIN q
      BY <1>1, <1>4, <2>2 DEF Pending
    <2>3. CASE i \in DOMAIN q /\ j = k
      BY <1>1, <1>4, <2>3 DEF Pending
    <2> QED BY <1>1, <2>1, <2>2, <2>3
  <1> QED BY <1>3, <1>4 DEF p

LEMMA PendingTail ==
    ASSUME NEW S, NEW q \in Seq(S), q # <<>>, NEW T
    PROVE  /\ Head(q).type \in T => Head(q) \in Pending(q, T)
           /\ Pending(Tail(q), T) \subseteq Pending(q, T)
           /\ Once(q, T) => /\ Once(Tail(q), T)
                            /\ Pending(Tail(q), T) = Pending(q, T) \ {Head(q)}
  <1> DEFINE p == Tail(q)
             h == Head(q)
  <1>1. /\ h = q[1] /\ 1 \in DOMAIN q
        /\ \A i \in DOMAIN p : i \in Nat /\ i + 1 \in DOMAIN q /\ p[i] = q[i + 1]
        /\ \A i \in DOMAIN q : i # 1 => i - 1 \in DOMAIN p /\ q[i] = p[i - 1]
    BY TailFacts
  <1> HIDE DEF p, h
  <1>2. Pending(p, T) \subseteq Pending(q, T)
    BY <1>1 DEF Pending
  <1>3. h.type \in T => h \in Pending(q, T)
    BY <1>1 DEF Pending
  <1>4. ASSUME Once(q, T) PROVE Once(p, T) /\ Pending(p, T) = Pending(q, T) \ {h}
    <2>1. Once(p, T)
      <3> SUFFICES ASSUME NEW i \in DOMAIN p, NEW j \in DOMAIN p,
                          p[i].type \in T, p[j].type \in T, p[i].req = p[j].req
                   PROVE  i = j
        BY DEF Once
      <3>1. /\ i \in Nat /\ j \in Nat /\ i + 1 \in DOMAIN q /\ j + 1 \in DOMAIN q
            /\ p[i] = q[i + 1] /\ p[j] = q[j + 1]
        BY <1>1
      <3>2. i + 1 = j + 1
        BY <1>4, <3>1 DEF Once
      <3> QED BY <3>1, <3>2
    <2>2. h \notin Pending(p, T)
      <3> SUFFICES ASSUME NEW i \in DOMAIN p, p[i] = h, h.type \in T PROVE FALSE
        BY DEF Pending
      <3>1. i \in Nat /\ i + 1 \in DOMAIN q /\ q[i + 1] = q[1]
        BY <1>1
      <3>2. i + 1 = 1
        BY <1>1, <1>4, <3>1 DEF Once
      <3>3. i \in 1..Len(p)
        BY LenProperties, TailFacts DEF p
      <3> QED BY <3>1, <3>2, <3>3
    <2>3. ASSUME NEW m \in Pending(q, T) PROVE m = h \/ m \in Pending(p, T)
      <3>1. PICK i \in DOMAIN q : m = q[i] /\ q[i].type \in T
        BY DEF Pending
      <3>2. CASE i = 1
        BY <1>1, <3>1, <3>2
      <3>3. CASE i # 1
        <4>1. i - 1 \in DOMAIN p /\ p[i - 1] = m
          BY <1>1, <3>1, <3>3
        <4> QED BY <3>1, <4>1 DEF Pending
      <3> QED BY <3>2, <3>3
    <2> QED BY <1>2, <2>1, <2>2, <2>3
  <1> QED BY <1>2, <1>3, <1>4 DEF p, h

LEMMA PendingOne ==
    ASSUME NEW q, NEW T, Once(q, T),
           NEW m \in Pending(q, T), NEW n \in Pending(q, T), m.req = n.req
    PROVE  m = n
  BY DEF Pending, Once

LEMMA HubMsgFacts ==
    ASSUME NEW m \in HubMsg
    PROVE  /\ m.type \in {"handshake", "started", "failed", "got", "registered"} =>
                m.req \in Requests
           /\ m.type = "got" => m.agent \in Agents
           /\ m.type = "registered" => m.res \in BOOLEAN
           /\ m.type = "kick" => m.uid \in Uids
           /\ m.type \in {"connect", "logout"} => m.fd \in Fds
           /\ m.type = "logout" => m.uid \in Uids \cup {None} /\ m.agent \in Agents \cup {None}
  BY DEF HubMsg

LEMMA GateMsgFacts ==
    ASSUME NEW m \in GateMsg
    PROVE  /\ m.fd \in Fds
           /\ m.type = "kick" => m.raw \in BOOLEAN
           /\ m.type = "register" => m.req \in Requests /\ m.uid \in Uids /\ m.agent \in Agents
  BY DEF GateMsg

LEMMA AgentMsgFacts ==
    ASSUME NEW m \in AgentMsg
    PROVE  m.type = "start" => m.req \in Requests /\ m.fd \in Fds
  BY DEF AgentMsg

(* A mailbox gets a message. *)
LEMMA HubGets ==
    ASSUME HandshakeInv, NEW m \in HubMsg, hubq' = Append(hubq, m),
           m.type \in ReqTypes => \A n \in HubR : n.req # m.req
    PROVE  /\ hubq' \in Seq(HubMsg) /\ Once(hubq', ReqTypes)
           /\ m.type \in ReqTypes => HubR' = HubR \cup {m}
           /\ m.type \notin ReqTypes => HubR' = HubR
           /\ Pending(hubq, {"logout"})' =
                IF m.type = "logout" THEN Pending(hubq, {"logout"}) \cup {m}
                ELSE Pending(hubq, {"logout"})
  <1>1. hubq \in Seq(HubMsg) /\ Once(hubq, ReqTypes)
    BY DEF HandshakeInv, TypeOK, HubTypeOK, Flights
  <1>2. hubq' \in Seq(HubMsg)
    BY <1>1, AppendFacts
  <1>3. /\ m.type \in ReqTypes => HubR' = HubR \cup {m}
        /\ m.type \notin ReqTypes => HubR' = HubR
        /\ Once(hubq', ReqTypes)
    BY <1>1, PendingAppend DEF HubR
  <1>4. Pending(hubq', {"logout"}) =
          IF m.type = "logout" THEN Pending(hubq, {"logout"}) \cup {m}
          ELSE Pending(hubq, {"logout"})
    <2> DEFINE T == {"logout"}
    <2>1. m.type \in T <=> m.type = "logout"
      OBVIOUS
    <2> HIDE DEF T
    <2>2. Pending(hubq', T) = IF m.type \in T THEN Pending(hubq, T) \cup {m}
                              ELSE Pending(hubq, T)
      BY <1>1, PendingAppend
    <2> QED BY <2>1, <2>2 DEF T
  <1> QED BY <1>2, <1>3, <1>4

LEMMA HubTakes ==
    ASSUME HandshakeInv, hubq # <<>>, hubq' = Tail(hubq)
    PROVE  /\ hubq' \in Seq(HubMsg) /\ Once(hubq', ReqTypes)
           /\ HubR' = HubR \ {Head(hubq)}
           /\ Pending(hubq, {"logout"})' \subseteq Pending(hubq, {"logout"})
  <1>1. hubq \in Seq(HubMsg) /\ Once(hubq, ReqTypes)
    BY DEF HandshakeInv, TypeOK, HubTypeOK, Flights
  <1>2. hubq' \in Seq(HubMsg)
    BY <1>1, TailFacts
  <1>3. HubR' = HubR \ {Head(hubq)} /\ Once(hubq', ReqTypes)
    BY <1>1, PendingTail DEF HubR
  <1>4. Pending(hubq', {"logout"}) \subseteq Pending(hubq, {"logout"})
    BY <1>1, PendingTail
  <1> QED BY <1>2, <1>3, <1>4

(* The oldest message of hubd. *)
LEMMA HubHead ==
    ASSUME HandshakeInv, hubq # <<>>
    PROVE  /\ Head(hubq) \in HubMsg
           /\ Head(hubq).type \in ReqTypes => Head(hubq) \in HubR
           /\ Head(hubq).type = "logout" => Head(hubq) \in Pending(hubq, {"logout"})
  <1>1. hubq \in Seq(HubMsg)
    BY DEF HandshakeInv, TypeOK, HubTypeOK
  <1> QED BY <1>1, TailFacts, PendingTail DEF HubR

LEMMA GateGets ==
    ASSUME HandshakeInv, NEW m \in GateMsg, gateq' = Append(gateq, m),
           m.type = "register" => \A n \in GateR : n.req # m.req
    PROVE  /\ gateq' \in Seq(GateMsg) /\ Once(gateq', {"register"})
           /\ m.type = "register" => GateR' = GateR \cup {m}
           /\ m.type # "register" => GateR' = GateR
  <1>1. gateq \in Seq(GateMsg) /\ Once(gateq, {"register"})
    BY DEF HandshakeInv, TypeOK, GateTypeOK, Flights
  <1>2. gateq' \in Seq(GateMsg)
    BY <1>1, AppendFacts
  <1>3. /\ m.type \in {"register"} => GateR' = GateR \cup {m}
        /\ m.type \notin {"register"} => GateR' = GateR
        /\ Once(gateq', {"register"})
    BY <1>1, PendingAppend DEF GateR
  <1> QED BY <1>2, <1>3

LEMMA GateTakes ==
    ASSUME HandshakeInv, gateq # <<>>, gateq' = Tail(gateq)
    PROVE  /\ gateq' \in Seq(GateMsg) /\ Once(gateq', {"register"})
           /\ GateR' = GateR \ {Head(gateq)}
  <1>1. gateq \in Seq(GateMsg) /\ Once(gateq, {"register"})
    BY DEF HandshakeInv, TypeOK, GateTypeOK, Flights
  <1>2. gateq' \in Seq(GateMsg)
    BY <1>1, TailFacts
  <1>3. GateR' = GateR \ {Head(gateq)} /\ Once(gateq', {"register"})
    BY <1>1, PendingTail DEF GateR
  <1> QED BY <1>2, <1>3

LEMMA GateHead ==
    ASSUME HandshakeInv, gateq # <<>>
    PROVE  /\ Head(gateq) \in GateMsg
           /\ Head(gateq).type = "register" => Head(gateq) \in GateR
  <1>1. gateq \in Seq(GateMsg)
    BY DEF HandshakeInv, TypeOK, GateTypeOK
  <1> QED BY <1>1, TailFacts, PendingTail DEF GateR

LEMMA AgentGets ==
    ASSUME HandshakeInv, NEW a \in Agents, NEW m \in AgentMsg,
           agentq' = [agentq EXCEPT ![a] = Append(@, m)],
           m.type = "start" => \A n \in AgentR(a) : n.req # m.req
    PROVE  /\ agentq' \in [Agents -> Seq(AgentMsg)]
           /\ \A b \in Agents : Once(agentq'[b], {"start"})
           /\ m.type = "start" => AgentR(a)' = AgentR(a) \cup {m}
           /\ m.type # "start" => AgentR(a)' = AgentR(a)
           /\ \A b \in Agents : b # a => AgentR(b)' = AgentR(b)
  <1>1. /\ agentq \in [Agents -> Seq(AgentMsg)]
        /\ \A b \in Agents : Once(agentq[b], {"start"})
    BY DEF HandshakeInv, TypeOK, PoolTypeOK, Flights
  <1>2. /\ agentq'[a] = Append(agentq[a], m) /\ agentq[a] \in Seq(AgentMsg)
        /\ \A b \in Agents : b # a => agentq'[b] = agentq[b]
    BY <1>1
  <1>3. agentq'[a] \in Seq(AgentMsg)
    BY <1>2, AppendFacts
  <1>4. agentq' \in [Agents -> Seq(AgentMsg)]
    BY <1>1, <1>2, <1>3
  <1>5. /\ m.type \in {"start"} => AgentR(a)' = AgentR(a) \cup {m}
        /\ m.type \notin {"start"} => AgentR(a)' = AgentR(a)
        /\ Once(agentq'[a], {"start"})
    BY <1>1, <1>2, PendingAppend DEF AgentR
  <1>6. \A b \in Agents : b # a => AgentR(b)' = AgentR(b)
    BY <1>2 DEF AgentR
  <1> QED BY <1>1, <1>2, <1>4, <1>5, <1>6

LEMMA AgentTakes ==
    ASSUME HandshakeInv, NEW a \in Agents, agentq[a] # <<>>,
           agentq' = [agentq EXCEPT ![a] = Tail(@)]
    PROVE  /\ agentq' \in [Agents -> Seq(AgentMsg)]
           /\ \A b \in Agents : Once(agentq'[b], {"start"})
           /\ AgentR(a)' = AgentR(a) \ {Head(agentq[a])}
           /\ \A b \in Agents : b # a => AgentR(b)' = AgentR(b)
           /\ Head(agentq[a]) \in AgentMsg
           /\ Head(agentq[a]).type = "start" => Head(agentq[a]) \in AgentR(a)
  <1>1. /\ agentq \in [Agents -> Seq(AgentMsg)]
        /\ \A b \in Agents : Once(agentq[b], {"start"})
    BY DEF HandshakeInv, TypeOK, PoolTypeOK, Flights
  <1>2. /\ agentq'[a] = Tail(agentq[a]) /\ agentq[a] \in Seq(AgentMsg)
        /\ \A b \in Agents : b # a => agentq'[b] = agentq[b]
    BY <1>1
  <1>3. agentq'[a] \in Seq(AgentMsg) /\ Head(agentq[a]) \in AgentMsg
    BY <1>2, TailFacts
  <1>4. agentq' \in [Agents -> Seq(AgentMsg)]
    BY <1>1, <1>2, <1>3
  <1>5. /\ AgentR(a)' = AgentR(a) \ {Head(agentq[a])}
        /\ Once(agentq'[a], {"start"})
        /\ Head(agentq[a]).type = "start" => Head(agentq[a]) \in AgentR(a)
    BY <1>1, <1>2, PendingTail DEF AgentR
  <1>6. \A b \in Agents : b # a => AgentR(b)' = AgentR(b)
    BY <1>2 DEF AgentR
  <1> QED BY <1>1, <1>2, <1>3, <1>4, <1>5, <1>6

-----------------------------------------------------------------------------
(* Steps that no handshake is part of *)

Still ==
    /\ hs' = hs /\ user' = user /\ gets' = gets /\ spawning' = spawning /\ loading' = loading
    /\ agentfd' = agentfd
    /\ HubR' = HubR /\ GateR' = GateR /\ \A a \in Agents : AgentR(a)' = AgentR(a)
    /\ Once(hubq', ReqTypes) /\ Once(gateq', {"register"})
    /\ \A a \in Agents : Once(agentq'[a], {"start"})
    /\ \A l \in Logins : attempt[l].pc = "200" => attempt'[l].pc = "200"

(* Nothing is bound anew, and a logout names the agent of its uid. *)
NotBound ==
    /\ \A fd \in DOMAIN connection' :
          \/ connection'[fd] = [uid |-> None, agent |-> None]
          \/ fd \in DOMAIN connection /\ connection'[fd] = connection[fd]
    /\ \A m \in Pending(hubq, {"logout"})' :
          m \in Pending(hubq, {"logout"}) \/ (m.uid # None => m.agent # None)

(* The requests that bound a connection go on to their end. *)
LEMMA BindingsKept ==
    ASSUME HandshakeInv, NotBound,
           \A a \in Agents : agentfd[a] # None => agentfd'[a] # None,
           \A r \in Requests : hs[r].pc \in {"register", "done"} =>
               /\ hs'[r].fd = hs[r].fd
               /\ UserOf(r)'.uid = UserOf(r).uid /\ UserOf(r)'.agent = UserOf(r).agent,
           \A r \in Requests : hs[r].pc = "done" => hs'[r].pc = "done",
           \A r \in Requests : [type |-> "registered", req |-> r, res |-> TRUE] \in HubR =>
               \/ hs'[r].pc = "done"
               \/ [type |-> "registered", req |-> r, res |-> TRUE] \in HubR'
    PROVE  Bindings'
  <1> USE DEF HandshakeInv
  <1>1. \A fd \in DOMAIN connection' :
          connection'[fd].uid = None <=> connection'[fd].agent = None
    BY DEF NotBound, Bindings
  <1>2. \A m \in Pending(hubq, {"logout"})' : m.uid # None => m.agent # None
    BY DEF NotBound, Bindings
  <1>3. ASSUME NEW fd \in Fds, Bound(fd)'
        PROVE  /\ agentfd'[connection'[fd].agent] # None
               /\ \E r \in Requests : BoundBy(fd, r)'
    <2>1. Bound(fd) /\ connection'[fd] = connection[fd] /\ fd \in DOMAIN connection
      BY <1>3 DEF NotBound, Bound
    <2>2. connection[fd] \in Conn
      BY <2>1 DEF TypeOK, GateTypeOK
    <2>3. connection[fd].agent \in Agents
      BY <2>1, <2>2 DEF Bindings, Bound, Conn
    <2>4. agentfd[connection[fd].agent] # None
      BY <2>1 DEF Bindings
    <2>5. PICK r \in Requests : BoundBy(fd, r)
      BY <2>1 DEF Bindings
    <2>6. hs[r].pc \in {"register", "done"}
      <3>1. ASSUME [type |-> "registered", req |-> r, res |-> TRUE] \in HubR
            PROVE  hs[r].pc = "register"
        BY <3>1 DEF Answers, Awaits
      <3> QED BY <2>5, <3>1 DEF BoundBy
    <2>7. BoundBy(fd, r)'
      BY <2>1, <2>5, <2>6 DEF BoundBy
    <2> QED BY <2>1, <2>3, <2>4, <2>7
  <1> QED BY <1>1, <1>2, <1>3 DEF Bindings

LEMMA StillInv ==
    ASSUME HandshakeInv, Still, NotBound, TypeOK', Granted'
    PROVE  HandshakeInv'
  <1>1. Presented'
    BY DEF HandshakeInv, Still, Presented, UserOf
  <1>2. OneAgentPerToken'
    BY DEF HandshakeInv, Still, OneAgentPerToken
  <1>3. Flights'
    BY DEF HandshakeInv, Still, Flights
  <1>4. Answers'
    BY DEF HandshakeInv, Still, Answers, UserOf
  <1>5. Bindings'
    BY BindingsKept DEF Still, UserOf
  <1> QED BY <1>1, <1>2, <1>3, <1>4, <1>5 DEF HandshakeInv

(* The login master's steps, other than hubd's answer. *)
LEMMA LoginTypes ==
    ASSUME TypeOK, Granted, user' = user,
           \/ \E l \in Logins : Unauthorized(l) \/ HandlerOk(l) \/ HandlerFailed(l)
           \/ \E l \in Logins, uid \in Uids : Refuse(l, uid) \/ EnterHandler(l, uid)
           \/ \E uid \in Uids : LoginLogout(uid)
           \/ UNCHANGED loginVars
           \/ \E S \in SUBSET Uids : SendLogouts(S)
    PROVE  /\ LoginTypeOK' /\ Granted'
           /\ \A l \in Logins : attempt[l].pc = "200" => attempt'[l].pc = "200"
  <1> USE DEF TypeOK, LoginTypeOK, AttemptPc, InHandler, Granted
  <1>1. ASSUME NEW l \in Logins, Unauthorized(l) \/ HandlerOk(l) \/ HandlerFailed(l)
        PROVE  /\ LoginTypeOK' /\ Granted'
               /\ \A k \in Logins : attempt[k].pc = "200" => attempt'[k].pc = "200"
    BY <1>1 DEF Unauthorized, HandlerOk, HandlerFailed
  <1>2. ASSUME NEW l \in Logins, NEW uid \in Uids, Refuse(l, uid) \/ EnterHandler(l, uid)
        PROVE  /\ LoginTypeOK' /\ Granted'
               /\ \A k \in Logins : attempt[k].pc = "200" => attempt'[k].pc = "200"
    BY <1>2 DEF Refuse, EnterHandler
  <1>3. ASSUME NEW uid \in Uids, LoginLogout(uid)
        PROVE  /\ LoginTypeOK' /\ Granted'
               /\ \A k \in Logins : attempt[k].pc = "200" => attempt'[k].pc = "200"
    BY <1>3 DEF LoginLogout
  <1>4. CASE UNCHANGED loginVars
    BY <1>4 DEF loginVars
  <1>5. ASSUME NEW S \in SUBSET Uids, SendLogouts(S)
        PROVE  /\ LoginTypeOK' /\ Granted'
               /\ \A k \in Logins : attempt[k].pc = "200" => attempt'[k].pc = "200"
    BY <1>5 DEF SendLogouts
  <1> QED BY <1>1, <1>2, <1>3, <1>4, <1>5

(* A step of the login master that sends nothing. *)
LEMMA LoginInv ==
    ASSUME HandshakeInv, UNCHANGED <<hubVars, gateVars, poolVars, agentVars>>,
           \/ \E l \in Logins : Unauthorized(l) \/ HandlerOk(l) \/ HandlerFailed(l)
           \/ \E l \in Logins, uid \in Uids : Refuse(l, uid) \/ EnterHandler(l, uid)
           \/ \E uid \in Uids : LoginLogout(uid)
           \/ UNCHANGED loginVars
    PROVE  HandshakeInv'
  <1> USE DEF HandshakeInv
  <1>1. /\ LoginTypeOK' /\ Granted'
        /\ \A l \in Logins : attempt[l].pc = "200" => attempt'[l].pc = "200"
    <2>1. user' = user
      BY DEF hubVars
    <2> QED BY <2>1, LoginTypes
  <1>2. TypeOK'
    BY <1>1 DEF TypeOK, HubTypeOK, GateTypeOK, PoolTypeOK, hubVars, gateVars, poolVars, agentVars
  <1>3. Still /\ NotBound
    BY <1>1 DEF Still, NotBound, Flights, HubR, GateR, AgentR,
                hubVars, gateVars, poolVars, agentVars
  <1> HIDE DEF HandshakeInv
  <1> QED BY <1>1, <1>2, <1>3, StillInv

LEMMA LoginEnterInv ==
    ASSUME HandshakeInv, NEW l \in Logins, NEW uid \in Uids, LoginEnter(l, uid)
    PROVE  HandshakeInv'
  <1>1. CASE uid \notin user_online
    <2>1. EnterHandler(l, uid) /\ UNCHANGED <<hubVars, gateVars, poolVars, agentVars>>
      BY <1>1 DEF LoginEnter
    <2> QED BY <2>1, LoginInv
  <1>2. CASE uid \in user_online
    <2>1. /\ EnterHandler(l, uid) /\ HubRecv([type |-> "kick", uid |-> uid])
          /\ UNCHANGED <<gateVars, poolVars, agentVars>>
      BY <1>2 DEF LoginEnter
    <2>2. PICK m \in HubMsg : m = [type |-> "kick", uid |-> uid]
      BY DEF HubMsg
    <2>3. /\ hubq' = Append(hubq, m) /\ m.type = "kick"
          /\ UNCHANGED <<User_Map, user, FD_Map, hs>>
      BY <2>1, <2>2 DEF HubRecv
    <2>4. /\ hubq' \in Seq(HubMsg) /\ Once(hubq', ReqTypes) /\ HubR' = HubR
          /\ Pending(hubq, {"logout"})' = Pending(hubq, {"logout"})
      BY <2>3, HubGets DEF ReqTypes
    <2>5. /\ LoginTypeOK' /\ Granted'
          /\ \A k \in Logins : attempt[k].pc = "200" => attempt'[k].pc = "200"
      BY <2>1, <2>3, LoginTypes DEF HandshakeInv
    <2>6. TypeOK'
      BY <2>1, <2>3, <2>4, <2>5 DEF HandshakeInv, TypeOK, HubTypeOK, GateTypeOK, PoolTypeOK,
         gateVars, poolVars, agentVars
    <2>7. Still
      BY <2>1, <2>3, <2>4, <2>5 DEF Still, HandshakeInv, Flights, GateR, AgentR,
         gateVars, poolVars, agentVars
    <2>8. NotBound
      BY <2>1, <2>4 DEF NotBound, gateVars
    <2> QED BY <2>5, <2>6, <2>7, <2>8, StillInv
  <1> QED BY <1>1, <1>2

(* Whatever is under way for a request belongs to a request that waits. *)
LEMMA InFlight ==
    ASSUME HandshakeInv
    PROVE  /\ \A m \in HubR : m \in HubMsg /\ m.type \in ReqTypes /\ m.req \in Requests
                              /\ hs[m.req].pc \in {"sent", "get", "start", "register"}
           /\ \A m \in GateR : m \in GateMsg /\ m.type = "register" /\ m.req \in Requests
                               /\ m.agent \in Agents
           /\ \A a \in Agents : \A m \in AgentR(a) : m \in AgentMsg /\ m.type = "start"
                                                     /\ m.req \in Requests
           /\ \A w \in spawning : w.req \in Requests
           /\ \A c \in loading : c.req \in Requests /\ c.agent \in Agents
           /\ gets \subseteq Requests
  <1> USE DEF HandshakeInv
  <1>1. hubq \in Seq(HubMsg) /\ gateq \in Seq(GateMsg) /\ agentq \in [Agents -> Seq(AgentMsg)]
    BY DEF TypeOK, HubTypeOK, GateTypeOK, PoolTypeOK
  <1>2. ASSUME NEW m \in HubR
        PROVE  m \in HubMsg /\ m.type \in ReqTypes /\ m.req \in Requests
    <2>1. m \in HubMsg /\ m.type \in ReqTypes
      BY <1>1, <1>2, ElementOfSeq, LenProperties DEF HubR, Pending
    <2> QED BY <2>1, HubMsgFacts DEF ReqTypes
  <1>3. \A m \in HubR : hs[m.req].pc \in {"sent", "get", "start", "register"}
    <2> SUFFICES ASSUME NEW m \in HubR
                 PROVE  hs[m.req].pc \in {"sent", "get", "start", "register"}
      OBVIOUS
    <2>1. hs[m.req].pc = Awaits(m.type)
      BY DEF Answers
    <2>2. Awaits(m.type) \in {"sent", "get", "start", "register"}
      BY DEF Awaits
    <2> QED BY <2>1, <2>2
  <1>4. ASSUME NEW m \in GateR
        PROVE  m \in GateMsg /\ m.type = "register" /\ m.req \in Requests /\ m.agent \in Agents
    <2>1. m \in GateMsg /\ m.type = "register"
      BY <1>1, <1>4, ElementOfSeq, LenProperties DEF GateR, Pending
    <2> QED BY <2>1, GateMsgFacts
  <1>5. ASSUME NEW a \in Agents, NEW m \in AgentR(a)
        PROVE  m \in AgentMsg /\ m.type = "start" /\ m.req \in Requests
    <2>1. agentq[a] \in Seq(AgentMsg)
      BY <1>1
    <2>2. m \in AgentMsg /\ m.type = "start"
      BY <2>1, <1>5, ElementOfSeq, LenProperties DEF AgentR, Pending
    <2> QED BY <2>2, AgentMsgFacts
  <1>6. /\ \A w \in spawning : w.req \in Requests
        /\ \A c \in loading : c.req \in Requests /\ c.agent \in Agents
        /\ gets \subseteq Requests
    BY DEF TypeOK, PoolTypeOK
  <1> QED BY <1>2, <1>3, <1>4, <1>5, <1>6

(* access: a login that has no handshake yet gets its user object. *)
LEMMA LoginAccessInv ==
    ASSUME HandshakeInv, NEW l \in Logins, LoginAccess(l)
    PROVE  HandshakeInv'
  <1> USE DEF HandshakeInv
  <1>1. /\ attempt[l].pc = "login" /\ attempt' = [attempt EXCEPT ![l].pc = "accessed"]
        /\ UNCHANGED <<user_login, user_online, logouts>>
        /\ User_Map' = [User_Map EXCEPT ![attempt[l].uid] = l]
        /\ user' = [user EXCEPT ![l] = [uid |-> attempt[l].uid, conn |-> None, agent |-> None]]
        /\ UNCHANGED <<hubq, FD_Map, hs>> /\ UNCHANGED <<gateVars, poolVars, agentVars>>
    BY DEF LoginAccess, Accessed, Access
  <1>2. attempt[l].uid \in Uids
    BY <1>1 DEF Granted
  <1>3. TypeOK'
    <2>1. LoginTypeOK'
      BY <1>1 DEF TypeOK, LoginTypeOK, AttemptPc
    <2>2. user' \in [Logins -> [uid: Uids \cup {None}, conn: Fds \cup {None},
                               agent: Agents \cup {None}]]
      BY <1>1, <1>2 DEF TypeOK, HubTypeOK
    <2>3. User_Map' \in [Uids -> Logins \cup {None}]
      BY <1>1 DEF TypeOK, HubTypeOK
    <2>4. HubTypeOK'
      BY <1>1, <2>2, <2>3 DEF TypeOK, HubTypeOK
    <2>5. GateTypeOK' /\ PoolTypeOK'
      BY <1>1 DEF TypeOK, GateTypeOK, PoolTypeOK, gateVars, poolVars, agentVars
    <2> QED BY <2>1, <2>4, <2>5 DEF TypeOK
  <1>4. Granted'
    BY <1>1, <1>2 DEF Granted, TypeOK, LoginTypeOK, HubTypeOK
  <1>5. \A k \in Logins : /\ attempt[k].pc = "200" => attempt'[k].pc = "200"
                          /\ k # l => user'[k] = user[k]
    BY <1>1 DEF TypeOK, LoginTypeOK, HubTypeOK
  <1>6. \A r \in Requests : hs[r].pc # "none" => UserOf(r)' = UserOf(r) /\ hs[r].tok # l
                                                /\ hs[r].tok \in Logins
    BY <1>1, <1>5 DEF Presented, UserOf
  <1>7. /\ HubR' = HubR /\ GateR' = GateR /\ \A a \in Agents : AgentR(a)' = AgentR(a)
        /\ UNCHANGED <<hs, gets, spawning, loading, agentfd, hubq, gateq, agentq, connection>>
    BY <1>1 DEF HubR, GateR, AgentR, gateVars, poolVars, agentVars
  <1>8. Presented'
    BY <1>5, <1>6, <1>7 DEF Presented
  <1>9. OneAgentPerToken'
    BY <1>6, <1>7 DEF OneAgentPerToken, UserOf
  <1>10. Flights'
    BY <1>7 DEF Flights
  <1>11. /\ \A m \in HubR : m.req \in Requests /\ hs[m.req].pc # "none"
         /\ \A m \in GateR : m.req \in Requests /\ hs[m.req].pc # "none"
         /\ \A a \in Agents : \A m \in AgentR(a) : m.req \in Requests /\ hs[m.req].pc # "none"
         /\ \A c \in loading : c.req \in Requests /\ hs[c.req].pc # "none"
    <2>1. \A m \in HubR : m.req \in Requests /\ hs[m.req].pc # "none"
      BY InFlight
    <2> QED BY <2>1, InFlight DEF Answers
  <1>12. Answers'
    BY <1>6, <1>7, <1>11 DEF Answers
  <1>13. Bindings'
    <2>1. NotBound
      BY <1>7 DEF NotBound
    <2> HIDE DEF HandshakeInv
    <2> QED BY <1>6, <1>7, <2>1, BindingsKept
  <1> QED BY <1>3, <1>4, <1>8, <1>9, <1>10, <1>12, <1>13

(* A mailbox gets or loses a message that is not a request's. *)
HubCalm ==
    \/ hubq' = hubq
    \/ hubq # <<>> /\ Head(hubq).type \notin ReqTypes /\ hubq' = Tail(hubq)
    \/ \E m \in HubMsg : /\ m.type \notin ReqTypes
                         /\ m.type = "logout" /\ m.uid # None => m.agent # None
                         /\ hubq' = Append(hubq, m)

GateCalm ==
    \/ gateq' = gateq
    \/ gateq # <<>> /\ Head(gateq).type # "register" /\ gateq' = Tail(gateq)
    \/ \E m \in GateMsg : m.type # "register" /\ gateq' = Append(gateq, m)

AgentCalm ==
    \/ agentq' = agentq
    \/ \E a \in Agents : /\ agentq[a] # <<>> /\ Head(agentq[a]).type # "start"
                         /\ agentq' = [agentq EXCEPT ![a] = Tail(@)]
    \/ \E a \in Agents, m \in AgentMsg : /\ m.type # "start"
                                         /\ agentq' = [agentq EXCEPT ![a] = Append(@, m)]

LEMMA HubCalmFacts ==
    ASSUME HandshakeInv, HubCalm
    PROVE  /\ hubq' \in Seq(HubMsg) /\ Once(hubq', ReqTypes) /\ HubR' = HubR
           /\ \A m \in Pending(hubq, {"logout"})' :
                 m \in Pending(hubq, {"logout"}) \/ (m.uid # None => m.agent # None)
  <1>1. CASE hubq' = hubq
    BY <1>1 DEF HandshakeInv, TypeOK, HubTypeOK, Flights, HubR
  <1>2. CASE hubq # <<>> /\ Head(hubq).type \notin ReqTypes /\ hubq' = Tail(hubq)
    BY <1>2, HubTakes, InFlight
  <1>3. ASSUME NEW m \in HubMsg, m.type \notin ReqTypes,
               m.type = "logout" /\ m.uid # None => m.agent # None, hubq' = Append(hubq, m)
        PROVE  /\ hubq' \in Seq(HubMsg) /\ Once(hubq', ReqTypes) /\ HubR' = HubR
               /\ \A n \in Pending(hubq, {"logout"})' :
                     n \in Pending(hubq, {"logout"}) \/ (n.uid # None => n.agent # None)
    <2>1. /\ hubq' \in Seq(HubMsg) /\ Once(hubq', ReqTypes) /\ HubR' = HubR
          /\ Pending(hubq, {"logout"})' =
                IF m.type = "logout" THEN Pending(hubq, {"logout"}) \cup {m}
                ELSE Pending(hubq, {"logout"})
      BY <1>3, HubGets
    <2> QED BY <1>3, <2>1
  <1> QED BY <1>1, <1>2, <1>3 DEF HubCalm

LEMMA GateCalmFacts ==
    ASSUME HandshakeInv, GateCalm
    PROVE  gateq' \in Seq(GateMsg) /\ Once(gateq', {"register"}) /\ GateR' = GateR
  <1>1. CASE gateq' = gateq
    BY <1>1 DEF HandshakeInv, TypeOK, GateTypeOK, Flights, GateR
  <1>2. CASE gateq # <<>> /\ Head(gateq).type # "register" /\ gateq' = Tail(gateq)
    BY <1>2, GateTakes, InFlight
  <1>3. ASSUME NEW m \in GateMsg, m.type # "register", gateq' = Append(gateq, m)
        PROVE  gateq' \in Seq(GateMsg) /\ Once(gateq', {"register"}) /\ GateR' = GateR
    BY <1>3, GateGets
  <1> QED BY <1>1, <1>2, <1>3 DEF GateCalm

LEMMA AgentCalmFacts ==
    ASSUME HandshakeInv, AgentCalm
    PROVE  /\ agentq' \in [Agents -> Seq(AgentMsg)]
           /\ \A a \in Agents : Once(agentq'[a], {"start"}) /\ AgentR(a)' = AgentR(a)
  <1>1. CASE agentq' = agentq
    BY <1>1 DEF HandshakeInv, TypeOK, PoolTypeOK, Flights, AgentR
  <1>2. ASSUME NEW a \in Agents, agentq[a] # <<>>, Head(agentq[a]).type # "start",
               agentq' = [agentq EXCEPT ![a] = Tail(@)]
        PROVE  /\ agentq' \in [Agents -> Seq(AgentMsg)]
               /\ \A b \in Agents : Once(agentq'[b], {"start"}) /\ AgentR(b)' = AgentR(b)
    <2>1. /\ agentq' \in [Agents -> Seq(AgentMsg)]
          /\ \A b \in Agents : Once(agentq'[b], {"start"})
          /\ AgentR(a)' = AgentR(a) \ {Head(agentq[a])}
          /\ \A b \in Agents : b # a => AgentR(b)' = AgentR(b)
      BY <1>2, AgentTakes
    <2>2. Head(agentq[a]) \notin AgentR(a)
      BY <1>2, InFlight
    <2>3. AgentR(a)' = AgentR(a)
      BY <2>1, <2>2
    <2> QED BY <2>1, <2>3
  <1>3. ASSUME NEW a \in Agents, NEW m \in AgentMsg, m.type # "start",
               agentq' = [agentq EXCEPT ![a] = Append(@, m)]
        PROVE  /\ agentq' \in [Agents -> Seq(AgentMsg)]
               /\ \A b \in Agents : Once(agentq'[b], {"start"}) /\ AgentR(b)' = AgentR(b)
    <2>1. /\ agentq' \in [Agents -> Seq(AgentMsg)]
          /\ \A b \in Agents : Once(agentq'[b], {"start"})
          /\ AgentR(a)' = AgentR(a)
          /\ \A b \in Agents : b # a => AgentR(b)' = AgentR(b)
      BY <1>3, AgentGets
    <2> QED BY <2>1
  <1> QED BY <1>1, <1>2, <1>3 DEF AgentCalm

(* The types of everything but the mailboxes. *)
OtherTypes ==
    /\ LoginTypeOK
    /\ User_Map \in [Uids -> Logins \cup {None}] /\ FD_Map \subseteq Fds
    /\ sock \in [Fds -> SockState] /\ gs \in [Fds -> {"nil", "true", "false"}]
    /\ DOMAIN connection \subseteq Fds /\ connection \in [DOMAIN connection -> Conn]
    /\ kicking \in [Fds -> Nat] /\ closing \subseteq Fds /\ client_number \in Int
    /\ pool \in Seq(Agents) /\ agent_map \subseteq Agents /\ spawned \in Nat
    /\ saving \in [Agents -> Nat] /\ recycling \in [Agents -> Nat]

LEMMA CalmInv ==
    ASSUME HandshakeInv, HubCalm, GateCalm, AgentCalm, OtherTypes', Granted',
           UNCHANGED <<hs, user, gets, spawning, loading, agentfd>>,
           \A l \in Logins : attempt[l].pc = "200" => attempt'[l].pc = "200",
           \A fd \in DOMAIN connection' :
              \/ connection'[fd] = [uid |-> None, agent |-> None]
              \/ fd \in DOMAIN connection /\ connection'[fd] = connection[fd]
    PROVE  HandshakeInv'
  <1>1. Still
    BY HubCalmFacts, GateCalmFacts, AgentCalmFacts DEF Still
  <1>2. NotBound
    BY HubCalmFacts DEF NotBound
  <1>3. hubq' \in Seq(HubMsg) /\ gateq' \in Seq(GateMsg) /\ agentq' \in [Agents -> Seq(AgentMsg)]
    BY HubCalmFacts, GateCalmFacts, AgentCalmFacts
  <1>4. TypeOK'
    BY <1>3 DEF HandshakeInv, TypeOK, HubTypeOK, GateTypeOK, PoolTypeOK, OtherTypes
  <1> QED BY <1>1, <1>2, <1>4, StillInv

-----------------------------------------------------------------------------
(* The gate *)

(* What the socket tables may become: no connection is bound anew. *)
GateTables ==
    /\ sock' \in [Fds -> SockState] /\ gs' \in [Fds -> {"nil", "true", "false"}]
    /\ DOMAIN connection' \subseteq Fds /\ connection' \in [DOMAIN connection' -> Conn]
    /\ kicking' \in [Fds -> Nat] /\ closing' \subseteq Fds /\ client_number' \in Int
    /\ \A fd \in DOMAIN connection' :
          \/ connection'[fd] = [uid |-> None, agent |-> None]
          \/ fd \in DOMAIN connection /\ connection'[fd] = connection[fd]

LEMMA GateInvLemma ==
    ASSUME HandshakeInv, GateTables, HubCalm, GateCalm,
           UNCHANGED <<User_Map, user, FD_Map, hs>>,
           UNCHANGED <<loginVars, poolVars, agentVars>>
    PROVE  HandshakeInv'
  <1>1. OtherTypes' /\ Granted'
    BY DEF HandshakeInv, TypeOK, HubTypeOK, PoolTypeOK, LoginTypeOK, GateTables, OtherTypes,
           Granted, loginVars, poolVars, agentVars
  <1>2. /\ AgentCalm /\ UNCHANGED <<gets, spawning, loading, agentfd>> /\ attempt' = attempt
    BY DEF AgentCalm, loginVars, poolVars, agentVars
  <1> QED BY <1>1, <1>2, CalmInv DEF GateTables

(* Events and commands of the gate that leave hubd alone. *)
LEMMA GateAloneInv ==
    ASSUME HandshakeInv, UNCHANGED <<loginVars, hubVars, poolVars, agentVars>>,
           \/ \E fd \in Fds : \/ OpenRefused(fd) \/ CloseUnknown(fd)
                              \/ CloseEnd(fd) \/ KickEnd(fd)
           \/ Connected \/ KickUnknown \/ KickRaw
    PROVE  HandshakeInv'
  <1>1. HubCalm /\ UNCHANGED <<User_Map, user, FD_Map, hs>>
    BY DEF HubCalm, hubVars
  <1>2. /\ gateq \in Seq(GateMsg) /\ sock \in [Fds -> SockState]
        /\ gs \in [Fds -> {"nil", "true", "false"}]
        /\ DOMAIN connection \subseteq Fds /\ connection \in [DOMAIN connection -> Conn]
        /\ kicking \in [Fds -> Nat] /\ closing \subseteq Fds /\ client_number \in Int
    BY DEF HandshakeInv, TypeOK, GateTypeOK
  <1>3. gateq # <<>> => Head(gateq).fd \in Fds
    BY GateHead, GateMsgFacts
  <1>4. ASSUME NEW fd \in Fds, OpenRefused(fd) \/ CloseUnknown(fd)
        PROVE  GateTables /\ GateCalm
    <2>1. CASE OpenRefused(fd)
      BY <1>2, <2>1 DEF OpenRefused, GateTables, GateCalm, SockState
    <2>2. CASE CloseUnknown(fd)
      BY <1>2, <2>2 DEF CloseUnknown, GateTables, GateCalm, SockState
    <2> QED BY <1>4, <2>1, <2>2
  <1>5. ASSUME NEW fd \in Fds, CloseEnd(fd) PROVE GateTables /\ GateCalm
    BY <1>2, <1>5 DEF CloseEnd, Drop, GateTables, GateCalm, SockState
  <1>6. ASSUME NEW fd \in Fds, KickEnd(fd) PROVE GateTables /\ GateCalm
    <2>1. kicking[fd] \in Nat /\ kicking[fd] > 0
      BY <1>2, <1>6 DEF KickEnd
    <2>2. kicking[fd] - 1 \in Nat
      BY <2>1
    <2>3. kicking' \in [Fds -> Nat]
      BY <1>2, <1>6, <2>2 DEF KickEnd
    <2>4. sock' \in [Fds -> SockState] /\ gs' \in [Fds -> {"nil", "true", "false"}]
      BY <1>2, <1>6 DEF KickEnd, CloseClient, SockState
    <2> QED BY <1>2, <1>6, <2>3, <2>4 DEF KickEnd, Drop, GateTables, GateCalm
  <1>7. CASE Connected
    BY <1>1, <1>2, <1>3, <1>7, GateInvLemma DEF Connected, GateHas, GateTables, GateCalm,
       SockState, Conn
  <1>8. CASE KickUnknown
    BY <1>1, <1>2, <1>8, GateInvLemma DEF KickUnknown, GateHas, GateTables, GateCalm
  <1>9. CASE KickRaw
    BY <1>1, <1>2, <1>3, <1>9, GateInvLemma DEF KickRaw, GateHas, Drop, CloseClient,
       GateTables, GateCalm, SockState
  <1>10. ASSUME GateTables, GateCalm PROVE HandshakeInv'
    BY <1>1, <1>10, GateInvLemma
  <1> QED BY <1>4, <1>5, <1>6, <1>7, <1>8, <1>9, <1>10

(* A new socket is announced to hubd. *)
LEMMA GateOpenInv ==
    ASSUME HandshakeInv, NEW fd \in Fds, GateOpen(fd)
    PROVE  HandshakeInv'
  <1>1. GateTables /\ GateCalm
    BY DEF HandshakeInv, TypeOK, GateTypeOK, GateOpen, Open, GateTables, GateCalm, SockState
  <1>2. HubCalm
    <2>1. PICK m \in HubMsg : m = [type |-> "connect", fd |-> fd]
      BY DEF HubMsg
    <2> QED BY <2>1 DEF GateOpen, HubRecv, HubCalm, ReqTypes
  <1> QED BY <1>1, <1>2, GateInvLemma DEF GateOpen, HubRecv

(* The logout of a connection names the agent that goes with its uid. *)
LEMMA LogoutCalm ==
    ASSUME HandshakeInv, NEW fd \in DOMAIN connection, HubRecv(LogoutMsg(fd))
    PROVE  HubCalm /\ UNCHANGED <<User_Map, user, FD_Map, hs>>
  <1>1. fd \in Fds /\ connection[fd] \in Conn
    BY DEF HandshakeInv, TypeOK, GateTypeOK
  <1>2. PICK m \in HubMsg : m = LogoutMsg(fd)
    BY <1>1 DEF HubMsg, LogoutMsg, Conn
  <1>3. m.type = "logout" /\ (m.uid # None => m.agent # None)
    BY <1>2 DEF LogoutMsg, HandshakeInv, Bindings
  <1> QED BY <1>2, <1>3 DEF HubRecv, HubCalm, ReqTypes

LEMMA GateCloseBeginInv ==
    ASSUME HandshakeInv, NEW fd \in Fds, GateCloseBegin(fd)
    PROVE  HandshakeInv'
  <1>1. GateTables /\ GateCalm /\ fd \in DOMAIN connection
    BY DEF HandshakeInv, TypeOK, GateTypeOK, GateCloseBegin, CloseBegin, GateTables, GateCalm,
           SockState
  <1>2. HubCalm /\ UNCHANGED <<User_Map, user, FD_Map, hs>>
    BY <1>1, LogoutCalm DEF GateCloseBegin
  <1> QED BY <1>1, <1>2, GateInvLemma DEF GateCloseBegin

LEMMA GateKickBeginInv ==
    ASSUME HandshakeInv, GateKickBegin
    PROVE  HandshakeInv'
  <1> DEFINE fd == Head(gateq).fd
  <1>1. fd \in DOMAIN connection
    BY DEF GateKickBegin, KickBegin
  <1>2. GateTables /\ GateCalm
    <2>1. /\ kicking' = [kicking EXCEPT ![fd] = @ + 1]
          /\ UNCHANGED <<sock, gs, connection, closing, client_number>>
          /\ gateq # <<>> /\ Head(gateq).type = "kick" /\ gateq' = Tail(gateq)
      BY DEF GateKickBegin, KickBegin, GateHas
    <2> HIDE DEF fd
    <2>2. kicking \in [Fds -> Nat] /\ DOMAIN connection \subseteq Fds
      BY DEF HandshakeInv, TypeOK, GateTypeOK
    <2>3. fd \in Fds /\ kicking[fd] + 1 \in Nat
      BY <1>1, <2>2
    <2>4. kicking' \in [Fds -> Nat]
      BY <2>1, <2>2, <2>3
    <2> QED BY <2>1, <2>4 DEF HandshakeInv, TypeOK, GateTypeOK, GateTables, GateCalm
  <1>3. HubRecv(LogoutMsg(fd))
    BY DEF GateKickBegin
  <1> HIDE DEF fd
  <1>4. HubCalm /\ UNCHANGED <<User_Map, user, FD_Map, hs>>
    BY <1>1, <1>3, LogoutCalm
  <1> QED BY <1>2, <1>4, GateInvLemma DEF GateKickBegin

-----------------------------------------------------------------------------
(* hubd, where no handshake is served *)

LEMMA HubInvLemma ==
    ASSUME HandshakeInv, HubCalm, GateCalm, AgentCalm, UNCHANGED <<hs, user>>,
           User_Map' \in [Uids -> Logins \cup {None}], FD_Map' \subseteq Fds,
           UNCHANGED <<sock, gs, connection, kicking, closing, client_number>>,
           UNCHANGED <<poolVars, agentfd, loading, saving, recycling>>,
           UNCHANGED loginVars \/ \E S \in SUBSET Uids : SendLogouts(S)
    PROVE  HandshakeInv'
  <1>1. /\ LoginTypeOK' /\ Granted'
        /\ \A l \in Logins : attempt[l].pc = "200" => attempt'[l].pc = "200"
    BY LoginTypes DEF HandshakeInv
  <1>2. OtherTypes'
    BY <1>1 DEF HandshakeInv, TypeOK, GateTypeOK, PoolTypeOK, OtherTypes, poolVars
  <1> QED BY <1>1, <1>2, CalmInv DEF poolVars

LEMMA HubDoConnectInv ==
    ASSUME HandshakeInv, HubDoConnect
    PROVE  HandshakeInv'
  <1>1. /\ hubq # <<>> /\ Head(hubq).type = "connect" /\ hubq' = Tail(hubq)
        /\ FD_Map' = FD_Map \cup {Head(hubq).fd} /\ UNCHANGED <<User_Map, user, hs>>
        /\ gateq' = Append(gateq, [type |-> "connected", fd |-> Head(hubq).fd])
        /\ UNCHANGED <<sock, gs, connection, kicking, closing, client_number>>
        /\ UNCHANGED <<loginVars, poolVars, agentVars>>
    BY DEF HubDoConnect, HubConnect, HubHas, GateRecv
  <1>2. Head(hubq).fd \in Fds
    BY <1>1, HubHead, HubMsgFacts
  <1>3. HubCalm /\ AgentCalm
    BY <1>1 DEF HubCalm, AgentCalm, ReqTypes, agentVars
  <1>4. GateCalm
    <2>1. PICK m \in GateMsg : m = [type |-> "connected", fd |-> Head(hubq).fd]
      BY <1>2 DEF GateMsg
    <2> QED BY <1>1, <2>1 DEF GateCalm
  <1>5. User_Map' \in [Uids -> Logins \cup {None}] /\ FD_Map' \subseteq Fds
    BY <1>1, <1>2 DEF HandshakeInv, TypeOK, HubTypeOK
  <1> QED BY <1>1, <1>3, <1>4, <1>5, HubInvLemma DEF agentVars

(* A logout that has a uid also has an agent: the agent exists. *)
LEMMA HubDoLogoutInv ==
    ASSUME HandshakeInv, HubDoLogout
    PROVE  HandshakeInv'
  <1>1. PICK m : m = Head(hubq)
    OBVIOUS
  <1>2. /\ hubq # <<>> /\ m.type = "logout" /\ m.uid # None /\ hubq' = Tail(hubq)
        /\ User_Map' = [User_Map EXCEPT ![m.uid] = None] /\ UNCHANGED <<user, FD_Map, hs>>
        /\ agentq' = [agentq EXCEPT ![m.agent] = Append(@, [type |-> "logout"])]
        /\ UNCHANGED <<poolVars, agentfd, loading, saving, recycling>>
        /\ SendLogouts({m.uid}) /\ UNCHANGED gateVars
    BY <1>1 DEF HubDoLogout, HubLogout, HubHas, AgentRecv
  <1>3. m \in HubMsg /\ m \in Pending(hubq, {"logout"})
    BY <1>1, <1>2, HubHead
  <1>4. m.uid \in Uids /\ m.agent \in Agents
    BY <1>2, <1>3, HubMsgFacts DEF HandshakeInv, Bindings
  <1>5. HubCalm /\ GateCalm
    BY <1>1, <1>2 DEF HubCalm, GateCalm, ReqTypes, gateVars
  <1>6. AgentCalm
    <2>1. PICK n \in AgentMsg : n = [type |-> "logout"]
      BY DEF AgentMsg
    <2> QED BY <1>2, <1>4, <2>1 DEF AgentCalm
  <1>7. User_Map' \in [Uids -> Logins \cup {None}] /\ FD_Map' \subseteq Fds
    BY <1>2 DEF HandshakeInv, TypeOK, HubTypeOK
  <1>8. \E S \in SUBSET Uids : SendLogouts(S)
    BY <1>2, <1>4
  <1> QED BY <1>2, <1>5, <1>6, <1>7, <1>8, HubInvLemma DEF gateVars

LEMMA HubDoForgetInv ==
    ASSUME HandshakeInv, HubDoForget
    PROVE  HandshakeInv'
  <1>1. /\ HubCalm /\ GateCalm /\ AgentCalm
        /\ User_Map' \in [Uids -> Logins \cup {None}] /\ FD_Map' \subseteq Fds
    BY DEF HubDoForget, HubForget, HubHas, HubCalm, GateCalm, AgentCalm, ReqTypes, gateVars,
           agentVars, HandshakeInv, TypeOK, HubTypeOK
  <1> QED BY <1>1, HubInvLemma DEF HubDoForget, HubForget, gateVars, agentVars

(* The kick goes to the socket of the user object, if there is one. *)
LEMMA HubDoKickInv ==
    ASSUME HandshakeInv, HubDoKick
    PROVE  HandshakeInv'
  <1>1. PICK fd : fd = KickFd(Head(hubq).uid)
    OBVIOUS
  <1>2. /\ hubq # <<>> /\ Head(hubq).type = "kick" /\ hubq' = Tail(hubq)
        /\ UNCHANGED <<User_Map, user, FD_Map, hs>> /\ UNCHANGED <<loginVars, poolVars, agentVars>>
        /\ IF fd = None THEN UNCHANGED gateVars
           ELSE GateRecv([type |-> "kick", fd |-> fd, raw |-> FALSE])
    BY <1>1 DEF HubDoKick, HubKick, HubHas
  <1>3. Head(hubq).uid \in Uids
    BY <1>2, HubHead, HubMsgFacts
  <1>4. fd \in Fds \cup {None}
    BY <1>1, <1>3 DEF KickFd, HandshakeInv, TypeOK, HubTypeOK
  <1>5. HubCalm /\ AgentCalm
    BY <1>2 DEF HubCalm, AgentCalm, ReqTypes, agentVars
  <1>6. GateCalm /\ UNCHANGED <<sock, gs, connection, kicking, closing, client_number>>
    <2>1. CASE fd = None
      BY <1>2, <2>1 DEF GateCalm, gateVars
    <2>2. CASE fd # None
      <3>1. PICK m \in GateMsg : m = [type |-> "kick", fd |-> fd, raw |-> FALSE]
        BY <1>4, <2>2 DEF GateMsg
      <3> QED BY <1>2, <2>2, <3>1 DEF GateCalm, GateRecv
    <2> QED BY <2>1, <2>2
  <1>7. User_Map' \in [Uids -> Logins \cup {None}] /\ FD_Map' \subseteq Fds
    BY <1>2 DEF HandshakeInv, TypeOK, HubTypeOK
  <1> QED BY <1>2, <1>5, <1>6, <1>7, HubInvLemma DEF agentVars

LEMMA TimeoutInv ==
    ASSUME HandshakeInv, NEW S \in SUBSET Uids, Timeout(S)
    PROVE  HandshakeInv'
  <1>1. HubCalm /\ GateCalm /\ AgentCalm
    BY DEF Timeout, Reap, HubCalm, GateCalm, AgentCalm, gateVars, agentVars
  <1>2. User_Map' \in [Uids -> Logins \cup {None}] /\ FD_Map' \subseteq Fds
    BY DEF Timeout, Reap, HandshakeInv, TypeOK, HubTypeOK
  <1> QED BY <1>1, <1>2, HubInvLemma DEF Timeout, Reap, gateVars, agentVars

-----------------------------------------------------------------------------
(* The pool and the agents, where no handshake is served *)

LEMMA AgentRestInv ==
    ASSUME HandshakeInv, NEW a \in Agents,
           \/ AgentDoLogout(a) \/ AgentDoSaved(a) \/ AgentDoSaveRaised(a)
           \/ PoolRecycle(a)
    PROVE  HandshakeInv'
  <1>1. /\ UNCHANGED <<loginVars, hubVars, gateVars>>
        /\ UNCHANGED <<gets, spawning, loading, agentfd, spawned>>
    BY DEF AgentDoLogout, AgentLogout, AgentDoSaved, AgentSaved, AgentDoSaveRaised,
       AgentSaveRaised, PoolRecycle, Recycle, poolVars
  <1>2. /\ saving \in [Agents -> Nat] /\ recycling \in [Agents -> Nat]
        /\ pool \in Seq(Agents) /\ agent_map \subseteq Agents
    BY DEF HandshakeInv, TypeOK, PoolTypeOK
  <1>3. /\ AgentCalm /\ saving' \in [Agents -> Nat] /\ recycling' \in [Agents -> Nat]
        /\ pool' \in Seq(Agents) /\ agent_map' \subseteq Agents
    <2>1. CASE AgentDoLogout(a)
      <3>1. saving[a] + 1 \in Nat
        BY <1>2
      <3>2. saving' \in [Agents -> Nat]
        BY <1>2, <2>1, <3>1 DEF AgentDoLogout, AgentLogout
      <3> QED BY <1>2, <2>1, <3>2 DEF AgentDoLogout, AgentLogout, AgentHas, AgentCalm, poolVars
    <2>2. CASE AgentDoSaved(a)
      <3>1. saving[a] - 1 \in Nat /\ recycling[a] + 1 \in Nat /\ recycling[a] \in Nat
        BY <1>2, <2>2 DEF AgentDoSaved, AgentSaved
      <3>2. saving' \in [Agents -> Nat] /\ recycling' \in [Agents -> Nat]
        BY <1>2, <2>2, <3>1 DEF AgentDoSaved, AgentSaved
      <3> QED BY <1>2, <2>2, <3>2 DEF AgentDoSaved, AgentSaved, AgentCalm, poolVars
    <2>4. CASE AgentDoSaveRaised(a)
      <3>1. saving[a] - 1 \in Nat
        BY <1>2, <2>4 DEF AgentDoSaveRaised, AgentSaveRaised
      <3>2. saving' \in [Agents -> Nat]
        BY <1>2, <2>4, <3>1 DEF AgentDoSaveRaised, AgentSaveRaised
      <3> QED BY <1>2, <2>4, <3>2 DEF AgentDoSaveRaised, AgentSaveRaised, AgentCalm, poolVars
    <2>3. CASE PoolRecycle(a)
      <3>1. recycling[a] - 1 \in Nat
        BY <1>2, <2>3 DEF PoolRecycle, Recycle
      <3>2. recycling' \in [Agents -> Nat]
        BY <1>2, <2>3, <3>1 DEF PoolRecycle, Recycle
      <3>3. Append(pool, a) \in Seq(Agents)
        BY <1>2, AppendFacts
      <3> QED BY <1>2, <2>3, <3>2, <3>3 DEF PoolRecycle, Recycle, AgentCalm
    <2> QED BY <2>1, <2>2, <2>3, <2>4
  <1>4. HubCalm /\ GateCalm /\ UNCHANGED <<hs, user, connection, attempt>>
    BY <1>1 DEF HubCalm, GateCalm, hubVars, gateVars, loginVars
  <1>5. OtherTypes' /\ Granted'
    BY <1>1, <1>3 DEF HandshakeInv, TypeOK, LoginTypeOK, HubTypeOK, GateTypeOK, PoolTypeOK,
       OtherTypes, Granted, loginVars, hubVars, gateVars
  <1> QED BY <1>1, <1>3, <1>4, <1>5, CalmInv

-----------------------------------------------------------------------------
(* Steps that move one request on *)

(* What Flights, Answers and Presented say of the request r. *)
Lone(r) ==
    /\ \A m \in HubR : m.req = r =>
          /\ r \notin gets
          /\ \A w \in spawning : w.req # r
          /\ \A c \in loading : c.req # r
          /\ \A n \in GateR : n.req # r
          /\ \A a \in Agents : \A n \in AgentR(a) : n.req # r
    /\ \A w \in spawning : w.req = r => /\ r \notin gets
                                        /\ \A v \in spawning : v.req = r => v = w
    /\ \A c \in loading : c.req = r => \A a \in Agents : \A n \in AgentR(a) : n.req # r

Right(r) ==
    /\ \A m \in HubR : m.req = r =>
          /\ hs[r].pc = Awaits(m.type)
          /\ m.type = "started" => agentfd[UserOf(r).agent] # None
    /\ r \in gets => hs[r].pc = "get"
    /\ \A w \in spawning : w.req = r => hs[r].pc = "get"
    /\ \A a \in Agents : \A m \in AgentR(a) : m.req = r =>
          hs[r].pc = "start" /\ UserOf(r).agent = a
    /\ \A c \in loading : c.req = r =>
          /\ hs[r].pc = "start" /\ UserOf(r).agent = c.agent
          /\ agentfd[c.agent] # None
    /\ \A m \in GateR : m.req = r =>
          /\ hs[r].pc = "register" /\ hs[r].fd = m.fd
          /\ UserOf(r).uid = m.uid /\ UserOf(r).agent = m.agent
          /\ agentfd[m.agent] # None

Knows(r) ==
    hs[r].pc # "none" =>
        /\ hs[r].fd \in Fds /\ hs[r].tok \in Logins /\ hs[r].uid \in Uids
        /\ attempt[hs[r].tok].pc = "200"
        /\ hs[r].pc \in {"get", "start", "register", "done"} => UserOf(r).conn # None
        /\ hs[r].pc \in {"start", "register", "done"} => UserOf(r).agent # None

(* Only r is moved: nothing appears for another request, and the user     *)
(* object such a request works on keeps what it relies on.                *)
Moves(r) ==
    /\ attempt' = attempt
    /\ \A q \in Requests : q # r => hs'[q] = hs[q]
    /\ \A a \in Agents : agentfd[a] # None => agentfd'[a] # None
    /\ \A l \in Logins : /\ user'[l].uid = user[l].uid
                         /\ user[l].conn # None => user'[l].conn # None
    /\ \A q \in Requests : q # r /\ hs[q].pc \in {"start", "register", "done"} =>
          UserOf(q)'.agent = UserOf(q).agent
    /\ \A m \in HubR' : m \in HubR \/ m.req = r
    /\ \A m \in GateR' : m \in GateR \/ m.req = r
    /\ \A a \in Agents : \A m \in AgentR(a)' : m \in AgentR(a) \/ m.req = r
    /\ \A q \in gets' : q \in gets \/ q = r
    /\ \A w \in spawning' : w \in spawning \/ w.req = r
    /\ \A c \in loading' : c \in loading \/ c.req = r
    /\ Once(hubq', ReqTypes) /\ Once(gateq', {"register"})
    /\ \A a \in Agents : Once(agentq'[a], {"start"})

LEMMA MovesInv ==
    ASSUME HandshakeInv, NEW r \in Requests, Moves(r), TypeOK', Granted', Knows(r)',
           OneAgentPerToken', Lone(r)', Right(r)', Bindings'
    PROVE  HandshakeInv'
  <1> USE DEF HandshakeInv
  <1>0. \A q \in Requests : hs[q].pc # "none" => hs[q].tok \in Logins
    BY DEF Presented
  <1>1. Presented'
    <2> SUFFICES ASSUME NEW q \in Requests PROVE Knows(q)'
      BY DEF Presented, Knows
    <2>1. CASE q # r
      <3>1. Knows(q) /\ hs'[q] = hs[q] /\ attempt' = attempt
        BY <2>1 DEF Moves, Presented, Knows
      <3>2. hs[q].pc \in {"get", "start", "register", "done"} => UserOf(q)'.conn # None
        BY <3>1 DEF Moves, Knows, UserOf
      <3>3. hs[q].pc \in {"start", "register", "done"} => UserOf(q)'.agent # None
        BY <2>1, <3>1 DEF Moves, Knows
      <3> QED BY <3>1, <3>2, <3>3 DEF Knows
    <2> QED BY <2>1
  <1>2. Flights'
    <2>1. ASSUME NEW q \in Requests PROVE Lone(q)'
      <3>1. CASE q # r
        <4>1. Lone(q)
          BY DEF Flights, Lone
        <4> QED BY <3>1, <4>1 DEF Moves, Lone
      <3> QED BY <3>1
    <2>2. /\ \A m \in HubR' : m.req \in Requests
          /\ \A w \in spawning' : w.req \in Requests
          /\ \A c \in loading' : c.req \in Requests
      BY InFlight DEF Moves
    <2> QED BY <2>1, <2>2 DEF Flights, Lone, Moves
  <1>3. Answers'
    <2>1. ASSUME NEW q \in Requests PROVE Right(q)'
      <3>1. CASE q # r
        <4>1. Right(q) /\ hs'[q] = hs[q]
          BY <3>1 DEF Answers, Right, Moves
        <4>2. hs[q].pc # "none" => UserOf(q)'.uid = UserOf(q).uid
          BY <1>0, <4>1 DEF Moves, UserOf
        <4>3. hs[q].pc \in {"start", "register"} => /\ UserOf(q)'.agent = UserOf(q).agent
                                                    /\ UserOf(q).agent \in Agents
          BY <3>1 DEF Moves, Presented, UserOf, TypeOK, HubTypeOK
        <4>4. \A m \in HubR' : m.req = q =>
                 /\ hs'[q].pc = Awaits(m.type)
                 /\ m.type = "started" => agentfd'[UserOf(q)'.agent] # None
          <5> SUFFICES ASSUME NEW m \in HubR', m.req = q
                       PROVE  /\ hs'[q].pc = Awaits(m.type)
                              /\ m.type = "started" => agentfd'[UserOf(q)'.agent] # None
            OBVIOUS
          <5>1. m \in HubR
            BY <3>1 DEF Moves
          <5>2. hs[q].pc = Awaits(m.type) /\ (m.type = "started" => agentfd[UserOf(q).agent] # None)
            BY <4>1, <5>1 DEF Right
          <5>3. m.type = "started" => hs[q].pc = "start"
            BY <5>2 DEF Awaits
          <5> QED BY <4>1, <4>3, <5>2, <5>3 DEF Moves
        <4>5. /\ q \in gets' => hs'[q].pc = "get"
              /\ \A w \in spawning' : w.req = q => hs'[q].pc = "get"
              /\ \A a \in Agents : \A m \in AgentR(a)' : m.req = q =>
                    hs'[q].pc = "start" /\ UserOf(q)'.agent = a
          BY <3>1, <4>1, <4>3 DEF Moves, Right
        <4>6. \A c \in loading' : c.req = q =>
                 /\ hs'[q].pc = "start" /\ UserOf(q)'.agent = c.agent
                 /\ agentfd'[c.agent] # None
          BY <3>1, <4>1, <4>3, InFlight DEF Moves, Right
        <4>7. \A m \in GateR' : m.req = q =>
                 /\ hs'[q].pc = "register" /\ hs'[q].fd = m.fd
                 /\ UserOf(q)'.uid = m.uid /\ UserOf(q)'.agent = m.agent
                 /\ agentfd'[m.agent] # None
          BY <3>1, <4>1, <4>2, <4>3, InFlight DEF Moves, Right
        <4> QED BY <4>4, <4>5, <4>6, <4>7 DEF Right
      <3> QED BY <3>1
    <2>2. /\ \A m \in HubR' : m.req \in Requests
          /\ \A m \in GateR' : m.req \in Requests
          /\ \A a \in Agents : \A m \in AgentR(a)' : m.req \in Requests
          /\ \A w \in spawning' : w.req \in Requests
          /\ \A c \in loading' : c.req \in Requests
          /\ gets' \subseteq Requests
      BY InFlight DEF Moves
    <2> QED BY <2>1, <2>2 DEF Answers, Right
  <1> QED BY <1>1, <1>2, <1>3

(* Who carries the request r? *)
NoHub(r) == \A m \in HubR : m.req # r
NoGate(r) == \A m \in GateR : m.req # r
NoAgent(r) == \A a \in Agents : \A m \in AgentR(a) : m.req # r
NoLoad(r) == \A c \in loading : c.req # r
NoPool(r) == r \notin gets /\ \A w \in spawning : w.req # r

LEMMA HubAlone ==
    ASSUME HandshakeInv, NEW m \in HubR
    PROVE  /\ \A n \in HubR : n.req = m.req => n = m
           /\ NoGate(m.req) /\ NoAgent(m.req) /\ NoLoad(m.req) /\ NoPool(m.req)
           /\ hs[m.req].pc = Awaits(m.type) /\ m.req \in Requests
  <1>1. \A n \in HubR : n.req = m.req => n = m
    BY PendingOne DEF HandshakeInv, Flights, HubR
  <1> QED BY <1>1, InFlight
          DEF HandshakeInv, Flights, Answers, NoGate, NoAgent, NoLoad, NoPool

LEMMA PoolAlone ==
    ASSUME HandshakeInv, NEW r \in Requests, r \in gets \/ \E w \in spawning : w.req = r
    PROVE  NoHub(r) /\ NoGate(r) /\ NoAgent(r) /\ NoLoad(r) /\ hs[r].pc = "get"
  <1>1. hs[r].pc = "get"
    BY DEF HandshakeInv, Answers
  <1>2. NoHub(r)
    BY DEF HandshakeInv, Flights, NoHub
  <1> QED BY <1>1, <1>2 DEF HandshakeInv, Answers, NoGate, NoAgent, NoLoad

LEMMA AgentAlone ==
    ASSUME HandshakeInv, NEW a \in Agents, NEW m \in AgentR(a)
    PROVE  /\ \A b \in Agents : \A n \in AgentR(b) : n.req = m.req => n = m /\ b = a
           /\ NoHub(m.req) /\ NoGate(m.req) /\ NoLoad(m.req) /\ NoPool(m.req)
           /\ hs[m.req].pc = "start" /\ UserOf(m.req).agent = a /\ m.req \in Requests
  <1>1. hs[m.req].pc = "start" /\ UserOf(m.req).agent = a /\ m.req \in Requests
    BY InFlight DEF HandshakeInv, Answers
  <1>2. NoHub(m.req) /\ NoLoad(m.req)
    BY DEF HandshakeInv, Flights, NoHub, NoLoad
  <1>3. NoGate(m.req) /\ NoPool(m.req)
    BY <1>1 DEF HandshakeInv, Answers, NoGate, NoPool
  <1>4. ASSUME NEW b \in Agents, NEW n \in AgentR(b), n.req = m.req PROVE n = m /\ b = a
    <2>1. b = a
      BY <1>1, <1>4 DEF HandshakeInv, Answers
    <2>2. n = m
      BY <1>4, <2>1, PendingOne DEF HandshakeInv, Flights, AgentR
    <2> QED BY <2>1, <2>2
  <1> QED BY <1>1, <1>2, <1>3, <1>4

LEMMA LoadAlone ==
    ASSUME HandshakeInv, NEW c \in loading
    PROVE  /\ \A d \in loading : d.req = c.req => d = c
           /\ NoHub(c.req) /\ NoGate(c.req) /\ NoAgent(c.req) /\ NoPool(c.req)
           /\ hs[c.req].pc = "start" /\ UserOf(c.req).agent = c.agent
           /\ agentfd[c.agent] # None /\ c.req \in Requests /\ c.agent \in Agents
  <1>1. /\ hs[c.req].pc = "start" /\ UserOf(c.req).agent = c.agent /\ agentfd[c.agent] # None
        /\ c.req \in Requests /\ c.agent \in Agents
    BY InFlight DEF HandshakeInv, Answers
  <1>2. NoHub(c.req) /\ NoAgent(c.req)
    BY DEF HandshakeInv, Flights, NoHub, NoAgent
  <1>3. NoGate(c.req) /\ NoPool(c.req)
    BY <1>1 DEF HandshakeInv, Answers, NoGate, NoPool
  <1>4. ASSUME NEW d \in loading, d.req = c.req PROVE d = c
    <2>1. d.agent = c.agent
      BY <1>1, <1>4 DEF HandshakeInv, Answers
    <2>2. c \in [req: Requests, agent: Agents] /\ d \in [req: Requests, agent: Agents]
      BY <1>4 DEF HandshakeInv, TypeOK, PoolTypeOK
    <2> QED BY <1>4, <2>1, <2>2
  <1> QED BY <1>1, <1>2, <1>3, <1>4

LEMMA GateAlone ==
    ASSUME HandshakeInv, NEW m \in GateR
    PROVE  /\ \A n \in GateR : n.req = m.req => n = m
           /\ NoHub(m.req) /\ NoAgent(m.req) /\ NoLoad(m.req) /\ NoPool(m.req)
           /\ hs[m.req].pc = "register" /\ m.req \in Requests
  <1>1. \A n \in GateR : n.req = m.req => n = m
    BY PendingOne DEF HandshakeInv, Flights, GateR
  <1>2. hs[m.req].pc = "register" /\ m.req \in Requests
    BY InFlight DEF HandshakeInv, Answers
  <1>3. NoHub(m.req)
    BY DEF HandshakeInv, Flights, NoHub
  <1> QED BY <1>1, <1>2, <1>3 DEF HandshakeInv, Answers, NoAgent, NoLoad, NoPool

LEMMA IdleAlone ==
    ASSUME HandshakeInv, NEW r \in Requests,
           hs[r].pc \notin {"sent", "get", "start", "register"}
    PROVE  NoHub(r) /\ NoGate(r) /\ NoAgent(r) /\ NoLoad(r) /\ NoPool(r)
  BY InFlight DEF HandshakeInv, Answers, NoHub, NoGate, NoAgent, NoLoad, NoPool

(* A step that binds nothing keeps the bindings. *)
LEMMA MovesBindings ==
    ASSUME HandshakeInv, NEW r \in Requests, Moves(r), connection' = connection,
           hs[r].pc \notin {"register", "done"},
           \A m \in HubR : m.req # r => m \in HubR',
           \A m \in Pending(hubq, {"logout"})' : m \in Pending(hubq, {"logout"})
    PROVE  Bindings'
  <1>1. NotBound
    BY DEF NotBound
  <1>2. \A q \in Requests : hs[q].pc \in {"register", "done"} =>
          /\ q # r /\ hs'[q] = hs[q] /\ UserOf(q)'.agent = UserOf(q).agent
          /\ UserOf(q)'.uid = UserOf(q).uid
    BY DEF Moves, HandshakeInv, Presented, UserOf
  <1>3. \A q \in Requests : [type |-> "registered", req |-> q, res |-> TRUE] \in HubR =>
          [type |-> "registered", req |-> q, res |-> TRUE] \in HubR'
    <2> SUFFICES ASSUME NEW q \in Requests, NEW m \in HubR,
                        m = [type |-> "registered", req |-> q, res |-> TRUE]
                 PROVE  m \in HubR'
      OBVIOUS
    <2>1. hs[m.req].pc = "register"
      BY HubAlone DEF Awaits
    <2> QED BY <2>1
  <1> QED BY <1>1, <1>2, <1>3, BindingsKept DEF Moves

(* hubd takes the answer m of request r: what is left. *)
LEMMA HubAnswer ==
    ASSUME HandshakeInv, hubq # <<>>, Head(hubq).type \in ReqTypes, hubq' = Tail(hubq),
           NEW r, r = Head(hubq).req
    PROVE  /\ r \in Requests /\ hs[r].pc = Awaits(Head(hubq).type)
           /\ hubq' \in Seq(HubMsg) /\ Once(hubq', ReqTypes)
           /\ \A m \in HubR' : m \in HubR /\ m.req # r
           /\ \A m \in HubR : m = Head(hubq) \/ (m \in HubR' /\ m.req # r)
           /\ \A m \in Pending(hubq, {"logout"})' : m \in Pending(hubq, {"logout"})
           /\ NoGate(r) /\ NoAgent(r) /\ NoLoad(r) /\ NoPool(r)
           /\ Knows(r) /\ hs[r].tok \in Logins
  <1>1. Head(hubq) \in HubR
    BY HubHead
  <1>2. /\ hubq' \in Seq(HubMsg) /\ Once(hubq', ReqTypes) /\ HubR' = HubR \ {Head(hubq)}
        /\ Pending(hubq, {"logout"})' \subseteq Pending(hubq, {"logout"})
    BY HubTakes
  <1>3. PICK m \in HubR : m = Head(hubq)
    BY <1>1
  <1>4. /\ \A n \in HubR : n.req = r => n = m
        /\ NoGate(r) /\ NoAgent(r) /\ NoLoad(r) /\ NoPool(r)
        /\ hs[r].pc = Awaits(m.type) /\ r \in Requests
    BY <1>3, HubAlone
  <1>5. Knows(r) /\ hs[r].pc # "none"
    BY <1>4 DEF HandshakeInv, Presented, Knows, Awaits
  <1> QED BY <1>2, <1>3, <1>4, <1>5 DEF Knows

(* hubd ends a handshake, or hands it back to hub_slave. *)
LEMMA HubEnds ==
    ASSUME HandshakeInv, hubq # <<>>, Head(hubq).type \in ReqTypes, hubq' = Tail(hubq),
           NEW r, r = Head(hubq).req, NEW p \in Outcome \cup {"unauthorized"}, HsTo(r, p),
           Head(hubq).type # "registered" => p # "done",
           Head(hubq).type = "registered" => (Head(hubq).res => p = "done"),
           UNCHANGED <<user, User_Map>>, FD_Map' \subseteq Fds, GateCalm,
           UNCHANGED <<sock, gs, connection, kicking, closing, client_number>>,
           UNCHANGED <<loginVars, poolVars, agentVars>>
    PROVE  HandshakeInv'
  <1>1. /\ r \in Requests /\ hs[r].pc = Awaits(Head(hubq).type)
        /\ hubq' \in Seq(HubMsg) /\ Once(hubq', ReqTypes)
        /\ \A m \in HubR' : m \in HubR /\ m.req # r
        /\ \A m \in HubR : m = Head(hubq) \/ (m \in HubR' /\ m.req # r)
        /\ \A m \in Pending(hubq, {"logout"})' : m \in Pending(hubq, {"logout"})
        /\ NoGate(r) /\ NoAgent(r) /\ NoLoad(r) /\ NoPool(r)
        /\ Knows(r) /\ hs[r].tok \in Logins
    BY HubAnswer
  <1>2. gateq' \in Seq(GateMsg) /\ Once(gateq', {"register"}) /\ GateR' = GateR
    BY GateCalmFacts
  <1>3. /\ hs' = [hs EXCEPT ![r].pc = p] /\ p \in HsPc
        /\ p \notin {"sent", "get", "start", "register", "none"}
    BY DEF HsTo, HsPc, Outcome
  <1>4. /\ hs' \in [Requests -> [pc: HsPc, fd: Fds \cup {None}, tok: Logins \cup {None},
                                 uid: Uids \cup {None}]]
        /\ \A q \in Requests : q # r => hs'[q] = hs[q]
        /\ hs'[r].pc = p /\ hs'[r].fd = hs[r].fd /\ hs'[r].tok = hs[r].tok
        /\ hs'[r].uid = hs[r].uid
    BY <1>1, <1>3 DEF HandshakeInv, TypeOK, HubTypeOK
  <1>5. \A q \in Requests : UserOf(q)' = UserOf(q)
    BY <1>4 DEF UserOf
  <1>6. /\ attempt' = attempt /\ \A a \in Agents : AgentR(a)' = AgentR(a)
        /\ UNCHANGED <<gets, spawning, loading, agentfd, agentq>>
    BY DEF loginVars, poolVars, agentVars, AgentR
  <1>7. TypeOK' /\ Granted'
    BY <1>1, <1>2, <1>4 DEF HandshakeInv, TypeOK, LoginTypeOK, HubTypeOK, GateTypeOK, PoolTypeOK,
       Granted, loginVars, poolVars, agentVars
  <1>8. Moves(r)
    BY <1>1, <1>2, <1>4, <1>5, <1>6 DEF HandshakeInv, Flights, Moves
  <1>9. Knows(r)'
    <2>1. p = "done" => hs[r].pc = "register"
      BY <1>1 DEF Awaits
    <2> QED BY <1>1, <1>3, <1>4, <1>5, <1>6, <2>1 DEF Knows, Awaits
  <1>10. OneAgentPerToken'
    <2>1. \A q \in Requests : hs'[q].pc = "get" => hs[q].pc = "get" /\ hs'[q].tok = hs[q].tok
      BY <1>3, <1>4
    <2> QED BY <2>1 DEF HandshakeInv, OneAgentPerToken
  <1>11. Lone(r)' /\ Right(r)'
    BY <1>1, <1>2, <1>6 DEF Lone, Right, NoGate, NoAgent, NoLoad, NoPool
  <1>12. Bindings'
    <2>1. NotBound
      BY <1>1 DEF NotBound
    <2>2. hs[r].pc # "done"
      BY <1>1 DEF Awaits
    <2>3. \A q \in Requests : hs[q].pc = "done" => hs'[q].pc = "done"
      BY <1>4, <2>2
    <2>4. ASSUME NEW q \in Requests, NEW m \in HubR,
                 m = [type |-> "registered", req |-> q, res |-> TRUE]
          PROVE  hs'[q].pc = "done" \/ m \in HubR'
      <3>1. CASE m = Head(hubq)
        <4>1. q = r /\ Head(hubq).type = "registered" /\ Head(hubq).res
          BY <2>4, <3>1
        <4> QED BY <1>4, <4>1
      <3> QED BY <1>1, <3>1
    <2> QED BY <1>4, <1>5, <1>6, <2>1, <2>3, <2>4, BindingsKept
  <1> QED BY <1>1, <1>7, <1>8, <1>9, <1>10, <1>11, <1>12, MovesInv

(* Answers 1, 2 and 3. *)
LEMMA HubRefusesInv ==
    ASSUME HandshakeInv, NEW r \in Requests, HubRefuses(r) \/ HubRejects(r)
    PROVE  HandshakeInv'
  <1>1. /\ hubq # <<>> /\ Head(hubq).type = "handshake" /\ r = Head(hubq).req
        /\ hubq' = Tail(hubq)
        /\ HsTo(r, "refused") \/ HsTo(r, "unauthorized")
        /\ UNCHANGED <<User_Map, user, FD_Map>>
        /\ UNCHANGED <<loginVars, gateVars, poolVars, agentVars>>
    BY DEF HubRefuses, HandshakeRefused, HubRejects, HandshakeUnauthorized, HubHas
  <1>2. /\ GateCalm /\ UNCHANGED <<sock, gs, connection, kicking, closing, client_number>>
        /\ FD_Map' \subseteq Fds
    BY <1>1 DEF GateCalm, gateVars, HandshakeInv, TypeOK, HubTypeOK
  <1>3. Head(hubq).type \in ReqTypes
    BY <1>1 DEF ReqTypes
  <1>4. ASSUME NEW p \in {"refused", "unauthorized"}, HsTo(r, p) PROVE HandshakeInv'
    <2>1. p \in Outcome \cup {"unauthorized"} /\ p # "done"
      BY DEF Outcome
    <2> QED BY <1>1, <1>2, <1>3, <1>4, <2>1, HubEnds
  <1> QED BY <1>1, <1>4

(* The agent is dead: an error is raised. *)
LEMMA HubStartFailedInv ==
    ASSUME HandshakeInv, HubStartFailed
    PROVE  HandshakeInv'
  <1>1. /\ hubq # <<>> /\ Head(hubq).type = "failed" /\ HsTo(Head(hubq).req, "error")
        /\ hubq' = Tail(hubq) /\ UNCHANGED <<User_Map, user, FD_Map>>
        /\ UNCHANGED <<loginVars, gateVars, poolVars, agentVars>>
    BY DEF HubStartFailed, StartFailed, HubHas
  <1>2. /\ GateCalm /\ UNCHANGED <<sock, gs, connection, kicking, closing, client_number>>
        /\ FD_Map' \subseteq Fds
    BY <1>1 DEF GateCalm, gateVars, HandshakeInv, TypeOK, HubTypeOK
  <1>3. Head(hubq).type \in ReqTypes /\ "error" \in Outcome \cup {"unauthorized"}
    BY <1>1 DEF ReqTypes, Outcome
  <1> QED BY <1>1, <1>2, <1>3, HubEnds

(* The gate's answer ends the handshake. *)
LEMMA HubRegisteredInv ==
    ASSUME HandshakeInv, HubRegistered
    PROVE  HandshakeInv'
  <1>1. PICK p : p = IF Head(hubq).res THEN "done" ELSE "asserted"
    OBVIOUS
  <1>2. /\ hubq # <<>> /\ Head(hubq).type = "registered" /\ HsTo(Head(hubq).req, p)
        /\ hubq' = Tail(hubq) /\ UNCHANGED <<User_Map, user>>
        /\ UNCHANGED <<loginVars, gateVars, poolVars, agentVars>>
    BY <1>1 DEF HubRegistered, Registered, HubHas
  <1>3. /\ GateCalm /\ UNCHANGED <<sock, gs, connection, kicking, closing, client_number>>
        /\ FD_Map' \subseteq Fds
    BY <1>2 DEF GateCalm, gateVars, HubRegistered, Registered, HandshakeInv, TypeOK, HubTypeOK
  <1>4. Head(hubq).type \in ReqTypes /\ p \in Outcome \cup {"unauthorized"}
    BY <1>1, <1>2 DEF ReqTypes, Outcome
  <1> QED BY <1>1, <1>2, <1>3, <1>4, HubEnds

(* hub_slave asks for the kick of a client it turned away. *)
LEMMA HubSlaveKickInv ==
    ASSUME HandshakeInv, NEW r \in Requests, HubSlaveKick(r)
    PROVE  HandshakeInv'
  <1>1. PICK m : m = [type |-> "kick", uid |-> hs[r].uid]
    OBVIOUS
  <1>2. /\ hs[r].pc = "unauthorized" /\ hs' = [hs EXCEPT ![r].pc = "kicked"]
        /\ hubq' = Append(hubq, m) /\ UNCHANGED <<User_Map, user, FD_Map>>
        /\ UNCHANGED <<loginVars, gateVars, poolVars, agentVars>>
    BY <1>1 DEF HubSlaveKick, SlaveKick, HsTo
  <1>3. Knows(r) /\ hs[r].uid \in Uids
    BY <1>2 DEF HandshakeInv, Presented, Knows
  <1>4. m \in HubMsg /\ m.type = "kick"
    BY <1>1, <1>3 DEF HubMsg
  <1>5. /\ hubq' \in Seq(HubMsg) /\ Once(hubq', ReqTypes) /\ HubR' = HubR
        /\ Pending(hubq, {"logout"})' = Pending(hubq, {"logout"})
    BY <1>2, <1>4, HubGets DEF ReqTypes
  <1>6. NoHub(r) /\ NoGate(r) /\ NoAgent(r) /\ NoLoad(r) /\ NoPool(r)
    BY <1>2, IdleAlone
  <1>7. /\ hs' \in [Requests -> [pc: HsPc, fd: Fds \cup {None}, tok: Logins \cup {None},
                                 uid: Uids \cup {None}]]
        /\ \A q \in Requests : q # r => hs'[q] = hs[q]
        /\ hs'[r].pc = "kicked" /\ hs'[r].fd = hs[r].fd /\ hs'[r].tok = hs[r].tok
        /\ hs'[r].uid = hs[r].uid
    BY <1>2 DEF HandshakeInv, TypeOK, HubTypeOK, HsPc, Outcome
  <1>8. \A q \in Requests : UserOf(q)' = UserOf(q)
    BY <1>2, <1>7 DEF UserOf
  <1>9. /\ attempt' = attempt /\ GateR' = GateR /\ \A a \in Agents : AgentR(a)' = AgentR(a)
        /\ UNCHANGED <<gets, spawning, loading, agentfd, agentq, gateq, connection>>
    BY <1>2 DEF loginVars, gateVars, poolVars, agentVars, AgentR, GateR
  <1>10. TypeOK' /\ Granted'
    BY <1>2, <1>5, <1>7 DEF HandshakeInv, TypeOK, LoginTypeOK, HubTypeOK, GateTypeOK, PoolTypeOK,
       Granted, loginVars, gateVars, poolVars, agentVars
  <1>11. Moves(r)
    BY <1>2, <1>5, <1>7, <1>8, <1>9 DEF HandshakeInv, Flights, Moves
  <1>12. Knows(r)'
    BY <1>2, <1>3, <1>7, <1>9 DEF Knows
  <1>13. OneAgentPerToken'
    <2>1. \A q \in Requests : hs'[q].pc = "get" => hs[q].pc = "get" /\ hs'[q].tok = hs[q].tok
      BY <1>7
    <2> QED BY <1>2, <2>1 DEF HandshakeInv, OneAgentPerToken
  <1>14. Lone(r)' /\ Right(r)'
    BY <1>5, <1>6, <1>9 DEF Lone, Right, NoHub, NoGate, NoAgent, NoLoad, NoPool
  <1>15. Bindings'
    BY <1>2, <1>5, <1>9, <1>11, MovesBindings
  <1> QED BY <1>10, <1>11, <1>12, <1>13, <1>14, <1>15, MovesInv

(* A client presents its token. *)
LEMMA ClientHandshakeInv ==
    ASSUME HandshakeInv, NEW r \in Requests, NEW fd \in Fds, NEW l \in Logins,
           ClientHandshake(r, fd, l)
    PROVE  HandshakeInv'
  <1>1. PICK m : m = [type |-> "handshake", req |-> r]
    OBVIOUS
  <1>2. /\ attempt[l].pc = "200" /\ hs[r].pc = "none"
        /\ hs' = [hs EXCEPT ![r] = [pc |-> "sent", fd |-> fd, tok |-> l, uid |-> attempt[l].uid]]
        /\ hubq' = Append(hubq, m) /\ UNCHANGED <<User_Map, user, FD_Map>>
        /\ UNCHANGED <<loginVars, gateVars, poolVars, agentVars>>
    BY <1>1 DEF ClientHandshake, Present
  <1>3. attempt[l].uid \in Uids
    BY <1>2 DEF HandshakeInv, Granted
  <1>4. m \in HubMsg /\ m.type = "handshake" /\ m.req = r
    BY <1>1 DEF HubMsg
  <1>5. NoHub(r) /\ NoGate(r) /\ NoAgent(r) /\ NoLoad(r) /\ NoPool(r)
    BY <1>2, IdleAlone
  <1>6. /\ hubq' \in Seq(HubMsg) /\ Once(hubq', ReqTypes) /\ HubR' = HubR \cup {m}
        /\ Pending(hubq, {"logout"})' = Pending(hubq, {"logout"})
    BY <1>2, <1>4, <1>5, HubGets DEF ReqTypes, NoHub
  <1>7. /\ hs' \in [Requests -> [pc: HsPc, fd: Fds \cup {None}, tok: Logins \cup {None},
                                 uid: Uids \cup {None}]]
        /\ \A q \in Requests : q # r => hs'[q] = hs[q]
        /\ hs'[r].pc = "sent" /\ hs'[r].fd = fd /\ hs'[r].tok = l /\ hs'[r].uid = attempt[l].uid
    BY <1>2, <1>3 DEF HandshakeInv, TypeOK, HubTypeOK, HsPc
  <1>8. \A q \in Requests : q # r => UserOf(q)' = UserOf(q)
    BY <1>2, <1>7 DEF UserOf
  <1>9. /\ attempt' = attempt /\ GateR' = GateR /\ \A a \in Agents : AgentR(a)' = AgentR(a)
        /\ UNCHANGED <<gets, spawning, loading, agentfd, agentq, gateq, connection>>
    BY <1>2 DEF loginVars, gateVars, poolVars, agentVars, AgentR, GateR
  <1>10. TypeOK' /\ Granted'
    BY <1>2, <1>6, <1>7 DEF HandshakeInv, TypeOK, LoginTypeOK, HubTypeOK, GateTypeOK, PoolTypeOK,
       Granted, loginVars, gateVars, poolVars, agentVars
  <1>11. Moves(r)
    BY <1>2, <1>4, <1>6, <1>7, <1>8, <1>9 DEF HandshakeInv, Flights, Moves
  <1>12. Knows(r)'
    BY <1>2, <1>3, <1>7, <1>9 DEF Knows
  <1>13. OneAgentPerToken'
    <2>1. \A q \in Requests : hs'[q].pc = "get" => hs[q].pc = "get" /\ hs'[q].tok = hs[q].tok
      BY <1>7
    <2> QED BY <1>2, <2>1 DEF HandshakeInv, OneAgentPerToken
  <1>14. Lone(r)' /\ Right(r)'
    BY <1>4, <1>5, <1>6, <1>7, <1>9 DEF Lone, Right, Awaits, NoHub, NoGate, NoAgent, NoLoad, NoPool
  <1>15. Bindings'
    BY <1>2, <1>6, <1>9, <1>11, MovesBindings
  <1> QED BY <1>10, <1>11, <1>12, <1>13, <1>14, <1>15, MovesInv

(* A field of a request, or of a user object, is assigned. *)
LEMMA HsToFacts ==
    ASSUME HandshakeInv, NEW r \in Requests, NEW p \in HsPc, hs' = [hs EXCEPT ![r].pc = p]
    PROVE  /\ hs' \in [Requests -> [pc: HsPc, fd: Fds \cup {None}, tok: Logins \cup {None},
                                    uid: Uids \cup {None}]]
           /\ \A q \in Requests : q # r => hs'[q] = hs[q]
           /\ hs'[r].pc = p /\ hs'[r].fd = hs[r].fd /\ hs'[r].tok = hs[r].tok
           /\ hs'[r].uid = hs[r].uid
  BY DEF HandshakeInv, TypeOK, HubTypeOK

UserType ==
    [Logins -> [uid: Uids \cup {None}, conn: Fds \cup {None}, agent: Agents \cup {None}]]

LEMMA UserConnFacts ==
    ASSUME HandshakeInv, NEW l \in Logins, NEW fd \in Fds, user' = [user EXCEPT ![l].conn = fd]
    PROVE  /\ user' \in UserType
           /\ \A k \in Logins : user'[k].uid = user[k].uid /\ user'[k].agent = user[k].agent
           /\ \A k \in Logins : k # l => user'[k] = user[k]
           /\ user'[l].conn = fd
  <1>1. user \in UserType
    BY DEF HandshakeInv, TypeOK, HubTypeOK, UserType
  <1>2. user[l] \in [uid: Uids \cup {None}, conn: Fds \cup {None}, agent: Agents \cup {None}]
    BY <1>1 DEF UserType
  <1>3. \A k \in Logins : user'[k] = IF k = l THEN [user[l] EXCEPT !.conn = fd] ELSE user[k]
    BY <1>1 DEF UserType
  <1>4. /\ [user[l] EXCEPT !.conn = fd] \in
              [uid: Uids \cup {None}, conn: Fds \cup {None}, agent: Agents \cup {None}]
        /\ [user[l] EXCEPT !.conn = fd].conn = fd
        /\ [user[l] EXCEPT !.conn = fd].uid = user[l].uid
        /\ [user[l] EXCEPT !.conn = fd].agent = user[l].agent
    BY <1>2
  <1>5. user' \in UserType
    BY <1>1, <1>4 DEF UserType
  <1> QED BY <1>3, <1>4, <1>5

LEMMA UserAgentFacts ==
    ASSUME HandshakeInv, NEW l \in Logins, NEW a \in Agents,
           user' = [user EXCEPT ![l].agent = a]
    PROVE  /\ user' \in UserType
           /\ \A k \in Logins : user'[k].uid = user[k].uid /\ user'[k].conn = user[k].conn
           /\ \A k \in Logins : k # l => user'[k] = user[k]
           /\ user'[l].agent = a
  <1>1. user \in UserType
    BY DEF HandshakeInv, TypeOK, HubTypeOK, UserType
  <1>2. user[l] \in [uid: Uids \cup {None}, conn: Fds \cup {None}, agent: Agents \cup {None}]
    BY <1>1 DEF UserType
  <1>3. \A k \in Logins : user'[k] = IF k = l THEN [user[l] EXCEPT !.agent = a] ELSE user[k]
    BY <1>1 DEF UserType
  <1>4. /\ [user[l] EXCEPT !.agent = a] \in
              [uid: Uids \cup {None}, conn: Fds \cup {None}, agent: Agents \cup {None}]
        /\ [user[l] EXCEPT !.agent = a].agent = a
        /\ [user[l] EXCEPT !.agent = a].uid = user[l].uid
        /\ [user[l] EXCEPT !.agent = a].conn = user[l].conn
    BY <1>2
  <1>5. user' \in UserType
    BY <1>1, <1>4 DEF UserType
  <1> QED BY <1>3, <1>4, <1>5

(* The first handshake of a token asks for an agent: user.conn was nil, so *)
(* no other handshake of this token has got beyond the checks.             *)
LEMMA HubFirstInv ==
    ASSUME HandshakeInv, NEW r \in Requests, HubFirst(r)
    PROVE  HandshakeInv'
  <1>1. PICK l, fd : l = hs[r].tok /\ fd = hs[r].fd
    OBVIOUS
  <1>2. /\ hubq # <<>> /\ Head(hubq).type = "handshake" /\ r = Head(hubq).req
        /\ user[l].conn = None /\ hubq' = Tail(hubq)
        /\ user' = [user EXCEPT ![l].conn = fd] /\ hs' = [hs EXCEPT ![r].pc = "get"]
        /\ UNCHANGED <<User_Map, FD_Map>>
        /\ gets' = gets \cup {r} /\ UNCHANGED <<pool, agent_map, spawned, spawning, agentVars>>
        /\ UNCHANGED <<loginVars, gateVars>>
    BY <1>1 DEF HubFirst, HandshakeFirst, AskAgent, HubHas, HsTo
  <1>3. /\ hs[r].pc = Awaits(Head(hubq).type)
        /\ hubq' \in Seq(HubMsg) /\ Once(hubq', ReqTypes)
        /\ \A m \in HubR' : m \in HubR /\ m.req # r
        /\ \A m \in HubR : m = Head(hubq) \/ (m \in HubR' /\ m.req # r)
        /\ \A m \in Pending(hubq, {"logout"})' : m \in Pending(hubq, {"logout"})
        /\ NoGate(r) /\ NoAgent(r) /\ NoLoad(r) /\ NoPool(r)
        /\ Knows(r) /\ l \in Logins
    BY <1>1, <1>2, HubAnswer DEF ReqTypes
  <1>4. hs[r].pc = "sent" /\ fd \in Fds
    BY <1>1, <1>2, <1>3 DEF Awaits, Knows
  <1>5. /\ hs' \in [Requests -> [pc: HsPc, fd: Fds \cup {None}, tok: Logins \cup {None},
                                 uid: Uids \cup {None}]]
        /\ \A q \in Requests : q # r => hs'[q] = hs[q]
        /\ hs'[r].pc = "get" /\ hs'[r].fd = hs[r].fd /\ hs'[r].tok = l /\ hs'[r].uid = hs[r].uid
    <2>1. "get" \in HsPc /\ hs' = [hs EXCEPT ![r].pc = "get"]
      BY <1>2 DEF HsPc
    <2> QED BY <1>1, <2>1, HsToFacts
  <1>6. /\ user' \in UserType
        /\ \A k \in Logins : /\ user'[k].uid = user[k].uid /\ user'[k].agent = user[k].agent
                             /\ user[k].conn # None => user'[k].conn # None
        /\ user'[l].conn # None
    <2>1. /\ user' \in UserType
          /\ \A k \in Logins : user'[k].uid = user[k].uid /\ user'[k].agent = user[k].agent
          /\ \A k \in Logins : k # l => user'[k] = user[k]
          /\ user'[l].conn = fd
      BY <1>2, <1>3, <1>4, UserConnFacts
    <2> QED BY <1>4, <2>1, EntitiesAssumption
  <1>7. \A q \in Requests : q # r /\ hs[q].pc # "none" => UserOf(q)'.agent = UserOf(q).agent
    BY <1>5, <1>6 DEF UserOf, HandshakeInv, Presented
  <1>8. /\ attempt' = attempt /\ GateR' = GateR /\ \A a \in Agents : AgentR(a)' = AgentR(a)
        /\ UNCHANGED <<spawning, loading, agentfd, agentq, gateq, connection>>
    BY <1>2 DEF loginVars, gateVars, agentVars, AgentR, GateR
  <1>9. TypeOK'
    BY <1>2, <1>3, <1>5, <1>6, ZenonT(60) DEF HandshakeInv, TypeOK, LoginTypeOK, HubTypeOK, GateTypeOK,
       PoolTypeOK, UserType, loginVars, gateVars, agentVars
  <1>10. Granted'
    BY <1>6, <1>8 DEF HandshakeInv, Granted
  <1>11. Moves(r)
    BY <1>2, <1>3, <1>5, <1>6, <1>7, <1>8 DEF HandshakeInv, Flights, Moves
  <1>12. Knows(r)'
    BY <1>1, <1>3, <1>4, <1>5, <1>6, <1>8 DEF Knows, UserOf
  <1>13. OneAgentPerToken'
    <2>1. \A q \in Requests : q # r /\ hs[q].pc = "get" => hs[q].tok # l /\ hs[q].tok \in Logins
      BY <1>2 DEF HandshakeInv, Presented, UserOf
    <2>2. user'[l].agent = None
      BY <1>2, <1>3, <1>6 DEF HandshakeInv, Granted
    <2>3. ASSUME NEW q \in Requests, hs'[q].pc = "get"
          PROVE  /\ user'[hs'[q].tok].agent = None
                 /\ \A p \in Requests : hs'[p].pc = "get" /\ hs'[p].tok = hs'[q].tok => p = q
      <3>1. CASE q = r
        BY <1>5, <2>1, <2>2, <3>1
      <3>2. CASE q # r
        BY <1>5, <1>6, <2>1, <2>3, <3>2 DEF HandshakeInv, OneAgentPerToken
      <3> QED BY <3>1, <3>2
    <2> QED BY <2>3 DEF OneAgentPerToken
  <1>14. Lone(r)' /\ Right(r)'
    BY <1>2, <1>3, <1>5, <1>8 DEF Lone, Right, NoGate, NoAgent, NoLoad, NoPool
  <1>15. Bindings'
    <2>1. \A m \in HubR : m.req # r => m \in HubR'
      BY <1>2, <1>3
    <2> QED BY <1>3, <1>4, <1>8, <1>11, <2>1, MovesBindings
  <1> QED BY <1>9, <1>10, <1>11, <1>12, <1>13, <1>14, <1>15, MovesInv

(* hubd has the agent a of the request's user started. *)
LEMMA HubStartsAgent ==
    ASSUME HandshakeInv, hubq # <<>>, Head(hubq).type \in {"handshake", "got"},
           hubq' = Tail(hubq), NEW r, r = Head(hubq).req, HsTo(r, "start"),
           NEW l, l = hs[r].tok, user[l].conn # None,
           NEW a \in Agents, user[l].agent = a \/ hs[r].pc = "get", user' \in UserType,
           \A k \in Logins : user'[k].uid = user[k].uid /\ user'[k].conn = user[k].conn,
           \A k \in Logins : k # l => user'[k] = user[k], user'[l].agent = a,
           AgentRecv(a, StartMsg(r)), GateCalm, UNCHANGED <<User_Map, FD_Map>>,
           UNCHANGED <<sock, gs, connection, kicking, closing, client_number>>, UNCHANGED loginVars
    PROVE  HandshakeInv'
  <1>2. /\ r \in Requests /\ hs[r].pc = Awaits(Head(hubq).type)
        /\ hubq' \in Seq(HubMsg) /\ Once(hubq', ReqTypes)
        /\ \A m \in HubR' : m \in HubR /\ m.req # r
        /\ \A m \in HubR : m = Head(hubq) \/ (m \in HubR' /\ m.req # r)
        /\ \A m \in Pending(hubq, {"logout"})' : m \in Pending(hubq, {"logout"})
        /\ NoGate(r) /\ NoAgent(r) /\ NoLoad(r) /\ NoPool(r)
        /\ Knows(r) /\ l \in Logins
    <2>1. Head(hubq).type \in ReqTypes
      BY DEF ReqTypes
    <2> QED BY <2>1, HubAnswer
  <1>3. hs[r].pc \in {"sent", "get"}
    BY <1>2 DEF Awaits
  <1>4. PICK n \in AgentMsg : n = StartMsg(r) /\ n.type = "start" /\ n.req = r
    <2>1. user[l].conn \in Fds
      BY <1>2 DEF HandshakeInv, TypeOK, HubTypeOK
    <2>2. PICK fd \in Fds : fd = user[hs[r].tok].conn
      BY <2>1
    <2>3. StartMsg(r) = [type |-> "start", req |-> r, fd |-> fd]
      BY <2>2 DEF StartMsg
    <2>4. [type |-> "start", req |-> r, fd |-> fd] \in AgentMsg
      BY <1>2 DEF AgentMsg
    <2> QED BY <2>3, <2>4
  <1>5. /\ agentq' = [agentq EXCEPT ![a] = Append(@, n)]
        /\ UNCHANGED <<poolVars, agentfd, loading, saving, recycling>>
    BY <1>4 DEF AgentRecv
  <1>6. /\ agentq' \in [Agents -> Seq(AgentMsg)]
        /\ \A b \in Agents : Once(agentq'[b], {"start"})
        /\ AgentR(a)' = AgentR(a) \cup {n}
        /\ \A b \in Agents : b # a => AgentR(b)' = AgentR(b)
    <2>1. \A m \in AgentR(a) : m.req # n.req
      BY <1>2, <1>4 DEF NoAgent
    <2> QED BY <1>4, <1>5, <2>1, AgentGets
  <1>7. gateq' \in Seq(GateMsg) /\ Once(gateq', {"register"}) /\ GateR' = GateR
    BY GateCalmFacts
  <1>8. /\ hs' \in [Requests -> [pc: HsPc, fd: Fds \cup {None}, tok: Logins \cup {None},
                                 uid: Uids \cup {None}]]
        /\ \A q \in Requests : q # r => hs'[q] = hs[q]
        /\ hs'[r].pc = "start" /\ hs'[r].fd = hs[r].fd /\ hs'[r].tok = l /\ hs'[r].uid = hs[r].uid
    <2>1. "start" \in HsPc /\ hs' = [hs EXCEPT ![r].pc = "start"]
      BY DEF HsPc, HsTo
    <2> QED BY <1>2, <2>1, HsToFacts, ZenonT(60)
  <1>11. \A q \in Requests : q # r /\ hs[q].pc \in {"start", "register", "done"} =>
            UserOf(q)'.agent = UserOf(q).agent
    <2> SUFFICES ASSUME NEW q \in Requests, q # r, hs[q].pc \in {"start", "register", "done"}
                 PROVE  UserOf(q)'.agent = UserOf(q).agent
      OBVIOUS
    <2>1. hs[q].tok \in Logins /\ UserOf(q).agent # None /\ hs'[q].tok = hs[q].tok
      BY <1>8 DEF HandshakeInv, Presented
    <2>2. CASE hs[q].tok # l
      BY <2>1, <2>2 DEF UserOf
    <2>3. CASE hs[q].tok = l
      <3>1. hs[r].pc # "get"
        BY <1>2, <2>1, <2>3 DEF HandshakeInv, OneAgentPerToken, UserOf
      <3> QED BY <2>1, <2>3, <3>1 DEF UserOf
    <2> QED BY <2>2, <2>3
  <1>12. /\ attempt' = attempt /\ UNCHANGED <<gets, spawning, loading, agentfd, connection>>
    BY <1>5 DEF loginVars, poolVars
  <1>13. TypeOK'
    BY <1>2, <1>5, <1>6, <1>7, <1>8 DEF HandshakeInv, TypeOK, LoginTypeOK, HubTypeOK,
       GateTypeOK, PoolTypeOK, UserType, loginVars, poolVars
  <1>14. Granted'
    BY <1>12 DEF HandshakeInv, Granted
  <1>15. Moves(r)
    <2>1. \A b \in Agents : \A m \in AgentR(b)' : m \in AgentR(b) \/ m.req = r
      BY <1>4, <1>6
    <2> QED BY <1>2, <1>6, <1>7, <1>8, <1>11, <1>12, <2>1 DEF HandshakeInv, Moves
  <1>16. Knows(r)'
    <2>1. a # None
      BY EntitiesAssumption
    <2> QED BY <1>2, <1>3, <1>8, <1>12, <2>1 DEF Knows, UserOf
  <1>17. OneAgentPerToken'
    <2> SUFFICES ASSUME NEW q \in Requests, hs'[q].pc = "get"
                 PROVE  /\ user'[hs'[q].tok].agent = None
                        /\ \A p \in Requests : hs'[p].pc = "get" /\ hs'[p].tok = hs'[q].tok => p = q
      BY DEF OneAgentPerToken
    <2>1. q # r /\ hs[q].pc = "get" /\ hs'[q].tok = hs[q].tok
      BY <1>8
    <2>2. hs[q].tok \in Logins
      BY <2>1 DEF HandshakeInv, Presented
    <2>3. hs[q].tok # l
      <3>1. CASE hs[r].pc = "get"
        BY <1>2, <2>1, <3>1 DEF HandshakeInv, OneAgentPerToken
      <3>2. CASE hs[r].pc # "get"
        <4>1. user[l].agent = a /\ a # None
          BY <3>2, EntitiesAssumption
        <4> QED BY <2>1, <4>1 DEF HandshakeInv, OneAgentPerToken
      <3> QED BY <3>1, <3>2
    <2> QED BY <1>8, <2>1, <2>2, <2>3 DEF HandshakeInv, OneAgentPerToken
  <1>18. Lone(r)' /\ Right(r)'
    <2>1. UserOf(r)'.agent = a
      BY <1>8 DEF UserOf
    <2>2. \A b \in Agents : \A m \in AgentR(b)' : m.req = r => b = a
      BY <1>2, <1>6 DEF NoAgent
    <2> QED BY <1>2, <1>7, <1>8, <1>12, <2>1, <2>2 DEF Lone, Right, NoGate, NoLoad, NoPool
  <1>19. Bindings'
    BY <1>2, <1>3, <1>12, <1>15, MovesBindings
  <1> QED BY <1>2, <1>13, <1>14, <1>15, <1>16, <1>17, <1>18, <1>19, MovesInv

(* A reconnect: the old socket is kicked; an error if the agent is not     *)
(* there yet.                                                              *)
LEMMA HubReconnectsInv ==
    ASSUME HandshakeInv, NEW r \in Requests, HubReconnects(r)
    PROVE  HandshakeInv'
  <1>1. PICK l, a, fd : l = hs[r].tok /\ a = user[l].agent /\ fd = user[l].conn
    OBVIOUS
  <1>2. /\ hubq # <<>> /\ Head(hubq).type = "handshake" /\ r = Head(hubq).req
        /\ fd # None /\ hubq' = Tail(hubq) /\ HsTo(r, IF a = None THEN "error" ELSE "start")
        /\ UNCHANGED <<User_Map, user, FD_Map>>
        /\ GateRecv([type |-> "kick", fd |-> fd, raw |-> TRUE])
        /\ IF a = None THEN UNCHANGED <<poolVars, agentVars>> ELSE AgentRecv(a, StartMsg(r))
        /\ UNCHANGED loginVars
    BY <1>1, Zenon DEF HubReconnects, HandshakeReconnect, HubHas
  <1>3. Head(hubq).type \in ReqTypes
    BY <1>2 DEF ReqTypes
  <1>4. l \in Logins
    BY <1>1, <1>2, <1>3, HubAnswer, ZenonT(60)
  <1>5. fd \in Fds /\ a \in Agents \cup {None} /\ user \in UserType /\ FD_Map \subseteq Fds
    BY <1>1, <1>2, <1>4, Zenon DEF HandshakeInv, TypeOK, HubTypeOK, UserType
  <1>6. GateCalm /\ UNCHANGED <<sock, gs, connection, kicking, closing, client_number>>
    <2>1. PICK m \in GateMsg : m = [type |-> "kick", fd |-> fd, raw |-> TRUE]
      BY <1>5 DEF GateMsg
    <2> QED BY <1>2, <2>1 DEF GateRecv, GateCalm
  <1>7. CASE a = None
    <2>1. HsTo(r, "error") /\ UNCHANGED <<loginVars, poolVars, agentVars>>
      BY <1>2, <1>7
    <2>2. "error" \in Outcome \cup {"unauthorized"}
      BY DEF Outcome
    <2> QED BY <1>2, <1>3, <1>5, <1>6, <2>1, <2>2, HubEnds
  <1>8. CASE a # None
    <2>1. HsTo(r, "start") /\ AgentRecv(a, StartMsg(r)) /\ a \in Agents
      BY <1>2, <1>5, <1>8
    <2> QED BY <1>1, <1>2, <1>5, <1>6, <2>1, HubStartsAgent, Zenon
  <1> QED BY <1>7, <1>8

(* agent_mgr's answer: the user gets the agent. *)
LEMMA HubGotAgentInv ==
    ASSUME HandshakeInv, HubGotAgent
    PROVE  HandshakeInv'
  <1>1. PICK r, l, a : r = Head(hubq).req /\ l = hs[r].tok /\ a = Head(hubq).agent
    OBVIOUS
  <1>2. /\ hubq # <<>> /\ Head(hubq).type = "got" /\ hubq' = Tail(hubq)
        /\ user' = [user EXCEPT ![l].agent = a] /\ HsTo(r, "start")
        /\ UNCHANGED <<User_Map, FD_Map>> /\ AgentRecv(a, StartMsg(r))
        /\ UNCHANGED <<loginVars, gateVars>>
    BY <1>1 DEF HubGotAgent, GotAgent, HubHas
  <1>3. Head(hubq).type \in ReqTypes
    BY <1>2 DEF ReqTypes
  <1>4. a \in Agents
    BY <1>1, <1>2, HubHead, HubMsgFacts
  <1>5. r \in Requests /\ hs[r].pc = Awaits(Head(hubq).type) /\ Knows(r) /\ l \in Logins
    BY <1>1, <1>2, <1>3, HubAnswer
  <1>6. hs[r].pc = "get" /\ user[l].conn # None
    BY <1>1, <1>2, <1>5 DEF Awaits, Knows, UserOf
  <1>7. /\ user' \in UserType
        /\ \A k \in Logins : user'[k].uid = user[k].uid /\ user'[k].conn = user[k].conn
        /\ \A k \in Logins : k # l => user'[k] = user[k]
        /\ user'[l].agent = a
    BY <1>2, <1>4, <1>5, UserAgentFacts
  <1>8. GateCalm /\ UNCHANGED <<sock, gs, connection, kicking, closing, client_number>>
    BY <1>2 DEF GateCalm, gateVars
  <1>9. /\ hubq # <<>> /\ Head(hubq).type \in {"handshake", "got"} /\ hubq' = Tail(hubq)
        /\ r = Head(hubq).req /\ l = hs[r].tok /\ HsTo(r, "start")
        /\ user[l].agent = a \/ hs[r].pc = "get"
        /\ AgentRecv(a, StartMsg(r)) /\ UNCHANGED <<User_Map, FD_Map>> /\ UNCHANGED loginVars
    BY <1>1, <1>2, <1>6
  <1> QED BY <1>4, <1>6, <1>7, <1>8, <1>9, HubStartsAgent

(* The agent has started: the gate is asked to route to it. *)
LEMMA HubStartedInv ==
    ASSUME HandshakeInv, HubStarted
    PROVE  HandshakeInv'
  <1>1. PICK r, l, u : r = Head(hubq).req /\ l = hs[r].tok /\ u = user[l]
    OBVIOUS
  <1>2. PICK n : n = [type |-> "register", req |-> r, fd |-> hs[r].fd, uid |-> u.uid,
                      agent |-> u.agent]
    OBVIOUS
  <1>3. /\ hubq # <<>> /\ Head(hubq).type = "started" /\ hubq' = Tail(hubq)
        /\ hs' = [hs EXCEPT ![r].pc = "register"] /\ UNCHANGED <<User_Map, user, FD_Map>>
        /\ gateq' = Append(gateq, n)
        /\ UNCHANGED <<sock, gs, connection, kicking, closing, client_number>>
        /\ UNCHANGED <<loginVars, poolVars, agentVars>>
    BY <1>1, <1>2 DEF HubStarted, Started, HubHas, HsTo, GateRecv
  <1>4. Head(hubq).type \in ReqTypes
    BY <1>3 DEF ReqTypes
  <1>5. /\ r \in Requests /\ hs[r].pc = Awaits(Head(hubq).type)
        /\ hubq' \in Seq(HubMsg) /\ Once(hubq', ReqTypes)
        /\ \A m \in HubR' : m \in HubR /\ m.req # r
        /\ \A m \in HubR : m = Head(hubq) \/ (m \in HubR' /\ m.req # r)
        /\ \A m \in Pending(hubq, {"logout"})' : m \in Pending(hubq, {"logout"})
        /\ NoGate(r) /\ NoAgent(r) /\ NoLoad(r) /\ NoPool(r)
        /\ Knows(r) /\ l \in Logins
    BY <1>1, <1>3, <1>4, HubAnswer
  <1>6. hs[r].pc = "start" /\ hs[r].fd \in Fds /\ UserOf(r) = u
        /\ u.uid \in Uids /\ u.agent \in Agents /\ u.conn # None /\ u.agent # None
    <2>1. hs[r].pc = "start" /\ UserOf(r) = u
      BY <1>1, <1>3, <1>5 DEF Awaits, UserOf
    <2>2. hs[r].fd \in Fds /\ attempt[l].pc = "200" /\ u.conn # None /\ u.agent # None
      BY <1>1, <1>5, <2>1 DEF Knows
    <2>3. u.uid \in Uids /\ u.agent \in Agents
      BY <1>1, <1>5, <2>2 DEF HandshakeInv, Granted, TypeOK, HubTypeOK
    <2> QED BY <2>1, <2>2, <2>3
  <1>7. agentfd[u.agent] # None
    <2>1. Head(hubq) \in HubR
      BY <1>3, <1>4, HubHead
    <2> QED BY <1>1, <1>3, <1>6, <2>1 DEF HandshakeInv, Answers
  <1>8. n \in GateMsg
    BY <1>2, <1>5, <1>6 DEF GateMsg
  <1>9. /\ n.type = "register" /\ n.req = r /\ n.fd = hs[r].fd /\ n.uid = u.uid
        /\ n.agent = u.agent
    BY <1>2
  <1>10. gateq' \in Seq(GateMsg) /\ Once(gateq', {"register"}) /\ GateR' = GateR \cup {n}
    <2>1. \A m \in GateR : m.req # n.req
      BY <1>5, <1>9 DEF NoGate
    <2> QED BY <1>3, <1>8, <1>9, <2>1, GateGets
  <1>11. /\ hs' \in [Requests -> [pc: HsPc, fd: Fds \cup {None}, tok: Logins \cup {None},
                                  uid: Uids \cup {None}]]
         /\ \A q \in Requests : q # r => hs'[q] = hs[q]
         /\ hs'[r].pc = "register" /\ hs'[r].fd = hs[r].fd /\ hs'[r].tok = hs[r].tok
         /\ hs'[r].uid = hs[r].uid
    <2>1. "register" \in HsPc
      BY DEF HsPc
    <2> QED BY <1>3, <1>5, <2>1, HsToFacts
  <1>12. \A q \in Requests : UserOf(q)' = UserOf(q)
    BY <1>3, <1>11 DEF UserOf
  <1>13. /\ attempt' = attempt /\ \A a \in Agents : AgentR(a)' = AgentR(a)
         /\ UNCHANGED <<gets, spawning, loading, agentfd, agentq, connection>>
    BY <1>3 DEF loginVars, poolVars, agentVars, AgentR
  <1>14. TypeOK' /\ Granted'
    BY <1>3, <1>5, <1>10, <1>11 DEF HandshakeInv, TypeOK, LoginTypeOK, HubTypeOK, GateTypeOK,
       PoolTypeOK, Granted, loginVars, poolVars, agentVars
  <1>15. Moves(r)
    BY <1>3, <1>5, <1>9, <1>10, <1>11, <1>12, <1>13 DEF HandshakeInv, Flights, Moves
  <1>16. Knows(r)'
    BY <1>1, <1>5, <1>6, <1>11, <1>12, <1>13 DEF Knows
  <1>17. OneAgentPerToken'
    <2>1. \A q \in Requests : hs'[q].pc = "get" => hs[q].pc = "get" /\ hs'[q].tok = hs[q].tok
      BY <1>11
    <2> QED BY <1>3, <2>1 DEF HandshakeInv, OneAgentPerToken
  <1>18. Lone(r)' /\ Right(r)'
    <2>1. \A m \in GateR' : m.req = r => m = n
      BY <1>5, <1>10 DEF NoGate
    <2> QED BY <1>5, <1>6, <1>7, <1>9, <1>11, <1>12, <1>13, <2>1
            DEF Lone, Right, NoAgent, NoLoad, NoPool
  <1>19. Bindings'
    <2>1. \A m \in HubR : m.req # r => m \in HubR'
      BY <1>1, <1>5
    <2> QED BY <1>5, <1>6, <1>13, <1>15, <2>1, MovesBindings
  <1> QED BY <1>5, <1>14, <1>15, <1>16, <1>17, <1>18, <1>19, MovesInv

-----------------------------------------------------------------------------
(* The pool and the agents serve a request; hubd's objects stay as they are *)

LEMMA ServeInv ==
    ASSUME HandshakeInv, NEW r \in Requests, UNCHANGED <<loginVars, gateVars>>,
           UNCHANGED <<User_Map, user, FD_Map, hs>>, PoolTypeOK',
           hubq' \in Seq(HubMsg), Once(hubq', ReqTypes),
           \A a \in Agents : Once(agentq'[a], {"start"}),
           \A m \in HubR : m \in HubR', \A m \in HubR' : m \in HubR \/ m.req = r,
           Pending(hubq, {"logout"})' = Pending(hubq, {"logout"}),
           \A a \in Agents : agentfd[a] # None => agentfd'[a] # None,
           \A a \in Agents : \A m \in AgentR(a)' : m \in AgentR(a) \/ m.req = r,
           \A q \in gets' : q \in gets \/ q = r,
           \A w \in spawning' : w \in spawning \/ w.req = r,
           \A c \in loading' : c \in loading \/ c.req = r,
           Lone(r)', Right(r)'
    PROVE  HandshakeInv'
  <1>1. /\ attempt' = attempt /\ hs' = hs /\ user' = user /\ GateR' = GateR
        /\ gateq' = gateq /\ connection' = connection
        /\ \A q \in Requests : UserOf(q)' = UserOf(q)
    BY DEF loginVars, gateVars, GateR, UserOf
  <1>2. TypeOK' /\ Granted' /\ OneAgentPerToken'
    BY <1>1 DEF HandshakeInv, TypeOK, LoginTypeOK, HubTypeOK, GateTypeOK, Granted,
       OneAgentPerToken, loginVars, gateVars
  <1>3. Moves(r)
    BY <1>1 DEF HandshakeInv, Flights, Moves
  <1>4. Knows(r)'
    BY <1>1 DEF HandshakeInv, Presented, Knows
  <1>5. Bindings'
    <2>1. NotBound
      BY <1>1 DEF NotBound
    <2> QED BY <1>1, <2>1, BindingsKept
  <1> QED BY <1>2, <1>3, <1>4, <1>5, MovesInv

(* hubd is sent the answer m. *)
LEMMA HubIsAnswered ==
    ASSUME HandshakeInv, NEW m \in HubMsg, m.type \in ReqTypes, NoHub(m.req), HubRecv(m)
    PROVE  /\ hubq' \in Seq(HubMsg) /\ Once(hubq', ReqTypes)
           /\ HubR' = HubR \cup {m} /\ \A n \in HubR' : n.req = m.req => n = m
           /\ Pending(hubq, {"logout"})' = Pending(hubq, {"logout"})
           /\ UNCHANGED <<User_Map, user, FD_Map, hs>>
  <1>1. hubq' = Append(hubq, m) /\ UNCHANGED <<User_Map, user, FD_Map, hs>>
    BY DEF HubRecv
  <1>2. /\ hubq' \in Seq(HubMsg) /\ Once(hubq', ReqTypes) /\ HubR' = HubR \cup {m}
        /\ Pending(hubq, {"logout"})' = Pending(hubq, {"logout"})
    BY <1>1, HubGets DEF NoHub, ReqTypes
  <1> QED BY <1>1, <1>2 DEF NoHub

(* hubd is sent nothing. *)
LEMMA HubIsLeft ==
    ASSUME HandshakeInv, UNCHANGED hubVars
    PROVE  /\ hubq' \in Seq(HubMsg) /\ Once(hubq', ReqTypes) /\ HubR' = HubR
           /\ Pending(hubq, {"logout"})' = Pending(hubq, {"logout"})
           /\ UNCHANGED <<User_Map, user, FD_Map, hs>>
  BY DEF HandshakeInv, TypeOK, HubTypeOK, Flights, HubR, hubVars

LEMMA PoolGetInv ==
    ASSUME HandshakeInv, NEW r \in Requests, PoolGet(r)
    PROVE  HandshakeInv'
  <1>1. PICK a, m : a = pool[Len(pool)] /\ m = [type |-> "got", req |-> r, agent |-> a]
    OBVIOUS
  <1>2. /\ r \in gets /\ pool # <<>> /\ gets' = gets \ {r}
        /\ pool' = SubSeq(pool, 1, Len(pool) - 1)
        /\ UNCHANGED <<agent_map, spawned, spawning, agentVars>>
        /\ HubRecv(m) /\ UNCHANGED <<loginVars, gateVars>>
    BY <1>1 DEF PoolGet, GetPooled
  <1>3. NoHub(r) /\ NoGate(r) /\ NoAgent(r) /\ NoLoad(r) /\ hs[r].pc = "get"
    BY <1>2, PoolAlone
  <1>4. pool' \in Seq(Agents) /\ a \in Agents
    <2>1. pool \in Seq(Agents)
      BY DEF HandshakeInv, TypeOK, PoolTypeOK
    <2> QED BY <1>1, <1>2, <2>1, FrontFacts
  <1>5. m \in HubMsg /\ m.type = "got" /\ m.req = r /\ m.type \in ReqTypes
    BY <1>1, <1>4 DEF HubMsg, ReqTypes
  <1>6. /\ hubq' \in Seq(HubMsg) /\ Once(hubq', ReqTypes)
        /\ HubR' = HubR \cup {m} /\ \A n \in HubR' : n.req = r => n = m
        /\ Pending(hubq, {"logout"})' = Pending(hubq, {"logout"})
        /\ UNCHANGED <<User_Map, user, FD_Map, hs>>
    BY <1>2, <1>3, <1>5, HubIsAnswered
  <1>7. /\ UNCHANGED <<agentq, agentfd, loading>> /\ GateR' = GateR
        /\ \A b \in Agents : AgentR(b)' = AgentR(b)
    BY <1>2 DEF agentVars, gateVars, AgentR, GateR
  <1>8. PoolTypeOK'
    BY <1>2, <1>4 DEF HandshakeInv, TypeOK, PoolTypeOK, agentVars
  <1>9. \A w \in spawning : w.req # r
    BY <1>2 DEF HandshakeInv, Flights
  <1>10. Lone(r)' /\ Right(r)'
    BY <1>2, <1>3, <1>5, <1>6, <1>7, <1>9 DEF Lone, Right, Awaits, NoGate, NoAgent, NoLoad
  <1>11. \A b \in Agents : Once(agentq'[b], {"start"})
    BY <1>7 DEF HandshakeInv, Flights
  <1> QED BY <1>2, <1>5, <1>6, <1>7, <1>8, <1>10, <1>11, ServeInv

(* CMD.get finds the pool empty. *)
LEMMA PoolMissInv ==
    ASSUME HandshakeInv, NEW r \in Requests, PoolMiss(r)
    PROVE  HandshakeInv'
  <1>1. PICK w : w = [req |-> r, agent |-> None, left |-> ExpandBy]
    OBVIOUS
  <1>2. /\ r \in gets /\ gets' = gets \ {r} /\ spawning' = spawning \cup {w}
        /\ UNCHANGED <<pool, agent_map, spawned, agentVars>>
        /\ UNCHANGED <<loginVars, hubVars, gateVars>>
    BY <1>1 DEF PoolMiss, GetMiss
  <1>3. NoHub(r) /\ NoGate(r) /\ NoAgent(r) /\ NoLoad(r) /\ hs[r].pc = "get"
    BY <1>2, PoolAlone
  <1>4. /\ hubq' \in Seq(HubMsg) /\ Once(hubq', ReqTypes) /\ HubR' = HubR
        /\ Pending(hubq, {"logout"})' = Pending(hubq, {"logout"})
        /\ UNCHANGED <<User_Map, user, FD_Map, hs>>
    BY <1>2, HubIsLeft
  <1>5. /\ UNCHANGED <<agentq, agentfd, loading>> /\ GateR' = GateR
        /\ \A b \in Agents : AgentR(b)' = AgentR(b)
    BY <1>2 DEF agentVars, gateVars, AgentR, GateR
  <1>6. w.req = r /\ w \in [req: Requests, agent: Agents \cup {None}, left: 1..ExpandBy]
    <2>1. ExpandBy \in 1..ExpandBy
      BY PoolAssumption
    <2> QED BY <1>1, <2>1
  <1>7. PoolTypeOK'
    BY <1>2, <1>6 DEF HandshakeInv, TypeOK, PoolTypeOK, agentVars
  <1>8. \A v \in spawning : v.req # r
    BY <1>2 DEF HandshakeInv, Flights
  <1>9. Lone(r)' /\ Right(r)'
    BY <1>2, <1>3, <1>4, <1>5, <1>6, <1>8 DEF Lone, Right, NoHub, NoGate, NoAgent, NoLoad
  <1>10. \A b \in Agents : Once(agentq'[b], {"start"})
    BY <1>5 DEF HandshakeInv, Flights
  <1> QED BY <1>2, <1>4, <1>5, <1>6, <1>7, <1>9, <1>10, ServeInv

LEMMA NewServiceFacts ==
    ASSUME HandshakeInv, NewService
    PROVE  NewAgent \in Agents /\ spawned' \in Nat /\ agent_map' \subseteq Agents
  <1>1. spawned \in Nat /\ MaxAgents \in Nat /\ spawned < MaxAgents /\ spawned' = spawned + 1
    BY EntitiesAssumption DEF HandshakeInv, TypeOK, PoolTypeOK, NewService, NewAgent
  <1>2. NewAgent \in Agents
    BY <1>1 DEF NewAgent, Agents
  <1> QED BY <1>1, <1>2 DEF HandshakeInv, TypeOK, PoolTypeOK, NewService

(* The coroutine w of CMD.get goes on as v, or answers hubd. *)
LEMMA SpawningInv ==
    ASSUME HandshakeInv, NEW w \in spawning, NEW V, NewService,
           V \subseteq [req: Requests, agent: Agents \cup {None}, left: 1..ExpandBy],
           \A v \in V : v.req = w.req, \A u, v \in V : u = v,
           spawning' = (spawning \ {w}) \cup V, pool' \in Seq(Agents),
           UNCHANGED <<gets, agentVars>>, UNCHANGED <<loginVars, gateVars>>,
           \/ UNCHANGED hubVars
           \/ \E a \in Agents : /\ HubRecv([type |-> "got", req |-> w.req, agent |-> a])
                                /\ V = {}
    PROVE  HandshakeInv'
  <1>1. PICK r : r = w.req
    OBVIOUS
  <1>2. r \in Requests
    BY <1>1, InFlight
  <1>3. NoHub(r) /\ NoGate(r) /\ NoAgent(r) /\ NoLoad(r) /\ hs[r].pc = "get"
    BY <1>1, <1>2, PoolAlone
  <1>4. r \notin gets /\ \A v \in spawning : v.req = r => v = w
    BY <1>1 DEF HandshakeInv, Flights
  <1>5. /\ UNCHANGED <<agentq, agentfd, loading>> /\ GateR' = GateR
        /\ \A b \in Agents : AgentR(b)' = AgentR(b)
    BY DEF agentVars, gateVars, AgentR, GateR
  <1>6. PoolTypeOK'
    BY NewServiceFacts DEF HandshakeInv, TypeOK, PoolTypeOK, agentVars
  <1>7. /\ \A v \in spawning' : v.req = r => v \in V
        /\ \A v \in spawning' : v \in spawning \/ v.req = r
        /\ gets' = gets
    BY <1>1, <1>4
  <1>8. \A b \in Agents : Once(agentq'[b], {"start"})
    BY <1>5 DEF HandshakeInv, Flights
  <1>9. CASE UNCHANGED hubVars
    <2>1. /\ hubq' \in Seq(HubMsg) /\ Once(hubq', ReqTypes) /\ HubR' = HubR
          /\ Pending(hubq, {"logout"})' = Pending(hubq, {"logout"})
          /\ UNCHANGED <<User_Map, user, FD_Map, hs>>
      BY <1>9, HubIsLeft
    <2>2. Lone(r)' /\ Right(r)'
      BY <1>3, <1>4, <1>5, <1>7, <2>1 DEF Lone, Right, NoHub, NoGate, NoAgent, NoLoad
    <2> QED BY <1>2, <1>5, <1>6, <1>7, <1>8, <2>1, <2>2, ServeInv
  <1>10. ASSUME NEW a \in Agents, V = {},
                HubRecv([type |-> "got", req |-> w.req, agent |-> a])
         PROVE  HandshakeInv'
    <2>1. PICK m : m = [type |-> "got", req |-> r, agent |-> a]
      OBVIOUS
    <2>2. m \in HubMsg /\ m.type = "got" /\ m.req = r /\ m.type \in ReqTypes
      BY <1>2, <2>1 DEF HubMsg, ReqTypes
    <2>3. HubRecv(m)
      BY <1>1, <1>10, <2>1
    <2>4. /\ hubq' \in Seq(HubMsg) /\ Once(hubq', ReqTypes)
          /\ HubR' = HubR \cup {m} /\ \A n \in HubR' : n.req = r => n = m
          /\ Pending(hubq, {"logout"})' = Pending(hubq, {"logout"})
          /\ UNCHANGED <<User_Map, user, FD_Map, hs>>
      BY <1>3, <2>2, <2>3, HubIsAnswered
    <2>5. \A v \in spawning' : v.req # r
      BY <1>7, <1>10
    <2>6. Lone(r)' /\ Right(r)'
      BY <1>3, <1>4, <1>5, <1>7, <2>2, <2>4, <2>5 DEF Lone, Right, Awaits, NoGate, NoAgent, NoLoad
    <2> QED BY <1>2, <1>5, <1>6, <1>7, <1>8, <2>2, <2>4, <2>6, ServeInv
  <1> QED BY <1>9, <1>10

LEMMA PoolCreatedInv ==
    ASSUME HandshakeInv, NEW w \in spawning, PoolCreated(w)
    PROVE  HandshakeInv'
  <1>1. PICK v : v = [w EXCEPT !.agent = NewAgent]
    OBVIOUS
  <1>2. /\ NewService /\ spawning' = (spawning \ {w}) \cup {v}
        /\ UNCHANGED <<pool, gets, agentVars>> /\ UNCHANGED <<loginVars, hubVars, gateVars>>
    BY <1>1 DEF PoolCreated, GetCreated
  <1>3. w \in [req: Requests, agent: Agents \cup {None}, left: 1..ExpandBy]
        /\ pool \in Seq(Agents)
    BY DEF HandshakeInv, TypeOK, PoolTypeOK
  <1>4. v \in [req: Requests, agent: Agents \cup {None}, left: 1..ExpandBy] /\ v.req = w.req
    BY <1>1, <1>2, <1>3, NewServiceFacts
  <1>5. PICK V : V = {v}
    OBVIOUS
  <1>6. /\ V \subseteq [req: Requests, agent: Agents \cup {None}, left: 1..ExpandBy]
        /\ \A x \in V : x.req = w.req
        /\ \A x, y \in V : x = y
        /\ spawning' = (spawning \ {w}) \cup V /\ pool' \in Seq(Agents)
    BY <1>2, <1>3, <1>4, <1>5
  <1> QED BY <1>2, <1>6, SpawningInv

LEMMA PoolExpandsInv ==
    ASSUME HandshakeInv, NEW w \in spawning, PoolExpands(w)
    PROVE  HandshakeInv'
  <1>1. PICK V : V = IF w.left = 1 THEN {} ELSE {[w EXCEPT !.left = @ - 1]}
    OBVIOUS
  <1>2. /\ w.agent # None /\ NewService /\ pool' = Append(pool, NewAgent)
        /\ spawning' = (spawning \ {w}) \cup V
        /\ UNCHANGED <<gets, agentVars>> /\ UNCHANGED <<loginVars, gateVars>>
        /\ IF w.left = 1 THEN HubRecv([type |-> "got", req |-> w.req, agent |-> w.agent])
                         ELSE UNCHANGED hubVars
    BY <1>1 DEF PoolExpands, ExpandPool
  <1>3. w \in [req: Requests, agent: Agents \cup {None}, left: 1..ExpandBy]
        /\ pool \in Seq(Agents)
    BY DEF HandshakeInv, TypeOK, PoolTypeOK
  <1>4. pool' \in Seq(Agents)
    BY <1>2, <1>3, NewServiceFacts, AppendFacts
  <1>5. /\ V \subseteq [req: Requests, agent: Agents \cup {None}, left: 1..ExpandBy]
        /\ \A x \in V : x.req = w.req
        /\ \A x, y \in V : x = y
    <2>1. CASE w.left = 1
      BY <1>1, <2>1
    <2>2. CASE w.left # 1
      <3>1. w.left - 1 \in 1..ExpandBy
        BY <1>3, <2>2, PoolAssumption
      <3>2. PICK v : v = [w EXCEPT !.left = @ - 1]
        OBVIOUS
      <3>3. v \in [req: Requests, agent: Agents \cup {None}, left: 1..ExpandBy] /\ v.req = w.req
        BY <1>3, <3>1, <3>2
      <3> QED BY <1>1, <2>2, <3>2, <3>3
    <2> QED BY <2>1, <2>2
  <1>6. \/ UNCHANGED hubVars
        \/ \E a \in Agents : /\ HubRecv([type |-> "got", req |-> w.req, agent |-> a])
                             /\ V = {}
    BY <1>1, <1>2, <1>3
  <1> QED BY <1>2, <1>4, <1>5, <1>6, SpawningInv

(* start is taken up: the agent's _fd is set before its first yield. *)
LEMMA AgentDoStartInv ==
    ASSUME HandshakeInv, NEW a \in Agents, AgentDoStart(a)
    PROVE  HandshakeInv'
  <1>1. PICK m, r, c : m = Head(agentq[a]) /\ r = m.req /\ c = [req |-> r, agent |-> a]
    OBVIOUS
  <1>2. /\ agentq[a] # <<>> /\ m.type = "start"
        /\ agentfd' = [agentfd EXCEPT ![a] = m.fd] /\ loading' = loading \cup {c}
        /\ agentq' = [agentq EXCEPT ![a] = Tail(@)]
        /\ UNCHANGED <<poolVars, saving, recycling>> /\ UNCHANGED <<loginVars, hubVars, gateVars>>
    BY <1>1 DEF AgentDoStart, AgentStart, AgentHas
  <1>3. /\ agentq' \in [Agents -> Seq(AgentMsg)]
        /\ \A b \in Agents : Once(agentq'[b], {"start"})
        /\ AgentR(a)' = AgentR(a) \ {m}
        /\ \A b \in Agents : b # a => AgentR(b)' = AgentR(b)
        /\ m \in AgentMsg /\ m \in AgentR(a)
    BY <1>1, <1>2, AgentTakes
  <1>4. /\ \A b \in Agents : \A n \in AgentR(b) : n.req = r => n = m /\ b = a
        /\ NoHub(r) /\ NoGate(r) /\ NoLoad(r) /\ NoPool(r)
        /\ hs[r].pc = "start" /\ UserOf(r).agent = a /\ r \in Requests
    BY <1>1, <1>3, AgentAlone
  <1>5. m.fd \in Fds /\ m.fd # None
    BY <1>2, <1>3, AgentMsgFacts, EntitiesAssumption
  <1>6. /\ agentfd' \in [Agents -> Fds \cup {None}] /\ agentfd'[a] # None
        /\ \A b \in Agents : agentfd[b] # None => agentfd'[b] # None
    BY <1>2, <1>5 DEF HandshakeInv, TypeOK, PoolTypeOK
  <1>7. c \in [req: Requests, agent: Agents] /\ c.req = r /\ c.agent = a
    BY <1>1, <1>4
  <1>8. PoolTypeOK'
    BY <1>2, <1>3, <1>6, <1>7 DEF HandshakeInv, TypeOK, PoolTypeOK, poolVars
  <1>9. /\ hubq' \in Seq(HubMsg) /\ Once(hubq', ReqTypes) /\ HubR' = HubR
        /\ Pending(hubq, {"logout"})' = Pending(hubq, {"logout"})
        /\ UNCHANGED <<User_Map, user, FD_Map, hs>>
    BY <1>2, HubIsLeft
  <1>10. gets' = gets /\ spawning' = spawning /\ GateR' = GateR /\ UserOf(r)' = UserOf(r)
    BY <1>2, <1>9 DEF poolVars, gateVars, GateR, UserOf
  <1>11. /\ \A b \in Agents : \A n \in AgentR(b)' : n \in AgentR(b) /\ n.req # r
         /\ \A d \in loading' : d.req = r => d = c
    BY <1>2, <1>3, <1>4 DEF NoLoad
  <1>12. Lone(r)' /\ Right(r)'
    BY <1>4, <1>6, <1>7, <1>9, <1>10, <1>11 DEF Lone, Right, NoHub, NoGate, NoPool
  <1> QED BY <1>2, <1>3, <1>4, <1>6, <1>7, <1>8, <1>9, <1>10, <1>11, <1>12, ServeInv

(* start returns, or raises an error. *)
LEMMA AgentAnswersInv ==
    ASSUME HandshakeInv, NEW c \in loading, AgentAnswers(c) \/ AgentRaises(c)
    PROVE  HandshakeInv'
  <1>1. PICK r, t, m : /\ r = c.req /\ t \in {"started", "failed"}
                       /\ m = [type |-> t, req |-> r] /\ HubRecv(m)
    BY DEF AgentAnswers, AgentRaises
  <1>2. /\ loading' = loading \ {c} /\ HubRecv(m)
        /\ UNCHANGED <<poolVars, agentq, agentfd, saving, recycling>>
        /\ UNCHANGED <<loginVars, gateVars>>
    BY <1>1 DEF AgentAnswers, AgentRaises, AgentStarted
  <1>3. /\ \A d \in loading : d.req = r => d = c
        /\ NoHub(r) /\ NoGate(r) /\ NoAgent(r) /\ NoPool(r)
        /\ hs[r].pc = "start" /\ UserOf(r).agent = c.agent
        /\ agentfd[c.agent] # None /\ r \in Requests /\ c.agent \in Agents
    BY <1>1, LoadAlone
  <1>4. m \in HubMsg /\ m.type = t /\ m.req = r /\ m.type \in {"started", "failed"}
    BY <1>1, <1>3 DEF HubMsg
  <1>5. m.type \in ReqTypes
    BY <1>4 DEF ReqTypes
  <1>6. /\ hubq' \in Seq(HubMsg) /\ Once(hubq', ReqTypes)
        /\ HubR' = HubR \cup {m} /\ \A n \in HubR' : n.req = r => n = m
        /\ Pending(hubq, {"logout"})' = Pending(hubq, {"logout"})
        /\ UNCHANGED <<User_Map, user, FD_Map, hs>>
    BY <1>2, <1>3, <1>4, <1>5, HubIsAnswered
  <1>7. /\ gets' = gets /\ spawning' = spawning /\ GateR' = GateR /\ UserOf(r)' = UserOf(r)
        /\ \A b \in Agents : AgentR(b)' = AgentR(b)
        /\ UNCHANGED <<agentq, agentfd>>
    BY <1>2, <1>6 DEF poolVars, gateVars, GateR, AgentR, UserOf
  <1>8. PoolTypeOK'
    BY <1>2 DEF HandshakeInv, TypeOK, PoolTypeOK, poolVars
  <1>9. \A d \in loading' : d \in loading /\ d.req # r
    BY <1>2, <1>3
  <1>10. \A b \in Agents : Once(agentq'[b], {"start"})
    BY <1>7 DEF HandshakeInv, Flights
  <1>11. Awaits(m.type) = "start"
    BY <1>4 DEF Awaits
  <1>12. Lone(r)' /\ Right(r)'
    BY <1>3, <1>4, <1>6, <1>7, <1>9, <1>11 DEF Lone, Right, NoGate, NoAgent, NoPool
  <1> QED BY <1>2, <1>3, <1>4, <1>6, <1>7, <1>8, <1>9, <1>10, <1>12, ServeInv

(* A message to a dead agent: the call of start is answered with an error. *)
LEMMA AgentGoneInv ==
    ASSUME HandshakeInv, NEW a \in Agents, AgentGone(a)
    PROVE  HandshakeInv'
  <1>1. PICK m : m = Head(agentq[a])
    OBVIOUS
  <1>2. /\ agentq[a] # <<>> /\ agentq' = [agentq EXCEPT ![a] = Tail(@)]
        /\ UNCHANGED <<poolVars, agentfd, loading, saving, recycling>>
        /\ UNCHANGED <<loginVars, gateVars>>
        /\ IF m.type = "start" THEN HubRecv([type |-> "failed", req |-> m.req])
                               ELSE UNCHANGED hubVars
    BY <1>1 DEF AgentGone, AgentDead, AgentHas
  <1>3. CASE m.type # "start"
    <2>1. HubCalm /\ GateCalm /\ AgentCalm
      BY <1>1, <1>2, <1>3 DEF HubCalm, GateCalm, AgentCalm, hubVars, gateVars
    <2>2. OtherTypes' /\ Granted'
      BY <1>2, <1>3 DEF HandshakeInv, TypeOK, LoginTypeOK, HubTypeOK, GateTypeOK, PoolTypeOK,
         OtherTypes, Granted, loginVars, hubVars, gateVars, poolVars
    <2>3. UNCHANGED <<hs, user, gets, spawning, loading, agentfd, attempt, connection>>
      BY <1>2, <1>3 DEF loginVars, hubVars, gateVars, poolVars
    <2> QED BY <2>1, <2>2, <2>3, CalmInv
  <1>4. CASE m.type = "start"
    <2>1. PICK r, n : r = m.req /\ n = [type |-> "failed", req |-> r]
      OBVIOUS
    <2>2. /\ agentq' \in [Agents -> Seq(AgentMsg)]
          /\ \A b \in Agents : Once(agentq'[b], {"start"})
          /\ AgentR(a)' = AgentR(a) \ {m}
          /\ \A b \in Agents : b # a => AgentR(b)' = AgentR(b)
          /\ m \in AgentR(a)
      BY <1>1, <1>2, <1>4, AgentTakes
    <2>3. /\ \A b \in Agents : \A x \in AgentR(b) : x.req = r => x = m /\ b = a
          /\ NoHub(r) /\ NoGate(r) /\ NoLoad(r) /\ NoPool(r)
          /\ hs[r].pc = "start" /\ r \in Requests
      BY <2>1, <2>2, AgentAlone
    <2>4. n \in HubMsg /\ n.type = "failed" /\ n.req = r /\ n.type \in ReqTypes
      BY <2>1, <2>3 DEF HubMsg, ReqTypes
    <2>5. HubRecv(n)
      BY <1>2, <1>4, <2>1
    <2>6. /\ hubq' \in Seq(HubMsg) /\ Once(hubq', ReqTypes)
          /\ HubR' = HubR \cup {n} /\ \A x \in HubR' : x.req = r => x = n
          /\ Pending(hubq, {"logout"})' = Pending(hubq, {"logout"})
          /\ UNCHANGED <<User_Map, user, FD_Map, hs>>
      BY <2>3, <2>4, <2>5, HubIsAnswered
    <2>7. /\ gets' = gets /\ spawning' = spawning /\ GateR' = GateR
          /\ UNCHANGED <<loading, agentfd>>
      BY <1>2 DEF poolVars, gateVars, GateR
    <2>8. PoolTypeOK'
      BY <1>2, <2>2 DEF HandshakeInv, TypeOK, PoolTypeOK, poolVars
    <2>9. \A b \in Agents : \A x \in AgentR(b)' : x \in AgentR(b) /\ x.req # r
      BY <2>2, <2>3
    <2>10. Lone(r)' /\ Right(r)'
      BY <2>3, <2>4, <2>6, <2>7, <2>9 DEF Lone, Right, Awaits, NoGate, NoLoad, NoPool
    <2> QED BY <1>2, <2>2, <2>3, <2>4, <2>6, <2>7, <2>8, <2>9, <2>10, ServeInv
  <1> QED BY <1>3, <1>4

-----------------------------------------------------------------------------
(* The gate binds a connection: its register names the socket of the       *)
(* request, and the uid and the agent of the request's user object.        *)
LEMMA GateRegisterInv ==
    ASSUME HandshakeInv, GateRegister
    PROVE  HandshakeInv'
  <1>1. PICK m, r, b, n : /\ m = Head(gateq) /\ r = m.req /\ b = (m.fd \in DOMAIN connection)
                          /\ n = [type |-> "registered", req |-> r, res |-> b]
    OBVIOUS
  <1>2. /\ gateq # <<>> /\ m.type = "register" /\ gateq' = Tail(gateq)
        /\ connection' = IF m.fd \notin DOMAIN connection THEN connection
                         ELSE [connection EXCEPT ![m.fd] = [uid |-> m.uid, agent |-> m.agent]]
        /\ UNCHANGED <<sock, gs, kicking, closing, client_number>>
        /\ HubRecv(n) /\ UNCHANGED <<loginVars, poolVars, agentVars>>
    BY <1>1 DEF GateRegister, Register, GateHas
  <1>3. m \in GateR /\ m \in GateMsg
    BY <1>1, <1>2, GateHead
  <1>4. gateq' \in Seq(GateMsg) /\ Once(gateq', {"register"}) /\ GateR' = GateR \ {m}
    BY <1>1, <1>2, GateTakes
  <1>5. /\ \A x \in GateR : x.req = r => x = m
        /\ NoHub(r) /\ NoAgent(r) /\ NoLoad(r) /\ NoPool(r)
        /\ hs[r].pc = "register" /\ r \in Requests
    BY <1>1, <1>3, GateAlone
  <1>6. /\ hs[r].fd = m.fd /\ UserOf(r).uid = m.uid /\ UserOf(r).agent = m.agent
        /\ agentfd[m.agent] # None
    BY <1>1, <1>3 DEF HandshakeInv, Answers
  <1>7. m.fd \in Fds /\ m.uid \in Uids /\ m.agent \in Agents
    BY <1>2, <1>3, GateMsgFacts
  <1>8. n \in HubMsg /\ n.type = "registered" /\ n.req = r /\ n.type \in ReqTypes
    <2>1. b \in BOOLEAN
      BY <1>1
    <2> QED BY <1>1, <1>5, <2>1 DEF HubMsg, ReqTypes
  <1>9. /\ hubq' \in Seq(HubMsg) /\ Once(hubq', ReqTypes)
        /\ HubR' = HubR \cup {n} /\ \A x \in HubR' : x.req = r => x = n
        /\ Pending(hubq, {"logout"})' = Pending(hubq, {"logout"})
        /\ UNCHANGED <<User_Map, user, FD_Map, hs>>
    BY <1>2, <1>5, <1>8, HubIsAnswered
  <1>10. /\ attempt' = attempt /\ \A a \in Agents : AgentR(a)' = AgentR(a)
         /\ UNCHANGED <<gets, spawning, loading, agentfd, agentq>>
         /\ \A q \in Requests : UserOf(q)' = UserOf(q)
    BY <1>2, <1>9 DEF loginVars, poolVars, agentVars, AgentR, UserOf
  <1>11. /\ DOMAIN connection' \subseteq Fds /\ connection' \in [DOMAIN connection' -> Conn]
         /\ DOMAIN connection' = DOMAIN connection
         /\ \A fd \in DOMAIN connection : fd # m.fd => connection'[fd] = connection[fd]
         /\ m.fd \in DOMAIN connection =>
               connection'[m.fd] = [uid |-> m.uid, agent |-> m.agent]
    <2>1. DOMAIN connection \subseteq Fds /\ connection \in [DOMAIN connection -> Conn]
      BY DEF HandshakeInv, TypeOK, GateTypeOK
    <2>2. [uid |-> m.uid, agent |-> m.agent] \in Conn
      BY <1>7 DEF Conn
    <2> QED BY <1>2, <2>1, <2>2
  <1>12. TypeOK'
    BY <1>2, <1>4, <1>9, <1>11 DEF HandshakeInv, TypeOK, LoginTypeOK, HubTypeOK, GateTypeOK,
       PoolTypeOK, loginVars, poolVars, agentVars
  <1>13. Granted' /\ OneAgentPerToken' /\ Knows(r)'
    BY <1>5, <1>9, <1>10 DEF HandshakeInv, Granted, OneAgentPerToken, Presented, Knows
  <1>14. Moves(r)
    BY <1>4, <1>8, <1>9, <1>10 DEF HandshakeInv, Flights, Moves
  <1>15. Lone(r)' /\ Right(r)'
    <2>1. \A x \in GateR' : x.req # r
      BY <1>4, <1>5
    <2> QED BY <1>5, <1>8, <1>9, <1>10, <2>1 DEF Lone, Right, Awaits, NoAgent, NoLoad, NoPool
  <1>16. Bindings'
    <2>1. \A fd \in DOMAIN connection' :
            connection'[fd].uid = None <=> connection'[fd].agent = None
      BY <1>7, <1>11, EntitiesAssumption DEF HandshakeInv, Bindings
    <2>2. \A x \in Pending(hubq, {"logout"})' : x.uid # None => x.agent # None
      BY <1>9 DEF HandshakeInv, Bindings
    <2>3. ASSUME NEW fd \in Fds, Bound(fd)'
          PROVE  /\ agentfd'[connection'[fd].agent] # None
                 /\ \E q \in Requests : BoundBy(fd, q)'
      <3>1. CASE fd = m.fd
        <4>1. connection'[fd].uid = m.uid /\ connection'[fd].agent = m.agent
          BY <1>11, <2>3, <3>1 DEF Bound
        <4>2. n = [type |-> "registered", req |-> r, res |-> TRUE]
          BY <1>1, <1>11, <2>3, <3>1 DEF Bound
        <4>3. BoundBy(fd, r)'
          BY <1>5, <1>6, <1>9, <1>10, <3>1, <4>1, <4>2 DEF BoundBy
        <4> QED BY <1>5, <1>6, <1>10, <4>1, <4>3
      <3>2. CASE fd # m.fd
        <4>1. Bound(fd) /\ connection'[fd] = connection[fd]
          BY <1>11, <2>3, <3>2 DEF Bound
        <4>2. agentfd[connection[fd].agent] # None
          BY <4>1 DEF HandshakeInv, Bindings
        <4>3. PICK q \in Requests : BoundBy(fd, q)
          BY <4>1 DEF HandshakeInv, Bindings
        <4>4. BoundBy(fd, q)'
          BY <1>9, <1>10, <4>1, <4>3 DEF BoundBy
        <4> QED BY <1>10, <4>1, <4>2, <4>4
      <3> QED BY <3>1, <3>2
    <2> QED BY <2>1, <2>2, <2>3 DEF Bindings
  <1> QED BY <1>5, <1>12, <1>13, <1>14, <1>15, <1>16, MovesInv

-----------------------------------------------------------------------------
(* All steps *)

LEMMA HandshakeInit == Init => HandshakeInv
  <1> SUFFICES ASSUME Init PROVE HandshakeInv
    OBVIOUS
  <1> USE DEF Init, LoginInit, HubInit, GateInit, PoolInit
  <1>1. TypeOK
    <2>1. LoginTypeOK
      BY DEF LoginTypeOK, AttemptPc
    <2>2. HubTypeOK
      BY DEF HubTypeOK, HsPc
    <2>3. GateTypeOK
      BY DEF GateTypeOK, SockState
    <2>4. PoolTypeOK
      BY DEF PoolTypeOK
    <2> QED BY <2>1, <2>2, <2>3, <2>4 DEF TypeOK
  <1>2. Granted /\ Presented /\ OneAgentPerToken
    BY DEF Granted, Presented, OneAgentPerToken
  <1>3. /\ HubR = {} /\ GateR = {} /\ \A a \in Agents : AgentR(a) = {}
        /\ Pending(hubq, {"logout"}) = {}
    BY DEF HubR, GateR, AgentR, Pending
  <1>4. Flights
    BY <1>3 DEF Flights, Once
  <1>5. Answers
    BY <1>3 DEF Answers
  <1>6. Bindings
    BY <1>3 DEF Bindings, Bound
  <1> QED BY <1>1, <1>2, <1>4, <1>5, <1>6 DEF HandshakeInv

LEMMA HandshakeNext == HandshakeInv /\ [Next]_vars => HandshakeInv'
  <1> SUFFICES ASSUME HandshakeInv, [Next]_vars PROVE HandshakeInv'
    OBVIOUS
  <1>1. CASE UNCHANGED vars
    BY <1>1, LoginInv DEF vars
  <1>2. ASSUME NEW l \in Logins, LoginUnauthorized(l) \/ LoginOk(l) \/ LoginFailed(l)
        PROVE  HandshakeInv'
    BY <1>2, LoginInv DEF LoginUnauthorized, LoginOk, LoginFailed
  <1>3. ASSUME NEW l \in Logins, NEW uid \in Uids, LoginRefused(l, uid)
        PROVE  HandshakeInv'
    BY <1>3, LoginInv DEF LoginRefused
  <1>4. ASSUME NEW uid \in Uids, LoginForget(uid) PROVE HandshakeInv'
    BY <1>4, LoginInv DEF LoginForget
  <1>5. ASSUME NEW fd \in Fds,
               \/ GateOpenRefused(fd) \/ GateCloseUnknown(fd)
               \/ GateCloseEnd(fd) \/ GateKickEnd(fd)
        PROVE  HandshakeInv'
    BY <1>5, GateAloneInv DEF GateOpenRefused, GateCloseUnknown, GateCloseEnd, GateKickEnd
  <1>6. CASE GateConnected \/ GateKickUnknown \/ GateKickRaw
    BY <1>6, GateAloneInv DEF GateConnected, GateKickUnknown, GateKickRaw
  <1>7. CASE Client
    BY <1>2, <1>3, <1>5, <1>7, LoginEnterInv, GateOpenInv, GateCloseBeginInv, ClientHandshakeInv
       DEF Client, GateClose
  <1>8. CASE LoginStep
    BY <1>2, <1>4, <1>8, LoginAccessInv DEF LoginStep
  <1>9. CASE GateStep
    BY <1>5, <1>6, <1>9, GateKickBeginInv, GateRegisterInv, GateCloseBeginInv
       DEF GateStep, GateClose
  <1>10. CASE HubStep
    BY <1>10, HubDoConnectInv, HubDoLogoutInv, HubDoForgetInv, HubDoKickInv, HubGotAgentInv,
       HubStartedInv, HubStartFailedInv, HubRegisteredInv, HubRefusesInv, HubSlaveKickInv,
       HubFirstInv, HubReconnectsInv DEF HubStep
  <1>11. CASE PoolStep
    BY <1>11, PoolGetInv, PoolMissInv, PoolCreatedInv, PoolExpandsInv, AgentRestInv DEF PoolStep
  <1>12. ASSUME NEW a \in Agents, AgentStep(a) PROVE HandshakeInv'
    <2>1. ASSUME NEW r \in Requests,
                 \/ AgentAnswers([req |-> r, agent |-> a])
                 \/ AgentRaises([req |-> r, agent |-> a])
          PROVE  HandshakeInv'
      BY <2>1, AgentAnswersInv DEF AgentAnswers, AgentRaises, AgentStarted
    <2> QED BY <1>12, <2>1, AgentDoStartInv, AgentGoneInv, AgentRestInv DEF AgentStep
  <1>13. ASSUME NEW S \in SUBSET Uids, Timeout(S) PROVE HandshakeInv'
    BY <1>13, TimeoutInv
  <1> QED BY <1>1, <1>7, <1>8, <1>9, <1>10, <1>11, <1>12, <1>13 DEF Next

(* The inductive invariant: at every moment each handshake of hubd has at  *)
(* most one message or coroutine under way, the one it waits for.          *)
THEOREM HandshakeInductive == Spec => []HandshakeInv
  BY HandshakeInit, HandshakeNext, PTL DEF Spec

(* Every message, table and coroutine of the login master, hubd, the gate, *)
(* the pool and the agents keeps its type: no service is sent a field that *)
(* is nil where the code uses it.                                          *)
THEOREM SessionTypeCorrect == Spec => []TypeOK
  <1>1. HandshakeInv => TypeOK
    BY DEF HandshakeInv
  <1> QED BY <1>1, HandshakeInductive, PTL

(* hubd asks agent_mgr for one agent per token, however many handshakes    *)
(* present it: CMD.handshake sets user.conn before it yields.              *)
THEOREM OneAgentPerTokenHolds == Spec => []OneAgentPerToken
  <1>1. HandshakeInv => OneAgentPerToken
    BY DEF HandshakeInv
  <1> QED BY <1>1, HandshakeInductive, PTL

(* gated's connection carries a uid and an agent only by a register that   *)
(* hubd sent for a handshake on that socket, with a granted token, after   *)
(* the agent had started.                                                  *)
THEOREM RegisteredByTokenHolds == Spec => []RegisteredByToken
  <1>1. HandshakeInv => RegisteredByToken
    <2> SUFFICES ASSUME HandshakeInv, NEW fd \in Fds, Bound(fd)
                 PROVE  /\ agentfd[connection[fd].agent] # None
                        /\ \E r \in Requests :
                              /\ hs[r].fd = fd /\ hs[r].pc \in {"register", "done"}
                              /\ user[hs[r].tok].uid = connection[fd].uid
                              /\ user[hs[r].tok].agent = connection[fd].agent
                              /\ attempt[hs[r].tok].pc = "200"
      BY DEF RegisteredByToken
    <2>1. agentfd[connection[fd].agent] # None
      BY DEF HandshakeInv, Bindings
    <2>2. PICK r \in Requests : BoundBy(fd, r)
      BY DEF HandshakeInv, Bindings
    <2>3. hs[r].pc \in {"register", "done"}
      <3>1. ASSUME [type |-> "registered", req |-> r, res |-> TRUE] \in HubR
            PROVE  hs[r].pc = "register"
        BY <3>1 DEF HandshakeInv, Answers, Awaits
      <3> QED BY <2>2, <3>1 DEF BoundBy
    <2>4. attempt[hs[r].tok].pc = "200"
      BY <2>3 DEF HandshakeInv, Presented
    <2> QED BY <2>1, <2>2, <2>3, <2>4 DEF BoundBy, UserOf
  <1> QED BY <1>1, HandshakeInductive, PTL
=============================================================================
