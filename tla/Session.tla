------------------------------ MODULE Session -------------------------------
(***************************************************************************)
(* From a login to a playing client and back: the login master, hubd with  *)
(* hub_slave, one gate, the agent pool and the agents, and the clients     *)
(* that log in, connect, present their tokens and disconnect whenever they *)
(* like.  Each step is one stretch of one service between two yields,      *)
(* joined with the messages it sends.                                      *)
(***************************************************************************)
EXTENDS LoginServer, Hub, Gate, AgentPool

CONSTANTS
    Relogin,     \* may a client log in again with a uid already used?
    Reconnect,   \* may a client present the same token twice?
    ClockPast    \* has skynet.now() overtaken os.time()?  (see Timeout)

ASSUME SessionAssumption == {Relogin, Reconnect, ClockPast} \subseteq BOOLEAN

vars == <<loginVars, hubVars, gateVars, poolVars, agentVars>>

TypeOK == LoginTypeOK /\ HubTypeOK /\ GateTypeOK /\ PoolTypeOK

Init == LoginInit /\ HubInit /\ GateInit /\ PoolInit

-----------------------------------------------------------------------------
(* Login master *)

LoginUnauthorized(l) ==
    Unauthorized(l) /\ UNCHANGED <<hubVars, gateVars, poolVars, agentVars>>

MayLogIn(uid) == Relogin \/ \A k \in Logins : attempt[k].uid # uid

LoginRefused(l, uid) ==
    /\ MayLogIn(uid)
    /\ Refuse(l, uid)
    /\ UNCHANGED <<hubVars, gateVars, poolVars, agentVars>>

(* login_handler sends the kick before it deletes the old entry. *)
LoginEnter(l, uid) ==
    /\ MayLogIn(uid)
    /\ EnterHandler(l, uid)
    /\ IF uid \in user_online THEN HubRecv([type |-> "kick", uid |-> uid])
                              ELSE UNCHANGED hubVars
    /\ UNCHANGED <<gateVars, poolVars, agentVars>>

LoginAccess(l) ==
    /\ Accessed(l)
    /\ Access(l, attempt[l].uid)
    /\ UNCHANGED <<gateVars, poolVars, agentVars>>

LoginOk(l) ==
    HandlerOk(l) /\ UNCHANGED <<hubVars, gateVars, poolVars, agentVars>>

LoginFailed(l) ==
    HandlerFailed(l) /\ UNCHANGED <<hubVars, gateVars, poolVars, agentVars>>

LoginForget(uid) ==
    LoginLogout(uid) /\ UNCHANGED <<hubVars, gateVars, poolVars, agentVars>>

-----------------------------------------------------------------------------
(* Gate: socket events and commands *)

GateOpenRefused(fd) ==
    OpenRefused(fd) /\ UNCHANGED <<loginVars, hubVars, poolVars, agentVars>>

GateOpen(fd) ==
    /\ Open(fd)
    /\ HubRecv([type |-> "connect", fd |-> fd])
    /\ UNCHANGED <<loginVars, poolVars, agentVars>>

GateConnected ==
    Connected /\ UNCHANGED <<loginVars, hubVars, poolVars, agentVars>>

(* A client that was answered 200 sends its token over fd. *)
ClientHandshake(r, fd, l) ==
    /\ attempt[l].pc = "200"
    /\ Reconnect \/ \A q \in Requests : hs[q].tok # l
    /\ RoutedToHub(fd)
    /\ Present(r, fd, l, attempt[l].uid)
    /\ UNCHANGED <<loginVars, gateVars, poolVars, agentVars>>

(* close_agent passes gated's record of the connection to the hub. *)
LogoutMsg(fd) == [type |-> "logout", fd |-> fd, uid |-> connection[fd].uid,
                  agent |-> connection[fd].agent]

GateCloseUnknown(fd) ==
    CloseUnknown(fd) /\ UNCHANGED <<loginVars, hubVars, poolVars, agentVars>>

GateCloseBegin(fd) ==
    /\ CloseBegin(fd)
    /\ HubRecv(LogoutMsg(fd))
    /\ UNCHANGED <<loginVars, poolVars, agentVars>>

GateCloseEnd(fd) ==
    CloseEnd(fd) /\ UNCHANGED <<loginVars, hubVars, poolVars, agentVars>>

GateKickUnknown ==
    KickUnknown /\ UNCHANGED <<loginVars, hubVars, poolVars, agentVars>>

GateKickRaw ==
    KickRaw /\ UNCHANGED <<loginVars, hubVars, poolVars, agentVars>>

GateKickBegin ==
    /\ KickBegin
    /\ HubRecv(LogoutMsg(Head(gateq).fd))
    /\ UNCHANGED <<loginVars, poolVars, agentVars>>

GateKickEnd(fd) ==
    KickEnd(fd) /\ UNCHANGED <<loginVars, hubVars, poolVars, agentVars>>

(* Fault: a register for a connection that is gone is never answered. *)
GateRegisterSilent ==
    /\ Register
    /\ IF Head(gateq).fd \in DOMAIN connection
       THEN HubRecv([type |-> "registered", req |-> Head(gateq).req,
                     res |-> TRUE])
       ELSE UNCHANGED hubVars
    /\ UNCHANGED <<loginVars, poolVars, agentVars>>

(* register answers whether the connection was still there. *)
GateRegister ==
    /\ Register
    /\ HubRecv([type |-> "registered", req |-> Head(gateq).req,
                res |-> Head(gateq).fd \in DOMAIN connection])
    /\ UNCHANGED <<loginVars, poolVars, agentVars>>

-----------------------------------------------------------------------------
(* hubd and hub_slave *)

HubDoConnect ==
    /\ HubConnect
    /\ GateRecv([type |-> "connected", fd |-> Head(hubq).fd])
    /\ UNCHANGED <<loginVars, poolVars, agentVars>>

HubDoLogout ==
    /\ HubLogout
    /\ AgentRecv(Head(hubq).agent, [type |-> "logout"])
    /\ SendLogouts({Head(hubq).uid})
    /\ UNCHANGED gateVars

HubDoForget ==
    HubForget /\ UNCHANGED <<loginVars, gateVars, poolVars, agentVars>>

HubDoKick ==
    /\ HubKick
    /\ LET fd == KickFd(Head(hubq).uid)
       IN  IF fd = None THEN UNCHANGED gateVars
           ELSE GateRecv([type |-> "kick", fd |-> fd, raw |-> FALSE])
    /\ UNCHANGED <<loginVars, poolVars, agentVars>>

HubRefuses(r) ==
    HandshakeRefused(r) /\ UNCHANGED <<loginVars, gateVars, poolVars, agentVars>>

HubRejects(r) ==
    /\ HandshakeUnauthorized(r)
    /\ UNCHANGED <<loginVars, gateVars, poolVars, agentVars>>

HubSlaveKick(r) ==
    SlaveKick(r) /\ UNCHANGED <<loginVars, gateVars, poolVars, agentVars>>

HubFirst(r) ==
    HandshakeFirst(r) /\ AskAgent(r) /\ UNCHANGED <<loginVars, gateVars>>

(* start is told the fd of user.conn, whichever socket the request is on. *)
StartMsg(r) ==
    [type |-> "start", req |-> r, fd |-> user[hs[r].tok].conn]

HubReconnects(r) ==
    /\ HandshakeReconnect(r)
    /\ GateRecv([type |-> "kick", fd |-> user[hs[r].tok].conn, raw |-> TRUE])
    /\ IF user[hs[r].tok].agent = None THEN UNCHANGED <<poolVars, agentVars>>
       ELSE AgentRecv(user[hs[r].tok].agent, StartMsg(r))
    /\ UNCHANGED loginVars

(* Fault: the gate is asked to register before the agent has started. *)
HubGotAgentNoWait ==
    /\ HubHas("got")
    /\ LET m == Head(hubq)
           u == user[hs[m.req].tok]
       IN  /\ user' = [user EXCEPT ![hs[m.req].tok].agent = m.agent]
           /\ HsTo(m.req, "register")
           /\ AgentRecv(m.agent, StartMsg(m.req))
           /\ GateRecv([type |-> "register", req |-> m.req, fd |-> hs[m.req].fd,
                        uid |-> u.uid, agent |-> m.agent])
    /\ hubq' = Tail(hubq)
    /\ UNCHANGED <<User_Map, FD_Map, loginVars>>

(* The agent agent_mgr handed out is started. *)
HubGotAgent ==
    /\ GotAgent
    /\ AgentRecv(Head(hubq).agent, StartMsg(Head(hubq).req))
    /\ UNCHANGED <<loginVars, gateVars>>

HubStarted ==
    /\ Started
    /\ LET r == Head(hubq).req
           u == user[hs[r].tok]
       IN  GateRecv([type |-> "register", req |-> r, fd |-> hs[r].fd,
                     uid |-> u.uid, agent |-> u.agent])
    /\ UNCHANGED <<loginVars, poolVars, agentVars>>

HubStartFailed ==
    StartFailed /\ UNCHANGED <<loginVars, gateVars, poolVars, agentVars>>

HubRegistered ==
    Registered /\ UNCHANGED <<loginVars, gateVars, poolVars, agentVars>>

(* The timeout loop compares skynet.now(), hundredths of a second since    *)
(* the node started, with os.time(), seconds since 1970: it reaps nobody   *)
(* until the node has run for months, and then anybody without a conn.     *)
Timeout(S) ==
    /\ ClockPast
    /\ S # {}
    /\ Reap(S)
    /\ SendLogouts(S)
    /\ UNCHANGED <<gateVars, poolVars, agentVars>>

-----------------------------------------------------------------------------
(* Agent pool and agents *)

PoolGet(r) ==
    /\ GetPooled(r)
    /\ HubRecv([type |-> "got", req |-> r, agent |-> pool[Len(pool)]])
    /\ UNCHANGED <<loginVars, gateVars>>

PoolMiss(r) == GetMiss(r) /\ UNCHANGED <<loginVars, hubVars, gateVars>>

PoolCreated(w) == GetCreated(w) /\ UNCHANGED <<loginVars, hubVars, gateVars>>

PoolExpands(w) ==
    /\ ExpandPool(w)
    /\ IF w.left = 1
       THEN HubRecv([type |-> "got", req |-> w.req, agent |-> w.agent])
       ELSE UNCHANGED hubVars
    /\ UNCHANGED <<loginVars, gateVars>>

AgentDoStart(a) == AgentStart(a) /\ UNCHANGED <<loginVars, hubVars, gateVars>>

AgentAnswers(c) ==
    /\ AgentStarted(c)
    /\ HubRecv([type |-> "started", req |-> c.req])
    /\ UNCHANGED <<loginVars, gateVars>>

(* An error in start is raised again in hubd. *)
AgentRaises(c) ==
    /\ AgentStarted(c)
    /\ HubRecv([type |-> "failed", req |-> c.req])
    /\ UNCHANGED <<loginVars, gateVars>>

(* skynet answers a call of a dead service with an error and drops the     *)
(* rest.                                                                   *)
AgentGone(a) ==
    /\ AgentDead(a)
    /\ IF AgentHas(a, "start")
       THEN HubRecv([type |-> "failed", req |-> Head(agentq[a]).req])
       ELSE UNCHANGED hubVars
    /\ UNCHANGED <<loginVars, gateVars>>

AgentDoLogout(a) == AgentLogout(a) /\ UNCHANGED <<loginVars, hubVars, gateVars>>
AgentDoSaved(a) == AgentSaved(a) /\ UNCHANGED <<loginVars, hubVars, gateVars>>
AgentDoSaveRaised(a) ==
    AgentSaveRaised(a) /\ UNCHANGED <<loginVars, hubVars, gateVars>>
PoolRecycle(a) == Recycle(a) /\ UNCHANGED <<loginVars, hubVars, gateVars>>

-----------------------------------------------------------------------------
(* The socket's close or error event reaches the gate. *)
GateClose(fd) ==
    GateCloseUnknown(fd) \/ GateCloseBegin(fd)

(* The clients choose when to log in, connect, speak and hang up. *)
Client ==
    \/ \E l \in Logins : LoginUnauthorized(l)
    \/ \E l \in Logins, uid \in Uids : LoginRefused(l, uid) \/ LoginEnter(l, uid)
    \/ \E fd \in Fds : GateOpenRefused(fd) \/ GateOpen(fd)
    \/ \E fd \in Fds : sock[fd] = "open" /\ GateClose(fd)
    \/ \E r \in Requests, fd \in Fds, l \in Logins : ClientHandshake(r, fd, l)

(* The rest is the server's, one disjunct per service. *)
LoginStep ==
    \/ \E l \in Logins : LoginAccess(l) \/ LoginOk(l) \/ LoginFailed(l)
    \/ \E uid \in Uids : LoginForget(uid)

GateStep ==
    \/ GateConnected \/ GateKickUnknown \/ GateKickRaw \/ GateKickBegin
    \/ GateRegister
    \/ \E fd \in Fds : sock[fd] = "closing" /\ GateClose(fd)
    \/ \E fd \in Fds : GateCloseEnd(fd) \/ GateKickEnd(fd)

HubStep ==
    \/ HubDoConnect \/ HubDoLogout \/ HubDoForget \/ HubDoKick
    \/ HubGotAgent \/ HubStarted \/ HubStartFailed \/ HubRegistered
    \/ \E r \in Requests : \/ HubRefuses(r) \/ HubRejects(r) \/ HubSlaveKick(r)
                           \/ HubFirst(r) \/ HubReconnects(r)

PoolStep ==
    \/ \E r \in Requests : PoolGet(r) \/ PoolMiss(r)
    \/ \E w \in spawning : PoolCreated(w) \/ PoolExpands(w)
    \/ \E a \in Agents : PoolRecycle(a)

AgentStep(a) ==
    \/ AgentDoStart(a) \/ AgentGone(a) \/ AgentDoLogout(a)
    \/ AgentDoSaved(a) \/ AgentDoSaveRaised(a)
    \/ \E r \in Requests : \/ AgentAnswers([req |-> r, agent |-> a])
                           \/ AgentRaises([req |-> r, agent |-> a])

Next ==
    \/ Client \/ LoginStep \/ GateStep \/ HubStep \/ PoolStep
    \/ \E a \in Agents : AgentStep(a)
    \/ \E S \in SUBSET Uids : Timeout(S)

Spec == Init /\ [][Next]_vars

(* skynet's workers keep running every service that has a message; clients *)
(* owe nothing, and the timeout is left out: it must never be needed.      *)
Fairness ==
    /\ WF_vars(LoginStep)
    /\ WF_vars(GateStep)
    /\ WF_vars(HubStep)
    /\ WF_vars(PoolStep)
    /\ \A a \in Agents : WF_vars(AgentStep(a))

FairSpec == Spec /\ Fairness

-----------------------------------------------------------------------------
(* Properties that hold whatever the clients do. *)

(* user_login is exactly the set of uids with a coroutine in login_handler,*)
(* and there is one such coroutine per uid: accept's check, the lock and   *)
(* both unlocks (after success and after an error) match up.               *)
LoginLock ==
    \A uid \in Uids :
        LET inside == {l \in Logins : /\ attempt[l].uid = uid
                                      /\ attempt[l].pc \in InHandler}
        IN  /\ uid \in user_login <=> inside # {}
            /\ \A k, l \in inside : k = l

(* Whenever gateserver dispatches a client's message, gated has a          *)
(* connection for it: handler.message never indexes nil, although the two  *)
(* tables change around a yield.                                           *)
Routable ==
    \A fd \in Fds : sock[fd] = "open" /\ gs[fd] = "true"
                        => fd \in DOMAIN connection

(* client_number counts the sockets gateserver knows, through overlapping  *)
(* kicks and closes, and never exceeds maxclient.                          *)
ClientNumberExact ==
    /\ client_number = Cardinality({fd \in Fds : gs[fd] # "nil"})
    /\ client_number <= MaxClient

(* However many handshakes present one token, only one of them ever waits  *)
(* for an agent, and only while the user has none: user.conn is set before *)
(* CMD.handshake yields.                                                   *)
OneAgentPerToken ==
    \A r \in Requests : hs[r].pc = "get" =>
        /\ user[hs[r].tok].agent = None
        /\ \A q \in Requests : hs[q].pc = "get" /\ hs[q].tok = hs[r].tok
                                 => q = r

Bound(fd) == fd \in DOMAIN connection /\ connection[fd].uid # None

(* A connection carries a uid and an agent only if a handshake on that     *)
(* very socket presented a token the login server granted to that uid,     *)
(* hubd gave the token's user that agent, and the agent had been started   *)
(* before the gate was asked to route to it.                               *)
RegisteredByToken ==
    \A fd \in Fds : Bound(fd) =>
        /\ agentfd[connection[fd].agent] # None
        /\ \E r \in Requests :
               /\ hs[r].fd = fd
               /\ hs[r].pc \in {"register", "done"}
               /\ user[hs[r].tok].uid = connection[fd].uid
               /\ user[hs[r].tok].agent = connection[fd].agent
               /\ attempt[hs[r].tok].pc = "200"

-----------------------------------------------------------------------------
(* Properties that hold when no client logs in or presents its token again *)

(* The client is connected and nothing is closing its connection. *)
Playing(fd) ==
    /\ Bound(fd)
    /\ sock[fd] = "open"
    /\ fd \notin closing
    /\ kicking[fd] = 0

(* An agent serves one client at a time: the pool holds no agent twice and *)
(* none that a playing client is bound to, and no two playing clients      *)
(* share one ("pool: the least agent", "agent_map: all of agent, include   *)
(* dispatched").                                                           *)
AgentExclusive ==
    /\ \A i, j \in DOMAIN pool : i # j => pool[i] # pool[j]
    /\ \A fd \in Fds : Playing(fd) =>
           /\ \A i \in DOMAIN pool : pool[i] # connection[fd].agent
           /\ \A g \in Fds \ {fd} : Playing(g) =>
                  connection[g].agent # connection[fd].agent

(* The agent a playing client is routed to accepts its messages: the       *)
(* agent's _fd is that socket (client.lua drops any other fd with an       *)
(* error).                                                                 *)
ClientHeard ==
    \A fd \in Fds : Playing(fd) => agentfd[connection[fd].agent] = fd

(* The agent a handshake waits for is alive, and will answer: whatever the *)
(* logouts of other clients give back or have killed, agent_slave kills no *)
(* agent between its get and the end of its start.                         *)
StartAlive ==
    \A r \in Requests : hs[r].pc = "start" => user[hs[r].tok].agent \in agent_map

(* hubd knows every playing client, whatever the timeout loop reaps while  *)
(* its handshake waits.                                                    *)
SessionKnown ==
    \A fd \in Fds : Playing(fd) => User_Map[connection[fd].uid] # None

(* No uid plays on two connections ("disallow multilogin"). *)
OnePlayingPerUid ==
    \A f, g \in Fds : Playing(f) /\ Playing(g) /\ f # g
                        => connection[f].uid # connection[g].uid

(* The agent was killed while it ran the start of request r, which nobody  *)
(* will answer.                                                            *)
Stranded(r) == \E c \in loading : c.req = r /\ c.agent \notin agent_map

(* Every handshake hubd receives is answered or ends in an error; its      *)
(* three calls are left without an answer only if agent_slave kills the    *)
(* agent in the middle of start.                                           *)
HandshakeEnds ==
    \A r \in Requests : hs[r].pc = "sent" ~> hs[r].pc \in Outcome \/ Stranded(r)

(* Nobody has anything left to do for a client. *)
Quiet ==
    /\ hubq = <<>> /\ gateq = <<>> /\ closing = {}
    /\ gets = {} /\ spawning = {} /\ loading = {}
    /\ \A a \in Agents : agentq[a] = <<>>

(* hubd forgets every socket that has closed, also one whose client left   *)
(* in the middle of the handshake: once the messages are handled, FD_Map   *)
(* holds open sockets only.                                                *)
ClosedForgotten == Quiet => \A fd \in FD_Map : sock[fd] # "closed"
=============================================================================
