-------------------------------- MODULE Hub ---------------------------------
(***************************************************************************)
(* hubd, the service that turns a token into a session, and hub_slave, its *)
(* relay beside each gate.  hubd's messages, answers to its own calls      *)
(* included, are handled one at a time in order of arrival; CMD.handshake  *)
(* yields three times, and what it captured before (the user object) may   *)
(* have been logged out of User_Map meanwhile.                             *)
(***************************************************************************)
EXTENDS Entities

VARIABLES
    hubq,        \* messages of hubd, oldest first
    User_Map,    \* uid -> user object (named by its token) or None
    user,        \* the user objects: uid, conn.fd and agent
    FD_Map,      \* fds connected and not yet registered
    hs           \* the handshake requests

hubVars == <<hubq, User_Map, user, FD_Map, hs>>

HubMsg ==
    [type: {"connect"}, fd: Fds]
        \cup [type: {"logout"}, fd: Fds, uid: Uids \cup {None},
              agent: Agents \cup {None}]
        \cup [type: {"handshake", "started", "failed"}, req: Requests]
        \cup [type: {"kick"}, uid: Uids]
        \cup [type: {"got"}, req: Requests, agent: Agents]
        \cup [type: {"registered"}, req: Requests, res: BOOLEAN]

(* "sent": on its way; "get", "start", "register": waiting for the answer  *)
(* to that call; "refused": answered 1 or 2; "unauthorized": answered 3,   *)
(* hub_slave has yet to ask for the kick, "kicked": it has; "error": an    *)
(* error was raised before register; "asserted": assert(res) failed.       *)
Outcome == {"done", "refused", "kicked", "error", "asserted"}
HsPc == {"none", "sent", "get", "start", "register", "unauthorized"}
            \cup Outcome

HubTypeOK ==
    /\ hubq \in Seq(HubMsg)
    /\ User_Map \in [Uids -> Logins \cup {None}]
    /\ user \in [Logins -> [uid: Uids \cup {None}, conn: Fds \cup {None},
                            agent: Agents \cup {None}]]
    /\ FD_Map \subseteq Fds
    /\ hs \in [Requests -> [pc: HsPc, fd: Fds \cup {None},
                            tok: Logins \cup {None}, uid: Uids \cup {None}]]

HubInit ==
    /\ hubq = <<>>
    /\ User_Map = [uid \in Uids |-> None]
    /\ user = [l \in Logins |-> [uid |-> None, conn |-> None, agent |-> None]]
    /\ FD_Map = {}
    /\ hs = [r \in Requests |->
               [pc |-> "none", fd |-> None, tok |-> None, uid |-> None]]

HubRecv(m) ==
    /\ hubq' = Append(hubq, m)
    /\ UNCHANGED <<User_Map, user, FD_Map, hs>>

HubHas(type) == hubq # <<>> /\ Head(hubq).type = type

HsTo(r, pc) == hs' = [hs EXCEPT ![r].pc = pc]

(* CMD.access: a new user object replaces whatever uid had. *)
Access(l, uid) ==
    /\ User_Map' = [User_Map EXCEPT ![uid] = l]
    /\ user' = [user EXCEPT
                  ![l] = [uid |-> uid, conn |-> None, agent |-> None]]
    /\ UNCHANGED <<hubq, FD_Map, hs>>

(* CMD.connect. *)
HubConnect ==
    /\ HubHas("connect")
    /\ hubq' = Tail(hubq)
    /\ FD_Map' = FD_Map \cup {Head(hubq).fd}
    /\ UNCHANGED <<User_Map, user, hs>>

(* CMD.logout of a connection that has a uid: whatever user object the uid *)
(* has now is dropped.                                                     *)
HubLogout ==
    /\ HubHas("logout")
    /\ Head(hubq).uid # None
    /\ hubq' = Tail(hubq)
    /\ User_Map' = [User_Map EXCEPT ![Head(hubq).uid] = None]
    /\ UNCHANGED <<user, FD_Map, hs>>

(* CMD.logout of a connection that never got a uid. *)
HubForget ==
    /\ HubHas("logout")
    /\ Head(hubq).uid = None
    /\ hubq' = Tail(hubq)
    /\ FD_Map' = FD_Map \ {Head(hubq).fd}
    /\ UNCHANGED <<User_Map, user, hs>>

(* CMD.kick reads user.conn.gate: without a user nothing happens, without  *)
(* a conn it is an error.  KickFd is the socket to kick, if any.           *)
KickFd(uid) == IF User_Map[uid] = None THEN None ELSE user[User_Map[uid]].conn

HubKick ==
    /\ HubHas("kick")
    /\ hubq' = Tail(hubq)
    /\ UNCHANGED <<User_Map, user, FD_Map, hs>>

(* CMD.handshake up to its first yield, case by case. *)
Present(r, fd, l, uid) ==
    /\ hs[r].pc = "none"
    /\ hs' = [hs EXCEPT ![r] = [pc |-> "sent", fd |-> fd, tok |-> l,
                                uid |-> uid]]
    /\ hubq' = Append(hubq, [type |-> "handshake", req |-> r])
    /\ UNCHANGED <<User_Map, user, FD_Map>>

(* The checks of CMD.handshake passed: the socket waits for a handshake    *)
(* and the token is the one User_Map holds for the uid.                    *)
TokenAccepted(r) ==
    /\ hs[r].fd \in FD_Map
    /\ User_Map[hs[r].uid] = hs[r].tok

(* Answers 1 and 2: no such socket, no such user.  hub_slave then calls    *)
(* socket.close, which ignores a socket another service owns.              *)
HandshakeRefused(r) ==
    /\ HubHas("handshake") /\ r = Head(hubq).req
    /\ hs[r].fd \notin FD_Map \/ User_Map[hs[r].uid] = None
    /\ hubq' = Tail(hubq)
    /\ HsTo(r, "refused")
    /\ UNCHANGED <<User_Map, user, FD_Map>>

(* Answer 3: the token is not the user's. *)
HandshakeUnauthorized(r) ==
    /\ HubHas("handshake") /\ r = Head(hubq).req
    /\ hs[r].fd \in FD_Map
    /\ User_Map[hs[r].uid] \notin {None, hs[r].tok}
    /\ hubq' = Tail(hubq)
    /\ HsTo(r, "unauthorized")
    /\ UNCHANGED <<User_Map, user, FD_Map>>

(* Fault: user.conn is left unset when CMD.handshake yields. *)
HandshakeFirstNoConn(r) ==
    /\ HubHas("handshake") /\ r = Head(hubq).req
    /\ TokenAccepted(r)
    /\ user[hs[r].tok].conn = None
    /\ hubq' = Tail(hubq)
    /\ HsTo(r, "get")
    /\ UNCHANGED <<User_Map, user, FD_Map>>

(* A first handshake: the user takes the socket, an agent is asked for. *)
HandshakeFirst(r) ==
    /\ HubHas("handshake") /\ r = Head(hubq).req
    /\ TokenAccepted(r)
    /\ user[hs[r].tok].conn = None
    /\ hubq' = Tail(hubq)
    /\ user' = [user EXCEPT ![hs[r].tok].conn = hs[r].fd]
    /\ HsTo(r, "get")
    /\ UNCHANGED <<User_Map, FD_Map>>

(* A reconnect: user.conn stays the old connection.  If the first          *)
(* handshake still waits for its agent, calling nil is an error.           *)
HandshakeReconnect(r) ==
    /\ HubHas("handshake") /\ r = Head(hubq).req
    /\ TokenAccepted(r)
    /\ user[hs[r].tok].conn # None
    /\ hubq' = Tail(hubq)
    /\ HsTo(r, IF user[hs[r].tok].agent = None THEN "error" ELSE "start")
    /\ UNCHANGED <<User_Map, user, FD_Map>>

(* agent_mgr answered: the user gets the agent, the agent is started. *)
GotAgent ==
    /\ HubHas("got")
    /\ LET m == Head(hubq)
       IN  /\ user' = [user EXCEPT ![hs[m.req].tok].agent = m.agent]
           /\ HsTo(m.req, "start")
    /\ hubq' = Tail(hubq)
    /\ UNCHANGED <<User_Map, FD_Map>>

(* The agent answered start: the gate is asked to register the socket. *)
Started ==
    /\ HubHas("started")
    /\ HsTo(Head(hubq).req, "register")
    /\ hubq' = Tail(hubq)
    /\ UNCHANGED <<User_Map, user, FD_Map>>

(* The call of start raised an error: the agent's, or it is dead. *)
StartFailed ==
    /\ HubHas("failed")
    /\ HsTo(Head(hubq).req, "error")
    /\ hubq' = Tail(hubq)
    /\ UNCHANGED <<User_Map, user, FD_Map>>

(* Fault: FD_Map keeps the socket that was registered. *)
RegisteredKeepsFd ==
    /\ HubHas("registered")
    /\ HsTo(Head(hubq).req, IF Head(hubq).res THEN "done" ELSE "asserted")
    /\ hubq' = Tail(hubq)
    /\ UNCHANGED <<User_Map, user, FD_Map>>

(* The gate answered: assert(res), then the socket leaves FD_Map. *)
Registered ==
    /\ HubHas("registered")
    /\ LET m == Head(hubq)
       IN  /\ HsTo(m.req, IF m.res THEN "done" ELSE "asserted")
           /\ FD_Map' = IF m.res THEN FD_Map \ {hs[m.req].fd} ELSE FD_Map
    /\ hubq' = Tail(hubq)
    /\ UNCHANGED <<User_Map, user>>

(* hub_slave's client library answers the client, then kicks the uid. *)
SlaveKick(r) ==
    /\ hs[r].pc = "unauthorized"
    /\ HsTo(r, "kicked")
    /\ hubq' = Append(hubq, [type |-> "kick", uid |-> hs[r].uid])
    /\ UNCHANGED <<User_Map, user, FD_Map>>

(* Fault: users whose handshake is under way are reaped too. *)
ReapAll(S) ==
    /\ S \subseteq {uid \in Uids : User_Map[uid] # None}
    /\ User_Map' = [uid \in Uids |-> IF uid \in S THEN None
                                     ELSE User_Map[uid]]
    /\ UNCHANGED <<hubq, user, FD_Map, hs>>

(* handshake_timeout reaps users that never connected. *)
Reap(S) ==
    /\ S \subseteq {uid \in Uids : User_Map[uid] # None
                                     /\ user[User_Map[uid]].conn = None}
    /\ User_Map' = [uid \in Uids |-> IF uid \in S THEN None
                                     ELSE User_Map[uid]]
    /\ UNCHANGED <<hubq, user, FD_Map, hs>>
=============================================================================
