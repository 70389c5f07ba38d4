# AntServer in TLA+

AntServer is a game server on skynet. A skynet service is a single-threaded
actor with a mailbox; each message is handled by a coroutine, and a coroutine
that *calls* another service yields until the answer comes, so the handlers of
one service interleave at their calls. The models of services follow one rule:
**an action is one stretch of one service's code between two yields**, with all the
messages it sends. The C libraries under `lualib-src` run to the end of each call,
so there an action is one call.

## Inventory

| Component | Code | State it keeps | Operations |
|---|---|---|---|
| login master | `service/login/logind.lua`, `logind/loginserver.lua`, `logind/login_logic.lua` | `user_login` (uids in `login_handler`), `user_online` | accept a socket, ask a slave to authorise, lock, call hubd's `access`, answer, unlock; `logout` from hubd |
| hub | `service/game/hubd.lua`, `hub_slave.lua` | `User_Map` (uid to token, conn, agent), `FD_Map` (sockets before the handshake) | `access`, `connect`, `logout`, `kick`, `handshake`, timeout loop |
| TCP gate | `service/game/gated.lua`, `gate/gateserver_tcp.lua` | gateserver's `connection`, `client_number`; gated's `connection` (fd to uid and agent) | socket open/close/error/data; commands `register`, `kick` |
| agent pool | `service/agent/agent_slave.lua`, `agent_mgr.lua` | `pool`, `agent_map` | `get`, `recycle`, `expand_pool` |
| agent | `service/agent/cmds/index.lua`, `lualib/service/client.lua`, `service/agent/mods/index.lua`, `mods/profile`, `mods/property`, `mods/battle` | `_fd`, the profile object, modules and their data, hash codes of what was saved | `start`, `born`, `logout`, load and save of modules |
| transactions | `service/common/transactiond.lua`, `lualib/transaction/transaction.lua` | `active`, `queue`, `session`, `link`; per service `session_pool` | `create`, `query`, `link`, `release`; `call`, `dispatch` |
| WebSocket gate | `service/game/gate/gateserver_ws.lua` | as the TCP gate, plus the upgrade | as the TCP gate |
| rudp | `lualib-src/rudp/rudp.c`, `lua-rudp.c` | queues of messages to send, sent and received; id window; requests to answer | `send`, `recv`, `update` |
| sorted sets | `lualib-src/lua-zset` | a skip list with spans and backward links; scores by member | `add`, `rem`, `limit`, `rev_limit`; rank, range and score queries |
| battle, arenas | `service/battle/battled.lua`, `arena_mgr.lua` | UDP sessions, arenas | register, dispatch, keepalive |
| redis backup | `service/common/redisbackup.lua` | commands sent and not answered | save a key, load a key, commit, reconnect |
| timers | `service/skynet_api/skynet_timer.lua`, `skynet_timermgr.lua` | timers by id | add, remove, tick |
| AOI | `lualib-src/skynet_aoi/aoi/aoi.c`, `lua-aoi.c`, `aoi.lua` | a hash map of counted objects, hot pairs | update, drop, message |

How they interact: a client logs in (login master **calls** hubd's `access`,
which stores the token), connects to a gate (gate **calls** hubd's `connect`)
and sends its token (`handshake`). hubd then **calls** the agent pool (`get`),
the agent (`start`) and the gate (`register`); from then on the gate routes the
client's messages to its agent. When the socket closes, the gate tells hubd
(`logout`), hubd **sends** `logout` to the agent and to the login master, and the
agent saves and **sends** `recycle` to the pool. A second handshake with the same
token is a reconnect: hubd **sends** the gate a raw `kick` of the old socket and
starts the same agent again. Inside an agent, `start` loads the player's profile and,
if it names a role on this server, the role's modules; `born` makes a role under a uin
from redis, and every load and save **calls** a database pool. rudp, AOI and sorted sets
are C libraries kept with the server for datagrams, scenes and rankings; they share
nothing with the services above, and no service of the repository calls rudp or a sorted
set yet.

What is hard: the yields inside `handshake`, `close_agent`, `expand_pool` and
`query_session`; the two tables of the gate, which change on different sides of a
yield; late logouts; errors raised across services; agents killed under a call; transactions queueing behind one
another; the coroutines of one agent that share modules, profile and hash codes, and a
node that stops between two writes; datagrams lost, repeated and reordered while ids
wrap and histories expire; objects freed while pairs still name them; the links and
spans of a list that every change has to repair. `PROJECT.json` lists these hazards line by line. What makes each part
correct: the login lock admits one coroutine per uid and is always given back; the
gate never routes a message it has no record of and counts its sockets exactly;
one token gets one agent and a socket is bound only by a handshake on it; an agent
serves one client and is not killed under a handshake, so every handshake ends;
transactions act one after the other and all get their turn unless one of them dies
with the lock; a role is one player's, complete once a profile names it; rudp
gives messages in order and at most once; AOI tells every pair that comes near, once;
a sorted set answers as if it were sorted anew for each question.

## Modules

| Module | Models |
|---|---|
| `Entities` | the constants all session modules share (uids, sockets, requests, agents) |
| `LoginServer` | the login master. `attempt[l]` is the coroutine of login `l`; `Refuse`, `EnterHandler`, `Accessed`, `HandlerOk`, `HandlerFailed` are the stretches of `accept` and `login_handler` |
| `Gate` | gateserver and gated. `gs` is gateserver's table (true from `MSG.open` on, false once the gate itself has closed the socket and its close event is still due, nil after `close_fd`), `connection` is gated's; `closing` and `kicking` are the coroutines inside `close_agent` |
| `Hub` | hubd, with hub_slave folded in. `hs[r]` is the coroutine of handshake `r`, with one `pc` value per yield; a token is named by its login |
| `AgentPool` | agent_slave's pool and the agents' `start` and `logout`, which may end in an error (`AgentSaveRaised`, `AgentRaises` of `Session`); the coroutines of a killed agent stay in `loading` and `saving` for ever |
| `Session` | the composition: each action joins a step of one module with the messages it sends to the others, and the properties |
| `Transaction` | transactiond, the transaction library in every service, and transactions that call services in sequence or nested |
| `SerialTransactions` | the abstract specification `Transaction` implements |
| `Roles` | `start`, `born` and `logout` inside the agents. `profile`, `saved` and `max_uin` are the databases, `profiled`, `mods` and `hashcodes` what the coroutines of an agent share, `threads` the coroutines that wait; `Serve*` is a database doing its part, the actions named after the code are the stretches from an answer to the next call |
| `Rudp` | two rudp objects (`U`), the datagrams between them (`net`, a set that only grows), and what the receive callback was given (`got`). `rudp_send` and `lupdate` are the two calls of the Lua binding; `Frame` and `Deliver` are `lupdate` without and with a datagram |
| `Aoi` | objects with reference counts, hot pairs, `aoi_update`, `aoi_drop` (mode `d`) and `aoi_message`; `told` and `far` record what the caller was told of a pair's current versions |
| `AoiSpace` | `Aoi` joined with the map of objects as a hash table: chains, displaced members, `lastfree`, slots kept by freed objects, `rehash` |
| `SortedSet` | the abstract specification of a sorted set: a score for each member |
| `Zset` | the skip list and the score table that implement it; each function of `skiplist.c` is an operator from a list to a list or to an answer |
| `MCSession`, `MCTransaction`, `MCRoles`, `MCRudp`, `MCAoi`, `MCZset` | instances for TLC |
| `MailboxLemmas` | facts about `Head`, `Tail`, `Append` and front of a sequence |
| `TransactionProofs` | theorems about `Transaction` |
| `SessionProofs`, `HandshakeProofs`, `CalmProofs` | theorems about `Session`: the login lock and the gate's tables; the handshakes; sessions of clients that log in and present their token once |
| `AoiProofs` | theorems about `Aoi`: references and pairs |
| `RolesProofs` | theorems about `Roles`: whatever runs on an agent, and players who had their agents to themselves |
| `RudpProofs` | theorems about `Rudp` |

Abstractions that a reader of the code should know:

- A login's challenge and key exchange is one choice: authorised or not. A
  token is the login attempt that obtained it, so secrets and subids compare
  equal exactly when the logins do.
- hub_slave only relays, so it is part of hubd. When a handshake is refused with
  1 or 2, hub_slave calls `socket.close` on a socket the gate owns, which does
  nothing; after 3 it asks for a kick (`SlaveKick`).
- The call of `access` may have reached hubd when its answer is lost:
  `LoginFailed` is possible before and after `LoginAccess`.
- The handshake timeout compares `skynet.now()` (hundredths of a second since
  start) with a stamp from `os.time()` (seconds since 1970). It reaps nobody for
  months and then anybody without a connection: `ClockPast` selects which, and
  `Timeout` reaps any set of such users.
- The pool is empty at first. `main_game.lua` gets and recycles one agent after
  the gates are open, which a client may outrun.
- `user_online` is never filled (logind.lua:64, see the findings), so the kick
  of a previous login is in the model and never happens.
- The watch coroutine of a transaction's session is forked with no yield between
  the fork and the action, so `Execute` does both. A service makes one call at a
  time for a session, and no call comes back to a service that waits in the same
  chain (it would block on that service's `skynet.queue`).
- An error that a service's code raises inside a call (an assertion, a database, the
  cluster) raises again in the caller: `AgentRaises` of `start` in hubd's handshake, `Raise` of
  a transaction's action in its caller, `Fail` of any call of `Roles`. The coroutine ends
  there and leaves the memory as it is. Where the caller may have a `pcall` of its own
  (a service that calls further services in a transaction), both outcomes are possible.
- `skynet.kill` answers the messages that are queued at the agent with an error
  (`AgentGone`). A call that the agent had already begun is never answered.
- Roles: a call of a database is served at any moment after it is made and answered at
  any moment after that, so calls of different coroutines overtake each other. `set_uin`
  yields too, in `cluster.proxy`, before the modules are registered (`pc` "proxy"). Any
  call may fail, before or after the database has done its part. An agent is started
  from the pool, for the first or another login of a player, or again by a player who
  connects again, so a player may have two agents; `late` holds the players whose older
  client's logout the agent has still to get. A uin is
  the number `hincrby` returns; a record is the name it was made for. A hash code tells
  any two records apart (the code's has 32 bits). `mixed` names the players of
  coroutines that ran on one agent at the same time; it only selects what two of the
  properties (`RoleComplete`, `RecycledSaved`) speak of. A node that stops loses everything but the databases.
- Rudp: a message's contents are its number; `MsgSize` gives its size, which may be 0. `WireIds` stands for 65536, and each end
  starts just below the first wrap, with `Start` messages behind it. A damaged datagram
  is one cut inside an entry; the entries before the cut are handled, as in
  `extract_package`. The free list and the buffers are left out.
- Aoi: a position is a triple of integers (the Lua binding converts integers), the
  comparison with a quarter of the squared radius is multiplied out. The four sets of
  `set_push` are sets, since the order of callbacks inside one message is not promised.
- Zset: a node is named by its member, since a member is in the list at most once;
  `slRandomLevel` is any level. Scores are numbers that compare (no NaN). The number
  `stop` says at which call the delete handler raises an error, if it is reached.
- The fault operators (comment "Fault: ...") are not part of any specification;
  they are the variants the properties are tested against.

## Runs

`session` (1 uid, 2 logins, 3 sockets at a limit of 2, 2 handshakes, pool limit 1,
expansion by 1, 3 agents; 1,503,249 states): logins repeat and tokens are presented twice. Checks
`LoginLock`, `Routable`, `ClientNumberExact`, `OneAgentPerToken` and
`RegisteredByToken`, which need no assumption on the clients. One uid makes the two
logins collide; three sockets overflow the limit; two handshakes are the fewest
that overlap.

`session_calm` (2 uids, 2 logins, 2 sockets, 2 handshakes, timeout loop awake): each
user logs in and presents the token once. Checks `AgentExclusive`, `ClientHeard`, `StartAlive`
(the agent a handshake waits for is alive, so its `start` is answered), `SessionKnown` and
`ClosedForgotten`, with starts and saves that may raise an error. Two gets that both find
the pool empty make four agents for a pool that keeps two, so recycled agents are killed.

`session_live` (1 login, 2 sockets, 2 handshakes, reconnects, `maxnum` 0 so that
agents are killed): `TypeOK`, and `HandshakeEnds` under weak fairness of each service: every handshake is
answered or ends in an error, unless its agent is killed in the middle of `start` (`Stranded`).
The exception is real here: a reconnect starts an agent that the old socket's late logout
then gives back (the finding of `session_pool`). Without reconnects `StartAlive` excludes it.

`session_reconnect`, `session_pool`, `session_multilogin` find what the code does
against its own comments and error messages:

- `ClientHeard` with reconnects: `start` is given `user.conn.fd`, the *old* socket,
  while the new one is registered. The agent answers every message of the client
  with the error "agent dispatch client msg fd is error".
- `AgentExclusive` with reconnects: the old socket's logout, handled late, makes the
  agent recycle itself although the reconnected client uses it.
- `OnePlayingPerUid` with repeated logins: both clients play, because logind.lua:64
  calls `get_user_online` where `add_user_online` is meant.

`transaction` (3 transactions, 2 services, one transaction with two calls and two with
one, so one is active while two wait): `TypeOK`, `Isolation`, `NoLostWakeup`, the
liveness property `AllReleased`, and the refinement `SerialExecution`. Any action may raise an
error. `AllReleased` says that in the end every created transaction is released, or the active one
is one whose creator an error has ended; so nothing but that keeps a transaction waiting.

`rudp` (two ends, three messages one way and two the other, 8 wire ids starting at 6, expiry after 2
ticks, one message empty and one larger than a package, datagrams cut at both ends): `TypeOK`,
`InOrder`, `SkippedOnlyMissing` (an id is passed without the callback only if it was said to be
MISSING or its message is empty), `QueueClosed`, `QueuedAsSent`, `Retained`. The ids pass the wrap, a
message leaves a history while it may still be asked for, and a queue of three holds a gap with two
messages behind it. `rudp_assert` is the same without damage and finds `request_missing`'s assertion
(rudp.c:421) false: `insert_message` queues a message again that arrives again while it waits behind
a gap, and the next output aborts.

`aoi` (a watcher, a marker, and an object that is both or neither; four positions on a
line with every distance class: inside half the radius, inside it, between one and two
radii, beyond; two versions; a map of two slots for three ids, so that ids collide,
displace each other and force a rehash): `RefExact`, `AccountedFor`, `ToldOnce`,
`MapFinds`, `MapChained`.

`zset` (four members, two scores, three levels): every insertion and removal at every
level, ties of scores included, and limits with handlers that raise an error at every
call. The links (`SpansExact`, `BackwardExact`), the table (`TableAgrees`), every rank,
range and score query (`QueriesAgree`), and `ImplementsSortedSet`, the refinement of
`SortedSet` with `Content` (the scores of the nodes) for its variable. Four members are
the fewest with an inner node that has two neighbours on a higher level.

`roles` (two players, two agents, two uins, two starts, one fault, two coroutines on
an agent and three in all at once; 2,298,526 states): `TypeOK`, `UinOwned`, `RoleComplete`, `HashMeansSaved`, and the
action property `RecycledSaved`: a logout gives the agent back only when the database has the data
of every module the agent holds, which the next start drops. Two starts let a player connect again,
log in a second time and get a second agent, or use the agent another has left while that one's
logout is late; two uins let a player ask for a role twice, or on both agents, or two players ask
for one each. The fault is a call that fails at any point or a crash of the node. With two
starts and one fault a second start, a born and a late logout still find the agent that a failed
coroutine has left half way.

Deadlock is checked in `aoi` and `zset`, where some call is always possible. Elsewhere it
is not: clients may stop, and a run ends when they do or when its bounds are used up.

**Fairness.** skynet's worker threads keep dispatching every service whose mailbox is
not empty, which is weak fairness of each service's step as a whole: one mailbox, one
thread, no starvation inside it. Clients get none. The creator of a transaction goes on
to its `release` as long as no call raises an error (`Raise` ends it, and fairness asks
nothing of it any more); nobody has to create one. The timeout loop gets no fairness.
The answer to a `start` needs its agent to be alive: the step of a killed agent's
coroutine is never enabled.

**Bounds.** `MaxAgents` caps the agents ever created and `MaxCalls` the calls of a
transaction; both are guards, named in their modules. In `session_calm` and `session_live`
at most two handshakes are made; each needs at most one new agent and one expansion,
so four agents are enough and the cap is never what stops a step. `session` has three, which
stops only the last expansion when both handshakes find the pool empty. `Rudp` bounds messages,
time and queue (`MaxMsgs`, `MaxTick`, `MaxQueue`), `Aoi` the versions of an object
(`MaxVersion`), `Zset` the count given to `limit` (`MaxCount`), `Roles` the uins, starts,
faults and the coroutines at once, on one agent and on all (`MaxUin`, `MaxLogins`, `MaxFaults`,
`MaxRunning`, `MaxThreads`).

## What the models show of the code beyond the findings

- Roles: with two coroutines on one agent, of two players or of two `born` requests of
  one, the last line of `born` saves whatever object `_profiled` then is, and `load`
  fills modules that were replaced. `RoleComplete` is false for such players (TLC shows
  it when `mixed` is not excluded): a profile may name a role whose records were never
  saved, and its next `start` fails in `propertyd.lua:16`. `UinOwned` and
  `HashMeansSaved` hold for them too.
- Roles: a `logout` handled while a load waits fails at `assert(mod._data)`; the agent is
  then never recycled. A `born` of a player who has a role replaces the uin, and the old
  role's records stay in the database unnamed.
- Roles: a player with two agents (the finding of `session_multilogin`) may ask for a role on
  both. The profile names the role that was committed last, while the other agent keeps
  working on the first, whose records stay in the database and which no start loads again.
- Roles: a `born` whose call fails in `set_uin` has set the profile object and registered nothing:
  the agent still has the modules of the player it served before, and the client stays and may
  ask again. What such a client's logout saves are the old modules, unchanged. A call that fails
  inside `load` leaves modules without data, at which the logout's `force_save` then asserts.
- Session: `start` may raise an error after the agent was taken from the pool. The handshake
  ends in the error and `user.conn` and `user.agent` stay set; the connection was not registered,
  so its close sends the agent no logout, and the agent is kept for this token alone. An agent
  whose `force_save` raises is lost to the pool, because `recycle` comes after it.
- Session: a `start` under way at an agent that is killed is never answered, and hubd's handshake
  waits for ever; this takes a reconnect (`StartAlive`).
- Transactions: an action that raises an error ends the creator before its `release`. transactiond
  keeps that transaction active, and every other one that queries waits for ever; `pcall` around
  the calls, with a `release` after it, is left to the creators.
- Rudp: an empty message is taken off the receive queue and `recv_id_min` goes past it, but
  `rudp_recv` returns its size, 0, which `lupdate` (lua-rudp.c:55) takes for "nothing there": the
  callback is not called, and the messages behind it wait for the next `lupdate`.
- Rudp: a heartbeat makes the end that receives it put `recv_id_min`, an id of the *other*
  direction, into `send_again`. When it has a message of that number in its send queue,
  `reply_request` says MISSING for it just before `send_message` sends it; a receiver
  that waits for it takes the MISSING first and drops the message.
  `SkippedOnlyMissing` says that a message that is skipped and not empty was marked so, not that
  it had expired.
- Aoi: a pair dropped as too far apart can come within the radius by moves that each stay
  under half the radius of `last`, and is then not told; `AccountedFor` therefore counts
  a pair in `far` as dealt with. The id 0xffffffff is `INVALID_ID` and cannot be used.
- Zset: `rev_range` with a first rank past the end is clamped to the lowest member
  instead of giving nothing. A handler that changes the set from inside `limit` would
  leave the loop with a freed node, and a `limit` with a count below -1 wraps around in
  the C binding; both are outside the model.
- Database pool: `next_conn` yields index 0, or steps over connections; a key that is not
  a number (an `openid` may be one) is then called on nil. `Roles` takes every call to
  reach a connection.

## Proofs

All theorems are checked by TLAPS, for every value of the constants that satisfies the
named assumptions (`TransactionAssumption`; `EntitiesAssumption`, `SessionAssumption`,
`PoolAssumption` and `GateAssumption`; `AoiAssumption`; `RolesAssumption`; `RudpAssumption`). These
say that bounds are natural numbers, that `None` (Lua's nil) is no player, socket, agent or record,
that a role has a property module, for Aoi that ids are finite in number and positions are
integers, and for Rudp that there are two ends, the number of wire ids is even, delays are positive
and a package holds more than three bytes (one entry without contents).

`TransactionProofs`: `TypeCorrect`, `IsolationHolds`, `NoLostWakeupHolds` and
`Refinement` (`Spec => SerialExecution`) rest on `Inductive`,
`Spec => [](TypeOK /\ LockInv)`. Neither property is inductive alone: that a
transaction stays active until its release is handled needs to know that a service that
skips the query (because it knows the session) serves the active transaction
(`HolderActive`), that a transaction is outside any call once it releases or its creator
was ended by an error (`ClosedIdle`, `ReleaseMsgs`), and that the active one has not been released
(`ActiveLives`); that no wakeup is lost needs each query in the mailbox and each queue
entry to belong to exactly one waiting call, with one answer owed to its innermost
service (`QueryMsgs`, `QueueWaits`, `WaitingOwed`). `LockInv` collects these facts, one conjunct each, and the proof has one step
per action; an error (`Raise`) leaves a transaction active that was so. The refinement maps `finished` to the released transactions; an `Execute`
step is an `Act` because the last entry of the log is the active transaction or a
released one, which follows from `LockInv`.

`SessionProofs`: `LoginLockHolds` needs no strengthening beyond the types of the login
master's variables. `RoutableHolds` and `ClientNumberExactHolds` follow from
`GateInv`, which ties the two tables together: the count equals the number of known
sockets, and a socket gateserver lets through has a record in gated until it is closed
or kicked. Both proofs first project a step of `Session` to a step of the login master
or the gate (`LoginView`, `GateView`), so that a change in another service does not
touch them.

`HandshakeProofs`: `SessionTypeCorrect`, `OneAgentPerTokenHolds` and `RegisteredByTokenHolds`,
whatever the clients do. All three rest on `HandshakeInductive`, `Spec => []HandshakeInv`; none is
inductive, not even the types, because a message copies fields (a user's agent, a connection's
uid) that are nil at other times. `HandshakeInv` says of each handshake that at most one message
or coroutine is under way for it in the whole system (`Flights`), that it is the one hubd's
coroutine waits for and agrees with the user object the coroutine captured (`Answers`), what the
login and the handshake fixed before (`Granted`, `Presented`), and that a bound connection names
the request that bound it, which has ended or whose answer is on its way (`Bindings`).
`OneAgentPerToken` is a conjunct: a first handshake finds `user.conn` nil, and `Presented` says that
every handshake beyond the checks has it set, so no other one of the token can be waiting. The
steps fall in two kinds. Those that serve no request move messages of other types and keep all of
it (`CalmInv`). Those that move a request `r` leave every other request alone (`MovesInv`), and
take the only thing under way for `r` before they add the next one (`HubAlone`, `PoolAlone`,
`AgentAlone`, `LoadAlone`, `GateAlone`).

`CalmProofs`: `SessionKnownHolds`, `ClosedForgottenHolds`, `AgentExclusiveHolds`, `ClientHeardHolds`
and `StartAliveHolds`, each of the form `Calm => (Spec => [](...))`, where `Calm` says that no
client logs in again or presents a token twice (`~Relogin /\ ~Reconnect`). The hypothesis is needed:
`session_reconnect` and `session_pool` refute `ClientHeard` and `AgentExclusive` without it, and a
late logout after a reconnect kills an agent in the middle of `start`. Within it the theorems cover any number of users, sockets and agents, closes at any
moment, refused and failed steps, and the timeout. They rest on `SessionInductive`; `SessionInv` is
built in layers on top of `HandshakeInv`:

- `OneEach`, `NoKicks`, `Sockets`: a uid has one login and a login one request, nothing is kicked,
  and a socket goes from accepted to open to closed, the hub being told once;
- `Ends`: a logout with a uid on its way to the hub is the end of the session that bound the socket,
  so no user is forgotten whose socket is still open (`SessionKnown`);
- `Forgetting`: while the hub remembers a socket that is bound or closed, a message that makes it
  forget is in its mailbox (`ClosedForgotten`);
- `OnePlace`: an agent is in at most one of eight places, and once there: the pool, being created, in
  an answer of the pool, held by a request, in a logout on its way to the hub or to the agent, being
  saved, being recycled; and an agent that is anywhere is alive (`Lives`). `AgentExclusive` needs
  all eight: a second logout, or a recycle of an agent in use, would be the same agent in two places.
  `StartAlive` is the case of an agent held by a request: what `recycle` kills is in another place;
- `OwnFd`: the agent of a session has that session's socket, from the `start` on its way to the
  open connection (`ClientHeard`).

`AoiProofs`: `AoiTypeCorrect` and `AoiRefExact`, for any finite set of ids, any positions
and any radius (`AoiAssumption`). The inductive invariant `AoiInv` adds two facts to
`TypeOK` and `RefExact`. The hot pairs are finite, so that they can be counted. And
`Fresh`: a pair whose versions are current has no object with MOVE. Without it a pair
made by `aoi_message` could be one that is hot already, and the count would grow by
two for one pair; with it new pairs are disjoint from the kept ones, because every new
pair has an object that moved. The counting lemmas (`HoldsDifference`, `HoldsUnion`) say
what dropping and adding pairs does to the references of an object; there is one step
per action, and a step of the message for the flush and one for the new pairs.

The second part of `AoiProofs`: `AoiAccountedFor` and `AoiToldOnce`. `PairInv` adds to `AoiInv`
that a pair that was told is not watched and has no object with MOVE (`Told`): the message tests
only pairs with a moved object and the hot ones, so a pair that was told is not tested again until
an update raises a version, which forgets what was told.

`RolesProofs`: `RolesTypeCorrect`, `RolesUinOwned` and `RolesHashMeansSaved`, for any coroutines of
any players on the same agents. What reaches a database was read from a module object or kept by a
coroutine, possibly of another player, long before; so `RolesInv` follows every carrier: the records
in the databases (`Stored`), the profile and module objects of an agent (`Profiled`, `Modules`), the
hash codes (`Hashed`), and what each waiting coroutine holds (`Waits`) can only be the record of the
uin they go with, which is one record for all time (`Rec`). `Typed` is `TypeOK` without its
statement about the uins of calls, which `Waits` implies. The module `on_mod_save` comes to next is
the least index not passed over; that a least one exists is `LeastIndex`, from the
well-foundedness of `<`.

The second part of `RolesProofs`: `RolesRoleComplete` and `RolesRecycledSaved` (`Spec => RecycledSaved`,
an action property), about roles of players not in `mixed`. `SharingInv` adds to `RolesInv` what not
sharing means: two coroutines on one agent are both mixed, and one whose player is not still has the
profile object and the module it called (`Solo`); a `born` has its own player's profile object or a
mixed one's (`Known`). It asks nothing of how many agents a player has, of what an agent held before,
or of which calls fail. Then it says how far each coroutine has come (`Carries`). A `start` or `born`
that is alone (`Works`, `Commits`): the agent's modules are of the uin it will commit, those before
the loop's index are loaded, the records before it are saved; so when the profile is written every
record is there, and a crash or an error at any earlier point leaves a profile that does not name
the role. A logout, whoever runs beside it (`Leaves`): the modules it has been through are saved, or
are of one who is mixed (`Kept`), which a load beside it cannot change because the modules it loads
into are its own player's or a mixed one's (`Theirs`). `RecycledSaved` follows at the last save.

`RudpProofs`: `RudpTypes`, `RudpQueueClosed` and `RudpRetained` hold whatever the network does. They
rest on `RudpInductive`; `RudpInv` says that everything queued, on the wire or given to the callback
came from a `rudp_send` of the right end (`Ends`, `Wire`, `Given`), that a receive queue ascends and
`recv_id_max` closes it (`Closed`), that an end's own messages carry their numbers (`Own`), and that
a message is in the send queue or history with the tick it was handed over, or is older than
`Expired` (`Held` in `Ages`: what an expiry drops is older than the expiry before it). The loops
over the entries of a package, over the gaps of a queue and over the entries packed are recursive
functions; what is claimed after each turn holds because there is no least turn at which it would
fail (`LeastNat`, `SetInduction`), from the well-foundedness of `<`. `TypeOK` also says that the
callback is never given the marker of a MISSING message.

`RudpInOrder`, `RudpSkippedOnlyMissing` and `RudpQueuedAsSent` have the form `Spec /\ []Window =>
[](...)`: as long as `get_id` is only asked for numbers it can tell, delivery is in order, without
repetition, and passes over nothing but empty messages and what was said to be MISSING. `Window` is a property of the
traffic, defined beside the proofs, and not of the code: rudp has no limit on what is under way, so
a package that is older than half the id space, or a receiver whose `recv_id_max` has run far ahead
on MISSING entries, is outside it, and `get_id` then gives a wrong number. It says that every message
that may still arrive, in the oldest package too, has a number less than half the id space away from
the `recv_id_max` it meets. Traffic as small as the run `rudp`'s, five messages in 8 wire ids,
satisfies it, so the hypothesis is not empty. `GetIdExact` shows that within
the window `get_id` inverts the truncation, across wraps; `DeliveryInv` says that what is queued has
its sender's number or was said to be MISSING (`Named`), and that what was given ascends, is below
`recv_id_min`, and leaves out only empty messages and what was said to be MISSING (`Delivered`).

Only model-checked, and why:

- `HandshakeEnds` and `AllReleased` are liveness, which these provers do not do.
- The properties of `Zset` (`TypeOK`, `SpansExact`, `BackwardExact`, `TableAgrees`, `QueriesAgree`,
  the refinement `ImplementsSortedSet`) and of the AOI map (`MapFinds`, `MapChained`). Both are about
  linked structures that walks follow to their ends: that a walk stops, and visits each node once,
  is induction over the structure, and the library's induction theorems take an operator as a
  parameter, which the provers cannot instantiate. The least-element argument of `RudpProofs` serves
  loops over a sequence of known length; for a skip list or a chain through a hash table it would
  have to be restated for each walk. `AoiSpace` also uses `RECURSIVE` operators, which keep a
  module out of the proof system's reach.

## Plan

Done: the login, gate, hub and agent session; transactions; roles; rudp; AOI; sorted sets.
Left, in this order:

1. Proofs: `Zset`'s links and spans, with the level lists restated as ascending sequences so that
   the least-element argument applies.
2. `RedisBackup`: the command queue of `redisbackup.lua` matched with redis's replies,
   commands arriving while a reconnect waits, failed reconnects. Property: data is saved
   under the key it was read for.
3. `Roles` joined to `AgentPool` and `Hub` in one composition.
4. The service around the AOI library, whose own table of objects may be behind the library's.
5. The battle service: sessions, keepalive, arenas. The WebSocket gate, against the
   properties of `Gate`. Time in the hub's handshake timeout.

## Not modelled

Most of the C and C++ in the repository is other projects' code that the services link:
unqlite, recastnavigation, cjson, protobuf and others. They are not part of what this
project is about, and no service's correctness argument enters them. skynet itself is
external (mailboxes, calls, `newservice`, `kill`).

Also left out: packet framing and the text protocols; the web login, which talks to
outside account services; the WebSocket gate; the redis backup, which no service of the
repository starts; the choice of a connection inside the database pools; the timers, whose
only users in the agents never get them added (`skynet_timermgr.lua:24`); the battle
service, whose matches have no rules in the repository; the service
`lualib-src/skynet_aoi/aoi.lua` around the AOI library (a callback that is late after
`characterleave` fails its `assert(OBJ[w], w)`, and it uses a radius of its own beside
the library's), and the scenes' separate grid in `service/scene/aoi`;
`lockstep.lua`, which does not parse; logging, reloading and configuration services.
