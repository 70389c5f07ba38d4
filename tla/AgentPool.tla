----------------------------- MODULE AgentPool ------------------------------
(***************************************************************************)
(* agent_slave's pool of agent services, and of each agent service the     *)
(* part that takes part in a session: the start and logout commands.       *)
(***************************************************************************)
EXTENDS Entities

CONSTANTS
    MaxNum,      \* maxnum: recycled agents the pool keeps
    ExpandBy     \* agents expand_pool adds (10 in the code)

ASSUME PoolAssumption == MaxNum \in Nat /\ ExpandBy \in Nat \ {0}

VARIABLES
    pool,        \* agents ready to be handed out, a stack
    agent_map,   \* agents alive: in the pool or handed out
    spawned,     \* how many agents were ever created
    gets,        \* requests whose agent_mgr "get" is under way
    spawning,    \* ... and found the pool empty: the agent created for the
                 \* request and how many expand_pool has yet to create
    agentq,      \* lua messages of each agent, oldest first
    agentfd,     \* _fd of each agent's client library
    loading,     \* start coroutines waiting for the profile
    saving,      \* logout coroutines inside force_save, per agent
    recycling    \* "recycle" messages on their way to agent_slave, per agent

poolVars == <<pool, agent_map, spawned, gets, spawning>>
agentVars == <<agentq, agentfd, loading, saving, recycling>>

AgentMsg ==
    [type: {"start"}, req: Requests, fd: Fds] \cup [type: {"logout"}]

PoolTypeOK ==
    /\ pool \in Seq(Agents)
    /\ agent_map \subseteq Agents
    /\ spawned \in Nat
    /\ gets \subseteq Requests
    /\ spawning \subseteq [req: Requests, agent: Agents \cup {None},
                            left: 1..ExpandBy]
    /\ agentq \in [Agents -> Seq(AgentMsg)]
    /\ agentfd \in [Agents -> Fds \cup {None}]
    /\ loading \subseteq [req: Requests, agent: Agents]
    /\ saving \in [Agents -> Nat]
    /\ recycling \in [Agents -> Nat]

PoolInit ==
    /\ pool = <<>>
    /\ agent_map = {}
    /\ spawned = 0
    /\ gets = {}
    /\ spawning = {}
    /\ agentq = [a \in Agents |-> <<>>]
    /\ agentfd = [a \in Agents |-> None]
    /\ loading = {}
    /\ saving = [a \in Agents |-> 0]
    /\ recycling = [a \in Agents |-> 0]

(* hubd's call of agent_mgr "get", relayed to agent_slave. *)
AskAgent(r) ==
    /\ gets' = gets \cup {r}
    /\ UNCHANGED <<pool, agent_map, spawned, spawning, agentVars>>

(* Fault: the agent handed out stays in the pool. *)
GetPooledPeek(r) ==
    /\ r \in gets
    /\ pool # <<>>
    /\ gets' = gets \ {r}
    /\ UNCHANGED <<pool, agent_map, spawned, spawning, agentVars>>

(* CMD.get with an agent at hand. *)
GetPooled(r) ==
    /\ r \in gets
    /\ pool # <<>>
    /\ gets' = gets \ {r}
    /\ pool' = SubSeq(pool, 1, Len(pool) - 1)
    /\ UNCHANGED <<agent_map, spawned, spawning, agentVars>>

(* CMD.get found the pool empty and waits for skynet.newservice. *)
GetMiss(r) ==
    /\ r \in gets
    /\ pool = <<>>
    /\ gets' = gets \ {r}
    /\ spawning' = spawning \cup
                     {[req |-> r, agent |-> None, left |-> ExpandBy]}
    /\ UNCHANGED <<pool, agent_map, spawned, agentVars>>

NewAgent == spawned + 1

NewService ==
    /\ spawned < MaxAgents
    /\ spawned' = NewAgent
    /\ agent_map' = agent_map \cup {NewAgent}

(* The agent for the request is there; expand_pool starts the next one. *)
GetCreated(w) ==
    /\ w \in spawning
    /\ w.agent = None
    /\ NewService
    /\ spawning' = (spawning \ {w}) \cup {[w EXCEPT !.agent = NewAgent]}
    /\ UNCHANGED <<pool, gets, agentVars>>

(* expand_pool adds one agent to the pool, where other requests see it at  *)
(* once; after the last one CMD.get returns.                               *)
ExpandPool(w) ==
    /\ w \in spawning
    /\ w.agent # None
    /\ NewService
    /\ pool' = Append(pool, NewAgent)
    /\ spawning' = (spawning \ {w}) \cup
          IF w.left = 1 THEN {} ELSE {[w EXCEPT !.left = @ - 1]}
    /\ UNCHANGED <<gets, agentVars>>

AgentRecv(a, m) ==
    /\ agentq' = [agentq EXCEPT ![a] = Append(@, m)]
    /\ UNCHANGED <<poolVars, agentfd, loading, saving, recycling>>

AgentHas(a, type) == agentq[a] # <<>> /\ Head(agentq[a]).type = type

(* Fault: a recycled agent keeps the _fd of its last client. *)
AgentStartKeepsFd(a) ==
    /\ AgentHas(a, "start")
    /\ a \in agent_map
    /\ LET m == Head(agentq[a])
       IN  /\ agentfd' = [agentfd EXCEPT ![a] = IF @ = None THEN m.fd ELSE @]
           /\ loading' = loading \cup {[req |-> m.req, agent |-> a]}
    /\ agentq' = [agentq EXCEPT ![a] = Tail(@)]
    /\ UNCHANGED <<poolVars, saving, recycling>>

(* Commands:start up to the first yield: the session and _fd are set. *)
AgentStart(a) ==
    /\ AgentHas(a, "start")
    /\ a \in agent_map
    /\ LET m == Head(agentq[a])
       IN  /\ agentfd' = [agentfd EXCEPT ![a] = m.fd]
           /\ loading' = loading \cup {[req |-> m.req, agent |-> a]}
    /\ agentq' = [agentq EXCEPT ![a] = Tail(@)]
    /\ UNCHANGED <<poolVars, saving, recycling>>

(* Commands:start is over, by its return or by an error (of a database, of *)
(* the cluster, propertyd's assertion).  The coroutine of an agent that    *)
(* was killed stays where it is: skynet.kill answers what is queued only.  *)
AgentStarted(c) ==
    /\ c \in loading
    /\ c.agent \in agent_map
    /\ loading' = loading \ {c}
    /\ UNCHANGED <<poolVars, agentq, agentfd, saving, recycling>>

(* Any message to an agent that skynet.kill has removed. *)
AgentDead(a) ==
    /\ agentq[a] # <<>>
    /\ a \notin agent_map
    /\ agentq' = [agentq EXCEPT ![a] = Tail(@)]
    /\ UNCHANGED <<poolVars, agentfd, loading, saving, recycling>>

(* Commands:logout: force_save may wait for the database. *)
AgentLogout(a) ==
    /\ AgentHas(a, "logout")
    /\ a \in agent_map
    /\ agentq' = [agentq EXCEPT ![a] = Tail(@)]
    /\ saving' = [saving EXCEPT ![a] = @ + 1]
    /\ UNCHANGED <<poolVars, agentfd, loading, recycling>>

(* force_save is over and "recycle" is sent. *)
AgentSaved(a) ==
    /\ saving[a] > 0
    /\ a \in agent_map
    /\ saving' = [saving EXCEPT ![a] = @ - 1]
    /\ recycling' = [recycling EXCEPT ![a] = @ + 1]
    /\ UNCHANGED <<poolVars, agentq, agentfd, loading>>

(* force_save raised an error, of the database or at a module without      *)
(* data: the agent is not given back.                                      *)
AgentSaveRaised(a) ==
    /\ saving[a] > 0
    /\ a \in agent_map
    /\ saving' = [saving EXCEPT ![a] = @ - 1]
    /\ UNCHANGED <<poolVars, agentq, agentfd, loading, recycling>>

(* Fault: the agent is killed and put back all the same. *)
RecycleKilled(a) ==
    /\ recycling[a] > 0
    /\ recycling' = [recycling EXCEPT ![a] = @ - 1]
    /\ pool' = Append(pool, a)
    /\ agent_map' = agent_map \ {a}
    /\ UNCHANGED <<spawned, gets, spawning, agentq, agentfd, loading, saving>>

(* CMD.recycle: keep the agent, or kill it when the pool is full. *)
Recycle(a) ==
    /\ recycling[a] > 0
    /\ recycling' = [recycling EXCEPT ![a] = @ - 1]
    /\ pool' = IF Len(pool) > MaxNum THEN pool ELSE Append(pool, a)
    /\ agent_map' = IF Len(pool) > MaxNum THEN agent_map \ {a} ELSE agent_map
    /\ UNCHANGED <<spawned, gets, spawning, agentq, agentfd, loading, saving>>
=============================================================================
