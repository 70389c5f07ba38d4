------------------------- MODULE TransactionProofs --------------------------
(***************************************************************************)
(* Proofs about Transaction, for every set of transactions and services    *)
(* and every number of calls: the type invariant, Isolation, NoLostWakeup, *)
(* and that Transaction implements SerialTransactions.                     *)
(***************************************************************************)
EXTENDS Transaction, MailboxLemmas, TLAPS

-----------------------------------------------------------------------------
(* The inductive invariant *)

(* t may act on some service without asking transactiond again. *)
Held(t) ==
    \/ top[t] \in {"granted", "exec"}
    \/ Acted(t)
    \/ top[t] # "query" /\ \E s \in Services : t \in session_pool[s]

HolderActive == \A t \in Txns : Held(t) /\ txn[t] # "released" => active = t

(* Outside its open phase a transaction is in no call. *)
ClosedIdle == \A t \in Txns : txn[t] # "open" => top[t] = "idle"

StackTop == \A t \in Txns : stack[t] = <<>> <=> top[t] = "idle"

IsQuery(i) == i \in DOMAIN tq /\ tq[i].cmd = "query"

ReleaseMsgs ==
    \A i \in DOMAIN tq :
        tq[i].cmd = "release" => txn[tq[i].t] \in {"releasing", "released"}

QueryMsgs ==
    \A i \in DOMAIN tq : IsQuery(i) =>
        /\ top[tq[i].t] = "query"
        /\ tq[i].s = Callee(tq[i].t)
        /\ \A j \in DOMAIN tq : IsQuery(j) /\ tq[j].t = tq[i].t => i = j
        /\ \A k \in DOMAIN queue : queue[k] # tq[i].t

QueueWaits ==
    \A i \in DOMAIN queue :
        /\ top[queue[i]] = "query"
        /\ waiting[queue[i]] = <<Callee(queue[i])>>
        /\ \A j \in DOMAIN queue : queue[i] = queue[j] => i = j

(* The responses of transactiond's session table are never cleared. *)
WaitingOwed ==
    \A t \in Txns : waiting[t] # <<>> /\ txn[t] # "released" =>
        active = t \/ \E i \in DOMAIN queue : queue[i] = t

ActiveLives ==
    /\ queue # <<>> => active # None
    /\ active # None => txn[active] # "released"

NoLoss ==
    \A t \in Txns : top[t] = "query" =>
        \/ \E i \in DOMAIN tq : IsQuery(i) /\ tq[i].t = t
        \/ \E i \in DOMAIN queue : queue[i] = t

LockInv ==
    /\ HolderActive
    /\ ClosedIdle
    /\ StackTop
    /\ ReleaseMsgs
    /\ QueryMsgs
    /\ QueueWaits
    /\ WaitingOwed
    /\ ActiveLives
    /\ NoLoss

-----------------------------------------------------------------------------
(* Facts about messages, stacks and mailboxes *)

(* Every message names a transaction, and all but release a service. *)
LEMMA MsgFacts ==
    ASSUME NEW m \in TdMsg
    PROVE  /\ m.t \in Txns
           /\ m.cmd \in {"query", "link", "release"}
           /\ m.cmd # "release" => m.s \in Services
           /\ m.cmd # "release" => m = [cmd |-> m.cmd, t |-> m.t, s |-> m.s]
  BY DEF TdMsg

(* The messages the model sends are messages. *)
LEMMA MsgTypes ==
    ASSUME NEW t \in Txns, NEW s \in Services
    PROVE  /\ [cmd |-> "query", t |-> t, s |-> s] \in TdMsg
           /\ [cmd |-> "link", t |-> t, s |-> s] \in TdMsg
           /\ [cmd |-> "release", t |-> t] \in TdMsg
  BY DEF TdMsg

(* A call that is under way has a service at the top of its stack. *)
LEMMA CalleeType ==
    ASSUME TypeOK, StackTop, NEW t \in Txns, top[t] # "idle"
    PROVE  Callee(t) \in Services
  <1>1. stack[t] \in Seq(Services) /\ stack[t] # <<>>
    BY DEF TypeOK, StackTop
  <1> QED BY <1>1, FrontFacts DEF Callee

(* What a message that is being handled says, and what stays behind. *)
LEMMA HeadMsg ==
    ASSUME TypeOK, tq # <<>>
    PROVE  /\ Head(tq) \in TdMsg
           /\ Head(tq).t \in Txns
           /\ Head(tq).cmd # "release" => Head(tq).s \in Services
           /\ Tail(tq) \in Seq(TdMsg)
           /\ Head(tq) = tq[1] /\ 1 \in DOMAIN tq
           /\ \A i \in DOMAIN Tail(tq) :
                  i \in Nat /\ i + 1 \in DOMAIN tq /\ Tail(tq)[i] = tq[i + 1]
           /\ \A i \in DOMAIN tq : i # 1 =>
                  i - 1 \in DOMAIN Tail(tq) /\ tq[i] = Tail(tq)[i - 1]
           /\ \A i \in DOMAIN tq : i \in Nat /\ tq[i] \in TdMsg
  <1>1. tq \in Seq(TdMsg)
    BY DEF TypeOK
  <1>2. Head(tq) \in TdMsg
    BY <1>1, TailFacts
  <1>3. /\ Head(tq).t \in Txns
        /\ Head(tq).cmd # "release" => Head(tq).s \in Services
    BY <1>2, MsgFacts
  <1> QED BY <1>1, <1>2, <1>3, TailFacts

-----------------------------------------------------------------------------
(* Type correctness is preserved *)

WatchType ==
    watch \in [Services -> [Txns -> {"none", "forked", "linked", "answered"}]]

(* Answering the links of t keeps the two tables it touches well typed. *)
LEMMA AnswerLinksType ==
    ASSUME TypeOK, NEW t \in Txns, AnswerLinks(t)
    PROVE  WatchType' /\ link' \in [Txns -> Seq(Services)]
  <1>1. link' \in [Txns -> Seq(Services)]
    BY DEF TypeOK, AnswerLinks
  <1>2. \A s \in Services : [watch[s] EXCEPT ![t] = "answered"]
                                \in [Txns -> {"none", "forked", "linked", "answered"}]
    BY DEF TypeOK
  <1>3. \A s \in Services :
            watch[s] \in [Txns -> {"none", "forked", "linked", "answered"}]
    BY DEF TypeOK
  <1>4. WatchType'
    BY <1>2, <1>3 DEF AnswerLinks, WatchType
  <1> QED BY <1>1, <1>4

(* Every step keeps every variable in its type. *)
LEMMA TypeStep ==
    ASSUME TypeOK, StackTop, [Next]_vars
    PROVE  TypeOK'
  <1> USE DEF TypeOK, clientVars, serviceVars, lockVars
  <1>1. CASE UNCHANGED vars
    BY <1>1 DEF vars
  <1>2. ASSUME NEW t \in Txns, Create(t) PROVE TypeOK'
    BY <1>2 DEF Create
  <1>3. ASSUME NEW t \in Txns, NEW s \in Services, Call(t, s) PROVE TypeOK'
    <2>1. Append(stack[t], s) \in Seq(Services)
      BY AppendFacts
    <2>2. stack' \in [Txns -> Seq(Services)]
      BY <1>3, <2>1 DEF Call
    <2>3. top' \in [Txns -> TopPc] /\ calls' \in [Txns -> Nat]
      BY <1>3 DEF Call, TopPc
    <2> QED BY <1>3, <2>2, <2>3 DEF Call
  <1>4. ASSUME NEW t \in Txns, Release(t) PROVE TypeOK'
    <2>1. [cmd |-> "release", t |-> t] \in TdMsg
      BY DEF TdMsg
    <2>2. Append(tq, [cmd |-> "release", t |-> t]) \in Seq(TdMsg)
      BY <2>1, AppendFacts
    <2> QED BY <1>4, <2>2 DEF Release
  <1>5. ASSUME NEW t \in Txns, DispatchKnown(t) PROVE TypeOK'
    BY <1>5 DEF DispatchKnown, TopPc
  <1>6. ASSUME NEW t \in Txns, DispatchNew(t) PROVE TypeOK'
    <2>1. Callee(t) \in Services
      BY <1>6, CalleeType DEF DispatchNew
    <2>2. [cmd |-> "query", t |-> t, s |-> Callee(t)] \in TdMsg
      BY <2>1, MsgTypes
    <2>3. Append(tq, [cmd |-> "query", t |-> t, s |-> Callee(t)]) \in Seq(TdMsg)
      BY <2>2, AppendFacts
    <2> QED BY <1>6, <2>1, <2>3 DEF DispatchNew, TopPc
  <1>7. ASSUME NEW t \in Txns, Execute(t) PROVE TypeOK'
    <2>1. Append(log, t) \in Seq(Txns)
      BY AppendFacts
    <2>2. Callee(t) \in Services
      BY <1>7, CalleeType DEF Execute
    <2> QED BY <1>7, <2>1, <2>2 DEF Execute, TopPc
  <1>8. ASSUME NEW t \in Txns, Return(t) PROVE TypeOK'
    <2>1. stack[t] # <<>>
      BY <1>8 DEF Return, StackTop
    <2>2. SubSeq(stack[t], 1, Len(stack[t]) - 1) \in Seq(Services)
      BY <2>1, FrontFacts
    <2> QED BY <1>8, <2>2 DEF Return, TopPc
  <1>16. ASSUME NEW t \in Txns, Raise(t) PROVE TypeOK'
    <2>1. stack[t] # <<>>
      BY <1>16 DEF Raise, StackTop
    <2>2. SubSeq(stack[t], 1, Len(stack[t]) - 1) \in Seq(Services)
      BY <2>1, FrontFacts
    <2>3. CASE Len(stack[t]) = 1
      BY <1>16, <2>2, <2>3 DEF Raise, TopPc
    <2>4. CASE Len(stack[t]) # 1
      BY <1>16, <2>2, <2>4 DEF Raise
    <2> QED BY <2>3, <2>4
  <1>9. ASSUME NEW t \in Txns, NEW s \in Services, WatchSession(s, t)
        PROVE  TypeOK'
    <2>1. Append(tq, [cmd |-> "link", t |-> t, s |-> s]) \in Seq(TdMsg)
      BY MsgTypes, AppendFacts
    <2> QED BY <1>9, <2>1 DEF WatchSession
  <1>10. ASSUME NEW t \in Txns, NEW s \in Services, ForgetSession(s, t)
         PROVE  TypeOK'
    BY <1>10 DEF ForgetSession
  <1>11. CASE QueryGranted
    BY <1>11, HeadMsg DEF QueryGranted, TdHas, TopPc
  <1>12. CASE QueryQueued
    <2>1. /\ Head(tq).t \in Txns /\ Head(tq).s \in Services
          /\ Tail(tq) \in Seq(TdMsg)
      BY <1>12, HeadMsg DEF QueryQueued, TdHas
    <2>2. Append(queue, Head(tq).t) \in Seq(Txns)
      BY <2>1, AppendFacts
    <2>3. Append(waiting[Head(tq).t], Head(tq).s) \in Seq(Services)
      BY <2>1, AppendFacts
    <2> QED BY <1>12, <2>1, <2>2, <2>3 DEF QueryQueued
  <1>13. CASE Link
    <2>1. /\ Head(tq).t \in Txns /\ Head(tq).s \in Services
          /\ Tail(tq) \in Seq(TdMsg)
      BY <1>13, HeadMsg DEF Link, TdHas
    <2>2. Append(link[Head(tq).t], Head(tq).s) \in Seq(Services)
      BY <2>1, AppendFacts
    <2> QED BY <1>13, <2>1, <2>2 DEF Link
  <1>14. CASE ReleaseActive
    <2>1. Head(tq).t \in Txns /\ Tail(tq) \in Seq(TdMsg)
      BY <1>14, HeadMsg DEF ReleaseActive, TdHas
    <2>2. queue # <<>> => Head(queue) \in Txns /\ Tail(queue) \in Seq(Txns)
      BY TailFacts
    <2>3. queue' \in Seq(Txns) /\ active' \in Txns \cup {None}
      BY <1>14, <2>2 DEF ReleaseActive
    <2>4. top' \in [Txns -> TopPc]
      BY <1>14, <2>2 DEF ReleaseActive, TopPc
    <2>5. AnswerLinks(Head(tq).t)
      BY <1>14 DEF ReleaseActive
    <2>6. WatchType' /\ link' \in [Txns -> Seq(Services)]
      BY <2>1, <2>5, AnswerLinksType
    <2> QED BY <1>14, <2>1, <2>3, <2>4, <2>6 DEF ReleaseActive, WatchType
  <1>15. CASE ReleaseIdle
    <2>1. Head(tq).t \in Txns /\ Tail(tq) \in Seq(TdMsg)
      BY <1>15, HeadMsg DEF ReleaseIdle, TdHas
    <2>2. AnswerLinks(Head(tq).t)
      BY <1>15 DEF ReleaseIdle
    <2>3. WatchType' /\ link' \in [Txns -> Seq(Services)]
      BY <2>1, <2>2, AnswerLinksType
    <2> QED BY <1>15, <2>1, <2>3 DEF ReleaseIdle, WatchType
  <1> QED
    BY <1>1, <1>2, <1>3, <1>4, <1>5, <1>6, <1>7, <1>8, <1>9, <1>10, <1>11,
       <1>12, <1>13, <1>14, <1>15, <1>16
       DEF Next, TxnStep, ServiceStep, LockStep

-----------------------------------------------------------------------------
(* The lock invariant is preserved *)

(* What the invariant says of transactiond's own state. *)
LockSide ==
    ReleaseMsgs /\ QueryMsgs /\ QueueWaits /\ WaitingOwed /\ ActiveLives /\ NoLoss

(* The elements of the mailbox and of the queue are typed. *)
LEMMA Elements ==
    ASSUME TypeOK
    PROVE  /\ \A i \in DOMAIN tq : i \in Nat /\ tq[i] \in TdMsg /\ tq[i].t \in Txns
           /\ \A i \in DOMAIN queue : i \in Nat /\ queue[i] \in Txns
  <1>1. tq \in Seq(TdMsg) /\ queue \in Seq(Txns)
    BY DEF TypeOK
  <1>2. \A i \in DOMAIN tq : i \in Nat /\ tq[i] \in TdMsg
    BY <1>1
  <1>3. \A i \in DOMAIN queue : i \in Nat /\ queue[i] \in Txns
    BY <1>1
  <1> QED BY <1>2, <1>3, MsgFacts

(* A step that leaves transactiond alone, creates transactions or ends     *)
(* their creators at most and moves no waiting call keeps what the         *)
(* invariant says of transactiond.                                         *)
Unnoticed ==
    /\ tq' = tq /\ active' = active /\ queue' = queue /\ waiting' = waiting
    /\ \A u \in Txns : \/ txn'[u] = txn[u]
                       \/ txn[u] = "new" /\ txn'[u] = "open"
                       \/ txn[u] = "open" /\ txn'[u] = "failed"
    /\ \A u \in Txns : top[u] = "query" <=> top'[u] = "query"
    /\ \A u \in Txns : top[u] = "query" => stack'[u] = stack[u]

LEMMA LockSideKept ==
    ASSUME TypeOK, LockInv, Unnoticed
    PROVE  LockSide'
  <1> USE Elements DEF LockInv, Unnoticed
  <1>1. ReleaseMsgs'
    BY DEF ReleaseMsgs
  <1>2. QueryMsgs'
    BY DEF QueryMsgs, IsQuery, Callee
  <1>3. QueueWaits'
    BY DEF QueueWaits, Callee
  <1>4. WaitingOwed'
    BY DEF WaitingOwed
  <1>5. ActiveLives'
    BY DEF ActiveLives, TypeOK
  <1>6. NoLoss'
    BY DEF NoLoss, IsQuery
  <1> QED BY <1>1, <1>2, <1>3, <1>4, <1>5, <1>6 DEF LockSide

(* transaction.create opens a session that is in no call. *)
LEMMA CreateStep ==
    ASSUME TypeOK, LockInv, NEW t \in Txns, Create(t)
    PROVE  LockInv'
  <1> USE DEF Create, serviceVars, lockVars, TypeOK
  <1>1. HolderActive'
    BY DEF LockInv, HolderActive, Held, Acted
  <1>2. ClosedIdle'
    BY DEF LockInv, ClosedIdle
  <1>3. StackTop'
    BY DEF LockInv, StackTop
  <1>4. Unnoticed
    BY DEF Unnoticed
  <1> HIDE DEF TypeOK
  <1>5. LockSide'
    BY <1>4, LockSideKept
  <1> QED BY <1>1, <1>2, <1>3, <1>5 DEF LockInv, LockSide

(* A call starts at a service that has not been asked yet. *)
LEMMA CallStep ==
    ASSUME TypeOK, LockInv, NEW t \in Txns, NEW s \in Services, Call(t, s)
    PROVE  LockInv'
  <1> USE DEF Call, serviceVars, lockVars, TypeOK
  <1>1. HolderActive'
    BY DEF LockInv, HolderActive, Held, Acted
  <1>2. ClosedIdle'
    BY DEF LockInv, ClosedIdle
  <1>3. StackTop'
    <2>1. Append(stack[t], s) # <<>>
      BY AppendFacts
    <2> QED BY <2>1 DEF LockInv, StackTop
  <1>4. Unnoticed
    BY DEF Unnoticed
  <1> HIDE DEF TypeOK
  <1>5. LockSide'
    BY <1>4, LockSideKept
  <1> QED BY <1>1, <1>2, <1>3, <1>5 DEF LockInv, LockSide

(* A service that knows the session needs no grant: the session is active. *)
LEMMA DispatchKnownStep ==
    ASSUME TypeOK, LockInv, NEW t \in Txns, DispatchKnown(t)
    PROVE  LockInv'
  <1> USE DEF DispatchKnown, serviceVars, lockVars, TypeOK
  <1>1. HolderActive'
    <2>1. Callee(t) \in Services
      BY CalleeType DEF LockInv
    <2>2. Held(t)
      BY <2>1 DEF Held
    <2>3. \A u \in Txns : Held(u)' => Held(u)
      BY <2>2 DEF Held, Acted
    <2> QED BY <2>3 DEF LockInv, HolderActive
  <1>2. ClosedIdle'
    BY DEF LockInv, ClosedIdle
  <1>3. StackTop'
    BY DEF LockInv, StackTop
  <1>4. Unnoticed
    BY DEF Unnoticed
  <1> HIDE DEF TypeOK
  <1>5. LockSide'
    BY <1>4, LockSideKept
  <1> QED BY <1>1, <1>2, <1>3, <1>5 DEF LockInv, LockSide

(* A granted call acts. *)
LEMMA ExecuteStep ==
    ASSUME TypeOK, LockInv, NEW t \in Txns, Execute(t)
    PROVE  LockInv'
  <1> USE DEF Execute, lockVars, TypeOK
  <1>1. HolderActive'
    <2>1. Held(t)
      BY DEF Held
    <2>2. \A u \in Txns : Acted(u)' => Acted(u) \/ u = t
      <3>1. /\ DOMAIN log' = DOMAIN log \cup {Len(log) + 1}
            /\ log'[Len(log) + 1] = t
            /\ \A i \in DOMAIN log : log'[i] = log[i]
        BY AppendFacts
      <3> QED BY <3>1 DEF Acted
    <2>3. \A u \in Txns : Held(u)' => Held(u)
      BY <2>1, <2>2 DEF Held
    <2> QED BY <2>3 DEF LockInv, HolderActive
  <1>2. ClosedIdle'
    BY DEF LockInv, ClosedIdle
  <1>3. StackTop'
    BY DEF LockInv, StackTop
  <1>4. Unnoticed
    BY DEF Unnoticed
  <1> HIDE DEF TypeOK
  <1>5. LockSide'
    BY <1>4, LockSideKept
  <1> QED BY <1>1, <1>2, <1>3, <1>5 DEF LockInv, LockSide

(* A call is answered. *)
LEMMA ReturnStep ==
    ASSUME TypeOK, LockInv, NEW t \in Txns, Return(t)
    PROVE  LockInv'
  <1> USE DEF Return, serviceVars, lockVars, TypeOK
  <1>1. HolderActive'
    <2>1. \A u \in Txns : Held(u)' => Held(u)
      BY DEF Held, Acted
    <2> QED BY <2>1 DEF LockInv, HolderActive
  <1>2. ClosedIdle'
    BY DEF LockInv, ClosedIdle
  <1>3. StackTop'
    <2>1. stack[t] # <<>>
      BY DEF LockInv, StackTop
    <2>2. SubSeq(stack[t], 1, Len(stack[t]) - 1) = <<>> <=> Len(stack[t]) = 1
      BY <2>1, FrontFacts
    <2>3. stack'[t] = <<>> <=> top'[t] = "idle"
      BY <2>2
    <2>4. \A u \in Txns \ {t} : stack'[u] = stack[u] /\ top'[u] = top[u]
      OBVIOUS
    <2> QED BY <2>3, <2>4 DEF LockInv, StackTop
  <1>4. Unnoticed
    BY DEF Unnoticed
  <1> HIDE DEF TypeOK
  <1>5. LockSide'
    BY <1>4, LockSideKept
  <1> QED BY <1>1, <1>2, <1>3, <1>5 DEF LockInv, LockSide

(* An error ends the innermost call, and with the outermost the creator:   *)
(* a transaction that is active stays so.                                  *)
LEMMA RaiseStep ==
    ASSUME TypeOK, LockInv, NEW t \in Txns, Raise(t)
    PROVE  LockInv'
  <1> USE DEF serviceVars, lockVars
  <1>0. /\ top[t] = "exec" /\ txn[t] = "open" /\ stack[t] # <<>>
        /\ stack[t] \in Seq(Services)
    BY DEF Raise, LockInv, ClosedIdle, StackTop, TypeOK
  <1>1. /\ \A u \in Txns \ {t} : top'[u] = top[u] /\ txn'[u] = txn[u] /\ stack'[u] = stack[u]
        /\ stack'[t] = SubSeq(stack[t], 1, Len(stack[t]) - 1)
        /\ \/ Len(stack[t]) = 1 /\ top'[t] = "idle" /\ txn'[t] = "failed"
           \/ Len(stack[t]) # 1 /\ top'[t] = "exec" /\ txn'[t] = "open"
    <2>1. CASE Len(stack[t]) = 1
      BY <2>1 DEF Raise, TypeOK
    <2>2. CASE Len(stack[t]) # 1
      BY <1>0, <2>2 DEF Raise, TypeOK
    <2> QED BY <2>1, <2>2
  <1>2. /\ session_pool' = session_pool /\ log' = log
        /\ tq' = tq /\ active' = active /\ queue' = queue /\ waiting' = waiting
    BY DEF Raise
  <1>3. HolderActive'
    <2>1. \A u \in Txns : Held(u)' => Held(u)
      BY <1>0, <1>1, <1>2 DEF Held, Acted
    <2>2. \A u \in Txns : txn'[u] # "released" => txn[u] # "released"
      BY <1>0, <1>1
    <2> QED BY <1>2, <2>1, <2>2 DEF LockInv, HolderActive
  <1>4. ClosedIdle'
    BY <1>1 DEF LockInv, ClosedIdle
  <1>5. StackTop'
    <2>1. SubSeq(stack[t], 1, Len(stack[t]) - 1) = <<>> <=> Len(stack[t]) = 1
      BY <1>0, FrontFacts
    <2> QED BY <1>1, <2>1 DEF LockInv, StackTop
  <1>6. Unnoticed
    BY <1>0, <1>1, <1>2 DEF Unnoticed
  <1>7. LockSide'
    BY <1>6, LockSideKept
  <1> QED BY <1>3, <1>4, <1>5, <1>7 DEF LockInv, LockSide

(* A service forgets a session that was released. *)
LEMMA ForgetSessionStep ==
    ASSUME TypeOK, LockInv, NEW t \in Txns, NEW s \in Services,
           ForgetSession(s, t)
    PROVE  LockInv'
  <1> USE DEF ForgetSession, clientVars, lockVars, TypeOK
  <1>1. HolderActive'
    <2>1. \A u \in Txns : Held(u)' => Held(u)
      BY DEF Held, Acted
    <2> QED BY <2>1 DEF LockInv, HolderActive
  <1>2. ClosedIdle' /\ StackTop'
    BY DEF LockInv, ClosedIdle, StackTop
  <1>3. Unnoticed
    BY DEF Unnoticed
  <1> HIDE DEF TypeOK
  <1>4. LockSide'
    BY <1>3, LockSideKept
  <1> QED BY <1>1, <1>2, <1>4 DEF LockInv, LockSide

(* tq' is tq with one more message. *)
Sent(m, n) ==
    /\ DOMAIN tq' = DOMAIN tq \cup {n}
    /\ n \notin DOMAIN tq
    /\ tq'[n] = m
    /\ \A i \in DOMAIN tq : tq'[i] = tq[i]

(* A message that is no query, from a transaction that is not open if it   *)
(* is a release, keeps what the invariant says of transactiond.            *)
LEMMA OtherMsgSent ==
    ASSUME TypeOK, LockInv, NEW m \in TdMsg, m.cmd # "query",
           tq' = Append(tq, m),
           m.cmd = "release" => txn'[m.t] = "releasing",
           active' = active, queue' = queue, waiting' = waiting,
           top' = top, stack' = stack,
           \A u \in Txns : \/ txn'[u] = txn[u]
                           \/ txn[u] = "open" /\ txn'[u] = "releasing"
    PROVE  LockSide'
  <1>n. PICK n : Sent(m, n)
    <2>1. tq \in Seq(TdMsg)
      BY DEF TypeOK
    <2> QED BY <2>1, AppendFacts DEF Sent
  <1> USE Elements DEF LockInv
  <1>1. ReleaseMsgs'
    BY <1>n DEF ReleaseMsgs, Sent
  <1>2. QueryMsgs'
    BY <1>n DEF QueryMsgs, IsQuery, Callee, Sent
  <1>3. QueueWaits'
    BY DEF QueueWaits, Callee
  <1>4. WaitingOwed'
    BY DEF WaitingOwed
  <1>5. ActiveLives'
    BY DEF ActiveLives, TypeOK
  <1>6. NoLoss'
    BY <1>n DEF NoLoss, IsQuery, Sent
  <1> QED BY <1>1, <1>2, <1>3, <1>4, <1>5, <1>6 DEF LockSide

(* The creator releases its transaction when no call is under way. *)
LEMMA ReleaseStep ==
    ASSUME TypeOK, LockInv, NEW t \in Txns, Release(t)
    PROVE  LockInv'
  <1>1. HolderActive'
    BY DEF TypeOK, Release, serviceVars, LockInv, HolderActive, Held, Acted
  <1>2. ClosedIdle'
    BY DEF TypeOK, Release, LockInv, ClosedIdle, StackTop
  <1>3. StackTop'
    BY DEF TypeOK, Release, LockInv, StackTop
  <1>4. LockSide'
    <2> DEFINE m == [cmd |-> "release", t |-> t]
    <2>1. m \in TdMsg /\ m.cmd = "release" /\ m.t = t
      BY DEF TdMsg
    <2>2. /\ tq' = Append(tq, m) /\ txn'[t] = "releasing"
          /\ active' = active /\ queue' = queue /\ waiting' = waiting
          /\ top' = top /\ stack' = stack
          /\ \A u \in Txns : \/ txn'[u] = txn[u]
                             \/ txn[u] = "open" /\ txn'[u] = "releasing"
      BY DEF TypeOK, Release
    <2> HIDE DEF m
    <2> QED BY <2>1, <2>2, OtherMsgSent
  <1> QED BY <1>1, <1>2, <1>3, <1>4 DEF LockInv, LockSide

(* watch_session asks transactiond to be told of the release. *)
LEMMA WatchSessionStep ==
    ASSUME TypeOK, LockInv, NEW t \in Txns, NEW s \in Services,
           WatchSession(s, t)
    PROVE  LockInv'
  <1>1. HolderActive' /\ ClosedIdle' /\ StackTop'
    BY DEF WatchSession, clientVars, LockInv, HolderActive, Held, Acted,
           ClosedIdle, StackTop
  <1>2. LockSide'
    <2> DEFINE m == [cmd |-> "link", t |-> t, s |-> s]
    <2>1. m \in TdMsg /\ m.cmd = "link"
      BY DEF TdMsg
    <2>2. /\ tq' = Append(tq, m)
          /\ active' = active /\ queue' = queue /\ waiting' = waiting
          /\ top' = top /\ stack' = stack /\ txn' = txn
      BY DEF WatchSession, clientVars
    <2> HIDE DEF m
    <2> QED BY <2>1, <2>2, OtherMsgSent
  <1> QED BY <1>1, <1>2 DEF LockInv, LockSide

(* A service that does not know the session asks for the lock.  The call   *)
(* waited for nothing before, so this is its only query.                   *)
LEMMA DispatchNewStep ==
    ASSUME TypeOK, LockInv, NEW t \in Txns, DispatchNew(t)
    PROVE  LockInv'
  <1> DEFINE m == [cmd |-> "query", t |-> t, s |-> Callee(t)]
  <1>c. Callee(t) \in Services
    BY CalleeType DEF LockInv, DispatchNew
  <1>m. m \in TdMsg /\ m.cmd = "query" /\ m.t = t /\ m.s = Callee(t)
    BY <1>c DEF TdMsg
  <1>u. /\ top[t] = "sent" /\ top'[t] = "query"
        /\ \A u \in Txns : u # t => top'[u] = top[u]
        /\ stack' = stack /\ txn' = txn /\ log' = log
        /\ tq' = Append(tq, m)
        /\ active' = active /\ queue' = queue /\ waiting' = waiting
    BY DEF TypeOK, DispatchNew
  <1>n. PICK n : Sent(m, n)
    <2>1. tq \in Seq(TdMsg)
      BY DEF TypeOK
    <2> HIDE DEF m
    <2> QED BY <1>m, <1>u, <2>1, AppendFacts DEF Sent
  <1> HIDE DEF m
  <1>1. HolderActive'
    <2>1. \A u \in Txns : Held(u)' => Held(u)
      <3>1. \A u \in Txns, s \in Services :
                u # t /\ u \in session_pool'[s] => u \in session_pool[s]
        BY DEF TypeOK, DispatchNew
      <3> QED BY <1>u, <3>1 DEF Held, Acted
    <2> QED BY <1>u, <2>1 DEF LockInv, HolderActive
  <1>2. ClosedIdle'
    BY <1>u DEF LockInv, ClosedIdle
  <1>3. StackTop'
    BY <1>u DEF LockInv, StackTop
  <1> USE Elements, <1>u DEF LockInv
  <1>4. ReleaseMsgs'
    BY <1>n, <1>m DEF ReleaseMsgs, Sent
  <1>5. QueryMsgs'
    <2>1. \A i \in DOMAIN tq : IsQuery(i) => tq[i].t # t
      BY DEF QueryMsgs
    <2>2. \A k \in DOMAIN queue : queue[k] # t
      BY DEF QueueWaits
    <2> QED BY <1>n, <1>m, <2>1, <2>2 DEF QueryMsgs, IsQuery, Callee, Sent
  <1>6. QueueWaits'
    BY DEF QueueWaits, Callee
  <1>7. WaitingOwed'
    BY DEF WaitingOwed
  <1>8. ActiveLives'
    BY DEF ActiveLives
  <1>9. NoLoss'
    BY <1>n, <1>m DEF NoLoss, IsQuery, Sent
  <1> QED
    BY <1>1, <1>2, <1>3, <1>4, <1>5, <1>6, <1>7, <1>8, <1>9

(* tq' is tq without its oldest message. *)
Taken ==
    /\ \A i \in DOMAIN tq' : i \in Nat /\ i + 1 \in DOMAIN tq /\ tq'[i] = tq[i + 1]
    /\ \A i \in DOMAIN tq : i # 1 => i - 1 \in DOMAIN tq' /\ tq[i] = tq'[i - 1]

LEMMA TakenFacts ==
    ASSUME TypeOK, tq # <<>>, tq' = Tail(tq)
    PROVE  Taken
  BY HeadMsg DEF Taken

(* A query that is not the oldest message is still there afterwards. *)
LEMMA QueryLeft ==
    ASSUME Taken, NEW u, NEW i \in DOMAIN tq, i # 1, IsQuery(i), tq[i].t = u
    PROVE  \E j \in DOMAIN tq' : IsQuery(j)' /\ tq'[j].t = u
  <1>1. i - 1 \in DOMAIN tq' /\ tq'[i - 1] = tq[i]
    BY DEF Taken
  <1> QED BY <1>1 DEF IsQuery

(* Taking a message that is no query, in a step that changes no call, no   *)
(* queue and no transaction, keeps what the invariant says of the mailbox. *)
LEMMA MailTaken ==
    ASSUME TypeOK, LockInv, tq # <<>>, tq' = Tail(tq),
           tq[1].cmd # "query",
           top' = top, stack' = stack, queue' = queue,
           \A u \in Txns : txn'[u] = txn[u] \/ txn'[u] = "released"
    PROVE  ReleaseMsgs' /\ QueryMsgs' /\ NoLoss'
  <1>t. Taken
    BY TakenFacts
  <1> USE Elements DEF LockInv
  <1>1. ReleaseMsgs'
    BY <1>t DEF ReleaseMsgs, Taken
  <1>2. QueryMsgs'
    BY <1>t DEF QueryMsgs, IsQuery, Callee, Taken
  <1>3. NoLoss'
    <2>1. \A i \in DOMAIN tq : IsQuery(i) => i # 1
      BY DEF IsQuery
    <2>2. \A u \in Txns : (\E i \in DOMAIN tq : IsQuery(i) /\ tq[i].t = u)
                           => \E j \in DOMAIN tq' : IsQuery(j)' /\ tq'[j].t = u
      BY <1>t, <2>1, QueryLeft
    <2> QED BY <2>2 DEF NoLoss
  <1> QED BY <1>1, <1>2, <1>3

(* transactiond answers link later. *)
LEMMA LinkStep ==
    ASSUME TypeOK, LockInv, Link
    PROVE  LockInv'
  <1>1. /\ tq # <<>> /\ tq' = Tail(tq) /\ Head(tq).cmd = "link"
        /\ top' = top /\ stack' = stack /\ queue' = queue /\ txn' = txn
        /\ active' = active /\ waiting' = waiting
        /\ session_pool' = session_pool /\ log' = log
    BY DEF Link, TdHas, clientVars, serviceVars
  <1>2. tq[1].cmd # "query"
    BY <1>1, HeadMsg
  <1>3. ReleaseMsgs' /\ QueryMsgs' /\ NoLoss'
    BY <1>1, <1>2, MailTaken
  <1>4. HolderActive' /\ ClosedIdle' /\ StackTop'
    BY <1>1 DEF LockInv, HolderActive, Held, Acted, ClosedIdle, StackTop
  <1>5. QueueWaits' /\ WaitingOwed' /\ ActiveLives'
    BY <1>1 DEF LockInv, QueueWaits, WaitingOwed, ActiveLives, Callee
  <1> QED BY <1>3, <1>4, <1>5 DEF LockInv

(* release of a session that is not active. *)
LEMMA ReleaseIdleStep ==
    ASSUME TypeOK, LockInv, ReleaseIdle
    PROVE  LockInv'
  <1> DEFINE r == Head(tq).t
  <1>1. /\ tq # <<>> /\ tq' = Tail(tq) /\ Head(tq).cmd = "release"
        /\ top' = top /\ stack' = stack /\ queue' = queue
        /\ active # r /\ active' = active /\ waiting' = waiting
        /\ session_pool' = session_pool /\ log' = log
    BY DEF ReleaseIdle, TdHas
  <1>2. tq[1].cmd # "query" /\ r \in Txns
    BY <1>1, HeadMsg
  <1>3. txn'[r] = "released" /\ \A u \in Txns : u # r => txn'[u] = txn[u]
    BY <1>2 DEF TypeOK, ReleaseIdle
  <1>r. txn[r] # "open"
    BY <1>1, HeadMsg DEF LockInv, ReleaseMsgs
  <1> HIDE DEF r
  <1>4. ReleaseMsgs' /\ QueryMsgs' /\ NoLoss'
    BY <1>1, <1>2, <1>3, MailTaken
  <1>5. HolderActive' /\ ClosedIdle' /\ StackTop'
    BY <1>1, <1>3, <1>r DEF LockInv, HolderActive, Held, Acted, ClosedIdle, StackTop
  <1>6. QueueWaits' /\ WaitingOwed'
    BY <1>1, <1>3 DEF LockInv, QueueWaits, WaitingOwed, Callee
  <1>7. ActiveLives'
    BY <1>1, <1>3 DEF LockInv, ActiveLives, TypeOK
  <1> QED BY <1>4, <1>5, <1>6, <1>7 DEF LockInv

(* query is granted: nobody else held the lock. *)
LEMMA QueryGrantedStep ==
    ASSUME TypeOK, LockInv, QueryGranted
    PROVE  LockInv'
  <1> DEFINE q == Head(tq).t
  <1>1. /\ tq # <<>> /\ tq' = Tail(tq) /\ Head(tq).cmd = "query"
        /\ active \in {None, q} /\ active' = q
        /\ txn' = txn /\ stack' = stack /\ queue' = queue /\ waiting' = waiting
        /\ session_pool' = session_pool /\ log' = log
    BY DEF QueryGranted, TdHas, serviceVars
  <1>2. q \in Txns /\ 1 \in DOMAIN tq /\ tq[1].t = q /\ tq[1].cmd = "query"
    BY <1>1, HeadMsg
  <1>3. top'[q] = "granted" /\ \A u \in Txns : u # q => top'[u] = top[u]
    BY <1>2 DEF TypeOK, QueryGranted
  <1>4. /\ top[q] = "query"
        /\ \A j \in DOMAIN tq : IsQuery(j) /\ tq[j].t = q => j = 1
        /\ \A k \in DOMAIN queue : queue[k] # q
    BY <1>2, Elements DEF LockInv, QueryMsgs, IsQuery
  <1>5. txn[q] = "open"
    BY <1>2, <1>4 DEF LockInv, ClosedIdle
  <1>t. Taken
    BY <1>1, TakenFacts
  <1>n. None \notin Txns
    BY TransactionAssumption
  <1> HIDE DEF q
  <1> USE <1>1, <1>2, <1>3, <1>4, <1>5 DEF LockInv
  <1>6. HolderActive'
    <2>1. \A u \in Txns : u # q /\ Held(u)' => Held(u)
      BY DEF Held, Acted
    <2> QED BY <1>n, <2>1 DEF HolderActive
  <1>7. ClosedIdle' /\ StackTop'
    BY DEF ClosedIdle, StackTop
  <1>8. ReleaseMsgs'
    BY <1>t DEF ReleaseMsgs, Taken
  <1>9. QueryMsgs'
    <2>1. \A i \in DOMAIN tq' : tq'[i].cmd = "query" => tq'[i].t # q
      BY <1>t, Elements DEF Taken, IsQuery
    <2> QED BY <1>t, <2>1, Elements DEF QueryMsgs, IsQuery, Callee, Taken
  <1>10. QueueWaits'
    BY Elements DEF QueueWaits, Callee
  <1>11. WaitingOwed'
    BY <1>n DEF WaitingOwed
  <1>12. ActiveLives'
    BY <1>n DEF ActiveLives
  <1>13. NoLoss'
    <2>1. \A u \in Txns \ {q} : (\E i \in DOMAIN tq : IsQuery(i) /\ tq[i].t = u)
                           => \E j \in DOMAIN tq' : IsQuery(j)' /\ tq'[j].t = u
      BY <1>t, QueryLeft
    <2> QED BY <2>1 DEF NoLoss
  <1> QED
    BY <1>6, <1>7, <1>8, <1>9, <1>10, <1>11, <1>12, <1>13

(* query waits: its transaction had no answer owed and was not queued. *)
LEMMA QueryQueuedStep ==
    ASSUME TypeOK, LockInv, QueryQueued
    PROVE  LockInv'
  <1> DEFINE q == Head(tq).t
             s == Head(tq).s
  <1>1. /\ tq # <<>> /\ tq' = Tail(tq) /\ Head(tq).cmd = "query"
        /\ active # None /\ active # q /\ active' = active
        /\ queue' = Append(queue, q)
        /\ txn' = txn /\ stack' = stack /\ top' = top
        /\ session_pool' = session_pool /\ log' = log
    BY DEF QueryQueued, TdHas, clientVars, serviceVars
  <1>2. /\ q \in Txns /\ s \in Services
        /\ 1 \in DOMAIN tq /\ tq[1].t = q /\ tq[1].s = s /\ tq[1].cmd = "query"
    BY <1>1, HeadMsg
  <1>3. /\ top[q] = "query" /\ s = Callee(q)
        /\ \A j \in DOMAIN tq : IsQuery(j) /\ tq[j].t = q => j = 1
        /\ \A k \in DOMAIN queue : queue[k] # q
    BY <1>2, Elements DEF LockInv, QueryMsgs, IsQuery
  <1>4. txn[q] = "open"
    BY <1>2, <1>3 DEF LockInv, ClosedIdle
  <1>5. waiting[q] = <<>>
    BY <1>1, <1>2, <1>3, <1>4 DEF LockInv, WaitingOwed
  <1>6. waiting'[q] = <<s>> /\ \A u \in Txns : u # q => waiting'[u] = waiting[u]
    BY <1>2, <1>5 DEF TypeOK, QueryQueued
  <1>7. PICK n : /\ DOMAIN queue' = DOMAIN queue \cup {n}
                 /\ n \notin DOMAIN queue
                 /\ queue'[n] = q
                 /\ \A i \in DOMAIN queue : queue'[i] = queue[i]
    <2>1. queue \in Seq(Txns)
      BY DEF TypeOK
    <2> HIDE DEF q
    <2> QED BY <1>1, <1>2, <2>1, AppendFacts
  <1>t. Taken
    BY <1>1, TakenFacts
  <1> HIDE DEF q, s
  <1> USE <1>1, <1>2, <1>3, <1>4 DEF LockInv
  <1>8. HolderActive' /\ ClosedIdle' /\ StackTop'
    BY DEF HolderActive, Held, Acted, ClosedIdle, StackTop
  <1>9. ReleaseMsgs'
    BY <1>t DEF ReleaseMsgs, Taken
  <1>10. QueryMsgs'
    <2>1. \A i \in DOMAIN tq' : tq'[i].cmd = "query" => tq'[i].t # q
      BY <1>t, Elements DEF Taken, IsQuery
    <2> QED BY <1>t, <1>7, <2>1, Elements DEF QueryMsgs, IsQuery, Callee, Taken
  <1>11. QueueWaits'
    <2>2. ASSUME NEW i \in DOMAIN queue
          PROVE  /\ queue'[i] = queue[i] /\ queue[i] \in Txns /\ queue[i] # q
                 /\ top'[queue'[i]] = "query"
                 /\ waiting'[queue'[i]] = <<Callee(queue[i])>>
      <3>1. queue'[i] = queue[i] /\ queue[i] \in Txns /\ queue[i] # q
        BY <1>7, Elements
      <3>2. top[queue[i]] = "query" /\ waiting[queue[i]] = <<Callee(queue[i])>>
        BY DEF QueueWaits
      <3> QED BY <1>6, <3>1, <3>2
    <2>3. /\ top'[queue'[n]] = "query"
          /\ waiting'[queue'[n]] = <<Callee(q)>>
      BY <1>6, <1>7
    <2>4. \A i, j \in DOMAIN queue' : queue'[i] = queue'[j] => i = j
      BY <1>7, <2>2 DEF QueueWaits
    <2>5. ASSUME NEW i \in DOMAIN queue'
          PROVE  waiting'[queue'[i]] = <<stack'[queue'[i]][Len(stack'[queue'[i]])]>>
      <3>1. CASE i = n
        BY <1>7, <2>3, <3>1 DEF Callee
      <3>2. CASE i # n
        <4>1. i \in DOMAIN queue
          BY <1>7, <3>2
        <4>2. queue'[i] = queue[i] /\ waiting'[queue'[i]] = <<Callee(queue[i])>>
          BY <2>2, <4>1
        <4> QED BY <4>2 DEF Callee
      <3> QED BY <3>1, <3>2
    <2>6. \A i \in DOMAIN queue' : top'[queue'[i]] = "query"
      BY <1>7, <2>2, <2>3
    <2> QED BY <2>4, <2>5, <2>6 DEF QueueWaits, Callee
  <1>12. WaitingOwed'
    BY <1>6, <1>7 DEF WaitingOwed
  <1>13. ActiveLives'
    BY DEF ActiveLives
  <1>14. NoLoss'
    <2>1. \A u \in Txns \ {q} : (\E i \in DOMAIN tq : IsQuery(i) /\ tq[i].t = u)
                           => \E j \in DOMAIN tq' : IsQuery(j)' /\ tq'[j].t = u
      BY <1>t, QueryLeft
    <2> QED BY <1>7, <2>1 DEF NoLoss
  <1> QED
    BY <1>8, <1>9, <1>10, <1>11, <1>12, <1>13, <1>14

(* release of the active session: the oldest waiting one takes over.  It   *)
(* is not the released one, which is in no call.                           *)
LEMMA ReleaseActiveStep ==
    ASSUME TypeOK, LockInv, ReleaseActive
    PROVE  LockInv'
  <1> DEFINE r == Head(tq).t
             h == Head(queue)
  <1>1. /\ tq # <<>> /\ tq' = Tail(tq) /\ Head(tq).cmd = "release"
        /\ active = r /\ waiting' = waiting /\ stack' = stack
        /\ session_pool' = session_pool /\ log' = log
    BY DEF ReleaseActive, TdHas
  <1>2. /\ r \in Txns
        /\ 1 \in DOMAIN tq /\ tq[1].t = r /\ tq[1].cmd = "release"
    BY <1>1, HeadMsg
  <1>3. txn'[r] = "released" /\ \A u \in Txns : u # r => txn'[u] = txn[u]
    BY <1>2 DEF TypeOK, ReleaseActive
  <1>4. txn[r] # "open" /\ top[r] = "idle"
    BY <1>2 DEF LockInv, ReleaseMsgs, ClosedIdle
  <1>t. Taken
    BY <1>1, TakenFacts
  <1>n. None \notin Txns
    BY TransactionAssumption
  <1>5. CASE queue = <<>>
    <2>1. active' = None /\ queue' = queue /\ top' = top
      BY <1>5 DEF ReleaseActive
    <2>2. tq[1].cmd # "query" /\ \A u \in Txns : txn'[u] = txn[u] \/ txn'[u] = "released"
      BY <1>2, <1>3
    <2> HIDE DEF r
    <2>3. ReleaseMsgs' /\ QueryMsgs' /\ NoLoss'
      BY <1>1, <2>1, <2>2, MailTaken
    <2> USE <1>1, <1>2, <1>3, <1>4, <2>1 DEF LockInv
    <2>4. HolderActive'
      BY DEF HolderActive, Held, Acted
    <2>5. ClosedIdle' /\ StackTop'
      BY DEF ClosedIdle, StackTop
    <2>6. QueueWaits'
      BY <1>5 DEF QueueWaits, Callee
    <2>7. WaitingOwed'
      BY DEF WaitingOwed
    <2>8. ActiveLives'
      BY <1>5 DEF ActiveLives
    <2> QED BY <2>3, <2>4, <2>5, <2>6, <2>7, <2>8
  <1>6. CASE queue # <<>>
    <2>1. /\ h \in Txns /\ h = queue[1] /\ 1 \in DOMAIN queue
          /\ \A i \in DOMAIN Tail(queue) :
                 i \in Nat /\ i + 1 \in DOMAIN queue /\ Tail(queue)[i] = queue[i + 1]
          /\ \A i \in DOMAIN queue : i # 1 =>
                 i - 1 \in DOMAIN Tail(queue) /\ queue[i] = Tail(queue)[i - 1]
      <3>1. queue \in Seq(Txns)
        BY DEF TypeOK
      <3> QED BY <1>6, <3>1, TailFacts
    <2>2. active' = h /\ queue' = Tail(queue)
      BY <1>6 DEF ReleaseActive
    <2>3. top[h] = "query" /\ waiting[h] # <<>>
      BY <2>1 DEF LockInv, QueueWaits
    <2>4. top'[h] = "granted" /\ \A u \in Txns : u # h => top'[u] = top[u]
      BY <1>6, <2>1, <2>3 DEF TypeOK, ReleaseActive
    <2>5. h # r /\ txn[h] = "open"
      BY <1>4, <2>1, <2>3 DEF LockInv, ClosedIdle
    <2>6. /\ \A i \in DOMAIN queue' : /\ i \in Nat /\ i + 1 \in DOMAIN queue
                                     /\ queue'[i] = queue[i + 1]
          /\ \A i \in DOMAIN queue : i # 1 =>
                 i - 1 \in DOMAIN queue' /\ queue[i] = queue'[i - 1]
      BY <2>1, <2>2
    <2>7. \A i \in DOMAIN queue' : queue'[i] # h
      <3> HIDE DEF h
      <3> SUFFICES ASSUME NEW i \in DOMAIN queue', queue'[i] = h PROVE FALSE
        OBVIOUS
      <3>1. i \in Nat /\ i + 1 \in DOMAIN queue /\ queue[i + 1] = queue[1]
        BY <2>1, <2>6
      <3>2. 1 = i + 1
        BY <2>1, <3>1 DEF LockInv, QueueWaits
      <3>3. 0 \in DOMAIN queue'
        BY <3>1, <3>2
      <3>4. queue' \in Seq(Txns)
        BY <1>6, <2>2, TailFacts DEF TypeOK
      <3> QED BY <3>3, <3>4
    <2>8. \A i \in DOMAIN tq : IsQuery(i) => tq[i].t # h
      BY <2>1 DEF LockInv, QueryMsgs
    <2> HIDE DEF r, h
    <2> USE <1>1, <1>2, <1>3, <1>4, <2>1, <2>2, <2>3, <2>4, <2>5 DEF LockInv
    <2>9. HolderActive'
      <3>1. \A u \in Txns : u # h /\ Held(u)' => Held(u)
        BY DEF Held, Acted
      <3> QED BY <3>1 DEF HolderActive
    <2>10. ClosedIdle' /\ StackTop'
      BY DEF ClosedIdle, StackTop
    <2>11. ReleaseMsgs'
      BY <1>t, Elements DEF ReleaseMsgs, Taken
    <2>12. QueryMsgs'
      <3>1. \A i \in DOMAIN tq' : tq'[i].cmd = "query" =>
                /\ i \in Nat /\ i + 1 \in DOMAIN tq /\ tq'[i] = tq[i + 1]
                /\ IsQuery(i + 1) /\ tq'[i].t \in Txns /\ tq'[i].t # h
        BY <1>t, <2>8, Elements DEF Taken, IsQuery
      <3>2. \A i \in DOMAIN tq' : tq'[i].cmd = "query" =>
                top'[tq'[i].t] = "query"
        BY <3>1 DEF QueryMsgs
      <3>3. \A i \in DOMAIN tq' : tq'[i].cmd = "query" =>
                (tq[i].s = Callee(tq[i].t))'
        BY <3>1 DEF QueryMsgs, Callee
      <3>4. \A i, j \in DOMAIN tq' :
                /\ tq'[i].cmd = "query" /\ tq'[j].cmd = "query"
                /\ tq'[j].t = tq'[i].t
                => i = j
        <4> SUFFICES ASSUME NEW i \in DOMAIN tq', NEW j \in DOMAIN tq',
                            tq'[i].cmd = "query", tq'[j].cmd = "query",
                            tq'[j].t = tq'[i].t
                     PROVE  i = j
          OBVIOUS
        <4>1. i + 1 = j + 1 /\ i \in Nat /\ j \in Nat
          BY <3>1 DEF QueryMsgs
        <4> QED BY <4>1
      <3>5. \A i \in DOMAIN tq' : tq'[i].cmd = "query" =>
                \A k \in DOMAIN queue' : queue'[k] # tq'[i].t
        BY <2>6, <3>1 DEF QueryMsgs
      <3> QED BY <3>2, <3>3, <3>4, <3>5 DEF QueryMsgs, IsQuery
    <2>13. QueueWaits'
      <3>1. \A i \in DOMAIN queue' : /\ top'[queue'[i]] = "query"
                                     /\ (waiting[queue[i]] = <<Callee(queue[i])>>)'
        BY <2>6, <2>7, Elements DEF QueueWaits, Callee
      <3>2. ASSUME NEW i \in DOMAIN queue', NEW j \in DOMAIN queue',
                   queue'[i] = queue'[j]
            PROVE  i = j
        <4>1. i + 1 = j + 1 /\ i \in Nat /\ j \in Nat
          BY <2>6, <3>2 DEF QueueWaits
        <4> QED BY <4>1
      <3> QED BY <3>1, <3>2 DEF QueueWaits
    <2>14. WaitingOwed'
      <3> SUFFICES ASSUME NEW u \in Txns, waiting'[u] # <<>>,
                          txn'[u] # "released", u # h
                   PROVE  \E i \in DOMAIN queue' : queue'[i] = u
        BY DEF WaitingOwed
      <3>1. PICK i \in DOMAIN queue : queue[i] = u
        BY DEF WaitingOwed
      <3>2. i - 1 \in DOMAIN queue' /\ queue'[i - 1] = u
        BY <2>6, <3>1
      <3> QED BY <3>2
    <2>15. ActiveLives'
      BY <1>n DEF ActiveLives
    <2>16. NoLoss'
      <3> SUFFICES ASSUME NEW u \in Txns, top'[u] = "query"
                   PROVE  \/ \E i \in DOMAIN tq' : IsQuery(i)' /\ tq'[i].t = u
                          \/ \E i \in DOMAIN queue' : queue'[i] = u
        BY DEF NoLoss
      <3>1. u # h /\ top[u] = "query"
        OBVIOUS
      <3>2. CASE \E i \in DOMAIN tq : IsQuery(i) /\ tq[i].t = u
        <4>1. PICK i \in DOMAIN tq : IsQuery(i) /\ tq[i].t = u
          BY <3>2
        <4>2. i # 1
          BY <4>1 DEF IsQuery
        <4> QED BY <1>t, <4>1, <4>2, QueryLeft
      <3>3. CASE \E i \in DOMAIN queue : queue[i] = u
        <4>1. PICK i \in DOMAIN queue : queue[i] = u
          BY <3>3
        <4>2. i - 1 \in DOMAIN queue' /\ queue'[i - 1] = u
          BY <2>6, <3>1, <4>1
        <4> QED BY <4>2
      <3> QED BY <3>1, <3>2, <3>3 DEF NoLoss
    <2> QED
      BY <2>9, <2>10, <2>11, <2>12, <2>13, <2>14, <2>15, <2>16
  <1> QED BY <1>5, <1>6

-----------------------------------------------------------------------------
(* The theorems *)

(* A step that changes nothing keeps the lock invariant. *)
LEMMA StutterStep ==
    ASSUME LockInv, UNCHANGED vars
    PROVE  LockInv'
  <1> USE DEF vars, clientVars, serviceVars, lockVars, LockInv
  <1>1. HolderActive' /\ ClosedIdle' /\ StackTop'
    BY DEF HolderActive, Held, Acted, ClosedIdle, StackTop
  <1>2. ReleaseMsgs' /\ QueryMsgs' /\ NoLoss'
    BY DEF ReleaseMsgs, QueryMsgs, IsQuery, Callee, NoLoss
  <1>3. QueueWaits' /\ WaitingOwed' /\ ActiveLives'
    BY DEF QueueWaits, WaitingOwed, ActiveLives, Callee
  <1> QED BY <1>1, <1>2, <1>3

(* TypeOK /\ LockInv holds initially and is preserved by every step of     *)
(* transactions, services and transactiond, for any number of them.        *)
THEOREM Inductive == Spec => [](TypeOK /\ LockInv)
  <1>1. Init => TypeOK /\ LockInv
    <2> SUFFICES ASSUME Init PROVE TypeOK /\ LockInv
      OBVIOUS
    <2>1. TypeOK
      BY DEF Init, TypeOK, TopPc
    <2>2. HolderActive /\ ClosedIdle /\ StackTop
      BY DEF Init, HolderActive, Held, Acted, ClosedIdle, StackTop
    <2>3. ReleaseMsgs /\ QueryMsgs /\ QueueWaits
      BY DEF Init, ReleaseMsgs, QueryMsgs, IsQuery, QueueWaits
    <2>4. WaitingOwed /\ ActiveLives /\ NoLoss
      BY DEF Init, WaitingOwed, ActiveLives, NoLoss
    <2> QED BY <2>1, <2>2, <2>3, <2>4 DEF LockInv
  <1>2. TypeOK /\ LockInv /\ [Next]_vars => (TypeOK /\ LockInv)'
    <2> SUFFICES ASSUME TypeOK, LockInv, [Next]_vars
                 PROVE  TypeOK' /\ LockInv'
      OBVIOUS
    <2>1. TypeOK'
      BY TypeStep DEF LockInv
    <2>2. LockInv'
      BY StutterStep, CreateStep, CallStep, ReleaseStep, DispatchKnownStep,
         DispatchNewStep, ExecuteStep, ReturnStep, RaiseStep, WatchSessionStep,
         ForgetSessionStep, QueryGrantedStep, QueryQueuedStep, LinkStep,
         ReleaseActiveStep, ReleaseIdleStep
         DEF Next, TxnStep, ServiceStep, LockStep
    <2> QED BY <2>1, <2>2
  <1> QED BY <1>1, <1>2, PTL DEF Spec

(* Every variable keeps its type: in particular transactiond's queue holds *)
(* sessions and its response lists hold the services that asked.           *)
THEOREM TypeCorrect == Spec => []TypeOK
  BY Inductive, PTL

(* The lock invariant implies Isolation. *)
LEMMA LockIsolates ==
    ASSUME LockInv
    PROVE  Isolation
  BY DEF LockInv, HolderActive, ClosedIdle, Held, Isolation

(* From its first grant until transactiond handles its release a           *)
(* transaction is the active one, so that no service acts for another one  *)
(* in between, however many transactions and services there are.           *)
THEOREM IsolationHolds == Spec => []Isolation
  BY Inductive, LockIsolates, PTL

(* The lock invariant implies NoLostWakeup. *)
LEMMA LockWakes ==
    ASSUME TypeOK, LockInv
    PROVE  NoLostWakeup
  <1>1. ASSUME NEW t \in Txns, top[t] = "query"
        PROVE  \/ \E i \in DOMAIN tq : tq[i] = [cmd |-> "query", t |-> t,
                                                s |-> Callee(t)]
               \/ /\ \E i \in DOMAIN queue : queue[i] = t
                  /\ waiting[t] = <<Callee(t)>>
    <2>1. CASE \E i \in DOMAIN tq : IsQuery(i) /\ tq[i].t = t
      <3>1. PICK i \in DOMAIN tq : IsQuery(i) /\ tq[i].t = t
        BY <2>1
      <3>2. tq[i].cmd = "query" /\ tq[i].s = Callee(t)
        BY <3>1 DEF LockInv, QueryMsgs, IsQuery
      <3>3. tq[i] = [cmd |-> tq[i].cmd, t |-> tq[i].t, s |-> tq[i].s]
        BY <3>2, Elements, MsgFacts
      <3> QED BY <3>1, <3>2, <3>3
    <2>2. CASE \E i \in DOMAIN queue : queue[i] = t
      BY <2>2 DEF LockInv, QueueWaits
    <2> QED BY <1>1, <2>1, <2>2 DEF LockInv, NoLoss
  <1>2. ASSUME NEW i \in DOMAIN queue
        PROVE  /\ top[queue[i]] = "query"
               /\ \A j \in DOMAIN queue : queue[i] = queue[j] => i = j
               /\ active # None
               /\ txn[active] # "released"
    <2>1. queue # <<>>
      OBVIOUS
    <2> QED BY <2>1 DEF LockInv, QueueWaits, ActiveLives
  <1> QED BY <1>1, <1>2 DEF NoLostWakeup

(* A call that waits for the lock is in the mailbox or queued once behind  *)
(* a live holder: transactiond loses no wakeup and sends none twice.       *)
THEOREM NoLostWakeupHolds == Spec => []NoLostWakeup
  BY Inductive, LockWakes, PTL

(* Every step is, seen through log and the released transactions, a step   *)
(* of SerialTransactions or none.                                          *)
LEMMA SerialStep ==
    ASSUME TypeOK, LockInv, [Next]_vars
    PROVE  [Serial!Next]_<<log, Released>>
  <1>1. ASSUME log' = log, \A u \in Txns : txn'[u] = "released" <=> txn[u] = "released"
        PROVE  UNCHANGED <<log, Released>>
    BY <1>1 DEF Released
  <1>2. CASE UNCHANGED vars
    BY <1>1, <1>2 DEF vars, clientVars, serviceVars
  <1>3. ASSUME NEW t \in Txns,
               \/ Create(t) \/ Release(t) \/ DispatchKnown(t) \/ DispatchNew(t)
               \/ Return(t)
               \/ \E s \in Services : \/ Call(t, s) \/ WatchSession(s, t)
                                      \/ ForgetSession(s, t)
        PROVE  UNCHANGED <<log, Released>>
    BY <1>1, <1>3
       DEF TypeOK, Create, Release, DispatchKnown, DispatchNew, Return, Call,
           WatchSession, ForgetSession, serviceVars, clientVars
  <1>7. ASSUME NEW t \in Txns, Raise(t) PROVE UNCHANGED <<log, Released>>
    <2>1. txn[t] = "open"
      BY <1>7 DEF Raise, LockInv, ClosedIdle
    <2>2. log' = log /\ \A u \in Txns : txn'[u] = "released" <=> txn[u] = "released"
      BY <1>7, <2>1 DEF TypeOK, Raise, serviceVars
    <2> QED BY <1>1, <2>2
  <1>4. CASE QueryGranted \/ QueryQueued \/ Link
    BY <1>1, <1>4 DEF QueryGranted, QueryQueued, Link, serviceVars, clientVars
  <1>5. ASSUME NEW t \in Txns, Execute(t) PROVE Serial!Next
    <2>1. txn[t] = "open" /\ active = t /\ log' = Append(log, t) /\ txn' = txn
      BY <1>5 DEF LockInv, ClosedIdle, HolderActive, Held, Execute
    <2>2. ASSUME log # <<>>, log[Len(log)] # t
          PROVE  log[Len(log)] \in Released
      <3>1. log \in Seq(Txns)
        BY DEF TypeOK
      <3>2. log[Len(log)] \in Txns /\ Len(log) \in DOMAIN log
        BY <2>2, <3>1
      <3>3. Held(log[Len(log)])
        BY <3>2 DEF Held, Acted
      <3> QED BY <2>1, <2>2, <3>2, <3>3 DEF LockInv, HolderActive, Released
    <2>3. Serial!Act(t)
      BY <2>1, <2>2 DEF Serial!Act, Released
    <2> QED BY <2>3 DEF Serial!Next
  <1>6. CASE ReleaseActive \/ ReleaseIdle
    <2> DEFINE r == Head(tq).t
    <2>1. r \in Txns
      BY <1>6, HeadMsg DEF ReleaseActive, ReleaseIdle, TdHas
    <2>2. log' = log /\ txn' = [txn EXCEPT ![r] = "released"]
      BY <1>6 DEF ReleaseActive, ReleaseIdle
    <2> HIDE DEF r
    <2>3. Released' = Released \cup {r}
      BY <2>1, <2>2 DEF TypeOK, Released
    <2>4. CASE r \in Released
      BY <2>2, <2>3, <2>4
    <2>5. CASE r \notin Released
      BY <2>1, <2>2, <2>3, <2>5 DEF Serial!Next, Serial!Finish
    <2> QED BY <2>4, <2>5
  <1> QED
    BY <1>2, <1>3, <1>4, <1>5, <1>6, <1>7
       DEF Next, TxnStep, ServiceStep, LockStep

(* transactiond and the services implement SerialTransactions: whatever    *)
(* the interleaving, actions happen as if the transactions ran one after   *)
(* the other.                                                              *)
THEOREM Refinement == Spec => SerialExecution
  <1>1. Init => Serial!Init
    BY DEF Init, Serial!Init, Released
  <1>2. TypeOK /\ LockInv /\ [Next]_vars
            => [Serial!Next]_<<log, Released>>
    BY SerialStep
  <1> QED BY <1>1, <1>2, Inductive, PTL DEF Spec, SerialExecution, Serial!Spec
=============================================================================
