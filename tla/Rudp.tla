-------------------------------- MODULE Rudp --------------------------------
(***************************************************************************)
(* lualib-src/rudp: two endpoints that exchange user messages over an      *)
(* unreliable network.  A message is numbered by send_id; only the low     *)
(* bits of the number travel, and get_id widens them again next to         *)
(* recv_id_max.  A receiver requests the ids it misses, a sender answers   *)
(* from its history or says MISSING, and with nothing to say it sends a    *)
(* heartbeat (IGNORE).  The binding, lua-rudp.c, calls rudp_update and     *)
(* then rudp_recv until that has nothing more: lupdate is one action.      *)
(*                                                                         *)
(* What is on its way to an endpoint is a set that only grows: a package   *)
(* may arrive never, late, again, or before an older one.                  *)
(***************************************************************************)
EXTENDS Integers, Sequences, SequencesExt

CONSTANTS Endpoints,   \* the two ends of the connection
          WireIds,     \* number of ids a header can hold: 0x10000 in the code
          SendDelay,   \* rudp_new's send_delay
          Expired,     \* rudp_new's expired_time
          PackageSize, \* GENERAL_PACKAGE, bytes
          MsgSize,     \* bytes of a user message, by id
          Start,       \* messages each end has sent, all of them received
          MaxMsgs,     \* bound: messages each end sends from here on
          MaxTick,     \* bound: the time at each end
          MaxQueue,    \* bound: messages queued at a receiver
          Damage       \* ends at which a package may arrive cut short

ASSUME RudpAssumption ==
  /\ \E e, f \in Endpoints : e # f /\ Endpoints = {e, f}
  /\ WireIds \in Nat \ {0} /\ WireIds % 2 = 0
  /\ SendDelay \in Nat \ {0} /\ Expired \in Nat \ {0}
  /\ PackageSize \in Nat \ (0..3) /\ MaxTick \in [Endpoints -> Nat] /\ MaxQueue \in Nat
  /\ \A e \in Endpoints : MaxTick[e] >= Expired
  /\ Start \in [Endpoints -> Nat] /\ MaxMsgs \in [Endpoints -> Nat]
  /\ Damage \subseteq Endpoints

VARIABLES U,       \* the rudp object of each end
          net,     \* packages sent to an end
          got,     \* user messages the recv callback of an end was given
          sentAt,  \* the tick at which an end's messages were handed to rudp
          aborted  \* ends stopped by a failed assertion

vars == <<U, net, got, sentAt, aborted>>

Peer(e) == CHOOSE f \in Endpoints : f # e

Half == WireIds \div 2

\* The marker of sz = -1 in a queued message.
Missing == -1

(***************************************************************************)
(* A message is its id, the tick of rudp_send and its contents.  The       *)
(* contents of a user message stand for themselves by the number the       *)
(* sender gave it.                                                         *)
(***************************************************************************)
Message(id, data, tick) == [id |-> id, data |-> data, tick |-> tick]

Entry(type, id, data) == [type |-> type, id |-> id % WireIds, data |-> data]

Ignore == Entry("IGNORE", 0, Missing)

Corrupt == Entry("CORRUPT", 0, Missing)

\* rudp_new, after Start[e] messages of e and Start[Peer(e)] to it have gone
\* through and have expired; the next expiry is one tick away.
NewRudp(e) ==
  LET r == Start[Peer(e)]
  IN  [send_queue |-> <<>>, recv_queue |-> <<>>, send_history |-> <<>>,
       send_again |-> <<>>, corrupt |-> FALSE,
       current_tick |-> Expired, last_send_tick |-> Expired, last_expired_tick |-> 1,
       send_id |-> Start[e],
       recv_id_min |-> r, recv_id_max |-> IF r = 0 THEN 0 ELSE r - 1]

Init ==
  /\ U = [e \in Endpoints |-> NewRudp(e)]
  /\ net = [e \in Endpoints |-> {}]
  /\ got = [e \in Endpoints |-> <<>>]
  /\ sentAt = [e \in Endpoints |-> <<>>]
  /\ aborted = {}

\* The first of some indices, and what a sequence has from there on.
First(I) == CHOOSE i \in I : \A j \in I : i <= j

From(s, I) == IF I = {} THEN <<>> ELSE SubSeq(s, First(I), Len(s))

-----------------------------------------------------------------------------
(* Receiving *)

get_idForward(u, w) ==
  LET id == (u.recv_id_max \div WireIds) * WireIds + w
  IN  IF id < u.recv_id_max - Half THEN id + WireIds ELSE id

\* get_id: the id nearest to recv_id_max with the low bits w.
get_id(u, w) ==
  LET id == (u.recv_id_max \div WireIds) * WireIds + w
  IN  CASE id < u.recv_id_max - Half -> id + WireIds
        [] id > u.recv_id_max + Half -> id - WireIds
        [] OTHER -> id

insert_messageLast(u, id, data) ==
  IF id < u.recv_id_min THEN u
  ELSE [u EXCEPT !.recv_queue = Append(@, Message(id, data, 0)), !.recv_id_max = id]

\* A message that is old, or repeats the last one, is dropped; a newer one is
\* appended; another is put in front of the first larger id, also when its id
\* is in the queue already.
insert_message(u, id, data) ==
  LET q == u.recv_queue
      m == Message(id, data, 0)
      larger == {i \in DOMAIN q : q[i].id > id}
  IN  CASE id < u.recv_id_min -> u
        [] id >= u.recv_id_min /\ (id > u.recv_id_max \/ q = <<>>) ->
             [u EXCEPT !.recv_queue = Append(q, m), !.recv_id_max = id]
        [] OTHER -> IF larger = {} THEN u
                    ELSE [u EXCEPT !.recv_queue = InsertAt(q, First(larger), m)]

\* array_insert: an ascending array without repetitions.
array_insert(arr, id) ==
  LET larger == {i \in DOMAIN arr : arr[i] > id}
  IN  CASE id \in Range(arr) -> arr
        [] id \notin Range(arr) /\ larger = {} -> Append(arr, id)
        [] OTHER -> InsertAt(arr, First(larger), id)

\* extract_package: what one entry of a package does.  Nothing after an entry
\* that cannot be read is looked at.
ExtractEntry(u, x) ==
  CASE u.corrupt -> u
    [] ~u.corrupt /\ x.type = "IGNORE" ->
         IF u.send_again = <<>> THEN [u EXCEPT !.send_again = <<u.recv_id_min>>] ELSE u
    [] ~u.corrupt /\ x.type = "CORRUPT" -> [u EXCEPT !.corrupt = TRUE]
    [] ~u.corrupt /\ x.type = "REQUEST" ->
         [u EXCEPT !.send_again = array_insert(@, get_id(u, x.id))]
    [] OTHER -> insert_message(u, get_id(u, x.id), x.data)

\* The object after each entry of p.
Extracted(u, p) ==
  LET after[i \in 0..Len(p)] == IF i = 0 THEN u ELSE ExtractEntry(after[i - 1], p[i])
  IN  after

extract_package(u, p) == Extracted(u, p)[Len(p)]

ReceivableByAge(u) ==
  IF u.corrupt \/ u.recv_queue = <<>> THEN 0 ELSE 1

\* rudp_recv returns the size of what it took off the queue: -1 for a missing
\* message and 0 for an empty one end lupdate's loop, and the callback is not
\* called.
Silent(data) == data = Missing \/ MsgSize[data] = 0

\* How many messages rudp_recv takes off the queue before it returns 0 or -1:
\* those with consecutive ids from recv_id_min up to the first silent one.
Receivable(u) ==
  LET q == u.recv_queue
      InTurn(k) == /\ \A i \in 1..k : q[i].id = u.recv_id_min + i - 1
                   /\ \A i \in 1..(k - 1) : ~Silent(q[i].data)
  IN  IF u.corrupt THEN 0
      ELSE CHOOSE k \in 0..Len(q) : InTurn(k) /\ \A j \in (k + 1)..Len(q) : ~InTurn(j)

ReceivedAll(u) == [i \in 1..Receivable(u) |-> u.recv_queue[i].data]

\* The messages of these that the recv callback is given.
Received(u) ==
  LET k == Receivable(u)
      given == IF k > 0 /\ Silent(u.recv_queue[k].data) THEN k - 1 ELSE k
  IN  [i \in 1..given |-> u.recv_queue[i].data]

rudp_recvAgain(u) ==
  LET k == Receivable(u)
  IN  [u EXCEPT !.corrupt = FALSE, !.recv_queue = SubSeq(@, k + 1, Len(@))]

\* rudp_recv, called until it returns 0 or -1.
rudp_recv(u) ==
  LET k == Receivable(u)
  IN  [u EXCEPT !.corrupt = FALSE,
                !.recv_queue = SubSeq(@, k + 1, Len(@)),
                !.recv_id_min = @ + k]

-----------------------------------------------------------------------------
(* Sending *)

\* clear_send_expired: the messages before the first that is young enough go.
clear_send_expired(u, tick) ==
  [u EXCEPT !.send_history = From(@, {i \in DOMAIN @ : @[i].tick >= tick})]

ExpireNow(u) ==
  IF u.current_tick >= u.last_expired_tick + Expired
  THEN [clear_send_expired(u, u.current_tick)
          EXCEPT !.last_expired_tick = u.current_tick]
  ELSE u

\* The part of rudp_update that forgets old messages.
Expire(u) ==
  IF u.current_tick >= u.last_expired_tick + Expired
  THEN [clear_send_expired(u, u.last_expired_tick)
          EXCEPT !.last_expired_tick = u.current_tick]
  ELSE u

\* request_missing's assertion along the queue.
AssertQueue(u) ==
  LET q == u.recv_queue
  IN  \A i \in DOMAIN q : q[i].id >= IF i = 1 THEN u.recv_id_min ELSE q[i - 1].id + 1

\* The gaps of the queue among the first n ids from recv_id_min on, in order.
Gaps(u, n) ==
  LET ids == {u.recv_queue[i].id : i \in DOMAIN u.recv_queue}
      upto[k \in 0..n] ==
        LET id == u.recv_id_min + k - 1
        IN  IF k = 0 THEN <<>>
            ELSE IF id \in ids THEN upto[k - 1] ELSE Append(upto[k - 1], id)
  IN  upto

\* request_missing: up to the last message.
request_missing(u) ==
  LET q == u.recv_queue
      n == IF q = <<>> THEN 0 ELSE Last(q).id - u.recv_id_min + 1
      ids == Gaps(u, n)[n]
  IN  [i \in DOMAIN ids |-> Entry("REQUEST", ids[i], Missing)]

\* reply_request: from the history, or MISSING; ids already received are skipped.
reply_request(u) ==
  LET again == u.send_again
      ids == From(again, {i \in DOMAIN again : again[i] >= u.recv_id_min})
      held(id) == {i \in DOMAIN u.send_history : u.send_history[i].id = id}
      reply(id) == IF held(id) = {} THEN Entry("MISSING", id, Missing)
                   ELSE Entry("NORMAL", id, u.send_history[First(held(id))].data)
  IN  [i \in DOMAIN ids |-> reply(ids[i])]

\* send_message: what was handed to rudp_send since the last package.
send_message(u) ==
  [i \in DOMAIN u.send_queue |->
     Entry("NORMAL", u.send_queue[i].id, u.send_queue[i].data)]

\* pack_request and pack_message: an entry is put into the open package when
\* it surely fits, a message larger than any package gets one of its own.
PackedSize(x) ==
  IF x.type # "NORMAL" THEN 3
  ELSE MsgSize[x.data] + (IF MsgSize[x.data] + 4 < 128 THEN 3 ELSE 4)

Pack(tmp, x) ==
  LET need == IF x.type = "NORMAL" THEN 4 + MsgSize[x.data] ELSE 3
      closed == IF tmp.open = <<>> THEN tmp.list ELSE Append(tmp.list, tmp.open)
  IN  CASE need > PackageSize -> [list |-> Append(closed, <<x>>), open |-> <<>>, sz |-> 0]
        [] need <= PackageSize /\ PackageSize - tmp.sz < need ->
             [list |-> closed, open |-> <<x>>, sz |-> PackedSize(x)]
        [] OTHER -> [list |-> tmp.list, open |-> Append(tmp.open, x), sz |-> tmp.sz + PackedSize(x)]

\* The packages after each of the entries.
Packed(s) ==
  LET after[i \in 0..Len(s)] == IF i = 0 THEN [list |-> <<>>, open |-> <<>>, sz |-> 0]
                                 ELSE Pack(after[i - 1], s[i])
  IN  after

\* gen_outpackage: requests, replies, messages, or a heartbeat.  A package left
\* empty behind an oversized message says nothing and is not sent here.
gen_outpackage(u) ==
  LET entries == request_missing(u) \o reply_request(u) \o send_message(u)
      tmp == Packed(entries)[Len(entries)]
  IN  IF entries = <<>> THEN {<<Ignore>>}
      ELSE Range(tmp.list) \union ({tmp.open} \ {<<>>})

\* What gen_outpackage leaves behind: sent messages become history.
SentOut(u) ==
  [u EXCEPT !.send_history = @ \o u.send_queue, !.send_queue = <<>>,
            !.send_again = <<>>, !.last_send_tick = u.current_tick]

OutputDue(u) == u.current_tick >= u.last_send_tick + SendDelay

-----------------------------------------------------------------------------
(* Actions *)

\* rudp_send: the message is numbered and queued.
rudp_send(e) ==
  /\ e \notin aborted
  /\ U[e].send_id < Start[e] + MaxMsgs[e]
  /\ LET id == U[e].send_id
         m == Message(id, id, U[e].current_tick)
     IN  U' = [U EXCEPT ![e].send_id = @ + 1, ![e].send_queue = Append(@, m)]
  /\ sentAt' = [sentAt EXCEPT ![e] = Append(@, U[e].current_tick)]
  /\ UNCHANGED <<net, got, aborted>>

\* rudp_update up to the output: time, the package, expiry.
Updated(u, p, tick) ==
  Expire(extract_package([u EXCEPT !.current_tick = @ + tick], p))

\* lupdate with package p (<<>> for none): rudp_update, its packages handed to
\* the send callback, then rudp_recv until it has nothing more.
lupdate(e, p, tick) ==
  /\ e \notin aborted
  /\ U[e].current_tick + tick <= MaxTick[e]
  /\ Len(Updated(U[e], p, tick).recv_queue) <= MaxQueue
  /\ LET u == Updated(U[e], p, tick)
     IN  \/ /\ ~OutputDue(u)
            /\ U' = [U EXCEPT ![e] = rudp_recv(u)]
            /\ got' = [got EXCEPT ![e] = @ \o Received(u)]
            /\ UNCHANGED <<net, aborted>>
         \/ /\ OutputDue(u) /\ AssertQueue(u)
            /\ net' = [net EXCEPT ![Peer(e)] = @ \union gen_outpackage(u)]
            /\ U' = [U EXCEPT ![e] = rudp_recv(SentOut(u))]
            /\ got' = [got EXCEPT ![e] = @ \o Received(u)]
            /\ UNCHANGED aborted
         \/ /\ OutputDue(u) /\ ~AssertQueue(u)
            /\ aborted' = aborted \union {e}
            /\ UNCHANGED <<U, net, got>>
  /\ UNCHANGED sentAt

\* A package as it may arrive: whole, or cut inside one of its entries.
Arrivals(e, p) ==
  {p} \union (IF e \notin Damage THEN {}
              ELSE {Append(SubSeq(p, 1, k), Corrupt) : k \in 0..(Len(p) - 1)})

\* A frame without a package.
Frame(e) == lupdate(e, <<>>, 1)

\* A package arrives between two frames.
Deliver(e) == \E p \in net[e] : \E q \in Arrivals(e, p) : lupdate(e, q, 0)

Next == \E e \in Endpoints : rudp_send(e) \/ Frame(e) \/ Deliver(e)

Spec == Init /\ [][Next]_vars

-----------------------------------------------------------------------------
Ids(e) == Start[e] .. (Start[e] + MaxMsgs[e] - 1)

Messages(S) == [id : Int, data : S \union {Missing}, tick : Nat]

\* What the rudp object of e can be.
Objects(e) ==
  [send_queue : Seq(Messages(Ids(e))), recv_queue : Seq(Messages(Ids(Peer(e)))),
   send_history : Seq(Messages(Ids(e))), send_again : Seq(Int), corrupt : BOOLEAN,
   current_tick : 0..MaxTick[e], last_send_tick : 0..MaxTick[e],
   last_expired_tick : 0..MaxTick[e],
   send_id : Start[e] .. (Start[e] + MaxMsgs[e]), recv_id_min : Nat, recv_id_max : Nat]

TypeOK ==
  /\ \A e \in Endpoints : U[e] \in Objects(e) /\ got[e] \in Seq(Ids(Peer(e)))
  /\ aborted \subseteq Endpoints

\* The recv callback is given messages the other end sent, each at most once
\* and in the order of sending, whatever the network loses, repeats, reorders
\* or cuts (rudp_recv, insert_message, get_id).
InOrder ==
  \A e \in Endpoints :
    /\ Range(got[e]) \subseteq Start[Peer(e)] .. (U[Peer(e)].send_id - 1)
    /\ \A i, j \in DOMAIN got[e] : i < j => got[e][i] < got[e][j]

\* An id the receiver has passed was given to the callback, unless the other
\* end said it is MISSING or its message is empty, which rudp_recv cannot tell
\* from no message: no other is skipped on the receiver's own account
\* (queue_pop's test of the id in rudp_recv).
SkippedOnlyMissing ==
  \A e \in Endpoints :
    \A id \in Start[Peer(e)] .. (U[e].recv_id_min - 1) :
      \/ id \in Range(got[e])
      \/ \E p \in net[e] : Entry("MISSING", id, Missing) \in Range(p)
      \/ MsgSize[id] = 0

\* recv_id_max closes the queue, whose ids ascend: what insert_message relies
\* on when it takes a number above recv_id_max for one above all queued.
QueueClosed ==
  \A e \in Endpoints :
    LET u == U[e]
        q == u.recv_queue
    IN  /\ \A i, j \in DOMAIN q : i < j => q[i].id <= q[j].id
        /\ q # <<>> => Last(q).id = u.recv_id_max
        /\ q = <<>> /\ u.recv_id_min > 0 => u.recv_id_max = u.recv_id_min - 1

\* A message is queued under the number its sender gave it, although only the
\* low bits travel and a package may be older than the wrap (get_id).
QueuedAsSent ==
  \A e \in Endpoints : \A i \in DOMAIN U[e].recv_queue :
    LET m == U[e].recv_queue[i] IN m.data \in {m.id, Missing}

\* A message can be sent again for at least Expired ticks after rudp_send: until
\* then it is in send_queue or send_history (rudp_update, clear_send_expired).
Retained ==
  \A e \in Endpoints : \A i \in DOMAIN sentAt[e] :
    \/ sentAt[e][i] + Expired < U[e].current_tick
    \/ \E m \in Range(U[e].send_queue) \union Range(U[e].send_history) :
         m.id = Start[e] + i - 1

\* request_missing asserts that the ids of the queue ascend strictly from
\* recv_id_min (rudp.c:421).
AssertHolds == aborted = {}
=============================================================================
