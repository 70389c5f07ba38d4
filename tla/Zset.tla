-------------------------------- MODULE Zset --------------------------------
(***************************************************************************)
(* lualib-src/lua-zset: a sorted set, made of a skip list (skiplist.c) and *)
(* a table of scores by member (zset.lua).  Each level of the list skips   *)
(* over nodes; span says how many, so that ranks are found on the way      *)
(* down.  An operator that changes the list takes it as its first argument *)
(* l and gives the new one.  A node is named by its member.                *)
(***************************************************************************)
EXTENDS Integers, Sequences, FiniteSets, FiniteSetsExt, SequencesExt

CONSTANTS Members,             \* names of members, in the order of memcmp
          Scores,
          SKIPLIST_MAXLEVEL,   \* 32 in skiplist.h
          MaxCount             \* bound: what limit and rev_limit are asked to keep

ASSUME ZsetAssumption ==
  /\ Members \subseteq Nat \ {0} /\ IsFiniteSet(Members)
  /\ Scores \subseteq Int
  /\ SKIPLIST_MAXLEVEL \in Nat \ {0} /\ MaxCount \in Nat

NULL == -1

header == 0

VARIABLES sl,       \* the skip list
          tbl,      \* score of each member of the set
          removed,  \* what the last call told the delete handler
          raised    \* the handler raised an error

vars == <<sl, tbl, removed, raised>>

-----------------------------------------------------------------------------
slCreate ==
  [level |-> 1, length |-> 0, tail |-> NULL,
   node |-> [n \in {header} |->
               [score |-> 0, backward |-> NULL,
                forward |-> [i \in 1..SKIPLIST_MAXLEVEL |-> NULL],
                span |-> [i \in 1..SKIPLIST_MAXLEVEL |-> 0]]]]

\* The nodes after the header that a call still finds, in no order.
Nodes(l) == DOMAIN l.node \ {header}

\* Node n comes before the place of obj with this score.
Before(l, n, score, obj) ==
  \/ l.node[n].score < score
  \/ l.node[n].score = score /\ n < obj

\* The way down: at each level the node where the walk stops and the rank
\* crossed to reach it.  It goes on to node n, of rank r, while Go(n, r).
Stops(l, Go(_, _)) ==
  LET walk[i \in Nat, x \in Nat, r \in Int] ==
        LET n == l.node[x].forward[i]
            s == r + l.node[x].span[i]
        IN  IF n # NULL /\ Go(n, s) THEN walk[i, n, s] ELSE [node |-> x, rank |-> r]
      down[i \in Nat] ==
        IF i > l.level THEN << >>
        ELSE LET above == down[i + 1]
                 from == IF above = << >> THEN [node |-> header, rank |-> 0] ELSE above[1]
             IN  <<walk[i, from.node, from.rank]>> \o above
  IN  down[1]

\* Levels of node n at which the walk stopped there.
At(update, n) == {i \in DOMAIN update : update[i] = n}

-----------------------------------------------------------------------------
SpanOverTouched(i, level, skipped, span) == IF i <= level THEN skipped + 1 ELSE span

\* The span at level i of the node before a new one of this level, which lies
\* skipped nodes further on.
SpanOver(i, level, skipped, span) == IF i <= level THEN skipped + 1 ELSE span + 1

\* slInsert, with the level that slRandomLevel gave.
slInsert(l, score, obj, level) ==
  LET at == Stops(l, LAMBDA n, r : Before(l, n, score, obj))
      top == Max({level, l.level})
      update == [i \in 1..top |-> IF i > l.level THEN header ELSE at[i].node]
      skipped(i) == at[1].rank - (IF i > l.level THEN 0 ELSE at[i].rank)
      span(i) == IF i > l.level THEN l.length ELSE l.node[update[i]].span[i]
      next(i) == l.node[update[i]].forward[i]
      x == [score |-> score,
            backward |-> IF update[1] = header THEN NULL ELSE update[1],
            forward |-> [i \in 1..level |-> next(i)],
            span |-> [i \in 1..level |-> span(i) - skipped(i)]]
      relinked(n) ==
        [l.node[n] EXCEPT
           !.forward = [i \in DOMAIN @ |-> IF i \in At(update, n) /\ i <= level
                                           THEN obj ELSE @[i]],
           !.span = [i \in DOMAIN @ |-> IF i \in At(update, n)
                                        THEN SpanOver(i, level, skipped(i), span(i)) ELSE @[i]],
           !.backward = IF n = next(1) THEN obj ELSE @]
  IN  [level |-> top, length |-> l.length + 1,
       tail |-> IF next(1) = NULL THEN obj ELSE l.tail,
       node |-> (obj :> x) @@ [n \in DOMAIN l.node |-> relinked(n)]]

BackwardKept(l, n, x) == l.node[n].backward

\* The backward link of n when x is taken out.
BackwardPast(l, n, x) ==
  IF n = l.node[x].forward[1] THEN l.node[x].backward ELSE l.node[n].backward

TailKept(l, x) == l.tail

\* The tail when x is taken out.
TailPast(l, x) == IF l.node[x].forward[1] = NULL THEN l.node[x].backward ELSE l.tail

\* slDeleteNode, and the slFreeNode that follows it.
slDeleteNode(l, x, update) ==
  LET gone == l.node[x]
      relinked(n) ==
        LET over(i) == i \in At(update, n) /\ i <= l.level
            past(i) == over(i) /\ l.node[n].forward[i] = x
        IN  [l.node[n] EXCEPT
               !.forward = [i \in DOMAIN @ |-> IF past(i) THEN gone.forward[i] ELSE @[i]],
               !.span = [i \in DOMAIN @ |-> IF past(i) THEN @[i] + gone.span[i] - 1
                                            ELSE IF over(i) THEN @[i] - 1 ELSE @[i]],
               !.backward = BackwardPast(l, n, x)]
      node == [n \in DOMAIN l.node \ {x} |-> relinked(n)]
  IN  [level |-> Max({1} \union {i \in 1..l.level : node[header].forward[i] # NULL}),
       length |-> l.length - 1,
       tail |-> TailPast(l, x),
       node |-> node]

slDelete(l, score, obj) ==
  LET at == Stops(l, LAMBDA n, r : Before(l, n, score, obj))
      x == l.node[at[1].node].forward[1]
  IN  IF x = obj /\ l.node[x].score = score
      THEN slDeleteNode(l, x, [i \in DOMAIN at |-> at[i].node])
      ELSE l

\* The nodes from x on, along forward or backward links.
Forward(l, x) ==
  LET from[n \in Int] == IF n = NULL THEN << >> ELSE <<n>> \o from[l.node[n].forward[1]]
  IN  from[x]

Backward(l, x) ==
  LET from[n \in Int] == IF n = NULL THEN << >> ELSE <<n>> \o from[l.node[n].backward]
  IN  from[x]

List(l) == Forward(l, l.node[header].forward[1])

First(s, k) == SubSeq(s, 1, Min({k, Len(s)}))

slDeleteByRankShort(l, start, end, stop) ==
  LET at == Stops(l, LAMBDA n, r : r < start)
      update == [i \in DOMAIN at |-> at[i].node]
      rest == Forward(l, l.node[update[1]].forward[1])
      doomed == First(rest, Min({end - at[1].rank - 1, stop}))
  IN  [sl |-> FoldLeft(LAMBDA m, x : slDeleteNode(m, x, update), l, doomed),
       told |-> doomed, raised |-> Len(doomed) = stop]

\* slDeleteByRank: each node is unlinked before the callback hears of it; an
\* error in the callback, in its call number stop, ends the loop.
slDeleteByRank(l, start, end, stop) ==
  LET at == Stops(l, LAMBDA n, r : r < start)
      update == [i \in DOMAIN at |-> at[i].node]
      rest == Forward(l, l.node[update[1]].forward[1])
      doomed == First(rest, Min({end - at[1].rank, stop}))
  IN  [sl |-> FoldLeft(LAMBDA m, x : slDeleteNode(m, x, update), l, doomed),
       told |-> doomed, raised |-> Len(doomed) = stop]

-----------------------------------------------------------------------------
(* Queries *)

slGetRank(l, score, obj) ==
  LET at == Stops(l, LAMBDA n, r : \/ Before(l, n, score, obj)
                                   \/ l.node[n].score = score /\ n = obj)
      met == At([i \in DOMAIN at |-> at[i].node], obj)
  IN  IF met = {} THEN 0 ELSE at[Max(met)].rank

slGetNodeByRank(l, rank) ==
  LET at == Stops(l, LAMBDA n, r : r <= rank)
      met == {i \in DOMAIN at : at[i].rank = rank}
  IN  IF rank = 0 \/ rank > l.length \/ met = {} THEN NULL ELSE at[Max(met)].node

slIsInRange(l, min, max) ==
  LET first == l.node[header].forward[1]
  IN  /\ min <= max
      /\ l.tail # NULL /\ l.node[l.tail].score >= min
      /\ first # NULL /\ l.node[first].score <= max

slFirstInRange(l, min, max) ==
  IF ~slIsInRange(l, min, max) THEN NULL
  ELSE l.node[Stops(l, LAMBDA n, r : l.node[n].score < min)[1].node].forward[1]

slLastInRangeBelow(l, min, max) ==
  IF ~slIsInRange(l, min, max) THEN NULL
  ELSE Stops(l, LAMBDA n, r : l.node[n].score < max)[1].node

slLastInRange(l, min, max) ==
  IF ~slIsInRange(l, min, max) THEN NULL
  ELSE Stops(l, LAMBDA n, r : l.node[n].score <= max)[1].node

\* Its list ends at the last rank asked for, or at the end of the list.
get_rank_range(l, r1, r2) ==
  IF r1 <= r2 THEN First(Forward(l, slGetNodeByRank(l, r1)), r2 - r1 + 1)
              ELSE First(Backward(l, slGetNodeByRank(l, r1)), r1 - r2 + 1)

\* The nodes are taken until one is outside of the range.
get_score_range(l, s1, s2) ==
  LET from == IF s1 <= s2 THEN Forward(l, slFirstInRange(l, s1, s2))
                          ELSE Backward(l, slLastInRange(l, s2, s1))
      out == {k \in DOMAIN from : IF s1 <= s2 THEN l.node[from[k]].score > s2
                                              ELSE l.node[from[k]].score < s2}
  IN  IF out = {} THEN from ELSE First(from, Min(out) - 1)

_reverse_rank(r) == sl.length - r + 1

range(r1, r2) == get_rank_range(sl, Max({r1, 1}), Max({r2, 1}))

rev_range(r1, r2) == range(_reverse_rank(r1), _reverse_rank(r2))

rank(member) == slGetRank(sl, tbl[member], member)

rev_rank(member) == _reverse_rank(rank(member))

-----------------------------------------------------------------------------
Init ==
  /\ sl = slCreate
  /\ tbl = << >>
  /\ removed = << >>
  /\ raised = FALSE

\* A member that has this score already is left as it is.
add(score, member, level) ==
  /\ removed' = << >>
  /\ raised' = FALSE
  /\ IF member \in DOMAIN tbl /\ tbl[member] = score
     THEN UNCHANGED <<sl, tbl>>
     ELSE LET old == IF member \in DOMAIN tbl THEN slDelete(sl, tbl[member], member) ELSE sl
          IN  /\ sl' = slInsert(old, score, member, level)
              /\ tbl' = [m \in DOMAIN tbl \union {member} |->
                           IF m = member THEN score ELSE tbl[m]]

Without(S) == [m \in DOMAIN tbl \ S |-> tbl[m]]

rem(member) ==
  /\ member \in DOMAIN tbl
  /\ sl' = slDelete(sl, tbl[member], member)
  /\ tbl' = Without({member})
  /\ removed' = << >>
  /\ raised' = FALSE

delete_by_rankLate(r1, r2, stop) ==
  LET d == slDeleteByRank(sl, Min({r1, r2}), Max({r1, r2}), stop)
  IN  /\ sl' = d.sl
      /\ tbl' = Without(ToSet(First(d.told, stop - 1)))
      /\ removed' = d.told
      /\ raised' = d.raised

\* _delete_by_rank with zset's delete_function, which clears the table's entry
\* before it calls the handler.
delete_by_rank(r1, r2, stop) ==
  LET d == slDeleteByRank(sl, Min({r1, r2}), Max({r1, r2}), stop)
  IN  /\ sl' = d.sl
      /\ tbl' = Without(ToSet(d.told))
      /\ removed' = d.told
      /\ raised' = d.raised

limit(count, stop) ==
  /\ sl.length > count
  /\ delete_by_rank(count + 1, sl.length, stop)

rev_limit(count, stop) ==
  /\ sl.length > count
  /\ delete_by_rank(_reverse_rank(count + 1), _reverse_rank(sl.length), stop)

Next ==
  \/ \E score \in Scores, member \in Members, level \in 1..SKIPLIST_MAXLEVEL :
       add(score, member, level)
  \/ \E member \in Members : rem(member)
  \/ \E count \in 0..MaxCount, stop \in 1..(Cardinality(Members) + 1) :
       limit(count, stop) \/ rev_limit(count, stop)

Spec == Init /\ [][Next]_vars

-----------------------------------------------------------------------------
TypeOK ==
  /\ sl.level \in 1..SKIPLIST_MAXLEVEL /\ sl.length \in Nat
  /\ DOMAIN sl.node \subseteq Members \union {header}
  /\ sl.tail \in DOMAIN sl.node \union {NULL}
  /\ \A n \in DOMAIN sl.node :
       LET x == sl.node[n]
       IN  /\ x.backward \in Nodes(sl) \union {NULL}
           /\ \A i \in DOMAIN x.forward :
                x.forward[i] \in Nodes(sl) \union {NULL} /\ x.span[i] \in Nat
  /\ DOMAIN tbl \subseteq Members

\* Where a node is in the list; the header is before the first one.
Place(n) ==
  IF n = header THEN 0 ELSE CHOOSE k \in DOMAIN List(sl) : List(sl)[k] = n

\* Every level in use links the nodes that have it, in the order of the list,
\* and a span is the distance to the next of them, or to the end where there is
\* none; above the levels in use nothing is linked (slInsert, slDeleteNode).
SpansExact ==
  \A n \in DOMAIN sl.node, i \in 1..SKIPLIST_MAXLEVEL :
    i \in DOMAIN sl.node[n].forward =>
      LET later == {k \in DOMAIN List(sl) :
                      k > Place(n) /\ i \in DOMAIN sl.node[List(sl)[k]].forward}
          to == IF later = {} THEN sl.length ELSE Min(later)
      IN  /\ sl.node[n].forward[i] = IF later = {} THEN NULL ELSE List(sl)[to]
          /\ i <= sl.level => sl.node[n].span[i] = to - Place(n)

\* The backward links and the tail are the list reversed, which holds every
\* node there is and has the length recorded (slInsert, slDeleteNode).
BackwardExact ==
  /\ \A k \in DOMAIN List(sl) :
       sl.node[List(sl)[k]].backward = IF k = 1 THEN NULL ELSE List(sl)[k - 1]
  /\ sl.tail = IF List(sl) = << >> THEN NULL ELSE Last(List(sl))
  /\ Nodes(sl) = ToSet(List(sl))
  /\ sl.length = Len(List(sl))

\* The table and the list hold the same members with the same scores, also
\* after a delete handler raised an error in the middle of limit or rev_limit.
TableAgrees ==
  /\ DOMAIN tbl = Nodes(sl)
  /\ \A m \in DOMAIN tbl : tbl[m] = sl.node[m].score

\* What the set is by its list.
Content == [m \in Nodes(sl) |-> sl.node[m].score]

Sorted == INSTANCE SortedSet WITH score <- Content

\* The list implements a sorted set: the table is only its index.
ImplementsSortedSet == Sorted!Spec

\* The places k of r1 to r2, backwards when r2 < r1, that the set has.
Slice(s, r1, r2) ==
  IF r1 > Len(s) THEN << >>
  ELSE IF r1 <= r2 THEN SubSeq(s, r1, Min({r2, Len(s)}))
  ELSE Reverse(SubSeq(s, r2, r1))

\* Ranks, and ranges of ranks and of scores in both directions, are the ones of
\* the sorted members, however the levels fell (slGetRank, slGetNodeByRank,
\* slFirstInRange, slLastInRange).  A reverse range that begins past the end is
\* left out: the code moves it to the lowest member.
QueriesAgree ==
  LET s == Sorted!Sorted(Content)
      back == Reverse(s)
      ranks == 1..(Cardinality(Members) + 1)
      between(m, s1, s2) == Content[m] >= s1 /\ Content[m] <= s2
  IN  /\ \A k \in DOMAIN s :
           /\ rank(s[k]) = k /\ slGetNodeByRank(sl, k) = s[k]
           /\ rev_rank(back[k]) = k
      /\ \A r1, r2 \in ranks :
           /\ range(r1, r2) = Slice(s, r1, r2)
           /\ r1 <= Len(s) => rev_range(r1, r2) = Slice(back, r1, r2)
      /\ \A s1, s2 \in Scores :
           get_score_range(sl, s1, s2) =
             IF s1 <= s2 THEN SelectSeq(s, LAMBDA m : between(m, s1, s2))
                         ELSE SelectSeq(back, LAMBDA m : between(m, s2, s1))
=============================================================================
