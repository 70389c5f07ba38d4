----------------------------- MODULE RudpProofs -----------------------------
(***************************************************************************)
(* Proofs about Rudp, for any id space, sizes, delays and bounds, whatever *)
(* the network loses, repeats, reorders or cuts.                           *)
(***************************************************************************)
EXTENDS Rudp, MailboxLemmas, WellFoundedInduction

-----------------------------------------------------------------------------
(* Induction *)

LEMMA LeastNat ==
    ASSUME NEW T \in SUBSET Nat, T # {}
    PROVE  \E n \in T : \A m \in T : n <= m
  <1>1. IsWellFoundedOn(OpToRel(<, Nat), Nat)
    BY NatLessThanWellFounded
  <1>2. PICK n \in T : \A y \in T : ~(<<y, n>> \in OpToRel(<, Nat))
    BY <1>1, WFMin, Zenon
  <1>3. \A y \in T : ~(y < n)
    BY <1>2 DEF OpToRel
  <1> QED BY <1>3

LEMMA SetInduction ==
    ASSUME NEW n \in Nat, NEW T, 0 \in T, \A i \in 0..(n - 1) : i \in T => i + 1 \in T
    PROVE  \A i \in 0..n : i \in T
  <1> SUFFICES ASSUME NEW k \in 0..n, k \notin T PROVE FALSE
    OBVIOUS
  <1> DEFINE W == {i \in 0..n : i \notin T}
  <1>1. W \in SUBSET Nat /\ W # {}
    OBVIOUS
  <1>2. PICK i \in W : \A j \in W : i <= j
    BY <1>1, LeastNat
  <1>3. i # 0 /\ i - 1 \in 0..(n - 1) /\ i - 1 + 1 = i
    BY <1>2
  <1>4. i - 1 \in T
    BY <1>2, <1>3
  <1> QED BY <1>2, <1>3, <1>4

LEMMA FirstFacts ==
    ASSUME NEW I \in SUBSET Nat, I # {}
    PROVE  First(I) \in I /\ \A j \in I : First(I) <= j
  BY LeastNat DEF First

(* A sequence from the first of some indices on. *)
LEMMA FromFacts ==
    ASSUME NEW S, NEW s \in Seq(S), NEW I \in SUBSET DOMAIN s
    PROVE  /\ From(s, I) \in Seq(S)
           /\ \A x \in Range(From(s, I)) : x \in Range(s)
           /\ \A i \in DOMAIN s : s[i] \in Range(From(s, I)) \/ \A j \in I : i < j
  <1>1. Len(s) \in Nat /\ DOMAIN s = 1..Len(s) /\ \A i \in 1..Len(s) : s[i] \in S
    BY LenProperties, ElementOfSeq
  <1>2. CASE I = {}
    BY <1>2, EmptySeq DEF From, Range
  <1>3. CASE I # {}
    <2> DEFINE f == First(I)
               r == SubSeq(s, f, Len(s))
    <2>1. f \in I /\ \A j \in I : f <= j
      BY <1>1, <1>3, FirstFacts
    <2>2. f \in 1..Len(s)
      BY <1>1, <2>1
    <2> HIDE DEF f
    <2>3. /\ r \in Seq(S) /\ Len(r) = Len(s) - f + 1
          /\ \A i \in 1..(Len(s) - f + 1) : r[i] = s[f + i - 1]
      BY <1>1, <2>2, SubSeqProperties
    <2> HIDE DEF r
    <2>4. DOMAIN r = 1..(Len(s) - f + 1)
      BY <2>3, LenProperties
    <2>5. \A i \in 1..(Len(s) - f + 1) : f + i - 1 \in DOMAIN s
      BY <1>1, <2>2
    <2>6. ASSUME NEW i \in DOMAIN s, f <= i PROVE s[i] \in Range(r)
      <3>1. i - f + 1 \in DOMAIN r /\ f + (i - f + 1) - 1 = i
        BY <1>1, <2>2, <2>4, <2>6
      <3> QED BY <2>3, <2>4, <3>1 DEF Range
    <2>7. \A i \in DOMAIN s : ~(f <= i) => \A j \in I : i < j
      BY <1>1, <2>1, <2>2
    <2>8. \A x \in Range(r) : x \in Range(s)
      BY <2>3, <2>4, <2>5 DEF Range
    <2>9. From(s, I) = r
      BY <1>3 DEF From, r, f
    <2> QED BY <2>3, <2>6, <2>7, <2>8, <2>9
  <1> QED BY <1>2, <1>3

(* A sequence without its first k elements. *)
LEMMA RestFacts ==
    ASSUME NEW S, NEW q \in Seq(S), NEW k \in 0..Len(q)
    PROVE  LET r == SubSeq(q, k + 1, Len(q))
           IN  /\ r \in Seq(S) /\ Len(r) = Len(q) - k /\ DOMAIN r = 1..(Len(q) - k)
               /\ \A i \in 1..(Len(q) - k) : r[i] = q[k + i] /\ k + i \in DOMAIN q
               /\ \A x \in Range(r) : x \in Range(q)
  <1> DEFINE r == SubSeq(q, k + 1, Len(q))
  <1>1. Len(q) \in Nat /\ DOMAIN q = 1..Len(q)
    BY LenProperties
  <1>2. r \in Seq(S) /\ Len(r) = Len(q) - k /\ \A i \in 1..(Len(q) - k) : r[i] = q[k + i]
    <2>1. CASE k = Len(q)
      <3>1. k + 1 \in Int /\ Len(q) \in Int /\ k + 1 > Len(q)
        BY <1>1, <2>1
      <3>2. r = <<>>
        BY <3>1
      <3>3. Len(q) - k = 0
        BY <1>1, <2>1
      <3> HIDE DEF r
      <3>4. r \in Seq(S) /\ Len(r) = 0
        BY <3>2, EmptySeq
      <3> QED BY <3>3, <3>4
    <2>2. CASE k # Len(q)
      <3>0. \A n \in Nat : \A j \in 0..n : j # n =>
               j + 1 \in 1..n /\ n \in 1..n /\ n - (j + 1) + 1 = n - j
        OBVIOUS
      <3>1. k + 1 \in 1..Len(q) /\ Len(q) \in 1..Len(q) /\ Len(q) - (k + 1) + 1 = Len(q) - k
        BY <1>1, <2>2, <3>0
      <3>2. /\ r \in Seq(S) /\ Len(r) = Len(q) - (k + 1) + 1
            /\ \A i \in 1..(Len(q) - (k + 1) + 1) : r[i] = q[k + 1 + i - 1]
        BY <1>1, <3>1, SubSeqProperties
      <3>3. \A i \in 1..(Len(q) - k) : k + 1 + i - 1 = k + i
        BY <1>1
      <3> HIDE DEF r
      <3> QED BY <3>1, <3>2, <3>3
    <2> QED BY <2>1, <2>2
  <1> HIDE DEF r
  <1>3. DOMAIN r = 1..(Len(q) - k)
    BY <1>2, LenProperties
  <1>4. \A i \in 1..(Len(q) - k) : k + i \in DOMAIN q
    BY <1>1
  <1>5. \A x \in Range(r) : x \in Range(q)
    BY <1>2, <1>3, <1>4 DEF Range
  <1> QED BY <1>2, <1>3, <1>4, <1>5 DEF r

LEMMA AppendRange ==
    ASSUME NEW S, NEW s \in Seq(S), NEW x \in S
    PROVE  Append(s, x) \in Seq(S) /\ Range(Append(s, x)) = Range(s) \union {x}
  BY AppendFacts DEF Range

LEMMA InsertFacts ==
    ASSUME NEW S, NEW s \in Seq(S), NEW i \in DOMAIN s, NEW e \in S
    PROVE  LET r == InsertAt(s, i, e)
           IN  /\ r \in Seq(S) /\ Len(r) = Len(s) + 1 /\ DOMAIN r = 1..(Len(s) + 1)
               /\ \A j \in 1..(i - 1) : r[j] = s[j]
               /\ r[i] = e
               /\ \A j \in (i + 1)..(Len(s) + 1) : r[j] = s[j - 1]
  <1>1. Len(s) \in Nat /\ DOMAIN s = 1..Len(s) /\ \A j \in 1..Len(s) : s[j] \in S
    BY LenProperties, ElementOfSeq
  <1>2. i \in 1..Len(s)
    BY <1>1
  <1> DEFINE a == SubSeq(s, 1, i - 1)
             b == <<e>>
             c == SubSeq(s, i, Len(s))
             ab == a \o b
             r == ab \o c
  <1>3. a \in Seq(S) /\ Len(a) = i - 1 /\ \A j \in 1..(i - 1) : a[j] = s[j]
    BY <1>1, <1>2, SubSeqProperties
  <1>4. c \in Seq(S) /\ Len(c) = Len(s) - i + 1 /\ \A j \in 1..(Len(s) - i + 1) : c[j] = s[i + j - 1]
    BY <1>1, <1>2, SubSeqProperties
  <1>5. b \in Seq(S) /\ Len(b) = 1 /\ b[1] = e
    OBVIOUS
  <1> HIDE DEF a, b, c
  <1>6. /\ ab \in Seq(S) /\ Len(ab) = i
        /\ \A j \in 1..i : ab[j] = IF j <= i - 1 THEN a[j] ELSE b[j - (i - 1)]
    <2>1. /\ ab \in Seq(S) /\ Len(ab) = Len(a) + Len(b)
          /\ \A j \in 1..(Len(a) + Len(b)) : ab[j] = IF j <= Len(a) THEN a[j] ELSE b[j - Len(a)]
      BY <1>3, <1>5, ConcatProperties
    <2>2. Len(a) + Len(b) = i
      BY <1>2, <1>3, <1>5
    <2> HIDE DEF ab
    <2> QED BY <1>3, <2>1, <2>2
  <1>7. (\A j \in 1..(i - 1) : ab[j] = s[j]) /\ ab[i] = e
    BY <1>2, <1>3, <1>5, <1>6
  <1> HIDE DEF ab
  <1>8. /\ r \in Seq(S) /\ Len(r) = Len(s) + 1
        /\ \A j \in 1..(Len(s) + 1) : r[j] = IF j <= i THEN ab[j] ELSE c[j - i]
    <2>1. /\ r \in Seq(S) /\ Len(r) = Len(ab) + Len(c)
          /\ \A j \in 1..(Len(ab) + Len(c)) : r[j] = IF j <= Len(ab) THEN ab[j] ELSE c[j - Len(ab)]
      BY <1>4, <1>6, ConcatProperties
    <2>2. Len(ab) = i /\ Len(ab) + Len(c) = Len(s) + 1
      BY <1>1, <1>2, <1>4, <1>6
    <2> HIDE DEF r
    <2> QED BY <2>1, <2>2
  <1> HIDE DEF r
  <1>9. /\ \A j \in 1..(i - 1) : r[j] = s[j]
        /\ r[i] = e
    BY <1>1, <1>2, <1>7, <1>8
  <1>10. ASSUME NEW j \in (i + 1)..(Len(s) + 1) PROVE r[j] = s[j - 1]
    <2>1. j \in 1..(Len(s) + 1) /\ ~(j <= i) /\ j - i \in 1..(Len(s) - i + 1) /\ i + (j - i) - 1 = j - 1
      BY <1>1, <1>2
    <2> QED BY <1>4, <1>8, <2>1
  <1>11. r = InsertAt(s, i, e)
    BY DEF InsertAt, r, ab, a, b, c
  <1>12. DOMAIN r = 1..(Len(s) + 1)
    BY <1>8, LenProperties
  <1> QED BY <1>8, <1>9, <1>10, <1>11, <1>12

-----------------------------------------------------------------------------
(* The loops of rudp.c *)

(* extract_package goes from entry to entry. *)
LEMMA ExtractedFacts ==
    ASSUME NEW u, NEW S, NEW p \in Seq(S)
    PROVE  /\ Extracted(u, p)[0] = u
           /\ \A i \in 1..Len(p) : Extracted(u, p)[i] = ExtractEntry(Extracted(u, p)[i - 1], p[i])
  <1> DEFINE Loop(f, n) == f = [i \in 0..n |-> IF i = 0 THEN u ELSE ExtractEntry(f[i - 1], p[i])]
             T == {n \in Nat : \E f : Loop(f, n)}
  <1>1. Len(p) \in Nat
    BY LenProperties
  <1>2. 0 \in T
    <2>1. Loop([i \in 0..0 |-> u], 0)
      OBVIOUS
    <2> QED BY <2>1
  <1>3. ASSUME NEW n \in Nat, n \in T PROVE n + 1 \in T
    <2>1. PICK f : Loop(f, n)
      BY <1>3
    <2> DEFINE g == [i \in 0..(n + 1) |-> IF i <= n THEN f[i] ELSE ExtractEntry(f[n], p[i])]
    <2>2. ASSUME NEW i \in 0..(n + 1)
          PROVE  g[i] = IF i = 0 THEN u ELSE ExtractEntry(g[i - 1], p[i])
      <3>1. CASE i <= n
        <4>1. i \in 0..n /\ (i # 0 => i - 1 \in 0..n /\ i - 1 <= n /\ i - 1 \in 0..(n + 1))
          BY <1>3, <3>1
        <4>2. f[i] = IF i = 0 THEN u ELSE ExtractEntry(f[i - 1], p[i])
          BY <2>1, <4>1
        <4> QED BY <3>1, <4>1, <4>2
      <3>2. CASE ~(i <= n)
        <4>1. i # 0 /\ i - 1 = n /\ n \in 0..(n + 1) /\ n <= n
          BY <1>3, <3>2
        <4> QED BY <3>2, <4>1
      <3> QED BY <3>1, <3>2
    <2>3. Loop(g, n + 1)
      BY <2>2
    <2> QED BY <1>3, <2>3
  <1>4. Len(p) \in T
    <2> HIDE DEF T
    <2>1. \A i \in 0..(Len(p) - 1) : i \in T => i + 1 \in T
      BY <1>1, <1>3
    <2>2. \A i \in 0..Len(p) : i \in T
      BY <1>1, <1>2, <2>1, SetInduction
    <2> QED BY <1>1, <2>2
  <1>5. Loop(Extracted(u, p), Len(p))
    BY <1>4 DEF Extracted
  <1> QED BY <1>1, <1>5

(* request_missing goes from id to id. *)
LEMMA GapsFacts ==
    ASSUME NEW u, u.recv_id_min \in Nat, NEW n \in Nat
    PROVE  Gaps(u, n)[n] \in Seq(Int)
  <1> DEFINE ids == {u.recv_queue[i].id : i \in DOMAIN u.recv_queue}
             Step(s, k) == IF u.recv_id_min + k - 1 \in ids THEN s
                           ELSE Append(s, u.recv_id_min + k - 1)
             Loop(f, m) == f = [k \in 0..m |-> IF k = 0 THEN <<>> ELSE Step(f[k - 1], k)]
             T == {m \in Nat : \E f : Loop(f, m)}
  <1>1. ASSUME NEW s \in Seq(Int), NEW k \in Nat PROVE Step(s, k) \in Seq(Int)
    <2>1. u.recv_id_min + k - 1 \in Int
      OBVIOUS
    <2> QED BY <2>1, AppendProperties
  <1> HIDE DEF Step
  <1>2. 0 \in T
    <2>1. Loop([k \in 0..0 |-> <<>>], 0)
      OBVIOUS
    <2> QED BY <2>1
  <1>3. ASSUME NEW m \in Nat, m \in T PROVE m + 1 \in T
    <2>1. PICK f : Loop(f, m)
      BY <1>3
    <2> DEFINE g == [k \in 0..(m + 1) |-> IF k <= m THEN f[k] ELSE Step(f[m], k)]
    <2>2. ASSUME NEW k \in 0..(m + 1) PROVE g[k] = IF k = 0 THEN <<>> ELSE Step(g[k - 1], k)
      <3>1. CASE k <= m
        <4>1. k \in 0..m /\ (k # 0 => k - 1 \in 0..m /\ k - 1 <= m /\ k - 1 \in 0..(m + 1))
          BY <1>3, <3>1
        <4>2. f[k] = IF k = 0 THEN <<>> ELSE Step(f[k - 1], k)
          BY <2>1, <4>1
        <4> QED BY <3>1, <4>1, <4>2
      <3>2. CASE ~(k <= m)
        <4>1. k # 0 /\ k - 1 = m /\ m \in 0..(m + 1) /\ m <= m
          BY <1>3, <3>2
        <4> QED BY <3>2, <4>1
      <3> QED BY <3>1, <3>2
    <2>3. Loop(g, m + 1)
      BY <2>2
    <2> HIDE DEF g, Loop
    <2>4. \E h : Loop(h, m + 1)
      BY <2>3, Zenon
    <2>5. m + 1 \in Nat
      OBVIOUS
    <2> QED BY <2>4, <2>5, Zenon
  <1>4. n \in T
    <2> HIDE DEF T
    <2>1. \A i \in 0..(n - 1) : i \in T => i + 1 \in T
      BY <1>3
    <2>2. \A i \in 0..n : i \in T
      BY <1>2, <2>1, SetInduction
    <2> QED BY <2>2
  <1>5. Loop(Gaps(u, n), n)
    BY <1>4 DEF Gaps, Step
  <1> DEFINE g == Gaps(u, n)
             V == {k \in Nat : k <= n => g[k] \in Seq(Int)}
  <1> HIDE DEF g
  <1>6. g[0] = <<>> /\ \A k \in 1..n : g[k] = Step(g[k - 1], k)
    BY <1>5 DEF g
  <1>7. 0 \in V
    BY <1>6, EmptySeq
  <1>8. ASSUME NEW i \in 0..(n - 1), i \in V PROVE i + 1 \in V
    <2>1. i + 1 \in 1..n /\ i + 1 - 1 = i /\ g[i] \in Seq(Int) /\ i + 1 \in Nat
      BY <1>8
    <2>2. g[i + 1] = Step(g[i], i + 1)
      BY <1>6, <2>1
    <2> QED BY <1>1, <2>1, <2>2
  <1>9. \A i \in 0..n : i \in V
    <2> HIDE DEF V
    <2> QED BY <1>7, <1>8, SetInduction
  <1> QED BY <1>9 DEF g

(* gen_outpackage packs entry after entry. *)
LEMMA PackedFacts ==
    ASSUME NEW S, NEW s \in Seq(S)
    PROVE  LET tmp == Packed(s)[Len(s)]
           IN  tmp.list \in Seq(Seq(S)) /\ tmp.open \in Seq(S)
  <1> DEFINE Loop(f, m) == f = [i \in 0..m |-> IF i = 0 THEN [list |-> <<>>, open |-> <<>>, sz |-> 0]
                                               ELSE Pack(f[i - 1], s[i])]
             T == {m \in Nat : \E f : Loop(f, m)}
  <1>1. Len(s) \in Nat /\ \A i \in 1..Len(s) : s[i] \in S
    BY LenProperties, ElementOfSeq
  <1>2. 0 \in T
    <2>1. Loop([k \in 0..0 |-> [list |-> <<>>, open |-> <<>>, sz |-> 0]], 0)
      OBVIOUS
    <2> QED BY <2>1
  <1>3. ASSUME NEW m \in Nat, m \in T PROVE m + 1 \in T
    <2>1. PICK f : Loop(f, m)
      BY <1>3
    <2> DEFINE g == [k \in 0..(m + 1) |-> IF k <= m THEN f[k] ELSE Pack(f[m], s[k])]
    <2>2. ASSUME NEW k \in 0..(m + 1)
          PROVE  g[k] = IF k = 0 THEN [list |-> <<>>, open |-> <<>>, sz |-> 0] ELSE Pack(g[k - 1], s[k])
      <3>1. CASE k <= m
        <4>1. k \in 0..m /\ (k # 0 => k - 1 \in 0..m /\ k - 1 <= m /\ k - 1 \in 0..(m + 1))
          BY <1>3, <3>1
        <4>2. f[k] = IF k = 0 THEN [list |-> <<>>, open |-> <<>>, sz |-> 0] ELSE Pack(f[k - 1], s[k])
          BY <2>1, <4>1
        <4> QED BY <3>1, <4>1, <4>2
      <3>2. CASE ~(k <= m)
        <4>1. k # 0 /\ k - 1 = m /\ m \in 0..(m + 1) /\ m <= m
          BY <1>3, <3>2
        <4> QED BY <3>2, <4>1
      <3> QED BY <3>1, <3>2
    <2>3. Loop(g, m + 1)
      BY <2>2
    <2> HIDE DEF g, Loop
    <2>4. \E h : Loop(h, m + 1)
      BY <2>3, Zenon
    <2>5. m + 1 \in Nat
      OBVIOUS
    <2> QED BY <2>4, <2>5, Zenon
  <1>4. Len(s) \in T
    <2> HIDE DEF T
    <2>1. \A i \in 0..(Len(s) - 1) : i \in T => i + 1 \in T
      BY <1>1, <1>3
    <2>2. \A i \in 0..Len(s) : i \in T
      BY <1>1, <1>2, <2>1, SetInduction
    <2> QED BY <1>1, <2>2
  <1>5. Loop(Packed(s), Len(s))
    BY <1>4 DEF Packed
  (* What is packed is an entry of s. *)
  <1> DEFINE g == Packed(s)
             Good(tmp) == tmp.list \in Seq(Seq(S)) /\ tmp.open \in Seq(S)
             V == {k \in Nat : k <= Len(s) => Good(g[k])}
  <1>6. ASSUME NEW tmp, Good(tmp), NEW x \in S PROVE Good(Pack(tmp, x))
    <2> DEFINE closed == IF tmp.open = <<>> THEN tmp.list ELSE Append(tmp.list, tmp.open)
    <2>1. closed \in Seq(Seq(S))
      BY <1>6, AppendProperties
    <2>2. <<x>> \in Seq(S) /\ <<>> \in Seq(S) /\ Append(tmp.open, x) \in Seq(S)
      BY <1>6, EmptySeq, AppendProperties
    <2>3. Append(closed, <<x>>) \in Seq(Seq(S))
      BY <2>1, <2>2, AppendProperties
    <2> DEFINE need == IF x.type = "NORMAL" THEN 4 + MsgSize[x.data] ELSE 3
               A == [list |-> Append(closed, <<x>>), open |-> <<>>, sz |-> 0]
               B == [list |-> closed, open |-> <<x>>, sz |-> PackedSize(x)]
               C == [list |-> tmp.list, open |-> Append(tmp.open, x), sz |-> tmp.sz + PackedSize(x)]
               P1 == need > PackageSize
               P2 == need <= PackageSize /\ PackageSize - tmp.sz < need
    <2>4. Pack(tmp, x) = CASE P1 -> A [] P2 -> B [] OTHER -> C
      BY Zenon DEF Pack
    <2>5. Good(A) /\ Good(B) /\ Good(C)
      BY <1>6, <2>1, <2>2, <2>3
    <2> HIDE DEF A, B, C, P1, P2, Good
    <2> QED BY <2>4, <2>5
  <1> HIDE DEF g, Good
  <1>7. /\ g[0] = [list |-> <<>>, open |-> <<>>, sz |-> 0]
        /\ \A k \in 1..Len(s) : g[k] = Pack(g[k - 1], s[k])
    BY <1>1, <1>5 DEF g
  <1>8. 0 \in V
    <2>1. <<>> \in Seq(S) /\ <<>> \in Seq(Seq(S))
      BY EmptySeq
    <2>2. g[0].list = <<>> /\ g[0].open = <<>>
      BY <1>7
    <2>3. Good(g[0])
      BY <2>1, <2>2 DEF Good
    <2> QED BY <2>3
  <1>9. ASSUME NEW i \in 0..(Len(s) - 1), i \in V PROVE i + 1 \in V
    <2>1. i + 1 \in 1..Len(s) /\ i + 1 - 1 = i /\ i <= Len(s) /\ i + 1 \in Nat
      BY <1>1
    <2>2. Good(g[i]) /\ s[i + 1] \in S /\ g[i + 1] = Pack(g[i], s[i + 1])
      BY <1>1, <1>7, <1>9, <2>1
    <2> QED BY <1>6, <2>1, <2>2
  <1>10. \A i \in 0..Len(s) : i \in V
    <2> HIDE DEF V
    <2> QED BY <1>1, <1>8, <1>9, SetInduction
  <1>11. Good(g[Len(s)])
    BY <1>1, <1>10
  <1> QED BY <1>11 DEF g, Good

-----------------------------------------------------------------------------
(* Types, by the messages S the end itself has sent and R its peer has *)

Types == {"IGNORE", "CORRUPT", "REQUEST", "MISSING", "NORMAL"}

(* A header holds the low bits of the number, and MISSING has no contents. *)
Entries(S) ==
  {x \in [type : Types, id : 0..(WireIds - 1), data : S \union {Missing}] :
     /\ x.type = "NORMAL" => x.data \in Nat /\ x.id = x.data % WireIds
     /\ x.type = "MISSING" => x.data = Missing}

Object(S, R, e) ==
  [send_queue : Seq(Messages(S)), recv_queue : Seq(Messages(R)),
   send_history : Seq(Messages(S)), send_again : Seq(Int), corrupt : BOOLEAN,
   current_tick : 0..MaxTick[e], last_send_tick : 0..MaxTick[e],
   last_expired_tick : 0..MaxTick[e],
   send_id : Start[e] .. (Start[e] + MaxMsgs[e]), recv_id_min : Nat, recv_id_max : Nat]

LEMMA PeerFacts ==
    ASSUME NEW e \in Endpoints
    PROVE  /\ Peer(e) \in Endpoints /\ Peer(e) # e /\ Peer(Peer(e)) = e
           /\ \A f \in Endpoints : f = e \/ f = Peer(e)
  BY RudpAssumption DEF Peer

LEMMA SeqMonotone ==
    ASSUME NEW A, NEW B, A \subseteq B, NEW s \in Seq(A)
    PROVE  s \in Seq(B)
  <1>1. Len(s) \in Nat /\ s = [i \in 1..Len(s) |-> s[i]] /\ \A i \in 1..Len(s) : s[i] \in A
    BY LenProperties, ElementOfSeq
  <1>2. s \in [1..Len(s) -> B]
    BY <1>1
  <1> QED BY <1>1, <1>2, SeqDef

LEMMA IntegerConstants ==
    ASSUME NEW e \in Endpoints
    PROVE  /\ WireIds \in Int /\ WireIds > 0 /\ Half \in Int
           /\ SendDelay \in Nat /\ Expired \in Nat /\ Expired > 0
           /\ MaxTick[e] \in Nat /\ MaxTick[e] >= Expired
           /\ Start[e] \in Nat /\ MaxMsgs[e] \in Nat
  BY RudpAssumption DEF Half

LEMMA EntryType ==
    ASSUME NEW S, NEW t \in Types, NEW id \in Int, NEW d \in S \union {Missing},
           t = "NORMAL" => d \in Nat /\ d = id, t = "MISSING" => d = Missing
    PROVE  Entry(t, id, d) \in Entries(S)
  <1>1. id % WireIds \in 0..(WireIds - 1)
    BY RudpAssumption
  <1> QED BY <1>1 DEF Entry, Entries

LEMMA GetIdType ==
    ASSUME NEW u, u.recv_id_max \in Nat, NEW w \in Int
    PROVE  get_id(u, w) \in Int
  <1>1. WireIds \in Int /\ WireIds > 0 /\ Half \in Int
    BY RudpAssumption DEF Half
  <1> DEFINE id == (u.recv_id_max \div WireIds) * WireIds + w
  <1>2. u.recv_id_max \div WireIds \in Int
    BY <1>1
  <1>3. id \in Int
    BY <1>1, <1>2
  <1> HIDE DEF id
  <1>4. id + WireIds \in Int /\ id - WireIds \in Int
    BY <1>1, <1>3
  <1>5. get_id(u, w) = CASE id < u.recv_id_max - Half -> id + WireIds
                         [] id > u.recv_id_max + Half -> id - WireIds
                         [] OTHER -> id
    BY Zenon DEF get_id, id
  <1> QED BY <1>3, <1>4, <1>5

-----------------------------------------------------------------------------
(* Receiving *)

(* QueueClosed of one object. *)
Closed(u) ==
  LET q == u.recv_queue
  IN  /\ \A i, j \in DOMAIN q : i < j => q[i].id <= q[j].id
      /\ q # <<>> => Last(q).id = u.recv_id_max
      /\ q = <<>> /\ u.recv_id_min > 0 => u.recv_id_max = u.recv_id_min - 1

(* What the arrival of a package leaves alone. *)
SameSender(u, v) ==
  /\ v.send_queue = u.send_queue /\ v.send_history = u.send_history
  /\ v.current_tick = u.current_tick /\ v.last_send_tick = u.last_send_tick
  /\ v.last_expired_tick = u.last_expired_tick /\ v.send_id = u.send_id

LEMMA ArrayInsertType ==
    ASSUME NEW a \in Seq(Int), NEW id \in Int
    PROVE  array_insert(a, id) \in Seq(Int)
  <1> DEFINE larger == {i \in DOMAIN a : a[i] > id}
  <1>1. DOMAIN a \in SUBSET Nat
    BY LenProperties
  <1>2. Append(a, id) \in Seq(Int)
    BY AppendProperties
  <1>3. larger # {} => InsertAt(a, First(larger), id) \in Seq(Int)
    <2> SUFFICES ASSUME larger # {} PROVE InsertAt(a, First(larger), id) \in Seq(Int)
      OBVIOUS
    <2>1. First(larger) \in DOMAIN a
      BY <1>1, FirstFacts
    <2> QED BY <2>1, InsertFacts
  <1>4. array_insert(a, id) = CASE id \in Range(a) -> a
                                [] id \notin Range(a) /\ larger = {} -> Append(a, id)
                                [] OTHER -> InsertAt(a, First(larger), id)
    BY Zenon DEF array_insert
  <1> HIDE DEF larger
  <1> QED BY <1>2, <1>3, <1>4

(* A message put at the end, or in front of the first larger id, keeps the    *)
(* queue ascending and closed by recv_id_max.                              *)
LEMMA InsertMessage ==
    ASSUME NEW S, NEW R, NEW e, NEW u \in Object(S, R, e), Closed(u),
           NEW id \in Int, NEW data \in R \union {Missing}
    PROVE  /\ insert_message(u, id, data) \in Object(S, R, e)
           /\ Closed(insert_message(u, id, data))
           /\ SameSender(u, insert_message(u, id, data))
  <1> DEFINE q == u.recv_queue
             m == Message(id, data, 0)
             larger == {i \in DOMAIN q : q[i].id > id}
             A == [u EXCEPT !.recv_queue = Append(q, m), !.recv_id_max = id]
             B == [u EXCEPT !.recv_queue = InsertAt(q, First(larger), m)]
             Good(v) == v \in Object(S, R, e) /\ Closed(v) /\ SameSender(u, v)
  <1>1. q \in Seq(Messages(R)) /\ u.recv_id_min \in Nat /\ u.recv_id_max \in Nat
    BY DEF Object
  <1>2. m \in Messages(R) /\ m.id = id
    BY DEF Message, Messages
  <1> HIDE DEF q, m
  <1>3. /\ Len(q) \in Nat /\ DOMAIN q = 1..Len(q)
        /\ \A i \in 1..Len(q) : q[i] \in Messages(R) /\ q[i].id \in Int
    <2>1. Len(q) \in Nat /\ DOMAIN q = 1..Len(q) /\ \A i \in 1..Len(q) : q[i] \in Messages(R)
      BY <1>1, LenProperties, ElementOfSeq
    <2>2. \A x \in Messages(R) : x.id \in Int
      BY DEF Messages
    <2> QED BY <2>1, <2>2
  <1>4. \A i, j \in 1..Len(q) : i < j => q[i].id <= q[j].id
    BY <1>3 DEF Closed, q
  <1>5. q # <<>> => Len(q) > 0 /\ q[Len(q)].id = u.recv_id_max
    <2>1. q # <<>> => Len(q) > 0
      BY <1>1, <1>3, EmptySeq
    <2>2. q # <<>> => q[Len(q)].id = u.recv_id_max
      BY DEF Closed, q, Last
    <2> QED BY <2>1, <2>2
  <1>6. Good(u)
    BY DEF SameSender
  <1>7. ASSUME id >= u.recv_id_min, id > u.recv_id_max \/ q = <<>> PROVE Good(A)
    <2> DEFINE r == Append(q, m)
    <2>1. r \in Seq(Messages(R)) /\ r # <<>> /\ Len(r) = Len(q) + 1 /\ r[Len(q) + 1] = m
          /\ (\A i \in 1..Len(q) : r[i] = q[i])
      BY <1>1, <1>2, <1>3, AppendProperties, AppendFacts
    <2> HIDE DEF r
    <2>2. DOMAIN r = 1..(Len(q) + 1) /\ Last(r).id = id
      BY <1>2, <2>1, LenProperties DEF Last
    <2>3. id \in Nat
      BY <1>1, <1>7
    <2>4. A \in Object(S, R, e) /\ A.recv_queue = r /\ A.recv_id_max = id
      BY <2>1, <2>3 DEF Object, r
    <2>5. ASSUME NEW i \in 1..Len(q) PROVE q[i].id <= id
      <3> HIDE DEF A, B, larger, Good
      <3>0. \A n \in Nat : \A k \in 1..n : n \in 1..n /\ (k = n \/ k < n)
        OBVIOUS
      <3>1. Len(q) \in 1..Len(q) /\ (i = Len(q) \/ i < Len(q))
        BY <1>3, <3>0
      <3>2. q # <<>>
        BY <3>1
      <3>3. q[i].id <= u.recv_id_max
        <4>1. q[Len(q)].id = u.recv_id_max
          BY <1>5, <3>2
        <4>2. q[i].id \in Int
          BY <1>3
        <4>3. CASE i = Len(q)
          BY <1>1, <4>1, <4>2, <4>3
        <4>4. CASE i < Len(q)
          BY <1>4, <3>1, <4>1, <4>4
        <4> QED BY <3>1, <4>3, <4>4
      <3> QED BY <1>1, <1>3, <1>7, <3>2, <3>3
    <2>6. \A i, j \in DOMAIN r : i < j => r[i].id <= r[j].id
      BY <1>2, <1>3, <1>4, <2>1, <2>2, <2>5
    <2>7. Closed(A)
      BY <2>1, <2>2, <2>4, <2>6 DEF Closed
    <2>8. SameSender(u, A)
      BY DEF SameSender, Object
    <2> QED BY <2>4, <2>7, <2>8
  <1>8. ASSUME larger # {} PROVE Good(B)
    <2> DEFINE f == First(larger)
               r == InsertAt(q, f, m)
    <2>1. f \in larger /\ \A j \in larger : f <= j
      <3>1. larger \in SUBSET Nat
        BY <1>3
      <3> HIDE DEF larger
      <3> QED BY <1>8, <3>1, FirstFacts
    <2>2. f \in 1..Len(q) /\ q[f].id > id
      BY <1>3, <2>1
    <2> HIDE DEF f
    <2>3. /\ r \in Seq(Messages(R)) /\ Len(r) = Len(q) + 1 /\ DOMAIN r = 1..(Len(q) + 1)
          /\ \A j \in 1..(f - 1) : r[j] = q[j]
          /\ r[f] = m
          /\ \A j \in (f + 1)..(Len(q) + 1) : r[j] = q[j - 1]
      <3>1. f \in DOMAIN q
        BY <1>3, <2>2
      <3> HIDE DEF larger
      <3> QED BY <1>1, <1>2, <3>1, InsertFacts
    <2> HIDE DEF r
    <2>4. \A j \in 1..(f - 1) : q[j].id <= id
      <3> SUFFICES ASSUME NEW j \in 1..(f - 1) PROVE q[j].id <= id
        OBVIOUS
      <3>1. j \in DOMAIN q /\ j \notin larger
        BY <1>3, <2>1, <2>2
      <3> QED BY <1>3, <3>1
    <2>5. \A j \in f..Len(q) : id <= q[j].id
      BY <1>3, <1>4, <2>2
    <2>6. ASSUME NEW i \in DOMAIN r, NEW j \in DOMAIN r, i < j PROVE r[i].id <= r[j].id
      <3>1. CASE j < f
        BY <1>3, <1>4, <2>2, <2>3, <2>6, <3>1
      <3>2. CASE j = f
        <4>1. i \in 1..(f - 1)
          BY <1>3, <2>2, <2>3, <2>6, <3>2
        <4> QED BY <1>2, <2>3, <2>4, <3>2, <4>1
      <3>3. CASE f < j
        <4>1. j \in (f + 1)..(Len(q) + 1) /\ j - 1 \in f..Len(q) /\ j - 1 \in 1..Len(q)
          BY <1>3, <2>2, <2>3, <3>3
        <4>2. CASE i < f
          <5>1. i \in 1..(f - 1) /\ i \in 1..Len(q) /\ i < j - 1
            BY <1>3, <2>2, <2>3, <4>1, <4>2
          <5> QED BY <1>4, <2>3, <4>1, <5>1
        <4>3. CASE i = f
          BY <1>2, <2>3, <2>5, <4>1, <4>3
        <4>4. CASE f < i
          <5>1. i \in (f + 1)..(Len(q) + 1) /\ i - 1 \in 1..Len(q) /\ i - 1 < j - 1
            BY <1>3, <2>2, <2>3, <2>6, <4>1, <4>4
          <5> QED BY <1>4, <2>3, <4>1, <5>1
        <4> QED BY <2>2, <2>3, <4>2, <4>3, <4>4
      <3> QED BY <2>2, <2>3, <3>1, <3>2, <3>3
    <2>7. r # <<>> /\ Last(r).id = u.recv_id_max
      <3>1. Len(q) + 1 \in (f + 1)..(Len(q) + 1) /\ Len(q) + 1 - 1 = Len(q) /\ q # <<>>
        BY <1>3, <2>2, EmptySeq
      <3>2. r[Len(r)] = q[Len(q)]
        BY <2>3, <3>1
      <3> QED BY <1>3, <1>5, <2>3, <3>1, <3>2, EmptySeq DEF Last
    <2>8. B \in Object(S, R, e) /\ B.recv_queue = r /\ B.recv_id_max = u.recv_id_max
      BY <2>3 DEF Object, r, f
    <2>9. Closed(B)
      BY <2>6, <2>7, <2>8 DEF Closed
    <2>10. SameSender(u, B)
      BY DEF SameSender, Object
    <2> QED BY <2>8, <2>9, <2>10
  <1>9. insert_message(u, id, data) =
          CASE id < u.recv_id_min -> u
            [] id >= u.recv_id_min /\ (id > u.recv_id_max \/ q = <<>>) -> A
            [] OTHER -> IF larger = {} THEN u ELSE B
    BY Zenon DEF insert_message, q, m
  <1> HIDE DEF larger, A, B
  <1>10. Good(insert_message(u, id, data))
    <2> HIDE DEF Good
    <2> QED BY <1>6, <1>7, <1>8, <1>9
  <1> QED BY <1>10

LEMMA ExtractOne ==
    ASSUME NEW S, NEW R, NEW e, NEW u \in Object(S, R, e), Closed(u), NEW x \in Entries(R)
    PROVE  /\ ExtractEntry(u, x) \in Object(S, R, e)
           /\ Closed(ExtractEntry(u, x))
           /\ SameSender(u, ExtractEntry(u, x))
  <1> DEFINE Good(v) == v \in Object(S, R, e) /\ Closed(v) /\ SameSender(u, v)
             A == [u EXCEPT !.send_again = <<u.recv_id_min>>]
             B == [u EXCEPT !.corrupt = TRUE]
             C == [u EXCEPT !.send_again = array_insert(@, get_id(u, x.id))]
             D == insert_message(u, get_id(u, x.id), x.data)
  <1>1. /\ u.recv_id_min \in Nat /\ u.recv_id_max \in Nat /\ u.send_again \in Seq(Int)
        /\ x.id \in Int /\ x.data \in R \union {Missing}
    BY DEF Object, Entries
  <1>2. get_id(u, x.id) \in Int
    BY <1>1, GetIdType
  <1>3. Good(u)
    BY DEF SameSender
  <1>4. Good(A)
    <2>1. <<u.recv_id_min>> \in Seq(Int)
      BY <1>1
    <2>2. A \in Object(S, R, e)
      BY <2>1 DEF Object
    <2>3. Closed(A) /\ SameSender(u, A)
      BY DEF Closed, SameSender, Object
    <2> QED BY <2>2, <2>3
  <1>5. Good(B)
    <2>1. B \in Object(S, R, e)
      BY DEF Object
    <2>2. Closed(B) /\ SameSender(u, B)
      BY DEF Closed, SameSender, Object
    <2> QED BY <2>1, <2>2
  <1>6. Good(C)
    <2>1. array_insert(u.send_again, get_id(u, x.id)) \in Seq(Int)
      BY <1>1, <1>2, ArrayInsertType
    <2>2. C \in Object(S, R, e)
      BY <2>1 DEF Object
    <2>3. Closed(C) /\ SameSender(u, C)
      BY DEF Closed, SameSender, Object
    <2> QED BY <2>2, <2>3
  <1>7. Good(D)
    BY <1>1, <1>2, InsertMessage
  <1>8. ExtractEntry(u, x) =
          CASE u.corrupt -> u
            [] ~u.corrupt /\ x.type = "IGNORE" -> IF u.send_again = <<>> THEN A ELSE u
            [] ~u.corrupt /\ x.type = "CORRUPT" -> B
            [] ~u.corrupt /\ x.type = "REQUEST" -> C
            [] OTHER -> D
    BY Zenon DEF ExtractEntry
  <1> HIDE DEF A, B, C, D, Good
  <1>9. Good(ExtractEntry(u, x))
    BY <1>3, <1>4, <1>5, <1>6, <1>7, <1>8
  <1> QED BY <1>9 DEF Good

(* A whole package. *)
LEMMA ExtractPackage ==
    ASSUME NEW S, NEW R, NEW e, NEW u \in Object(S, R, e), Closed(u), NEW p \in Seq(Entries(R))
    PROVE  /\ extract_package(u, p) \in Object(S, R, e)
           /\ Closed(extract_package(u, p))
           /\ SameSender(u, extract_package(u, p))
  <1> DEFINE g == Extracted(u, p)
             Good(v) == v \in Object(S, R, e) /\ Closed(v) /\ SameSender(u, v)
             V == {i \in Nat : i <= Len(p) => Good(g[i])}
  <1>1. Len(p) \in Nat /\ \A i \in 1..Len(p) : p[i] \in Entries(R)
    BY LenProperties, ElementOfSeq
  <1>2. g[0] = u /\ \A i \in 1..Len(p) : g[i] = ExtractEntry(g[i - 1], p[i])
    BY ExtractedFacts
  <1> HIDE DEF g
  <1>3. ASSUME NEW v, Good(v), NEW x \in Entries(R) PROVE Good(ExtractEntry(v, x))
    <2>1. /\ ExtractEntry(v, x) \in Object(S, R, e) /\ Closed(ExtractEntry(v, x))
          /\ SameSender(v, ExtractEntry(v, x))
      BY <1>3, ExtractOne
    <2> QED BY <1>3, <2>1 DEF SameSender
  <1>4. Good(u)
    BY DEF SameSender
  <1> HIDE DEF Good
  <1>5. 0 \in V
    BY <1>2, <1>4
  <1>6. ASSUME NEW i \in 0..(Len(p) - 1), i \in V PROVE i + 1 \in V
    <2>1. i + 1 \in 1..Len(p) /\ i + 1 - 1 = i /\ i <= Len(p) /\ i + 1 \in Nat
      BY <1>1
    <2>2. Good(g[i]) /\ p[i + 1] \in Entries(R) /\ g[i + 1] = ExtractEntry(g[i], p[i + 1])
      BY <1>1, <1>2, <1>6, <2>1
    <2> QED BY <1>3, <2>1, <2>2
  <1>7. \A i \in 0..Len(p) : i \in V
    <2> HIDE DEF V
    <2> QED BY <1>1, <1>5, <1>6, SetInduction
  <1>8. Good(g[Len(p)])
    BY <1>1, <1>7
  <1> QED BY <1>8 DEF g, Good, extract_package

(* The messages rudp_recv takes have the ids from recv_id_min on, and only   *)
(* the last of them can be a MISSING or an empty one.                      *)
LEMMA ReceivableFacts ==
    ASSUME NEW S, NEW u, u.recv_queue \in Seq(S)
    PROVE  /\ Receivable(u) \in 0..Len(u.recv_queue)
           /\ \A i \in 1..Receivable(u) : u.recv_queue[i].id = u.recv_id_min + i - 1
           /\ \A i \in 1..(Receivable(u) - 1) : ~Silent(u.recv_queue[i].data)
  <1> DEFINE q == u.recv_queue
             InTurn(k) == /\ \A i \in 1..k : q[i].id = u.recv_id_min + i - 1
                          /\ \A i \in 1..(k - 1) : ~Silent(q[i].data)
             Stops(k) == InTurn(k) /\ \A j \in (k + 1)..Len(q) : ~InTurn(j)
             W == {n \in 0..Len(q) : InTurn(Len(q) - n)}
  <1>1. Len(q) \in Nat
    BY LenProperties
  <1>2. InTurn(0)
    OBVIOUS
  <1>3. Receivable(u) = IF u.corrupt THEN 0 ELSE CHOOSE k \in 0..Len(q) : Stops(k)
    BY Zenon DEF Receivable
  <1> HIDE DEF q, InTurn
  <1>4. W \in SUBSET Nat /\ W # {}
    <2>1. Len(q) \in 0..Len(q) /\ Len(q) - Len(q) = 0
      BY <1>1
    <2>2. Len(q) \in W
      BY <1>2, <2>1
    <2> QED BY <1>1, <2>2
  <1>5. PICK n \in W : \A j \in W : n <= j
    BY <1>4, LeastNat
  <1>6. Len(q) - n \in 0..Len(q) /\ InTurn(Len(q) - n)
    BY <1>1, <1>5
  <1>7. ASSUME NEW j \in (Len(q) - n + 1)..Len(q) PROVE ~InTurn(j)
    <2>1. Len(q) - j \in 0..Len(q) /\ Len(q) - (Len(q) - j) = j /\ ~(n <= Len(q) - j)
      BY <1>1, <1>5
    <2> QED BY <1>5, <2>1
  <1>8. \E k \in 0..Len(q) : Stops(k)
    BY <1>6, <1>7
  <1>9. Receivable(u) \in 0..Len(q) /\ InTurn(Receivable(u))
    <2>1. CASE u.corrupt
      BY <1>1, <1>2, <1>3, <2>1
    <2>2. CASE ~u.corrupt
      <3>1. Receivable(u) \in 0..Len(q) /\ Stops(Receivable(u))
        BY <1>3, <1>8, <2>2, Zenon
      <3> QED BY <3>1
    <2> QED BY <2>1, <2>2
  <1> QED BY <1>9 DEF q, InTurn

LEMMA RecvFacts ==
    ASSUME NEW S, NEW R, NEW e, NEW u \in Object(S, R, e), Closed(u)
    PROVE  /\ rudp_recv(u) \in Object(S, R, e)
           /\ Closed(rudp_recv(u))
           /\ SameSender(u, rudp_recv(u))
  <1> DEFINE q == u.recv_queue
             k == Receivable(u)
             r == SubSeq(q, k + 1, Len(q))
             v == rudp_recv(u)
  <1>1. q \in Seq(Messages(R)) /\ u.recv_id_min \in Nat /\ u.recv_id_max \in Nat
    BY DEF Object
  <1>2. k \in 0..Len(q) /\ \A i \in 1..k : q[i].id = u.recv_id_min + i - 1
    BY <1>1, ReceivableFacts
  <1>3. v = [u EXCEPT !.corrupt = FALSE, !.recv_queue = r, !.recv_id_min = u.recv_id_min + k]
    BY DEF rudp_recv, Object
  <1> HIDE DEF k, q
  <1>4. Len(q) \in Nat /\ DOMAIN q = 1..Len(q)
    BY <1>1, LenProperties
  <1>5. /\ r \in Seq(Messages(R)) /\ Len(r) = Len(q) - k
        /\ \A i \in 1..(Len(q) - k) : r[i] = q[k + i]
    BY <1>1, <1>2, RestFacts
  <1> HIDE DEF r
  <1>6. u.recv_id_min + k \in Nat
    BY <1>1, <1>2, <1>4
  <1> HIDE DEF v
  <1>7. v \in Object(S, R, e) /\ v.recv_queue = r /\ v.recv_id_min = u.recv_id_min + k
        /\ v.recv_id_max = u.recv_id_max
    BY <1>3, <1>5, <1>6 DEF Object
  <1>8. DOMAIN r = 1..(Len(q) - k)
    BY <1>5, LenProperties
  <1>9. ASSUME NEW i \in DOMAIN r, NEW j \in DOMAIN r, i < j PROVE r[i].id <= r[j].id
    <2>1. k + i \in DOMAIN q /\ k + j \in DOMAIN q /\ k + i < k + j
      BY <1>2, <1>4, <1>8, <1>9
    <2>2. q[k + i].id <= q[k + j].id
      BY <2>1 DEF Closed, q
    <2> QED BY <1>5, <1>8, <2>2
  <1>10. CASE r = <<>>
    <2>1. k = Len(q)
      <3>1. Len(r) = 0
        BY <1>10
      <3> QED BY <1>2, <1>4, <1>5, <3>1
    <2>2. ASSUME q = <<>> PROVE Closed(v)
      <3>1. Len(q) = 0
        BY <2>2
      <3>2. u.recv_id_min + k = u.recv_id_min
        BY <1>1, <2>1, <3>1
      <3>3. u.recv_id_min > 0 => u.recv_id_max = u.recv_id_min - 1
        BY <2>2 DEF Closed, q
      <3> QED BY <1>7, <1>9, <1>10, <3>2, <3>3 DEF Closed
    <2>3. ASSUME q # <<>> PROVE Closed(v)
      <3>1. Len(q) \in 1..k
        <4>1. Len(q) # 0
          BY <1>1, <2>3, EmptySeq
        <4> QED BY <1>4, <2>1, <4>1
      <3>2. q[Len(q)].id = u.recv_id_min + k - 1
        BY <1>2, <2>1, <3>1
      <3>3. q[Len(q)].id = u.recv_id_max
        BY <2>3 DEF Closed, q, Last
      <3>4. v.recv_id_max = v.recv_id_min - 1
        BY <1>1, <1>2, <1>4, <1>6, <1>7, <3>2, <3>3
      <3>5. \A i, j \in DOMAIN v.recv_queue : i < j => v.recv_queue[i].id <= v.recv_queue[j].id
        BY <1>7, <1>9
      <3>6. v.recv_queue = <<>>
        BY <1>7, <1>10
      <3> QED BY <3>4, <3>5, <3>6 DEF Closed
    <2>4. Closed(v)
      BY <2>2, <2>3
    <2>5. SameSender(u, v)
      BY <1>3 DEF SameSender, Object
    <2> QED BY <1>7, <2>4, <2>5 DEF v
  <1>11. CASE r # <<>>
    <2>1. Len(q) - k \in 1..(Len(q) - k) /\ k + (Len(q) - k) = Len(q) /\ Len(q) # 0
      <3>1. Len(r) # 0
        BY <1>5, <1>11, EmptySeq
      <3>2. \A n \in Nat : \A j \in 0..n : n - j # 0 =>
               n - j \in 1..(n - j) /\ j + (n - j) = n /\ n # 0
        OBVIOUS
      <3> QED BY <1>2, <1>4, <1>5, <3>1, <3>2
    <2>2. r[Len(r)] = q[Len(q)]
      BY <1>5, <2>1
    <2>3. q # <<>>
      BY <2>1
    <2>4. q[Len(q)].id = u.recv_id_max
      BY <2>3 DEF Closed, q, Last
    <2>5. Last(r).id = u.recv_id_max
      BY <2>2, <2>4 DEF Last
    <2>6. Closed(v)
      BY <1>7, <1>9, <1>11, <2>5 DEF Closed
    <2>7. SameSender(u, v)
      BY <1>3 DEF SameSender, Object
    <2> QED BY <1>7, <2>6, <2>7 DEF v
  <1> QED BY <1>10, <1>11

LEMMA ReceivedType ==
    ASSUME NEW S, NEW R, NEW e, NEW u \in Object(S, R, e)
    PROVE  Received(u) \in Seq(R)
  <1> DEFINE q == u.recv_queue
             k == Receivable(u)
             given == IF k > 0 /\ Silent(q[k].data) THEN k - 1 ELSE k
  <1>1. q \in Seq(Messages(R))
    BY DEF Object
  <1>2. k \in 0..Len(q) /\ \A i \in 1..(k - 1) : ~Silent(q[i].data)
    BY <1>1, ReceivableFacts
  <1>3. Len(q) \in Nat /\ \A i \in 1..Len(q) : q[i].data \in R \union {Missing}
    <2>1. Len(q) \in Nat /\ \A i \in 1..Len(q) : q[i] \in Messages(R)
      BY <1>1, LenProperties, ElementOfSeq
    <2>2. \A x \in Messages(R) : x.data \in R \union {Missing}
      BY DEF Messages
    <2> QED BY <2>1, <2>2
  <1>4. Received(u) = [i \in 1..given |-> q[i].data]
    BY DEF Received
  <1> HIDE DEF k, q
  <1>5. given \in Nat /\ \A i \in 1..given : q[i].data \in R
    <2>1. CASE k > 0 /\ Silent(q[k].data)
      <3>1. given = k - 1 /\ given \in Nat /\ \A i \in 1..given : i \in 1..(k - 1) /\ i \in 1..Len(q)
        BY <1>2, <1>3, <2>1
      <3> HIDE DEF given
      <3> QED BY <1>2, <1>3, <3>1 DEF Silent
    <2>2. CASE ~(k > 0 /\ Silent(q[k].data))
      <3>1. given = k
        BY <2>2
      <3>2. \A i \in 1..k : i \in 1..Len(q) /\ (i \in 1..(k - 1) \/ (i = k /\ k > 0))
        BY <1>2, <1>3
      <3> HIDE DEF given
      <3> QED BY <1>2, <1>3, <2>2, <3>1, <3>2 DEF Silent
    <2> QED BY <2>1, <2>2
  <1> HIDE DEF given
  <1>6. [i \in 1..given |-> q[i].data] \in [1..given -> R]
    BY <1>5
  <1> QED BY <1>4, <1>5, <1>6, SeqDef

-----------------------------------------------------------------------------
(* Sending *)

(* Message id, handed over at tick t, can be sent again or is expired. *)
Held(u, id, t) ==
  \/ t + Expired < u.current_tick
  \/ \E m \in Range(u.send_queue) \union Range(u.send_history) : m.id = id /\ m.tick = t

(* The contents of an end's own messages stand for their numbers. *)
Own(u) ==
  \A m \in Range(u.send_queue) \union Range(u.send_history) : m.id \in Nat /\ m.data = m.id

(* What sending leaves alone. *)
SameReceiver(u, v) ==
  /\ v.recv_queue = u.recv_queue /\ v.corrupt = u.corrupt
  /\ v.recv_id_min = u.recv_id_min /\ v.recv_id_max = u.recv_id_max

(* Expiry forgets nothing that is younger than Expired: what it drops was    *)
(* handed over before last_expired_tick, which is Expired ticks ago.       *)
LEMMA ExpireFacts ==
    ASSUME NEW S, NEW R, NEW e \in Endpoints, NEW u \in Object(S, R, e), Closed(u)
    PROVE  /\ Expire(u) \in Object(S, R, e)
           /\ Closed(Expire(u)) /\ SameReceiver(u, Expire(u))
           /\ Own(u) => Own(Expire(u))
           /\ Expire(u).send_id = u.send_id /\ Expire(u).current_tick = u.current_tick
           /\ \A id, t : Held(u, id, t) => Held(Expire(u), id, t)
  <1>1. CASE ~(u.current_tick >= u.last_expired_tick + Expired)
    <2>1. Expire(u) = u
      BY <1>1 DEF Expire
    <2> QED BY <2>1 DEF SameReceiver
  <1>2. CASE u.current_tick >= u.last_expired_tick + Expired
    <2> DEFINE h == u.send_history
               tick == u.last_expired_tick
               I == {i \in DOMAIN h : h[i].tick >= tick}
               r == From(h, I)
               v == Expire(u)
    <2>1. /\ h \in Seq(Messages(S)) /\ tick \in Int /\ u.current_tick \in Int
          /\ u.current_tick \in 0..MaxTick[e] /\ Expired \in Nat
      BY IntegerConstants DEF Object
    <2>2. v = [u EXCEPT !.send_history = r, !.last_expired_tick = u.current_tick]
      BY <1>2 DEF Expire, clear_send_expired, Object
    <2> HIDE DEF v, h
    <2>3. /\ r \in Seq(Messages(S))
          /\ \A x \in Range(r) : x \in Range(h)
          /\ \A i \in DOMAIN h : h[i] \in Range(r) \/ \A j \in I : i < j
      BY <2>1, FromFacts
    <2> HIDE DEF r
    <2>4. v \in Object(S, R, e) /\ v.send_history = r /\ v.send_queue = u.send_queue
          /\ v.send_id = u.send_id /\ v.current_tick = u.current_tick
          /\ v.recv_queue = u.recv_queue /\ v.recv_id_min = u.recv_id_min
          /\ v.recv_id_max = u.recv_id_max
      BY <2>1, <2>2, <2>3 DEF Object
    <2>5. Closed(v) /\ (Own(u) => Own(v))
      BY <2>3, <2>4 DEF Closed, Own, h
    <2>7. SameReceiver(u, v)
      BY <2>2 DEF SameReceiver, Object
    <2>6. ASSUME NEW id, NEW t, Held(u, id, t) PROVE Held(v, id, t)
      <3>1. CASE t + Expired < u.current_tick
        BY <2>4, <3>1 DEF Held
      <3>2. CASE ~(t + Expired < u.current_tick)
        <4>1. PICK m \in Range(u.send_queue) \union Range(h) : m.id = id /\ m.tick = t
          BY <2>6, <3>2 DEF Held, h
        <4>2. CASE m \in Range(u.send_queue)
          BY <2>4, <4>1, <4>2 DEF Held
        <4>3. CASE m \in Range(h)
          <5>1. PICK i \in DOMAIN h : m = h[i]
            BY <4>3 DEF Range
          <5>2. h[i].tick \in Nat /\ i \in Nat
            <6>1. h[i] \in Messages(S) /\ i \in Nat
              BY <2>1, LenProperties, ElementOfSeq
            <6> QED BY <6>1 DEF Messages
          <5>3. t \in Nat /\ t >= tick
            BY <1>2, <2>1, <3>2, <4>1, <5>1, <5>2
          <5>4. i \in I
            BY <4>1, <5>1, <5>3
          <5>5. ~(i < i)
            BY <5>2
          <5>6. m \in Range(r)
            BY <2>3, <5>1, <5>4, <5>5
          <5> QED BY <2>4, <4>1, <5>6 DEF Held
        <4> QED BY <4>1, <4>2, <4>3
      <3> QED BY <3>1, <3>2
    <2> QED BY <2>4, <2>5, <2>6, <2>7 DEF v
  <1> QED BY <1>1, <1>2

LEMMA ConcatRange ==
    ASSUME NEW S, NEW s \in Seq(S), NEW t \in Seq(S)
    PROVE  s \o t \in Seq(S) /\ Range(s \o t) = Range(s) \union Range(t)
  <1> DEFINE r == s \o t
  <1>1. /\ Len(s) \in Nat /\ Len(t) \in Nat /\ DOMAIN s = 1..Len(s) /\ DOMAIN t = 1..Len(t)
    BY LenProperties
  <1>2. /\ r \in Seq(S) /\ Len(r) = Len(s) + Len(t)
        /\ \A i \in 1..(Len(s) + Len(t)) : r[i] = IF i <= Len(s) THEN s[i] ELSE t[i - Len(s)]
    BY ConcatProperties
  <1> HIDE DEF r
  <1>3. DOMAIN r = 1..(Len(s) + Len(t))
    BY <1>2, LenProperties
  <1>4. ASSUME NEW i \in DOMAIN s PROVE s[i] \in Range(r)
    <2>1. i \in DOMAIN r /\ i <= Len(s)
      BY <1>1, <1>3
    <2> QED BY <1>2, <1>3, <2>1 DEF Range
  <1>5. ASSUME NEW i \in DOMAIN t PROVE t[i] \in Range(r)
    <2>1. Len(s) + i \in DOMAIN r /\ ~(Len(s) + i <= Len(s)) /\ Len(s) + i - Len(s) = i
      BY <1>1, <1>3
    <2>2. r[Len(s) + i] = t[i]
      BY <1>2, <1>3, <2>1
    <2> QED BY <2>1, <2>2 DEF Range
  <1>6. ASSUME NEW i \in DOMAIN r PROVE r[i] \in Range(s) \union Range(t)
    <2>1. CASE i <= Len(s)
      <3>1. i \in DOMAIN s /\ r[i] = s[i]
        BY <1>1, <1>2, <1>3, <2>1
      <3> QED BY <3>1 DEF Range
    <2>2. CASE ~(i <= Len(s))
      <3>1. i - Len(s) \in DOMAIN t /\ r[i] = t[i - Len(s)]
        BY <1>1, <1>2, <1>3, <2>2
      <3> QED BY <3>1 DEF Range
    <2> QED BY <2>1, <2>2
  <1>7. Range(r) = Range(s) \union Range(t)
    BY <1>4, <1>5, <1>6 DEF Range
  <1> QED BY <1>2, <1>7 DEF r

LEMMA SentOutFacts ==
    ASSUME NEW S, NEW R, NEW e, NEW u \in Object(S, R, e), Closed(u)
    PROVE  /\ SentOut(u) \in Object(S, R, e)
           /\ Closed(SentOut(u)) /\ SameReceiver(u, SentOut(u))
           /\ Own(u) => Own(SentOut(u))
           /\ SentOut(u).send_id = u.send_id /\ SentOut(u).current_tick = u.current_tick
           /\ \A id, t : Held(u, id, t) => Held(SentOut(u), id, t)
  <1> DEFINE v == SentOut(u)
             r == u.send_history \o u.send_queue
  <1>1. u.send_queue \in Seq(Messages(S)) /\ u.send_history \in Seq(Messages(S))
    BY DEF Object
  <1>2. r \in Seq(Messages(S))
        /\ Range(r) = Range(u.send_history) \union Range(u.send_queue)
    BY <1>1, ConcatRange
  <1>3. v = [u EXCEPT !.send_history = r, !.send_queue = <<>>, !.send_again = <<>>,
                      !.last_send_tick = u.current_tick]
    BY DEF SentOut, Object
  <1>4. <<>> \in Seq(Messages(S)) /\ <<>> \in Seq(Int)
    BY EmptySeq
  <1> HIDE DEF v, r
  <1>5. v \in Object(S, R, e) /\ v.send_history = r /\ v.send_queue = <<>>
        /\ v.send_id = u.send_id /\ v.current_tick = u.current_tick
        /\ v.recv_queue = u.recv_queue /\ v.recv_id_min = u.recv_id_min
        /\ v.recv_id_max = u.recv_id_max
    BY <1>2, <1>3, <1>4 DEF Object
  <1>6. Closed(v)
    BY <1>5 DEF Closed
  <1>7. \A id, t : Held(u, id, t) => Held(v, id, t)
    BY <1>2, <1>5 DEF Held
  <1>8. SameReceiver(u, v)
    BY <1>3 DEF SameReceiver, Object
  <1>9. Own(u) => Own(v)
    <2>1. Range(<<>>) = {}
      BY DEF Range
    <2> QED BY <1>2, <1>5, <2>1 DEF Own
  <1> QED BY <1>5, <1>6, <1>7, <1>8, <1>9 DEF v

LEMMA MapType ==
    ASSUME NEW A, NEW B, NEW s \in Seq(A), NEW f, f = [i \in DOMAIN s |-> f[i]],
           \A i \in DOMAIN s : f[i] \in B
    PROVE  f \in Seq(B)
  <1>1. Len(s) \in Nat /\ DOMAIN s = 1..Len(s)
    BY LenProperties
  <1>2. f \in [1..Len(s) -> B]
    BY <1>1
  <1> QED BY <1>1, <1>2, SeqDef

(* Along an ascending queue that begins at recv_id_min or later. *)
LEMMA RequestType ==
    ASSUME NEW S, NEW R, NEW e, NEW u \in Object(S, R, e), Closed(u), AssertQueue(u)
    PROVE  request_missing(u) \in Seq(Entries(S))
  <1> DEFINE q == u.recv_queue
             n == IF q = <<>> THEN 0 ELSE Last(q).id - u.recv_id_min + 1
             ids == Gaps(u, n)[n]
             f == [i \in DOMAIN ids |-> Entry("REQUEST", ids[i], Missing)]
  <1>1. q \in Seq(Messages(R)) /\ u.recv_id_min \in Nat
    BY DEF Object
  <1>2. n \in Nat
    <2>1. CASE q = <<>>
      BY <2>1
    <2>2. CASE q # <<>>
      <3>1. Len(q) \in Nat /\ DOMAIN q = 1..Len(q) /\ \A i \in 1..Len(q) : q[i] \in Messages(R)
        BY <1>1, LenProperties, ElementOfSeq
      <3>2. Len(q) # 0
        BY <1>1, <2>2, EmptySeq
      <3>3. 1 \in DOMAIN q /\ Len(q) \in DOMAIN q /\ (1 = Len(q) \/ 1 < Len(q))
        <4>1. \A k \in Nat : k # 0 => 1 \in 1..k /\ k \in 1..k /\ (1 = k \/ 1 < k)
          OBVIOUS
        <4> QED BY <3>1, <3>2, <4>1
      <3>4. q[1].id \in Int /\ q[Len(q)].id \in Int
        <4>1. q[1] \in Messages(R) /\ q[Len(q)] \in Messages(R)
          BY <3>1, <3>3
        <4> QED BY <4>1 DEF Messages
      <3>5. q[1].id >= u.recv_id_min
        BY <3>3 DEF AssertQueue
      <3>6. q[1].id <= q[Len(q)].id
        <4>1. CASE 1 = Len(q)
          BY <3>4, <4>1
        <4>2. CASE 1 < Len(q)
          BY <3>3, <4>2 DEF Closed
        <4> QED BY <3>3, <4>1, <4>2
      <3>7. n = q[Len(q)].id - u.recv_id_min + 1
        BY <2>2 DEF Last
      <3> HIDE DEF n, q
      <3> QED BY <1>1, <3>4, <3>5, <3>6, <3>7
    <2> QED BY <2>1, <2>2
  <1>3. request_missing(u) = f
    BY Zenon DEF request_missing
  <1> HIDE DEF n
  <1>4. ids \in Seq(Int)
    BY <1>1, <1>2, GapsFacts
  <1> HIDE DEF ids
  <1>5. \A i \in DOMAIN ids : f[i] \in Entries(S)
    <2> SUFFICES ASSUME NEW i \in DOMAIN ids PROVE Entry("REQUEST", ids[i], Missing) \in Entries(S)
      OBVIOUS
    <2>1. ids[i] \in Int
      BY <1>4, LenProperties, ElementOfSeq
    <2> QED BY <2>1, EntryType DEF Types
  <1>6. f = [i \in DOMAIN ids |-> f[i]]
    OBVIOUS
  <1> HIDE DEF f
  <1> QED BY <1>3, <1>4, <1>5, <1>6, MapType

LEMMA ReplyType ==
    ASSUME NEW S, NEW R, NEW e, NEW u \in Object(S, R, e), Own(u)
    PROVE  reply_request(u) \in Seq(Entries(S))
  <1> DEFINE a == u.send_again
             h == u.send_history
             I == {i \in DOMAIN a : a[i] >= u.recv_id_min}
             ids == From(a, I)
             held(id) == {i \in DOMAIN h : h[i].id = id}
             reply(id) == IF held(id) = {} THEN Entry("MISSING", id, Missing)
                          ELSE Entry("NORMAL", id, h[First(held(id))].data)
             f == [i \in DOMAIN ids |-> reply(ids[i])]
  <1>1. a \in Seq(Int) /\ h \in Seq(Messages(S))
    BY DEF Object
  <1>2. reply_request(u) = f
    BY Zenon DEF reply_request
  <1> HIDE DEF a, h
  <1>3. ids \in Seq(Int)
    BY <1>1, FromFacts
  <1>4. ASSUME NEW id \in Int PROVE reply(id) \in Entries(S)
    <2>1. CASE held(id) = {}
      BY <2>1, EntryType DEF Types
    <2>2. CASE held(id) # {}
      <3>1. held(id) \in SUBSET Nat
        BY <1>1, LenProperties
      <3>2. First(held(id)) \in DOMAIN h /\ h[First(held(id))].id = id
        BY <2>2, <3>1, FirstFacts
      <3>3. h[First(held(id))] \in Messages(S)
        BY <1>1, <3>2, LenProperties, ElementOfSeq
      <3>4. h[First(held(id))].data \in S \union {Missing}
        BY <3>3 DEF Messages
      <3>5. id \in Nat /\ h[First(held(id))].data = id
        BY <3>2 DEF Own, Range, h
      <3> QED BY <2>2, <3>4, <3>5, EntryType DEF Types
    <2> QED BY <2>1, <2>2
  <1> HIDE DEF ids, reply
  <1>5. \A i \in DOMAIN ids : f[i] \in Entries(S)
    <2> SUFFICES ASSUME NEW i \in DOMAIN ids PROVE reply(ids[i]) \in Entries(S)
      OBVIOUS
    <2>1. ids[i] \in Int
      BY <1>3, LenProperties, ElementOfSeq
    <2> QED BY <1>4, <2>1
  <1>6. f = [i \in DOMAIN ids |-> f[i]]
    OBVIOUS
  <1> HIDE DEF f
  <1> QED BY <1>2, <1>3, <1>5, <1>6, MapType

LEMMA SendType ==
    ASSUME NEW S, NEW R, NEW e, NEW u \in Object(S, R, e), Own(u)
    PROVE  send_message(u) \in Seq(Entries(S))
  <1> DEFINE q == u.send_queue
             f == [i \in DOMAIN q |-> Entry("NORMAL", q[i].id, q[i].data)]
  <1>1. q \in Seq(Messages(S))
    BY DEF Object
  <1>2. send_message(u) = f
    BY DEF send_message
  <1> HIDE DEF q
  <1>3. \A i \in DOMAIN q : f[i] \in Entries(S)
    <2> SUFFICES ASSUME NEW i \in DOMAIN q PROVE Entry("NORMAL", q[i].id, q[i].data) \in Entries(S)
      OBVIOUS
    <2>1. q[i] \in Messages(S)
      BY <1>1, LenProperties, ElementOfSeq
    <2>2. q[i].id \in Int /\ q[i].data \in S \union {Missing}
      BY <2>1 DEF Messages
    <2>3. q[i].id \in Nat /\ q[i].data = q[i].id
      BY DEF Own, Range, q
    <2> QED BY <2>2, <2>3, EntryType DEF Types
  <1>4. f = [i \in DOMAIN q |-> f[i]]
    OBVIOUS
  <1> HIDE DEF f
  <1> QED BY <1>1, <1>2, <1>3, <1>4, MapType

LEMMA OutType ==
    ASSUME NEW S, NEW R, NEW e, NEW u \in Object(S, R, e), Closed(u), Own(u), AssertQueue(u)
    PROVE  \A p \in gen_outpackage(u) : p \in Seq(Entries(S))
  <1> DEFINE entries == request_missing(u) \o reply_request(u) \o send_message(u)
             tmp == Packed(entries)[Len(entries)]
  <1>1. entries \in Seq(Entries(S))
    BY RequestType, ReplyType, SendType, ConcatProperties
  <1>2. gen_outpackage(u) = IF entries = <<>> THEN {<<Ignore>>}
                            ELSE Range(tmp.list) \union ({tmp.open} \ {<<>>})
    BY DEF gen_outpackage
  <1> HIDE DEF entries
  <1>3. tmp.list \in Seq(Seq(Entries(S))) /\ tmp.open \in Seq(Entries(S))
    BY <1>1, PackedFacts
  <1> HIDE DEF tmp
  <1>4. \A p \in Range(tmp.list) : p \in Seq(Entries(S))
    BY <1>3, LenProperties, ElementOfSeq DEF Range
  <1>5. <<Ignore>> \in Seq(Entries(S))
    <2>1. Ignore \in Entries(S)
      BY EntryType DEF Types, Ignore
    <2> QED BY <2>1
  <1> QED BY <1>2, <1>3, <1>4, <1>5

-----------------------------------------------------------------------------
(* The invariant *)

Sent(e) == Start[e] .. (U[e].send_id - 1)

Shape ==
  /\ DOMAIN U = Endpoints /\ DOMAIN net = Endpoints
  /\ DOMAIN got = Endpoints /\ DOMAIN sentAt = Endpoints
  /\ aborted \subseteq Endpoints

Ends ==
  \A e \in Endpoints :
    U[e] \in Object(Sent(e), Sent(Peer(e)), e) /\ Closed(U[e]) /\ Own(U[e])

Wire == \A e \in Endpoints : \A p \in net[e] : p \in Seq(Entries(Sent(Peer(e))))

Given == \A e \in Endpoints : got[e] \in Seq(Sent(Peer(e)))

Ages ==
  \A e \in Endpoints :
    /\ sentAt[e] \in Seq(Nat) /\ Len(sentAt[e]) = U[e].send_id - Start[e]
    /\ \A i \in DOMAIN sentAt[e] : Held(U[e], Start[e] + i - 1, sentAt[e][i])

RudpInv == Shape /\ Ends /\ Wire /\ Given /\ Ages

LEMMA ObjectMonotone ==
    ASSUME NEW A, NEW B, A \subseteq B, NEW C, NEW D, C \subseteq D, NEW e,
           NEW u \in Object(A, C, e)
    PROVE  u \in Object(B, D, e)
  <1>1. Messages(A) \subseteq Messages(B) /\ Messages(C) \subseteq Messages(D)
    BY DEF Messages
  <1>2. /\ u.send_queue \in Seq(Messages(A)) /\ u.send_history \in Seq(Messages(A))
        /\ u.recv_queue \in Seq(Messages(C))
    BY DEF Object
  <1>3. /\ u.send_queue \in Seq(Messages(B)) /\ u.send_history \in Seq(Messages(B))
        /\ u.recv_queue \in Seq(Messages(D))
    BY <1>1, <1>2, SeqMonotone
  <1> QED BY <1>3 DEF Object

LEMMA EntriesMonotone ==
    ASSUME NEW A, NEW B, A \subseteq B, NEW p \in Seq(Entries(A))
    PROVE  p \in Seq(Entries(B))
  <1>1. Entries(A) \subseteq Entries(B)
    BY DEF Entries
  <1> QED BY <1>1, SeqMonotone

LEMMA UpdatedFacts ==
    ASSUME NEW S, NEW R, NEW e \in Endpoints, NEW u \in Object(S, R, e), Closed(u),
           NEW p \in Seq(Entries(R)), NEW tick \in Nat, u.current_tick + tick <= MaxTick[e]
    PROVE  LET v == Updated(u, p, tick)
           IN  /\ v \in Object(S, R, e) /\ Closed(v) /\ v.send_id = u.send_id
               /\ Own(u) => Own(v)
               /\ \A id, t \in Int : Held(u, id, t) => Held(v, id, t)
  <1> DEFINE w == [u EXCEPT !.current_tick = @ + tick]
             x == extract_package(w, p)
             v == Expire(x)
  <1>1. u.current_tick \in Nat /\ MaxTick[e] \in Nat /\ Expired \in Nat
    BY IntegerConstants DEF Object
  <1>2. u.current_tick + tick \in 0..MaxTick[e]
    BY <1>1
  <1>3. /\ w \in Object(S, R, e) /\ w.current_tick = u.current_tick + tick /\ w.send_id = u.send_id
        /\ w.send_queue = u.send_queue /\ w.send_history = u.send_history
        /\ w.recv_queue = u.recv_queue /\ w.recv_id_min = u.recv_id_min
        /\ w.recv_id_max = u.recv_id_max
    BY <1>2 DEF Object
  <1> HIDE DEF w
  <1>4. Closed(w)
    BY <1>3 DEF Closed
  <1>5. ASSUME NEW id \in Int, NEW t \in Int, Held(u, id, t) PROVE Held(w, id, t)
    <2>1. CASE t + Expired < u.current_tick
      <3>1. t + Expired < w.current_tick
        BY <1>1, <1>3, <2>1
      <3> QED BY <3>1 DEF Held
    <2>2. CASE ~(t + Expired < u.current_tick)
      BY <1>3, <1>5, <2>2 DEF Held
    <2> QED BY <2>1, <2>2
  <1>6. x \in Object(S, R, e) /\ Closed(x) /\ SameSender(w, x)
    BY <1>3, <1>4, ExtractPackage
  <1> HIDE DEF x
  <1>7. \A id, t : Held(w, id, t) => Held(x, id, t)
    BY <1>6 DEF Held, SameSender
  <1>8. /\ v \in Object(S, R, e) /\ Closed(v) /\ v.send_id = x.send_id
        /\ Own(x) => Own(v)
        /\ \A id, t : Held(x, id, t) => Held(v, id, t)
    BY <1>6, ExpireFacts
  <1>9. x.send_id = u.send_id
    BY <1>3, <1>6 DEF SameSender
  <1>10. Updated(u, p, tick) = v
    BY DEF Updated, v, x, w
  <1> HIDE DEF v
  <1>11. \A id, t \in Int : Held(u, id, t) => Held(v, id, t)
    BY <1>5, <1>7, <1>8
  <1>12. Own(u) => Own(x)
    BY <1>3, <1>6 DEF Own, SameSender
  <1> QED BY <1>8, <1>9, <1>10, <1>11, <1>12

LEMMA CorruptType ==
    ASSUME NEW R
    PROVE  Corrupt \in Entries(R) /\ Corrupt.type = "CORRUPT"
  <1>1. Corrupt \in Entries(R)
    BY EntryType DEF Types, Corrupt
  <1> QED BY <1>1 DEF Corrupt, Entry

LEMMA ArrivalType ==
    ASSUME NEW R, NEW e, NEW p \in Seq(Entries(R)), NEW q \in Arrivals(e, p)
    PROVE  q \in Seq(Entries(R))
  <1>1. CASE q = p
    BY <1>1
  <1>2. CASE q # p
    <2>1. PICK k \in 0..(Len(p) - 1) : q = Append(SubSeq(p, 1, k), Corrupt)
      BY <1>2 DEF Arrivals
    <2>2. Len(p) \in Nat /\ \A i \in 1..Len(p) : p[i] \in Entries(R)
      BY LenProperties, ElementOfSeq
    <2>3. SubSeq(p, 1, k) \in Seq(Entries(R))
      BY <2>2, SubSeqProperties
    <2>4. Corrupt \in Entries(R)
      BY CorruptType
    <2> QED BY <2>1, <2>3, <2>4, AppendProperties
  <1> QED BY <1>1, <1>2

LEMMA SentIds ==
    ASSUME RudpInv, NEW e \in Endpoints
    PROVE  Sent(e) \subseteq Ids(e)
  <1>1. U[e].send_id \in Start[e] .. (Start[e] + MaxMsgs[e]) /\ Start[e] \in Nat /\ MaxMsgs[e] \in Nat
    BY IntegerConstants DEF RudpInv, Ends, Object
  <1> QED BY <1>1 DEF Sent, Ids

LEMMA RudpInit ==
    Init => RudpInv
  <1> SUFFICES ASSUME Init PROVE RudpInv
    OBVIOUS
  <1>1. Shape
    BY DEF Init, Shape
  <1>2. ASSUME NEW e \in Endpoints
        PROVE  /\ U[e] \in Object(Sent(e), Sent(Peer(e)), e) /\ Closed(U[e]) /\ Own(U[e])
               /\ U[e].send_id = Start[e] /\ net[e] = {} /\ got[e] = <<>> /\ sentAt[e] = <<>>
    <2> DEFINE r == Start[Peer(e)]
               max == IF r = 0 THEN 0 ELSE r - 1
    <2>1. /\ r \in Nat /\ Start[e] \in Nat /\ MaxMsgs[e] \in Nat
          /\ MaxTick[e] \in Nat /\ Expired \in 0..MaxTick[e] /\ 1 \in 0..MaxTick[e]
      BY PeerFacts, IntegerConstants
    <2>2. U[e] = [send_queue |-> <<>>, recv_queue |-> <<>>, send_history |-> <<>>,
                  send_again |-> <<>>, corrupt |-> FALSE,
                  current_tick |-> Expired, last_send_tick |-> Expired, last_expired_tick |-> 1,
                  send_id |-> Start[e], recv_id_min |-> r, recv_id_max |-> max]
      BY DEF Init, NewRudp
    <2>3. max \in Nat /\ (r > 0 => max = r - 1)
      BY <2>1
    <2> HIDE DEF r, max
    <2>4. U[e] \in Object(Sent(e), Sent(Peer(e)), e)
      <3>1. /\ <<>> \in Seq(Messages(Sent(e))) /\ <<>> \in Seq(Messages(Sent(Peer(e))))
            /\ <<>> \in Seq(Int)
        BY EmptySeq
      <3>2. Start[e] \in Start[e] .. (Start[e] + MaxMsgs[e])
        BY <2>1
      <3> QED BY <2>1, <2>2, <2>3, <3>1, <3>2 DEF Object
    <2>5. /\ U[e].recv_queue = <<>> /\ U[e].recv_id_min = r /\ U[e].recv_id_max = max
          /\ U[e].send_id = Start[e] /\ U[e].send_queue = <<>> /\ U[e].send_history = <<>>
      BY <2>2
    <2>8. Own(U[e])
      BY <2>5 DEF Own, Range
    <2>6. Closed(U[e])
      BY <2>3, <2>5 DEF Closed
    <2>7. net[e] = {} /\ got[e] = <<>> /\ sentAt[e] = <<>>
      BY DEF Init
    <2> QED BY <2>4, <2>5, <2>6, <2>7, <2>8
  <1>3. Ends /\ Wire
    BY <1>2 DEF Ends, Wire
  <1>4. Given
    BY <1>2, EmptySeq DEF Given
  <1>5. Ages
    <2> SUFFICES ASSUME NEW e \in Endpoints
                 PROVE  /\ sentAt[e] \in Seq(Nat) /\ Len(sentAt[e]) = U[e].send_id - Start[e]
                        /\ \A i \in DOMAIN sentAt[e] : Held(U[e], Start[e] + i - 1, sentAt[e][i])
      BY DEF Ages
    <2>1. sentAt[e] \in Seq(Nat) /\ Len(sentAt[e]) = 0 /\ DOMAIN sentAt[e] = {}
      <3>1. sentAt[e] \in Seq(Nat) /\ Len(sentAt[e]) = 0
        BY <1>2, EmptySeq
      <3> QED BY <3>1, LenProperties
    <2>2. U[e].send_id - Start[e] = 0
      BY <1>2, IntegerConstants
    <2> QED BY <2>1, <2>2
  <1> QED BY <1>1, <1>3, <1>4, <1>5 DEF RudpInv

(* rudp_send numbers the message with the next id and queues it. *)
LEMMA RudpSend ==
    ASSUME RudpInv, NEW e \in Endpoints, rudp_send(e)
    PROVE  RudpInv'
  <1> DEFINE u == U[e]
             id == u.send_id
             m == Message(id, id, u.current_tick)
             v == U'[e]
             S == Sent(e)
  <1>1. u \in Object(S, Sent(Peer(e)), e) /\ Closed(u) /\ Own(u)
    BY DEF RudpInv, Ends
  <1>2. /\ id \in Start[e] .. (Start[e] + MaxMsgs[e]) /\ u.current_tick \in Nat
        /\ u.send_queue \in Seq(Messages(S)) /\ Start[e] \in Nat /\ MaxMsgs[e] \in Nat
        /\ id < Start[e] + MaxMsgs[e]
    <2>1. MaxTick[e] \in Nat /\ Start[e] \in Nat /\ MaxMsgs[e] \in Nat
      BY IntegerConstants
    <2> QED BY <1>1, <2>1 DEF Object, rudp_send
  <1>3. /\ U' = [U EXCEPT ![e] = v]
        /\ v = [u EXCEPT !.send_id = id + 1, !.send_queue = Append(u.send_queue, m)]
        /\ \A f \in Endpoints : f # e => U'[f] = U[f]
        /\ DOMAIN U' = Endpoints
    BY <1>1 DEF rudp_send, RudpInv, Shape, Object
  <1>4. v.send_id = id + 1
    BY <1>1, <1>3 DEF Object
  <1>5. S \subseteq Sent(e)' /\ id \in Sent(e)' /\ \A f \in Endpoints : Sent(f) \subseteq Sent(f)'
    <2>1. Sent(e)' = Start[e] .. id
      BY <1>2, <1>4 DEF Sent
    <2>2. S \subseteq Sent(e)' /\ id \in Sent(e)'
      <3>1. S = Start[e] .. (id - 1)
        BY DEF Sent
      <3>2. \A a \in Nat : \A b \in Int : b >= a => (a..(b - 1)) \subseteq (a..b) /\ b \in a..b
        OBVIOUS
      <3>3. id \in Int /\ id >= Start[e]
        BY <1>2
      <3> HIDE DEF id, S
      <3> QED BY <1>2, <2>1, <3>1, <3>2, <3>3
    <2>3. \A f \in Endpoints : f # e => Sent(f)' = Sent(f)
      BY <1>3 DEF Sent
    <2> QED BY <2>2, <2>3
  <1> DEFINE T == Sent(e)'
             R == Sent(Peer(e))'
  <1>6. u \in Object(T, R, e)
    BY <1>1, <1>5, PeerFacts, ObjectMonotone
  <1>7. m \in Messages(T) /\ m.id = id /\ m.data = id /\ m.tick = u.current_tick
    BY <1>2, <1>5 DEF Message, Messages
  <1> HIDE DEF m, S, T, R
  <1>8. /\ Append(u.send_queue, m) \in Seq(Messages(T))
        /\ Range(Append(u.send_queue, m)) = Range(u.send_queue) \union {m}
    <2>1. u.send_queue \in Seq(Messages(T))
      BY <1>6 DEF Object
    <2> QED BY <1>7, <2>1, AppendRange
  <1>9. /\ v \in Object(T, R, e) /\ v.send_queue = Append(u.send_queue, m)
        /\ v.send_history = u.send_history /\ v.current_tick = u.current_tick
        /\ v.recv_queue = u.recv_queue /\ v.recv_id_min = u.recv_id_min
        /\ v.recv_id_max = u.recv_id_max
    <2>1. id + 1 \in Start[e] .. (Start[e] + MaxMsgs[e])
      BY <1>2
    <2> HIDE DEF v, u, id
    <2> QED BY <1>3, <1>6, <1>8, <2>1 DEF Object
  <1>10. Closed(v) /\ Own(v)
    <2>1. Closed(v)
      BY <1>1, <1>9 DEF Closed
    <2>2. id \in Nat
      BY <1>2
    <2>3. Own(v)
      BY <1>1, <1>7, <1>8, <1>9, <2>2 DEF Own
    <2> QED BY <2>1, <2>3
  <1>11. Shape'
    BY <1>3 DEF rudp_send, RudpInv, Shape
  <1>12. Ends'
    <2> SUFFICES ASSUME NEW f \in Endpoints
                 PROVE  /\ (U[f] \in Object(Sent(f), Sent(Peer(f)), f))'
                        /\ Closed(U'[f]) /\ Own(U'[f])
      BY DEF Ends, Closed, Own
    <2>1. CASE f = e
      BY <1>9, <1>10, <2>1 DEF T, R, Object
    <2>2. CASE f # e
      <3>1. U'[f] = U[f] /\ U[f] \in Object(Sent(f), Sent(Peer(f)), f) /\ Closed(U[f]) /\ Own(U[f])
        BY <1>3, <2>2 DEF RudpInv, Ends
      <3>2. U[f] \in Object(Sent(f)', Sent(Peer(f))', f)
        BY <1>5, <3>1, PeerFacts, ObjectMonotone
      <3> QED BY <3>1, <3>2 DEF Object
    <2> QED BY <2>1, <2>2
  <1>13. Wire'
    <2> SUFFICES ASSUME NEW f \in Endpoints, NEW p \in net'[f]
                 PROVE  p \in Seq(Entries(Sent(Peer(f))'))
      BY DEF Wire, Entries
    <2>1. p \in Seq(Entries(Sent(Peer(f)))) /\ Sent(Peer(f)) \subseteq Sent(Peer(f))'
      BY <1>5, PeerFacts DEF rudp_send, RudpInv, Wire
    <2> QED BY <2>1, EntriesMonotone
  <1>14. Given'
    <2> SUFFICES ASSUME NEW f \in Endpoints PROVE got'[f] \in Seq(Sent(Peer(f))')
      BY DEF Given
    <2>1. got'[f] \in Seq(Sent(Peer(f))) /\ Sent(Peer(f)) \subseteq Sent(Peer(f))'
      BY <1>5, PeerFacts DEF rudp_send, RudpInv, Given
    <2> QED BY <2>1, SeqMonotone
  <1>15. Ages'
    <2> SUFFICES ASSUME NEW f \in Endpoints
                 PROVE  /\ sentAt'[f] \in Seq(Nat) /\ Len(sentAt'[f]) = U'[f].send_id - Start[f]
                        /\ \A i \in DOMAIN sentAt'[f] : Held(U'[f], Start[f] + i - 1, sentAt'[f][i])
      BY DEF Ages, Held
    <2>1. /\ sentAt[f] \in Seq(Nat) /\ Len(sentAt[f]) = U[f].send_id - Start[f]
          /\ \A i \in DOMAIN sentAt[f] : Held(U[f], Start[f] + i - 1, sentAt[f][i])
      BY DEF RudpInv, Ages
    <2>2. CASE f # e
      <3>1. sentAt'[f] = sentAt[f] /\ U'[f] = U[f]
        BY <1>3, <2>2 DEF rudp_send, RudpInv, Shape
      <3> QED BY <2>1, <3>1
    <2>3. CASE f = e
      <3> DEFINE s == sentAt[e]
                 t == sentAt'[e]
      <3>1. s \in Seq(Nat) /\ Len(s) = id - Start[e] /\ t = Append(s, u.current_tick)
        BY <2>1, <2>3 DEF rudp_send, RudpInv, Shape
      <3>2. /\ t \in Seq(Nat) /\ Len(t) = Len(s) + 1 /\ DOMAIN t = DOMAIN s \union {Len(s) + 1}
            /\ t[Len(s) + 1] = u.current_tick /\ \A i \in DOMAIN s : t[i] = s[i]
        BY <1>2, <3>1, AppendFacts, AppendProperties
      <3>3. ASSUME NEW i \in DOMAIN s PROVE Held(v, Start[e] + i - 1, t[i])
        <4>1. Held(u, Start[e] + i - 1, t[i])
          BY <2>1, <2>3, <3>2
        <4> QED BY <1>8, <1>9, <4>1 DEF Held
      <3>4. Held(v, Start[e] + (Len(s) + 1) - 1, t[Len(s) + 1])
        <4>1. Start[e] + (Len(s) + 1) - 1 = id
          BY <1>2, <3>1
        <4> QED BY <1>7, <1>8, <1>9, <3>2, <4>1 DEF Held
      <3>5. Len(t) = (id + 1) - Start[e]
        BY <1>2, <3>1, <3>2
      <3> QED BY <1>4, <2>3, <3>2, <3>3, <3>4, <3>5
    <2> QED BY <2>2, <2>3
  <1> QED BY <1>11, <1>12, <1>13, <1>14, <1>15 DEF RudpInv

(* One end gets a new object, the other keeps its own, and nobody has sent   *)
(* anything new: what is left is the network and what was received.        *)
LEMMA NewObject ==
    ASSUME RudpInv, NEW e \in Endpoints, NEW v,
           v \in Object(Sent(e), Sent(Peer(e)), e), Closed(v), Own(v),
           v.send_id = U[e].send_id,
           \A id, t \in Int : Held(U[e], id, t) => Held(v, id, t),
           U' = [U EXCEPT ![e] = v], sentAt' = sentAt
    PROVE  /\ DOMAIN U' = Endpoints /\ DOMAIN sentAt' = Endpoints
           /\ \A f \in Endpoints : Sent(f)' = Sent(f)
           /\ Ends' /\ Ages'
  <1>1. /\ DOMAIN U' = Endpoints /\ DOMAIN sentAt' = Endpoints /\ U'[e] = v
        /\ \A f \in Endpoints : f # e => U'[f] = U[f]
    BY DEF RudpInv, Shape
  <1>2. \A f \in Endpoints : U'[f].send_id = U[f].send_id
    BY <1>1
  <1>3. \A f \in Endpoints : Sent(f)' = Sent(f)
    BY <1>2 DEF Sent
  <1>4. Ends'
    <2> SUFFICES ASSUME NEW f \in Endpoints
                 PROVE  /\ (U[f] \in Object(Sent(f), Sent(Peer(f)), f))'
                        /\ Closed(U'[f]) /\ Own(U'[f])
      BY DEF Ends, Closed, Own
    <2>1. U'[f] \in Object(Sent(f), Sent(Peer(f)), f) /\ Closed(U'[f]) /\ Own(U'[f])
      BY <1>1 DEF RudpInv, Ends
    <2> QED BY <1>3, <2>1, PeerFacts DEF Object
  <1>5. Ages'
    <2> SUFFICES ASSUME NEW f \in Endpoints
                 PROVE  /\ sentAt'[f] \in Seq(Nat) /\ Len(sentAt'[f]) = U'[f].send_id - Start[f]
                        /\ \A i \in DOMAIN sentAt'[f] : Held(U'[f], Start[f] + i - 1, sentAt'[f][i])
      BY DEF Ages, Held
    <2>1. /\ sentAt[f] \in Seq(Nat) /\ Len(sentAt[f]) = U[f].send_id - Start[f]
          /\ \A i \in DOMAIN sentAt[f] : Held(U[f], Start[f] + i - 1, sentAt[f][i])
      BY DEF RudpInv, Ages
    <2>2. \A i \in DOMAIN sentAt[f] : Start[f] + i - 1 \in Int /\ sentAt[f][i] \in Int
      BY <2>1, IntegerConstants, LenProperties, ElementOfSeq
    <2>3. \A i \in DOMAIN sentAt[f] : Held(U'[f], Start[f] + i - 1, sentAt[f][i])
      BY <1>1, <2>1, <2>2
    <2> QED BY <1>2, <2>1, <2>3
  <1> QED BY <1>1, <1>3, <1>4, <1>5

(* lupdate keeps it, whether it sends, only receives, or stops at the assertion. *)
LEMMA Lupdate ==
    ASSUME RudpInv, NEW e \in Endpoints, NEW p \in Seq(Entries(Sent(Peer(e)))),
           NEW tick \in Nat, lupdate(e, p, tick)
    PROVE  RudpInv'
  <1> DEFINE S == Sent(e)
             R == Sent(Peer(e))
             u == Updated(U[e], p, tick)
             w == SentOut(u)
  <1>1. U[e] \in Object(S, R, e) /\ Closed(U[e]) /\ Own(U[e]) /\ U[e].current_tick + tick <= MaxTick[e]
    BY DEF RudpInv, Ends, lupdate
  <1>2. /\ u \in Object(S, R, e) /\ Closed(u) /\ Own(u) /\ u.send_id = U[e].send_id
        /\ \A id, t \in Int : Held(U[e], id, t) => Held(u, id, t)
    BY <1>1, UpdatedFacts
  <1>3. Received(u) \in Seq(R)
    BY <1>2, ReceivedType
  <1>4. sentAt' = sentAt
    BY DEF lupdate
  <1>5. \/ /\ U' = [U EXCEPT ![e] = rudp_recv(u)]
           /\ got' = [got EXCEPT ![e] = @ \o Received(u)]
           /\ net' = net /\ aborted' = aborted
        \/ /\ AssertQueue(u)
           /\ net' = [net EXCEPT ![Peer(e)] = @ \union gen_outpackage(u)]
           /\ U' = [U EXCEPT ![e] = rudp_recv(w)]
           /\ got' = [got EXCEPT ![e] = @ \o Received(u)]
           /\ aborted' = aborted
        \/ /\ aborted' = aborted \union {e}
           /\ U' = U /\ net' = net /\ got' = got
    BY Zenon DEF lupdate
  <1> HIDE DEF u
  <1>6. ASSUME NEW x, x \in Object(S, R, e), Closed(x)
        PROVE  /\ rudp_recv(x) \in Object(S, R, e) /\ Closed(rudp_recv(x))
               /\ rudp_recv(x).send_id = x.send_id /\ (Own(x) => Own(rudp_recv(x)))
               /\ \A id, t : Held(x, id, t) => Held(rudp_recv(x), id, t)
    <2>1. /\ rudp_recv(x) \in Object(S, R, e) /\ Closed(rudp_recv(x))
          /\ SameSender(x, rudp_recv(x))
      BY <1>6, RecvFacts
    <2> QED BY <2>1 DEF SameSender, Held, Own
  <1>7. ASSUME got' = [got EXCEPT ![e] = @ \o Received(u)], \A f \in Endpoints : Sent(f)' = Sent(f)
        PROVE  Given' /\ DOMAIN got' = Endpoints
    <2>1. DOMAIN got' = Endpoints /\ got'[e] = got[e] \o Received(u)
          /\ \A f \in Endpoints : f # e => got'[f] = got[f]
      BY <1>7 DEF RudpInv, Shape
    <2>2. \A f \in Endpoints : got[f] \in Seq(Sent(Peer(f)))
      BY DEF RudpInv, Given
    <2>3. got[e] \o Received(u) \in Seq(R)
      BY <1>3, <2>2, ConcatProperties
    <2>4. \A f \in Endpoints : got'[f] \in Seq(Sent(Peer(f)))
      BY <2>1, <2>2, <2>3
    <2> QED BY <1>7, <2>1, <2>4, PeerFacts DEF Given
  <1>8. CASE /\ U' = [U EXCEPT ![e] = rudp_recv(u)]
             /\ got' = [got EXCEPT ![e] = @ \o Received(u)]
             /\ net' = net /\ aborted' = aborted
    <2> DEFINE v == rudp_recv(u)
    <2>1. /\ v \in Object(S, R, e) /\ Closed(v) /\ Own(v) /\ v.send_id = U[e].send_id
          /\ \A id, t \in Int : Held(U[e], id, t) => Held(v, id, t)
      BY <1>2, <1>6
    <2> HIDE DEF v
    <2>2. /\ DOMAIN U' = Endpoints /\ DOMAIN sentAt' = Endpoints
          /\ \A f \in Endpoints : Sent(f)' = Sent(f)
          /\ Ends' /\ Ages'
      BY <1>4, <1>8, <2>1, NewObject DEF v
    <2>3. Given' /\ DOMAIN got' = Endpoints
      BY <1>7, <1>8, <2>2
    <2>4. Shape'
      BY <1>8, <2>2, <2>3 DEF RudpInv, Shape
    <2>5. Wire'
      BY <1>8, <2>2, PeerFacts DEF RudpInv, Wire, Entries
    <2> QED BY <2>2, <2>3, <2>4, <2>5 DEF RudpInv
  <1>9. CASE /\ AssertQueue(u)
              /\ net' = [net EXCEPT ![Peer(e)] = @ \union gen_outpackage(u)]
              /\ U' = [U EXCEPT ![e] = rudp_recv(w)]
              /\ got' = [got EXCEPT ![e] = @ \o Received(u)]
              /\ aborted' = aborted
    <2> DEFINE v == rudp_recv(w)
    <2>1. /\ w \in Object(S, R, e) /\ Closed(w) /\ Own(w) /\ w.send_id = u.send_id
          /\ \A id, t : Held(u, id, t) => Held(w, id, t)
      BY <1>2, SentOutFacts
    <2> HIDE DEF w
    <2>2. /\ v \in Object(S, R, e) /\ Closed(v) /\ Own(v) /\ v.send_id = U[e].send_id
          /\ \A id, t \in Int : Held(U[e], id, t) => Held(v, id, t)
      BY <1>2, <1>6, <2>1
    <2> HIDE DEF v
    <2>3. /\ DOMAIN U' = Endpoints /\ DOMAIN sentAt' = Endpoints
          /\ \A f \in Endpoints : Sent(f)' = Sent(f)
          /\ Ends' /\ Ages'
      BY <1>4, <1>9, <2>2, NewObject DEF v
    <2>4. Given' /\ DOMAIN got' = Endpoints
      BY <1>7, <1>9, <2>3
    <2>5. DOMAIN net' = Endpoints
      BY <1>9 DEF RudpInv, Shape
    <2>6. Shape'
      BY <1>9, <2>3, <2>4, <2>5 DEF RudpInv, Shape
    <2>7. Wire'
      <3> SUFFICES ASSUME NEW f \in Endpoints, NEW x \in net'[f]
                   PROVE  x \in Seq(Entries(Sent(Peer(f))))
        BY <2>3, PeerFacts DEF Wire, Entries
      <3>1. CASE x \in net[f]
        BY <3>1 DEF RudpInv, Wire
      <3>2. CASE x \notin net[f]
        <4>1. f = Peer(e) /\ x \in gen_outpackage(u)
          BY <1>9, <3>2, PeerFacts DEF RudpInv, Shape
        <4>2. x \in Seq(Entries(S))
          BY <1>2, <1>9, <4>1, OutType
        <4> QED BY <4>1, <4>2, PeerFacts
      <3> QED BY <3>1, <3>2
    <2> QED BY <2>3, <2>4, <2>6, <2>7 DEF RudpInv
  <1>10. CASE aborted' = aborted \union {e} /\ U' = U /\ net' = net /\ got' = got
    <2>1. Shape'
      BY <1>4, <1>10 DEF RudpInv, Shape
    <2>2. Ends' /\ Wire' /\ Given' /\ Ages'
      BY <1>4, <1>10 DEF RudpInv, Ends, Wire, Given, Ages, Sent, Object, Entries, Held, Closed, Own
    <2> QED BY <2>1, <2>2 DEF RudpInv
  <1> QED BY <1>5, <1>8, <1>9, <1>10

LEMMA RudpStep ==
    RudpInv /\ [Next]_vars => RudpInv'
  <1> SUFFICES ASSUME RudpInv, [Next]_vars PROVE RudpInv'
    OBVIOUS
  <1>1. CASE UNCHANGED vars
    BY <1>1 DEF vars, RudpInv, Shape, Ends, Wire, Given, Ages, Sent, Object, Entries, Held, Closed, Own
  <1>2. ASSUME NEW e \in Endpoints, rudp_send(e) PROVE RudpInv'
    BY <1>2, RudpSend
  <1>3. ASSUME NEW e \in Endpoints, Frame(e) PROVE RudpInv'
    <2>1. <<>> \in Seq(Entries(Sent(Peer(e)))) /\ 1 \in Nat
      BY EmptySeq
    <2> QED BY <1>3, <2>1, Lupdate DEF Frame
  <1>4. ASSUME NEW e \in Endpoints, Deliver(e) PROVE RudpInv'
    <2>1. PICK p \in net[e] : \E q \in Arrivals(e, p) : lupdate(e, q, 0)
      BY <1>4 DEF Deliver
    <2>2. PICK q \in Arrivals(e, p) : lupdate(e, q, 0)
      BY <2>1
    <2>3. p \in Seq(Entries(Sent(Peer(e))))
      BY <2>1 DEF RudpInv, Wire
    <2>4. q \in Seq(Entries(Sent(Peer(e)))) /\ 0 \in Nat
      BY <2>2, <2>3, ArrivalType
    <2> QED BY <2>2, <2>4, Lupdate
  <1> QED BY <1>1, <1>2, <1>3, <1>4 DEF Next

(* The inductive invariant: every queue, package and delivery holds only     *)
(* messages that were sent, queues are closed by recv_id_max, an end's own  *)
(* messages carry their numbers, and each is held or expired.              *)
THEOREM RudpInductive == Spec => []RudpInv
  BY RudpInit, RudpStep, PTL DEF Spec

(* Every field of both rudp objects keeps its type, and the recv callback is *)
(* only given user messages, never the marker of a MISSING one, although     *)
(* packages are lost, repeated, reordered and cut (extract_package,        *)
(* insert_message, rudp_recv).                                             *)
THEOREM RudpTypes == Spec => []TypeOK
  <1>1. RudpInv => TypeOK
    <2> SUFFICES ASSUME RudpInv PROVE TypeOK
      OBVIOUS
    <2>1. ASSUME NEW e \in Endpoints
          PROVE  U[e] \in Objects(e) /\ got[e] \in Seq(Ids(Peer(e)))
      <3>1. Sent(e) \subseteq Ids(e) /\ Sent(Peer(e)) \subseteq Ids(Peer(e))
        BY PeerFacts, SentIds
      <3>2. U[e] \in Object(Ids(e), Ids(Peer(e)), e)
        BY <3>1, ObjectMonotone DEF RudpInv, Ends
      <3>3. got[e] \in Seq(Ids(Peer(e)))
        BY <3>1, SeqMonotone DEF RudpInv, Given
      <3> QED BY <3>2, <3>3 DEF Object, Objects
    <2> QED BY <2>1 DEF TypeOK, RudpInv, Shape
  <1> QED BY <1>1, RudpInductive, PTL

(* The queue of a receiver ascends and recv_id_max is its last id, or the one *)
(* before recv_id_min when it is empty, after any sequence of packages: what *)
(* insert_message relies on when it appends.                               *)
THEOREM RudpQueueClosed == Spec => []QueueClosed
  <1>1. RudpInv => QueueClosed
    BY DEF RudpInv, Ends, QueueClosed, Closed
  <1> QED BY <1>1, RudpInductive, PTL

(* A message handed to rudp_send stays in send_queue or send_history for at  *)
(* least Expired ticks, for every expired_time and send_delay (rudp_update, *)
(* clear_send_expired).                                                    *)
THEOREM RudpRetained == Spec => []Retained
  <1>1. RudpInv => Retained
    <2> SUFFICES ASSUME RudpInv, NEW e \in Endpoints, NEW i \in DOMAIN sentAt[e]
                 PROVE  \/ sentAt[e][i] + Expired < U[e].current_tick
                        \/ \E m \in Range(U[e].send_queue) \union Range(U[e].send_history) :
                             m.id = Start[e] + i - 1
      BY DEF Retained
    <2>1. Held(U[e], Start[e] + i - 1, sentAt[e][i])
      BY DEF RudpInv, Ages
    <2> QED BY <2>1 DEF Held
  <1> QED BY <1>1, RudpInductive, PTL

-----------------------------------------------------------------------------
(* Numbers on the wire *)

LEMMA DivMod ==
    ASSUME NEW n \in Int
    PROVE  /\ n \div WireIds \in Int /\ n % WireIds \in 0..(WireIds - 1)
           /\ n = (n \div WireIds) * WireIds + (n % WireIds)
  <1>1. WireIds \in Int /\ WireIds > 0
    BY RudpAssumption
  <1> QED BY <1>1

LEMMA Multiples ==
    ASSUME NEW z \in Int, NEW W \in Nat \ {0}
    PROVE  /\ z * W \in Int
           /\ z >= 2 => z * W >= 2 * W
           /\ z <= -2 => z * W <= -2 * W
           /\ z >= 1 => z * W >= W
           /\ z <= -1 => z * W <= -W
           /\ z = 1 => z * W = W
           /\ z = -1 => z * W = -W
           /\ z = 0 => z * W = 0
  OBVIOUS

LEMMA Distribute ==
    ASSUME NEW c \in Int, NEW d \in Int, NEW W \in Int
    PROVE  (c - d) * W = c * W - d * W
  OBVIOUS

LEMMA HalfFacts ==
    Half \in Int /\ WireIds \in Nat \ {0} /\ WireIds = 2 * Half
  <1>1. WireIds \in Nat \ {0} /\ WireIds % 2 = 0
    BY RudpAssumption
  <1> QED BY <1>1 DEF Half

LEMMA GetIdCases ==
    ASSUME NEW u, u.recv_id_max \in Nat, NEW w \in 0..(WireIds - 1)
    PROVE  \E k \in Int :
             /\ get_id(u, w) = k * WireIds + w
             /\ LET id == (u.recv_id_max \div WireIds) * WireIds + w
                IN  get_id(u, w) = CASE id < u.recv_id_max - Half -> id + WireIds
                                     [] id > u.recv_id_max + Half -> id - WireIds
                                     [] OTHER -> id
  <1> DEFINE a == u.recv_id_max \div WireIds
             id == a * WireIds + w
             g == get_id(u, w)
  <1>1. a \in Int /\ WireIds \in Nat \ {0} /\ Half \in Int /\ w \in Int
    <2>1. WireIds \in Nat \ {0} /\ Half \in Int /\ w \in Int /\ u.recv_id_max \in Int
      BY HalfFacts
    <2>2. a \in Int
      BY <2>1, DivMod, Zenon
    <2> QED BY <2>1, <2>2, Zenon
  <1>2. g = CASE id < u.recv_id_max - Half -> id + WireIds
              [] id > u.recv_id_max + Half -> id - WireIds
              [] OTHER -> id
    BY Zenon DEF get_id
  <1> HIDE DEF g, a
  <1>3. /\ a + 1 \in Int /\ a - 1 \in Int
        /\ id + WireIds = (a + 1) * WireIds + w /\ id - WireIds = (a - 1) * WireIds + w
    BY <1>1
  <1> DEFINE B == id + WireIds
             C == id - WireIds
             P == id < u.recv_id_max - Half
             Q == id > u.recv_id_max + Half
  <1>4. g = CASE P -> B [] Q -> C [] OTHER -> id
    BY <1>2, Zenon
  <1>5. \E k \in Int : g = k * WireIds + w
    <2> HIDE DEF B, C, P, Q, id
    <2>1. g = B \/ g = C \/ g = id
      BY <1>4
    <2> QED BY <1>1, <1>3, <2>1 DEF B, C, id
  <1> QED BY <1>2, <1>5 DEF g, a

(* get_id keeps the low bits. *)
LEMMA GetIdLow ==
    ASSUME NEW u, u.recv_id_max \in Nat, NEW w \in 0..(WireIds - 1)
    PROVE  get_id(u, w) \in Int /\ get_id(u, w) % WireIds = w
  <1> DEFINE W == WireIds
             n == get_id(u, w)
             q == n \div W
             r == n % W
  <1>1. PICK k \in Int : n = k * W + w
    BY GetIdCases
  <1>2. W \in Nat \ {0} /\ w \in Int /\ w >= 0 /\ w < W
    BY HalfFacts
  <1>3. n \in Int
    BY <1>1, <1>2
  <1> HIDE DEF n
  <1>4. q \in Int /\ r \in Int /\ r >= 0 /\ r < W /\ n = q * W + r
    BY <1>2, <1>3, DivMod
  <1> HIDE DEF q, r
  <1> DEFINE z == k - q
  <1>5. z \in Int /\ z * W = k * W - q * W
    BY <1>2, <1>4, Distribute
  <1> HIDE DEF z
  <1>6. k * W \in Int /\ q * W \in Int
    BY <1>2, <1>4, Multiples
  <1>7. z * W = r - w
    BY <1>1, <1>2, <1>4, <1>5, <1>6
  <1>8. ~(z >= 1) /\ ~(z <= -1)
    <2>1. z >= 1 => z * W >= W
      BY <1>2, <1>5, Multiples
    <2>2. z <= -1 => z * W <= -W
      BY <1>2, <1>5, Multiples
    <2> QED BY <1>2, <1>4, <1>7, <2>1, <2>2
  <1>9. z * W = 0
    <2>1. z = 0
      BY <1>5, <1>8
    <2> QED BY <1>2, <2>1, Multiples
  <1>10. r = w
    BY <1>2, <1>4, <1>7, <1>9
  <1> QED BY <1>3, <1>10 DEF r, n

(* get_id finds a number that lies less than Half from recv_id_max. *)
LEMMA GetIdExact ==
    ASSUME NEW u, u.recv_id_max \in Nat, NEW d \in Int,
           u.recv_id_max - Half < d, d < u.recv_id_max + Half
    PROVE  get_id(u, d % WireIds) = d
  <1> DEFINE W == WireIds
             m == u.recv_id_max
             w == d % W
             a == m \div W
             b == m % W
             c == d \div W
             z == c - a
             id == a * W + w
             g == get_id(u, w)
  <1>1. W \in Nat \ {0} /\ Half \in Int /\ W = 2 * Half
    BY HalfFacts
  <1>2. /\ a \in Int /\ b \in Int /\ b >= 0 /\ b < W /\ m = a * W + b
        /\ c \in Int /\ w \in Int /\ w >= 0 /\ w < W /\ d = c * W + w
        /\ w \in 0..(W - 1) /\ m \in Int
    <2>1. m \in Int
      OBVIOUS
    <2>2. a \in Int /\ b \in 0..(W - 1) /\ m = a * W + b
      BY <2>1, DivMod, Zenon
    <2>3. c \in Int /\ w \in 0..(W - 1) /\ d = c * W + w
      BY DivMod, Zenon
    <2> HIDE DEF W, m, w, a, b, c
    <2>4. \A x \in 0..(W - 1) : x \in Int /\ x >= 0 /\ x < W
      BY <1>1
    <2> QED BY <2>1, <2>2, <2>3, <2>4, Zenon
  <1>3. g = CASE id < m - Half -> id + W [] id > m + Half -> id - W [] OTHER -> id
    BY <1>2, GetIdCases
  <1> HIDE DEF W, m, w, a, b, c, g
  <1>4. z \in Int /\ z * W = c * W - a * W /\ a * W \in Int /\ c * W \in Int
    BY <1>1, <1>2, Distribute, Multiples
  <1> HIDE DEF z
  <1>5. d = id + z * W /\ id \in Int
    BY <1>1, <1>2, <1>4
  <1>6. m - W < id /\ id < m + W
    BY <1>1, <1>2, <1>4
  <1> HIDE DEF id
  <1>7. m - Half < d /\ d < m + Half
    BY DEF m
  <1>8. /\ z >= 2 => z * W >= 2 * W
        /\ z <= -2 => z * W <= -2 * W
        /\ z = 1 => z * W = W
        /\ z = -1 => z * W = -W
        /\ z = 0 => z * W = 0
        /\ z * W \in Int
    BY <1>1, <1>4, Multiples
  <1>9. ~(z >= 2) /\ ~(z <= -2)
    BY <1>1, <1>2, <1>5, <1>6, <1>7, <1>8
  <1>10. z = 0 \/ z = 1 \/ z = -1
    BY <1>4, <1>9
  <1>11. CASE z = 0
    <2>1. d = id /\ ~(id < m - Half) /\ ~(id > m + Half)
      BY <1>1, <1>2, <1>5, <1>7, <1>8, <1>11
    <2> QED BY <1>3, <2>1 DEF g, w, W
  <1>12. CASE z = 1
    <2>1. d = id + W /\ id < m - Half
      BY <1>1, <1>2, <1>5, <1>7, <1>8, <1>12
    <2>2. ~(id > m + Half)
      BY <1>1, <1>2, <1>5, <2>1
    <2> QED BY <1>3, <2>1, <2>2 DEF g, w, W
  <1>13. CASE z = -1
    <2>1. d = id - W /\ id > m + Half
      BY <1>1, <1>2, <1>5, <1>7, <1>8, <1>13
    <2>2. ~(id < m - Half)
      BY <1>1, <1>2, <1>5, <2>1
    <2> QED BY <1>3, <2>1, <2>2 DEF g, w, W
  <1> QED BY <1>10, <1>11, <1>12, <1>13

-----------------------------------------------------------------------------
(* Delivery *)

(* The numbers an end may pass without a call of the callback. *)
Excused(e) ==
  {id \in Int : \/ \E p \in net[e] : Entry("MISSING", id, Missing) \in Range(p)
                \/ MsgSize[id] = 0}

(* The number of every message of package p is less than Half from the     *)
(* recv_id_max it meets at u, near enough to be told from its low bits.    *)
Near(u, p) ==
  \A i \in DOMAIN p :
    LET max == Extracted(u, p)[i - 1].recv_id_max
    IN  p[i].type = "NORMAL" => max - Half < p[i].data /\ p[i].data < max + Half

(* get_id is only asked for numbers it can tell: so it is for every package *)
(* that may still arrive, the oldest too, whole or cut.                    *)
Window ==
  \A e \in Endpoints : \A p \in net[e] : \A q \in Arrivals(e, p) : Near(U[e], q)

(* A queued message has its sender's number, or the sender said its number is *)
(* missing.                                                                *)
Named(u, M) ==
  \A m \in Range(u.recv_queue) : m.data = m.id \/ (m.data = Missing /\ m.id \in M)

LEMMA InsertRange ==
    ASSUME NEW S, NEW s \in Seq(S), NEW i \in DOMAIN s, NEW x \in S
    PROVE  \A y \in Range(InsertAt(s, i, x)) : y \in Range(s) \/ y = x
  <1> DEFINE r == InsertAt(s, i, x)
  <1>1. Len(s) \in Nat /\ DOMAIN s = 1..Len(s) /\ i \in 1..Len(s)
    BY LenProperties
  <1>2. /\ DOMAIN r = 1..(Len(s) + 1)
        /\ \A j \in 1..(i - 1) : r[j] = s[j]
        /\ r[i] = x
        /\ \A j \in (i + 1)..(Len(s) + 1) : r[j] = s[j - 1]
    BY InsertFacts
  <1> HIDE DEF r
  <1>3. ASSUME NEW j \in DOMAIN r PROVE r[j] \in Range(s) \/ r[j] = x
    <2>1. CASE j < i
      <3>1. j \in 1..(i - 1) /\ j \in DOMAIN s
        BY <1>1, <1>2, <2>1
      <3> QED BY <1>2, <3>1 DEF Range
    <2>2. CASE j = i
      BY <1>2, <2>2
    <2>3. CASE j > i
      <3>1. j \in (i + 1)..(Len(s) + 1) /\ j - 1 \in DOMAIN s
        BY <1>1, <1>2, <2>3
      <3> QED BY <1>2, <3>1 DEF Range
    <2> QED BY <1>1, <1>2, <2>1, <2>2, <2>3
  <1> QED BY <1>3 DEF Range, r

LEMMA InsertNamed ==
    ASSUME NEW S, NEW R, NEW e, NEW u \in Object(S, R, e), NEW M, Named(u, M),
           NEW id \in Int, NEW data \in R \union {Missing},
           data = id \/ (data = Missing /\ id \in M)
    PROVE  /\ Named(insert_message(u, id, data), M)
           /\ insert_message(u, id, data).recv_id_min = u.recv_id_min
  <1> DEFINE q == u.recv_queue
             m == Message(id, data, 0)
             larger == {i \in DOMAIN q : q[i].id > id}
             A == [u EXCEPT !.recv_queue = Append(q, m), !.recv_id_max = id]
             B == [u EXCEPT !.recv_queue = InsertAt(q, First(larger), m)]
             Good(v) == Named(v, M) /\ v.recv_id_min = u.recv_id_min
  <1>1. q \in Seq(Messages(R))
    BY DEF Object
  <1>2. m \in Messages(R) /\ m.id = id /\ m.data = data
    BY DEF Message, Messages
  <1>3. Good(u)
    OBVIOUS
  <1>4. Good(A)
    <2>1. A.recv_queue = Append(q, m) /\ A.recv_id_min = u.recv_id_min
      BY DEF Object
    <2>2. Range(Append(q, m)) = Range(q) \union {m}
      BY <1>1, <1>2, AppendRange
    <2> HIDE DEF A, m
    <2> QED BY <1>2, <2>1, <2>2 DEF Named
  <1>5. ASSUME larger # {} PROVE Good(B)
    <2>1. B.recv_queue = InsertAt(q, First(larger), m) /\ B.recv_id_min = u.recv_id_min
      BY DEF Object
    <2>2. First(larger) \in DOMAIN q
      <3>1. larger \in SUBSET Nat /\ larger \subseteq DOMAIN q
        BY <1>1, LenProperties
      <3> HIDE DEF larger
      <3> QED BY <1>5, <3>1, FirstFacts
    <2> HIDE DEF B, m, larger
    <2>3. \A y \in Range(B.recv_queue) : y \in Range(q) \/ y = m
      BY <1>1, <1>2, <2>1, <2>2, InsertRange
    <2> QED BY <1>2, <2>1, <2>3 DEF Named
  <1>6. insert_message(u, id, data) =
          CASE id < u.recv_id_min -> u
            [] id >= u.recv_id_min /\ (id > u.recv_id_max \/ q = <<>>) -> A
            [] OTHER -> IF larger = {} THEN u ELSE B
    BY Zenon DEF insert_message
  <1> HIDE DEF larger, A, B
  <1>7. Good(insert_message(u, id, data))
    <2> HIDE DEF Good
    <2> QED BY <1>3, <1>4, <1>5, <1>6
  <1> QED BY <1>7

LEMMA ExtractNamed ==
    ASSUME NEW S, NEW R, NEW e, NEW u \in Object(S, R, e), NEW M, Named(u, M),
           NEW x \in Entries(R),
           x.type = "NORMAL" => u.recv_id_max - Half < x.data /\ x.data < u.recv_id_max + Half,
           x.type = "MISSING" => \A id \in Int : id % WireIds = x.id => id \in M
    PROVE  /\ Named(ExtractEntry(u, x), M)
           /\ ExtractEntry(u, x).recv_id_min = u.recv_id_min
  <1> DEFINE Good(v) == Named(v, M) /\ v.recv_id_min = u.recv_id_min
             id == get_id(u, x.id)
             A == [u EXCEPT !.send_again = <<u.recv_id_min>>]
             B == [u EXCEPT !.corrupt = TRUE]
             C == [u EXCEPT !.send_again = array_insert(@, id)]
             D == insert_message(u, id, x.data)
  <1>1. /\ u.recv_id_max \in Nat /\ x.id \in 0..(WireIds - 1) /\ x.data \in R \union {Missing}
        /\ x.type \in Types
        /\ x.type = "NORMAL" => x.data \in Nat /\ x.id = x.data % WireIds
        /\ x.type = "MISSING" => x.data = Missing
    BY DEF Object, Entries
  <1>2. id \in Int /\ id % WireIds = x.id
    BY <1>1, GetIdLow
  <1>3. Good(u) /\ Good(A) /\ Good(B) /\ Good(C)
    BY DEF Named, Object
  <1>4. ASSUME x.type = "NORMAL" \/ x.type = "MISSING" PROVE Good(D)
    <2>1. x.type = "NORMAL" => x.data = id
      BY <1>1, GetIdExact
    <2>2. x.type = "MISSING" => x.data = Missing /\ id \in M
      BY <1>1, <1>2
    <2>3. x.data = id \/ (x.data = Missing /\ id \in M)
      BY <1>4, <2>1, <2>2
    <2> HIDE DEF id
    <2> QED BY <1>1, <1>2, <2>3, InsertNamed
  <1>5. ExtractEntry(u, x) =
          CASE u.corrupt -> u
            [] ~u.corrupt /\ x.type = "IGNORE" -> IF u.send_again = <<>> THEN A ELSE u
            [] ~u.corrupt /\ x.type = "CORRUPT" -> B
            [] ~u.corrupt /\ x.type = "REQUEST" -> C
            [] OTHER -> D
    BY Zenon DEF ExtractEntry
  <1> HIDE DEF A, B, C, D, Good
  <1>6. Good(ExtractEntry(u, x))
    <2>1. CASE x.type = "NORMAL" \/ x.type = "MISSING"
      BY <1>3, <1>4, <1>5, <2>1
    <2>2. CASE ~(x.type = "NORMAL" \/ x.type = "MISSING")
      <3>1. u.corrupt \/ (~u.corrupt /\ x.type \in {"IGNORE", "CORRUPT", "REQUEST"})
        BY <1>1, <2>2 DEF Types
      <3> QED BY <1>3, <1>5, <3>1
    <2> QED BY <2>1, <2>2
  <1> QED BY <1>6 DEF Good

LEMMA PackageNamed ==
    ASSUME NEW S, NEW R, NEW e, NEW u \in Object(S, R, e), Closed(u), NEW M, Named(u, M),
           NEW p \in Seq(Entries(R)), Near(u, p),
           \A x \in Range(p) : x.type = "MISSING" => \A id \in Int : id % WireIds = x.id => id \in M
    PROVE  /\ Named(extract_package(u, p), M)
           /\ extract_package(u, p).recv_id_min = u.recv_id_min
  <1> DEFINE g == Extracted(u, p)
             Good(v) == /\ v \in Object(S, R, e) /\ Closed(v)
                        /\ Named(v, M) /\ v.recv_id_min = u.recv_id_min
             V == {i \in Nat : i <= Len(p) => Good(g[i])}
  <1>1. Len(p) \in Nat /\ DOMAIN p = 1..Len(p) /\ \A i \in 1..Len(p) : p[i] \in Entries(R)
    BY LenProperties, ElementOfSeq
  <1>2. g[0] = u /\ \A i \in 1..Len(p) : g[i] = ExtractEntry(g[i - 1], p[i])
    BY ExtractedFacts
  <1>3. \A i \in 1..Len(p) : p[i].type = "NORMAL" =>
           g[i - 1].recv_id_max - Half < p[i].data /\ p[i].data < g[i - 1].recv_id_max + Half
    BY <1>1 DEF Near
  <1> HIDE DEF g
  <1>4. 0 \in V
    BY <1>2
  <1>5. ASSUME NEW i \in 0..(Len(p) - 1), i \in V PROVE i + 1 \in V
    <2>1. i + 1 \in 1..Len(p) /\ i + 1 - 1 = i /\ i <= Len(p) /\ i + 1 \in Nat
      BY <1>1
    <2> DEFINE v == g[i]
               x == p[i + 1]
    <2>2. Good(v) /\ x \in Entries(R) /\ g[i + 1] = ExtractEntry(v, x)
      BY <1>1, <1>2, <1>5, <2>1
    <2>3. x.type = "NORMAL" => v.recv_id_max - Half < x.data /\ x.data < v.recv_id_max + Half
      BY <1>3, <2>1
    <2>4. x.type = "MISSING" => \A id \in Int : id % WireIds = x.id => id \in M
      BY <1>1, <2>1 DEF Range
    <2> HIDE DEF v, x
    <2>5. Named(ExtractEntry(v, x), M) /\ ExtractEntry(v, x).recv_id_min = v.recv_id_min
      BY <2>2, <2>3, <2>4, ExtractNamed
    <2>6. ExtractEntry(v, x) \in Object(S, R, e) /\ Closed(ExtractEntry(v, x))
      BY <2>2, ExtractOne
    <2> QED BY <2>1, <2>2, <2>5, <2>6
  <1>6. \A i \in 0..Len(p) : i \in V
    <2> HIDE DEF V
    <2> QED BY <1>1, <1>4, <1>5, SetInduction
  <1>7. Good(g[Len(p)])
    BY <1>1, <1>6
  <1> QED BY <1>7 DEF g, extract_package

(* What the recv callback is given has the ids from recv_id_min on, and an id *)
(* it is not given was said to be missing or is an empty message's.        *)
LEMMA ReceivedIds ==
    ASSUME NEW S, NEW R, NEW e, NEW u \in Object(S, R, e), NEW M, Named(u, M),
           \A id \in Int : MsgSize[id] = 0 => id \in M
    PROVE  /\ Receivable(u) \in Nat /\ Len(Received(u)) \in Nat
           /\ Len(Received(u)) <= Receivable(u)
           /\ DOMAIN Received(u) = 1..Len(Received(u))
           /\ \A i \in 1..Len(Received(u)) : Received(u)[i] = u.recv_id_min + i - 1
           /\ \A i \in 1..Receivable(u) : i \in 1..Len(Received(u)) \/ u.recv_id_min + i - 1 \in M
  <1> DEFINE q == u.recv_queue
             k == Receivable(u)
             given == IF k > 0 /\ Silent(q[k].data) THEN k - 1 ELSE k
  <1>1. q \in Seq(Messages(R)) /\ u.recv_id_min \in Nat
    BY DEF Object
  <1>2. /\ k \in 0..Len(q)
        /\ \A i \in 1..k : q[i].id = u.recv_id_min + i - 1
        /\ \A i \in 1..(k - 1) : ~Silent(q[i].data)
    BY <1>1, ReceivableFacts
  <1>3. Received(u) = [i \in 1..given |-> q[i].data]
    BY DEF Received
  <1>4. Len(q) \in Nat /\ DOMAIN q = 1..Len(q)
    BY <1>1, LenProperties
  <1>5. \A i \in 1..Len(q) : q[i].data = q[i].id \/ (q[i].data = Missing /\ q[i].id \in M)
    BY <1>4 DEF Named, Range
  <1> HIDE DEF k, q
  <1>6. k \in Nat /\ given \in Nat /\ given <= k
    BY <1>2, <1>4
  <1>7. Len(Received(u)) = given /\ DOMAIN Received(u) = 1..given
    <2>1. [i \in 1..given |-> q[i].data] \in Seq({q[i].data : i \in 1..given})
      <3> HIDE DEF given
      <3>1. [i \in 1..given |-> q[i].data] \in [1..given -> {q[i].data : i \in 1..given}]
        OBVIOUS
      <3> QED BY <1>6, <3>1, SeqDef
    <2> HIDE DEF given
    <2>2. DOMAIN [i \in 1..given |-> q[i].data] = 1..given
      OBVIOUS
    <2>3. Len([i \in 1..given |-> q[i].data]) = given
      BY <1>6, <2>1, <2>2, LenProperties
    <2> QED BY <1>3, <2>2, <2>3
  <1>8. \A i \in 1..given : i \in 1..k /\ i \in 1..Len(q) /\ q[i].data # Missing
    <2>1. CASE k > 0 /\ Silent(q[k].data)
      <3>1. given = k - 1 /\ \A i \in 1..given : i \in 1..(k - 1) /\ i \in 1..k /\ i \in 1..Len(q)
        BY <1>2, <1>4, <2>1
      <3> HIDE DEF given
      <3> QED BY <1>2, <3>1 DEF Silent
    <2>2. CASE ~(k > 0 /\ Silent(q[k].data))
      <3>1. given = k
        BY <2>2
      <3>2. \A i \in 1..k : i \in 1..Len(q) /\ (i \in 1..(k - 1) \/ (i = k /\ k > 0))
        BY <1>2, <1>4
      <3> HIDE DEF given
      <3> QED BY <1>2, <2>2, <3>1, <3>2 DEF Silent
    <2> QED BY <2>1, <2>2
  <1>9. \A i \in 1..given : q[i].data = u.recv_id_min + i - 1
    <2> HIDE DEF given
    <2> QED BY <1>2, <1>5, <1>8
  <1>10. ASSUME NEW i \in 1..k PROVE i \in 1..given \/ u.recv_id_min + i - 1 \in M
    <2>1. CASE i \in 1..given
      BY <2>1
    <2>2. CASE i \notin 1..given
      <3>1. i = k /\ k > 0 /\ Silent(q[k].data)
        BY <1>2, <1>4, <2>2
      <3>2. q[k].id \in Nat /\ q[k].id = u.recv_id_min + k - 1 /\ k \in 1..Len(q)
        BY <1>1, <1>2, <1>4, <1>6, <3>1
      <3>3. CASE q[k].data = Missing
        <4>1. q[k].data # q[k].id
          BY <3>2, <3>3 DEF Missing
        <4> QED BY <1>5, <3>1, <3>2, <4>1
      <3>4. CASE q[k].data # Missing
        <4>1. MsgSize[q[k].id] = 0 /\ q[k].id \in Int
          BY <1>5, <3>1, <3>2, <3>4 DEF Silent
        <4> QED BY <3>1, <3>2, <4>1
      <3> QED BY <3>3, <3>4
    <2> QED BY <2>1, <2>2
  <1>11. \A i \in 1..given : Received(u)[i] = u.recv_id_min + i - 1
    <2> HIDE DEF given
    <2> QED BY <1>3, <1>9
  <1> HIDE DEF given
  <1> QED BY <1>6, <1>7, <1>10, <1>11 DEF k

(* What an end has been given: in order, below recv_id_min, nothing left out. *)
Delivered(g, min, first, M) ==
  /\ \A i \in DOMAIN g : g[i] < min
  /\ \A i, j \in DOMAIN g : i < j => g[i] < g[j]
  /\ \A id \in first..(min - 1) : id \in Range(g) \/ id \in M

LEMMA ReceiveInOrder ==
    ASSUME NEW S, NEW R \in SUBSET Int, NEW e, NEW u \in Object(S, R, e), NEW M, Named(u, M),
           NEW first \in Nat, NEW g \in Seq(R), Delivered(g, u.recv_id_min, first, M),
           \A id \in Int : MsgSize[id] = 0 => id \in M
    PROVE  Delivered(g \o Received(u), u.recv_id_min + Receivable(u), first, M)
  <1> DEFINE min == u.recv_id_min
             k == Receivable(u)
             t == Received(u)
             r == g \o t
  <1>1. min \in Nat
    BY DEF Object
  <1>2. /\ k \in Nat /\ Len(t) \in Nat /\ Len(t) <= k /\ DOMAIN t = 1..Len(t)
        /\ \A i \in 1..Len(t) : t[i] = min + i - 1
        /\ \A i \in 1..k : i \in 1..Len(t) \/ min + i - 1 \in M
    BY ReceivedIds
  <1>3. t \in Seq(R)
    BY ReceivedType
  <1> HIDE DEF min, k, t
  <1>4. Len(g) \in Nat /\ DOMAIN g = 1..Len(g) /\ \A i \in 1..Len(g) : g[i] \in Int
    BY LenProperties, ElementOfSeq
  <1>5. /\ r \in Seq(R) /\ Len(r) = Len(g) + Len(t)
        /\ \A i \in 1..(Len(g) + Len(t)) : r[i] = IF i <= Len(g) THEN g[i] ELSE t[i - Len(g)]
    BY <1>3, ConcatProperties
  <1>6. Range(r) = Range(g) \union Range(t)
    BY <1>3, ConcatRange
  <1> HIDE DEF r
  <1>7. DOMAIN r = 1..(Len(g) + Len(t))
    BY <1>5, LenProperties
  <1>8. /\ \A i \in DOMAIN g : g[i] < min
        /\ \A i, j \in DOMAIN g : i < j => g[i] < g[j]
        /\ \A id \in first..(min - 1) : id \in Range(g) \/ id \in M
    BY DEF Delivered, min
  <1>9. ASSUME NEW i \in DOMAIN r
        PROVE  \/ i \in DOMAIN g /\ r[i] = g[i] /\ r[i] \in Int /\ r[i] < min
               \/ i > Len(g) /\ i - Len(g) \in 1..Len(t) /\ r[i] = min + (i - Len(g)) - 1
    <2>1. CASE i <= Len(g)
      <3>1. i \in DOMAIN g
        BY <1>2, <1>4, <1>7, <2>1
      <3> QED BY <1>4, <1>5, <1>7, <1>8, <2>1, <3>1
    <2>2. CASE ~(i <= Len(g))
      <3>1. i > Len(g) /\ i - Len(g) \in 1..Len(t)
        BY <1>2, <1>4, <1>7, <2>2
      <3> QED BY <1>2, <1>5, <1>7, <2>2, <3>1
    <2> QED BY <2>1, <2>2
  <1>10. \A i \in DOMAIN r : r[i] < min + k
    <2> SUFFICES ASSUME NEW i \in DOMAIN r PROVE r[i] < min + k
      OBVIOUS
    <2>1. i \in Int
      BY <1>2, <1>4, <1>7
    <2> QED BY <1>1, <1>2, <1>4, <1>9, <2>1
  <1>11. ASSUME NEW i \in DOMAIN r, NEW j \in DOMAIN r, i < j PROVE r[i] < r[j]
    <2>1. i \in Int /\ j \in Int
      BY <1>2, <1>4, <1>7
    <2>2. CASE j \in DOMAIN g
      <3>1. i \in DOMAIN g /\ ~(i > Len(g)) /\ ~(j > Len(g))
        BY <1>4, <1>7, <1>11, <2>1, <2>2
      <3> QED BY <1>8, <1>9, <1>11, <2>2, <3>1
    <2>3. CASE j \notin DOMAIN g
      <3>1. j > Len(g) /\ r[j] = min + (j - Len(g)) - 1 /\ j - Len(g) \in 1..Len(t)
        BY <1>9, <2>3
      <3>2. CASE i \in DOMAIN g
        <4>1. ~(i > Len(g))
          BY <1>4, <3>2
        <4>2. r[i] \in Int /\ r[i] < min
          BY <1>9, <4>1
        <4> QED BY <1>1, <1>2, <1>4, <2>1, <3>1, <4>2
      <3>3. CASE i \notin DOMAIN g
        <4>1. r[i] = min + (i - Len(g)) - 1
          BY <1>9, <3>3
        <4> QED BY <1>1, <1>4, <1>11, <2>1, <3>1, <4>1
      <3> QED BY <3>2, <3>3
    <2> QED BY <2>2, <2>3
  <1>12. ASSUME NEW id \in first..(min + k - 1) PROVE id \in Range(r) \/ id \in M
    <2>1. CASE id < min
      <3>1. id \in first..(min - 1)
        BY <1>1, <1>2, <2>1
      <3> QED BY <1>6, <1>8, <3>1
    <2>2. CASE ~(id < min)
      <3> DEFINE i == id - min + 1
      <3>1. i \in 1..k /\ min + i - 1 = id
        BY <1>1, <1>2, <2>2
      <3>2. CASE i \in 1..Len(t)
        <4>1. t[i] = id /\ i \in DOMAIN t
          BY <1>2, <3>1, <3>2
        <4> QED BY <1>6, <4>1 DEF Range
      <3>3. CASE i \notin 1..Len(t)
        BY <1>2, <3>1, <3>3
      <3> QED BY <3>2, <3>3
    <2> QED BY <2>1, <2>2
  <1>13. Delivered(r, min + k, first, M)
    <2>1. \A i, j \in DOMAIN r : i < j => r[i] < r[j]
      BY <1>11
    <2>2. \A id \in first..(min + k - 1) : id \in Range(r) \/ id \in M
      BY <1>12
    <2> DEFINE n == min + k
    <2>3. n - 1 = min + k - 1
      BY <1>1, <1>2
    <2>5. \A i \in DOMAIN r : r[i] < n
      BY <1>10
    <2> HIDE DEF n
    <2>4. Delivered(r, n, first, M)
      BY <2>1, <2>2, <2>3, <2>5 DEF Delivered
    <2> QED BY <2>4 DEF n
  <1> QED BY <1>13 DEF r, min, k, t

LEMMA UpdatedNamed ==
    ASSUME NEW S, NEW R, NEW e \in Endpoints, NEW u \in Object(S, R, e), Closed(u),
           NEW M, Named(u, M), NEW p \in Seq(Entries(R)),
           NEW tick \in Nat, u.current_tick + tick <= MaxTick[e],
           Near([u EXCEPT !.current_tick = @ + tick], p),
           \A x \in Range(p) : x.type = "MISSING" => \A id \in Int : id % WireIds = x.id => id \in M
    PROVE  /\ Named(Updated(u, p, tick), M)
           /\ Updated(u, p, tick).recv_id_min = u.recv_id_min
  <1> DEFINE w == [u EXCEPT !.current_tick = @ + tick]
             x == extract_package(w, p)
             v == Expire(x)
  <1>1. u.current_tick \in Nat /\ MaxTick[e] \in Nat
    BY IntegerConstants DEF Object
  <1>2. u.current_tick + tick \in 0..MaxTick[e]
    BY <1>1
  <1>3. w \in Object(S, R, e) /\ SameReceiver(u, w)
    BY <1>2 DEF Object, SameReceiver
  <1>4. Near(w, p)
    OBVIOUS
  <1> HIDE DEF w
  <1>5. Closed(w) /\ Named(w, M) /\ w.recv_id_min = u.recv_id_min
    BY <1>3 DEF SameReceiver, Closed, Named
  <1>6. x \in Object(S, R, e) /\ Closed(x)
    BY <1>3, <1>5, ExtractPackage
  <1>7. Named(x, M) /\ x.recv_id_min = u.recv_id_min
    BY <1>3, <1>4, <1>5, PackageNamed
  <1> HIDE DEF x
  <1>8. SameReceiver(x, v)
    BY <1>6, ExpireFacts
  <1>9. Named(v, M) /\ v.recv_id_min = u.recv_id_min
    BY <1>7, <1>8 DEF SameReceiver, Named
  <1> QED BY <1>9 DEF Updated, v, x, w

LEMMA RecvNamed ==
    ASSUME NEW S, NEW R, NEW e, NEW u \in Object(S, R, e), NEW y \in Object(S, R, e),
           SameReceiver(u, y), NEW M, Named(u, M)
    PROVE  /\ Named(rudp_recv(y), M)
           /\ rudp_recv(y).recv_id_min = u.recv_id_min + Receivable(u)
  <1> DEFINE q == u.recv_queue
             k == Receivable(u)
  <1>1. q \in Seq(Messages(R))
    BY DEF Object
  <1>2. k \in 0..Len(q) /\ Len(q) \in Nat /\ DOMAIN q = 1..Len(q)
    BY <1>1, ReceivableFacts, LenProperties
  <1>3. Receivable(y) = k
    BY DEF SameReceiver, Receivable
  <1>4. /\ rudp_recv(y).recv_queue = SubSeq(q, k + 1, Len(q))
        /\ rudp_recv(y).recv_id_min = u.recv_id_min + k
    BY <1>3 DEF rudp_recv, Object, SameReceiver
  <1> HIDE DEF k, q
  <1>5. \A m \in Range(SubSeq(q, k + 1, Len(q))) : m \in Range(q)
    BY <1>1, <1>2, RestFacts
  <1> QED BY <1>4, <1>5 DEF Named, q, k

LEMMA MoreSaid ==
    ASSUME NEW M, NEW N, M \subseteq N
    PROVE  /\ \A u : Named(u, M) => Named(u, N)
           /\ \A g, min, first : Delivered(g, min, first, M) => Delivered(g, min, first, N)
  BY DEF Named, Delivered

DeliveryInv ==
  \A e \in Endpoints :
    /\ Named(U[e], Excused(e))
    /\ Delivered(got[e], U[e].recv_id_min, Start[Peer(e)], Excused(e))

LEMMA DeliveryInit ==
    Init => DeliveryInv
  <1> SUFFICES ASSUME Init, NEW e \in Endpoints
               PROVE  /\ Named(U[e], Excused(e))
                      /\ Delivered(got[e], U[e].recv_id_min, Start[Peer(e)], Excused(e))
    BY DEF DeliveryInv
  <1>1. U[e].recv_queue = <<>> /\ got[e] = <<>> /\ U[e].recv_id_min = Start[Peer(e)]
    BY DEF Init, NewRudp
  <1>2. Start[Peer(e)] \in Nat
    BY PeerFacts, IntegerConstants
  <1>3. Start[Peer(e)] .. (Start[Peer(e)] - 1) = {}
    BY <1>2
  <1>4. Range(U[e].recv_queue) = {} /\ DOMAIN got[e] = {}
    BY <1>1 DEF Range
  <1> QED BY <1>1, <1>3, <1>4 DEF Named, Delivered

LEMMA DeliverySend ==
    ASSUME RudpInv, DeliveryInv, NEW e \in Endpoints, rudp_send(e)
    PROVE  DeliveryInv'
  <1>1. U[e] \in Object(Sent(e), Sent(Peer(e)), e)
    BY DEF RudpInv, Ends
  <1>2. \A f \in Endpoints : U'[f].recv_queue = U[f].recv_queue /\ U'[f].recv_id_min = U[f].recv_id_min
    BY <1>1 DEF rudp_send, RudpInv, Shape, Object
  <1>3. net' = net /\ got' = got
    BY DEF rudp_send
  <1> QED BY <1>2, <1>3 DEF DeliveryInv, Named, Delivered, Excused

LEMMA DeliveryUpdate ==
    ASSUME RudpInv, DeliveryInv, NEW e \in Endpoints, NEW p \in Seq(Entries(Sent(Peer(e)))),
           NEW tick \in Nat, lupdate(e, p, tick),
           Near([U[e] EXCEPT !.current_tick = @ + tick], p),
           \A x \in Range(p) : x.type = "MISSING" =>
             \A id \in Int : id % WireIds = x.id => id \in Excused(e)
    PROVE  DeliveryInv'
  <1> DEFINE S == Sent(e)
             R == Sent(Peer(e))
             M == Excused(e)
             first == Start[Peer(e)]
             u == Updated(U[e], p, tick)
             w == SentOut(u)
  <1>1. /\ U[e] \in Object(S, R, e) /\ Closed(U[e]) /\ Own(U[e])
        /\ U[e].current_tick + tick <= MaxTick[e]
    BY DEF RudpInv, Ends, lupdate
  <1>2. u \in Object(S, R, e) /\ Closed(u) /\ Own(u)
    BY <1>1, UpdatedFacts
  <1>3. Named(U[e], M) /\ Delivered(got[e], U[e].recv_id_min, first, M)
    BY DEF DeliveryInv
  <1>4. Named(u, M) /\ u.recv_id_min = U[e].recv_id_min
    BY <1>1, <1>3, UpdatedNamed
  <1>5. \/ /\ U' = [U EXCEPT ![e] = rudp_recv(u)]
           /\ got' = [got EXCEPT ![e] = @ \o Received(u)]
           /\ net' = net /\ aborted' = aborted
        \/ /\ AssertQueue(u)
           /\ net' = [net EXCEPT ![Peer(e)] = @ \union gen_outpackage(u)]
           /\ U' = [U EXCEPT ![e] = rudp_recv(w)]
           /\ got' = [got EXCEPT ![e] = @ \o Received(u)]
           /\ aborted' = aborted
        \/ /\ aborted' = aborted \union {e}
           /\ U' = U /\ net' = net /\ got' = got
    BY Zenon DEF lupdate
  <1> HIDE DEF u
  <1>6. \A f \in Endpoints : Excused(f) \subseteq Excused(f)'
    <2>1. \A f \in Endpoints : net[f] \subseteq net'[f]
      BY <1>5, PeerFacts DEF RudpInv, Shape
    <2> QED BY <2>1 DEF Excused
  <1>7. Delivered(got[e] \o Received(u), u.recv_id_min + Receivable(u), first, M)
    <2>1. R \in SUBSET Int /\ first \in Nat /\ got[e] \in Seq(R)
      <3>1. first \in Nat
        BY PeerFacts, IntegerConstants
      <3>2. got[e] \in Seq(R)
        BY DEF RudpInv, Given
      <3> QED BY <3>1, <3>2 DEF Sent
    <2>2. \A id \in Int : MsgSize[id] = 0 => id \in M
      BY DEF Excused
    <2> HIDE DEF R, M, first, S
    <2> QED BY <1>2, <1>3, <1>4, <2>1, <2>2, ReceiveInOrder
  <1>8. ASSUME NEW y \in Object(S, R, e), SameReceiver(u, y),
               U' = [U EXCEPT ![e] = rudp_recv(y)],
               got' = [got EXCEPT ![e] = @ \o Received(u)]
        PROVE  DeliveryInv'
    <2>1. Named(rudp_recv(y), M) /\ rudp_recv(y).recv_id_min = u.recv_id_min + Receivable(u)
      BY <1>2, <1>4, <1>8, RecvNamed
    <2>2. /\ U'[e] = rudp_recv(y) /\ got'[e] = got[e] \o Received(u)
          /\ \A f \in Endpoints : f # e => U'[f] = U[f] /\ got'[f] = got[f]
      BY <1>8 DEF RudpInv, Shape
    <2>3. \A f \in Endpoints : /\ Named(U'[f], Excused(f))
                               /\ Delivered(got'[f], U'[f].recv_id_min, Start[Peer(f)], Excused(f))
      BY <1>7, <2>1, <2>2 DEF DeliveryInv
    <2>4. \A f \in Endpoints : /\ Named(U'[f], Excused(f)')
                               /\ Delivered(got'[f], U'[f].recv_id_min, Start[Peer(f)], Excused(f)')
      BY <1>6, <2>3, MoreSaid
    <2> QED BY <2>4 DEF DeliveryInv, Named, Delivered
  <1>9. SameReceiver(u, u)
    BY DEF SameReceiver
  <1>10. w \in Object(S, R, e) /\ SameReceiver(u, w)
    BY <1>2, SentOutFacts
  <1>11. ASSUME U' = U, net' = net, got' = got PROVE DeliveryInv'
    BY <1>11 DEF DeliveryInv, Named, Delivered, Excused
  <1> HIDE DEF w
  <1> QED BY <1>2, <1>5, <1>8, <1>9, <1>10, <1>11

(* A cut package still says MISSING only of what the whole one did. *)
LEMMA ArrivalSaid ==
    ASSUME NEW e, NEW R, NEW p \in net[e], p \in Seq(Entries(R)), NEW q \in Arrivals(e, p),
           NEW x \in Range(q), x.type = "MISSING", NEW id \in Int, id % WireIds = x.id
    PROVE  id \in Excused(e)
  <1>1. x \in Range(p)
    <2>1. CASE q = p
      BY <2>1
    <2>2. CASE q # p
      <3>1. PICK k \in 0..(Len(p) - 1) : q = Append(SubSeq(p, 1, k), Corrupt)
        BY <2>2 DEF Arrivals
      <3>2. Len(p) \in Nat /\ DOMAIN p = 1..Len(p) /\ \A i \in 1..Len(p) : p[i] \in Entries(R)
        BY LenProperties, ElementOfSeq
      <3> DEFINE s == SubSeq(p, 1, k)
      <3>3. s \in Seq(Entries(R)) /\ Len(s) = k /\ \A i \in 1..k : s[i] = p[i]
        BY <3>2, SubSeqProperties
      <3> HIDE DEF s
      <3>4. Corrupt \in Entries(R) /\ Corrupt.type = "CORRUPT"
        BY CorruptType
      <3>5. Range(q) = Range(s) \union {Corrupt}
        <4>1. q = Append(s, Corrupt)
          BY <3>1 DEF s
        <4> QED BY <3>3, <3>4, <4>1, AppendRange
      <3>6. x \in Range(s)
        BY <3>4, <3>5
      <3>7. DOMAIN s = 1..k /\ \A i \in 1..k : i \in DOMAIN p
        BY <3>2, <3>3, LenProperties
      <3> QED BY <3>3, <3>6, <3>7 DEF Range
    <2> QED BY <2>1, <2>2
  <1>2. x \in Entries(R)
    BY <1>1, LenProperties, ElementOfSeq DEF Range
  <1>3. x = [type |-> "MISSING", id |-> id % WireIds, data |-> Missing]
    BY <1>2 DEF Entries
  <1>4. x = Entry("MISSING", id, Missing)
    BY <1>3 DEF Entry
  <1> QED BY <1>1, <1>4 DEF Excused

LEMMA DeliveryStep ==
    RudpInv /\ DeliveryInv /\ Window /\ [Next]_vars => DeliveryInv'
  <1> SUFFICES ASSUME RudpInv, DeliveryInv, Window, [Next]_vars PROVE DeliveryInv'
    OBVIOUS
  <1>1. CASE UNCHANGED vars
    BY <1>1 DEF vars, DeliveryInv, Named, Delivered, Excused
  <1>2. ASSUME NEW e \in Endpoints, rudp_send(e) PROVE DeliveryInv'
    BY <1>2, DeliverySend
  <1>3. ASSUME NEW e \in Endpoints, Frame(e) PROVE DeliveryInv'
    <2>1. <<>> \in Seq(Entries(Sent(Peer(e)))) /\ 1 \in Nat
      BY EmptySeq
    <2>2. Near([U[e] EXCEPT !.current_tick = @ + 1], <<>>)
      BY DEF Near
    <2>3. Range(<<>>) = {}
      BY DEF Range
    <2> QED BY <1>3, <2>1, <2>2, <2>3, DeliveryUpdate DEF Frame
  <1>4. ASSUME NEW e \in Endpoints, Deliver(e) PROVE DeliveryInv'
    <2>1. PICK p \in net[e] : \E q \in Arrivals(e, p) : lupdate(e, q, 0)
      BY <1>4 DEF Deliver
    <2>2. PICK q \in Arrivals(e, p) : lupdate(e, q, 0)
      BY <2>1
    <2>3. p \in Seq(Entries(Sent(Peer(e))))
      BY <2>1 DEF RudpInv, Wire
    <2>4. q \in Seq(Entries(Sent(Peer(e)))) /\ 0 \in Nat
      BY <2>2, <2>3, ArrivalType
    <2>5. [U[e] EXCEPT !.current_tick = @ + 0] = U[e]
      <3>1. U[e] \in Object(Sent(e), Sent(Peer(e)), e)
        BY DEF RudpInv, Ends
      <3>2. U[e].current_tick + 0 = U[e].current_tick
        BY <3>1 DEF Object
      <3> QED BY <3>1, <3>2 DEF Object
    <2>6. Near([U[e] EXCEPT !.current_tick = @ + 0], q)
      BY <2>5 DEF Window
    <2>7. \A x \in Range(q) : x.type = "MISSING" =>
            \A id \in Int : id % WireIds = x.id => id \in Excused(e)
      BY <2>3, ArrivalSaid
    <2> QED BY <2>2, <2>4, <2>6, <2>7, DeliveryUpdate
  <1> QED BY <1>1, <1>2, <1>3, <1>4 DEF Next

(* While get_id is only asked for numbers less than half the id space away   *)
(* (Window), what is queued and what was given stays in turn.              *)
THEOREM RudpDelivery == Spec /\ []Window => [](RudpInv /\ DeliveryInv)
  <1>1. Spec => []RudpInv
    BY RudpInductive
  <1>2. Init => DeliveryInv
    BY DeliveryInit
  <1>3. RudpInv /\ DeliveryInv /\ Window /\ [Next]_vars => DeliveryInv'
    BY DeliveryStep
  <1> QED BY <1>1, <1>2, <1>3, PTL DEF Spec

(* Within that window the recv callback is given only messages the other end *)
(* sent, each at most once and in the order of sending, for every id space,  *)
(* size and delay and any loss, repetition, reordering or cut of packages.  *)
THEOREM RudpInOrder == Spec /\ []Window => []InOrder
  <1>1. RudpInv /\ DeliveryInv => InOrder
    <2> SUFFICES ASSUME RudpInv, DeliveryInv, NEW e \in Endpoints
                 PROVE  /\ Range(got[e]) \subseteq Start[Peer(e)] .. (U[Peer(e)].send_id - 1)
                        /\ \A i, j \in DOMAIN got[e] : i < j => got[e][i] < got[e][j]
      BY DEF InOrder
    <2>1. got[e] \in Seq(Sent(Peer(e)))
      BY DEF RudpInv, Given
    <2>2. Range(got[e]) \subseteq Sent(Peer(e))
      BY <2>1, LenProperties, ElementOfSeq DEF Range
    <2>3. \A i, j \in DOMAIN got[e] : i < j => got[e][i] < got[e][j]
      BY DEF DeliveryInv, Delivered
    <2> QED BY <2>2, <2>3 DEF Sent
  <1> QED BY <1>1, RudpDelivery, PTL

(* Within that window a receiver passes over no number on its own account:    *)
(* each was given to the callback, said to be MISSING by the other end, or   *)
(* is an empty message's, which rudp_recv takes off the queue in silence.   *)
THEOREM RudpSkippedOnlyMissing == Spec /\ []Window => []SkippedOnlyMissing
  <1>1. DeliveryInv => SkippedOnlyMissing
    BY DEF DeliveryInv, Delivered, Excused, SkippedOnlyMissing
  <1> QED BY <1>1, RudpDelivery, PTL

(* Within that window get_id puts every message under the number its sender  *)
(* gave it, across wraps of the header's ids.                              *)
THEOREM RudpQueuedAsSent == Spec /\ []Window => []QueuedAsSent
  <1>1. DeliveryInv => QueuedAsSent
    BY DEF DeliveryInv, Named, Range, QueuedAsSent
  <1> QED BY <1>1, RudpDelivery, PTL
=============================================================================
