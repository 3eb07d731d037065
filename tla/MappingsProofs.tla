---------------------------- MODULE MappingsProofs ----------------------------
(***************************************************************************)
(* What the loops of vma.c and dl_map.c make of the mappings of a process: *)
(* the list in order, the objects with all mappings of a file, the         *)
(* segments of a patch as process_find_place_for_elf and pin_elf_mmaps     *)
(* expect them, and what is mapped when they have been mapped.             *)
(***************************************************************************)
EXTENDS Mappings, PlacementProofs, FiniteSetTheorems

-----------------------------------------------------------------------------
(* Loops.                                                                  *)

(* What holds before a loop and is kept by each round holds after any      *)
(* number of rounds.                                                       *)
LEMMA Rounds ==
  ASSUME NEW S, 0 \in S, \A n \in Nat : n \in S => n + 1 \in S
  PROVE  \A n \in Nat : n \in S
<1> DEFINE T == Nat \ S
<1> SUFFICES ASSUME T # {} PROVE FALSE
  BY Zenon
<1>1. Min(T) \in T
  BY MinIsIn, Zenon
<1>2. Min(T) \in Nat \ {0} /\ Min(T) - 1 \in Nat
  BY <1>1
<1>3. Min(T) - 1 \notin T
  <2>1. ASSUME Min(T) - 1 \in T PROVE FALSE
    <3>1. Min(T) <= Min(T) - 1
      BY <2>1, MinIsFirst, Zenon
    <3> QED BY <1>2, <3>1
  <2> QED BY <2>1, Zenon
<1>4. (Min(T) - 1) + 1 \in S
  BY <1>2, <1>3, Zenon
<1> QED BY <1>1, <1>2, <1>4

(* f[n]: the list after n rounds of splice_vma_lists_sorted. *)
Splicing(f, from, to) ==
  f = [n \in 0..Len(from) |-> IF n = 0 THEN to ELSE add_vma_sorted(f[n - 1], from[n])]

(* The last index and the others. *)
LEMMA BelowTop ==
  \A k \in Nat : \A e \in 1..k : k \in 1..k /\ (e = k \/ e < k)
OBVIOUS

(* splice_vma_lists_sorted is its loop: one add_vma_sorted for each        *)
(* mapping of from.                                                        *)
LEMMA SpliceRounds ==
  ASSUME NEW from, Len(from) \in Nat, NEW to
  PROVE  \E f : /\ f[0] = to
                /\ \A n \in 1..Len(from) : f[n] = add_vma_sorted(f[n - 1], from[n])
                /\ splice_vma_lists_sorted(from, to) = f[Len(from)]
<1> DEFINE L == Len(from)
           Part(g, n) == /\ g[0] = to
                         /\ \A k \in 1..n : g[k] = add_vma_sorted(g[k - 1], from[k])
           S == {n \in Nat : \E g : Part(g, n)}
<1>1. 0 \in S
  <2>1. Part([k \in 0..0 |-> to], 0)
    OBVIOUS
  <2> QED BY <2>1, Zenon
<1>2. ASSUME NEW n \in Nat, n \in S PROVE n + 1 \in S
  <2>1. PICK g : Part(g, n)
    BY <1>2, Zenon
  <2> DEFINE h == [k \in 0..(n + 1) |->
                     IF k = n + 1 THEN add_vma_sorted(g[n], from[k]) ELSE g[k]]
  <2>2. h[0] = to
    BY <2>1
  <2>3. ASSUME NEW k \in 1..(n + 1) PROVE h[k] = add_vma_sorted(h[k - 1], from[k])
    <3>1. CASE k = n + 1
      <4>1. h[k] = add_vma_sorted(g[n], from[k]) /\ h[k - 1] = g[n]
        BY <3>1
      <4> QED BY <4>1, Zenon
    <3>2. CASE k # n + 1
      <4>1. h[k] = g[k] /\ h[k - 1] = g[k - 1] /\ k \in 1..n
        BY <3>2
      <4> QED BY <2>1, <4>1, Zenon
    <3> QED BY <3>1, <3>2, Zenon
  <2>4. Part(h, n + 1)
    BY <2>2, <2>3, Zenon
  <2> HIDE DEF h
  <2> QED BY <2>4
<1>3. PICK g : Part(g, L)
  <2> HIDE DEF S
  <2>1. L \in S
    BY <1>1, <1>2, Rounds, Zenon
  <2> QED BY <2>1, Zenon DEF S
<1> DEFINE f0 == [n \in 0..L |-> g[n]]
<1>4. Splicing(f0, from, to)
  <2>1. ASSUME NEW n \in 0..L
        PROVE  f0[n] = IF n = 0 THEN to ELSE add_vma_sorted(f0[n - 1], from[n])
    <3>1. CASE n = 0
      BY <1>3, <3>1, Zenon
    <3>2. CASE n # 0
      <4>1. f0[n] = g[n] /\ f0[n - 1] = g[n - 1] /\ n \in 1..L
        BY <3>2
      <4> QED BY <1>3, <3>2, <4>1, Zenon
    <3> QED BY <3>1, <3>2, Zenon
  <2> QED BY <2>1, Zenon DEF Splicing
<1> DEFINE f == CHOOSE f : Splicing(f, from, to)
<1>5. Splicing(f, from, to)
  BY <1>4, Zenon
<1>6. splice_vma_lists_sorted(from, to) = f[Len(from)]
  BY Zenon DEF Splicing, splice_vma_lists_sorted
<1> HIDE DEF f
<1>7. f[0] = to /\ \A n \in 1..Len(from) : f[n] = add_vma_sorted(f[n - 1], from[n])
  BY <1>5 DEF Splicing
<1> QED BY <1>6, <1>7, Zenon

-----------------------------------------------------------------------------
(* vma.c: lists in the order of the addresses.                             *)

Ascending(s) == \A i, j \in 1..Len(s) : i < j => s[i].start < s[j].start

(* What a concatenation has. *)
LEMMA Joined ==
  ASSUME NEW V, NEW a \in Seq(V), NEW b \in Seq(V)
  PROVE  /\ a \o b \in Seq(V)
         /\ Len(a \o b) = Len(a) + Len(b)
         /\ \A i \in 1..(Len(a) + Len(b)) :
              (a \o b)[i] = IF i <= Len(a) THEN a[i] ELSE b[i - Len(a)]
OBVIOUS

(* r is list with v at place k, before the mappings that start higher. *)
Added(r, list, v, k) ==
  /\ Len(r) = Len(list) + 1
  /\ \A i \in 1..Len(r) :
       r[i] = IF i < k THEN list[i] ELSE IF i = k THEN v ELSE list[i - 1]
  /\ Ascending(list) /\ (\A i \in 1..Len(list) : list[i].start # v.start)
       => /\ \A i \in 1..Len(list) : i < k => list[i].start < v.start
          /\ \A i \in 1..Len(list) : k <= i => v.start < list[i].start

(* add_vma_sorted adds the mapping and nothing else, in its place. *)
LEMMA AddOne ==
  ASSUME NEW V, \A w \in V : w.start \in Nat, NEW list \in Seq(V), NEW v \in V
  PROVE  /\ add_vma_sorted(list, v) \in Seq(V)
         /\ \E k \in 1..(Len(list) + 1) : Added(add_vma_sorted(list, v), list, v, k)
<1> DEFINE r == add_vma_sorted(list, v)
           n == Len(list)
<1>1. n \in Nat /\ \A i \in 1..n : list[i] \in V /\ list[i].start \in Nat
  BY ElementOf
<1>2. CASE list = <<>> \/ list[n].start < v.start
  <2>1. r = Append(list, v)
    BY <1>2, Zenon DEF add_vma_sorted
  <2>2. /\ r \in Seq(V)
        /\ Len(r) = n + 1
        /\ \A i \in 1..Len(r) : r[i] = IF i < n + 1 THEN list[i] ELSE v
    BY <2>1
  <2>3. ASSUME Ascending(list), NEW i \in 1..n PROVE list[i].start < v.start
    <3>1. list[n].start < v.start /\ n \in 1..n
      BY <1>1, <1>2
    <3>2. i = n \/ list[i].start < list[n].start
      BY <1>1, <2>3 DEF Ascending
    <3>3. list[i].start \in Nat /\ list[n].start \in Nat /\ v.start \in Nat
      BY <1>1, <3>1, Zenon
    <3> QED BY <3>1, <3>2, <3>3
  <2> HIDE DEF r
  <2>4. \A i \in 1..Len(r) :
          r[i] = IF i < n + 1 THEN list[i] ELSE IF i = n + 1 THEN v ELSE list[i - 1]
    BY <1>1, <2>2
  <2>5. n + 1 \in 1..(n + 1) /\ \A i \in 1..n : ~(n + 1 <= i)
    BY <1>1
  <2>6. Added(r, list, v, n + 1)
    BY <2>2, <2>3, <2>4, <2>5, Zenon DEF Added
  <2> QED BY <2>2, <2>5, <2>6, Zenon DEF r
<1>3. CASE ~(list = <<>> \/ list[n].start < v.start)
  <2> DEFINE Behind == {i \in 1..n : ~(list[i].start < v.start)}
             k == Min(Behind)
  <2>1. r = SubSeq(list, 1, k - 1) \o <<v>> \o SubSeq(list, k, n)
    BY <1>3, Zenon DEF add_vma_sorted
  <2>2. n \in Behind /\ Behind \subseteq Nat
    BY <1>1, <1>3
  <2>3. k \in 1..n /\ ~(list[k].start < v.start)
    <3>1. k \in Behind
      BY <2>2, MinIsIn, Zenon
    <3> QED BY <3>1, Zenon
  <2>4. \A i \in 1..n : i < k => list[i].start < v.start
    <3> SUFFICES ASSUME NEW i \in 1..n, i < k, ~(list[i].start < v.start) PROVE FALSE
      BY Zenon
    <3>1. i \in Behind /\ i \in Nat /\ k \in Nat /\ i < k
      BY <1>1, <2>3
    <3>2. k <= i
      BY <2>2, <3>1, MinIsFirst, Zenon
    <3> HIDE DEF k
    <3> QED BY <3>1, <3>2
  <2> HIDE DEF k, r, Behind
  <2>5. /\ r \in Seq(V)
        /\ Len(r) = n + 1
        /\ \A i \in 1..Len(r) :
             r[i] = IF i < k THEN list[i] ELSE IF i = k THEN v ELSE list[i - 1]
    <3> DEFINE a == SubSeq(list, 1, k - 1)
               b == <<v>>
               c == SubSeq(list, k, n)
    <3>1. a \in Seq(V) /\ Len(a) = k - 1 /\ \A i \in 1..(k - 1) : a[i] = list[i]
      BY <1>1, <2>3
    <3>2. b \in Seq(V) /\ Len(b) = 1 /\ b[1] = v
      OBVIOUS
    <3>3. /\ c \in Seq(V) /\ Len(c) = n - k + 1
          /\ \A i \in 1..(n - k + 1) : c[i] = list[k + i - 1]
      BY <1>1, <2>3
    <3> HIDE DEF a, b, c
    <3>4. /\ a \o b \in Seq(V) /\ Len(a \o b) = k
          /\ \A i \in 1..k : (a \o b)[i] = IF i < k THEN list[i] ELSE v
      <4>1. a \o b \in Seq(V)
        BY <3>1, <3>2
      <4>2. /\ Len(a \o b) = Len(a) + Len(b)
            /\ \A i \in 1..(Len(a) + Len(b)) :
                 (a \o b)[i] = IF i <= Len(a) THEN a[i] ELSE b[i - Len(a)]
        BY <3>1, <3>2, Joined, Zenon
      <4>3. k \in Nat /\ k - 1 + 1 = k
        BY <1>1, <2>3
      <4>4. Len(a \o b) = k
        BY <3>1, <3>2, <4>2, <4>3, Zenon
      <4>5. ASSUME NEW i \in 1..k PROVE (a \o b)[i] = IF i < k THEN list[i] ELSE v
        <5>1. (a \o b)[i] = IF i <= k - 1 THEN a[i] ELSE b[i - (k - 1)]
          BY <3>1, <3>2, <4>2, <4>3, Zenon
        <5>2. i <= k - 1 => i \in 1..(k - 1) /\ i < k
          BY <4>3
        <5>3. ~(i <= k - 1) => i - (k - 1) = 1 /\ ~(i < k)
          BY <4>3
        <5> QED BY <3>1, <3>2, <5>1, <5>2, <5>3, Zenon
      <4> QED BY <4>1, <4>4, <4>5, Zenon
    <3> DEFINE d == a \o b
    <3>5. r = d \o c
      BY <2>1, Zenon DEF a, b, c
    <3> HIDE DEF d
    <3>6. d \in Seq(V) /\ Len(d) = k /\ \A i \in 1..k : d[i] = IF i < k THEN list[i] ELSE v
      BY <3>4, Zenon DEF d
    <3>7. r \in Seq(V) /\ Len(r) = n + 1
      <4>1. r \in Seq(V)
        BY <3>3, <3>5, <3>6
      <4>2. Len(r) = Len(d) + Len(c)
        BY <3>3, <3>5, <3>6, Joined, Zenon
      <4>3. k + (n - k + 1) = n + 1
        BY <1>1, <2>3
      <4> QED BY <3>3, <3>6, <4>1, <4>2, <4>3, Zenon
    <3>8. ASSUME NEW i \in 1..Len(r)
          PROVE  r[i] = IF i < k THEN list[i] ELSE IF i = k THEN v ELSE list[i - 1]
      <4>1. CASE i <= k
        <5>1. r[i] = d[i] /\ i \in 1..k
          BY <1>1, <2>3, <3>3, <3>5, <3>6, <3>7, <4>1
        <5> QED BY <1>1, <2>3, <3>6, <4>1, <5>1
      <4>2. CASE i > k
        <5>1. r[i] = c[i - k] /\ i - k \in 1..(n - k + 1) /\ k + (i - k) - 1 = i - 1
          BY <1>1, <2>3, <3>3, <3>5, <3>6, <3>7, <4>2, SMTT(30)
        <5>2. r[i] = list[i - 1]
          BY <3>3, <5>1, Zenon
        <5> QED BY <1>1, <2>3, <4>2, <5>2
      <4> QED BY <1>1, <2>3, <3>7, <4>1, <4>2
    <3> QED BY <3>7, <3>8, Zenon
  <2>6. ASSUME Ascending(list), \A i \in 1..n : list[i].start # v.start, NEW i \in 1..n, k <= i
        PROVE  v.start < list[i].start
    <3>1. i = k \/ list[k].start < list[i].start
      BY <1>1, <2>3, <2>6 DEF Ascending
    <3>2. /\ list[i].start \in Nat /\ list[k].start \in Nat /\ v.start \in Nat
          /\ list[k].start # v.start
      BY <1>1, <2>3, <2>6, Zenon
    <3> QED BY <2>3, <3>1, <3>2
  <2>7. k \in 1..(n + 1)
    BY <1>1, <2>3
  <2>8. Added(r, list, v, k)
    BY <2>4, <2>5, <2>6, Zenon DEF Added
  <2> QED BY <2>5, <2>7, <2>8, Zenon DEF r
<1> QED BY <1>2, <1>3, Zenon

(* add_vma_sorted: the elements, and the order. *)
LEMMA AddSorted ==
  ASSUME NEW V, \A w \in V : w.start \in Nat, NEW list \in Seq(V), NEW v \in V
  PROVE  LET r == add_vma_sorted(list, v)
         IN  /\ r \in Seq(V)
             /\ Range(r) = Range(list) \union {v}
             /\ Ascending(list) /\ (\A w \in Range(list) : w.start # v.start)
                  => Ascending(r)
<1> DEFINE r == add_vma_sorted(list, v)
           n == Len(list)
<1>1. r \in Seq(V)
  BY AddOne, Zenon
<1>2. PICK k \in 1..(n + 1) : Added(r, list, v, k)
  BY AddOne, Zenon
<1> HIDE DEF r
<1>3. /\ n \in Nat /\ Len(r) = n + 1 /\ DOMAIN r = 1..(n + 1) /\ DOMAIN list = 1..n
      /\ \A i \in 1..n : list[i] \in V /\ list[i].start \in Nat
      /\ v.start \in Nat
  BY <1>1, <1>2, ElementOf DEF Added
<1>4. \A i \in 1..(n + 1) :
        r[i] = IF i < k THEN list[i] ELSE IF i = k THEN v ELSE list[i - 1]
  BY <1>2, <1>3, Zenon DEF Added
<1>5. Range(r) \subseteq Range(list) \union {v}
  <2> SUFFICES ASSUME NEW i \in 1..(n + 1) PROVE r[i] \in Range(list) \union {v}
    BY <1>3, Zenon DEF Range
  <2>1. CASE i < k
    <3>1. i \in 1..n /\ r[i] = list[i]
      BY <1>3, <1>4, <2>1
    <3> QED BY <1>3, <3>1, Zenon DEF Range
  <2>2. CASE i = k
    BY <1>4, <2>2
  <2>3. CASE i > k
    <3>1. i - 1 \in 1..n /\ r[i] = list[i - 1]
      BY <1>3, <1>4, <2>3
    <3> QED BY <1>3, <3>1, Zenon DEF Range
  <2> QED BY <1>3, <2>1, <2>2, <2>3
<1>6. Range(list) \union {v} \subseteq Range(r)
  <2>1. v \in Range(r)
    <3>1. r[k] = v /\ k \in DOMAIN r
      BY <1>3, <1>4
    <3> QED BY <3>1, Zenon DEF Range
  <2>2. ASSUME NEW i \in 1..n PROVE list[i] \in Range(r)
    <3>1. CASE i < k
      <4>1. i \in DOMAIN r /\ r[i] = list[i]
        BY <1>3, <1>4, <3>1
      <4> QED BY <4>1, Zenon DEF Range
    <3>2. CASE i >= k
      <4>1. i + 1 \in 1..(n + 1) /\ ~(i + 1 < k) /\ i + 1 # k /\ (i + 1) - 1 = i
        BY <1>3, <3>2
      <4>2. r[i + 1] = list[i]
        BY <1>4, <4>1, Zenon
      <4> QED BY <1>3, <4>1, <4>2, Zenon DEF Range
    <3> QED BY <1>3, <3>1, <3>2
  <2> QED BY <1>3, <2>1, <2>2, Zenon DEF Range
<1>7. ASSUME Ascending(list), \A w \in Range(list) : w.start # v.start
      PROVE  Ascending(r)
  <2>1. \A i \in 1..n : list[i].start # v.start
    BY <1>3, <1>7, Zenon DEF Range
  <2>2. /\ \A i \in 1..n : i < k => list[i].start < v.start
        /\ \A i \in 1..n : k <= i => v.start < list[i].start
    BY <1>2, <1>7, <2>1, Zenon DEF Added
  <2>3. \A i, j \in 1..n : i < j => list[i].start < list[j].start
    BY <1>7, Zenon DEF Ascending
  <2> SUFFICES ASSUME NEW i \in 1..(n + 1), NEW j \in 1..(n + 1), i < j
               PROVE  r[i].start < r[j].start
    BY <1>3, Zenon DEF Ascending
  <2>4. CASE j < k
    <3>1. i \in 1..n /\ j \in 1..n /\ r[i] = list[i] /\ r[j] = list[j]
      BY <1>3, <1>4, <2>4
    <3> QED BY <2>3, <3>1, Zenon
  <2>5. CASE j = k
    <3>1. i \in 1..n /\ i < k /\ r[i] = list[i] /\ r[j] = v
      BY <1>3, <1>4, <2>5
    <3> QED BY <2>2, <3>1, Zenon
  <2>6. CASE j > k
    <3>1. j - 1 \in 1..n /\ k <= j - 1 /\ r[j] = list[j - 1]
      BY <1>3, <1>4, <2>6
    <3>2. v.start < list[j - 1].start /\ list[j - 1].start \in Nat
      BY <1>3, <2>2, <3>1, Zenon
    <3>3. CASE i < k
      <4>1. i \in 1..n /\ r[i] = list[i] /\ i < j - 1
        BY <1>3, <1>4, <2>6, <3>3
      <4> QED BY <2>3, <3>1, <4>1, Zenon
    <3>4. CASE i = k
      <4>1. r[i] = v
        BY <1>4, <3>4
      <4> QED BY <3>1, <3>2, <4>1, Zenon
    <3>5. CASE i > k
      <4>1. i - 1 \in 1..n /\ r[i] = list[i - 1] /\ i - 1 < j - 1
        BY <1>3, <1>4, <3>5
      <4> QED BY <2>3, <3>1, <4>1, Zenon
    <3> QED BY <1>3, <3>3, <3>4, <3>5
  <2> QED BY <1>3, <2>4, <2>5, <2>6
<1> QED BY <1>1, <1>5, <1>6, <1>7, Zenon DEF r

(* splice_vma_lists_sorted: the result has the elements of both lists, and *)
(* is in order if the second was and no two mappings start alike.          *)
LEMMA SpliceSorted ==
  ASSUME NEW V, \A w \in V : w.start \in Nat, NEW from \in Seq(V), NEW to \in Seq(V)
  PROVE  LET r == splice_vma_lists_sorted(from, to)
         IN  /\ r \in Seq(V)
             /\ Range(r) = Range(from) \union Range(to)
             /\ /\ Ascending(to)
                /\ \A i, j \in 1..Len(from) : from[i].start = from[j].start => i = j
                /\ \A v \in Range(from), w \in Range(to) : v.start # w.start
                => Ascending(r)
<1> DEFINE L == Len(from)
           First(n) == {from[i] : i \in 1..n}
           Distinct == /\ Ascending(to)
                       /\ \A i, j \in 1..L : from[i].start = from[j].start => i = j
                       /\ \A v \in Range(from), w \in Range(to) : v.start # w.start
<1>1. L \in Nat /\ DOMAIN from = 1..L
  OBVIOUS
<1>2. PICK f : /\ f[0] = to
               /\ \A n \in 1..L : f[n] = add_vma_sorted(f[n - 1], from[n])
               /\ splice_vma_lists_sorted(from, to) = f[L]
  BY <1>1, SpliceRounds, Zenon
<1> DEFINE Good(n) == /\ f[n] \in Seq(V)
                      /\ Range(f[n]) = First(n) \union Range(to)
                      /\ Distinct => Ascending(f[n])
           S == {n \in Nat : n <= L => Good(n)}
<1>3. 0 \in S
  <2>1. First(0) = {}
    OBVIOUS
  <2> HIDE DEF First
  <2>2. Good(0)
    BY <1>2, <2>1, Zenon
  <2> HIDE DEF Good
  <2> QED BY <2>2, Zenon
<1>4. ASSUME NEW n \in Nat, n \in S PROVE n + 1 \in S
  <2> SUFFICES ASSUME n + 1 <= L PROVE Good(n + 1)
    OBVIOUS
  <2> DEFINE v == from[n + 1]
  <2>1. Good(n) /\ n + 1 \in 1..L /\ v \in V /\ n <= L
    <3>1. n + 1 \in 1..L /\ n <= L
      BY <1>1
    <3> HIDE DEF Good
    <3> QED BY <1>4, <3>1, ElementOf, Zenon
  <2>2. f[n + 1] = add_vma_sorted(f[n], v)
    <3>1. (n + 1) - 1 = n
      OBVIOUS
    <3> QED BY <1>2, <2>1, <3>1, Zenon
  <2>3. First(n + 1) = First(n) \union {v}
    <3>1. 1..(n + 1) = (1..n) \union {n + 1}
      OBVIOUS
    <3> QED BY <3>1, Zenon
  <2>4. /\ f[n + 1] \in Seq(V)
        /\ Range(f[n + 1]) = Range(f[n]) \union {v}
        /\ Ascending(f[n]) /\ (\A w \in Range(f[n]) : w.start # v.start)
             => Ascending(f[n + 1])
    <3> DEFINE r == add_vma_sorted(f[n], v)
    <3>1. f[n] \in Seq(V)
      BY <2>1, Zenon
    <3>2. /\ r \in Seq(V)
          /\ Range(r) = Range(f[n]) \union {v}
          /\ Ascending(f[n]) /\ (\A w \in Range(f[n]) : w.start # v.start)
               => Ascending(r)
      BY <2>1, <3>1, AddSorted, Zenon
    <3> QED BY <2>2, <3>2, Zenon
  <2>5. ASSUME Distinct, NEW w \in Range(f[n]) PROVE w.start # v.start
    <3>1. CASE w \in First(n)
      <4>1. PICK i \in 1..n : w = from[i]
        BY <3>1, Zenon
      <4>2. i \in 1..L /\ i # n + 1
        BY <1>1, <2>1
      <4> QED BY <2>1, <2>5, <4>1, <4>2, Zenon
    <3>2. CASE w \in Range(to)
      <4>1. v \in Range(from)
        BY <1>1, <2>1, Zenon DEF Range
      <4> QED BY <2>5, <3>2, <4>1, Zenon
    <3> HIDE DEF First
    <3> QED BY <2>1, <3>1, <3>2, Zenon
  <2> HIDE DEF First, v, Distinct
  <2> QED BY <2>1, <2>3, <2>4, <2>5, Zenon
<1>5. Good(L)
  <2>1. L \in S
    <3> HIDE DEF S
    <3> QED BY <1>1, <1>3, <1>4, Rounds, Zenon
  <2> HIDE DEF Good
  <2> QED BY <1>1, <2>1
<1>6. First(L) = Range(from)
  BY <1>1, Zenon DEF Range
<1> HIDE DEF First
<1> QED BY <1>2, <1>5, <1>6, Zenon

(* Mappings of which no two start alike. *)
Apart(m) ==
  /\ IsFiniteSet(m)
  /\ \A v \in m : v.start \in Nat
  /\ \A v, w \in m : v.start = w.start => v = w

(* The file /proc/<pid>/maps has every mapping on one line. *)
LEMMA Lines ==
  ASSUME NEW m, Apart(m)
  PROVE  /\ ProcMaps(m) \in Seq(m)
         /\ Range(ProcMaps(m)) = m
         /\ \A i, j \in 1..Len(ProcMaps(m)) :
              ProcMaps(m)[i].start = ProcMaps(m)[j].start => i = j
<1> DEFINE N == Cardinality(m)
           Below(v) == {w \in m : w.start < v.start}
           rank(v) == Cardinality(Below(v))
           f == [v \in m |-> rank(v) + 1]
           Line(n) == CHOOSE v \in m : rank(v) = n - 1
<1>1. N \in Nat /\ IsFiniteSet(m)
  BY FS_CardinalityType, Zenon DEF Apart
<1>2. \A v \in m : IsFiniteSet(Below(v)) /\ rank(v) \in Nat
  <2> TAKE v \in m
  <2>1. Below(v) \in SUBSET m
    BY Zenon
  <2>2. IsFiniteSet(Below(v))
    BY <1>1, <2>1, FS_Subset, Zenon
  <2> QED BY <2>2, FS_CardinalityType, Zenon
<1>3. ASSUME NEW v \in m PROVE rank(v) + 1 \in 1..N
  <2>1. Below(v) \union {v} \in SUBSET m /\ v \notin Below(v)
    BY DEF Apart
  <2> HIDE DEF Below
  <2>2. Cardinality(Below(v) \union {v}) = rank(v) + 1
    BY <1>2, <2>1, FS_AddElement, Zenon
  <2>3. Cardinality(Below(v) \union {v}) <= N
    BY <1>1, <2>1, FS_Subset, Zenon
  <2> QED BY <1>1, <1>2, <2>2, <2>3
<1>4. ASSUME NEW v \in m, NEW w \in m, v.start < w.start PROVE rank(v) < rank(w)
  <2>1. Below(v) \union {v} \in SUBSET Below(w) /\ v \notin Below(v)
    BY <1>4 DEF Apart
  <2> HIDE DEF Below
  <2>2. Cardinality(Below(v) \union {v}) = rank(v) + 1
    BY <1>2, <2>1, FS_AddElement, Zenon
  <2>3. Cardinality(Below(v) \union {v}) <= rank(w)
    BY <1>2, <2>1, FS_Subset, Zenon
  <2> QED BY <1>2, <2>2, <2>3
<1> HIDE DEF rank, N, Below
<1>5. \A v \in m : rank(v) \in Nat
  BY <1>2, Zenon
<1>6. ASSUME NEW v \in m, NEW w \in m, rank(v) = rank(w) PROVE v = w
  <2>1. rank(v) \in Nat /\ ~(rank(v) < rank(w)) /\ ~(rank(w) < rank(v))
    BY <1>5, <1>6
  <2>2. ~(v.start < w.start) /\ ~(w.start < v.start)
    BY <1>4, <2>1, Zenon
  <2> QED BY <2>2 DEF Apart
<1>7. f \in Injection(m, 1..N)
  <2>1. f \in [m -> 1..N]
    BY <1>3, Zenon
  <2>2. \A v, w \in m : f[v] = f[w] => v = w
    BY <1>5, <1>6
  <2>3. DOMAIN f = m
    BY Zenon
  <2> HIDE DEF f
  <2> QED BY <2>1, <2>2, <2>3, Zenon DEF Injection, IsInjective
<1>8. IsFiniteSet(1..N) /\ Cardinality(1..N) = N
  <2>1. IsFiniteSet(1..N) /\ Cardinality(1..N) = IF 1 > N THEN 0 ELSE N - 1 + 1
    BY <1>1, FS_Interval
  <2> QED BY <1>1, <2>1
<1>9. f \in Surjection(m, 1..N)
  BY <1>7, <1>8, FS_Injection, Zenon DEF N
<1>10. ASSUME NEW n \in 1..N PROVE Line(n) \in m /\ rank(Line(n)) = n - 1
  <2>1. PICK v \in m : f[v] = n
    BY <1>9, Zenon DEF Surjection
  <2>2. rank(v) = n - 1
    BY <1>1, <1>5, <2>1
  <2> QED BY <2>2, Zenon
<1>11. ProcMaps(m) = [n \in 1..N |-> Line(n)]
  BY Zenon DEF ProcMaps, rank, Below, N
<1> HIDE DEF Line
<1>12. ProcMaps(m) \in Seq(m) /\ Len(ProcMaps(m)) = N /\ DOMAIN ProcMaps(m) = 1..N
  BY <1>1, <1>10, <1>11
<1>13. \A n \in 1..N : ProcMaps(m)[n] = Line(n)
  BY <1>11, Zenon
<1>14. m \subseteq Range(ProcMaps(m))
  <2> SUFFICES ASSUME NEW v \in m PROVE v \in Range(ProcMaps(m))
    BY Zenon
  <2> DEFINE n == rank(v) + 1
  <2>1. n \in 1..N /\ n - 1 = rank(v)
    BY <1>3, <1>5
  <2> HIDE DEF n
  <2>2. Line(n) = v
    BY <1>6, <1>10, <2>1, Zenon
  <2> QED BY <1>12, <1>13, <2>1, <2>2, Zenon DEF Range
<1>15. Range(ProcMaps(m)) \subseteq m
  BY <1>10, <1>12, <1>13, Zenon DEF Range
<1>16. ASSUME NEW i \in 1..N, NEW j \in 1..N,
              ProcMaps(m)[i].start = ProcMaps(m)[j].start
       PROVE  i = j
  <2>1. Line(i) = Line(j)
    BY <1>10, <1>13, <1>16, Zenon DEF Apart
  <2>2. i - 1 = j - 1
    BY <1>10, <2>1, Zenon
  <2> QED BY <1>1, <2>2
<1> QED BY <1>12, <1>14, <1>15, <1>16, Zenon

(* collect_vmas and collect_vmas_by_path: the mappings in order. *)
LEMMA Collected ==
  ASSUME NEW m, Apart(m)
  PROVE  /\ collect_vmas(m) \in Seq(m)
         /\ Range(collect_vmas(m)) = m
         /\ Ascending(collect_vmas(m))
         /\ \A path : /\ collect_vmas_by_path(m, path) \in Seq(m)
                      /\ Range(collect_vmas_by_path(m, path)) = {v \in m : v.path = path}
                      /\ Ascending(collect_vmas_by_path(m, path))
<1>1. \A s : Range(s) \union Range(<<>>) = Range(s)
  BY DEF Range
<1>2. ASSUME NEW k, k \subseteq m
      PROVE  /\ splice_vma_lists_sorted(ProcMaps(k), <<>>) \in Seq(k)
             /\ Range(splice_vma_lists_sorted(ProcMaps(k), <<>>)) = k
             /\ Ascending(splice_vma_lists_sorted(ProcMaps(k), <<>>))
  <2>1. k \in SUBSET m
    BY <1>2, Zenon
  <2>2. Apart(k)
    <3>1. IsFiniteSet(k)
      BY <2>1, FS_Subset, Zenon DEF Apart
    <3> QED BY <1>2, <3>1, Zenon DEF Apart
  <2> DEFINE from == ProcMaps(k)
             to == <<>>
             r == splice_vma_lists_sorted(from, to)
  <2>3. /\ from \in Seq(k) /\ Range(from) = k
        /\ \A i, j \in 1..Len(from) : from[i].start = from[j].start => i = j
    BY <2>2, Lines, Zenon
  <2>4. \A w \in k : w.start \in Nat
    BY <2>2, Zenon DEF Apart
  <2>5. /\ to \in Seq(k) /\ Ascending(to)
        /\ \A v \in Range(from), w \in Range(to) : v.start # w.start
    BY DEF Range, Ascending
  <2> HIDE DEF from, to
  <2>6. r \in Seq(k) /\ Range(r) = Range(from) \union Range(to) /\ Ascending(r)
    <3>1. from \in Seq(k) /\ to \in Seq(k)
      BY <2>3, <2>5, Zenon
    <3>2. /\ r \in Seq(k)
          /\ Range(r) = Range(from) \union Range(to)
          /\ /\ Ascending(to)
             /\ \A i, j \in 1..Len(from) : from[i].start = from[j].start => i = j
             /\ \A v \in Range(from), w \in Range(to) : v.start # w.start
             => Ascending(r)
      BY <2>4, <3>1, SpliceSorted, Zenon
    <3> QED BY <2>3, <2>5, <3>2, Zenon
  <2> HIDE DEF r
  <2>7. r \in Seq(k) /\ Range(r) = k /\ Ascending(r)
    BY <1>1, <2>3, <2>6, Zenon DEF to
  <2> QED BY <2>7, Zenon DEF from, to, r
<1>3. /\ collect_vmas(m) \in Seq(m) /\ Range(collect_vmas(m)) = m
      /\ Ascending(collect_vmas(m))
  BY <1>2, Zenon DEF collect_vmas
<1>4. ASSUME NEW path
      PROVE  /\ collect_vmas_by_path(m, path) \in Seq(m)
             /\ Range(collect_vmas_by_path(m, path)) = {v \in m : v.path = path}
             /\ Ascending(collect_vmas_by_path(m, path))
  <2> DEFINE k == {v \in m : v.path = path}
             r == collect_vmas_by_path(m, path)
  <2>1. k \subseteq m
    BY Zenon
  <2>2. r \in Seq(k) /\ Range(r) = k /\ Ascending(r)
    BY <1>2, <2>1, Zenon DEF collect_vmas_by_path
  <2> HIDE DEF r
  <2>3. r \in Seq(m)
    BY <2>1, <2>2
  <2> QED BY <2>2, <2>3, Zenon DEF r
<1> QED BY <1>3, <1>4, Zenon

-----------------------------------------------------------------------------
(* dl_map.c: the objects.                                                  *)

Object(m) == [path : {v.path : v \in m}, vmas : Seq(m)]

(* What d, the list of objects, is after collect_dl_map_vma has had the    *)
(* mappings in seen.                                                       *)
DlmsOf(d, m, seen) ==
  /\ d \in Seq(Object(m))
  /\ \A k \in 1..Len(d) : /\ d[k].vmas # <<>>
                          /\ Ascending(d[k].vmas)
                          /\ d[k].path # NoFile
                          /\ \A v \in Range(d[k].vmas) : v \in seen /\ v.path = d[k].path
  /\ \A k \in 1..Len(d) : k < Len(d) => d[k].path # d[k + 1].path
  /\ \A j, k \in 1..Len(d) :
       j < k => \A u \in Range(d[j].vmas), w \in Range(d[k].vmas) : u.start < w.start
  /\ \A v \in seen : v.path # NoFile => \E k \in 1..Len(d) : v \in Range(d[k].vmas)

(* collect_dl_map_vma, when the mappings come in order: a new object. *)
LEMMA CollectNew ==
  ASSUME NEW m, NEW seen, seen \subseteq m, NEW d, DlmsOf(d, m, seen),
         NEW v \in m, v.path # NoFile, d = <<>> \/ d[Len(d)].path # v.path,
         \A u \in seen : u.start < v.start
  PROVE  DlmsOf(Append(d, [path |-> v.path, vmas |-> <<v>>]), m, seen \union {v})
<1> DEFINE o == [path |-> v.path, vmas |-> <<v>>]
           n == Len(d)
           e == Append(d, o)
<1>1. d \in Seq(Object(m)) /\ n \in Nat
  BY DEF DlmsOf
<1>2. o \in Object(m) /\ o.path = v.path /\ o.vmas # <<>> /\ Ascending(o.vmas)
  BY DEF Object, Ascending
<1>3. Range(o.vmas) = {v}
  BY DEF Range
<1> HIDE DEF o
<1>4. /\ e \in Seq(Object(m)) /\ Len(e) = n + 1
      /\ \A k \in 1..n : e[k] = d[k]
      /\ e[n + 1] = o
  BY <1>1, <1>2
<1> HIDE DEF e
<1>5. \A k \in 1..n : /\ d[k].vmas # <<>>
                      /\ Ascending(d[k].vmas)
                      /\ d[k].path # NoFile
                      /\ \A w \in Range(d[k].vmas) : w \in seen /\ w.path = d[k].path
  BY Zenon DEF DlmsOf
<1>6. ASSUME NEW k \in 1..Len(e)
      PROVE  /\ e[k].vmas # <<>>
             /\ Ascending(e[k].vmas)
             /\ e[k].path # NoFile
             /\ \A w \in Range(e[k].vmas) : w \in seen \union {v} /\ w.path = e[k].path
  <2>1. CASE k = n + 1
    BY <1>2, <1>3, <1>4, <2>1, Zenon
  <2>2. CASE k # n + 1
    <3>1. k \in 1..n /\ e[k] = d[k]
      BY <1>1, <1>4, <2>2
    <3> QED BY <1>5, <3>1, Zenon
  <2> QED BY <2>1, <2>2, Zenon
<1>7. ASSUME NEW k \in 1..Len(e), k < Len(e) PROVE e[k].path # e[k + 1].path
  <2>1. k \in 1..n /\ e[k] = d[k]
    BY <1>1, <1>4, <1>7
  <2>2. CASE k = n
    <3>1. d # <<>>
      BY <1>1, <2>1
    <3> QED BY <1>2, <1>4, <2>1, <2>2, <3>1, Zenon
  <2>3. CASE k # n
    <3>1. k + 1 \in 1..n /\ k < n
      BY <1>1, <2>1, <2>3
    <3> QED BY <1>4, <2>1, <3>1, Zenon DEF DlmsOf
  <2> QED BY <2>2, <2>3, Zenon
<1>8. ASSUME NEW j \in 1..Len(e), NEW k \in 1..Len(e), j < k,
             NEW u \in Range(e[j].vmas), NEW w \in Range(e[k].vmas)
      PROVE  u.start < w.start
  <2>1. j \in 1..n /\ e[j] = d[j]
    BY <1>1, <1>4, <1>8
  <2>2. CASE k = n + 1
    <3>1. w = v /\ u \in seen
      BY <1>3, <1>4, <1>5, <2>1, <2>2, Zenon
    <3> QED BY <3>1, Zenon
  <2>3. CASE k # n + 1
    <3>1. k \in 1..n /\ e[k] = d[k]
      BY <1>1, <1>4, <2>3
    <3> QED BY <1>8, <2>1, <3>1, Zenon DEF DlmsOf
  <2> QED BY <2>2, <2>3, Zenon
<1>9. ASSUME NEW w \in seen \union {v}, w.path # NoFile
      PROVE  \E k \in 1..Len(e) : w \in Range(e[k].vmas)
  <2>1. CASE w = v
    <3>1. n + 1 \in 1..Len(e) /\ w \in Range(e[n + 1].vmas)
      BY <1>1, <1>3, <1>4, <2>1
    <3> QED BY <3>1, Zenon
  <2>2. CASE w \in seen
    <3>1. PICK k \in 1..n : w \in Range(d[k].vmas)
      BY <1>9, <2>2, Zenon DEF DlmsOf
    <3>2. k \in 1..Len(e) /\ e[k] = d[k]
      BY <1>1, <1>4
    <3> QED BY <3>1, <3>2, Zenon
  <2> QED BY <2>1, <2>2, Zenon
<1>10. DlmsOf(e, m, seen \union {v})
  BY <1>4, <1>6, <1>7, <1>8, <1>9, Zenon DEF DlmsOf
<1> QED BY <1>10, Zenon DEF e, o

(* The same: the mapping belongs to the last object. *)
LEMMA CollectSame ==
  ASSUME NEW m, Apart(m), NEW seen, seen \subseteq m, NEW d, DlmsOf(d, m, seen),
         NEW v \in m, v.path # NoFile, d # <<>>, d[Len(d)].path = v.path,
         \A u \in seen : u.start < v.start
  PROVE  DlmsOf([d EXCEPT ![Len(d)].vmas = add_vma_sorted(@, v)], m, seen \union {v})
<1> DEFINE n == Len(d)
           list == d[n].vmas
           new == add_vma_sorted(list, v)
           e == [d EXCEPT ![n].vmas = add_vma_sorted(@, v)]
<1>1. d \in Seq(Object(m)) /\ n \in Nat /\ n \in 1..n /\ DOMAIN d = 1..n
  BY DEF DlmsOf
<1>2. d[n] \in Object(m)
  BY <1>1, ElementOf, Zenon
<1>3. list \in Seq(m) /\ d[n].path = v.path
  BY <1>2, Zenon DEF Object
<1>4. \A k \in 1..n : /\ d[k].vmas # <<>>
                      /\ Ascending(d[k].vmas)
                      /\ d[k].path # NoFile
                      /\ \A w \in Range(d[k].vmas) : w \in seen /\ w.path = d[k].path
  BY Zenon DEF DlmsOf
<1>5. \A w \in m : w.start \in Nat
  BY Zenon DEF Apart
<1>6. \A w \in Range(list) : w \in seen /\ w.path = v.path /\ w.start # v.start
  <2>1. \A w \in Range(list) : w \in seen /\ w.path = v.path
    BY <1>1, <1>3, <1>4, Zenon
  <2> QED BY <1>5, <2>1
<1>7. /\ new \in Seq(m)
      /\ Range(new) = Range(list) \union {v}
      /\ Ascending(list) /\ (\A w \in Range(list) : w.start # v.start) => Ascending(new)
  BY <1>3, <1>5, AddSorted, Zenon
<1>8. Ascending(new) /\ new # <<>>
  <2>1. new # <<>>
    <3>1. v \in Range(new)
      BY <1>7, Zenon
    <3> HIDE DEF new
    <3> QED BY <3>1 DEF Range
  <2> QED BY <1>1, <1>4, <1>6, <1>7, <2>1, Zenon
<1>9. /\ \A k \in 1..n : k # n => e[k] = d[k]
      /\ e[n] = [d[n] EXCEPT !.vmas = new]
      /\ DOMAIN e = 1..n
  BY <1>1, Zenon
<1> HIDE DEF list, new, e
<1>10. e[n].vmas = new /\ e[n].path = v.path /\ e[n] \in Object(m)
  <2> DEFINE x == d[n]
             y == [x EXCEPT !.vmas = new]
  <2> HIDE DEF x
  <2>1. x \in Object(m) /\ new \in Seq(m) /\ x.path = v.path
    BY <1>2, <1>3, <1>7, Zenon DEF x
  <2>2. y \in Object(m) /\ y.vmas = new /\ y.path = v.path
    BY <2>1, Zenon DEF Object
  <2> QED BY <1>9, <2>2, Zenon DEF x
<1>11. e \in Seq(Object(m)) /\ Len(e) = n
  <2>1. \A k \in 1..n : e[k] \in Object(m)
    BY <1>1, <1>9, <1>10, ElementOf, Zenon
  <2>2. e = [k \in 1..n |-> e[k]]
    BY <1>9, Zenon DEF e
  <2> QED BY <1>1, <2>1, <2>2
<1>12. \A k \in 1..n : e[k].path = d[k].path
  BY <1>3, <1>9, <1>10, Zenon
<1>13. ASSUME NEW k \in 1..n
       PROVE  /\ e[k].vmas # <<>>
              /\ Ascending(e[k].vmas)
              /\ e[k].path # NoFile
              /\ \A w \in Range(e[k].vmas) : w \in seen \union {v} /\ w.path = e[k].path
  <2>1. CASE k = n
    BY <1>6, <1>7, <1>8, <1>10, <2>1, Zenon
  <2>2. CASE k # n
    BY <1>4, <1>9, <2>2
  <2> QED BY <2>1, <2>2, Zenon
<1>14. ASSUME NEW k \in 1..n, k < n PROVE e[k].path # e[k + 1].path
  <2>1. k + 1 \in 1..n
    BY <1>1, <1>14
  <2>2. d[k].path # d[k + 1].path
    BY <1>14, Zenon DEF DlmsOf
  <2> QED BY <1>12, <2>1, <2>2, Zenon
<1>15. ASSUME NEW j \in 1..n, NEW k \in 1..n, j < k,
              NEW u \in Range(e[j].vmas), NEW w \in Range(e[k].vmas)
       PROVE  u.start < w.start
  <2>1. e[j] = d[j] /\ u \in seen
    <3>1. j < k
      BY <1>15, Zenon
    <3>2. n \in Nat
      BY <1>1, Zenon
    <3>3. j # n
      <4> HIDE DEF n
      <4> QED BY <3>1, <3>2
    <3> QED BY <1>4, <1>9, <3>3, Zenon
  <2>2. CASE w \in Range(d[k].vmas)
    BY <1>15, <2>1, <2>2, Zenon DEF DlmsOf
  <2>3. CASE w \notin Range(d[k].vmas)
    <3>1. k = n
      BY <1>9, <2>3, Zenon
    <3>2. w = v
      BY <1>7, <1>10, <2>3, <3>1, Zenon DEF list
    <3> QED BY <2>1, <3>2, Zenon
  <2> QED BY <2>2, <2>3, Zenon
<1>16. ASSUME NEW w \in seen \union {v}, w.path # NoFile
       PROVE  \E k \in 1..n : w \in Range(e[k].vmas)
  <2>1. CASE w = v
    <3>1. w \in Range(e[n].vmas)
      BY <1>7, <1>10, <2>1, Zenon
    <3> QED BY <1>1, <3>1, Zenon
  <2>2. CASE w \in seen
    <3>1. PICK k \in 1..n : w \in Range(d[k].vmas)
      BY <1>16, <2>2, Zenon DEF DlmsOf
    <3>2. w \in Range(e[k].vmas)
      BY <1>7, <1>9, <1>10, <3>1, Zenon DEF list
    <3> QED BY <3>2, Zenon
  <2> QED BY <2>1, <2>2, Zenon
<1>17. DlmsOf(e, m, seen \union {v})
  BY <1>11, <1>13, <1>14, <1>15, <1>16, Zenon DEF DlmsOf
<1> QED BY <1>17, Zenon DEF e

(* f[n]: the objects after n rounds of collect_dl_maps. *)
Collecting(f, list) ==
  f = [n \in 0..Len(list) |->
         IF n = 0 THEN <<>> ELSE collect_dl_map_vma(f[n - 1], list[n])]

(* collect_dl_maps is its loop: one collect_dl_map_vma for each mapping of *)
(* the list.                                                               *)
LEMMA CollectRounds ==
  ASSUME NEW list, Len(list) \in Nat
  PROVE  \E f : /\ f[0] = <<>>
                /\ \A n \in 1..Len(list) : f[n] = collect_dl_map_vma(f[n - 1], list[n])
                /\ collect_dl_maps(list) = f[Len(list)]
<1> DEFINE L == Len(list)
           Part(g, n) == /\ g[0] = <<>>
                         /\ \A k \in 1..n : g[k] = collect_dl_map_vma(g[k - 1], list[k])
           S == {n \in Nat : \E g : Part(g, n)}
<1>1. 0 \in S
  <2>1. Part([k \in 0..0 |-> <<>>], 0)
    OBVIOUS
  <2> QED BY <2>1, Zenon
<1>2. ASSUME NEW n \in Nat, n \in S PROVE n + 1 \in S
  <2>1. PICK g : Part(g, n)
    BY <1>2, Zenon
  <2> DEFINE h == [k \in 0..(n + 1) |->
                     IF k = n + 1 THEN collect_dl_map_vma(g[n], list[k]) ELSE g[k]]
  <2>2. h[0] = <<>>
    BY <2>1
  <2>3. ASSUME NEW k \in 1..(n + 1) PROVE h[k] = collect_dl_map_vma(h[k - 1], list[k])
    <3>1. CASE k = n + 1
      <4>1. h[k] = collect_dl_map_vma(g[n], list[k]) /\ h[k - 1] = g[n]
        BY <3>1
      <4> QED BY <4>1, Zenon
    <3>2. CASE k # n + 1
      <4>1. h[k] = g[k] /\ h[k - 1] = g[k - 1] /\ k \in 1..n
        BY <3>2
      <4> QED BY <2>1, <4>1, Zenon
    <3> QED BY <3>1, <3>2, Zenon
  <2>4. Part(h, n + 1)
    BY <2>2, <2>3, Zenon
  <2> HIDE DEF h
  <2> QED BY <2>4
<1>3. PICK g : Part(g, L)
  <2> HIDE DEF S
  <2>1. L \in S
    BY <1>1, <1>2, Rounds, Zenon
  <2> QED BY <2>1, Zenon DEF S
<1> DEFINE f0 == [n \in 0..L |-> g[n]]
<1>4. Collecting(f0, list)
  <2>1. ASSUME NEW n \in 0..L
        PROVE  f0[n] = IF n = 0 THEN <<>> ELSE collect_dl_map_vma(f0[n - 1], list[n])
    <3>1. CASE n = 0
      BY <1>3, <3>1, Zenon
    <3>2. CASE n # 0
      <4>1. f0[n] = g[n] /\ f0[n - 1] = g[n - 1] /\ n \in 1..L
        BY <3>2
      <4> QED BY <1>3, <3>2, <4>1, Zenon
    <3> QED BY <3>1, <3>2, Zenon
  <2> QED BY <2>1, Zenon DEF Collecting
<1> DEFINE f == CHOOSE f : Collecting(f, list)
<1>5. Collecting(f, list)
  BY <1>4, Zenon
<1>6. collect_dl_maps(list) = f[Len(list)]
  BY Zenon DEF Collecting, collect_dl_maps
<1> HIDE DEF f
<1>7. f[0] = <<>> /\ \A n \in 1..Len(list) : f[n] = collect_dl_map_vma(f[n - 1], list[n])
  BY <1>5 DEF Collecting
<1> QED BY <1>6, <1>7, Zenon

(* collect_dl_maps, when the mappings come in order. *)
LEMMA DlMapsOf ==
  ASSUME NEW m, Apart(m), NEW list \in Seq(m), Ascending(list)
  PROVE  DlmsOf(collect_dl_maps(list), m, Range(list))
<1> DEFINE L == Len(list)
           First(n) == {list[i] : i \in 1..n}
<1>1. L \in Nat /\ DOMAIN list = 1..L
  OBVIOUS
<1>2. PICK f : /\ f[0] = <<>>
               /\ \A n \in 1..L : f[n] = collect_dl_map_vma(f[n - 1], list[n])
               /\ collect_dl_maps(list) = f[L]
  BY <1>1, CollectRounds, Zenon
<1> DEFINE Good(n) == DlmsOf(f[n], m, First(n))
           S == {n \in Nat : n <= L => Good(n)}
<1>3. 0 \in S
  <2>1. First(0) = {}
    OBVIOUS
  <2>2. DlmsOf(<<>>, m, {})
    BY DEF DlmsOf
  <2>3. Good(0)
    BY <1>2, <2>1, <2>2, Zenon
  <2> HIDE DEF Good
  <2> QED BY <2>3, Zenon
<1>4. ASSUME NEW n \in Nat, n \in S PROVE n + 1 \in S
  <2> SUFFICES ASSUME n + 1 <= L PROVE Good(n + 1)
    OBVIOUS
  <2> DEFINE v == list[n + 1]
             d == f[n]
             seen == First(n)
  <2>1. n + 1 \in 1..L /\ n <= L
    BY <1>1
  <2>2. DlmsOf(d, m, seen) /\ v \in m
    <3>1. Good(n)
      <4> HIDE DEF Good
      <4> QED BY <1>4, <2>1, Zenon
    <3>2. v \in m
      BY <2>1, ElementOf, Zenon
    <3> QED BY <3>1, <3>2, Zenon
  <2>3. f[n + 1] = collect_dl_map_vma(d, v)
    <3>1. (n + 1) - 1 = n
      OBVIOUS
    <3> QED BY <1>2, <2>1, <3>1, Zenon
  <2>4. First(n + 1) = seen \union {v}
    <3>1. 1..(n + 1) = (1..n) \union {n + 1}
      OBVIOUS
    <3> QED BY <3>1, Zenon
  <2>5. seen \subseteq m /\ \A u \in seen : u.start < v.start
    <3>1. ASSUME NEW i \in 1..n PROVE list[i] \in m /\ list[i].start < v.start
      <4>1. i \in 1..L /\ i < n + 1
        BY <1>1, <2>1
      <4> QED BY <2>1, <4>1, ElementOf, Zenon DEF Ascending
    <3> QED BY <3>1, Zenon
  <2> HIDE DEF v, d, seen
  <2>6. DlmsOf(collect_dl_map_vma(d, v), m, seen \union {v})
    <3>1. CASE v.path = NoFile
      <4>1. collect_dl_map_vma(d, v) = d
        BY <3>1, Zenon DEF collect_dl_map_vma
      <4>2. DlmsOf(d, m, seen \union {v})
        BY <2>2, <3>1, Zenon DEF DlmsOf
      <4> QED BY <4>1, <4>2, Zenon
    <3>2. CASE v.path # NoFile /\ (d = <<>> \/ d[Len(d)].path # v.path)
      <4>1. collect_dl_map_vma(d, v) = Append(d, [path |-> v.path, vmas |-> <<v>>])
        BY <3>2, Zenon DEF collect_dl_map_vma
      <4>2. DlmsOf(Append(d, [path |-> v.path, vmas |-> <<v>>]), m, seen \union {v})
        BY <2>2, <2>5, <3>2, CollectNew, Zenon
      <4> QED BY <4>1, <4>2, Zenon
    <3>3. CASE v.path # NoFile /\ d # <<>> /\ d[Len(d)].path = v.path
      <4>1. collect_dl_map_vma(d, v)
              = [d EXCEPT ![Len(d)].vmas = add_vma_sorted(@, v)]
        BY <3>3, Zenon DEF collect_dl_map_vma
      <4>2. DlmsOf([d EXCEPT ![Len(d)].vmas = add_vma_sorted(@, v)], m, seen \union {v})
        BY <2>2, <2>5, <3>3, CollectSame, Zenon
      <4> QED BY <4>1, <4>2, Zenon
    <3> QED BY <3>1, <3>2, <3>3, Zenon
  <2> QED BY <2>3, <2>4, <2>6, Zenon
<1>5. Good(L)
  <2>1. L \in S
    <3> HIDE DEF S
    <3> QED BY <1>1, <1>3, <1>4, Rounds, Zenon
  <2> HIDE DEF Good
  <2> QED BY <1>1, <2>1
<1>6. First(L) = Range(list)
  BY <1>1, Zenon DEF Range
<1> HIDE DEF First
<1> QED BY <1>2, <1>5, <1>6, Zenon

(* No two mappings of a process start alike, and those that start higher   *)
(* come after the end of the others.                                       *)
LEMMA MapsApart ==
  ASSUME NEW m, MapsOK(m)
  PROVE  Apart(m) /\ \A v, w \in m : v.start < w.start => v.end <= w.start
<1>1. \A v \in m : v.start \in Nat /\ v.end \in Nat /\ v.start < v.end
  BY Powers DEF MapsOK, Addresses
<1>2. \A v, w \in m : v = w \/ w.end <= v.start \/ v.end <= w.start
  BY <1>1 DEF MapsOK, Overlap
<1>3. \A v, w \in m : v.start = w.start => v = w
  BY <1>1, <1>2
<1>4. \A v, w \in m : v.start < w.start => v.end <= w.start
  BY <1>1, <1>2
<1> QED BY <1>1, <1>3, <1>4, Zenon DEF Apart, MapsOK

(* Every object can be the target of a patch. *)
LEMMA ObjectIsTarget ==
  ASSUME NEW m, MapsOK(m), NEW seen, NEW d, DlmsOf(d, m, seen), NEW k \in 1..Len(d)
  PROVE  TargetOK(d[k]) /\ dl_map_end(d[k]) % PageSize = 0
<1> DEFINE s == d[k].vmas
           first == s[1]
           last == s[Len(s)]
<1>1. s \in Seq(m) /\ s # <<>> /\ Ascending(s)
  <2>1. d[k] \in Object(m)
    BY ElementOf, Zenon DEF DlmsOf
  <2> QED BY <2>1, Zenon DEF DlmsOf, Object
<1> HIDE DEF s
<1>2. Len(s) \in Nat /\ 1 \in 1..Len(s) /\ Len(s) \in 1..Len(s)
  BY <1>1
<1>3. first \in m /\ last \in m
  BY <1>1, <1>2, ElementOf, Zenon
<1>4. first = last \/ first.start < last.start
  BY <1>1, <1>2 DEF Ascending
<1> HIDE DEF first, last
<1>5. /\ first.start \in Addresses /\ last.end \in 0..2^LongBits
      /\ last.start \in Addresses /\ last.start < last.end /\ last.end % PageSize = 0
  BY <1>3, Zenon DEF MapsOK
<1>6. first.start < last.end
  <2>1. first.start \in Nat /\ last.start \in Nat /\ last.end \in Nat
    BY <1>5, Powers DEF Addresses
  <2> QED BY <1>4, <1>5, <2>1
<1>7. dl_map_start(d[k]) = first.start /\ dl_map_end(d[k]) = last.end
  BY Zenon DEF dl_map_start, dl_map_end, first, last, s
<1> QED BY <1>5, <1>6, <1>7, Zenon DEF TargetOK

(* find_dl_map_by_bid: the first object of the file. *)
LEMMA FindFirst ==
  ASSUME NEW O, NEW d \in Seq(O), NEW path
  PROVE  LET r == find_dl_map_by_bid(d, path)
         IN  \/ r = <<>> /\ \A k \in 1..Len(d) : d[k].path # path
             \/ /\ r # <<>>
                /\ \E k \in 1..Len(d) : /\ r[1] = d[k]
                                        /\ d[k].path = path
                                        /\ \A j \in 1..Len(d) : j < k => d[j].path # path
<1> DEFINE found == {i \in DOMAIN d : d[i].path = path}
           k == Min(found)
           r == find_dl_map_by_bid(d, path)
<1>1. r = IF found = {} THEN <<>> ELSE <<d[k]>>
  BY Zenon DEF find_dl_map_by_bid, find_dl_map
<1>2. DOMAIN d = 1..Len(d) /\ Len(d) \in Nat
  OBVIOUS
<1>3. CASE found = {}
  <2>1. \A j \in 1..Len(d) : d[j].path # path
    BY <1>2, <1>3, Zenon
  <2> QED BY <1>1, <1>3, <2>1, Zenon
<1>4. CASE found # {}
  <2>1. found \subseteq Nat
    BY <1>2
  <2>2. k \in found
    BY <1>4, <2>1, MinIsIn, Zenon
  <2>3. \A j \in found : k <= j
    BY <2>1, MinIsFirst, Zenon
  <2> HIDE DEF k, r
  <2>4. k \in 1..Len(d) /\ d[k].path = path
    BY <1>2, <2>2, Zenon
  <2>5. ASSUME NEW j \in 1..Len(d), j < k PROVE d[j].path # path
    <3> SUFFICES ASSUME d[j].path = path PROVE FALSE
      BY Zenon
    <3>1. k <= j
      BY <1>2, <2>3, Zenon
    <3> QED BY <1>2, <2>4, <2>5, <3>1
  <2>6. r # <<>> /\ r[1] = d[k]
    BY <1>1, <1>4, Zenon
  <2> QED BY <2>4, <2>5, <2>6, Zenon DEF r
<1> QED BY <1>3, <1>4, Zenon

(* find_dl_map_by_bid gets to all mappings of a file, unless one of        *)
(* another file is among them.                                             *)
LEMMA FirstHasAll ==
  ASSUME NEW m, MapsOK(m), NEW seen, seen \subseteq m, NEW d, DlmsOf(d, m, seen),
         NEW v \in seen, v.path # NoFile
  PROVE  LET r == find_dl_map_by_bid(d, v.path)
         IN  /\ r # <<>>
             /\ \/ v \in Range(r[1].vmas)
                \/ \E u, w \in seen : /\ u.path = v.path
                                      /\ w.path # v.path /\ w.path # NoFile
                                      /\ u.end <= w.start /\ w.end <= v.start
<1> DEFINE r == find_dl_map_by_bid(d, v.path)
<1>1. d \in Seq(Object(m)) /\ Len(d) \in Nat
  BY DEF DlmsOf
<1>2. \A k \in 1..Len(d) : /\ d[k].vmas # <<>>
                           /\ d[k].vmas \in Seq(m)
                           /\ d[k].path # NoFile
                           /\ \A w \in Range(d[k].vmas) : w \in seen /\ w.path = d[k].path
  <2>1. \A k \in 1..Len(d) : d[k] \in Object(m)
    BY <1>1, ElementOf, Zenon
  <2> QED BY <2>1, Zenon DEF DlmsOf, Object
<1>3. PICK l \in 1..Len(d) : v \in Range(d[l].vmas) /\ d[l].path = v.path
  <2>1. PICK l \in 1..Len(d) : v \in Range(d[l].vmas)
    BY Zenon DEF DlmsOf
  <2> QED BY <1>2, <2>1, Zenon
<1>4. /\ r # <<>>
      /\ \E k \in 1..Len(d) : /\ r[1] = d[k]
                              /\ d[k].path = v.path
                              /\ \A j \in 1..Len(d) : j < k => d[j].path # v.path
  <2>1. \/ r = <<>> /\ \A k \in 1..Len(d) : d[k].path # v.path
        \/ /\ r # <<>>
           /\ \E k \in 1..Len(d) : /\ r[1] = d[k]
                                   /\ d[k].path = v.path
                                   /\ \A j \in 1..Len(d) : j < k => d[j].path # v.path
    BY <1>1, FindFirst, ZenonT(30)
  <2> QED BY <1>3, <2>1, Zenon
<1> HIDE DEF r
<1>5. PICK k \in 1..Len(d) : /\ r[1] = d[k]
                             /\ d[k].path = v.path
                             /\ \A j \in 1..Len(d) : j < k => d[j].path # v.path
  BY <1>4, Zenon
<1>6. CASE l = k
  BY <1>3, <1>4, <1>5, <1>6, Zenon DEF r
<1>7. CASE l # k
  <2>1. k < l
    <3>1. ~(l < k)
      BY <1>3, <1>5, Zenon
    <3> QED BY <1>1, <1>7, <3>1
  <2>2. k < Len(d) /\ k + 1 \in 1..Len(d)
    BY <1>1, <2>1
  <2>3. d[k + 1].path # v.path
    BY <1>5, <2>2, Zenon DEF DlmsOf
  <2>4. k + 1 < l
    <3>1. k + 1 # l
      BY <1>3, <2>3, Zenon
    <3> QED BY <1>1, <2>1, <3>1
  <2>5. \A j \in 1..Len(d) : d[j].vmas[1] \in Range(d[j].vmas)
    <3> TAKE j \in 1..Len(d)
    <3>1. d[j].vmas # <<>> /\ d[j].vmas \in Seq(m)
      BY <1>2, Zenon
    <3> QED BY <3>1 DEF Range
  <2> DEFINE u == d[k].vmas[1]
             w == d[k + 1].vmas[1]
  <2>6. /\ u \in seen /\ u.path = v.path /\ u \in Range(d[k].vmas)
        /\ w \in seen /\ w.path # v.path /\ w.path # NoFile /\ w \in Range(d[k + 1].vmas)
    BY <1>2, <1>5, <2>2, <2>3, <2>5, Zenon
  <2> HIDE DEF u, w
  <2>7. k < k + 1
    BY <1>1
  <2>8. u.start < w.start /\ w.start < v.start
    BY <1>3, <2>2, <2>4, <2>6, <2>7, Zenon DEF DlmsOf
  <2>9. u.end <= w.start /\ w.end <= v.start
    BY <2>6, <2>8, MapsApart, Zenon
  <2> QED BY <1>4, <2>6, <2>9, Zenon DEF r
<1> QED BY <1>6, <1>7, Zenon

-----------------------------------------------------------------------------
(* elf.c: the segments of a patch.                                         *)

(* create_elf_vma: a segment is not empty, and ends less than a page       *)
(* behind the page of its last byte.                                       *)
LEMMA SegmentEnd ==
  ASSUME NEW path, NEW p \in [vaddr : Nat, filesz : Nat \ {0}, exec : BOOLEAN]
  PROVE  LET v == create_elf_vma(path, p)
         IN  /\ v \in [start : Nat, end : Nat, path : {path}, exec : BOOLEAN]
             /\ v.start = p.vaddr
             /\ v.start < v.end
             /\ v.end < PageAlign(p.vaddr + p.filesz) + PageSize
             /\ PageStart(p.vaddr) + PageSize <= v.end
             /\ p.vaddr < PageAlign(p.vaddr + p.filesz)
             /\ PageAlign(p.vaddr + p.filesz) \in Int /\ PageStart(p.vaddr) \in Int
             /\ PageStart(p.vaddr) <= p.vaddr
<1> DEFINE a == p.vaddr
           z == p.filesz
           off == a % PageSize
           x == z + off + PageSize - 1
           y == a + z + PageSize - 1
           b == PageStart(a)
           v == create_elf_vma(path, p)
<1>1. PageSize \in Nat \ {0} /\ a \in Nat /\ z \in Nat \ {0}
  BY PlacementAssumption, Zenon
<1>2. off \in 0..(PageSize - 1) /\ b = a - off
  BY <1>1 DEF PageStart
<1>3. v = Vma(a, a + PageStart(x), path, p.exec) /\ PageAlign(a + z) = PageStart(y)
  BY Zenon DEF create_elf_vma, PageAlign
<1> HIDE DEF a, z, off, b, v
<1>4. x \in Int /\ y \in Int /\ b \in Int /\ y = x + b
  BY <1>1, <1>2
<1>5. PageStart(y) = PageStart(x) + b
  <2>1. b % PageSize = 0
    <3>1. a \in Int
      BY <1>1
    <3> QED BY <3>1, OnPage, Zenon DEF b
  <2> HIDE DEF x, y
  <2> QED BY <1>4, <2>1, PageShift, Zenon
<1>6. PageStart(x) \in Int /\ x - PageSize < PageStart(x)
  <2>1. x % PageSize \in 0..(PageSize - 1)
    BY <1>1, <1>4
  <2> HIDE DEF x
  <2> QED BY <1>1, <1>4, <2>1 DEF PageStart
<1>7. PageSize <= PageStart(x)
  <2>1. PageStart(PageSize) = PageSize
    <3>1. PageSize \in Int /\ PageSize = PageSize * 1 + 0 /\ 0 \in 0..(PageSize - 1)
      BY <1>1
    <3>2. PageSize % PageSize = 0
      BY <1>1
    <3> QED BY <1>1, <3>2 DEF PageStart
  <2>2. PageSize \in Int /\ PageSize <= x
    BY <1>1, <1>2
  <2> HIDE DEF x
  <2>3. PageStart(PageSize) <= PageStart(x)
    BY <1>4, <2>2, PageStartOrder, Zenon
  <2> QED BY <2>1, <2>3, Zenon
<1>8. v.start = a /\ v.end = a + PageStart(x) /\ v.path = path /\ v.exec = p.exec
  BY <1>3, Zenon DEF Vma
<1> DEFINE s == PageStart(x)
<1>9. x - PageSize < s /\ PageSize <= s /\ s \in Int /\ PageAlign(a + z) = s + b
  BY <1>3, <1>5, <1>6, <1>7, Zenon
<1> HIDE DEF s
<1>10. a + s \in Nat /\ a < a + s /\ a < s + b /\ b <= a /\ b + PageSize <= a + s
       /\ a + s < s + b + PageSize
  BY <1>1, <1>2, <1>4, <1>9
<1>11. v \in [start : Nat, end : Nat, path : {path}, exec : BOOLEAN]
  <2>1. p.exec \in BOOLEAN
    BY Zenon
  <2>2. v = Vma(a, a + s, path, p.exec)
    BY <1>3, Zenon DEF s
  <2> QED BY <1>1, <1>10, <2>1, <2>2, Zenon DEF Vma
<1> QED BY <1>4, <1>8, <1>9, <1>10, <1>11 DEF a, z, b, v, s

(* Each segment has at least a byte. *)
NotEmpty(dlm) == \A n \in 1..Len(dlm.vmas) : dlm.vmas[n].start < dlm.vmas[n].end

(* create_elf_mmaps: what pin_elf_mmaps expects. *)
LEMMA PatchSegments ==
  ASSUME NEW p, NEW hs, PhdrsOK(hs)
  PROVE  LET dlm == create_elf_mmaps(p, hs)
         IN  /\ PatchOK(dlm)
             /\ dlm.path = p
             /\ NotEmpty(dlm)
<1> DEFINE Header == [vaddr : Nat, filesz : Nat \ {0}, exec : BOOLEAN]
           Segment == [start : Nat, end : Nat, path : {p}, exec : BOOLEAN]
           L == Len(hs)
           from == [n \in 1..L |-> create_elf_vma(p, hs[n])]
           to == <<>>
           r == splice_vma_lists_sorted(from, to)
           dlm == create_elf_mmaps(p, hs)
<1>1. dlm = [path |-> p, vmas |-> r]
  BY Zenon DEF create_elf_mmaps
<1>2. /\ hs \in Seq(Header) /\ L \in Nat /\ hs # <<>> /\ 1 \in 1..L
      /\ hs[1].vaddr < PageSize
      /\ \A i, j \in 1..L : i < j => PageAlign(hs[i].vaddr + hs[i].filesz)
                                       <= PageStart(hs[j].vaddr)
  <2>1. hs \in Seq(Header) /\ hs # <<>>
    BY Zenon DEF PhdrsOK
  <2> QED BY <2>1 DEF PhdrsOK
<1>3. ASSUME NEW n \in 1..L
      PROVE  /\ from[n] \in Segment
             /\ from[n].start = hs[n].vaddr
             /\ from[n].start < from[n].end
             /\ from[n].end < PageAlign(hs[n].vaddr + hs[n].filesz) + PageSize
             /\ PageStart(hs[n].vaddr) + PageSize <= from[n].end
             /\ hs[n].vaddr < PageAlign(hs[n].vaddr + hs[n].filesz)
             /\ PageAlign(hs[n].vaddr + hs[n].filesz) \in Int
             /\ PageStart(hs[n].vaddr) \in Int
             /\ PageStart(hs[n].vaddr) <= hs[n].vaddr
             /\ hs[n].vaddr \in Nat
             /\ (from[n].end - from[n].start) % PageSize = 0
  <2>1. hs[n] \in Header
    BY <1>2, ElementOf, Zenon
  <2>2. from[n] = create_elf_vma(p, hs[n])
    BY Zenon
  <2>3. hs[n].vaddr \in Nat /\ hs[n].filesz \in Nat
    BY <2>1, Zenon
  <2> HIDE DEF from
  <2>4. (from[n].end - from[n].start) % PageSize = 0
    BY <2>2, <2>3, SegmentLength, Zenon
  <2> QED BY <2>1, <2>2, <2>3, <2>4, SegmentEnd, SMTT(30)
<1>4. from \in Seq(Segment) /\ Len(from) = L /\ DOMAIN from = 1..L
  <2>1. \A n \in 1..L : from[n] \in Segment
    BY <1>3, Zenon
  <2>2. from = [n \in 1..L |-> from[n]]
    BY Zenon
  <2> HIDE DEF from, Segment
  <2> QED BY <1>2, <2>1, <2>2
<1> HIDE DEF from
<1>5. ASSUME NEW i \in 1..L, NEW j \in 1..L, i < j
      PROVE  from[i].start < from[j].start /\ from[i].end <= from[j].end
  <2>1. PageAlign(hs[i].vaddr + hs[i].filesz) <= PageStart(hs[j].vaddr)
    BY <1>2, <1>5, Zenon
  <2>2. PageSize \in Nat /\ from[i].end \in Nat /\ from[j].end \in Nat
    BY <1>3, PlacementAssumption, Zenon
  <2>3. from[i].start < from[j].start
    BY <1>3, <2>1, SMTT(30)
  <2>4. from[i].end <= from[j].end
    <3> DEFINE e == PageAlign(hs[i].vaddr + hs[i].filesz)
               b == PageStart(hs[j].vaddr)
    <3>1. e \in Int /\ b \in Int /\ e <= b /\ from[i].end < e + PageSize
          /\ b + PageSize <= from[j].end
      BY <1>3, <2>1, Zenon
    <3> HIDE DEF e, b
    <3> QED BY <2>2, <3>1, SMTT(30)
  <2> QED BY <2>3, <2>4, Zenon
<1>6. \A i, j \in 1..Len(from) : from[i].start = from[j].start => i = j
  <2> SUFFICES ASSUME NEW i \in 1..L, NEW j \in 1..L, from[i].start = from[j].start,
                      i # j
               PROVE  FALSE
    BY <1>4, Zenon
  <2>1. from[i].start \in Nat
    BY <1>3, Zenon
  <2>2. CASE i < j
    BY <1>5, <2>1, <2>2
  <2>3. CASE j < i
    BY <1>5, <2>1, <2>3
  <2> QED BY <1>2, <2>2, <2>3
<1>7. /\ to \in Seq(Segment) /\ Ascending(to) /\ Range(to) = {}
      /\ \A v \in Range(from), w \in Range(to) : v.start # w.start
  BY DEF Range, Ascending
<1>8. \A w \in Segment : w.start \in Nat
  BY Zenon
<1> HIDE DEF to, Segment
<1>9. r \in Seq(Segment) /\ Range(r) = Range(from) /\ Ascending(r)
  <2>1. /\ r \in Seq(Segment)
        /\ Range(r) = Range(from) \union Range(to)
        /\ /\ Ascending(to)
           /\ \A i, j \in 1..Len(from) : from[i].start = from[j].start => i = j
           /\ \A v \in Range(from), w \in Range(to) : v.start # w.start
           => Ascending(r)
    <3>1. from \in Seq(Segment) /\ to \in Seq(Segment)
      BY <1>4, <1>7, Zenon
    <3> QED BY <1>8, <3>1, SpliceSorted, Zenon
  <2>2. Range(from) \union Range(to) = Range(from)
    BY <1>7, Zenon
  <2> QED BY <1>6, <1>7, <2>1, <2>2, Zenon
<1> HIDE DEF r
<1> DEFINE K == Len(r)
<1>10. K \in Nat /\ DOMAIN r = 1..K
  BY <1>9
<1>11. \A n \in 1..K : \E i \in 1..L : r[n] = from[i]
  BY <1>4, <1>9, <1>10, Zenon DEF Range
<1>12. PICK k \in 1..K : r[k] = from[1]
  BY <1>2, <1>4, <1>9, <1>10, Zenon DEF Range
<1>13. r # <<>> /\ 1 \in 1..K /\ K \in 1..K
  BY <1>10, <1>12
<1>14. \A n \in 1..K : r[n].start \in Nat /\ r[n].end \in Nat
  <2>1. \A n \in 1..K : r[n] \in Segment
    BY <1>9, ElementOf, Zenon
  <2> QED BY <2>1, Zenon DEF Segment
<1>15. r[1].start < PageSize
  <2>1. r[k].start < PageSize
    BY <1>2, <1>3, <1>12, Zenon
  <2>2. k = 1 \/ r[1].start < r[k].start
    BY <1>9, <1>10, <1>12, <1>13 DEF Ascending
  <2> QED BY <1>13, <1>14, <2>1, <2>2, PlacementAssumption, SMTT(30)
<1>16. ASSUME NEW n \in 1..K
       PROVE  /\ (r[n].end - r[n].start) % PageSize = 0
              /\ r[n].start < r[n].end
              /\ r[n].end <= r[K].end
  <2>1. PICK i \in 1..L : r[n] = from[i]
    BY <1>11, Zenon
  <2>2. PICK j \in 1..L : r[K] = from[j]
    BY <1>11, <1>13, ZenonT(30)
  <2>3. n = K \/ r[n].start < r[K].start
    <3>1. n = K \/ n < K
      BY <1>10, BelowTop, Zenon
    <3> QED BY <1>9, <1>13, <3>1, Zenon DEF Ascending
  <2>4. r[n].end <= r[K].end
    <3>1. CASE n = K
      BY <1>14, <3>1
    <3>2. CASE r[n].start < r[K].start
      <4>1. i # j /\ ~(j < i)
        BY <1>5, <1>14, <2>1, <2>2, <3>2, <1>13, SMTT(30)
      <4>2. i < j
        BY <1>2, <4>1
      <4> QED BY <1>5, <2>1, <2>2, <4>2, Zenon
    <3> QED BY <2>3, <3>1, <3>2, Zenon
  <2> QED BY <1>3, <2>1, <2>4, Zenon
<1>17. /\ dlm.vmas = r /\ dlm.path = p
       /\ dl_map_start(dlm) = r[1].start /\ dl_map_end(dlm) = r[K].end
  BY <1>1 DEF dl_map_start, dl_map_end
<1> HIDE DEF dlm, K
<1>18. PatchOK(dlm)
  <2>1. dlm.vmas \in Seq([start : Nat, end : Nat, path : {dlm.path}, exec : BOOLEAN])
    BY <1>9, <1>17, Zenon DEF Segment
  <2> QED BY <1>13, <1>15, <1>16, <1>17, <2>1, Zenon DEF PatchOK, K
<1>19. NotEmpty(dlm)
  BY <1>16, <1>17, Zenon DEF NotEmpty, K
<1> QED BY <1>17, <1>18, <1>19, Zenon DEF dlm

-----------------------------------------------------------------------------
(* The address space.                                                      *)

(* A mapping at whole pages of the address space. *)
VmaOK(v) ==
  /\ v = Vma(v.start, v.end, v.path, v.exec)
  /\ v.start \in Addresses
  /\ v.end \in 0..2^LongBits
  /\ v.start < v.end
  /\ v.start % PageSize = 0
  /\ v.end % PageSize = 0

Within(u, w) == u.path = w.path /\ w.start <= u.start /\ u.end <= w.end

(* MapFixed: what remains of the mapping w. *)
LEMMA Pieces ==
  ASSUME NEW v, VmaOK(v), NEW w, VmaOK(w)
  PROVE  LET left == Vma(w.start, Min({w.end, v.start}), w.path, w.exec)
             right == Vma(Max({w.start, v.end}), w.end, w.path, w.exec)
         IN  /\ left.start < left.end
                  => VmaOK(left) /\ Within(left, w) /\ left.end <= v.start
             /\ right.start < right.end
                  => VmaOK(right) /\ Within(right, w) /\ v.end <= right.start
             /\ ~Overlap(v, w)
                  => /\ (left.start < left.end => left = w)
                     /\ (right.start < right.end => right = w)
                     /\ (left.start < left.end \/ right.start < right.end)
<1> DEFINE left == Vma(w.start, Min({w.end, v.start}), w.path, w.exec)
           right == Vma(Max({w.start, v.end}), w.end, w.path, w.exec)
           e == Min({w.end, v.start})
           s == Max({w.start, v.end})
<1>1. /\ v.start \in Nat /\ v.end \in Nat /\ v.start < v.end
      /\ w.start \in Nat /\ w.end \in Nat /\ w.start < w.end
  BY Powers DEF VmaOK, Addresses
<1>2. e = IF w.end < v.start THEN w.end ELSE v.start
  BY <1>1, MinOfTwo, Zenon
<1>3. s = IF w.start > v.end THEN w.start ELSE v.end
  BY <1>1, MaxOfTwo, Zenon
<1>4. /\ left.start = w.start /\ left.end = e /\ left.path = w.path /\ left.exec = w.exec
      /\ right.start = s /\ right.end = w.end /\ right.path = w.path /\ right.exec = w.exec
      /\ left = Vma(left.start, left.end, left.path, left.exec)
      /\ right = Vma(right.start, right.end, right.path, right.exec)
  BY Zenon DEF Vma
<1>5. w = Vma(w.start, w.end, w.path, w.exec)
  BY Zenon DEF VmaOK
<1>6. left = Vma(w.start, e, w.path, w.exec) /\ right = Vma(s, w.end, w.path, w.exec)
  BY Zenon
<1> HIDE DEF left, right, e, s
<1>7. ASSUME left.start < left.end
      PROVE  VmaOK(left) /\ Within(left, w) /\ left.end <= v.start
  <2>1. e % PageSize = 0 /\ e \in 0..2^LongBits
    BY <1>1, <1>2, Powers, SMTT(30) DEF VmaOK, Addresses
  <2>2. left.end <= v.start /\ left.end <= w.end /\ w.start <= left.start
    BY <1>1, <1>2, <1>4
  <2> QED BY <1>4, <1>7, <2>1, <2>2, Zenon DEF VmaOK, Within
<1>8. ASSUME right.start < right.end
      PROVE  VmaOK(right) /\ Within(right, w) /\ v.end <= right.start
  <2>1. s \in Addresses
    <3>1. s \in Nat /\ s < w.end /\ w.end <= 2^LongBits /\ 2^LongBits \in Nat
      BY <1>1, <1>3, <1>4, <1>8, Powers, SMTT(30) DEF VmaOK
    <3> QED BY <1>1, <3>1 DEF Addresses
  <2>2. s % PageSize = 0
    BY <1>3, Zenon DEF VmaOK
  <2>3. v.end <= right.start /\ w.start <= right.start /\ right.end <= w.end
    BY <1>1, <1>3, <1>4
  <2> QED BY <1>4, <1>8, <2>1, <2>2, <2>3, Zenon DEF VmaOK, Within
<1>9. ASSUME ~Overlap(v, w)
      PROVE  /\ (left.start < left.end => left = w)
             /\ (right.start < right.end => right = w)
             /\ (left.start < left.end \/ right.start < right.end)
  <2>1. w.end <= v.start \/ v.end <= w.start
    BY <1>1, <1>9 DEF Overlap
  <2>2. CASE w.end <= v.start
    <3>1. e = w.end /\ ~(right.start < right.end)
      BY <1>1, <1>2, <1>3, <1>4, <2>2, SMTT(30)
    <3> QED BY <1>1, <1>4, <1>5, <1>6, <3>1, Zenon
  <2>3. CASE v.end <= w.start
    <3>1. s = w.start /\ ~(left.start < left.end)
      BY <1>1, <1>2, <1>3, <1>4, <2>3, SMTT(30)
    <3> QED BY <1>1, <1>4, <1>5, <1>6, <3>1, Zenon
  <2> QED BY <2>1, <2>2, <2>3, Zenon
<1> QED BY <1>7, <1>8, <1>9, Zenon DEF left, right

(* MapFixed: the mappings of a process stay in order, those that are not   *)
(* below the new one stay, and nothing else gets there.                    *)
LEMMA MapFixedOK ==
  ASSUME NEW m, MapsOK(m), NEW v, VmaOK(v)
  PROVE  LET r == MapFixed(m, v)
         IN  /\ MapsOK(r)
             /\ v \in r
             /\ \A w \in m : ~Overlap(v, w) => w \in r
             /\ \A u \in r : u = v \/ \E w \in m : /\ Within(u, w)
                                                   /\ ~Overlap(v, w) => u = w
<1> DEFINE Left(w) == Vma(w.start, Min({w.end, v.start}), w.path, w.exec)
           Right(w) == Vma(Max({w.start, v.end}), w.end, w.path, w.exec)
           rest(w) == {u \in {Left(w), Right(w)} : u.start < u.end}
           r == MapFixed(m, v)
<1>1. r = {v} \union UNION {rest(w) : w \in m}
  BY Zenon DEF MapFixed
<1>2. \A w \in m : VmaOK(w)
  BY Zenon DEF MapsOK, VmaOK
<1>3. ASSUME NEW w \in m
      PROVE  /\ Left(w).start < Left(w).end
                  => VmaOK(Left(w)) /\ Within(Left(w), w) /\ Left(w).end <= v.start
             /\ Right(w).start < Right(w).end
                  => VmaOK(Right(w)) /\ Within(Right(w), w) /\ v.end <= Right(w).start
             /\ ~Overlap(v, w)
                  => /\ (Left(w).start < Left(w).end => Left(w) = w)
                     /\ (Right(w).start < Right(w).end => Right(w) = w)
                     /\ (Left(w).start < Left(w).end \/ Right(w).start < Right(w).end)
  BY <1>2, Pieces, Zenon
<1>4. IsFiniteSet(r)
  <2> DEFINE A == {Left(w) : w \in m}
             B == {Right(w) : w \in m}
             f == [w \in m |-> Left(w)]
             g == [w \in m |-> Right(w)]
  <2>1. IsFiniteSet(m)
    BY Zenon DEF MapsOK
  <2>2. r \subseteq {v} \union (A \union B)
    BY <1>1, Zenon
  <2> HIDE DEF Left, Right
  <2>3. f \in Surjection(m, A)
    BY Zenon DEF Surjection
  <2>4. g \in Surjection(m, B)
    BY Zenon DEF Surjection
  <2> HIDE DEF A, B, f, g, r
  <2>5. IsFiniteSet(A) /\ IsFiniteSet(B)
    BY <2>1, <2>3, <2>4, FS_Surjection, Zenon
  <2>6. IsFiniteSet((A \union B) \union {v})
    <3>1. IsFiniteSet(A \union B)
      BY <2>5, FS_Union, Zenon
    <3> QED BY <3>1, FS_AddElement, Zenon
  <2>7. r \in SUBSET ((A \union B) \union {v})
    BY <2>2, Zenon
  <2> QED BY <2>6, <2>7, FS_Subset, Zenon
<1> HIDE DEF r, Left, Right
<1>5. \A u \in r : u = v \/ \E w \in m : u \in {Left(w), Right(w)} /\ u.start < u.end
  BY <1>1, Zenon
<1>6. \A w \in m : /\ (Left(w).start < Left(w).end => Left(w) \in r)
                   /\ (Right(w).start < Right(w).end => Right(w) \in r)
  BY <1>1
<1>7. v \in r
  BY <1>1, Zenon
<1>8. \A w \in m : ~Overlap(v, w) => w \in r
  BY <1>3, <1>6, Zenon
<1>9. ASSUME NEW u \in r
      PROVE  u = v \/ \E w \in m : Within(u, w) /\ (~Overlap(v, w) => u = w)
  BY <1>3, <1>5, Zenon
<1>10. \A u \in r : VmaOK(u)
  BY <1>3, <1>5, Zenon
<1>11. \A u \in r : u.start \in Nat /\ u.end \in Nat
  BY <1>10, Powers DEF VmaOK, Addresses
<1>12. \A w \in m : w.start \in Nat /\ w.end \in Nat
  BY <1>2, Powers DEF VmaOK, Addresses
<1>13. \A u \in r : u = v \/ u.end <= v.start \/ v.end <= u.start
  BY <1>3, <1>5, Zenon
<1>14. ASSUME NEW u \in r, NEW x \in r, u # x PROVE ~Overlap(u, x)
  <2>1. CASE u = v \/ x = v
    BY <1>7, <1>11, <1>13, <1>14, <2>1, SMTT(30) DEF Overlap
  <2>2. CASE u # v /\ x # v
    <3>1. PICK w \in m : u \in {Left(w), Right(w)} /\ u.start < u.end
      BY <1>5, <2>2, Zenon
    <3>2. PICK y \in m : x \in {Left(y), Right(y)} /\ x.start < x.end
      BY <1>5, <2>2, Zenon
    <3>3. Within(u, w) /\ Within(x, y)
      BY <1>3, <3>1, <3>2, Zenon
    <3>4. CASE w # y
      <4>1. w.end <= y.start \/ y.end <= w.start
        <5>1. ~Overlap(w, y)
          BY <3>4, Zenon DEF MapsOK
        <5> QED BY <1>12, <5>1 DEF Overlap
      <4> QED BY <1>11, <1>12, <3>3, <4>1, SMTT(30) DEF Overlap, Within
    <3>5. CASE w = y
      <4>1. \/ u = Left(w) /\ x = Right(w)
            \/ x = Left(w) /\ u = Right(w)
        BY <1>14, <3>1, <3>2, <3>5, Zenon
      <4>2. \/ u.end <= v.start /\ v.end <= x.start
            \/ x.end <= v.start /\ v.end <= u.start
        BY <1>3, <3>1, <3>2, <4>1, Zenon
      <4> QED BY <1>7, <1>10, <1>11, <4>2, SMTT(30) DEF Overlap, VmaOK
    <3> QED BY <3>4, <3>5, Zenon
  <2> QED BY <2>1, <2>2, Zenon
<1>15. MapsOK(r)
  BY <1>4, <1>10, <1>14, Zenon DEF MapsOK, VmaOK
<1> QED BY <1>7, <1>8, <1>9, <1>15, Zenon DEF r

(* f[n]: the mappings after n segments. *)
Mapping(f, m, segs) ==
  f = [n \in 0..Len(segs) |-> IF n = 0 THEN m ELSE MapFixed(f[n - 1], segs[n])]

(* process_mmap_dl_map is its loop: one mapping for each segment. *)
LEMMA MapRounds ==
  ASSUME NEW m, NEW segs, Len(segs) \in Nat
  PROVE  \E f : /\ f[0] = m
                /\ \A n \in 1..Len(segs) : f[n] = MapFixed(f[n - 1], segs[n])
                /\ MapSegments(m, segs) = f[Len(segs)]
<1> DEFINE L == Len(segs)
           Part(g, n) == /\ g[0] = m
                         /\ \A k \in 1..n : g[k] = MapFixed(g[k - 1], segs[k])
           S == {n \in Nat : \E g : Part(g, n)}
<1>1. 0 \in S
  <2>1. Part([k \in 0..0 |-> m], 0)
    OBVIOUS
  <2> QED BY <2>1, Zenon
<1>2. ASSUME NEW n \in Nat, n \in S PROVE n + 1 \in S
  <2>1. PICK g : Part(g, n)
    BY <1>2, Zenon
  <2> DEFINE h == [k \in 0..(n + 1) |->
                     IF k = n + 1 THEN MapFixed(g[n], segs[k]) ELSE g[k]]
  <2>2. h[0] = m
    BY <2>1
  <2>3. ASSUME NEW k \in 1..(n + 1) PROVE h[k] = MapFixed(h[k - 1], segs[k])
    <3>1. CASE k = n + 1
      <4>1. h[k] = MapFixed(g[n], segs[k]) /\ h[k - 1] = g[n]
        BY <3>1
      <4> QED BY <4>1, Zenon
    <3>2. CASE k # n + 1
      <4>1. h[k] = g[k] /\ h[k - 1] = g[k - 1] /\ k \in 1..n
        BY <3>2
      <4> QED BY <2>1, <4>1, Zenon
    <3> QED BY <3>1, <3>2, Zenon
  <2>4. Part(h, n + 1)
    BY <2>2, <2>3, Zenon
  <2> HIDE DEF h
  <2> QED BY <2>4
<1>3. PICK g : Part(g, L)
  <2> HIDE DEF S
  <2>1. L \in S
    BY <1>1, <1>2, Rounds, Zenon
  <2> QED BY <2>1, Zenon DEF S
<1> DEFINE f0 == [n \in 0..L |-> g[n]]
<1>4. Mapping(f0, m, segs)
  <2>1. ASSUME NEW n \in 0..L
        PROVE  f0[n] = IF n = 0 THEN m ELSE MapFixed(f0[n - 1], segs[n])
    <3>1. CASE n = 0
      BY <1>3, <3>1, Zenon
    <3>2. CASE n # 0
      <4>1. f0[n] = g[n] /\ f0[n - 1] = g[n - 1] /\ n \in 1..L
        BY <3>2
      <4> QED BY <1>3, <3>2, <4>1, Zenon
    <3> QED BY <3>1, <3>2, Zenon
  <2> QED BY <2>1, Zenon DEF Mapping
<1> DEFINE f == CHOOSE f : Mapping(f, m, segs)
<1>5. Mapping(f, m, segs)
  BY <1>4, Zenon
<1>6. MapSegments(m, segs) = f[Len(segs)]
  BY Zenon DEF Mapping, MapSegments
<1> HIDE DEF f
<1>7. f[0] = m /\ \A n \in 1..Len(segs) : f[n] = MapFixed(f[n - 1], segs[n])
  BY <1>5 DEF Mapping
<1> QED BY <1>6, <1>7, Zenon

(* What can be mapped. *)
SegmentsOK(segs) == Len(segs) \in Nat /\ \A n \in 1..Len(segs) : VmaOK(segs[n])

(* The segments of a patch, mapped one after the other. *)
LEMMA MapSegmentsOK ==
  ASSUME NEW m, MapsOK(m), NEW segs, SegmentsOK(segs)
  PROVE  LET r == MapSegments(m, segs)
         IN  /\ MapsOK(r)
             /\ (\A w \in m : \A n \in 1..Len(segs) : ~Overlap(segs[n], w))
                  => /\ m \subseteq r
                     /\ \A u \in r : u \in m \/ \E n \in 1..Len(segs) : Within(u, segs[n])
<1> DEFINE L == Len(segs)
           Apt == \A w \in m : \A n \in 1..L : ~Overlap(segs[n], w)
<1>0. L \in Nat /\ \A n \in 1..L : VmaOK(segs[n])
  BY Zenon DEF SegmentsOK
<1>1. PICK f : /\ f[0] = m
               /\ \A n \in 1..L : f[n] = MapFixed(f[n - 1], segs[n])
               /\ MapSegments(m, segs) = f[L]
  <2>1. L \in Nat
    BY <1>0, Zenon
  <2> QED BY <2>1, MapRounds
<1> DEFINE Good(n) ==
             /\ MapsOK(f[n])
             /\ Apt => /\ m \subseteq f[n]
                       /\ \A u \in f[n] : u \in m \/ \E k \in 1..L : Within(u, segs[k])
           S == {n \in Nat : n <= L => Good(n)}
<1>2. 0 \in S
  <2>1. Good(0)
    BY <1>1, Zenon
  <2> HIDE DEF Good
  <2> QED BY <2>1, Zenon
<1>3. ASSUME NEW n \in Nat, n \in S PROVE n + 1 \in S
  <2> SUFFICES ASSUME n + 1 <= L PROVE Good(n + 1)
    OBVIOUS
  <2> DEFINE v == segs[n + 1]
             k == f[n]
             r == f[n + 1]
  <2>1. n + 1 \in 1..L /\ n <= L
    BY <1>0
  <2>2. Good(n)
    <3> HIDE DEF Good
    <3> QED BY <1>3, <2>1, Zenon
  <2>3. VmaOK(v)
    BY <1>0, <2>1, Zenon
  <2>4. r = MapFixed(k, v)
    <3>1. (n + 1) - 1 = n
      OBVIOUS
    <3> QED BY <1>1, <2>1, <3>1, Zenon
  <2> HIDE DEF r
  <2>5. /\ MapsOK(r)
        /\ \A w \in k : ~Overlap(v, w) => w \in r
        /\ \A u \in r : u = v \/ \E w \in k : Within(u, w) /\ (~Overlap(v, w) => u = w)
    <3> HIDE DEF k, v
    <3>1. MapsOK(k)
      BY <2>2, Zenon DEF k
    <3> DEFINE x == MapFixed(k, v)
    <3>2. /\ MapsOK(x)
          /\ \A w \in k : ~Overlap(v, w) => w \in x
          /\ \A u \in x : u = v \/ \E w \in k : /\ Within(u, w)
                                                /\ ~Overlap(v, w) => u = w
      BY <2>3, <3>1, MapFixedOK, Zenon
    <3> QED BY <2>4, <3>2, Zenon
  <2>6. ASSUME Apt
        PROVE  /\ m \subseteq r
               /\ \A u \in r : u \in m \/ \E j \in 1..L : Within(u, segs[j])
    <3>1. /\ m \subseteq k
          /\ \A u \in k : u \in m \/ \E j \in 1..L : Within(u, segs[j])
      BY <2>2, <2>6, Zenon
    <3>2. \A w \in m : ~Overlap(v, w)
      BY <2>1, <2>6, Zenon
    <3>3. m \subseteq r
      BY <2>5, <3>1, <3>2, Zenon
    <3>4. ASSUME NEW u \in r PROVE u \in m \/ \E j \in 1..L : Within(u, segs[j])
      <4>1. \A x \in r : x.start \in Nat /\ x.end \in Nat
        BY <2>5, Powers, SMTT(30) DEF MapsOK, Addresses
      <4>2. \A x \in k : x.start \in Nat /\ x.end \in Nat
        BY <2>2, Powers, SMTT(30) DEF MapsOK, Addresses
      <4>3. \A j \in 1..L : segs[j].start \in Nat /\ segs[j].end \in Nat
        BY <1>0, Powers, SMTT(30) DEF VmaOK, Addresses
      <4>4. CASE u = v
        <5>1. Within(u, segs[n + 1])
          BY <2>1, <4>3, <4>4, SMTT(30) DEF Within
        <5> QED BY <2>1, <5>1, Zenon
      <4>5. CASE u # v
        <5>1. PICK w \in k : Within(u, w) /\ (~Overlap(v, w) => u = w)
          BY <2>5, <4>5, Zenon
        <5>2. CASE w \in m
          BY <3>2, <5>1, <5>2, Zenon
        <5>3. CASE w \notin m
          <6>1. PICK j \in 1..L : Within(w, segs[j])
            BY <3>1, <5>3, Zenon
          <6>2. Within(u, segs[j])
            BY <4>1, <4>2, <4>3, <5>1, <6>1, SMTT(30) DEF Within
          <6> QED BY <6>2, Zenon
        <5> QED BY <5>2, <5>3, Zenon
      <4> QED BY <4>4, <4>5, Zenon
    <3> QED BY <3>3, <3>4, Zenon
  <2> QED BY <2>5, <2>6, Zenon DEF r
<1>4. Good(L)
  <2>1. L \in S
    <3> HIDE DEF S
    <3> QED BY <1>0, <1>2, <1>3, Rounds, Zenon
  <2> HIDE DEF Good
  <2> QED BY <1>0, <2>1
<1> QED BY <1>1, <1>4, Zenon

(* The addresses of mappings. *)
LEMMA MapsAt ==
  ASSUME NEW m, MapsOK(m)
  PROVE  \A v \in m : v.start \in Nat /\ v.end \in Nat /\ v.start < v.end
BY Powers DEF MapsOK, Addresses

(* Fewer mappings are still those of a process. *)
LEMMA FewerMaps ==
  ASSUME NEW m, MapsOK(m), NEW k, k \subseteq m
  PROVE  MapsOK(k)
<1>1. IsFiniteSet(m) /\ k \in SUBSET m
  BY Zenon DEF MapsOK
<1>2. IsFiniteSet(k)
  BY <1>1, FS_Subset, Zenon
<1> QED BY <1>2, Zenon DEF MapsOK

(* pin_elf_mmaps: the segments of a patch in their place. *)
LEMMA PinnedOK ==
  ASSUME NEW dlm, NotEmpty(dlm), NEW list, NEW ds, NEW target, NEW garbage,
         OnPages(list, dlm, target),
         NEW pinned, pinned = pin_elf_mmaps(list, ds, dlm, target, garbage),
         pinned # <<>>
  PROVE  /\ Len(pinned) \in Nat /\ DOMAIN pinned = 1..Len(pinned)
         /\ \A n \in 1..Len(pinned) : VmaOK(pinned[n]) /\ pinned[n].path = dlm.path
<1> DEFINE K == Len(dlm.vmas)
           size == load_size(dlm)
<1>1. PatchOK(dlm)
  BY Zenon DEF OnPages
<1>2. PICK hole \in Nat :
        /\ InReach(target, hole, size)
        /\ DOMAIN pinned = 1..K
        /\ \A n \in DOMAIN pinned :
             /\ pinned[n] = pin_elf_mmap(dlm.vmas[n], hole)
             /\ pinned[n].start \in Nat /\ pinned[n].end \in Nat
             /\ hole <= pinned[n].start
             /\ pinned[n].end <= hole + size
             /\ pinned[n].start % PageSize = 0 /\ pinned[n].end % PageSize = 0
  <2>1. /\ OnPages(list, dlm, target) /\ pinned # <<>>
        /\ pinned = pin_elf_mmaps(list, ds, dlm, target, garbage)
    BY Zenon
  <2>2. PICK hole \in Nat : PinnedInto(pinned, list, ds, dlm, target, garbage, hole)
    BY <2>1, PinnedAt, Zenon
  <2> QED BY <2>2, Zenon DEF PinnedInto
<1>3. size \in Nat /\ K \in Nat /\ DOMAIN dlm.vmas = 1..K
  <2>1. size \in Nat
    BY <1>1, LoadSize, Zenon
  <2>2. dlm.vmas \in Seq([start : Nat, end : Nat, path : {dlm.path}, exec : BOOLEAN])
    BY <1>1, Zenon DEF PatchOK
  <2>3. K \in Nat /\ DOMAIN dlm.vmas = 1..K
    BY <2>2
  <2> QED BY <2>1, <2>3, Zenon
<1>4. Len(pinned) = K
  <2> DEFINE at == process_find_place_for_elf(list, ds, dl_map_jump_hint(target), size,
                                              garbage)
  <2>1. pinned = [n \in DOMAIN dlm.vmas |-> pin_elf_mmap(dlm.vmas[n], at)]
    BY Zenon DEF pin_elf_mmaps
  <2> HIDE DEF at, K
  <2> QED BY <1>3, <2>1
<1>5. hole + size < 2^LongBits /\ 2^LongBits \in Nat
  <2>1. hole + size <= x86_jump_max_address(dl_map_start(target))
    BY <1>2, Zenon DEF InReach, dl_map_check_jump_range
  <2>2. dl_map_start(target) \in Nat /\ X86_64_JUMP_RANGE \in Nat /\ 2^LongBits \in Nat \ {0}
    BY Powers DEF OnPages, TargetOK, Addresses, X86_64_JUMP_RANGE, Half
  <2>3. x86_jump_max_address(dl_map_start(target)) \in 0..(2^LongBits - 1)
    BY <2>2 DEF x86_jump_max_address, Long
  <2> QED BY <1>3, <2>1, <2>2, <2>3, SMTT(30)
<1>6. ASSUME NEW n \in 1..K PROVE VmaOK(pinned[n]) /\ pinned[n].path = dlm.path
  <2> DEFINE w == dlm.vmas[n]
             v == pinned[n]
  <2>1. /\ w \in [start : Nat, end : Nat, path : {dlm.path}, exec : BOOLEAN]
        /\ w.start < w.end
    BY <1>1, ElementOf, Zenon DEF PatchOK, NotEmpty
  <2>2. /\ v = pin_elf_mmap(w, hole)
        /\ v.start \in Nat /\ v.end \in Nat /\ v.end <= hole + size
        /\ v.start % PageSize = 0 /\ v.end % PageSize = 0
    BY <1>2, Zenon
  <2> HIDE DEF w, v
  <2>3. /\ v.path = dlm.path /\ v.start = PageStart(hole + w.start)
        /\ v.end = PageStart(hole + w.start) + (w.end - w.start)
        /\ v = Vma(v.start, v.end, v.path, v.exec)
    BY <2>1, <2>2, Zenon DEF pin_elf_mmap, Vma
  <2>4. v.start < v.end
    <3>1. w.start \in Nat /\ w.end \in Nat
      BY <2>1, Zenon
    <3>2. v.end = v.start + (w.end - w.start)
      BY <2>3, Zenon
    <3> QED BY <2>1, <2>2, <3>1, <3>2, SMTT(30)
  <2>5. v.start \in Addresses /\ v.end \in 0..2^LongBits
    BY <1>3, <1>5, <2>2, <2>4, SMTT(30) DEF Addresses
  <2> QED BY <2>2, <2>3, <2>4, <2>5, Zenon DEF VmaOK, v
<1> QED BY <1>2, <1>3, <1>4, <1>6, Zenon

(* A sequence has its elements. *)
LEMMA Elements ==
  \A S : \A s \in Seq(S) : s \in Seq(Range(s))
<1> SUFFICES ASSUME NEW S, NEW s \in Seq(S) PROVE s \in Seq(Range(s))
  BY Zenon
<1>1. DOMAIN s = 1..Len(s) /\ Len(s) \in Nat /\ s = [n \in 1..Len(s) |-> s[n]]
  OBVIOUS
<1>2. \A n \in 1..Len(s) : s[n] \in Range(s)
  BY <1>1, Zenon DEF Range
<1> QED BY <1>1, <1>2

(* A file without an object is not mapped. *)
LEMMA NotMapped ==
  ASSUME NEW m, MapsOK(m), NEW seen, seen \subseteq m, NEW d, DlmsOf(d, m, seen),
         NEW path, path # NoFile, find_dl_map_by_bid(d, path) = <<>>
  PROVE  \A v \in seen : v.path # path
<1> SUFFICES ASSUME NEW v \in seen, v.path = path PROVE FALSE
  BY Zenon
<1>1. find_dl_map_by_bid(d, v.path) # <<>>
  BY FirstHasAll
<1> QED BY <1>1, Zenon

(* More mappings leave the objects as they are. *)
LEMMA MoreMaps ==
  ASSUME NEW m, NEW k, m \subseteq k, NEW seen, NEW d, DlmsOf(d, m, seen)
  PROVE  DlmsOf(d, k, seen)
<1>1. d \in Seq(Object(k))
  <2>1. Object(m) \subseteq Object(k)
    <3>1. \A s \in Seq(m) : s \in Seq(k)
      OBVIOUS
    <3> QED BY <3>1, Zenon DEF Object
  <2>2. d \in Seq(Object(m))
    BY Zenon DEF DlmsOf
  <2> QED BY <2>1, <2>2
<1> QED BY <1>1, Zenon DEF DlmsOf

(* The list of mappings that iterate_vmas meets. *)
LEMMA InOrder ==
  ASSUME NEW m, MapsOK(m), NEW list \in Seq(m), Ascending(list)
  PROVE  ListOK(list)
<1>1. \A i \in 1..Len(list) : list[i] \in m
  BY ElementOf, Zenon
<1>2. \A v \in m : v.start \in Addresses /\ v.end \in 0..2^LongBits /\ v.start < v.end
  BY Zenon DEF MapsOK
<1>3. ASSUME NEW i \in 1..Len(list), NEW j \in 1..Len(list), i < j
      PROVE  list[i].end <= list[j].start
  <2>1. list[i].start < list[j].start
    BY <1>3, Zenon DEF Ascending
  <2> QED BY <1>1, <2>1, MapsApart, Zenon
<1> QED BY <1>1, <1>2, <1>3, Zenon DEF ListOK

(* process_find_place_for_elf: the place comes after a mapping that is the *)
(* last of its object, and before all that follow this one.                *)
LEMMA PlaceAfter ==
  ASSUME NEW list, list \in Seq(Range(list)), NEW ds, ListOK(list),
         NEW hint \in Nat, NEW size, NEW garbage,
         NEW place, place = process_find_place_for_elf(list, ds, hint, size, garbage),
         place # -1
  PROVE  \E i \in 1..Len(list) : /\ list[i].end <= place
                                 /\ ~Interior(list[i], ds)
                                 /\ \A j \in 1..Len(list) : i < j => place <= list[j].start
<1> DEFINE found == {i \in DOMAIN list : find_hole(list, ds, i, hint, size, garbage)}
           i == Min(found)
<1>1. found # {} /\ place = Max({hint, list[i].end})
  BY Zenon DEF process_find_place_for_elf
<1>2. DOMAIN list = 1..Len(list) /\ Len(list) \in Nat
  OBVIOUS
<1>3. i \in found
  <2>1. found \subseteq Nat
    BY <1>2
  <2> QED BY <1>1, <2>1, MinIsIn, Zenon
<1>4. i \in 1..Len(list) /\ find_hole(list, ds, i, hint, size, garbage)
  BY <1>2, <1>3, Zenon
<1> HIDE DEF found, i
<1>5. NextStart(list, i, garbage) >= hint /\ ~Interior(list[i], ds)
  BY <1>4, Zenon DEF find_hole
<1>6. \A j \in 1..Len(list) : list[j].start \in Nat /\ list[j].end \in Nat
                              /\ list[j].start < list[j].end
  BY Powers, SMTT(30) DEF ListOK, Addresses
<1>7. place = IF hint > list[i].end THEN hint ELSE list[i].end
  BY <1>1, <1>4, <1>6, MaxOfTwo, Zenon
<1>8. list[i].end <= place
  BY <1>4, <1>6, <1>7, SMTT(30)
<1>9. ASSUME NEW j \in 1..Len(list), i < j PROVE place <= list[j].start
  <2>1. i < Len(list) /\ i + 1 \in 1..Len(list)
    BY <1>2, <1>4, <1>9
  <2>2. list[i + 1].start >= hint
    BY <1>5, <2>1, Zenon DEF NextStart
  <2>3. i + 1 = j \/ list[i + 1].end <= list[j].start
    <3>1. i + 1 = j \/ i + 1 < j
      BY <1>2, <1>4, <1>9, SMTT(30)
    <3> QED BY <2>1, <3>1, Zenon DEF ListOK
  <2>4. list[j].start >= hint
    BY <1>6, <2>1, <2>2, <2>3, SMTT(30)
  <2>5. list[i].end <= list[j].start
    BY <1>4, <1>9, Zenon DEF ListOK
  <2> QED BY <1>7, <2>4, <2>5, Zenon
<1> QED BY <1>4, <1>5, <1>8, <1>9, Zenon

(* load_elf on a list in order: the segments are put over no mapping, at a *)
(* place after a mapping that is the last of its object.                   *)
Around(m, list, ds, path, r, hole, size, i) ==
  /\ \A u \in r : \/ u \in m
                  \/ u.path = path /\ hole <= u.start /\ u.end <= hole + size
  /\ \A w \in m : w.end <= hole \/ hole + size <= w.start
  /\ list[i].end <= hole
  /\ ~Interior(list[i], ds)
  /\ \A j \in 1..Len(list) : i < j => hole <= list[j].start

LEMMA PinnedAround ==
  ASSUME NEW m, MapsOK(m), NEW list, list \in Seq(m), Ascending(list), Range(list) = m,
         NEW dlm, NotEmpty(dlm), NEW ds, NEW target, NEW garbage,
         Placing(list, dlm, target, garbage), OnPages(list, dlm, target),
         NEW pinned, pinned = pin_elf_mmaps(list, ds, dlm, target, garbage),
         pinned # <<>>
  PROVE  LET r == MapSegments(m, pinned)
         IN  /\ m \subseteq r
             /\ MapsOK(r)
             /\ \E hole \in Nat, size \in Nat, i \in 1..Len(list) :
                  Around(m, list, ds, dlm.path, r, hole, size, i)
<1> DEFINE r == MapSegments(m, pinned)
           size == load_size(dlm)
           hint == dl_map_jump_hint(target)
<1>1. /\ OnPages(list, dlm, target) /\ pinned # <<>>
      /\ pinned = pin_elf_mmaps(list, ds, dlm, target, garbage)
      /\ NotEmpty(dlm) /\ Placing(list, dlm, target, garbage)
      /\ MapsOK(m) /\ list \in Seq(m) /\ Range(list) = m
  BY Zenon
<1>2. /\ Len(pinned) \in Nat /\ DOMAIN pinned = 1..Len(pinned)
      /\ \A n \in 1..Len(pinned) : VmaOK(pinned[n]) /\ pinned[n].path = dlm.path
  BY <1>1, PinnedOK
<1>3. PICK hole \in Nat :
        /\ hole = process_find_place_for_elf(list, ds, hint, size, garbage)
        /\ \A n \in 1..Len(pinned) : hole <= pinned[n].start /\ pinned[n].end <= hole + size
  <2>1. PICK hole \in Nat : PinnedInto(pinned, list, ds, dlm, target, garbage, hole)
    BY <1>1, PinnedAt, Zenon
  <2> QED BY <1>2, <2>1, ZenonT(30) DEF PinnedInto
<1>4. hint \in Nat /\ size \in Nat
  BY <1>1, HintOnPage, LoadSize, Zenon DEF Placing
<1> HIDE DEF size, hint, r
<1>5. list \in Seq(Range(list)) /\ ListOK(list) /\ garbage \in Addresses /\ hole # -1
  <2>1. list \in Seq(Range(list)) /\ ListOK(list) /\ garbage \in Addresses
    BY <1>1, Zenon DEF Placing
  <2>2. hole # -1
    OBVIOUS
  <2> QED BY <2>1, <2>2, Zenon
<1>6. FreePlace(list, hint, size, hole)
  BY <1>3, <1>4, <1>5, PlaceIsFree, ZenonT(30)
<1>7. PICK i \in 1..Len(list) : /\ list[i].end <= hole
                                /\ ~Interior(list[i], ds)
                                /\ \A j \in 1..Len(list) : i < j => hole <= list[j].start
  BY <1>3, <1>4, <1>5, PlaceAfter, Zenon
<1>8. ASSUME NEW w \in m PROVE w.end <= hole \/ hole + size <= w.start
  <2>1. PICK j \in 1..Len(list) : w = list[j]
    BY <1>1 DEF Range
  <2> QED BY <1>6, <2>1, Zenon DEF FreePlace
<1>9. \A w \in m : w.start \in Nat /\ w.end \in Nat
  BY <1>1, MapsAt, ZenonT(30)
<1>10. \A n \in 1..Len(pinned) : pinned[n].start \in Nat /\ pinned[n].end \in Nat
  BY <1>2, Powers, SMTT(30) DEF VmaOK, Addresses
<1>11. ASSUME NEW w \in m, NEW n \in 1..Len(pinned) PROVE ~Overlap(pinned[n], w)
  <2>1. hole <= pinned[n].start /\ pinned[n].end <= hole + size
    BY <1>3, Zenon
  <2>2. w.end <= hole \/ hole + size <= w.start
    BY <1>8, Zenon
  <2>3. pinned[n].start \in Nat /\ pinned[n].end \in Nat /\ w.start \in Nat /\ w.end \in Nat
    BY <1>9, <1>10, Zenon
  <2> QED BY <1>4, <2>1, <2>2, <2>3, SMTT(30) DEF Overlap
<1>12. SegmentsOK(pinned)
  BY <1>2, Zenon DEF SegmentsOK
<1>13. /\ MapsOK(r) /\ m \subseteq r
       /\ \A u \in r : u \in m \/ \E n \in 1..Len(pinned) : Within(u, pinned[n])
  BY <1>1, <1>11, <1>12, MapSegmentsOK, ZenonT(30) DEF r
<1>14. ASSUME NEW u \in r, u \notin m
       PROVE  u.path = dlm.path /\ hole <= u.start /\ u.end <= hole + size
  <2>1. PICK n \in 1..Len(pinned) : Within(u, pinned[n])
    BY <1>13, <1>14, Zenon
  <2>2. u.path = dlm.path /\ pinned[n].start <= u.start /\ u.end <= pinned[n].end
    BY <1>2, <2>1, Zenon DEF Within
  <2>3. hole <= pinned[n].start /\ pinned[n].end <= hole + size
    BY <1>3, Zenon
  <2>4. u.start \in Nat /\ u.end \in Nat
    BY <1>13, MapsAt, Zenon
  <2> QED BY <1>4, <1>10, <2>2, <2>3, <2>4, SMTT(30)
<1>15. Around(m, list, ds, dlm.path, r, hole, size, i)
  BY <1>7, <1>8, <1>14, ZenonT(30) DEF Around
<1> QED BY <1>4, <1>13, <1>15, Zenon DEF r

(* The list of all mappings, in order. *)
Listed(m, list) ==
  MapsOK(m) /\ list \in Seq(m) /\ Ascending(list) /\ Range(list) = m

(* w is in the place, and between u and v. *)
Inside(w, hole, size, u, v) ==
  /\ w.start \in Nat /\ w.end \in Nat /\ w.start < w.end
  /\ hole <= w.start /\ w.end <= hole + size
  /\ u.end <= w.start /\ w.end <= v.start

(* Two mappings on both sides of a piece of that place: the mapping before *)
(* the place is the lower one of them, or is between them.                 *)
LEMMA OnBothSides ==
  ASSUME NEW m, NEW list, Listed(m, list), NEW ds, NEW path, NEW r,
         NEW hole \in Nat, NEW size \in Nat, NEW i \in 1..Len(list),
         Around(m, list, ds, path, r, hole, size, i),
         NEW u \in m, NEW v \in m, NEW w, Inside(w, hole, size, u, v)
  PROVE  /\ list[i] \in m
         /\ u = list[i] \/ u.end <= list[i].start
         /\ list[i].end <= v.start
         /\ list[i].start < v.start
<1> DEFINE x == list[i]
<1>1. MapsOK(m) /\ list \in Seq(m) /\ Range(list) = m /\ ListOK(list)
  BY InOrder, Zenon DEF Listed
<1>2. /\ u.start \in Nat /\ u.end \in Nat /\ u.start < u.end
      /\ v.start \in Nat /\ v.end \in Nat /\ v.start < v.end
  BY <1>1, MapsAt, Zenon
<1>3. u.end <= hole /\ hole <= v.start
  <2>1. /\ u.end <= hole \/ hole + size <= u.start
        /\ v.end <= hole \/ hole + size <= v.start
    BY Zenon DEF Around
  <2>2. w.start \in Nat /\ w.end \in Nat /\ w.start < w.end
    BY Zenon DEF Inside
  <2>3. hole <= w.start /\ w.end <= hole + size /\ u.end <= w.start /\ w.end <= v.start
    BY Zenon DEF Inside
  <2>4. u.end <= hole
    BY <1>2, <2>1, <2>2, <2>3, SMTT(30)
  <2>5. hole <= v.start
    BY <1>2, <2>1, <2>2, <2>3, SMTT(30)
  <2> QED BY <2>4, <2>5, Zenon
<1>4. x \in m
  BY <1>1, ElementOf, Zenon
<1>5. x.start \in Nat /\ x.end \in Nat /\ x.start < x.end /\ x.end <= hole
  BY <1>1, <1>4, MapsAt, Zenon DEF Around
<1>6. PICK a \in 1..Len(list) : u = list[a]
  <2>1. DOMAIN list = 1..Len(list)
    BY <1>1
  <2> QED BY <1>1, <2>1, Zenon DEF Range
<1>7. ~(i < a)
  <2>1. i < a => hole <= u.start
    BY <1>6, Zenon DEF Around
  <2> QED BY <1>2, <1>3, <2>1
<1>8. a = i \/ a < i
  BY <1>7
<1>9. u = x \/ u.end <= x.start
  BY <1>1, <1>6, <1>8, Zenon DEF ListOK
<1> HIDE DEF x
<1>10. x.end <= v.start /\ x.start < v.start
  BY <1>2, <1>3, <1>5, SMTT(30)
<1> QED BY <1>4, <1>9, <1>10, Zenon DEF x

(* Only segments of the patch are at that place. *)
LEMMA NothingInside ==
  ASSUME NEW m, NEW list, NEW ds, NEW path, NEW r, MapsOK(r), \A y \in m : y.path # path,
         NEW hole \in Nat, NEW size \in Nat, NEW i,
         Around(m, list, ds, path, r, hole, size, i),
         NEW u \in r, NEW v \in r, NEW w \in r,
         u.path = path, v.path = path, w.path # path, u.end <= w.start, w.end <= v.start
  PROVE  FALSE
<1>1. /\ hole <= u.start /\ u.end <= hole + size
      /\ hole <= v.start /\ v.end <= hole + size
  BY Zenon DEF Around
<1>2. w.end <= hole \/ hole + size <= w.start
  BY Zenon DEF Around
<1>3. /\ u.start \in Nat /\ u.end \in Nat /\ u.start < u.end
      /\ v.start \in Nat /\ v.end \in Nat /\ v.start < v.end
      /\ w.start \in Nat /\ w.end \in Nat /\ w.start < w.end
  BY MapsAt, Zenon
<1> QED BY <1>1, <1>2, <1>3, SMTT(30)
=============================================================================
